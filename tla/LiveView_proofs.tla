----------------------------- MODULE LiveView_proofs -----------------------------
(***************************************************************************)
(* Theorems about LiveView for every capacity, size of a batch and bus, for *)
(* every presets of the projects and for every number of frames, captures,  *)
(* edits, clicks and scans that raise.                                      *)
(*                                                                          *)
(* The invariant has two halves.  RunTo says of the buffer and of the table *)
(* that they hold frames of one capture without a gap.  Flow says of the    *)
(* filtered view that its rows, the frames a scan has in hand and those     *)
(* that wait follow each other in the order of the bus, are accepted, and   *)
(* cover every accepted frame of the table up to the last one: a result is  *)
(* only ever put where the frames it was made of have left.  That the       *)
(* frames the views accept are those the test in the editor shows is a      *)
(* theorem about FrameFilters: both evaluate a tree of conditions, one with *)
(* early exits and one without, and one loop over the presets.              *)
(***************************************************************************)
EXTENDS LiveView, FiniteSetTheorems, WellFoundedInduction, SequenceTheorems, TLAPS

-----------------------------------------------------------------------------
(* Induction and recursion over numbers.                                    *)

(* A set of numbers that is not empty has a least one.                     *)
LEMMA LeastNat ==
  ASSUME NEW T, T \subseteq Nat, T # {}
  PROVE  \E x \in T : \A y \in T : x <= y
  <1> DEFINE R == StrictSubsetOrdering(Nat)
             S == FiniteSubsetsOf(Nat)
             F == {0 .. n : n \in T}
  <1>1. IsWellFoundedOn(R, S)
    BY FS_StrictSubsetOrderingWellFounded
  <1>2. \A n \in Nat : 0 .. n \in S
    BY FS_Interval DEF FiniteSubsetsOf
  <1>3. ASSUME NEW m \in Nat, NEW n \in Nat, m < n
        PROVE  <<0 .. m, 0 .. n>> \in R
    <2>1. 0 .. m \subseteq 0 .. n /\ n \in 0 .. n /\ n \notin 0 .. m
      BY <1>3
    <2>2. 0 .. m # 0 .. n
      BY <2>1
    <2> QED
      BY <1>2, <2>1, <2>2 DEF StrictSubsetOrdering, FiniteSubsetsOf
  <1>4. F \subseteq S /\ F # {}
    BY <1>2
  <1> HIDE DEF R, S
  <1>5. \E x \in F : \A y \in F : ~ (<<y, x>> \in R)
    BY <1>1, <1>4, WFMin, Zenon
  <1>6. PICK n \in T : \A m \in T : ~ (<<0 .. m, 0 .. n>> \in R)
    BY <1>5
  <1>7. \A m \in T : ~ (m < n)
    BY <1>3, <1>6, Zenon
  <1> QED
    BY <1>7

(* Induction up to N, from the set of the numbers that are reached.        *)
LEMMA Induction ==
  ASSUME NEW N \in Nat, NEW S, 0 \in S,
         \A n \in 1 .. N : n - 1 \in S => n \in S
  PROVE  \A n \in 0 .. N : n \in S
  <1> SUFFICES ASSUME NEW k \in 0 .. N, k \notin S PROVE FALSE
    OBVIOUS
  <1> DEFINE T == {n \in 0 .. N : n \notin S}
  <1>1. PICK x \in T : \A y \in T : x <= y
    <2>1. T \subseteq Nat /\ T # {}
      OBVIOUS
    <2> HIDE DEF T
    <2> QED
      BY <2>1, LeastNat, Zenon
  <1>2. x \in 1 .. N /\ x - 1 \in 0 .. N
    OBVIOUS
  <1>3. x - 1 \notin T
    BY <1>1, <1>2
  <1> QED
    BY <1>2, <1>3

(* f is what repeated steps from the base give.                            *)
Iterates(f, N, base, step) ==
    f[0] = base /\ \A i \in 1 .. N : f[i] = step[i][f[i - 1]]

(* There is such a function, so a recursive definition has a value.        *)
LEMMA Recursion ==
  ASSUME NEW N \in Nat, NEW S, NEW base \in S, NEW step \in [1 .. N -> [S -> S]]
  PROVE  \E f \in [0 .. N -> S] : Iterates(f, N, base, step)
  <1> DEFINE Def(n, f) == \A i \in 0 .. n : f[i] = IF i = 0 THEN base ELSE step[i][f[i - 1]]
             Built1 == {n \in 0 .. N : \E f \in [0 .. N -> S] : Def(n, f)}
  <1>1. 0 \in Built1
    <2> DEFINE f == [i \in 0 .. N |-> base]
    <2>1. f \in [0 .. N -> S] /\ Def(0, f)
      OBVIOUS
    <2> HIDE DEF Def, f
    <2> QED
      BY <2>1
  <1>2. ASSUME NEW n \in 1 .. N, n - 1 \in Built1 PROVE n \in Built1
    <2>1. PICK f \in [0 .. N -> S] : Def(n - 1, f)
      BY <1>2
    <2> DEFINE g == [f EXCEPT ![n] = step[n][f[n - 1]]]
    <2>2. step[n][f[n - 1]] \in S
      OBVIOUS
    <2>3. g \in [0 .. N -> S]
      BY <2>2
    <2>4. Def(n, g)
      <3> SUFFICES ASSUME NEW i \in 0 .. n
                   PROVE  g[i] = IF i = 0 THEN base ELSE step[i][g[i - 1]]
        OBVIOUS
      <3>1. CASE i = n
        BY <3>1
      <3>2. CASE i # n
        <4>1. g[i] = f[i] /\ (i # 0 => g[i - 1] = f[i - 1]) /\ i \in 0 .. (n - 1)
          BY <3>2
        <4> QED
          BY <2>1, <4>1
      <3> QED
        BY <3>1, <3>2
    <2> HIDE DEF Def, g
    <2> QED
      BY <2>3, <2>4
  <1>3. N \in Built1
    <2> HIDE DEF Built1
    <2>1. \A n \in 0 .. N : n \in Built1
      BY <1>1, <1>2, Induction, Zenon
    <2> QED
      BY <2>1
  <1>4. PICK f \in [0 .. N -> S] : Def(N, f)
    BY <1>3
  <1>5. Iterates(f, N, base, step)
    BY <1>4 DEF Iterates
  <1> QED
    BY <1>5

(* What holds of the base and is kept by each step holds of every value.   *)
LEMMA IterateType ==
  ASSUME NEW N \in Nat, NEW S, NEW f, f[0] \in S,
         \A i \in 1 .. N : f[i - 1] \in S => f[i] \in S
  PROVE  \A i \in 0 .. N : f[i] \in S
  <1> DEFINE T == {i \in 0 .. N : f[i] \in S}
  <1>1. 0 \in T /\ \A i \in 1 .. N : i - 1 \in T => i \in T
    OBVIOUS
  <1> HIDE DEF T
  <1>2. \A i \in 0 .. N : i \in T
    BY <1>1, Induction, Zenon
  <1> QED
    BY <1>2 DEF T

-----------------------------------------------------------------------------
(* What Kept makes of a sequence.                                           *)

(* The elements of a sequence.                                              *)
Els(s) == {s[i] : i \in 1 .. Len(s)}

(* Frames in the order of the bus.                                          *)
Rising(s) == \A i, j \in 1 .. Len(s) : i < j => s[i].sequence < s[j].sequence

(* Every frame of s is before every frame of t.                             *)
Precedes(s, t) == \A x \in Els(s), y \in Els(t) : x.sequence < y.sequence

(* f is what Kept has kept so far.                                          *)
KeepsIn(f, T, s, keep) ==
    /\ f \in [0 .. Len(s) -> Seq(T)]
    /\ f[0] = <<>> /\ Kept(s, keep) = f[Len(s)]
    /\ \A i \in 1 .. Len(s) : f[i] = IF s[i] \in keep THEN Append(f[i - 1], s[i])
                                                    ELSE f[i - 1]

(* Kept takes one element after another.                                    *)
LEMMA KeptIterates ==
  ASSUME NEW T, NEW s \in Seq(T), NEW keep
  PROVE  \E f : KeepsIn(f, T, s, keep)
  <1> DEFINE N == Len(s)
             S == Seq(T)
             Take(q, i) == IF s[i] \in keep THEN Append(q, s[i]) ELSE q
             P(f) == f = [i \in 0 .. N |-> IF i = 0 THEN <<>> ELSE Take(f[i - 1], i)]
             step == [i \in 1 .. N |-> [q \in S |-> Take(q, i)]]
  <1>1. N \in Nat /\ <<>> \in S
    OBVIOUS
  <1>2. step \in [1 .. N -> [S -> S]]
    <2>1. ASSUME NEW i \in 1 .. N, NEW q \in S PROVE Take(q, i) \in S
      <3>1. s[i] \in T
        OBVIOUS
      <3> QED
        BY <3>1
    <2> HIDE DEF Take, S, N
    <2> QED
      BY <2>1
  <1>3. PICK f \in [0 .. N -> S] : Iterates(f, N, <<>>, step)
    <2> HIDE DEF step, N, S
    <2> QED
      BY <1>1, <1>2, Recursion, Zenon
  <1>4. P(f)
    <2> SUFFICES ASSUME NEW i \in 0 .. N
                 PROVE  f[i] = IF i = 0 THEN <<>> ELSE Take(f[i - 1], i)
      BY <1>3
    <2>1. i # 0 => i \in 1 .. N /\ f[i - 1] \in S
      <3> HIDE DEF N, step, P, S, Take
      <3>1. i # 0 => i \in 1 .. N /\ i - 1 \in 0 .. N
        BY <1>1
      <3> QED
        BY <3>1
    <2> HIDE DEF N, S, Take
    <2> QED
      BY <1>3, <2>1 DEF Iterates
  <1> DEFINE F == CHOOSE f1 : P(f1)
  <1>5. P(F)
    <2> HIDE DEF P
    <2> QED
      BY <1>4
  <1>6. Kept(s, keep) = F[N]
    BY Zenon DEF Kept
  <1>7. F[0] = <<>> /\ \A i \in 1 .. N : F[i] = Take(F[i - 1], i)
    <2> HIDE DEF F, Take, N
    <2>1. ASSUME NEW i \in 1 .. N PROVE F[i] = Take(F[i - 1], i)
      BY <1>1, <1>5
    <2> QED
      BY <1>1, <1>5, <2>1
  <1>8. F = [i \in 0 .. N |-> F[i]]
    <2> HIDE DEF F, Take, N
    <2>1. DOMAIN F = 0 .. N
      BY <1>5
    <2> QED
      BY <1>5, <2>1
  <1>9. F \in [0 .. N -> S]
    <2> HIDE DEF F
    <2>1. ASSUME NEW i \in 1 .. N, F[i - 1] \in S PROVE F[i] \in S
      <3>1. s[i] \in T /\ F[i] = Take(F[i - 1], i)
        BY <1>7
      <3> DEFINE q == F[i - 1]
      <3>2. q \in Seq(T)
        BY <2>1
      <3> HIDE DEF q
      <3>3. Append(q, s[i]) \in Seq(T)
        BY <3>1, <3>2
      <3> QED
        BY <3>1, <3>2, <3>3 DEF q
    <2> HIDE DEF N, S, Take
    <2>2. \A i \in 0 .. N : F[i] \in S
      BY <1>1, <1>7, <2>1, IterateType, Zenon
    <2> QED
      BY <1>8, <2>2
  <1> HIDE DEF F
  <1>10. KeepsIn(F, T, s, keep)
    BY <1>6, <1>7, <1>9 DEF KeepsIn
  <1> QED
    BY <1>10

(* One element more.                                                        *)
LEMMA ElsAppend ==
  ASSUME NEW T, NEW s \in Seq(T), NEW x \in T
  PROVE  Els(Append(s, x)) = Els(s) \cup {x}
  <1> DEFINE r == Append(s, x)
  <1>1. /\ Len(s) \in Nat /\ Len(r) = Len(s) + 1 /\ r[Len(s) + 1] = x
        /\ \A i \in 1 .. Len(s) : r[i] = s[i]
    OBVIOUS
  <1> HIDE DEF r
  <1>2. ASSUME NEW y \in Els(r) PROVE y \in Els(s) \cup {x}
    <2>1. PICK i \in 1 .. Len(r) : y = r[i]
      BY DEF Els
    <2>2. i \in 1 .. Len(s) \/ i = Len(s) + 1
      BY <1>1
    <2> QED
      BY <1>1, <2>1, <2>2 DEF Els
  <1>3. ASSUME NEW y \in Els(s) \cup {x} PROVE y \in Els(r)
    <2>1. \A i \in 1 .. Len(s) : i \in 1 .. Len(r)
      BY <1>1
    <2>2. Len(s) + 1 \in 1 .. Len(r)
      BY <1>1
    <2> QED
      BY <1>1, <2>1, <2>2 DEF Els
  <1> QED
    BY <1>2, <1>3 DEF r

(* What Kept keeps.                                                         *)
LEMMA KeptEls ==
  ASSUME NEW T, NEW s \in Seq(T), NEW keep
  PROVE  /\ Kept(s, keep) \in Seq(T)
         /\ Els(Kept(s, keep)) = {x \in Els(s) : x \in keep}
  <1> DEFINE N == Len(s)
  <1>0. PICK f : KeepsIn(f, T, s, keep)
    BY KeptIterates, Zenon
  <1>1. /\ f \in [0 .. N -> Seq(T)] /\ f[0] = <<>> /\ Kept(s, keep) = f[N]
        /\ \A i \in 1 .. N : f[i] = IF s[i] \in keep THEN Append(f[i - 1], s[i])
                                                    ELSE f[i - 1]
    BY <1>0 DEF KeepsIn
  <1> DEFINE Good1 == {i \in 0 .. N : Els(f[i]) = {x \in {s[j] : j \in 1 .. i} : x \in keep}}
  <1>2. N \in Nat
    OBVIOUS
  <1>3. 0 \in Good1
    BY <1>1, <1>2 DEF Els
  <1>4. ASSUME NEW i \in 1 .. N, i - 1 \in Good1 PROVE i \in Good1
    <2>1. i - 1 \in 0 .. N /\ i \in 0 .. N /\ f[i - 1] \in Seq(T) /\ s[i] \in T
      <3>1. i - 1 \in 0 .. N /\ i \in 0 .. N
        BY <1>2
      <3>2. f[i - 1] \in Seq(T)
        <4> HIDE DEF N
        <4> QED
          BY <1>1, <3>1
      <3> QED
        BY <3>1, <3>2
    <2>2. {s[j] : j \in 1 .. i} = {s[j] : j \in 1 .. i - 1} \cup {s[i]}
      BY <2>1
    <2>3. Els(Append(f[i - 1], s[i])) = Els(f[i - 1]) \cup {s[i]}
      BY <2>1, ElsAppend
    <2> HIDE DEF N
    <2> QED
      BY <1>1, <1>4, <2>1, <2>2, <2>3
  <1>5. N \in Good1
    <2> HIDE DEF Good1, N
    <2>1. \A i \in 0 .. N : i \in Good1
      BY <1>2, <1>3, <1>4, Induction, Zenon
    <2> QED
      BY <1>2, <2>1
  <1>6. f[N] \in Seq(T)
    BY <1>1, <1>2
  <1> QED
    BY <1>1, <1>5, <1>6 DEF Els

(* The elements are of the type of the sequence.                            *)
LEMMA ElsType ==
  ASSUME NEW T, NEW s \in Seq(T)
  PROVE  /\ Els(s) \subseteq T /\ (Els(s) = {} <=> s = <<>>)
         /\ \A i \in 1 .. Len(s) : s[i] \in Els(s) /\ s[i] \in T
  BY DEF Els

(* Frames that are kept stay in their order.                                *)
LEMMA KeptRising ==
  ASSUME NEW s \in Seq(LiveFrame), NEW keep, Rising(s)
  PROVE  Rising(Kept(s, keep))
  <1> DEFINE N == Len(s)
  <1>0. PICK f : KeepsIn(f, LiveFrame, s, keep)
    BY KeptIterates, Zenon
  <1>1. /\ f \in [0 .. N -> Seq(LiveFrame)] /\ f[0] = <<>> /\ Kept(s, keep) = f[N]
        /\ \A i \in 1 .. N : f[i] = IF s[i] \in keep THEN Append(f[i - 1], s[i])
                                                    ELSE f[i - 1]
    BY <1>0 DEF KeepsIn
  <1> DEFINE Good1 == {i \in 0 .. N : Rising(f[i]) /\ \A x \in Els(f[i]) :
                           x \in LiveFrame /\ \E j \in 1 .. i : x = s[j]}
  <1>2. N \in Nat
    OBVIOUS
  <1>3. 0 \in Good1
    BY <1>1, <1>2 DEF Els, Rising
  <1>4. ASSUME NEW i \in 1 .. N, i - 1 \in Good1 PROVE i \in Good1
    <2>1. i - 1 \in 0 .. N /\ i \in 0 .. N /\ f[i - 1] \in Seq(LiveFrame) /\ s[i] \in LiveFrame
      <3>1. i - 1 \in 0 .. N /\ i \in 0 .. N
        BY <1>2
      <3>2. f[i - 1] \in Seq(LiveFrame)
        <4> HIDE DEF N
        <4> QED
          BY <1>1, <3>1
      <3> QED
        BY <3>1, <3>2
    <2>2. Els(Append(f[i - 1], s[i])) = Els(f[i - 1]) \cup {s[i]}
      BY <2>1, ElsAppend
    <2>3. \A x \in Els(f[i - 1]) : x.sequence < s[i].sequence
      <3> SUFFICES ASSUME NEW x \in Els(f[i - 1]) PROVE x.sequence < s[i].sequence
        OBVIOUS
      <3>1. PICK j \in 1 .. (i - 1) : x = s[j]
        BY <1>4
      <3>2. j \in 1 .. N /\ j < i
        BY <2>1
      <3> QED
        BY <3>1, <3>2 DEF Rising
    <2>4. Rising(Append(f[i - 1], s[i]))
      <3> DEFINE q == f[i - 1]
                 r == Append(q, s[i])
      <3>1. q \in Seq(LiveFrame) /\ Rising(q) /\ \A x \in Els(q) : x.sequence < s[i].sequence
        BY <1>4, <2>1, <2>3
      <3>2. Len(r) = Len(q) + 1 /\ r[Len(q) + 1] = s[i] /\ \A k \in 1 .. Len(q) : r[k] = q[k] /\ r[k] \in Els(q)
        BY <2>1 DEF Els
      <3> HIDE DEF q, r
      <3>3. ASSUME NEW k \in 1 .. Len(r), NEW l \in 1 .. Len(r), k < l
            PROVE  r[k].sequence < r[l].sequence
        <4>1. Len(q) \in Nat
          BY <3>1
        <4>2. k \in 1 .. Len(q)
          BY <4>1, <3>2, <3>3
        <4>3. CASE l = Len(q) + 1
          BY <4>2, <4>3, <3>1, <3>2
        <4>4. CASE l # Len(q) + 1
          <5>1. l \in 1 .. Len(q)
            BY <4>1, <4>4, <3>2
          <5>2. q[k].sequence < q[l].sequence
            BY <5>1, <4>2, <3>1, <3>3 DEF Rising
          <5> QED
            BY <5>1, <5>2, <4>2, <3>2
        <4> QED
          BY <4>3, <4>4
      <3> QED
        BY <3>3 DEF Rising, r, q
    <2>5. ASSUME NEW x \in Els(f[i]) PROVE x \in LiveFrame /\ \E j \in 1 .. i : x = s[j]
      <3>1. x \in Els(f[i - 1]) \/ x = s[i]
        BY <1>1, <2>2, <2>5
      <3>2. CASE x = s[i]
        BY <2>1, <3>2
      <3>3. CASE x \in Els(f[i - 1])
        <4>1. PICK j \in 1 .. (i - 1) : x = s[j]
          BY <3>3, <1>4
        <4>2. j \in 1 .. i
          BY <2>1
        <4> QED
          BY <1>4, <3>3, <4>1, <4>2
      <3> QED
        BY <3>1, <3>2, <3>3
    <2>6. Rising(f[i])
      BY <1>1, <1>4, <2>4
    <2> HIDE DEF N
    <2> QED
      BY <2>1, <2>5, <2>6
  <1>5. N \in Good1
    <2> HIDE DEF Good1, N
    <2>1. \A i \in 0 .. N : i \in Good1
      BY <1>2, <1>3, <1>4, Induction, Zenon
    <2> QED
      BY <1>2, <2>1
  <1> QED
    BY <1>1, <1>5

(* Two sequences in the order of the bus with the same frames are the same. *)
LEMMA SameEls ==
  ASSUME NEW s \in Seq(LiveFrame), NEW t \in Seq(LiveFrame), Rising(s), Rising(t),
         Els(s) = Els(t)
  PROVE  s = t
  <1>1. Len(s) \in Nat /\ Len(t) \in Nat
    OBVIOUS
  <1>2. /\ \A i \in 1 .. Len(s) : s[i] \in LiveFrame /\ s[i].sequence \in Nat
        /\ \A i \in 1 .. Len(t) : t[i] \in LiveFrame /\ t[i].sequence \in Nat
    <2>1. \A i \in 1 .. Len(s) : s[i] \in LiveFrame
      BY ElsType, Zenon
    <2>2. \A i \in 1 .. Len(t) : t[i] \in LiveFrame
      BY ElsType, Zenon
    <2> QED
      BY <2>1, <2>2 DEF LiveFrame
  <1>3. /\ \A i \in 1 .. Len(s) : \E j \in 1 .. Len(t) : s[i] = t[j]
        /\ \A i \in 1 .. Len(t) : \E j \in 1 .. Len(s) : t[i] = s[j]
    BY DEF Els
  <1> DEFINE Bad == {i \in 1 .. Len(s) : i \in 1 .. Len(t) /\ s[i] # t[i]}
  <1>4. \A i \in 1 .. Len(s) : i \in 1 .. Len(t) => s[i] = t[i]
    <2> SUFFICES ASSUME Bad # {} PROVE FALSE
      OBVIOUS
    <2>1. PICK k \in Bad : \A i \in Bad : k <= i
      <3>1. Bad \subseteq Nat
        OBVIOUS
      <3> HIDE DEF Bad
      <3> QED
        BY <3>1, LeastNat, Zenon
    <2>2. k \in 1 .. Len(s) /\ k \in 1 .. Len(t) /\ s[k] # t[k]
      OBVIOUS
    <2>3. \A i \in 1 .. (k - 1) : i \in 1 .. Len(s) /\ i \in 1 .. Len(t) /\ s[i] = t[i]
      BY <1>1, <2>1, <2>2
    <2>4. s[k].sequence < t[k].sequence
      <3>1. PICK j \in 1 .. Len(s) : t[k] = s[j]
        BY <1>3, <2>2
      <3>2. ~(j < k)
        <4> SUFFICES ASSUME j < k PROVE FALSE
          OBVIOUS
        <4>1. s[j] = t[j] /\ j \in 1 .. Len(t)
          BY <2>3, <2>2
        <4>2. t[j].sequence < t[k].sequence
          BY <4>1, <2>2 DEF Rising
        <4> QED
          BY <4>1, <4>2, <3>1, <1>2
      <3>3. j # k /\ j > k
        BY <3>1, <3>2, <2>2
      <3>4. s[k].sequence < s[j].sequence
        BY <3>3, <2>2 DEF Rising
      <3> QED
        BY <3>4, <3>1, <2>2, <1>2
    <2>5. t[k].sequence < s[k].sequence
      <3>1. PICK j \in 1 .. Len(t) : s[k] = t[j]
        BY <1>3, <2>2
      <3>2. ~(j < k)
        <4> SUFFICES ASSUME j < k PROVE FALSE
          OBVIOUS
        <4>1. s[j] = t[j] /\ j \in 1 .. Len(s)
          BY <2>3, <2>2
        <4>2. s[j].sequence < s[k].sequence
          BY <4>1, <2>2 DEF Rising
        <4> QED
          BY <4>1, <4>2, <3>1, <1>2
      <3>3. j # k /\ j > k
        BY <3>1, <3>2, <2>2
      <3>4. t[k].sequence < t[j].sequence
        BY <3>3, <2>2 DEF Rising
      <3> QED
        BY <3>4, <3>1, <2>2, <1>2
    <2> QED
      BY <2>2, <2>4, <2>5, <1>2
  <1>5. Len(s) = Len(t)
    <2>1. ASSUME Len(s) < Len(t) PROVE FALSE
      <3> DEFINE k == Len(s) + 1
      <3>1. k \in 1 .. Len(t)
        BY <1>1, <2>1
      <3>2. PICK j \in 1 .. Len(s) : t[k] = s[j]
        BY <1>3, <3>1
      <3>3. j \in 1 .. Len(t) /\ j < k /\ t[k] = t[j]
        BY <1>1, <1>4, <2>1, <3>2
      <3> HIDE DEF k
      <3>4. t[j].sequence < t[k].sequence
        BY <3>1, <3>3 DEF Rising
      <3> QED
        BY <3>1, <3>3, <3>4, <1>2
    <2>2. ASSUME Len(t) < Len(s) PROVE FALSE
      <3> DEFINE k == Len(t) + 1
      <3>1. k \in 1 .. Len(s)
        BY <1>1, <2>2
      <3>2. PICK j \in 1 .. Len(t) : s[k] = t[j]
        BY <1>3, <3>1
      <3>3. j \in 1 .. Len(s) /\ j < k /\ s[k] = s[j]
        BY <1>1, <1>4, <2>2, <3>2
      <3> HIDE DEF k
      <3>4. s[j].sequence < s[k].sequence
        BY <3>1, <3>3 DEF Rising
      <3> QED
        BY <3>1, <3>3, <3>4, <1>2
    <2> QED
      BY <1>1, <2>1, <2>2
  <1> QED
    BY <1>4, <1>5

(* The elements of two sequences.                                           *)
LEMMA ElsConcat ==
  ASSUME NEW T, NEW s \in Seq(T), NEW t \in Seq(T)
  PROVE  s \o t \in Seq(T) /\ Els(s \o t) = Els(s) \cup Els(t)
  <1> DEFINE r == s \o t
  <1>1. /\ r \in Seq(T) /\ Len(s) \in Nat /\ Len(t) \in Nat /\ Len(r) = Len(s) + Len(t)
        /\ \A i \in 1 .. Len(s) : r[i] = s[i]
        /\ \A i \in 1 .. Len(t) : r[Len(s) + i] = t[i]
    OBVIOUS
  <1> HIDE DEF r
  <1>2. ASSUME NEW y \in Els(r) PROVE y \in Els(s) \cup Els(t)
    <2>1. PICK i \in 1 .. Len(r) : y = r[i]
      BY DEF Els
    <2>2. CASE i \in 1 .. Len(s)
      BY <1>1, <2>1, <2>2 DEF Els
    <2>3. CASE i \notin 1 .. Len(s)
      <3>1. i - Len(s) \in 1 .. Len(t) /\ Len(s) + (i - Len(s)) = i
        BY <1>1, <2>3
      <3>2. r[i] = t[i - Len(s)]
        BY <1>1, <3>1
      <3> QED
        BY <2>1, <3>1, <3>2 DEF Els
    <2> QED
      BY <2>2, <2>3
  <1>3. ASSUME NEW y \in Els(s) PROVE y \in Els(r)
    <2>1. PICK i \in 1 .. Len(s) : y = s[i]
      BY DEF Els
    <2>2. i \in 1 .. Len(r)
      BY <1>1
    <2> QED
      BY <1>1, <2>1, <2>2 DEF Els
  <1>4. ASSUME NEW y \in Els(t) PROVE y \in Els(r)
    <2>1. PICK i \in 1 .. Len(t) : y = t[i]
      BY DEF Els
    <2>2. Len(s) + i \in 1 .. Len(r)
      BY <1>1
    <2> QED
      BY <1>1, <2>1, <2>2 DEF Els
  <1> QED
    BY <1>1, <1>2, <1>3, <1>4 DEF r

(* Two sequences in the order of the bus, one before the other.             *)
LEMMA RisingConcat ==
  ASSUME NEW s \in Seq(LiveFrame), NEW t \in Seq(LiveFrame),
         Rising(s), Rising(t), Precedes(s, t)
  PROVE  Rising(s \o t)
  <1> DEFINE r == s \o t
  <1>1. /\ Len(s) \in Nat /\ Len(t) \in Nat /\ Len(r) = Len(s) + Len(t)
        /\ \A i \in 1 .. Len(s) : r[i] = s[i]
        /\ \A i \in 1 .. Len(t) : r[Len(s) + i] = t[i]
    OBVIOUS
  <1> HIDE DEF r
  <1>2. ASSUME NEW i \in 1 .. Len(r), NEW j \in 1 .. Len(r), i < j
        PROVE  r[i].sequence < r[j].sequence
    <2>1. CASE j \in 1 .. Len(s)
      <3>1. i \in 1 .. Len(s)
        BY <1>2, <2>1, <1>1
      <3> QED
        BY <1>1, <1>2, <2>1, <3>1 DEF Rising
    <2>2. CASE j \notin 1 .. Len(s)
      <3> DEFINE l == j - Len(s)
      <3>1. l \in 1 .. Len(t) /\ Len(s) + l = j
        BY <1>1, <2>2
      <3>2. r[j] = t[l] /\ t[l] \in Els(t)
        BY <1>1, <3>1 DEF Els
      <3>3. CASE i \in 1 .. Len(s)
        <4>1. r[i] = s[i] /\ s[i] \in Els(s)
          BY <1>1, <3>3 DEF Els
        <4> QED
          BY <3>2, <4>1 DEF Precedes
      <3>4. CASE i \notin 1 .. Len(s)
        <4> DEFINE k == i - Len(s)
        <4>1. k \in 1 .. Len(t) /\ Len(s) + k = i /\ k < l
          BY <1>1, <1>2, <3>4
        <4>2. r[i] = t[k]
          BY <1>1, <4>1
        <4> HIDE DEF k, l
        <4> QED
          BY <3>1, <3>2, <4>1, <4>2 DEF Rising
      <3> QED
        BY <3>3, <3>4
    <2> QED
      BY <2>1, <2>2
  <1> QED
    BY <1>2 DEF Rising, r

(* A sequence that is cut in two.                                           *)
LEMMA CutType ==
  ASSUME NEW T, NEW s \in Seq(T), NEW n \in 0 .. Len(s)
  PROVE  /\ SubSeq(s, 1, n) \in Seq(T) /\ Len(SubSeq(s, 1, n)) = n
         /\ \A i \in 1 .. n : SubSeq(s, 1, n)[i] = s[i]
         /\ Drop(s, n) \in Seq(T) /\ Len(Drop(s, n)) = Len(s) - n
         /\ \A i \in 1 .. Len(s) - n : Drop(s, n)[i] = s[i + n]
  <1>1. Len(s) \in Nat /\ n \in Nat /\ n <= Len(s)
    OBVIOUS
  <1>2. /\ SubSeq(s, 1, n) \in Seq(T) /\ Len(SubSeq(s, 1, n)) = n
        /\ \A i \in 1 .. n : SubSeq(s, 1, n)[i] = s[i]
    BY <1>1, SubSeqProperties, SMTT(30)
  <1>3. /\ Drop(s, n) \in Seq(T) /\ Len(Drop(s, n)) = Len(s) - n
    BY <1>1, SubSeqProperties, SMTT(30) DEF Drop
  <1>4. \A i \in 1 .. Len(s) - n : Drop(s, n)[i] = s[i + n]
    BY <1>1, SubSeqProperties, SMTT(30) DEF Drop
  <1> QED
    BY <1>2, <1>3, <1>4

(* A sequence in order, cut in two.                                         *)
LEMMA Cut ==
  ASSUME NEW s \in Seq(LiveFrame), NEW n \in 0 .. Len(s), Rising(s)
  PROVE  /\ Els(s) = Els(SubSeq(s, 1, n)) \cup Els(Drop(s, n))
         /\ Rising(SubSeq(s, 1, n)) /\ Rising(Drop(s, n))
         /\ Precedes(SubSeq(s, 1, n), Drop(s, n))
  <1> DEFINE a == SubSeq(s, 1, n)
             b == Drop(s, n)
  <1>1. /\ a \in Seq(LiveFrame) /\ Len(a) = n /\ \A i \in 1 .. n : a[i] = s[i]
        /\ b \in Seq(LiveFrame) /\ Len(b) = Len(s) - n
        /\ \A i \in 1 .. Len(s) - n : b[i] = s[i + n]
    BY CutType
  <1>2. Len(s) \in Nat /\ n \in Nat /\ n <= Len(s)
    OBVIOUS
  <1> HIDE DEF a, b
  <1>3. /\ \A i \in 1 .. n : i \in 1 .. Len(s)
        /\ \A i \in 1 .. Len(s) - n : i + n \in 1 .. Len(s) /\ i + n > n
    BY <1>2
  <1>4. ASSUME NEW x \in Els(a) PROVE \E i \in 1 .. n : x = s[i]
    BY <1>1, <1>4 DEF Els
  <1>5. ASSUME NEW x \in Els(b) PROVE \E i \in 1 .. Len(s) : i > n /\ x = s[i]
    <2>1. PICK i \in 1 .. Len(b) : x = b[i]
      BY <1>5 DEF Els
    <2>2. i \in 1 .. Len(s) - n
      BY <1>1
    <2> QED
      BY <1>1, <1>3, <2>1, <2>2
  <1>6. ASSUME NEW x \in Els(s) PROVE x \in Els(a) \cup Els(b)
    <2>1. PICK i \in 1 .. Len(s) : x = s[i]
      BY DEF Els
    <2>2. CASE i <= n
      <3>1. i \in 1 .. n
        BY <1>2, <2>2
      <3> QED
        BY <3>1, <2>1, <1>1 DEF Els
    <2>3. CASE ~(i <= n)
      <3>1. i - n \in 1 .. Len(s) - n /\ (i - n) + n = i
        BY <1>2, <2>3
      <3>2. b[i - n] = s[i]
        BY <1>1, <3>1
      <3> QED
        BY <3>1, <3>2, <2>1, <1>1 DEF Els
    <2> QED
      BY <2>2, <2>3
  <1>7. Els(s) = Els(a) \cup Els(b)
    <2>1. \A x \in Els(a) : x \in Els(s)
      BY <1>3, <1>4 DEF Els
    <2>2. \A x \in Els(b) : x \in Els(s)
      BY <1>5 DEF Els
    <2> QED
      BY <1>6, <2>1, <2>2
  <1>8. Rising(a)
    BY <1>1, <1>3 DEF Rising
  <1>9. Rising(b)
    <2> SUFFICES ASSUME NEW i \in 1 .. Len(b), NEW j \in 1 .. Len(b), i < j
                 PROVE  b[i].sequence < b[j].sequence
      BY DEF Rising
    <2>1. i \in 1 .. Len(s) - n /\ j \in 1 .. Len(s) - n /\ i + n < j + n
      BY <1>1, <1>2
    <2>2. b[i] = s[i + n] /\ b[j] = s[j + n] /\ i + n \in 1 .. Len(s) /\ j + n \in 1 .. Len(s)
      BY <1>1, <1>3, <2>1
    <2> QED
      BY <2>1, <2>2 DEF Rising
  <1>10. Precedes(a, b)
    <2> SUFFICES ASSUME NEW x \in Els(a), NEW y \in Els(b) PROVE x.sequence < y.sequence
      BY DEF Precedes
    <2>1. PICK i \in 1 .. n : x = s[i]
      BY <1>4
    <2>2. PICK j \in 1 .. Len(s) : j > n /\ y = s[j]
      BY <1>5
    <2>3. i \in 1 .. Len(s) /\ i < j
      BY <1>2, <2>2
    <2> QED
      BY <2>1, <2>2, <2>3 DEF Rising
  <1> QED
    BY <1>7, <1>8, <1>9, <1>10 DEF a, b

(* The newest frames of a rising sequence are its end.                      *)
LEMMA NewestAreEnd ==
  ASSUME NEW s \in Seq(LiveFrame), NEW t \in Seq(LiveFrame), Rising(s), Rising(t),
         NEW c \in Int, Els(s) = {x \in Els(t) : c <= x.sequence}
  PROVE  IsSuffix2(s, t)
  <1>1. Len(t) \in Nat /\ Len(s) \in Nat
    OBVIOUS
  <1>2. \A i \in 1 .. Len(t) : t[i] \in LiveFrame /\ t[i].sequence \in Nat
    <2>1. \A i \in 1 .. Len(t) : t[i] \in LiveFrame
      BY ElsType, Zenon
    <2> QED
      BY <2>1 DEF LiveFrame
  <1> DEFINE New == {i \in 1 .. Len(t) + 1 : i = Len(t) + 1 \/ c <= t[i].sequence}
  <1>3. PICK k \in New : \A i \in New : k <= i
    <2>1. New \subseteq Nat /\ Len(t) + 1 \in New
      BY <1>1
    <2> HIDE DEF New
    <2> QED
      BY <2>1, LeastNat, Zenon
  <1>4. k \in 1 .. Len(t) + 1 /\ k - 1 \in 0 .. Len(t)
    BY <1>1
  <1> DEFINE a == SubSeq(t, 1, k - 1)
             b == Drop(t, k - 1)
  <1>5. /\ Els(t) = Els(a) \cup Els(b) /\ Rising(b) /\ Precedes(a, b)
        /\ a \in Seq(LiveFrame) /\ b \in Seq(LiveFrame) /\ Len(b) = Len(t) - (k - 1)
        /\ Len(a) = k - 1 /\ \A i \in 1 .. k - 1 : a[i] = t[i]
        /\ \A i \in 1 .. Len(t) - (k - 1) : b[i] = t[i + (k - 1)]
    <2> DEFINE m == k - 1
    <2>1. m \in 0 .. Len(t)
      BY <1>4
    <2> HIDE DEF m
    <2>2. /\ Els(t) = Els(SubSeq(t, 1, m)) \cup Els(Drop(t, m))
          /\ Rising(Drop(t, m)) /\ Precedes(SubSeq(t, 1, m), Drop(t, m))
      BY <2>1, Cut, Zenon
    <2>3. /\ SubSeq(t, 1, m) \in Seq(LiveFrame) /\ Len(SubSeq(t, 1, m)) = m
          /\ \A i \in 1 .. m : SubSeq(t, 1, m)[i] = t[i]
          /\ Drop(t, m) \in Seq(LiveFrame) /\ Len(Drop(t, m)) = Len(t) - m
          /\ \A i \in 1 .. Len(t) - m : Drop(t, m)[i] = t[i + m]
      BY <2>1, CutType, Zenon
    <2> QED
      BY <2>2, <2>3, Zenon DEF m
  <1> HIDE DEF a, b
  <1>6. \A x \in Els(a) : ~(c <= x.sequence)
    <2> SUFFICES ASSUME NEW x \in Els(a) PROVE ~(c <= x.sequence)
      OBVIOUS
    <2>1. PICK i \in 1 .. k - 1 : x = t[i]
      BY <1>5 DEF Els
    <2>2. i \in 1 .. Len(t) /\ i \in 1 .. Len(t) + 1 /\ i < k
      BY <1>1, <1>4
    <2>3. i \notin New
      BY <1>3, <2>2
    <2> QED
      BY <2>1, <2>2, <2>3
  <1>7. \A x \in Els(b) : c <= x.sequence
    <2> SUFFICES ASSUME NEW x \in Els(b) PROVE c <= x.sequence
      OBVIOUS
    <2>1. PICK i \in 1 .. Len(t) - (k - 1) : x = t[i + (k - 1)]
      BY <1>5 DEF Els
    <2>2. i + (k - 1) \in 1 .. Len(t) /\ i + (k - 1) >= k /\ k \in 1 .. Len(t)
      BY <1>1, <1>4
    <2>3. c <= t[k].sequence
      BY <1>1, <1>3, <2>2
    <2>4. t[k].sequence <= t[i + (k - 1)].sequence
      <3>1. CASE i + (k - 1) = k
        BY <3>1, <1>2, <2>2
      <3>2. CASE i + (k - 1) # k
        BY <3>2, <1>2, <2>2 DEF Rising
      <3> QED
        BY <3>1, <3>2
    <2> QED
      BY <1>2, <2>1, <2>2, <2>3, <2>4
  <1>8. s = b
    <2>1. Els(s) = Els(b)
      BY <1>5, <1>6, <1>7
    <2> QED
      BY <1>5, <2>1, SameEls
  <1>9. Len(s) <= Len(t) /\ Max2(0, Len(t) - Len(s)) = k - 1
    BY <1>1, <1>4, <1>5, <1>8 DEF Max2
  <1> QED
    BY <1>8, <1>9 DEF IsSuffix2, LastOf, b

-----------------------------------------------------------------------------
(* A filtered view as the flow of the accepted frames: rows, hand, pending. *)

(* What a view shows, and what it will of what a scan has in hand and of    *)
(* what waits.                                                              *)
Has(vis, rows, hand, pending) ==
    Els(rows) \cup {x \in Els(hand) \cup Els(pending) : x \in vis}

(* The visible frames of the source from the number c on are there.         *)
Covers(source, vis, has, c) ==
    \A x \in NotBefore(source) :
        x \in has <=> x \in Els(source) /\ x \in vis /\ c <= x.sequence

(* A view follows the bus up to top: what it shows, what a scan has in hand *)
(* and what waits come one after another, and together are the visible      *)
(* frames of the source from the number c on, which is that of an old frame *)
(* unless a streaming view has dropped rows.                                *)
Flow(source, vis, streaming, rows, hand, pending, top) ==
    /\ Rising(rows) /\ Rising(hand) /\ Rising(pending)
    /\ Precedes(rows, hand) /\ Precedes(rows, pending) /\ Precedes(hand, pending)
    /\ \A x \in Els(rows) \cup Els(hand) \cup Els(pending) : x.sequence <= top
    /\ source = <<>> => rows = <<>> /\ hand = <<>> /\ pending = <<>>
    /\ \E c \in Nat :
          /\ c <= top + 1 /\ (streaming \/ \A x \in Els(source) : c <= x.sequence)
          /\ Covers(source, vis, Has(vis, rows, hand, pending), c)

(* Frames up to one of them.                                                *)
UpTo(s, top) == Rising(s) /\ \A x \in Els(s) : x.sequence <= top

(* The sequence without frames.                                             *)
LEMMA NothingIn == Els(<<>>) = {} /\ Rising(<<>>) /\ <<>> \in Seq(LiveFrame)
  BY DEF Els, Rising

(* Frames have numbers.                                                     *)
LEMMA FrameNumber ==
  ASSUME NEW s \in Seq(LiveFrame)
  PROVE  \A x \in Els(s) : x \in LiveFrame /\ x.sequence \in Nat
  <1>1. Els(s) \subseteq LiveFrame
    BY ElsType
  <1> QED
    BY <1>1 DEF LiveFrame

(* The source is not older than its first row.                              *)
LEMMA SourceNotBefore ==
  ASSUME NEW s \in Seq(LiveFrame), Rising(s)
  PROVE  Els(s) \subseteq NotBefore(s)
  <1> SUFFICES ASSUME NEW x \in Els(s) PROVE x \in NotBefore(s)
    OBVIOUS
  <1>1. PICK i \in 1 .. Len(s) : x = s[i]
    BY DEF Els
  <1>2. 1 \in 1 .. Len(s) /\ s[1] \in Els(s) /\ Len(s) \in Nat
    BY <1>1 DEF Els
  <1>3. x \in LiveFrame /\ x.sequence \in Nat /\ s[1].sequence \in Nat
    BY <1>2, FrameNumber
  <1>4. CASE i = 1
    BY <1>4, <1>1, <1>3 DEF NotBefore
  <1>5. CASE i # 1
    <2>1. s[1].sequence < s[i].sequence
      BY <1>1, <1>2, <1>5 DEF Rising
    <2> QED
      BY <2>1, <1>1, <1>3 DEF NotBefore
  <1> QED
    BY <1>4, <1>5

(* A scan of the whole source begins, or there is nothing to scan.          *)
LEMMA FlowStarts ==
  ASSUME NEW source \in Seq(LiveFrame), NEW vis, NEW streaming \in BOOLEAN,
         NEW top \in Int, top >= -1, UpTo(source, top)
  PROVE  Flow(source, vis, streaming, <<>>, source, <<>>, top)
  <1>1. \A x \in Els(source) : x.sequence \in Nat
    BY FrameNumber
  <1>2. Covers(source, vis, Has(vis, <<>>, source, <<>>), 0)
    BY <1>1, NothingIn, SourceNotBefore DEF Covers, Has, UpTo
  <1>3. /\ Precedes(<<>>, source) /\ Precedes(<<>>, <<>>) /\ Precedes(source, <<>>)
    BY NothingIn DEF Precedes
  <1>4. \A x \in Els(<<>>) \cup Els(source) \cup Els(<<>>) : x.sequence <= top
    BY NothingIn DEF UpTo
  <1>5. 0 \in Nat /\ 0 <= top + 1 /\ \A x \in Els(source) : 0 <= x.sequence
    BY <1>1
  <1>6. Rising(<<>>) /\ Rising(source)
    BY NothingIn DEF UpTo
  <1> QED
    BY <1>2, <1>3, <1>4, <1>5, <1>6 DEF Flow

(* What the view has is then what it is asked for.                          *)
LEMMA FlowIsExact ==
  ASSUME NEW source \in Seq(LiveFrame), NEW set, NEW streaming \in BOOLEAN,
         NEW rows \in Seq(LiveFrame), NEW hand \in Seq(LiveFrame),
         NEW pending \in Seq(LiveFrame), NEW top \in Int, Rising(source),
         Flow(source, Visible(set), streaming, rows, hand, pending, top)
  PROVE  LET have == Since(source, rows \o Accepted(set, hand \o pending))
             want == Accepted(set, source)
         IN  IF streaming THEN IsSuffix2(have, want) ELSE have = want
  <1> DEFINE vis == Visible(set)
             part == hand \o pending
             seen == Kept(part, vis)
             all  == rows \o seen
             have == Kept(all, NotBefore(source))
             want == Kept(source, vis)
  <1> HIDE DEF vis
  <1>0. Flow(source, vis, streaming, rows, hand, pending, top)
    BY DEF vis
  <1>1. part \in Seq(LiveFrame) /\ Els(part) = Els(hand) \cup Els(pending) /\ Rising(part)
    <2>1. Rising(hand) /\ Rising(pending) /\ Precedes(hand, pending)
      BY <1>0 DEF Flow
    <2> QED
      BY <2>1, ElsConcat, RisingConcat
  <1> HIDE DEF part
  <1>2. seen \in Seq(LiveFrame) /\ Els(seen) = {x \in Els(part) : x \in vis} /\ Rising(seen)
    BY <1>1, KeptEls, KeptRising
  <1> HIDE DEF seen
  <1>3. all \in Seq(LiveFrame) /\ Els(all) = Has(vis, rows, hand, pending) /\ Rising(all)
    <2>1. Rising(rows) /\ Precedes(rows, hand) /\ Precedes(rows, pending)
      BY <1>0 DEF Flow
    <2>2. Precedes(rows, seen)
      BY <2>1, <1>1, <1>2 DEF Precedes
    <2>3. Els(all) = Els(rows) \cup Els(seen) /\ all \in Seq(LiveFrame)
      BY <1>2, ElsConcat
    <2>4. Rising(all)
      BY <1>2, <2>1, <2>2, RisingConcat
    <2>5. Els(seen) = {x \in Els(hand) \cup Els(pending) : x \in vis}
      BY <1>1, <1>2
    <2> HIDE DEF all
    <2> QED
      BY <2>3, <2>4, <2>5 DEF Has
  <1> HIDE DEF all
  <1>4. have \in Seq(LiveFrame) /\ Rising(have) /\ Els(have) = {x \in Els(all) : x \in NotBefore(source)}
    BY <1>3, KeptEls, KeptRising
  <1>5. want \in Seq(LiveFrame) /\ Rising(want) /\ Els(want) = {x \in Els(source) : x \in vis}
    BY KeptEls, KeptRising
  <1> HIDE DEF have, want
  <1>6. PICK c \in Nat :
          /\ streaming \/ \A x \in Els(source) : c <= x.sequence
          /\ Covers(source, vis, Has(vis, rows, hand, pending), c)
    BY <1>0 DEF Flow
  <1>7. Els(have) = {x \in Els(want) : c <= x.sequence}
    BY <1>3, <1>4, <1>5, <1>6, SourceNotBefore DEF Covers
  <1>8. CASE streaming
    <2>1. c \in Int
      OBVIOUS
    <2>2. IsSuffix2(have, want)
      BY <2>1, <1>4, <1>5, <1>7, NewestAreEnd
    <2> QED
      BY <1>8, <2>2 DEF have, want, all, seen, part, vis, Since, Accepted
  <1>9. CASE ~streaming
    <2>1. Els(have) = Els(want)
      BY <1>9, <1>5, <1>6, <1>7
    <2>2. have = want
      BY <2>1, <1>4, <1>5, SameEls
    <2> QED
      BY <1>9, <2>2 DEF have, want, all, seen, part, vis, Since, Accepted
  <1> QED
    BY <1>8, <1>9

(* Frames that change places stay what the view has.                        *)
LEMMA FlowKeeps ==
  ASSUME NEW source, NEW vis, NEW streaming, NEW rows, NEW hand, NEW pending, NEW top,
         Flow(source, vis, streaming, rows, hand, pending, top),
         NEW r, NEW h, NEW p, Rising(r), Rising(h), Rising(p),
         Precedes(r, h), Precedes(r, p), Precedes(h, p),
         Els(r) \cup Els(h) \cup Els(p) \subseteq Els(rows) \cup Els(hand) \cup Els(pending),
         source = <<>> => r = <<>> /\ h = <<>> /\ p = <<>>,
         \A x \in NotBefore(source) : x \in Has(vis, r, h, p) <=> x \in Has(vis, rows, hand, pending)
  PROVE  Flow(source, vis, streaming, r, h, p, top)
  <1>1. PICK c \in Nat :
          /\ c <= top + 1 /\ (streaming \/ \A x \in Els(source) : c <= x.sequence)
          /\ Covers(source, vis, Has(vis, rows, hand, pending), c)
    BY DEF Flow
  <1>2. Covers(source, vis, Has(vis, r, h, p), c)
    BY <1>1 DEF Covers
  <1>3. \A x \in Els(r) \cup Els(h) \cup Els(p) : x.sequence <= top
    BY DEF Flow
  <1> QED
    BY <1>1, <1>2, <1>3 DEF Flow

(* Of no frames none are kept.                                              *)
LEMMA EmptyKept ==
  ASSUME NEW s \in Seq(LiveFrame), NEW keep
  PROVE  s = <<>> => Kept(s, keep) = <<>>
  <1> DEFINE k == Kept(s, keep)
  <1>1. k \in Seq(LiveFrame) /\ Els(k) = {x \in Els(s) : x \in keep}
    BY KeptEls
  <1> HIDE DEF k
  <1>2. s = <<>> => Els(k) = {}
    BY <1>1, NothingIn
  <1> QED
    BY <1>1, <1>2, ElsType DEF k

(* Rows and pending frames that are older than the source go.               *)
LEMMA FlowPruned ==
  ASSUME NEW source, NEW vis, NEW streaming,
         NEW rows \in Seq(LiveFrame), NEW hand \in Seq(LiveFrame),
         NEW pending \in Seq(LiveFrame), NEW top,
         Flow(source, vis, streaming, rows, hand, pending, top)
  PROVE  Flow(source, vis, streaming, Since(source, rows), hand, Since(source, pending), top)
  <1> DEFINE r == Since(source, rows)
             p == Since(source, pending)
  <1>1. /\ Rising(rows) /\ Rising(hand) /\ Rising(pending)
        /\ Precedes(rows, hand) /\ Precedes(rows, pending) /\ Precedes(hand, pending)
        /\ source = <<>> => rows = <<>> /\ hand = <<>> /\ pending = <<>>
    BY DEF Flow
  <1>2. /\ Els(r) = {x \in Els(rows) : x \in NotBefore(source)} /\ Rising(r)
        /\ rows = <<>> => r = <<>>
    BY <1>1, KeptEls, KeptRising, EmptyKept DEF Since
  <1>3. /\ Els(p) = {x \in Els(pending) : x \in NotBefore(source)} /\ Rising(p)
        /\ pending = <<>> => p = <<>>
    BY <1>1, KeptEls, KeptRising, EmptyKept DEF Since
  <1> HIDE DEF r, p
  <1>4. Precedes(r, hand) /\ Precedes(r, p) /\ Precedes(hand, p)
    BY <1>1, <1>2, <1>3 DEF Precedes
  <1>5. \A x \in NotBefore(source) : x \in Has(vis, r, hand, p) <=> x \in Has(vis, rows, hand, pending)
    BY <1>2, <1>3 DEF Has
  <1>6. Els(r) \cup Els(hand) \cup Els(p) \subseteq Els(rows) \cup Els(hand) \cup Els(pending)
    BY <1>2, <1>3
  <1>7. Flow(source, vis, streaming, r, hand, p, top)
    BY <1>1, <1>2, <1>3, <1>4, <1>5, <1>6, FlowKeeps
  <1> QED
    BY <1>7 DEF r, p

(* A batch of what waits is handed out.                                     *)
LEMMA FlowTaken ==
  ASSUME NEW source, NEW vis, NEW streaming, NEW rows \in Seq(LiveFrame),
         NEW pending \in Seq(LiveFrame), NEW top, NEW n \in 0 .. Len(pending),
         Flow(source, vis, streaming, rows, <<>>, pending, top)
  PROVE  Flow(source, vis, streaming, rows, SubSeq(pending, 1, n), Drop(pending, n), top)
  <1> DEFINE h == SubSeq(pending, 1, n)
             p == Drop(pending, n)
  <1>1. /\ Rising(rows) /\ Rising(pending) /\ Precedes(rows, pending)
        /\ source = <<>> => rows = <<>> /\ pending = <<>>
    BY DEF Flow
  <1>2. /\ Els(pending) = Els(h) \cup Els(p)
        /\ Rising(h) /\ Rising(p) /\ Precedes(h, p)
    BY <1>1, Cut
  <1>3. h \in Seq(LiveFrame) /\ p \in Seq(LiveFrame)
    BY CutType
  <1> HIDE DEF h, p
  <1>4. pending = <<>> => h = <<>> /\ p = <<>>
    BY <1>2, <1>3, NothingIn, ElsType
  <1>5. Precedes(rows, h) /\ Precedes(rows, p)
    BY <1>1, <1>2 DEF Precedes
  <1>6. Has(vis, rows, h, p) = Has(vis, rows, <<>>, pending)
    BY <1>2, NothingIn DEF Has
  <1>7. Els(rows) \cup Els(h) \cup Els(p) \subseteq Els(rows) \cup Els(<<>>) \cup Els(pending)
    BY <1>2
  <1>8. source = <<>> => rows = <<>> /\ h = <<>> /\ p = <<>>
    BY <1>1, <1>4
  <1>9. Flow(source, vis, streaming, rows, h, p, top)
    BY <1>1, <1>2, <1>5, <1>6, <1>7, <1>8, FlowKeeps
  <1> QED
    BY <1>9 DEF h, p

(* What a scan of some frames adds to the view.                             *)
LEMMA Found ==
  ASSUME NEW source, NEW vis, NEW hand \in Seq(LiveFrame), Rising(hand)
  PROVE  LET found == Since(source, Kept(hand, vis))
         IN  /\ found \in Seq(LiveFrame) /\ Rising(found)
             /\ Els(found) = {x \in Els(hand) : x \in vis /\ x \in NotBefore(source)}
  <1> DEFINE seen == Kept(hand, vis)
  <1>1. seen \in Seq(LiveFrame) /\ Rising(seen) /\ Els(seen) = {x \in Els(hand) : x \in vis}
    BY KeptEls, KeptRising
  <1> HIDE DEF seen
  <1> DEFINE found == Kept(seen, NotBefore(source))
  <1>2. found \in Seq(LiveFrame) /\ Rising(found)
        /\ Els(found) = {x \in Els(seen) : x \in NotBefore(source)}
    BY <1>1, KeptEls, KeptRising
  <1>3. Els(found) = {x \in Els(hand) : x \in vis /\ x \in NotBefore(source)}
    BY <1>1, <1>2
  <1> QED
    BY <1>2, <1>3 DEF seen, Since

(* A scan of the whole source ends: what came since still waits.            *)
LEMMA FlowScanned ==
  ASSUME NEW source, NEW vis, NEW streaming,
         NEW hand \in Seq(LiveFrame), NEW pending \in Seq(LiveFrame), NEW top,
         hand # <<>>, Flow(source, vis, streaming, <<>>, hand, pending, top)
  PROVE  Flow(source, vis, streaming, Since(source, Kept(hand, vis)), <<>>,
              Kept(pending, {x \in LiveFrame : x.sequence > hand[Len(hand)].sequence}), top)
  <1> DEFINE found == Since(source, Kept(hand, vis))
             later == {x \in LiveFrame : x.sequence > hand[Len(hand)].sequence}
             p == Kept(pending, later)
  <1>1. /\ Rising(hand) /\ Rising(pending) /\ Precedes(hand, pending)
        /\ source = <<>> => hand = <<>> /\ pending = <<>>
    BY DEF Flow
  <1>2. /\ found \in Seq(LiveFrame) /\ Rising(found)
        /\ Els(found) = {x \in Els(hand) : x \in vis /\ x \in NotBefore(source)}
    BY <1>1, Found
  <1>3. Els(pending) \subseteq later
    <2>1. Len(hand) \in 1 .. Len(hand)
      OBVIOUS
    <2>2. hand[Len(hand)] \in Els(hand)
      BY <2>1 DEF Els
    <2> QED
      BY <2>2, <1>1, FrameNumber DEF Precedes
  <1> HIDE DEF later
  <1>4. p \in Seq(LiveFrame) /\ Rising(p) /\ Els(p) = Els(pending)
    <2>1. p \in Seq(LiveFrame) /\ Els(p) = {x \in Els(pending) : x \in later}
      BY KeptEls
    <2>2. Rising(p)
      BY <1>1, KeptRising
    <2> HIDE DEF p
    <2> QED
      BY <1>3, <2>1, <2>2
  <1> HIDE DEF found, p
  <1>5. Precedes(found, <<>>) /\ Precedes(<<>>, p) /\ Precedes(found, p)
    BY <1>1, <1>2, <1>4, NothingIn DEF Precedes
  <1>6. \A x \in NotBefore(source) :
            x \in Has(vis, found, <<>>, p) <=> x \in Has(vis, <<>>, hand, pending)
    BY <1>2, <1>4, NothingIn DEF Has
  <1>7. Els(found) \cup Els(<<>>) \cup Els(p) \subseteq Els(<<>>) \cup Els(hand) \cup Els(pending)
    BY <1>2, <1>4, NothingIn
  <1>8. source # <<>>
    BY <1>1
  <1>9. Flow(source, vis, streaming, found, <<>>, p, top)
    BY <1>2, <1>4, <1>5, <1>6, <1>7, <1>8, NothingIn, FlowKeeps
  <1> QED
    BY <1>9 DEF found, p, later

(* A scan of a batch ends.                                                  *)
LEMMA FlowIncremented ==
  ASSUME NEW source, NEW vis, NEW streaming, NEW rows \in Seq(LiveFrame),
         NEW hand \in Seq(LiveFrame), NEW pending \in Seq(LiveFrame), NEW top,
         Flow(source, vis, streaming, rows, hand, pending, top)
  PROVE  Flow(source, vis, streaming, rows \o Since(source, Kept(hand, vis)), <<>>, pending, top)
  <1> DEFINE found == Since(source, Kept(hand, vis))
             r == rows \o found
  <1>1. /\ Rising(rows) /\ Rising(hand) /\ Rising(pending)
        /\ Precedes(rows, hand) /\ Precedes(rows, pending) /\ Precedes(hand, pending)
        /\ source = <<>> => rows = <<>> /\ hand = <<>> /\ pending = <<>>
    BY DEF Flow
  <1>2. /\ found \in Seq(LiveFrame) /\ Rising(found)
        /\ Els(found) = {x \in Els(hand) : x \in vis /\ x \in NotBefore(source)}
    BY <1>1, Found
  <1> HIDE DEF found
  <1>3. Precedes(rows, found) /\ Precedes(found, pending)
    BY <1>1, <1>2 DEF Precedes
  <1>4. r \in Seq(LiveFrame) /\ Rising(r) /\ Els(r) = Els(rows) \cup Els(found)
    BY <1>1, <1>2, <1>3, ElsConcat, RisingConcat
  <1> HIDE DEF r
  <1>5. Precedes(r, <<>>) /\ Precedes(<<>>, pending) /\ Precedes(r, pending)
    BY <1>1, <1>3, <1>4, NothingIn DEF Precedes
  <1>6. \A x \in NotBefore(source) :
            x \in Has(vis, r, <<>>, pending) <=> x \in Has(vis, rows, hand, pending)
    BY <1>2, <1>4, NothingIn DEF Has
  <1>7. Els(r) \cup Els(<<>>) \cup Els(pending) \subseteq Els(rows) \cup Els(hand) \cup Els(pending)
    BY <1>2, <1>4, NothingIn
  <1>8. source = <<>> => r = <<>> /\ pending = <<>>
    <2>1. rows = <<>> /\ hand = <<>> => Els(r) = {}
      BY <1>2, <1>4, NothingIn
    <2> QED
      BY <2>1, <1>1, <1>4, ElsType
  <1>9. Flow(source, vis, streaming, r, <<>>, pending, top)
    BY <1>1, <1>4, <1>5, <1>6, <1>7, <1>8, NothingIn, FlowKeeps
  <1> QED
    BY <1>9 DEF found, r

(* A streaming view drops its oldest rows.                                  *)
LEMMA FlowTrimmed ==
  ASSUME NEW source, NEW vis, NEW rows \in Seq(LiveFrame), NEW hand \in Seq(LiveFrame),
         NEW pending \in Seq(LiveFrame), NEW top \in Int, NEW k \in 0 .. Len(rows),
         Flow(source, vis, TRUE, rows, hand, pending, top)
  PROVE  Flow(source, vis, TRUE, Drop(rows, k), hand, pending, top)
  <1> DEFINE a == SubSeq(rows, 1, k)
             b == Drop(rows, k)
  <1>1. /\ Rising(rows) /\ Rising(hand) /\ Rising(pending)
        /\ Precedes(rows, hand) /\ Precedes(rows, pending) /\ Precedes(hand, pending)
        /\ source = <<>> => rows = <<>> /\ hand = <<>> /\ pending = <<>>
        /\ \A x \in Els(rows) \cup Els(hand) \cup Els(pending) : x.sequence <= top
    BY DEF Flow
  <1>2. /\ Els(rows) = Els(a) \cup Els(b)
        /\ Rising(a) /\ Rising(b) /\ Precedes(a, b)
    BY <1>1, Cut
  <1>3. a \in Seq(LiveFrame) /\ b \in Seq(LiveFrame) /\ Len(a) = k
    BY CutType
  <1> HIDE DEF a, b
  <1>4. rows = <<>> => b = <<>>
    BY <1>2, <1>3, NothingIn, ElsType
  <1>5. Precedes(b, hand) /\ Precedes(b, pending)
    BY <1>1, <1>2 DEF Precedes
  <1>6. CASE a = <<>>
    <2>1. Els(b) = Els(rows)
      BY <1>2, <1>6, NothingIn
    <2>2. Flow(source, vis, TRUE, b, hand, pending, top)
      BY <1>1, <1>2, <1>4, <1>5, <2>1, FlowKeeps DEF Has
    <2> QED
      BY <2>2 DEF b
  <1>7. CASE a # <<>>
    <2>1. k \in 1 .. Len(a) /\ a[k] \in Els(a)
      BY <1>3, <1>7 DEF Els
    <2> DEFINE d == a[k].sequence
    <2>2. d \in Nat /\ d <= top
      BY <2>1, <1>1, <1>2, <1>3, FrameNumber
    <2>3. \A x \in Els(a) : x.sequence <= d
      <3> SUFFICES ASSUME NEW x \in Els(a) PROVE x.sequence <= d
        OBVIOUS
      <3>1. PICK i \in 1 .. Len(a) : x = a[i]
        BY DEF Els
      <3>2. CASE i = k
        BY <2>2, <3>1, <3>2
      <3>3. CASE i # k
        <4>1. i < k
          BY <3>3, <1>3
        <4>2. x.sequence < d /\ x.sequence \in Nat
          BY <4>1, <3>1, <2>1, <1>2, <1>3, FrameNumber DEF Rising
        <4> QED
          BY <4>2, <2>2
      <3> QED
        BY <3>2, <3>3
    <2>4. \A x \in Els(b) \cup Els(hand) \cup Els(pending) : d < x.sequence
      BY <2>1, <1>1, <1>2 DEF Precedes
    <2> HIDE DEF d
    <2>5. PICK c \in Nat :
            /\ c <= top + 1
            /\ Covers(source, vis, Has(vis, rows, hand, pending), c)
      BY DEF Flow
    <2> DEFINE e == IF c <= d THEN d + 1 ELSE c
    <2>6. e \in Nat /\ e <= top + 1 /\ c <= e /\ d < e /\ (e = c \/ e = d + 1)
      BY <2>2, <2>5
    <2> HIDE DEF e
    <2>7. \A x \in Els(rows) \cup Els(hand) \cup Els(pending) : x.sequence \in Nat
      BY FrameNumber
    <2>8. ASSUME NEW x \in NotBefore(source)
          PROVE  x \in Has(vis, b, hand, pending) <=> x \in Els(source) /\ x \in vis /\ e <= x.sequence
      <3>1. x \in Has(vis, rows, hand, pending) <=> x \in Els(source) /\ x \in vis /\ c <= x.sequence
        BY <2>5 DEF Covers
      <3>2. ASSUME x \in Has(vis, b, hand, pending)
            PROVE  x \in Els(source) /\ x \in vis /\ e <= x.sequence
        <4>1. x \in Els(b) \cup Els(hand) \cup Els(pending) /\ x \in Has(vis, rows, hand, pending)
          BY <3>2, <1>2 DEF Has
        <4>2. d < x.sequence /\ x.sequence \in Nat
          BY <4>1, <2>4, <2>7, <1>2
        <4> QED
          BY <3>1, <4>1, <4>2, <2>2, <2>5, <2>6
      <3>3. ASSUME x \in Els(source), x \in vis, e <= x.sequence
            PROVE  x \in Has(vis, b, hand, pending)
        <4>1. x.sequence \in Nat
          BY DEF NotBefore, LiveFrame
        <4>2. c <= x.sequence /\ d < x.sequence
          BY <4>1, <3>3, <2>2, <2>5, <2>6
        <4>3. x \in Has(vis, rows, hand, pending)
          BY <3>1, <3>3, <4>2
        <4>4. x \notin Els(a)
          BY <2>2, <2>3, <4>1, <4>2
        <4> QED
          BY <4>3, <4>4, <1>2 DEF Has
      <3> QED
        BY <3>2, <3>3
    <2>9. Covers(source, vis, Has(vis, b, hand, pending), e)
      BY <2>8 DEF Covers
    <2>10. \A x \in Els(b) \cup Els(hand) \cup Els(pending) : x.sequence <= top
      BY <1>1, <1>2
    <2>11. source = <<>> => b = <<>> /\ hand = <<>> /\ pending = <<>>
      BY <1>1, <1>4
    <2>12. Flow(source, vis, TRUE, b, hand, pending, top)
      BY <1>1, <1>2, <1>5, <2>6, <2>9, <2>10, <2>11 DEF Flow
    <2> QED
      BY <2>12 DEF b
  <1> QED
    BY <1>6, <1>7

(* New frames are inserted, and old ones dropped from the source.           *)
LEMMA FlowInserted ==
  ASSUME NEW source \in Seq(LiveFrame), NEW vis, NEW streaming,
         NEW rows \in Seq(LiveFrame), NEW hand \in Seq(LiveFrame),
         NEW pending \in Seq(LiveFrame), NEW top \in Int, NEW top2 \in Int, UpTo(source, top),
         Flow(source, vis, streaming, rows, hand, pending, top),
         NEW incoming \in Seq(LiveFrame), incoming # <<>>, UpTo(incoming, top2),
         \A x \in Els(incoming) : top < x.sequence,
         NEW k \in 0 .. Len(source), NEW r, NEW p,
         \/ r = rows /\ p = pending
         \/ r = Since(Drop(source, k), rows) /\ p = Since(Drop(source, k), pending)
  PROVE  Flow(Drop(source, k) \o incoming, vis, streaming, r, hand, p \o incoming, top2)
  <1> DEFINE a == SubSeq(source, 1, k)
             tr == Drop(source, k)
             s2 == tr \o incoming
             w == p \o incoming
  <1>1. /\ Rising(rows) /\ Rising(hand) /\ Rising(pending)
        /\ Precedes(rows, hand) /\ Precedes(rows, pending) /\ Precedes(hand, pending)
        /\ source = <<>> => rows = <<>> /\ hand = <<>> /\ pending = <<>>
        /\ \A x \in Els(rows) \cup Els(hand) \cup Els(pending) : x.sequence <= top
    BY DEF Flow
  <1>2. /\ Els(source) = Els(a) \cup Els(tr) /\ Rising(tr) /\ Precedes(a, tr)
    BY Cut DEF UpTo
  <1>3. a \in Seq(LiveFrame) /\ tr \in Seq(LiveFrame)
    BY CutType
  <1>4. /\ r \in Seq(LiveFrame) /\ Rising(r) /\ Els(r) \subseteq Els(rows)
        /\ p \in Seq(LiveFrame) /\ Rising(p) /\ Els(p) \subseteq Els(pending)
        /\ \A x \in NotBefore(tr) : (x \in Els(r) <=> x \in Els(rows)) /\ (x \in Els(p) <=> x \in Els(pending))
    <2>1. CASE r = rows /\ p = pending
      BY <2>1, <1>1
    <2>2. CASE r = Since(tr, rows) /\ p = Since(tr, pending)
      <3> HIDE DEF tr
      <3>1. r \in Seq(LiveFrame) /\ Els(r) = {x \in Els(rows) : x \in NotBefore(tr)}
        BY <2>2, KeptEls DEF Since
      <3>2. p \in Seq(LiveFrame) /\ Els(p) = {x \in Els(pending) : x \in NotBefore(tr)}
        BY <2>2, KeptEls DEF Since
      <3>3. Rising(r) /\ Rising(p)
        BY <2>2, <1>1, KeptRising DEF Since
      <3> QED
        BY <3>1, <3>2, <3>3
    <2> QED
      BY <2>1, <2>2
  <1> HIDE DEF a, tr
  <1>5. /\ \A x \in Els(source) \cup Els(tr) \cup Els(incoming) : x \in LiveFrame /\ x.sequence \in Nat
        /\ \A x \in Els(rows) \cup Els(hand) \cup Els(pending) : x.sequence \in Nat
    BY <1>3, FrameNumber
  <1>6. \A x \in Els(source) \cup Els(tr) : x.sequence <= top
    BY <1>2 DEF UpTo
  <1>7. Precedes(tr, incoming) /\ Precedes(p, incoming) /\ Precedes(r, incoming) /\ Precedes(hand, incoming)
    BY <1>1, <1>4, <1>5, <1>6 DEF Precedes
  <1>8. s2 \in Seq(LiveFrame) /\ Els(s2) = Els(tr) \cup Els(incoming) /\ Rising(s2)
    BY <1>2, <1>3, <1>7, ElsConcat, RisingConcat DEF UpTo
  <1>9. w \in Seq(LiveFrame) /\ Els(w) = Els(p) \cup Els(incoming) /\ Rising(w)
    BY <1>4, <1>7, ElsConcat, RisingConcat DEF UpTo
  <1>10. Precedes(r, hand) /\ Precedes(r, w) /\ Precedes(hand, w)
    BY <1>1, <1>4, <1>7, <1>9 DEF Precedes
  <1>11. Els(incoming) # {}
    BY ElsType
  <1>12. top < top2
    BY <1>5, <1>11 DEF UpTo
  <1>13. \A x \in Els(r) \cup Els(hand) \cup Els(w) : x.sequence <= top2
    <2> SUFFICES ASSUME NEW x \in Els(r) \cup Els(hand) \cup Els(w) PROVE x.sequence <= top2
      OBVIOUS
    <2>1. CASE x \in Els(incoming)
      BY <2>1 DEF UpTo
    <2>2. CASE x \in Els(rows) \cup Els(hand) \cup Els(pending)
      BY <2>2, <1>1, <1>5, <1>12
    <2> QED
      BY <2>1, <2>2, <1>4, <1>9
  <1>14. s2 # <<>> /\ 1 \in 1 .. Len(s2) /\ s2[1] \in Els(s2)
    <2>1. Els(s2) # {}
      BY <1>8, <1>11
    <2>2. s2 # <<>>
      BY <2>1, NothingIn
    <2> HIDE DEF s2
    <2>3. 1 \in 1 .. Len(s2)
      BY <2>2, <1>8
    <2> QED
      BY <2>2, <2>3 DEF Els
  <1>15. NotBefore(s2) = {x \in LiveFrame : x.sequence >= s2[1].sequence}
    <2> HIDE DEF s2
    <2> QED
      BY <1>14 DEF NotBefore
  <1>16. NotBefore(s2) \subseteq NotBefore(tr)
    <2>1. CASE tr = <<>>
      BY <2>1, <1>15 DEF NotBefore
    <2>2. CASE tr # <<>>
      <3>1. s2[1] = tr[1]
        BY <2>2, <1>3
      <3> HIDE DEF s2
      <3> QED
        BY <3>1, <1>15 DEF NotBefore
    <2> QED
      BY <2>1, <2>2
  <1>17. Els(s2) \subseteq NotBefore(s2)
    BY <1>8, SourceNotBefore
  <1> HIDE DEF s2, w
  <1>18. \A x \in Els(a) : x.sequence < s2[1].sequence
    <2> SUFFICES ASSUME NEW x \in Els(a) PROVE x.sequence < s2[1].sequence
      OBVIOUS
    <2>1. x.sequence \in Nat /\ x.sequence <= top
      BY <1>2, <1>5, <1>6
    <2>2. CASE s2[1] \in Els(tr)
      BY <2>2, <1>2 DEF Precedes
    <2>3. CASE s2[1] \in Els(incoming)
      BY <2>1, <2>3, <1>5
    <2> QED
      BY <2>2, <2>3, <1>8, <1>14
  <1>19. \A x \in NotBefore(s2) : x \in Els(source) <=> x \in Els(tr)
    BY <1>2, <1>5, <1>8, <1>14, <1>15, <1>18
  <1>20. ASSUME NEW x \in NotBefore(s2)
         PROVE  x \in Has(vis, r, hand, w) <=> x \in Has(vis, rows, hand, pending) \/ (x \in Els(incoming) /\ x \in vis)
    <2>1. (x \in Els(r) <=> x \in Els(rows)) /\ (x \in Els(p) <=> x \in Els(pending))
      BY <1>4, <1>16
    <2> QED
      BY <2>1, <1>9 DEF Has
  <1>21. s2 = <<>> => r = <<>> /\ hand = <<>> /\ w = <<>>
    BY <1>14
  <1>22. CASE source = <<>>
    <2>1. Has(vis, rows, hand, pending) = {} /\ Els(tr) = {}
      BY <1>1, <1>2, <1>22, NothingIn DEF Has
    <2>2. Covers(s2, vis, Has(vis, r, hand, w), 0)
      BY <2>1, <1>5, <1>8, <1>20 DEF Covers
    <2>3. 0 \in Nat /\ 0 <= top2 + 1 /\ \A x \in Els(s2) : 0 <= x.sequence
      <3>1. \A x \in Els(s2) : x.sequence \in Nat
        BY <1>5, <1>8
      <3>2. \A x \in Els(incoming) : x.sequence <= top2 /\ x.sequence \in Nat
        BY <1>5 DEF UpTo
      <3> QED
        BY <3>1, <3>2, <1>11
    <2>4. Flow(s2, vis, streaming, r, hand, w, top2)
      BY <1>1, <1>4, <1>9, <1>10, <1>13, <1>21, <2>2, <2>3 DEF Flow
    <2> QED
      BY <2>4 DEF s2, w, tr
  <1>23. CASE source # <<>>
    <2>1. PICK c \in Nat :
            /\ c <= top + 1 /\ (streaming \/ \A x \in Els(source) : c <= x.sequence)
            /\ Covers(source, vis, Has(vis, rows, hand, pending), c)
      BY DEF Flow
    <2>2. \A x \in Els(incoming) : c <= x.sequence
      BY <2>1, <1>5
    <2>3. NotBefore(s2) \subseteq NotBefore(source)
      <3>1. s2[1].sequence \in Nat /\ source[1].sequence \in Nat /\ source[1].sequence <= s2[1].sequence
        <4>1. 1 \in 1 .. Len(source) /\ source[1] \in Els(source)
          BY <1>23 DEF Els
        <4>2. CASE s2[1] \in Els(tr)
          <5>1. s2[1] \in NotBefore(source)
            BY <4>2, <1>2, SourceNotBefore DEF UpTo
          <5> QED
            BY <5>1, <4>1, <4>2, <1>5, <1>23 DEF NotBefore
        <4>3. CASE s2[1] \in Els(incoming)
          BY <4>1, <4>3, <1>5, <1>6
        <4> QED
          BY <4>2, <4>3, <1>8, <1>14
      <3>2. \A x \in LiveFrame : x.sequence \in Nat
        BY DEF LiveFrame
      <3> QED
        BY <3>1, <3>2, <1>15 DEF NotBefore
    <2>4. Covers(s2, vis, Has(vis, r, hand, w), c)
      <3> SUFFICES ASSUME NEW x \in NotBefore(s2)
                   PROVE  x \in Has(vis, r, hand, w) <=> x \in Els(s2) /\ x \in vis /\ c <= x.sequence
        BY DEF Covers
      <3>1. x \in Has(vis, rows, hand, pending) <=> x \in Els(source) /\ x \in vis /\ c <= x.sequence
        BY <2>1, <2>3 DEF Covers
      <3>2. x \in Els(source) <=> x \in Els(tr)
        BY <1>19
      <3> QED
        BY <3>1, <3>2, <1>8, <1>20, <2>2
    <2>5. c <= top2 + 1
      BY <2>1, <1>12
    <2>6. streaming \/ \A x \in Els(s2) : c <= x.sequence
      BY <2>1, <2>2, <1>2, <1>8
    <2>7. Flow(s2, vis, streaming, r, hand, w, top2)
      BY <1>1, <1>4, <1>9, <1>10, <1>13, <1>21, <2>4, <2>5, <2>6 DEF Flow
    <2> QED
      BY <2>7 DEF s2, w, tr
  <1> QED
    BY <1>22, <1>23

-----------------------------------------------------------------------------
(* The state of the filter integration, and the parts of its handlers.      *)

(* The tasks whose results will be taken.                                   *)
Mine(g) == {t \in g.tasks : t.current}

(* There is one such task, and it works on these frames.                    *)
HasTask(g, kind, frames) ==
    Mine(g) = {[kind |-> kind, frames |-> frames, set |-> g.set, current |-> TRUE]}

(* The filtered view follows the bus while a scan has these frames in hand. *)
FlowOf(g, hand, top) ==
    Flow(g.source, Visible(g.set), g.streaming, g.rows, hand, g.pending, top)

(* A filtered view has nothing in the pool, or scans a batch, or scans      *)
(* everything anew.                                                         *)
Idle(g, top) ==
    /\ g.ready /\ ~g.scanning /\ ~g.running /\ Mine(g) = {}
    /\ FlowOf(g, <<>>, top)

Adding(g, top) ==
    /\ g.ready /\ ~g.scanning /\ g.running
    /\ \E f \in Seq(LiveFrame) : HasTask(g, "increment", f) /\ FlowOf(g, f, top)

Scanning(g, top) ==
    /\ ~g.ready /\ g.scanning /\ ~g.running /\ g.rows = <<>>
    /\ \E f \in Seq(LiveFrame) : f # <<>> /\ HasTask(g, "scan", f) /\ FlowOf(g, f, top)

(* Neighbouring frames of a capture, up to a number.                        *)
RunTo(s, n, top) ==
    \A i \in 1 .. Len(s) : s[i] = [capture |-> n, sequence |-> top - (Len(s) - i)]

(* The table holds the run of capture n up to top, and its view follows it. *)
Sound(g, n, top) ==
    /\ g \in Gui /\ Len(g.source) <= Capacity /\ RunTo(g.source, n, top)
    /\ g.enabled => Idle(g, top) \/ Adding(g, top) \/ Scanning(g, top)

(* Two states of the GUI with the same rows and tasks.                      *)
Alike(g, h) ==
    /\ g.source = h.source /\ g.set = h.set /\ g.enabled = h.enabled
    /\ g.ready = h.ready /\ g.scanning = h.scanning /\ g.rows = h.rows
    /\ g.pending = h.pending /\ g.running = h.running /\ g.streaming = h.streaming
    /\ Mine(g) = Mine(h)

(* Soundness concerns rows and tasks only.                                  *)
LEMMA AlikeSound ==
  ASSUME NEW g, NEW h \in Gui, NEW n, NEW top, Alike(g, h), Sound(g, n, top)
  PROVE  Sound(h, n, top)
  <1>1. Mine(g) = Mine(h)
    BY DEF Alike
  <1>2. \A f : FlowOf(g, f, top) <=> FlowOf(h, f, top)
    BY DEF FlowOf, Alike
  <1>3. \A k, f : HasTask(g, k, f) <=> HasTask(h, k, f)
    BY <1>1 DEF HasTask, Alike
  <1>4. /\ Idle(g, top) => Idle(h, top)
        /\ Adding(g, top) => Adding(h, top)
        /\ Scanning(g, top) => Scanning(h, top)
    BY <1>1, <1>2, <1>3 DEF Idle, Adding, Scanning, Alike
  <1> QED
    BY <1>4 DEF Sound, Alike

(* A run is in the order of the bus, up to its last number.                 *)
LEMMA RunRises ==
  ASSUME NEW s \in Seq(LiveFrame), NEW n, NEW top \in Int, RunTo(s, n, top)
  PROVE  UpTo(s, top)
  <1>1. Len(s) \in Nat
    OBVIOUS
  <1>2. ASSUME NEW i \in 1 .. Len(s) PROVE s[i].sequence = top - (Len(s) - i)
    <2>1. s[i] = [capture |-> n, sequence |-> top - (Len(s) - i)]
      BY DEF RunTo
    <2> QED
      BY <2>1
  <1>3. Rising(s)
    BY <1>1, <1>2 DEF Rising
  <1>4. \A x \in Els(s) : x.sequence <= top
    BY <1>1, <1>2 DEF Els
  <1> QED
    BY <1>3, <1>4 DEF UpTo

(* The end of a run is a run.                                               *)
LEMMA RunDropped ==
  ASSUME NEW s \in Seq(LiveFrame), NEW n, NEW top \in Int, RunTo(s, n, top),
         NEW k \in 0 .. Len(s)
  PROVE  RunTo(Drop(s, k), n, top)
  <1>1. /\ Len(Drop(s, k)) = Len(s) - k
        /\ \A i \in 1 .. Len(s) - k : Drop(s, k)[i] = s[i + k]
    BY CutType
  <1> DEFINE d == Drop(s, k)
  <1> HIDE DEF d
  <1>2. Len(s) \in Nat /\ k \in Nat
    OBVIOUS
  <1>3. ASSUME NEW i \in 1 .. Len(s) - k
        PROVE  s[i + k] = [capture |-> n, sequence |-> top - ((Len(s) - k) - i)]
    <2>1. i + k \in 1 .. Len(s) /\ top - (Len(s) - (i + k)) = top - ((Len(s) - k) - i)
      BY <1>2
    <2> QED
      BY <2>1 DEF RunTo
  <1> QED
    BY <1>1, <1>3 DEF RunTo

(* A run and its continuation.                                              *)
LEMMA RunGrows ==
  ASSUME NEW s \in Seq(LiveFrame), NEW t \in Seq(LiveFrame), NEW n, NEW top \in Int,
         NEW top2 \in Int, RunTo(s, n, top), RunTo(t, n, top2), top2 = top + Len(t)
  PROVE  RunTo(s \o t, n, top2)
  <1> DEFINE r == s \o t
  <1>1. /\ Len(s) \in Nat /\ Len(t) \in Nat /\ Len(r) = Len(s) + Len(t)
        /\ \A i \in 1 .. Len(s) : r[i] = s[i]
        /\ \A i \in 1 .. Len(t) : r[Len(s) + i] = t[i]
    OBVIOUS
  <1> HIDE DEF r
  <1> SUFFICES ASSUME NEW i \in 1 .. Len(r)
               PROVE  r[i] = [capture |-> n, sequence |-> top2 - (Len(r) - i)]
    BY DEF RunTo, r
  <1>2. CASE i \in 1 .. Len(s)
    <2>1. top - (Len(s) - i) = top2 - (Len(r) - i)
      BY <1>1, <1>2
    <2> QED
      BY <1>1, <1>2, <2>1 DEF RunTo
  <1>3. CASE i \notin 1 .. Len(s)
    <2> DEFINE j == i - Len(s)
    <2>1. j \in 1 .. Len(t) /\ Len(s) + j = i /\ top2 - (Len(t) - j) = top2 - (Len(r) - i)
      BY <1>1, <1>3
    <2> HIDE DEF j
    <2>2. r[i] = t[j]
      BY <1>1, <2>1
    <2> QED
      BY <2>1, <2>2 DEF RunTo
  <1> QED
    BY <1>2, <1>3

-----------------------------------------------------------------------------
(* Parts of handlers.                                                       *)

(* In a new generation no task is awaited.                                  *)
LEMMA NewGenerationType ==
  ASSUME NEW g \in Gui
  PROVE  NewGeneration(g) \in Gui /\ Mine(NewGeneration(g)) = {}
  <1> DEFINE old == {[t EXCEPT !.current = FALSE] : t \in g.tasks}
  <1>1. g.tasks \subseteq Task
    BY DEF Gui
  <1>2. old \in SUBSET Task /\ \A t \in old : ~t.current
    BY <1>1 DEF Task
  <1> HIDE DEF old
  <1>3. NewGeneration(g) = [g EXCEPT !.pending = <<>>, !.running = FALSE, !.timer = FALSE,
                                     !.tasks = old]
    BY DEF NewGeneration, old
  <1>4. <<>> \in Seq(LiveFrame)
    OBVIOUS
  <1>5. NewGeneration(g) \in Gui /\ NewGeneration(g).tasks = old
    BY <1>2, <1>3, <1>4 DEF Gui
  <1> QED
    BY <1>2, <1>5 DEF Mine

(* The cursor is a number, also when it is None.                            *)
LEMMA NoneIsInt == None \in Int /\ \A g \in Gui : g.cursor \in Int /\ g.cursor >= -1
  BY DEF None, Gui

(* A whole scan.                                                            *)
LEMMA ScheduleScanSound ==
  ASSUME NEW g \in Gui, NEW n, NEW top \in Int, top >= -1,
         Len(g.source) <= Capacity, RunTo(g.source, n, top)
  PROVE  LET h == ScheduleScan(g)
         IN  /\ Sound(h, n, top)
             /\ h.source = g.source /\ h.enabled = g.enabled /\ h.checked = g.checked
             /\ h.set = g.set /\ h.cursor = g.cursor /\ (g.enabled => h.shown = h.ready)
             /\ ~g.enabled => h = g
  <1> DEFINE h == ScheduleScan(g)
             e == NewGeneration(g)
             empty == g.source = <<>>
             task == [kind |-> "scan", frames |-> g.source, set |-> g.set, current |-> TRUE]
             tasks == e.tasks \cup (IF empty THEN {} ELSE {task})
  <1>1. CASE ~g.enabled
    <2>1. h = g
      BY <1>1 DEF ScheduleScan
    <2> QED
      BY <1>1, <2>1 DEF Sound
  <1>2. CASE g.enabled
    <2>1. e \in Gui /\ Mine(e) = {}
      BY NewGenerationType
    <2>2. /\ e.pending = <<>> /\ ~e.running /\ e.source = g.source /\ e.enabled = g.enabled
          /\ e.checked = g.checked /\ e.set = g.set /\ e.cursor = g.cursor
          /\ e.streaming = g.streaming
      BY DEF NewGeneration, Gui
    <2>3. h = [e EXCEPT !.rows = <<>>, !.scanning = ~empty, !.ready = empty,
                        !.shown = empty, !.tasks = tasks]
      BY <1>2 DEF ScheduleScan, NewGeneration
    <2>4. task \in Task /\ task.current
      BY DEF Task, Gui
    <2>5. tasks \in SUBSET Task /\ {t \in tasks : t.current} = IF empty THEN {} ELSE {task}
      BY <2>1, <2>4 DEF Mine, Gui
    <2>6. g.source \in Seq(LiveFrame) /\ g.streaming \in BOOLEAN
      BY DEF Gui
    <2> HIDE DEF e, tasks, h
    <2>7. /\ h \in Gui /\ h.rows = <<>> /\ h.scanning = ~empty /\ h.ready = empty
          /\ h.shown = empty /\ h.tasks = tasks /\ h.pending = <<>> /\ ~h.running
          /\ h.source = g.source /\ h.enabled = g.enabled /\ h.checked = g.checked
          /\ h.set = g.set /\ h.cursor = g.cursor /\ h.streaming = g.streaming
      BY <2>1, <2>2, <2>3, <2>5 DEF Gui
    <2>8. Flow(g.source, Visible(g.set), g.streaming, <<>>, g.source, <<>>, top)
      BY <2>6, FlowStarts, RunRises
    <2>9. FlowOf(h, g.source, top)
      BY <2>7, <2>8 DEF FlowOf
    <2>10. Mine(h) = IF empty THEN {} ELSE {task}
      BY <2>5, <2>7 DEF Mine
    <2>11. ASSUME empty PROVE Idle(h, top)
      BY <2>7, <2>9, <2>10, <2>11 DEF Idle
    <2>12. ASSUME ~empty PROVE Scanning(h, top)
      <3>1. HasTask(h, "scan", g.source)
        BY <2>7, <2>10, <2>12 DEF HasTask
      <3> QED
        BY <2>6, <2>7, <2>9, <2>12, <3>1 DEF Scanning
    <2>13. Len(h.source) <= Capacity /\ RunTo(h.source, n, top)
      BY <2>7
    <2>14. Sound(h, n, top)
      BY <2>7, <2>11, <2>12, <2>13 DEF Sound
    <2> QED
      BY <1>2, <2>7, <2>14 DEF h
  <1> QED
    BY <1>1, <1>2

(* A streaming view starts anew.                                            *)
LEMMA ResetStreamSound ==
  ASSUME NEW g \in Gui, NEW n, NEW top \in Int, top >= -1
  PROVE  LET h == ResetStream(g)
         IN  /\ Sound(h, n, top)
             /\ h.source = <<>> /\ h.enabled = g.enabled /\ h.checked = g.checked
             /\ h.set = g.set /\ h.cursor = g.cursor /\ h.shown = g.enabled
             /\ g.enabled => h.ready
  <1> DEFINE h == ResetStream(g)
             e == NewGeneration(g)
             m == [e EXCEPT !.source = <<>>, !.shown = g.enabled]
  <1>1. e \in Gui /\ Mine(e) = {}
    BY NewGenerationType
  <1>2. /\ e.pending = <<>> /\ ~e.running /\ e.enabled = g.enabled
        /\ e.checked = g.checked /\ e.set = g.set /\ e.cursor = g.cursor
        /\ g.enabled \in BOOLEAN
    BY DEF NewGeneration, Gui
  <1> HIDE DEF e
  <1>3. /\ m \in Gui /\ m.source = <<>> /\ m.shown = g.enabled
        /\ m.pending = <<>> /\ ~m.running /\ m.enabled = g.enabled
        /\ m.checked = g.checked /\ m.set = g.set /\ m.cursor = g.cursor /\ m.tasks = e.tasks
    BY <1>1, <1>2 DEF Gui
  <1>4. h = IF g.enabled THEN [m EXCEPT !.rows = <<>>, !.scanning = FALSE, !.ready = TRUE] ELSE m
    BY DEF ResetStream, e
  <1> HIDE DEF h, m
  <1>5. /\ h \in Gui /\ h.source = <<>> /\ h.shown = g.enabled /\ h.enabled = g.enabled
        /\ h.checked = g.checked /\ h.set = g.set /\ h.cursor = g.cursor
        /\ h.tasks = e.tasks /\ h.pending = <<>> /\ ~h.running
        /\ g.enabled => h.rows = <<>> /\ ~h.scanning /\ h.ready
    BY <1>2, <1>3, <1>4 DEF Gui
  <1>6. Mine(h) = {}
    BY <1>1, <1>5 DEF Mine
  <1>7. RunTo(h.source, n, top) /\ Len(h.source) <= Capacity
    BY <1>5, LiveViewAssumption DEF RunTo
  <1>8. UpTo(h.source, top)
    BY <1>5, NothingIn DEF UpTo
  <1>9. Flow(h.source, Visible(h.set), h.streaming, <<>>, h.source, <<>>, top)
    <2>1. h.source \in Seq(LiveFrame) /\ h.streaming \in BOOLEAN
      BY <1>5 DEF Gui
    <2> QED
      BY <2>1, <1>8, FlowStarts
  <1>10. g.enabled => Idle(h, top)
    BY <1>5, <1>6, <1>9 DEF Idle, FlowOf
  <1> QED
    BY <1>5, <1>7, <1>10 DEF Sound, h

(* What no part of a refresh or of a scan changes.                          *)
Kin(g, h) ==
    /\ g.set = h.set /\ g.enabled = h.enabled /\ g.checked = h.checked
    /\ g.cursor = h.cursor

(* The table is bound to the projection when that is complete.              *)
Bound(g) == g.shown = (g.enabled /\ g.ready)

(* With an empty source it does not matter where the bus is.                *)
LEMMA SoundEmpty ==
  ASSUME NEW g, NEW n, NEW n2, NEW top, NEW top2 \in Int, top2 >= -1,
         Sound(g, n, top), g.source = <<>>
  PROVE  Sound(g, n2, top2)
  <1>1. ASSUME NEW f, FlowOf(g, f, top) PROVE FlowOf(g, f, top2) /\ f = <<>>
    <2>1. f = <<>> /\ g.rows = <<>> /\ g.pending = <<>>
      BY <1>1 DEF FlowOf, Flow
    <2>2. UpTo(<<>>, top2)
      BY NothingIn DEF UpTo
    <2>3. Flow(<<>>, Visible(g.set), g.streaming, <<>>, <<>>, <<>>, top2)
      <3>1. g.streaming \in BOOLEAN /\ <<>> \in Seq(LiveFrame)
        BY DEF Sound, Gui
      <3> QED
        BY <2>2, <3>1, FlowStarts
    <2> QED
      BY <2>1, <2>3 DEF FlowOf
  <1>2. /\ Idle(g, top) => Idle(g, top2)
        /\ Adding(g, top) => Adding(g, top2)
        /\ Scanning(g, top) => Scanning(g, top2)
    BY <1>1 DEF Idle, Adding, Scanning
  <1>3. RunTo(g.source, n2, top2)
    BY DEF RunTo
  <1> QED
    BY <1>2, <1>3 DEF Sound

(* To bind the table to one of the models changes no row.                   *)
LEMMA SynchronizeSound ==
  ASSUME NEW g \in Gui
  PROVE  LET h == Synchronize(g)
         IN h \in Gui /\ Alike(g, h) /\ Kin(g, h) /\ Bound(h)
  <1> DEFINE h == Synchronize(g)
  <1>1. h = [g EXCEPT !.shown = g.enabled /\ g.ready]
    BY DEF Synchronize
  <1>2. (g.enabled /\ g.ready) \in BOOLEAN
    OBVIOUS
  <1> HIDE DEF h
  <1>3. h \in Gui /\ h.shown = (g.enabled /\ g.ready)
    BY <1>1, <1>2 DEF Gui
  <1>4. Alike(g, h) /\ Kin(g, h)
    BY <1>1 DEF Alike, Kin, Gui, Mine
  <1>5. Bound(h)
    BY <1>3, <1>4 DEF Bound, Alike
  <1> QED
    BY <1>3, <1>4, <1>5 DEF h

(* Nor does the timer.                                                      *)
LEMMA ScheduleIncrementSound ==
  ASSUME NEW g \in Gui
  PROVE  LET h == ScheduleIncrement(g)
         IN h \in Gui /\ Alike(g, h) /\ Kin(g, h) /\ (Bound(g) => Bound(h))
  <1> DEFINE h == ScheduleIncrement(g)
             armed == g.timer \/ (/\ g.enabled /\ g.ready /\ ~g.scanning
                                  /\ ~g.running /\ g.pending # <<>>)
  <1>1. h = [g EXCEPT !.timer = armed] /\ armed \in BOOLEAN
    BY DEF ScheduleIncrement
  <1> HIDE DEF h, armed
  <1>2. h \in Gui /\ Alike(g, h) /\ Kin(g, h) /\ h.shown = g.shown
    BY <1>1 DEF Alike, Kin, Gui, Mine
  <1>3. Bound(g) => Bound(h)
    BY <1>2 DEF Bound, Alike
  <1> QED
    BY <1>2, <1>3 DEF h

(* replace_frames                                                           *)
LEMMA ReplaceRowsSound ==
  ASSUME NEW g \in Gui, NEW frames \in Seq(LiveFrame), NEW n, NEW top \in Int, top >= -1,
         RunTo(frames, n, top)
  PROVE  LET h == ReplaceRows(g, frames)
         IN /\ Sound(h, n, top) /\ Kin(g, h) /\ (Bound(g) => Bound(h))
            /\ frames = <<>> => h.source = <<>>
  <1> DEFINE k == Max2(0, Len(frames) - Capacity)
             last == Drop(frames, k)
             e == [g EXCEPT !.source = last]
             h == ScheduleScan(e)
  <1>1. Capacity \in Nat \ {0} /\ Len(frames) \in Nat
    BY LiveViewAssumption
  <1>2. k \in 0 .. Len(frames) /\ Len(frames) - k <= Capacity
    BY <1>1 DEF Max2
  <1> HIDE DEF k
  <1>3. last \in Seq(LiveFrame) /\ Len(last) = Len(frames) - k
    BY <1>2, CutType
  <1>4. RunTo(last, n, top)
    BY <1>2, RunDropped
  <1>5. frames = <<>> => last = <<>>
    BY <1>1, <1>2, <1>3
  <1> HIDE DEF last
  <1>6. /\ e \in Gui /\ e.source = last /\ Kin(g, e)
        /\ e.shown = g.shown /\ e.ready = g.ready
    BY <1>3 DEF Gui, Kin
  <1>7. Len(e.source) <= Capacity /\ RunTo(e.source, n, top)
    BY <1>2, <1>3, <1>4, <1>6
  <1> HIDE DEF e
  <1>8. /\ Sound(h, n, top) /\ h.source = e.source /\ Kin(e, h)
        /\ (e.enabled => h.shown = h.ready) /\ (~e.enabled => h = e)
    BY <1>6, <1>7, ScheduleScanSound DEF Kin
  <1>9. Bound(g) => Bound(h)
    <2>1. h \in Gui
      BY <1>8 DEF Sound
    <2>2. CASE e.enabled
      <3>1. h.enabled /\ h.shown = h.ready /\ h.ready \in BOOLEAN
        BY <1>8, <2>1, <2>2 DEF Kin, Gui
      <3> QED
        BY <3>1 DEF Bound
    <2>3. CASE ~e.enabled
      BY <1>6, <1>8, <2>3 DEF Bound, Kin
    <2> QED
      BY <2>2, <2>3
  <1>10. ReplaceRows(g, frames) = h
    BY DEF ReplaceRows, LastOf, e, last, k
  <1> HIDE DEF h
  <1> QED
    BY <1>5, <1>6, <1>8, <1>9, <1>10 DEF Kin

(* clear                                                                    *)
LEMMA ClearRowsSound ==
  ASSUME NEW g, NEW n, NEW top, Sound(g, n, top), NEW n2
  PROVE  LET h == ClearRows(g)
         IN /\ Sound(h, n2, -1) /\ Kin(g, h) /\ (Bound(g) => Bound(h))
            /\ h.source = <<>>
  <1>1. CASE g.source = <<>>
    <2>1. ClearRows(g) = g
      BY <1>1 DEF ClearRows
    <2>2. Sound(g, n2, -1)
      BY <1>1, SoundEmpty
    <2>3. Kin(g, g)
      BY DEF Kin
    <2> QED
      BY <1>1, <2>1, <2>2, <2>3
  <1>2. CASE g.source # <<>>
    <2>1. ClearRows(g) = ReplaceRows(g, <<>>)
      BY <1>2 DEF ClearRows
    <2>2. g \in Gui /\ <<>> \in Seq(LiveFrame) /\ -1 \in Int /\ -1 >= -1
      BY DEF Sound
    <2>3. RunTo(<<>>, n2, -1)
      BY DEF RunTo
    <2> DEFINE h == ReplaceRows(g, <<>>)
    <2>4. /\ Sound(h, n2, -1) /\ Kin(g, h) /\ (Bound(g) => Bound(h))
          /\ h.source = <<>>
      BY <2>2, <2>3, ReplaceRowsSound
    <2> QED
      BY <2>1, <2>4
  <1> QED
    BY <1>1, <1>2

(* What is left of rows that have lost their oldest.                        *)
LEMMA SinceType ==
  ASSUME NEW source, NEW s \in Seq(LiveFrame)
  PROVE  Since(source, s) \in Seq(LiveFrame) /\ (s = <<>> => Since(source, s) = <<>>)
  BY KeptEls, EmptyKept DEF Since

(* _prune_frame_filter_cache drops what the table has dropped.              *)
LEMMA PruneSound ==
  ASSUME NEW g, NEW n, NEW top, Sound(g, n, top)
  PROVE  LET h == Prune(g)
         IN Sound(h, n, top) /\ Kin(g, h) /\ h.shown = g.shown /\ h.source = g.source
            /\ h.pending = Since(g.source, g.pending) /\ h.rows = Since(g.source, g.rows)
            /\ h.ready = g.ready /\ h.running = g.running /\ h.scanning = g.scanning
            /\ h.tasks = g.tasks /\ h.streaming = g.streaming
  <1> DEFINE h == Prune(g)
             r == Since(g.source, g.rows)
             p == Since(g.source, g.pending)
  <1>1. g \in Gui
    BY DEF Sound
  <1>2. g.rows \in Seq(LiveFrame) /\ g.pending \in Seq(LiveFrame)
    BY <1>1 DEF Gui
  <1>3. r \in Seq(LiveFrame) /\ p \in Seq(LiveFrame) /\ (g.rows = <<>> => r = <<>>)
    BY <1>2, SinceType
  <1>4. h = [g EXCEPT !.rows = r, !.pending = p]
    BY DEF Prune
  <1> HIDE DEF h
  <1>5. /\ h \in Gui /\ Kin(g, h) /\ h.shown = g.shown /\ h.source = g.source
        /\ h.rows = r /\ h.pending = p /\ h.tasks = g.tasks /\ h.streaming = g.streaming
        /\ h.ready = g.ready /\ h.running = g.running /\ h.scanning = g.scanning
    <2> HIDE DEF r, p
    <2> QED
      BY <1>1, <1>3, <1>4 DEF Gui, Kin
  <1>6. ASSUME NEW f \in Seq(LiveFrame), FlowOf(g, f, top) PROVE FlowOf(h, f, top)
    <2>1. Flow(g.source, Visible(g.set), g.streaming, r, f, p, top)
      BY <1>2, <1>6, FlowPruned DEF FlowOf
    <2> QED
      BY <1>5, <2>1 DEF FlowOf, Kin
  <1>7. Mine(h) = Mine(g) /\ \A k, f : HasTask(g, k, f) => HasTask(h, k, f)
    BY <1>5 DEF Mine, HasTask, Kin
  <1>8. <<>> \in Seq(LiveFrame)
    OBVIOUS
  <1>9. /\ Idle(g, top) => Idle(h, top)
        /\ Adding(g, top) => Adding(h, top)
        /\ Scanning(g, top) => Scanning(h, top)
    BY <1>3, <1>5, <1>6, <1>7, <1>8 DEF Idle, Adding, Scanning
  <1>10. Sound(h, n, top)
    BY <1>5, <1>9 DEF Sound, Kin
  <1> QED
    BY <1>5, <1>10 DEF h

(* Nothing is dropped of rows that fit.                                     *)
LEMMA DropNone ==
  ASSUME NEW s \in Seq(LiveFrame)
  PROVE  Drop(s, 0) = s
  <1> DEFINE d == Drop(s, 0)
  <1>1. Len(s) \in Nat /\ 0 \in 0 .. Len(s)
    OBVIOUS
  <1>2. /\ d \in Seq(LiveFrame) /\ Len(d) = Len(s) - 0
        /\ \A i \in 1 .. Len(s) - 0 : d[i] = s[i + 0]
    BY <1>1, CutType
  <1> HIDE DEF d
  <1>3. Len(d) = Len(s) /\ \A i \in 1 .. Len(s) : d[i] = s[i]
    BY <1>1, <1>2
  <1>4. d = s
    BY <1>2, <1>3, SeqEqual
  <1> QED
    BY <1>4 DEF d

(* trim_chunk is a number of rows.                                          *)
LEMMA TrimChunkType ==
  /\ TrimChunk \in Nat /\ TrimChunk >= 1 /\ Capacity \in Nat \ {0}
  /\ Capacity >= 10 => 10 * TrimChunk <= Capacity
  /\ Capacity < 10 => TrimChunk = 1
  <1>1. Capacity \in Nat /\ Capacity >= 1
    BY LiveViewAssumption
  <1>2. /\ Capacity \div 10 \in Nat /\ 10 * (Capacity \div 10) <= Capacity
        /\ Capacity < 10 => Capacity \div 10 = 0
        /\ Capacity >= 10 => Capacity \div 10 >= 1
    BY <1>1
  <1> QED
    BY <1>1, <1>2 DEF TrimChunk, Max2

(* What is left of the rows, that there is room, and when nothing is left.  *)
LEMMA TrimDrops ==
  ASSUME NEW s \in Seq(LiveFrame), NEW incoming \in Seq(LiveFrame), Len(s) <= Capacity,
         Len(incoming) < Capacity
  PROVE  \E k \in 0 .. Len(s) :
            /\ Trim(s, incoming) = Drop(s, k)
            /\ Len(s) - k + Len(incoming) <= Capacity
            /\ k = 0 \/ k < Len(s) \/ (Len(s) <= TrimChunk /\ TrimChunk < Len(incoming))
  <1> DEFINE overflow == Max2(0, Len(s) + Len(incoming) - Capacity)
             k == Min2(Len(s), Max2(overflow, TrimChunk))
  <1>1. Capacity \in Nat \ {0} /\ Len(s) \in Nat /\ Len(incoming) \in Nat
    BY LiveViewAssumption
  <1>2. overflow = 0 \/ overflow = Len(s) + Len(incoming) - Capacity
    BY <1>1 DEF Max2
  <1>3. overflow \in Nat /\ overflow >= Len(s) + Len(incoming) - Capacity
    BY <1>1 DEF Max2
  <1>4. CASE overflow = 0
    <2>1. Trim(s, incoming) = Drop(s, 0)
      BY <1>4, DropNone DEF Trim
    <2>2. 0 \in 0 .. Len(s) /\ Len(s) - 0 + Len(incoming) <= Capacity
      BY <1>1, <1>3, <1>4
    <2> QED
      BY <2>1, <2>2
  <1>5. CASE overflow # 0
    <2>1. Trim(s, incoming) = Drop(s, k)
      BY <1>5 DEF Trim
    <2> HIDE DEF overflow
    <2>2. k \in 0 .. Len(s) /\ (k = Len(s) \/ k >= overflow)
          /\ (k = Len(s) => Len(s) <= overflow \/ Len(s) <= TrimChunk)
      BY <1>1, <1>3, TrimChunkType DEF Min2, Max2
    <2> HIDE DEF k
    <2>3. Len(s) - k + Len(incoming) <= Capacity
      BY <1>1, <1>3, <2>2
    <2>4. overflow = Len(s) + Len(incoming) - Capacity /\ overflow >= 1
      BY <1>2, <1>3, <1>5
    <2>5. ASSUME k = Len(s) PROVE Len(s) <= TrimChunk /\ TrimChunk < Len(incoming)
      BY <1>1, <2>2, <2>4, <2>5, TrimChunkType
    <2>6. k = Len(s) \/ k < Len(s)
      BY <1>1, <2>2
    <2> QED
      BY <2>1, <2>2, <2>3, <2>5, <2>6
  <1> QED
    BY <1>4, <1>5

(* The record that InsertRows leaves before it arms the timer.              *)
LEMMA InsertedSound ==
  ASSUME NEW g, NEW n, NEW top \in Int, NEW top2 \in Int, Sound(g, n, top),
         NEW incoming \in Seq(LiveFrame), incoming # <<>>, RunTo(incoming, n, top2),
         top2 = top + Len(incoming),
         NEW k \in 0 .. Len(g.source), Len(g.source) - k + Len(incoming) <= Capacity,
         NEW r, NEW p,
         \/ r = g.rows /\ p = g.pending
         \/ r = Since(Drop(g.source, k), g.rows) /\ p = Since(Drop(g.source, k), g.pending),
         NEW h \in Gui, h.source = Drop(g.source, k) \o incoming, h.rows = r,
         h.pending = IF g.enabled THEN p \o incoming ELSE p,
         Kin(g, h), h.ready = g.ready, h.scanning = g.scanning, h.running = g.running,
         h.streaming = g.streaming, h.tasks = g.tasks
  PROVE  Sound(h, n, top2)
  <1> DEFINE tr == Drop(g.source, k)
  <1>1. /\ g \in Gui /\ g.source \in Seq(LiveFrame) /\ RunTo(g.source, n, top)
        /\ g.rows \in Seq(LiveFrame) /\ g.pending \in Seq(LiveFrame)
    BY DEF Sound, Gui
  <1>2. UpTo(g.source, top) /\ UpTo(incoming, top2)
    BY <1>1, RunRises
  <1>3. \A x \in Els(incoming) : top < x.sequence
    <2> SUFFICES ASSUME NEW x \in Els(incoming) PROVE top < x.sequence
      OBVIOUS
    <2>1. PICK i \in 1 .. Len(incoming) : x = incoming[i]
      BY DEF Els
    <2>2. incoming[i] = [capture |-> n, sequence |-> top2 - (Len(incoming) - i)]
      BY <2>1 DEF RunTo
    <2>3. x.sequence = top2 - (Len(incoming) - i)
      BY <2>1, <2>2
    <2>4. Len(incoming) \in Nat /\ i \in Int /\ i >= 1
      OBVIOUS
    <2> HIDE DEF Sound
    <2> QED
      BY <2>3, <2>4
  <1>4. tr \in Seq(LiveFrame) /\ Len(tr) = Len(g.source) - k /\ RunTo(tr, n, top)
    BY <1>1, CutType, RunDropped
  <1> HIDE DEF tr
  <1>5. Len(h.source) <= Capacity /\ RunTo(h.source, n, top2)
    <2>1. RunTo(tr \o incoming, n, top2)
      BY <1>4, RunGrows
    <2>2. Len(tr \o incoming) = Len(tr) + Len(incoming)
      <3>1. tr \in Seq(LiveFrame)
        BY <1>4
      <3> QED
        BY <3>1, ConcatProperties, Zenon
    <2> QED
      BY <1>4, <2>1, <2>2 DEF tr
  <1>6. ASSUME NEW f \in Seq(LiveFrame), FlowOf(g, f, top), g.enabled PROVE FlowOf(h, f, top2)
    <2>1. Flow(g.source, Visible(g.set), g.streaming, g.rows, f, g.pending, top)
      BY <1>6 DEF FlowOf
    <2>2. Flow(Drop(g.source, k) \o incoming, Visible(g.set), g.streaming, r, f, p \o incoming, top2)
      BY <1>1, <1>2, <1>3, <2>1, FlowInserted
    <2> QED
      BY <1>6, <2>2 DEF FlowOf, Kin
  <1>7. Mine(h) = Mine(g) /\ \A kind, f : HasTask(g, kind, f) => HasTask(h, kind, f)
    BY DEF Mine, HasTask, Kin
  <1>8. <<>> \in Seq(LiveFrame) /\ (g.rows = <<>> => r = <<>>)
    BY <1>1, SinceType
  <1>9. g.enabled =>
        /\ Idle(g, top) => Idle(h, top2)
        /\ Adding(g, top) => Adding(h, top2)
        /\ Scanning(g, top) => Scanning(h, top2)
    BY <1>6, <1>7, <1>8 DEF Idle, Adding, Scanning
  <1> QED
    BY <1>5, <1>9 DEF Sound, Kin

(* e is what InsertRows makes of g before it arms the timer: k rows are gone, *)
(* and p is left of what waited.                                            *)
Inserted(g, incoming, k, p, e) ==
    /\ Len(g.source) - k + Len(incoming) <= Capacity
    /\ k = 0 \/ k < Len(g.source) \/ (Len(g.source) <= TrimChunk /\ TrimChunk < Len(incoming))
    /\ \/ k = 0 /\ e.rows = g.rows /\ p = g.pending
       \/ e.rows = Since(Drop(g.source, k), g.rows) /\ p = Since(Drop(g.source, k), g.pending)
    /\ e.source = Drop(g.source, k) \o incoming
    /\ e.pending = IF g.enabled THEN p \o incoming ELSE p
    /\ Kin(g, e) /\ e.shown = g.shown /\ e.ready = g.ready /\ e.scanning = g.scanning
    /\ e.running = g.running /\ e.streaming = g.streaming /\ e.tasks = g.tasks

(* What append_frames makes of the rows and of the view.                    *)
LEMMA InsertRowsFields ==
  ASSUME NEW g \in Gui, Len(g.source) <= Capacity,
         NEW incoming \in Seq(LiveFrame), Len(incoming) < Capacity
  PROVE  \E k \in 0 .. Len(g.source), p \in Seq(LiveFrame), e \in Gui :
            InsertRows(g, incoming) = ScheduleIncrement(e) /\ Inserted(g, incoming, k, p, e)
  <1>1. /\ g \in Gui /\ g.source \in Seq(LiveFrame) /\ Len(g.source) <= Capacity
        /\ g.rows \in Seq(LiveFrame) /\ g.pending \in Seq(LiveFrame)
    BY DEF Gui
  <1>2. PICK k \in 0 .. Len(g.source) :
          /\ Trim(g.source, incoming) = Drop(g.source, k)
          /\ Len(g.source) - k + Len(incoming) <= Capacity
          /\ k = 0 \/ k < Len(g.source)
             \/ (Len(g.source) <= TrimChunk /\ TrimChunk < Len(incoming))
    BY <1>1, TrimDrops
  <1> DEFINE tr == Drop(g.source, k)
             trimmed == [g EXCEPT !.source = tr]
             pruned == IF trimmed.source = g.source THEN g ELSE Prune(trimmed)
             e == [pruned EXCEPT !.source = @ \o incoming,
                                 !.pending = IF g.enabled THEN @ \o incoming ELSE @]
             r == pruned.rows
             p == pruned.pending
  <1>3. InsertRows(g, incoming) = ScheduleIncrement(e)
    BY <1>2 DEF InsertRows
  <1>4. tr \in Seq(LiveFrame) /\ Len(tr) = Len(g.source) - k
    BY <1>1, CutType
  <1> HIDE DEF tr
  <1>5. trimmed \in Gui /\ trimmed.source = tr /\ trimmed.rows = g.rows /\ trimmed.pending = g.pending
    BY <1>1, <1>4 DEF Gui
  <1>6. /\ pruned \in Gui /\ pruned.source = tr /\ Kin(g, pruned) /\ pruned.shown = g.shown
        /\ pruned.ready = g.ready /\ pruned.scanning = g.scanning
        /\ pruned.running = g.running /\ pruned.streaming = g.streaming
        /\ pruned.tasks = g.tasks
        /\ \/ tr = g.source /\ pruned.rows = g.rows /\ pruned.pending = g.pending
           \/ pruned.rows = Since(tr, g.rows) /\ pruned.pending = Since(tr, g.pending)
    <2>1. CASE tr = g.source
      BY <1>1, <1>5, <2>1 DEF Kin
    <2>2. CASE tr # g.source
      <3>1. pruned = [g EXCEPT !.source = tr, !.rows = Since(tr, g.rows), !.pending = Since(tr, g.pending)]
        BY <1>1, <1>5, <2>2 DEF Prune, Gui
      <3>2. Since(tr, g.rows) \in Seq(LiveFrame) /\ Since(tr, g.pending) \in Seq(LiveFrame)
        BY <1>1, SinceType
      <3> DEFINE a == Since(tr, g.rows)
                 b == Since(tr, g.pending)
      <3> HIDE DEF pruned, a, b
      <3>3. pruned = [g EXCEPT !.source = tr, !.rows = a, !.pending = b]
        BY <3>1 DEF a, b
      <3>4. a \in Seq(LiveFrame) /\ b \in Seq(LiveFrame)
        BY <3>2 DEF a, b
      <3>5. /\ pruned \in Gui /\ pruned.source = tr /\ Kin(g, pruned) /\ pruned.shown = g.shown
            /\ pruned.ready = g.ready /\ pruned.scanning = g.scanning
            /\ pruned.running = g.running /\ pruned.streaming = g.streaming
            /\ pruned.tasks = g.tasks /\ pruned.rows = a /\ pruned.pending = b
        BY <1>1, <1>4, <3>3, <3>4 DEF Gui, Kin
      <3> QED
        BY <3>5 DEF a, b
    <2> QED
      BY <2>1, <2>2
  <1> HIDE DEF pruned
  <1>7. p \in Seq(LiveFrame) /\ p \o incoming \in Seq(LiveFrame) /\ tr \o incoming \in Seq(LiveFrame)
    BY <1>4, <1>6 DEF Gui
  <1> DEFINE src == tr \o incoming
             pend == IF g.enabled THEN p \o incoming ELSE p
  <1>8. e = [pruned EXCEPT !.source = src, !.pending = pend]
    BY <1>6 DEF Gui
  <1>9. src \in Seq(LiveFrame) /\ pend \in Seq(LiveFrame)
    BY <1>7
  <1> HIDE DEF e, src, pend
  <1>10. /\ e \in Gui /\ e.source = src /\ e.rows = r /\ e.pending = pend /\ Kin(g, e)
         /\ e.ready = g.ready /\ e.scanning = g.scanning /\ e.shown = g.shown
         /\ e.running = g.running /\ e.streaming = g.streaming /\ e.tasks = g.tasks
    BY <1>6, <1>8, <1>9 DEF Gui, Kin
  <1> HIDE DEF r, p
  <1>11. k # 0 => tr # g.source
    <2>1. Len(g.source) \in Nat /\ k \in Int
      BY <1>1
    <2>2. k # 0 => Len(tr) # Len(g.source)
      BY <1>4, <2>1
    <2> QED
      BY <2>2
  <1>12. \/ k = 0 /\ r = g.rows /\ p = g.pending
         \/ r = Since(Drop(g.source, k), g.rows) /\ p = Since(Drop(g.source, k), g.pending)
    BY <1>6, <1>11 DEF r, p, tr
  <1>13. e.source = Drop(g.source, k) \o incoming /\ e.pending = IF g.enabled THEN p \o incoming ELSE p
    BY <1>10 DEF src, pend, tr
  <1>14. Inserted(g, incoming, k, p, e)
    BY <1>2, <1>10, <1>12, <1>13 DEF Inserted
  <1> QED
    BY <1>3, <1>7, <1>10, <1>14

(* append_frames of fewer than the model takes keeps the run and the flow.  *)
LEMMA InsertRowsSound ==
  ASSUME NEW g, NEW n, NEW top \in Int, NEW top2 \in Int, Sound(g, n, top),
         NEW incoming \in Seq(LiveFrame), incoming # <<>>, RunTo(incoming, n, top2),
         top2 = top + Len(incoming), Len(incoming) < Capacity
  PROVE  LET h == InsertRows(g, incoming)
         IN Sound(h, n, top2) /\ Kin(g, h) /\ (Bound(g) => Bound(h))
  <1>1. g \in Gui /\ Len(g.source) <= Capacity
    BY DEF Sound
  <1>2. PICK k \in 0 .. Len(g.source), p \in Seq(LiveFrame), e \in Gui :
          InsertRows(g, incoming) = ScheduleIncrement(e) /\ Inserted(g, incoming, k, p, e)
    BY <1>1, InsertRowsFields
  <1>3. /\ Kin(g, e) /\ e.shown = g.shown /\ e.ready = g.ready
        /\ Len(g.source) - k + Len(incoming) <= Capacity
    BY <1>2 DEF Inserted
  <1>4. Sound(e, n, top2)
    BY <1>2, InsertedSound DEF Inserted
  <1> DEFINE h == ScheduleIncrement(e)
  <1>5. h \in Gui /\ Alike(e, h) /\ Kin(e, h) /\ (Bound(e) => Bound(h))
    BY <1>2, ScheduleIncrementSound
  <1>6. Bound(g) => Bound(e)
    BY <1>3 DEF Bound, Kin
  <1> HIDE DEF h
  <1>7. Sound(h, n, top2)
    BY <1>4, <1>5, AlikeSound
  <1>8. Kin(g, h)
    BY <1>3, <1>5 DEF Kin
  <1> QED
    BY <1>2, <1>5, <1>6, <1>7, <1>8 DEF h

(* append_frames                                                            *)
LEMMA AppendRowsSound ==
  ASSUME NEW g, NEW n, NEW top \in Int, NEW top2 \in Int, Sound(g, n, top), top2 >= -1,
         NEW incoming \in Seq(LiveFrame), incoming # <<>>, RunTo(incoming, n, top2),
         top2 = top + Len(incoming)
  PROVE  LET h == AppendRows(g, incoming)
         IN Sound(h, n, top2) /\ Kin(g, h) /\ (Bound(g) => Bound(h))
  <1>1. Capacity \in Nat /\ Len(incoming) \in Nat /\ g \in Gui
    BY LiveViewAssumption DEF Sound
  <1>2. CASE Len(incoming) >= Capacity
    BY <1>1, <1>2, ReplaceRowsSound DEF AppendRows
  <1>3. CASE ~(Len(incoming) >= Capacity)
    <2>1. Len(incoming) < Capacity
      BY <1>1, <1>3
    <2> QED
      BY <1>3, <2>1, InsertRowsSound DEF AppendRows
  <1> QED
    BY <1>2, <1>3

(* A table without a filter only has to be a run.                           *)
LEMMA DisabledSound ==
  ASSUME NEW g \in Gui, NEW n, NEW top, ~g.enabled, Len(g.source) <= Capacity,
         RunTo(g.source, n, top)
  PROVE  Sound(g, n, top)
  BY DEF Sound

(* A task that is not awaited ends.                                         *)
LEMMA TaskGone ==
  ASSUME NEW g \in Gui, NEW task
  PROVE  LET h == [g EXCEPT !.tasks = @ \ {task}]
         IN /\ h \in Gui /\ Kin(g, h) /\ h.shown = g.shown /\ Mine(h) = Mine(g) \ {task}
            /\ h.source = g.source /\ h.rows = g.rows /\ h.pending = g.pending
            /\ h.ready = g.ready /\ h.scanning = g.scanning /\ h.running = g.running
            /\ h.streaming = g.streaming
            /\ ~task.current => Alike(g, h)
  <1> DEFINE left == g.tasks \ {task}
             h == [g EXCEPT !.tasks = left]
  <1>1. left \in SUBSET Task
    BY DEF Gui
  <1> HIDE DEF left
  <1>2. /\ h \in Gui /\ Kin(g, h) /\ h.shown = g.shown /\ h.tasks = left
        /\ h.source = g.source /\ h.rows = g.rows /\ h.pending = g.pending
        /\ h.ready = g.ready /\ h.scanning = g.scanning /\ h.running = g.running
        /\ h.streaming = g.streaming
    BY <1>1 DEF Gui, Kin
  <1>3. h = [g EXCEPT !.tasks = @ \ {task}]
    BY DEF left, Gui
  <1> HIDE DEF h
  <1>4. Mine(h) = Mine(g) \ {task}
    BY <1>2 DEF Mine, left
  <1>5. ~task.current => Mine(h) = Mine(g)
    BY <1>4 DEF Mine
  <1>6. ~task.current => Alike(g, h)
    BY <1>2, <1>5 DEF Alike, Kin
  <1> QED
    BY <1>2, <1>3, <1>4, <1>6

(* A streaming view may drop its oldest rows.                               *)
LEMMA TrimStreamSound ==
  ASSUME NEW g, NEW n, NEW top \in Int, Sound(g, n, top)
  PROVE  LET h == TrimStream(g)
         IN Sound(h, n, top) /\ Kin(g, h) /\ (Bound(g) => Bound(h))
  <1> DEFINE h == TrimStream(g)
             overflow == Len(g.rows) - StreamCapacity
             chunk == Max2(1, StreamCapacity \div 10)
             k == Min2(Len(g.rows), Max2(overflow, chunk))
             rows == Drop(g.rows, k)
  <1>1. /\ StreamCapacity \in Nat \ {0} /\ g \in Gui /\ g.rows \in Seq(LiveFrame)
        /\ Len(g.rows) \in Nat /\ g.pending \in Seq(LiveFrame)
    BY LiveViewAssumption DEF Sound, Gui
  <1>2. CASE ~g.streaming \/ overflow <= 0
    <2>1. h = g
      BY <1>2 DEF TrimStream
    <2> QED
      BY <2>1 DEF Kin
  <1>3. CASE g.streaming /\ ~(overflow <= 0)
    <2>1. h = [g EXCEPT !.rows = rows]
      BY <1>1, <1>3 DEF TrimStream, Gui
    <2>2. chunk \in Nat
      <3>1. StreamCapacity \div 10 \in Int
        BY <1>1
      <3> QED
        BY <3>1 DEF Max2
    <2>3. overflow \in Int /\ overflow > 0
      BY <1>1, <1>3
    <2>4. k \in 0 .. Len(g.rows) /\ g.rows # <<>>
      <3> HIDE DEF chunk
      <3>1. Len(g.rows) # 0
        BY <1>1, <2>3
      <3>2. k \in 0 .. Len(g.rows)
        <4> HIDE DEF overflow
        <4> QED
          BY <1>1, <2>2, <2>3 DEF Min2, Max2
      <3> QED
        BY <3>1, <3>2
    <2> HIDE DEF k
    <2>5. rows \in Seq(LiveFrame)
      BY <1>1, <2>4, CutType
    <2> HIDE DEF rows, h
    <2>6. /\ h \in Gui /\ Kin(g, h) /\ h.shown = g.shown /\ h.tasks = g.tasks
          /\ h.source = g.source /\ h.rows = rows /\ h.pending = g.pending
          /\ h.ready = g.ready /\ h.scanning = g.scanning /\ h.running = g.running
          /\ h.streaming = g.streaming
      BY <1>1, <2>1, <2>5 DEF Gui, Kin
    <2>7. ASSUME NEW f \in Seq(LiveFrame), FlowOf(g, f, top) PROVE FlowOf(h, f, top)
      <3>1. Flow(g.source, Visible(g.set), TRUE, g.rows, f, g.pending, top)
        BY <1>1, <1>3, <2>7 DEF FlowOf, Gui
      <3>2. Flow(g.source, Visible(g.set), TRUE, Drop(g.rows, k), f, g.pending, top)
        BY <1>1, <2>4, <3>1, FlowTrimmed
      <3> QED
        BY <1>1, <1>3, <2>6, <3>2 DEF FlowOf, Kin, rows, Gui
    <2>8. Mine(h) = Mine(g) /\ \A kind, f : HasTask(g, kind, f) => HasTask(h, kind, f)
      BY <2>6 DEF Mine, HasTask, Kin
    <2>9. <<>> \in Seq(LiveFrame)
      OBVIOUS
    <2>10. /\ Idle(g, top) => Idle(h, top)
           /\ Adding(g, top) => Adding(h, top)
           /\ ~Scanning(g, top)
      BY <2>4, <2>6, <2>7, <2>8, <2>9 DEF Idle, Adding, Scanning
    <2>11. Sound(h, n, top)
      BY <2>6, <2>10 DEF Sound, Kin
    <2>12. Bound(g) => Bound(h)
      BY <2>6 DEF Bound, Kin
    <2> QED
      BY <2>6, <2>11, <2>12 DEF h
  <1>4. g.streaming \in BOOLEAN
    BY <1>1 DEF Gui
  <1> QED
    BY <1>2, <1>3, <1>4

(* _frame_scan_completed                                                    *)
LEMMA ScanCompletedSound ==
  ASSUME NEW g, NEW n, NEW top \in Int, Sound(g, n, top), Bound(g),
         NEW task \in g.tasks, task.kind = "scan"
  PROVE  LET h == ScanCompleted([g EXCEPT !.tasks = @ \ {task}], task)
         IN Sound(h, n, top) /\ Kin(g, h) /\ Bound(h)
  <1> DEFINE e == [g EXCEPT !.tasks = @ \ {task}]
             h == ScanCompleted(e, task)
             rows == Since(e.source, Accepted(task.set, task.frames))
             later == {frame \in LiveFrame : frame.sequence > task.frames[Len(task.frames)].sequence}
             pending == Kept(e.pending, later)
             d == [e EXCEPT !.rows = rows, !.scanning = FALSE, !.ready = TRUE, !.pending = pending]
  <1>1. g \in Gui
    BY DEF Sound
  <1>2. /\ e \in Gui /\ Kin(g, e) /\ e.shown = g.shown /\ Mine(e) = Mine(g) \ {task}
        /\ e.source = g.source /\ e.rows = g.rows /\ e.pending = g.pending
        /\ e.ready = g.ready /\ e.scanning = g.scanning /\ e.running = g.running
        /\ e.streaming = g.streaming
        /\ ~task.current => Alike(g, e)
    BY <1>1, TaskGone
  <1> HIDE DEF e
  <1>3. Bound(e)
    BY <1>2 DEF Bound, Kin
  <1>4. CASE ~task.current
    <2>1. h = e
      BY <1>4 DEF ScanCompleted, UpToDate
    <2> QED
      BY <1>2, <1>3, <1>4, <2>1, AlikeSound DEF e
  <1>5. CASE task.current /\ ~g.enabled
    <2>1. h = e
      BY <1>2, <1>5 DEF ScanCompleted, Kin
    <2>2. Sound(e, n, top)
      BY <1>2, <1>5, DisabledSound DEF Sound, Kin
    <2> QED
      BY <1>2, <1>3, <2>1, <2>2 DEF e
  <1>6. CASE task.current /\ g.enabled
    <2>1. task \in Mine(g)
      BY <1>6 DEF Mine
    <2>2. Scanning(g, top)
      <3>1. ~Idle(g, top)
        BY <2>1 DEF Idle
      <3>2. ~Adding(g, top)
        BY <2>1 DEF Adding, HasTask
      <3> QED
        BY <1>6, <3>1, <3>2 DEF Sound
    <2>3. PICK f \in Seq(LiveFrame) : f # <<>> /\ HasTask(g, "scan", f) /\ FlowOf(g, f, top)
      BY <2>2 DEF Scanning
    <2>4. task.frames = f /\ task.set = g.set /\ Mine(e) = {}
      <3> DEFINE w == [kind |-> "scan", frames |-> f, set |-> g.set, current |-> TRUE]
      <3>1. Mine(g) = {w}
        BY <2>3 DEF HasTask
      <3>2. w.frames = f /\ w.set = g.set
        OBVIOUS
      <3> HIDE DEF w
      <3>3. task = w
        BY <2>1, <3>1
      <3> QED
        BY <1>2, <3>1, <3>2, <3>3
    <2>5. g.rows = <<>> /\ ~g.running /\ g.pending \in Seq(LiveFrame)
      BY <1>1, <2>2 DEF Scanning, Gui
    <2>6. Flow(g.source, Visible(g.set), g.streaming, <<>>, f, g.pending, top)
      BY <2>3, <2>5 DEF FlowOf
    <2>7. Flow(g.source, Visible(g.set), g.streaming, Since(g.source, Kept(f, Visible(g.set))), <<>>,
               Kept(g.pending, {x \in LiveFrame : x.sequence > f[Len(f)].sequence}), top)
      BY <2>3, <2>5, <2>6, FlowScanned
    <2>8. Flow(g.source, Visible(g.set), g.streaming, rows, <<>>, pending, top)
      BY <1>2, <2>4, <2>7 DEF Accepted
    <2>9. pending \in Seq(LiveFrame) /\ rows \in Seq(LiveFrame)
      <3>1. pending \in Seq(LiveFrame)
        BY <1>2, <2>5, KeptEls
      <3>2. Kept(f, Visible(g.set)) \in Seq(LiveFrame)
        BY KeptEls
      <3>3. Since(e.source, Kept(f, Visible(g.set))) \in Seq(LiveFrame)
        BY <3>2, SinceType
      <3> QED
        BY <2>4, <3>1, <3>3 DEF Accepted
    <2>10. h = Synchronize(ScheduleIncrement(Prune(d)))
      BY <1>2, <1>6 DEF ScanCompleted, UpToDate, Kin, Gui
    <2> HIDE DEF h, rows, pending, later
    <2>11. /\ d \in Gui /\ Kin(g, d) /\ d.rows = rows /\ d.pending = pending
           /\ ~d.scanning /\ d.ready /\ ~d.running /\ d.tasks = e.tasks
           /\ d.source = g.source /\ d.streaming = g.streaming
      BY <1>2, <2>5, <2>9 DEF Gui, Kin
    <2> HIDE DEF d
    <2>12. Mine(d) = {}
      BY <2>4, <2>11 DEF Mine
    <2>13. Idle(d, top)
      BY <2>8, <2>11, <2>12 DEF Idle, FlowOf, Kin
    <2>14. Sound(d, n, top)
      BY <2>11, <2>13 DEF Sound
    <2> DEFINE a == Prune(d)
               b == ScheduleIncrement(a)
               c == Synchronize(b)
    <2>15. Sound(a, n, top) /\ Kin(d, a)
      BY <2>14, PruneSound
    <2> HIDE DEF a
    <2>16. b \in Gui /\ Alike(a, b) /\ Kin(a, b)
      BY <2>15, ScheduleIncrementSound DEF Sound
    <2> HIDE DEF b
    <2>17. c \in Gui /\ Alike(b, c) /\ Kin(b, c) /\ Bound(c)
      BY <2>16, SynchronizeSound
    <2> HIDE DEF c
    <2>18. Sound(b, n, top)
      BY <2>15, <2>16, AlikeSound
    <2>19. Sound(c, n, top)
      BY <2>17, <2>18, AlikeSound
    <2>20. Kin(g, c)
      BY <2>11, <2>15, <2>16, <2>17 DEF Kin
    <2> QED
      BY <2>10, <2>17, <2>19, <2>20 DEF a, b, c, h, e
  <1>7. task.current \in BOOLEAN /\ g.enabled \in BOOLEAN
    BY <1>1 DEF Gui, Task
  <1> QED
    BY <1>4, <1>5, <1>6, <1>7

(* _incremental_scan_completed                                              *)
LEMMA IncrementCompletedSound ==
  ASSUME NEW g, NEW n, NEW top \in Int, Sound(g, n, top), Bound(g),
         NEW task \in g.tasks, task.kind = "increment"
  PROVE  LET h == IncrementCompleted([g EXCEPT !.tasks = @ \ {task}], task)
         IN Sound(h, n, top) /\ Kin(g, h) /\ Bound(h)
  <1> DEFINE e == [g EXCEPT !.tasks = @ \ {task}]
             h == IncrementCompleted(e, task)
             rows == e.rows \o Since(e.source, Accepted(task.set, task.frames))
             d == [e EXCEPT !.running = FALSE, !.rows = rows]
  <1>1. g \in Gui
    BY DEF Sound
  <1>2. /\ e \in Gui /\ Kin(g, e) /\ e.shown = g.shown /\ Mine(e) = Mine(g) \ {task}
        /\ e.source = g.source /\ e.rows = g.rows /\ e.pending = g.pending
        /\ e.ready = g.ready /\ e.scanning = g.scanning /\ e.running = g.running
        /\ e.streaming = g.streaming
        /\ ~task.current => Alike(g, e)
    BY <1>1, TaskGone
  <1> HIDE DEF e
  <1>3. Bound(e)
    BY <1>2 DEF Bound, Kin
  <1>4. CASE ~task.current
    <2>1. h = e
      BY <1>4 DEF IncrementCompleted, UpToDate
    <2> QED
      BY <1>2, <1>3, <1>4, <2>1, AlikeSound DEF e
  <1>5. CASE task.current /\ ~g.enabled
    <2>1. h = [e EXCEPT !.running = FALSE]
      BY <1>2, <1>5 DEF IncrementCompleted, UpToDate, Kin
    <2> HIDE DEF h
    <2>2. h \in Gui /\ Kin(g, h) /\ h.source = g.source /\ h.shown = g.shown
      BY <1>2, <2>1 DEF Gui, Kin
    <2>3. Sound(h, n, top)
      BY <2>2, <1>5, DisabledSound DEF Sound, Kin
    <2>4. Bound(h)
      BY <1>5, <2>2 DEF Bound, Kin
    <2> QED
      BY <2>2, <2>3, <2>4 DEF h, e
  <1>6. CASE task.current /\ g.enabled
    <2>1. task \in Mine(g)
      BY <1>6 DEF Mine
    <2>2. Adding(g, top)
      <3>1. ~Idle(g, top)
        BY <2>1 DEF Idle
      <3>2. ~Scanning(g, top)
        BY <2>1 DEF Scanning, HasTask
      <3> QED
        BY <1>6, <3>1, <3>2 DEF Sound
    <2>3. PICK f \in Seq(LiveFrame) : HasTask(g, "increment", f) /\ FlowOf(g, f, top)
      BY <2>2 DEF Adding
    <2>4. task.frames = f /\ task.set = g.set /\ Mine(e) = {}
      <3> DEFINE w == [kind |-> "increment", frames |-> f, set |-> g.set, current |-> TRUE]
      <3>1. Mine(g) = {w}
        BY <2>3 DEF HasTask
      <3>2. w.frames = f /\ w.set = g.set
        OBVIOUS
      <3> HIDE DEF w
      <3>3. task = w
        BY <2>1, <3>1
      <3> QED
        BY <1>2, <3>1, <3>2, <3>3
    <2>5. g.ready /\ ~g.scanning /\ g.rows \in Seq(LiveFrame) /\ g.pending \in Seq(LiveFrame)
      BY <1>1, <2>2 DEF Adding, Gui
    <2>6. Flow(g.source, Visible(g.set), g.streaming, g.rows, f, g.pending, top)
      BY <2>3 DEF FlowOf
    <2>7. Flow(g.source, Visible(g.set), g.streaming,
               g.rows \o Since(g.source, Kept(f, Visible(g.set))), <<>>, g.pending, top)
      BY <2>3, <2>5, <2>6, FlowIncremented
    <2>8. Flow(g.source, Visible(g.set), g.streaming, rows, <<>>, g.pending, top)
      BY <1>2, <2>4, <2>7 DEF Accepted
    <2>9. rows \in Seq(LiveFrame)
      <3>1. Kept(f, Visible(g.set)) \in Seq(LiveFrame)
        BY KeptEls
      <3> DEFINE s == Since(e.source, Kept(f, Visible(g.set)))
      <3>2. s \in Seq(LiveFrame)
        BY <3>1, SinceType
      <3> HIDE DEF s
      <3>3. g.rows \o s \in Seq(LiveFrame)
        BY <2>5, <3>2
      <3> QED
        BY <1>2, <2>4, <3>3 DEF Accepted, s
    <2>10. h = TrimStream(ScheduleIncrement(Synchronize(d)))
      BY <1>2, <1>6, <2>5 DEF IncrementCompleted, UpToDate, Kin, Gui
    <2> HIDE DEF h, rows
    <2>11. /\ d \in Gui /\ Kin(g, d) /\ d.rows = rows /\ d.pending = g.pending
           /\ ~d.scanning /\ d.ready /\ ~d.running /\ d.tasks = e.tasks
           /\ d.source = g.source /\ d.streaming = g.streaming
      BY <1>2, <2>5, <2>9 DEF Gui, Kin
    <2> HIDE DEF d
    <2>12. Mine(d) = {}
      BY <2>4, <2>11 DEF Mine
    <2>13. Idle(d, top)
      BY <2>8, <2>11, <2>12 DEF Idle, FlowOf, Kin
    <2>14. Sound(d, n, top)
      BY <2>11, <2>13 DEF Sound
    <2> DEFINE a == Synchronize(d)
               b == ScheduleIncrement(a)
               c == TrimStream(b)
    <2>15. a \in Gui /\ Alike(d, a) /\ Kin(d, a) /\ Bound(a)
      BY <2>11, SynchronizeSound
    <2> HIDE DEF a
    <2>16. b \in Gui /\ Alike(a, b) /\ Kin(a, b) /\ Bound(b)
      BY <2>15, ScheduleIncrementSound
    <2> HIDE DEF b
    <2>17. Sound(a, n, top)
      BY <2>14, <2>15, AlikeSound
    <2>18. Sound(b, n, top)
      BY <2>16, <2>17, AlikeSound
    <2>19. Sound(c, n, top) /\ Kin(b, c) /\ Bound(c)
      BY <2>16, <2>18, TrimStreamSound
    <2> HIDE DEF c
    <2>20. Kin(g, c)
      BY <2>11, <2>15, <2>16, <2>19 DEF Kin
    <2> QED
      BY <2>10, <2>19, <2>20 DEF a, b, c, h, e
  <1>7. task.current \in BOOLEAN /\ g.enabled \in BOOLEAN
    BY <1>1 DEF Gui, Task
  <1> QED
    BY <1>4, <1>5, <1>6, <1>7

-----------------------------------------------------------------------------
(* The check box and the presets.                                           *)

(* Raw frames are filtered when the box is checked and the presets in force *)
(* concern them.                                                            *)
Follows(g) == g.enabled <=> (g.checked /\ AffectsRaw(g.set))

(* The tables say what they are made of.                                    *)
LEMMA ActiveTable ==
  ASSUME NEW set \in FilterSets
  PROVE  Active(set) <=> InForce(set).presets # <<>>
  <1> DEFINE P(s) == InForce(s).presets # <<>>
  <1> HIDE DEF P
  <1>1. Actives = {<<s, P(s)>> : s \in FilterSets}
    BY DEF Actives, P
  <1>2. \A s : P(s) \in BOOLEAN
    BY DEF P
  <1> QED
    BY <1>1, <1>2 DEF Active, P

(* What the table of concerns says of a set of presets.                     *)
LEMMA ConcernTable ==
  ASSUME NEW set \in FilterSets
  PROVE  AffectsRaw(set) <=> Affects(InForce(set))
  <1> DEFINE P(s) == Affects(InForce(s))
  <1>1. Concerns = {<<s, P(s)>> : s \in FilterSets}
    BY DEF Concerns
  <1>2. \A s : P(s) \in BOOLEAN
    BY DEF Affects
  <1> HIDE DEF P
  <1> QED
    BY <1>1, <1>2 DEF AffectsRaw, P

(* Presets that concern raw frames are active.                              *)
LEMMA AffectsActive ==
  ASSUME NEW set \in FilterSets, AffectsRaw(set)
  PROVE  Active(set)
  <1>1. Affects(InForce(set))
    BY ConcernTable
  <1>2. DOMAIN InForce(set).presets # {}
    BY <1>1 DEF Affects
  <1>3. InForce(set).presets # <<>>
    BY <1>2
  <1> QED
    BY <1>3, ActiveTable

(* set_filter_enabled changes the filtering and nothing else.               *)
LEMMA SetEnabledType ==
  ASSUME NEW g \in Gui, NEW wanted \in BOOLEAN
  PROVE  LET h == SetEnabled(g, wanted)
         IN /\ h \in Gui /\ h.enabled = (wanted /\ Active(g.set))
            /\ h.source = g.source /\ h.set = g.set /\ h.checked = g.checked
            /\ h.cursor = g.cursor
  <1> DEFINE h == SetEnabled(g, wanted)
             enabled == wanted /\ Active(g.set)
  <1>1. enabled \in BOOLEAN /\ g.enabled \in BOOLEAN
    BY DEF Active, Gui
  <1>2. CASE enabled = g.enabled
    <2>1. h = g
      BY <1>2 DEF SetEnabled
    <2> QED
      BY <1>2, <2>1
  <1>3. CASE enabled # g.enabled
    <2>1. h = [g EXCEPT !.enabled = enabled, !.ready = FALSE, !.scanning = FALSE, !.rows = <<>>]
      BY <1>3 DEF SetEnabled
    <2>2. <<>> \in Seq(LiveFrame)
      OBVIOUS
    <2> HIDE DEF h, enabled
    <2>3. h \in Gui /\ h.enabled = enabled /\ h.source = g.source /\ h.set = g.set
          /\ h.checked = g.checked /\ h.cursor = g.cursor
      BY <1>1, <2>1, <2>2 DEF Gui
    <2> QED
      BY <2>3 DEF h, enabled
  <1> QED
    BY <1>2, <1>3

(* The tables have truth values.                                            *)
LEMMA AffectsType == \A set : AffectsRaw(set) \in BOOLEAN /\ Active(set) \in BOOLEAN
  BY DEF AffectsRaw, Active

(* _set_filter_application of a stopped view                                *)
LEMMA ApplyStoppedSound ==
  ASSUME NEW g \in Gui, NEW n, NEW top \in Int, top >= -1, Len(g.source) <= Capacity,
         RunTo(g.source, n, top)
  PROVE  LET h == ApplyStopped(g)
         IN Sound(h, n, top) /\ Follows(h) /\ h.cursor = g.cursor
            /\ (h.source = g.source \/ h.source = <<>>)
  <1> DEFINE applied == g.checked /\ Active(g.set)
             s == [g EXCEPT !.streaming = FALSE]
             e == SetEnabled(s, applied /\ AffectsRaw(g.set))
             w == NewGeneration(e)
             d == [w EXCEPT !.checked = FALSE]
             h == ApplyStopped(g)
  <1>1. /\ s \in Gui /\ s.source = g.source /\ s.set = g.set /\ s.checked = g.checked
        /\ s.cursor = g.cursor
    BY DEF Gui
  <1>2. g.checked \in BOOLEAN /\ g.set \in FilterSets /\ applied \in BOOLEAN
        /\ (applied /\ AffectsRaw(g.set)) \in BOOLEAN
    BY AffectsType DEF Gui
  <1>3. h = IF applied THEN ScheduleScan(e) ELSE d
    BY DEF ApplyStopped
  <1> HIDE DEF s, h
  <1>4. /\ e \in Gui /\ e.enabled = ((applied /\ AffectsRaw(g.set)) /\ Active(g.set))
        /\ e.source = g.source /\ e.set = g.set /\ e.checked = g.checked /\ e.cursor = g.cursor
    BY <1>1, <1>2, SetEnabledType
  <1> HIDE DEF e
  <1>5. CASE applied
    <2>1. h = ScheduleScan(e)
      BY <1>3, <1>5
    <2>2. /\ Sound(h, n, top) /\ h.source = e.source /\ h.enabled = e.enabled
          /\ h.checked = e.checked /\ h.set = e.set /\ h.cursor = e.cursor
      BY <1>4, <2>1, ScheduleScanSound
    <2>3. Follows(h)
      BY <1>2, <1>4, <1>5, <2>2 DEF Follows
    <2> QED
      BY <1>4, <2>2, <2>3 DEF h
  <1>6. CASE ~applied
    <2>1. h = d
      BY <1>3, <1>6
    <2>2. ~e.enabled
      BY <1>4, <1>6
    <2>3. w \in Gui /\ w.enabled = e.enabled /\ w.source = e.source /\ w.cursor = e.cursor
      BY <1>4, NewGenerationType DEF NewGeneration, Gui
    <2> HIDE DEF w
    <2>4. d \in Gui /\ d.enabled = e.enabled /\ d.source = g.source /\ ~d.checked /\ d.cursor = g.cursor
      BY <1>4, <2>3 DEF Gui
    <2> HIDE DEF d
    <2>5. Sound(d, n, top)
      BY <2>2, <2>4, DisabledSound
    <2>6. Follows(d)
      BY <2>2, <2>4 DEF Follows
    <2> QED
      BY <2>1, <2>4, <2>5, <2>6 DEF h
  <1> QED
    BY <1>5, <1>6

(* _set_filter_application of a streaming view                              *)
LEMMA ApplyStreamingSound ==
  ASSUME NEW g \in Gui, NEW n, NEW top \in Int, top >= -1
  PROVE  LET h == ApplyStreaming(g)
         IN Sound(h, n, top) /\ Follows(h) /\ h.cursor = g.cursor /\ h.source = <<>>
  <1> DEFINE applied == g.checked /\ Active(g.set)
             e == SetEnabled(g, applied /\ AffectsRaw(g.set))
             s == [e EXCEPT !.streaming = applied]
             h == ResetStream(s)
  <1>1. g.checked \in BOOLEAN /\ g.set \in FilterSets /\ applied \in BOOLEAN
        /\ (applied /\ AffectsRaw(g.set)) \in BOOLEAN
    BY AffectsType DEF Gui
  <1>2. /\ e \in Gui /\ e.enabled = ((applied /\ AffectsRaw(g.set)) /\ Active(g.set))
        /\ e.set = g.set /\ e.checked = g.checked /\ e.cursor = g.cursor
    BY <1>1, SetEnabledType
  <1>3. ApplyStreaming(g) = h
    BY DEF ApplyStreaming
  <1>4. e.enabled <=> (g.checked /\ AffectsRaw(g.set))
    BY <1>1, <1>2, AffectsActive
  <1> HIDE DEF e, applied
  <1>5. s \in Gui /\ s.enabled = e.enabled /\ s.set = g.set /\ s.checked = g.checked /\ s.cursor = g.cursor
    BY <1>1, <1>2 DEF Gui
  <1> HIDE DEF s
  <1>6. /\ Sound(h, n, top) /\ h.source = <<>> /\ h.enabled = s.enabled
        /\ h.checked = s.checked /\ h.set = s.set /\ h.cursor = s.cursor
    BY <1>5, ResetStreamSound
  <1> HIDE DEF h
  <1>7. Follows(h)
    BY <1>4, <1>5, <1>6 DEF Follows
  <1> QED
    BY <1>3, <1>5, <1>6, <1>7

(* _reload_stopped_view.  set is what was read.                             *)
LEMMA ReloadStoppedSound ==
  ASSUME NEW g, NEW n, NEW top \in Int, top >= -1, Sound(g, n, top), Follows(g),
         NEW set \in FilterSets, NEW changed \in BOOLEAN, ~changed => set = g.set
  PROVE  LET h == ReloadStopped([g EXCEPT !.set = set], changed)
         IN Sound(h, n, top) /\ Follows(h) /\ h.cursor = g.cursor /\ h.source = g.source
  <1> DEFINE e == [g EXCEPT !.set = set]
             h == ReloadStopped(e, changed)
             s == SetEnabled(e, AffectsRaw(e.set))
             w == [NewGeneration(e) EXCEPT !.checked = FALSE]
             off == SetEnabled(w, FALSE)
             d == [s EXCEPT !.pending = <<>>, !.running = FALSE, !.timer = FALSE]
  <1>1. g \in Gui /\ Len(g.source) <= Capacity /\ RunTo(g.source, n, top)
        /\ g.checked \in BOOLEAN /\ g.enabled \in BOOLEAN
    BY DEF Sound, Gui
  <1>2. /\ e \in Gui /\ e.set = set /\ e.source = g.source /\ e.cursor = g.cursor
        /\ e.enabled = g.enabled /\ e.checked = g.checked
        /\ ~changed => e = g
    BY <1>1 DEF Gui
  <1> HIDE DEF e
  <1>3. h = IF ~Active(e.set) THEN off
            ELSE IF ~changed \/ ~e.checked THEN e
            ELSE IF s.enabled THEN ScheduleScan(s) ELSE d
    BY DEF ReloadStopped
  <1> HIDE DEF h
  <1>4. CASE ~Active(e.set)
    <2>1. h = off
      BY <1>3, <1>4
    <2>2. w \in Gui /\ w.source = g.source /\ w.cursor = g.cursor /\ ~w.checked
      <3> DEFINE v == NewGeneration(e)
      <3>1. v \in Gui /\ v.source = g.source /\ v.cursor = g.cursor
        BY <1>2, NewGenerationType DEF NewGeneration, Gui
      <3> HIDE DEF v
      <3> DEFINE x == [v EXCEPT !.checked = FALSE]
      <3>2. x \in Gui /\ x.source = g.source /\ x.cursor = g.cursor /\ ~x.checked
        BY <3>1 DEF Gui
      <3> QED
        BY <3>2 DEF v, x, w
    <2> HIDE DEF w
    <2>3. off \in Gui /\ ~off.enabled /\ off.source = g.source /\ off.cursor = g.cursor /\ ~off.checked
      <3>1. /\ off \in Gui /\ off.enabled = (FALSE /\ Active(w.set)) /\ off.source = w.source
            /\ off.checked = w.checked /\ off.cursor = w.cursor
        BY <2>2, SetEnabledType
      <3> HIDE DEF off
      <3> QED
        BY <3>1, <2>2
    <2> HIDE DEF off
    <2>4. Sound(off, n, top) /\ Follows(off)
      BY <1>1, <2>3, DisabledSound DEF Follows
    <2> QED
      BY <2>1, <2>3, <2>4 DEF h, e
  <1>5. CASE Active(e.set) /\ ~changed
    <2>1. h = g
      BY <1>2, <1>3, <1>5
    <2> QED
      BY <2>1 DEF h, e
  <1>6. CASE Active(e.set) /\ changed /\ ~e.checked
    <2>1. h = e
      BY <1>3, <1>6
    <2>2. ~e.enabled
      BY <1>1, <1>2, <1>6 DEF Follows
    <2>3. Sound(e, n, top) /\ Follows(e)
      BY <1>1, <1>2, <1>6, <2>2, DisabledSound DEF Follows
    <2> QED
      BY <1>2, <2>1, <2>3 DEF h, e
  <1>7. CASE Active(e.set) /\ changed /\ e.checked
    <2>1. h = IF s.enabled THEN ScheduleScan(s) ELSE d
      BY <1>3, <1>7
    <2>2. /\ s \in Gui /\ s.enabled = (AffectsRaw(e.set) /\ Active(e.set))
          /\ s.source = g.source /\ s.set = e.set /\ s.checked = e.checked /\ s.cursor = g.cursor
      BY <1>2, AffectsType, SetEnabledType
    <2> HIDE DEF s
    <2>3. CASE s.enabled
      <3>1. /\ Sound(h, n, top) /\ h.source = s.source /\ h.enabled = s.enabled
            /\ h.checked = s.checked /\ h.set = s.set /\ h.cursor = s.cursor
        BY <1>1, <2>1, <2>2, <2>3, ScheduleScanSound
      <3>2. Follows(h)
        BY <1>7, <2>2, <2>3, <3>1 DEF Follows
      <3> QED
        BY <2>2, <3>1, <3>2 DEF h, e
    <2>4. CASE ~s.enabled
      <3>1. h = d
        BY <2>1, <2>4
      <3>2. <<>> \in Seq(LiveFrame)
        OBVIOUS
      <3>3. /\ d \in Gui /\ d.enabled = s.enabled /\ d.source = g.source /\ d.cursor = g.cursor
            /\ d.set = s.set /\ d.checked = s.checked
        BY <2>2, <3>2 DEF Gui
      <3> HIDE DEF d
      <3>4. Sound(d, n, top)
        BY <1>1, <2>4, <3>3, DisabledSound
      <3>5. Follows(d)
        BY <1>7, <2>2, <2>4, <3>3 DEF Follows
      <3> QED
        BY <3>1, <3>3, <3>4, <3>5 DEF h, e
    <2> QED
      BY <2>3, <2>4
  <1> QED
    BY <1>4, <1>5, <1>6, <1>7

(* _reload_streaming_view                                                   *)
LEMMA ReloadStreamingSound ==
  ASSUME NEW g, NEW n, NEW top \in Int, top >= -1, Sound(g, n, top), Follows(g),
         NEW set \in FilterSets, NEW changed \in BOOLEAN, ~changed => set = g.set
  PROVE  LET h == ReloadStreaming([g EXCEPT !.set = set], changed)
         IN Sound(h, n, top) /\ Follows(h) /\ h.cursor = g.cursor
            /\ (h.source = g.source \/ h.source = <<>>)
  <1> DEFINE e == [g EXCEPT !.set = set]
             h == ReloadStreaming(e, changed)
             off == SetEnabled(e, FALSE)
             on == SetEnabled(e, AffectsRaw(e.set))
             o == [off EXCEPT !.streaming = FALSE]
             i == [on EXCEPT !.streaming = TRUE]
             filtering == e.enabled \/ e.streaming
  <1>1. g \in Gui /\ Len(g.source) <= Capacity /\ RunTo(g.source, n, top)
        /\ g.checked \in BOOLEAN /\ g.enabled \in BOOLEAN
    BY DEF Sound, Gui
  <1>2. /\ e \in Gui /\ e.set = set /\ e.source = g.source /\ e.cursor = g.cursor
        /\ e.enabled = g.enabled /\ e.checked = g.checked
        /\ ~changed => e = g
    BY <1>1 DEF Gui
  <1> HIDE DEF e
  <1>3. h = IF ~Active(e.set)
              THEN IF e.checked /\ (changed \/ filtering) THEN ResetStream(o) ELSE off
            ELSE IF ~changed \/ ~e.checked THEN e ELSE ResetStream(i)
    BY DEF ReloadStreaming
  <1> HIDE DEF h
  <1>4. CASE ~Active(e.set)
    <2>0. ~AffectsRaw(e.set)
      BY <1>2, <1>4, AffectsActive
    <2>1. /\ off \in Gui /\ off.enabled = (FALSE /\ Active(e.set)) /\ off.source = e.source
          /\ off.set = e.set /\ off.checked = e.checked /\ off.cursor = e.cursor
      BY <1>2, SetEnabledType
    <2> HIDE DEF off
    <2>2. CASE h = off
      <3>1. Sound(off, n, top) /\ Follows(off)
        BY <1>1, <1>2, <2>0, <2>1, DisabledSound DEF Follows
      <3> QED
        BY <1>2, <2>1, <2>2, <3>1 DEF h, e
    <2>3. CASE h = ResetStream(o)
      <3>1. o \in Gui /\ ~o.enabled /\ o.set = e.set /\ o.cursor = g.cursor
        BY <1>2, <2>1 DEF Gui
      <3> HIDE DEF o
      <3>2. /\ Sound(h, n, top) /\ h.source = <<>> /\ h.enabled = o.enabled
            /\ h.checked = o.checked /\ h.set = o.set /\ h.cursor = o.cursor
        BY <2>3, <3>1, ResetStreamSound
      <3>3. Follows(h)
        BY <2>0, <3>1, <3>2 DEF Follows
      <3> QED
        BY <3>1, <3>2, <3>3 DEF h, e
    <2> QED
      BY <1>3, <1>4, <2>2, <2>3
  <1>5. CASE Active(e.set) /\ ~changed
    <2>1. h = g
      BY <1>2, <1>3, <1>5
    <2> QED
      BY <2>1 DEF h, e
  <1>6. CASE Active(e.set) /\ changed /\ ~e.checked
    <2>1. h = e
      BY <1>3, <1>6
    <2>2. ~e.enabled
      BY <1>1, <1>2, <1>6 DEF Follows
    <2>3. Sound(e, n, top) /\ Follows(e)
      BY <1>1, <1>2, <1>6, <2>2, DisabledSound DEF Follows
    <2> QED
      BY <1>2, <2>1, <2>3 DEF h, e
  <1>7. CASE Active(e.set) /\ changed /\ e.checked
    <2>1. h = ResetStream(i)
      BY <1>3, <1>7
    <2>2. /\ on \in Gui /\ on.enabled = (AffectsRaw(e.set) /\ Active(e.set))
          /\ on.set = e.set /\ on.checked = e.checked /\ on.cursor = e.cursor
      BY <1>2, AffectsType, SetEnabledType
    <2> HIDE DEF on
    <2>3. i \in Gui /\ i.enabled = on.enabled /\ i.set = e.set /\ i.checked = e.checked /\ i.cursor = g.cursor
      BY <1>2, <2>2 DEF Gui
    <2> HIDE DEF i
    <2>4. /\ Sound(h, n, top) /\ h.source = <<>> /\ h.enabled = i.enabled
          /\ h.checked = i.checked /\ h.set = i.set /\ h.cursor = i.cursor
      BY <2>1, <2>3, ResetStreamSound
    <2>5. Follows(h)
      BY <1>7, <2>2, <2>3, <2>4 DEF Follows
    <2> QED
      BY <2>3, <2>4, <2>5 DEF h, e
  <1> QED
    BY <1>4, <1>5, <1>6, <1>7

-----------------------------------------------------------------------------
(* Scans that raise, and batches.                                           *)

(* A scan that raises switches the filtering off.                           *)
LEMMA DisableAfterErrorSound ==
  ASSUME NEW g \in Gui, NEW n, NEW top, Len(g.source) <= Capacity, RunTo(g.source, n, top)
  PROVE  LET h == DisableAfterError(g)
         IN Sound(h, n, top) /\ Follows(h) /\ h.cursor = g.cursor
  <1> DEFINE s == SetEnabled(g, FALSE)
             h == [s EXCEPT !.checked = FALSE, !.pending = <<>>, !.running = FALSE,
                            !.timer = FALSE]
  <1>1. /\ s \in Gui /\ s.enabled = (FALSE /\ Active(g.set)) /\ s.source = g.source
        /\ s.cursor = g.cursor
    BY SetEnabledType
  <1> HIDE DEF s
  <1>2. <<>> \in Seq(LiveFrame)
    OBVIOUS
  <1>3. /\ h \in Gui /\ ~h.enabled /\ h.source = g.source /\ h.cursor = g.cursor
        /\ ~h.checked
    BY <1>1, <1>2 DEF Gui
  <1>4. DisableAfterError(g) = h
    BY DEF DisableAfterError, s
  <1> HIDE DEF h
  <1>5. Sound(h, n, top) /\ Follows(h)
    BY <1>3, DisabledSound DEF Follows
  <1> QED
    BY <1>3, <1>4, <1>5

(* A batch of the pending rows is handed out.                               *)
Batched(g) ==
    LET p == Prune(g)
        n == Min2(BatchSize, Len(p.pending))
        task == [kind |-> "increment", frames |-> SubSeq(p.pending, 1, n),
                 set |-> g.set, current |-> TRUE]
    IN  IF ~g.enabled \/ ~g.ready \/ g.scanning \/ g.running THEN g
        ELSE IF p.pending = <<>> THEN p
        ELSE [p EXCEPT !.pending = Drop(@, n), !.running = TRUE, !.tasks = @ \cup {task}]

(* A batch goes from the pending rows to the hand of its task.              *)
LEMMA BatchedSound ==
  ASSUME NEW g, NEW n, NEW top \in Int, Sound(g, n, top), Bound(g)
  PROVE  LET h == Batched(g)
         IN Sound(h, n, top) /\ Kin(g, h) /\ Bound(h)
  <1> DEFINE p == Prune(g)
             m == Min2(BatchSize, Len(p.pending))
             hand == SubSeq(p.pending, 1, m)
             left == Drop(p.pending, m)
             task == [kind |-> "increment", frames |-> hand, set |-> g.set, current |-> TRUE]
             tasks == p.tasks \cup {task}
             d == [p EXCEPT !.pending = left, !.running = TRUE, !.tasks = tasks]
             h == Batched(g)
             busy == ~g.enabled \/ ~g.ready \/ g.scanning \/ g.running
  <1>1. h = IF busy THEN g ELSE IF p.pending = <<>> THEN p ELSE d
    BY DEF Batched
  <1>2. CASE busy
    <2>1. h = g
      BY <1>1, <1>2
    <2>2. Kin(g, g)
      BY DEF Kin
    <2> QED
      BY <2>1, <2>2
  <1>3. CASE ~busy
    <2>1. /\ Sound(p, n, top) /\ Kin(g, p) /\ p.shown = g.shown /\ p.ready = g.ready
          /\ p.running = g.running /\ p.scanning = g.scanning
      BY PruneSound
    <2> HIDE DEF p, h
    <2>2. Bound(p)
      BY <2>1 DEF Bound, Kin
    <2>3. CASE p.pending = <<>>
      <3>1. h = p
        BY <1>1, <1>3, <2>3
      <3> QED
        BY <2>1, <2>2, <3>1 DEF h
    <2>4. CASE p.pending # <<>>
      <3>1. h = d
        BY <1>1, <1>3, <2>4
      <3>2. p \in Gui /\ p.enabled /\ p.ready /\ ~p.scanning /\ ~p.running
        BY <1>3, <2>1 DEF Sound, Kin
      <3>3. Idle(p, top)
        BY <2>1, <3>2 DEF Sound, Adding, Scanning
      <3>4. p.pending \in Seq(LiveFrame) /\ p.rows \in Seq(LiveFrame) /\ p.tasks \subseteq Task
            /\ p.set \in FilterSets
        BY <3>2 DEF Gui
      <3>5. m \in 0 .. Len(p.pending)
        <4>1. BatchSize \in Nat /\ Len(p.pending) \in Nat
          BY <3>4, LiveViewAssumption
        <4> QED
          BY <4>1 DEF Min2
      <3> HIDE DEF m
      <3>6. Flow(p.source, Visible(p.set), p.streaming, p.rows, hand, left, top)
        BY <3>3, <3>4, <3>5, FlowTaken DEF Idle, FlowOf
      <3>7. hand \in Seq(LiveFrame) /\ left \in Seq(LiveFrame)
        BY <3>4, <3>5 DEF Drop
      <3> HIDE DEF hand, left
      <3>8. task \in Task /\ task.current /\ p.set = g.set
        BY <2>1, <3>4, <3>7 DEF Task, Kin
      <3>9. tasks \in SUBSET Task /\ {t \in tasks : t.current} = Mine(p) \cup {task}
        BY <3>4, <3>8 DEF Mine
      <3>10. Mine(p) = {}
        BY <3>3 DEF Idle
      <3>11. task = [kind |-> "increment", frames |-> hand, set |-> p.set, current |-> TRUE]
        BY <3>8
      <3> HIDE DEF tasks
      <3>12. /\ d \in Gui /\ d.source = p.source /\ d.set = p.set /\ d.rows = p.rows
             /\ d.pending = left /\ d.running /\ d.ready /\ ~d.scanning /\ d.enabled
             /\ d.checked = p.checked /\ d.cursor = p.cursor /\ d.streaming = p.streaming
             /\ d.tasks = tasks /\ d.shown = p.shown
        BY <3>2, <3>7, <3>9 DEF Gui
      <3> HIDE DEF d, task
      <3>13. HasTask(d, "increment", hand)
        BY <3>9, <3>10, <3>11, <3>12 DEF HasTask, Mine
      <3>14. FlowOf(d, hand, top)
        BY <3>6, <3>12 DEF FlowOf
      <3>15. Adding(d, top)
        BY <3>7, <3>12, <3>13, <3>14 DEF Adding
      <3>16. Sound(d, n, top)
        BY <2>1, <3>12, <3>15 DEF Sound
      <3>17. Kin(g, d) /\ Bound(d)
        BY <2>1, <2>2, <3>2, <3>12 DEF Kin, Bound
      <3> QED
        BY <3>1, <3>16, <3>17 DEF h
    <2> QED
      BY <2>3, <2>4
  <1> QED
    BY <1>2, <1>3

-----------------------------------------------------------------------------
(* The inductive invariant, and the steps of the capture.                   *)

(* The table holds a run of frames of the present capture up to the cursor, *)
(* and the projection all that is visible of it; the buffer holds a run of  *)
(* the same capture that ends at the cursor or after it.                    *)
TableOK ==
    Sound(gui, number, gui.cursor) /\ Follows(gui) /\ Bound(gui)

(* The buffer is a run up to what is published, and the cursor is in it.    *)
BufferOK ==
    /\ RunTo(live, number, Published - 1)
    /\ gui.cursor = None \/ (live # <<>> /\ gui.cursor < Published)

(* The inductive invariant.                                                 *)
ViewIInv == TypeOK /\ TableOK /\ BufferOK

(* The first and the last number of a run.                                  *)
LEMMA RunEnds ==
  ASSUME NEW s \in Seq(LiveFrame), NEW n, NEW top \in Int, RunTo(s, n, top), s # <<>>
  PROVE  /\ s[Len(s)].sequence = top /\ top \in Nat
         /\ s[1].sequence = top - Len(s) + 1 /\ top - Len(s) >= -1 /\ Len(s) \in Nat \ {0}
  <1>1. Len(s) \in Nat \ {0}
    OBVIOUS
  <1>2. 1 \in 1 .. Len(s) /\ Len(s) \in 1 .. Len(s)
    BY <1>1
  <1>3. s[1] = [capture |-> n, sequence |-> top - (Len(s) - 1)]
    BY <1>2 DEF RunTo
  <1>4. s[Len(s)] = [capture |-> n, sequence |-> top - (Len(s) - Len(s))]
    BY <1>2 DEF RunTo
  <1>5. s[1] \in LiveFrame /\ s[Len(s)] \in LiveFrame
    BY <1>2, ElsType
  <1>6. s[1].sequence = top - (Len(s) - 1) /\ s[Len(s)].sequence = top - (Len(s) - Len(s))
    BY <1>3, <1>4
  <1>7. s[1].sequence \in Nat /\ s[Len(s)].sequence \in Nat
    BY <1>5 DEF LiveFrame
  <1>8. top - (Len(s) - Len(s)) = top /\ top - (Len(s) - 1) = top - Len(s) + 1
    BY <1>1
  <1>9. top \in Nat /\ top - Len(s) + 1 \in Nat
    BY <1>6, <1>7, <1>8
  <1> QED
    BY <1>1, <1>6, <1>8, <1>9

(* Without a frame the next number is 0, and otherwise one more than that   *)
(* of the last.                                                             *)
LEMMA PublishedType ==
  ASSUME NEW s \in Seq(LiveFrame)
  PROVE  LET p == IF s = <<>> THEN 0 ELSE s[Len(s)].sequence + 1 IN p \in Nat
  <1>1. CASE s = <<>>
    BY <1>1
  <1>2. CASE s # <<>>
    <2>1. Len(s) \in 1 .. Len(s)
      BY <1>2
    <2>2. s[Len(s)] \in LiveFrame
      BY <2>1, ElsType
    <2> QED
      BY <1>2, <2>2 DEF LiveFrame
  <1> QED
    BY <1>1, <1>2

(* Nothing was copied yet, so the table is empty.                           *)
LEMMA NoneEmpty ==
  ASSUME NEW g, NEW n, Sound(g, n, None)
  PROVE  g.source = <<>>
  <1>1. g.source \in Seq(LiveFrame) /\ RunTo(g.source, n, -1) /\ -1 \in Int
    BY DEF Sound, Gui, None
  <1>2. g.source # <<>> => -1 \in Nat
    BY <1>1, RunEnds
  <1> QED
    BY <1>2

-----------------------------------------------------------------------------
(* A step that leaves the buffer and the cursor as they are.                *)
LEMMA SameBuffer ==
  ASSUME BufferOK, live' = live, number' = number, gui'.cursor = gui.cursor
  PROVE  BufferOK'
  BY DEF BufferOK, Published, RunTo

(* The capture appends to its run.                                          *)
LEMMA PublishStep ==
  ASSUME ViewIInv, Publish
  PROVE  ViewIInv'
  <1>1. live \in Seq(LiveFrame) /\ number \in Nat /\ Capacity \in Nat \ {0} /\ MaxFrames \in Nat
    BY LiveViewAssumption DEF ViewIInv, TypeOK
  <1>2. Published \in Nat
    BY <1>1, PublishedType DEF Published
  <1>3. PICK n \in 1 .. Min2(Capacity, MaxFrames - Published) :
            live' = LastOf(live \o [i \in 1 .. n |->
                        [capture |-> number, sequence |-> Published + i - 1]], Capacity)
    BY DEF Publish
  <1> DEFINE p == Published
             new == [i \in 1 .. n |-> [capture |-> number, sequence |-> p + i - 1]]
             all == live \o new
             k == Max2(0, Len(all) - Capacity)
             top == p - 1 + n
  <1>4. n \in Nat \ {0} /\ p \in Nat
    <2>1. Min2(Capacity, MaxFrames - Published) \in Int
      BY <1>1, <1>2 DEF Min2
    <2> QED
      BY <1>2, <2>1, <1>3
  <1>5. live' = Drop(all, k)
    BY <1>3 DEF LastOf
  <1>6. RunTo(live, number, p - 1)
    BY DEF ViewIInv, BufferOK
  <1> HIDE DEF p
  <1>7. \A i \in 1 .. n : p + i - 1 \in Nat /\ top - (n - i) = p + i - 1
    BY <1>4
  <1>8. new \in Seq(LiveFrame) /\ Len(new) = n
    <2>1. \A i \in 1 .. n : [capture |-> number, sequence |-> p + i - 1] \in LiveFrame
      BY <1>1, <1>7 DEF LiveFrame
    <2> QED
      BY <1>4, <2>1
  <1>9. RunTo(new, number, top)
    BY <1>4, <1>7, <1>8 DEF RunTo
  <1> HIDE DEF new
  <1>10. RunTo(all, number, top) /\ all \in Seq(LiveFrame) /\ Len(all) \in Nat \ {0}
    <2>1. top = p - 1 + Len(new) /\ top \in Int /\ p - 1 \in Int
      BY <1>4, <1>8
    <2>2. RunTo(all, number, top)
      BY <1>1, <1>6, <1>8, <1>9, <2>1, RunGrows
    <2>3. all \in Seq(LiveFrame)
      BY <1>1, <1>8
    <2>4. Len(all) = Len(live) + Len(new)
      BY <1>1, <1>8, ConcatProperties, Zenon
    <2>5. Len(live) \in Nat
      BY <1>1
    <2> QED
      BY <1>4, <1>8, <2>2, <2>3, <2>4, <2>5
  <1> HIDE DEF all
  <1>11. k \in 0 .. Len(all) /\ Len(all) - k <= Capacity /\ Len(all) - k >= 1
    BY <1>1, <1>10 DEF Max2
  <1> HIDE DEF k
  <1>12. /\ live' \in Seq(LiveFrame) /\ Len(live') = Len(all) - k
    BY <1>5, <1>10, <1>11, CutType
  <1>13. top \in Int /\ top >= p
    BY <1>4
  <1>14. RunTo(live', number, top)
    BY <1>5, <1>10, <1>11, <1>13, RunDropped
  <1> HIDE DEF top
  <1>15. live' # <<>> /\ Len(live') <= Capacity
    BY <1>11, <1>12
  <1>16. live'[Len(live')].sequence = top
    BY <1>12, <1>13, <1>14, <1>15, RunEnds
  <1>17. Published' = top + 1 /\ Published' - 1 = top
    BY <1>13, <1>15, <1>16 DEF Published
  <1>18. number' = number /\ gui' = gui /\ capture' = capture /\ project' = project
         /\ edits' = edits /\ clicks' = clicks /\ failures' = failures
    BY DEF Publish, bounds
  <1>19. RunTo(live', number', Published' - 1)
    BY <1>14, <1>17, <1>18
  <1>20. gui.cursor = None \/ gui.cursor < Published'
    <2>1. gui.cursor = None \/ gui.cursor < p
      BY DEF ViewIInv, BufferOK, p
    <2>2. gui.cursor \in Int
      BY NoneIsInt DEF ViewIInv, TypeOK
    <2> QED
      BY <1>4, <1>13, <1>17, <2>1, <2>2
  <1>21. BufferOK'
    BY <1>15, <1>18, <1>19, <1>20 DEF BufferOK, RunTo
  <1>22. TableOK'
    BY <1>18 DEF ViewIInv, TableOK
  <1>23. TypeOK'
    BY <1>12, <1>15, <1>18 DEF ViewIInv, TypeOK
  <1> QED
    BY <1>21, <1>22, <1>23 DEF ViewIInv

(* The end of a capture changes no frame.                                   *)
LEMMA EndStep ==
  ASSUME ViewIInv, End
  PROVE  ViewIInv'
  <1>1. BufferOK'
    BY SameBuffer DEF ViewIInv, End
  <1>2. TableOK'
    BY DEF ViewIInv, TableOK, End
  <1>3. TypeOK'
    BY DEF ViewIInv, TypeOK, End, bounds
  <1> QED
    BY <1>1, <1>2, <1>3 DEF ViewIInv

(* A table that was cleared, without a cursor.                              *)
LEMMA ClearedOK ==
  ASSUME ViewIInv, NEW g \in Gui, Alike(gui, g), g.shown = gui.shown, g.checked = gui.checked,
         g.cursor = None, NEW h \in Gui, NEW n, LET c == ClearRows(g)
                                       IN Alike(c, h) /\ Kin(c, h) /\ c.shown = h.shown
  PROVE  Sound(h, n, h.cursor) /\ Follows(h) /\ Bound(h) /\ h.cursor = None
         /\ Len(h.source) <= Capacity
  <1> DEFINE c == ClearRows(g)
  <1>1. Sound(gui, number, gui.cursor) /\ Follows(gui) /\ Bound(gui)
    BY DEF ViewIInv, TableOK
  <1>2. Sound(g, number, gui.cursor)
    BY <1>1, AlikeSound
  <1>3. Bound(g) /\ Follows(g)
    BY <1>1 DEF Bound, Follows, Alike
  <1>4. /\ Sound(c, n, -1) /\ Kin(g, c) /\ (Bound(g) => Bound(c))
    BY <1>2, ClearRowsSound
  <1> HIDE DEF c
  <1>5. Alike(c, h) /\ Kin(c, h) /\ c.shown = h.shown
    BY DEF c
  <1>6. Sound(h, n, -1)
    BY <1>4, <1>5, AlikeSound
  <1>7. h.cursor = None
    BY <1>4, <1>5 DEF Kin
  <1>8. Follows(h) /\ Bound(h)
    BY <1>3, <1>4, <1>5 DEF Kin, Follows, Bound, Alike
  <1> QED
    BY <1>6, <1>7, <1>8 DEF None, Sound

-----------------------------------------------------------------------------
(* The steps of the GUI.                                                    *)

(* A step of the GUI that leaves the buffer and the cursor as they are.     *)
LEMMA GuiStep ==
  ASSUME ViewIInv, Sound(gui', number, gui.cursor), Follows(gui'), Bound(gui'),
         gui'.cursor = gui.cursor, UNCHANGED <<capture, number, live>>,
         project' \in FilterSets, edits' \in 0 .. MaxEdits, clicks' \in 0 .. MaxClicks,
         failures' \in 0 .. MaxFailures
  PROVE  ViewIInv'
  <1>1. BufferOK'
    BY SameBuffer DEF ViewIInv
  <1>2. TableOK'
    BY DEF TableOK
  <1>3. gui' \in Gui /\ Len(gui'.source) <= Capacity
    BY DEF Sound
  <1>4. TypeOK'
    BY <1>3 DEF ViewIInv, TypeOK
  <1> QED
    BY <1>1, <1>2, <1>4 DEF ViewIInv

(* What the invariant and the types say of the GUI.                         *)
LEMMA GuiFacts ==
  ASSUME ViewIInv
  PROVE  /\ gui \in Gui /\ Sound(gui, number, gui.cursor) /\ Follows(gui) /\ Bound(gui)
         /\ gui.cursor \in Int /\ gui.cursor >= -1
         /\ Len(gui.source) <= Capacity /\ RunTo(gui.source, number, gui.cursor)
         /\ gui.set \in FilterSets /\ project \in FilterSets /\ edits \in 0 .. MaxEdits
         /\ clicks \in 0 .. MaxClicks /\ failures \in 0 .. MaxFailures
         /\ MaxEdits \in Nat /\ MaxClicks \in Nat /\ MaxFailures \in Nat
  <1>1. gui \in Gui /\ Sound(gui, number, gui.cursor) /\ Follows(gui) /\ Bound(gui)
    BY DEF ViewIInv, TypeOK, TableOK
  <1>2. gui.cursor \in Int /\ gui.cursor >= -1
    BY <1>1, NoneIsInt
  <1>3. Len(gui.source) <= Capacity /\ RunTo(gui.source, number, gui.cursor)
    BY <1>1 DEF Sound
  <1>4. gui.set \in FilterSets
    BY <1>1 DEF Gui
  <1> QED
    BY <1>1, <1>2, <1>3, <1>4, LiveViewAssumption DEF ViewIInv, TypeOK

(* The filter follows the box in a state with the same box, set and cursor. *)
LEMMA KinCarries ==
  ASSUME NEW g, NEW h, Kin(g, h), Follows(g)
  PROVE  Follows(h) /\ h.cursor = g.cursor
  BY DEF Kin, Follows

(* A capture begins with an empty buffer and an empty table.                *)
LEMMA StartStep ==
  ASSUME ViewIInv, Start
  PROVE  ViewIInv'
  <1> DEFINE g == [gui EXCEPT !.cursor = None, !.paused = FALSE, !.log = TRUE, !.clean = FALSE]
             h == ClearRows(g)
  <1>1. gui \in Gui /\ Sound(gui, number, gui.cursor)
    BY GuiFacts
  <1>2. /\ g \in Gui /\ Alike(gui, g) /\ g.shown = gui.shown /\ g.checked = gui.checked
        /\ g.cursor = None
    BY <1>1 DEF Gui, Alike, Mine, None
  <1> HIDE DEF g
  <1>3. Alike(h, h) /\ Kin(h, h)
    BY DEF Alike, Kin
  <1>4. h \in Gui
    <2>1. Sound(g, number, gui.cursor)
      BY <1>1, <1>2, AlikeSound
    <2>2. Sound(h, number, -1)
      BY <2>1, ClearRowsSound
    <2> QED
      BY <2>2 DEF Sound
  <1>5. gui' = h /\ live' = <<>> /\ number' = number + 1 /\ number < MaxCaptures /\ capture' = "running"
        /\ project' = project /\ edits' = edits /\ clicks' = clicks /\ failures' = failures
    BY DEF Start, bounds, g
  <1>6. Sound(h, number', h.cursor) /\ Follows(h) /\ Bound(h) /\ h.cursor = None
        /\ Len(h.source) <= Capacity
    BY <1>2, <1>3, <1>4, ClearedOK
  <1> HIDE DEF h
  <1>7. TableOK'
    BY <1>5, <1>6 DEF TableOK
  <1>8. BufferOK'
    BY <1>5, <1>6 DEF BufferOK, RunTo
  <1>9. TypeOK'
    <2>1. number' \in 0 .. MaxCaptures
      BY <1>5, LiveViewAssumption DEF ViewIInv, TypeOK
    <2>2. live' \in Seq(LiveFrame) /\ Len(live') <= Capacity
      BY <1>5, LiveViewAssumption
    <2> QED
      BY <1>4, <1>5, <1>6, <2>1, <2>2 DEF ViewIInv, TypeOK
  <1> QED
    BY <1>7, <1>8, <1>9 DEF ViewIInv

(* The view is cleared before the next capture starts.                      *)
LEMMA CleanWorkspaceStep ==
  ASSUME ViewIInv, CleanWorkspace
  PROVE  ViewIInv'
  <1> DEFINE g == [gui EXCEPT !.cursor = None, !.paused = FALSE]
             c == ClearRows(g)
             h == [c EXCEPT !.log = FALSE, !.clean = TRUE]
  <1>1. gui \in Gui /\ Sound(gui, number, gui.cursor)
    BY GuiFacts
  <1>2. /\ g \in Gui /\ Alike(gui, g) /\ g.shown = gui.shown /\ g.checked = gui.checked
        /\ g.cursor = None
    BY <1>1 DEF Gui, Alike, Mine, None
  <1> HIDE DEF g
  <1>3. c \in Gui
    <2>1. Sound(g, number, gui.cursor)
      BY <1>1, <1>2, AlikeSound
    <2>2. Sound(c, number, -1)
      BY <2>1, ClearRowsSound
    <2> QED
      BY <2>2 DEF Sound
  <1>4. h \in Gui /\ Alike(c, h) /\ Kin(c, h) /\ c.shown = h.shown
    <2> HIDE DEF c
    <2> QED
      BY <1>3 DEF Gui, Alike, Kin, Mine
  <1>5. gui' = h /\ UNCHANGED <<capture, number, live, project, edits, clicks, failures>>
    BY DEF CleanWorkspace, bounds, g
  <1> HIDE DEF h
  <1>6. Sound(h, number, h.cursor) /\ Follows(h) /\ Bound(h) /\ h.cursor = None
        /\ Len(h.source) <= Capacity
    BY <1>2, <1>4, ClearedOK
  <1> HIDE DEF c
  <1>7. TableOK'
    BY <1>5, <1>6 DEF TableOK
  <1>8. BufferOK'
    BY <1>5, <1>6 DEF ViewIInv, BufferOK, RunTo, Published
  <1>9. TypeOK'
    BY <1>4, <1>5, <1>6 DEF ViewIInv, TypeOK
  <1> QED
    BY <1>7, <1>8, <1>9 DEF ViewIInv

(* The state of the GUI with other marks of the workspace.                  *)
LEMMA MarkStep ==
  ASSUME ViewIInv, NEW h \in Gui, Alike(gui, h), Kin(gui, h), h.shown = gui.shown, gui' = h,
         UNCHANGED <<capture, number, live, project, edits, failures>>,
         clicks' \in 0 .. MaxClicks
  PROVE  ViewIInv'
  <1>1. Sound(h, number, gui.cursor)
    BY GuiFacts, AlikeSound
  <1>2. Follows(h) /\ h.cursor = gui.cursor
    BY GuiFacts, KinCarries
  <1>3. Bound(h)
    BY GuiFacts DEF Bound, Alike
  <1> QED
    BY <1>1, <1>2, <1>3, GuiStep, GuiFacts

(* A start that fails leaves the cleared view.                              *)
LEMMA StartFailsStep ==
  ASSUME ViewIInv, StartFails
  PROVE  ViewIInv'
  <1> DEFINE h == [gui EXCEPT !.clean = FALSE]
  <1>1. h \in Gui /\ Alike(gui, h) /\ Kin(gui, h) /\ h.shown = gui.shown
    BY GuiFacts DEF Gui, Alike, Kin, Mine
  <1>2. gui' = h /\ UNCHANGED <<capture, number, live, project, edits, clicks, failures>>
    BY DEF StartFails, bounds
  <1> HIDE DEF h
  <1> QED
    BY <1>1, <1>2, MarkStep, GuiFacts

(* The pause box is a mark.                                                 *)
LEMMA ClickPauseStep ==
  ASSUME ViewIInv, ClickPause
  PROVE  ViewIInv'
  <1> DEFINE h == [gui EXCEPT !.paused = ~gui.paused]
  <1>1. h \in Gui /\ Alike(gui, h) /\ Kin(gui, h) /\ h.shown = gui.shown
    BY GuiFacts DEF Gui, Alike, Kin, Mine
  <1>2. gui' = h /\ UNCHANGED <<capture, number, live, project, edits, failures>>
    BY DEF ClickPause
  <1>3. clicks' \in 0 .. MaxClicks
    BY GuiFacts DEF ClickPause
  <1> HIDE DEF h
  <1> QED
    BY <1>1, <1>2, <1>3, MarkStep

(* The presets of the project are not those in force before a reload.       *)
LEMMA EditPresetsStep ==
  ASSUME ViewIInv, EditPresets
  PROVE  ViewIInv'
  <1>1. gui' = gui /\ UNCHANGED <<capture, number, live, clicks, failures>>
        /\ project' \in FilterSets /\ edits' \in 0 .. MaxEdits
    BY GuiFacts DEF EditPresets
  <1> QED
    BY <1>1, GuiFacts, GuiStep

-----------------------------------------------------------------------------
(* The refresh.                                                             *)

(* The frames of a run that are newer than one of it, or than the one       *)
(* before it, are its end.                                                  *)
LEMMA NewerAreEnd ==
  ASSUME NEW s \in Seq(LiveFrame), NEW n, NEW top \in Int, RunTo(s, n, top), s # <<>>,
         NEW c \in Int, c >= top - Len(s), c <= top
  PROVE  LET k == c - (top - Len(s))
         IN /\ k \in 0 .. Len(s)
            /\ Kept(s, {frame \in LiveFrame : frame.sequence > c}) = Drop(s, k)
  <1> DEFINE k == c - (top - Len(s))
             newer == {frame \in LiveFrame : frame.sequence > c}
             d == Drop(s, k)
             w == Kept(s, newer)
  <1>1. Len(s) \in Nat \ {0}
    OBVIOUS
  <1>2. k \in 0 .. Len(s)
    BY <1>1
  <1>3. d \in Seq(LiveFrame) /\ Len(d) = Len(s) - k /\ \A i \in 1 .. Len(s) - k : d[i] = s[i + k]
    BY <1>2, CutType
  <1>4. Rising(s) /\ Rising(d)
    BY <1>2, RunRises, Cut DEF UpTo
  <1>5. w \in Seq(LiveFrame) /\ Els(w) = {x \in Els(s) : x \in newer} /\ Rising(w)
    BY <1>4, KeptEls, KeptRising
  <1>6. \A i \in 1 .. Len(s) : s[i] \in LiveFrame /\ s[i].sequence = top - (Len(s) - i)
    <2> TAKE i \in 1 .. Len(s)
    <2>1. s[i] = [capture |-> n, sequence |-> top - (Len(s) - i)]
      BY DEF RunTo
    <2> QED
      BY <2>1, ElsType
  <1>7. \A i \in 1 .. Len(s) : s[i] \in newer <=> i > k
    <2> TAKE i \in 1 .. Len(s)
    <2>1. top - (Len(s) - i) > c <=> i > k
      BY <1>1
    <2> QED
      BY <1>6, <2>1
  <1> HIDE DEF k, newer, d, w
  <1>8. Els(d) = {x \in Els(s) : x \in newer}
    <2>1. ASSUME NEW i \in 1 .. Len(s) - k
          PROVE  d[i] \in Els(s) /\ d[i] \in newer
      <3>1. i + k \in 1 .. Len(s) /\ i + k > k
        BY <1>1, <1>2
      <3> QED
        BY <1>3, <1>7, <3>1 DEF Els
    <2>2. ASSUME NEW i \in 1 .. Len(s), s[i] \in newer
          PROVE  s[i] \in Els(d)
      <3>1. i - k \in 1 .. Len(s) - k /\ (i - k) + k = i
        BY <1>1, <1>2, <1>7, <2>2
      <3> QED
        BY <1>3, <3>1 DEF Els
    <2> QED
      BY <1>3, <2>1, <2>2 DEF Els
  <1>9. w = d
    BY <1>3, <1>4, <1>5, <1>8, SameEls
  <1> QED
    BY <1>2, <1>9 DEF w, d, k, newer

(* The refresh copies what is newer, or starts again.                       *)
LEMMA RefreshCopies ==
  ASSUME ViewIInv, Refresh
  PROVE  LET g == Synchronize(gui)
             last == live[Len(live)].sequence
         IN /\ last \in Nat /\ Published = last + 1
            /\ \E s \in Seq(LiveFrame), top \in Int :
                  /\ s # <<>> /\ RunTo(s, number, last)
                  /\ \/ Copy(g) = ReplaceRows(g, s)
                     \/ /\ Copy(g) = AppendRows(g, s)
                        /\ Sound(g, number, top) /\ last = top + Len(s)
  <1> DEFINE g == Synchronize(gui)
             last == live[Len(live)].sequence
             c == gui.cursor
             h == Copy(g)
  <1>1. /\ live \in Seq(LiveFrame) /\ RunTo(live, number, Published - 1)
        /\ gui.cursor = None \/ (live # <<>> /\ gui.cursor < Published)
    BY DEF ViewIInv, TypeOK, BufferOK
  <1>2. live # <<>> /\ Selected # <<>>
    BY DEF Refresh, Selected
  <1>3. Published = last + 1 /\ Published \in Nat
    BY <1>1, <1>2, PublishedType DEF Published
  <1>4. /\ last \in Nat /\ live[1].sequence = last - Len(live) + 1 /\ last - Len(live) >= -1
        /\ Len(live) \in Nat \ {0} /\ RunTo(live, number, last)
    <2>2. Len(live) \in 1 .. Len(live)
      BY <1>1, <1>2
    <2>3. live[Len(live)] \in LiveFrame
      BY <1>1, <2>2, ElsType
    <2>4. last \in Nat
      BY <2>3 DEF LiveFrame
    <2>5. Published - 1 = last
      BY <1>3, <2>4
    <2>6. RunTo(live, number, last)
      BY <1>1, <2>5
    <2> QED
      BY <1>1, <1>2, <2>4, <2>6, RunEnds
  <1> HIDE DEF last
  <1>5. /\ gui \in Gui /\ Sound(gui, number, c) /\ Follows(gui) /\ c \in Int /\ c >= -1
    BY GuiFacts
  <1>6. c = None \/ c <= last
    BY <1>1, <1>3, <1>4, <1>5
  <1>7. g \in Gui /\ Alike(gui, g) /\ Kin(gui, g) /\ Bound(g)
    BY <1>5, SynchronizeSound
  <1> HIDE DEF g
  <1>8. Sound(g, number, c) /\ Follows(g)
    BY <1>5, <1>7, AlikeSound, KinCarries
  <1>9. Truncated <=> c # None /\ c < last - Len(live)
    <2>1. live[1].sequence - 1 = last - Len(live)
      BY <1>4
    <2> QED
      BY <2>1 DEF Truncated
  <1> DEFINE Copies(s, top) ==
               /\ s # <<>> /\ RunTo(s, number, last)
               /\ \/ h = ReplaceRows(g, s)
                  \/ h = AppendRows(g, s) /\ Sound(g, number, top) /\ last = top + Len(s)
  <1>10. \E s \in Seq(LiveFrame), top \in Int : Copies(s, top)
    <2>1. CASE Truncated
      <3>1. Selected = live
        BY <1>2, <2>1 DEF Selected
      <3>2. h = ReplaceRows(g, live)
        BY <2>1, <3>1 DEF Copy
      <3> HIDE DEF h
      <3>3. Copies(live, 0)
        BY <1>2, <1>4, <3>2
      <3> HIDE DEF Copies
      <3> QED
        BY <1>1, <3>3
    <2>2. CASE c = None
      <3>1. Selected = live /\ ~Truncated
        BY <1>2, <1>9, <2>2 DEF Selected
      <3>2. h = AppendRows(g, live)
        BY <3>1 DEF Copy
      <3> HIDE DEF h
      <3>3. g.source = <<>>
        BY <1>8, <2>2, NoneEmpty
      <3>4. last - Len(live) \in Int /\ last = (last - Len(live)) + Len(live)
        BY <1>4
      <3>5. Sound(g, number, last - Len(live))
        BY <1>4, <1>8, <3>3, <3>4, SoundEmpty
      <3>6. Copies(live, last - Len(live))
        BY <1>2, <1>4, <3>2, <3>4, <3>5
      <3> HIDE DEF Copies
      <3> QED
        BY <1>1, <3>4, <3>6
    <2>3. CASE c # None /\ ~Truncated
      <3> DEFINE k == c - (last - Len(live))
                 s == Drop(live, k)
      <3>1. c >= last - Len(live) /\ c <= last
        BY <1>4, <1>5, <1>6, <1>9, <2>3
      <3>2. last \in Int
        BY <1>4
      <3>3. /\ k \in 0 .. Len(live)
            /\ Kept(live, {frame \in LiveFrame : frame.sequence > c}) = s
        BY <1>1, <1>2, <1>4, <1>5, <3>1, <3>2, NewerAreEnd
      <3>4. Selected = s
        BY <1>2, <2>3, <3>3 DEF Selected
      <3>5. h = AppendRows(g, s)
        BY <2>3, <3>4 DEF Copy
      <3> HIDE DEF h
      <3>6. s \in Seq(LiveFrame) /\ Len(s) = Len(live) - k /\ RunTo(s, number, last)
        BY <1>1, <1>4, <3>2, <3>3, CutType, RunDropped
      <3>7. last = c + (Len(live) - k)
        BY <1>4, <1>5
      <3> HIDE DEF s, k
      <3>8. Copies(s, c)
        BY <1>2, <1>8, <3>4, <3>5, <3>6, <3>7
      <3> HIDE DEF Copies
      <3> QED
        BY <1>5, <3>6, <3>8
    <2> QED
      BY <2>1, <2>2, <2>3
  <1> HIDE DEF h
  <1> QED
    BY <1>3, <1>4, <1>10 DEF g, h, last

(* The refresh keeps the invariant.                                         *)
LEMMA RefreshStep ==
  ASSUME ViewIInv, Refresh
  PROVE  ViewIInv'
  <1> DEFINE g == Synchronize(gui)
             last == live[Len(live)].sequence
             h == Copy(g)
             e == [h EXCEPT !.cursor = last]
  <1>1. live # <<>> /\ RunTo(live, number, Published - 1)
    BY DEF ViewIInv, BufferOK, Refresh, Selected
  <1>2. /\ last \in Nat /\ Published = last + 1
        /\ \E s \in Seq(LiveFrame), top \in Int :
              /\ s # <<>> /\ RunTo(s, number, last)
              /\ \/ h = ReplaceRows(g, s)
                 \/ h = AppendRows(g, s) /\ Sound(g, number, top) /\ last = top + Len(s)
    BY RefreshCopies
  <1> HIDE DEF last
  <1>3. gui \in Gui /\ Sound(gui, number, gui.cursor) /\ Follows(gui)
    BY GuiFacts
  <1>4. g \in Gui /\ Alike(gui, g) /\ Kin(gui, g) /\ Bound(g)
    BY <1>3, SynchronizeSound
  <1> HIDE DEF g
  <1>5. Follows(g)
    BY <1>3, <1>4, KinCarries
  <1> HIDE DEF h
  <1>6. Sound(h, number, last) /\ Kin(g, h) /\ Bound(h)
    <2>1. last \in Int /\ last >= -1
      BY <1>2
    <2> QED
      BY <1>2, <1>4, <2>1, ReplaceRowsSound, AppendRowsSound
  <1>7. gui' = e /\ UNCHANGED <<capture, number, live, project, edits, clicks, failures>>
    BY DEF Refresh, bounds, g, h, last
  <1>8. h \in Gui
    BY <1>6 DEF Sound
  <1>9. /\ e \in Gui /\ Alike(h, e) /\ e.cursor = last /\ e.shown = h.shown
         /\ e.checked = h.checked
    BY <1>2, <1>8 DEF Gui, Alike, Mine
  <1> HIDE DEF e
  <1>10. Sound(e, number, e.cursor)
    BY <1>6, <1>9, AlikeSound
  <1>11. Follows(e)
    BY <1>5, <1>6, <1>9 DEF Follows, Kin, Alike
  <1>12. Bound(e)
    BY <1>6, <1>9 DEF Bound, Alike
  <1>13. TableOK'
    BY <1>7, <1>10, <1>11, <1>12 DEF TableOK
  <1>14. BufferOK'
    <2>1. Published' = Published
      BY <1>7 DEF Published
    <2>2. last < Published
      BY <1>2
    <2>3. gui'.cursor < Published'
      BY <1>7, <1>9, <2>1, <2>2
    <2> QED
      BY <1>1, <1>7, <2>1, <2>3 DEF BufferOK, RunTo
  <1>15. TypeOK'
    <2>1. Len(e.source) <= Capacity
      BY <1>10 DEF Sound
    <2> QED
      BY <1>7, <1>9, <2>1 DEF ViewIInv, TypeOK
  <1> QED
    BY <1>13, <1>14, <1>15 DEF ViewIInv

-----------------------------------------------------------------------------
(* The steps of the filtering, and the invariant.                           *)

(* The handlers end with the table bound to what there is.                  *)
LEMMA Synchronized ==
  ASSUME ViewIInv, NEW h, Sound(h, number, gui.cursor), Follows(h), h.cursor = gui.cursor,
         gui' = Synchronize(h), UNCHANGED <<capture, number, live, project>>,
         edits' \in 0 .. MaxEdits, clicks' \in 0 .. MaxClicks,
         failures' \in 0 .. MaxFailures
  PROVE  ViewIInv'
  <1> DEFINE e == Synchronize(h)
  <1>1. h \in Gui
    BY DEF Sound
  <1>2. e \in Gui /\ Alike(h, e) /\ Kin(h, e) /\ Bound(e)
    BY <1>1, SynchronizeSound
  <1>3. gui' = e
    OBVIOUS
  <1> HIDE DEF e
  <1>4. Sound(e, number, gui.cursor) /\ Follows(e) /\ e.cursor = gui.cursor
    BY <1>2, AlikeSound, KinCarries
  <1> QED
    BY <1>2, <1>3, <1>4, GuiFacts, GuiStep

(* The filter box.                                                          *)
LEMMA ClickFilterStep ==
  ASSUME ViewIInv, ClickFilter
  PROVE  ViewIInv'
  <1> DEFINE g == [gui EXCEPT !.checked = ~gui.checked]
             h == IF Capturing THEN ApplyStreaming(g) ELSE ApplyStopped(g)
  <1>1. g \in Gui /\ g.source = gui.source /\ g.cursor = gui.cursor
    BY GuiFacts DEF Gui
  <1>2. gui' = Synchronize(h) /\ UNCHANGED <<capture, number, live, project, edits, failures>>
    BY DEF ClickFilter
  <1>3. clicks' \in 0 .. MaxClicks
    BY GuiFacts DEF ClickFilter
  <1> HIDE DEF g
  <1>4. Sound(h, number, gui.cursor) /\ Follows(h) /\ h.cursor = gui.cursor
    <2>1. CASE Capturing
      <3>1. h = ApplyStreaming(g)
        BY <2>1
      <3> HIDE DEF h
      <3> QED
        BY <1>1, <3>1, GuiFacts, ApplyStreamingSound
    <2>2. CASE ~Capturing
      <3>1. h = ApplyStopped(g)
        BY <2>2
      <3> HIDE DEF h
      <3>2. Len(g.source) <= Capacity /\ RunTo(g.source, number, gui.cursor)
        BY <1>1, GuiFacts
      <3> QED
        BY <1>1, <3>1, <3>2, GuiFacts, ApplyStoppedSound
    <2> QED
      BY <2>1, <2>2
  <1> HIDE DEF h
  <1> QED
    BY <1>2, <1>3, <1>4, GuiFacts, Synchronized

(* The presets are read again.                                              *)
LEMMA ReloadStep ==
  ASSUME ViewIInv, Reload
  PROVE  ViewIInv'
  <1> DEFINE changed == <<gui.set, project, TRUE>> \in Changes
             set == IF changed THEN project ELSE gui.set
             g == [gui EXCEPT !.set = set]
             h == IF Capturing THEN ReloadStreaming(g, changed) ELSE ReloadStopped(g, changed)
  <1>1. changed \in BOOLEAN /\ set \in FilterSets /\ (~changed => set = gui.set)
    BY GuiFacts
  <1>2. gui' = Synchronize(h)
        /\ UNCHANGED <<capture, number, live, project, edits, clicks, failures>>
    BY DEF Reload, bounds
  <1>3. Sound(h, number, gui.cursor) /\ Follows(h) /\ h.cursor = gui.cursor
    <2> HIDE DEF changed, set
    <2>1. CASE Capturing
      <3>1. h = ReloadStreaming([gui EXCEPT !.set = set], changed)
        BY <2>1
      <3> HIDE DEF h, g
      <3> QED
        BY <1>1, <3>1, GuiFacts, ReloadStreamingSound
    <2>2. CASE ~Capturing
      <3>1. h = ReloadStopped([gui EXCEPT !.set = set], changed)
        BY <2>2
      <3> HIDE DEF h, g
      <3> QED
        BY <1>1, <3>1, GuiFacts, ReloadStoppedSound
    <2> QED
      BY <2>1, <2>2
  <1> HIDE DEF h
  <1> QED
    BY <1>2, <1>3, GuiFacts, Synchronized

(* The parts that keep the cursor, the presets and the box.                 *)
LEMMA KinStep ==
  ASSUME ViewIInv, NEW h, Sound(h, number, gui.cursor), Kin(gui, h), Bound(h), gui' = h,
         UNCHANGED <<capture, number, live, project, edits, clicks>>,
         failures' \in 0 .. MaxFailures
  PROVE  ViewIInv'
  <1>1. Follows(h) /\ h.cursor = gui.cursor
    BY GuiFacts, KinCarries
  <1> QED
    BY <1>1, GuiFacts, GuiStep

(* The timer fires.                                                         *)
LEMMA StartIncrementStep ==
  ASSUME ViewIInv, StartIncrement
  PROVE  ViewIInv'
  <1> DEFINE g == [gui EXCEPT !.timer = FALSE]
             h == Batched(g)
  <1>1. g \in Gui /\ Alike(gui, g) /\ Kin(gui, g) /\ g.shown = gui.shown
    BY GuiFacts DEF Gui, Alike, Kin, Mine
  <1>2. gui' = h /\ UNCHANGED <<capture, number, live, project, edits, clicks, failures>>
    BY DEF StartIncrement, Batched, bounds
  <1> HIDE DEF g
  <1>3. Sound(g, number, gui.cursor) /\ Bound(g)
    BY <1>1, GuiFacts, AlikeSound DEF Bound, Alike
  <1>4. Sound(h, number, gui.cursor) /\ Kin(g, h) /\ Bound(h)
    BY <1>3, GuiFacts, BatchedSound
  <1> HIDE DEF h
  <1>5. Kin(gui, h)
    BY <1>1, <1>4 DEF Kin
  <1> QED
    BY <1>2, <1>4, <1>5, GuiFacts, KinStep

(* A scan ends.                                                             *)
LEMMA CompletesStep ==
  ASSUME ViewIInv, NEW task \in gui.tasks, Completes(task)
  PROVE  ViewIInv'
  <1> DEFINE g == [gui EXCEPT !.tasks = gui.tasks \ {task}]
             h == IF task.kind = "scan" THEN ScanCompleted(g, task) ELSE IncrementCompleted(g, task)
  <1>1. gui' = h /\ UNCHANGED <<capture, number, live, project, edits, clicks, failures>>
    BY DEF Completes, bounds
  <1>2. task.kind \in {"scan", "increment"}
    <2>1. gui.tasks \subseteq Task
      BY GuiFacts DEF Gui
    <2> QED
      BY <2>1 DEF Task
  <1>3. Sound(h, number, gui.cursor) /\ Kin(gui, h) /\ Bound(h)
    <2>1. CASE task.kind = "scan"
      <3>1. h = ScanCompleted([gui EXCEPT !.tasks = @ \ {task}], task)
        BY <2>1
      <3> HIDE DEF h
      <3> QED
        BY <2>1, <3>1, GuiFacts, ScanCompletedSound
    <2>2. CASE task.kind = "increment"
      <3>1. h = IncrementCompleted([gui EXCEPT !.tasks = @ \ {task}], task)
        BY <2>2
      <3> HIDE DEF h
      <3> QED
        BY <2>2, <3>1, GuiFacts, IncrementCompletedSound
    <2> QED
      BY <1>2, <2>1, <2>2
  <1> HIDE DEF h
  <1> QED
    BY <1>1, <1>3, GuiFacts, KinStep

(* A scan raises.                                                           *)
LEMMA FailsStep ==
  ASSUME ViewIInv, NEW task \in gui.tasks, Fails(task)
  PROVE  ViewIInv'
  <1> DEFINE g == [gui EXCEPT !.tasks = @ \ {task}]
             d == DisableAfterError(g)
  <1>1. gui' = (IF UpToDate(task) THEN Synchronize(d) ELSE g)
        /\ UNCHANGED <<capture, number, live, project, edits, clicks>>
    BY DEF Fails
  <1>2. failures' \in 0 .. MaxFailures
    BY GuiFacts DEF Fails
  <1>3. /\ g \in Gui /\ Kin(gui, g) /\ g.shown = gui.shown
        /\ g.source = gui.source /\ g.ready = gui.ready
        /\ ~task.current => Alike(gui, g)
    BY GuiFacts, TaskGone
  <1> HIDE DEF g
  <1>4. CASE UpToDate(task)
    <2>1. Len(g.source) <= Capacity /\ RunTo(g.source, number, gui.cursor)
      BY <1>3, GuiFacts
    <2>2. Sound(d, number, gui.cursor) /\ Follows(d) /\ d.cursor = g.cursor
      BY <1>3, <2>1, DisableAfterErrorSound
    <2> HIDE DEF d
    <2>3. d.cursor = gui.cursor
      BY <1>3, <2>2 DEF Kin
    <2> QED
      BY <1>1, <1>2, <1>4, <2>2, <2>3, GuiFacts, Synchronized
  <1>5. CASE ~UpToDate(task)
    <2>1. gui' = g /\ Alike(gui, g)
      BY <1>1, <1>3, <1>5 DEF UpToDate
    <2>2. Sound(g, number, gui.cursor) /\ Bound(g)
      BY <1>3, <2>1, GuiFacts, AlikeSound DEF Bound, Alike
    <2> QED
      BY <1>1, <1>2, <1>3, <2>1, <2>2, KinStep
  <1> QED
    BY <1>4, <1>5

(* The invariant holds at first.                                            *)
LEMMA ViewIInvInit == Init => ViewIInv
  <1> SUFFICES ASSUME Init PROVE ViewIInv
    OBVIOUS
  <1>1. <<>> \in Seq(LiveFrame) /\ Len(<<>>) = 0
    OBVIOUS
  <1>2. project \in FilterSets
    BY LiveViewAssumption DEF Init, FilterSets
  <1>3. gui \in Gui /\ gui.source = <<>> /\ gui.cursor = -1 /\ ~gui.enabled /\ ~gui.checked
        /\ ~gui.shown
    BY <1>1, <1>2 DEF Init, Gui, None
  <1>4. Len(gui.source) <= Capacity /\ Len(live) <= Capacity /\ live = <<>> /\ number = 0
    BY <1>3, LiveViewAssumption DEF Init
  <1>5. TypeOK
    BY <1>1, <1>2, <1>3, <1>4, LiveViewAssumption DEF Init, TypeOK
  <1>6. RunTo(gui.source, number, gui.cursor)
    BY <1>3 DEF RunTo
  <1>7. TableOK
    <2>1. Sound(gui, number, gui.cursor)
      BY <1>3, <1>4, <1>6 DEF Sound
    <2>2. Follows(gui)
      BY <1>3 DEF Follows
    <2>3. Bound(gui)
      <3>1. gui.shown \in BOOLEAN
        BY <1>3 DEF Gui
      <3> QED
        BY <1>3, <3>1 DEF Bound
    <2> QED
      BY <2>1, <2>2, <2>3 DEF TableOK
  <1>8. BufferOK
    BY <1>3, <1>4 DEF BufferOK, RunTo, None
  <1> QED
    BY <1>5, <1>7, <1>8 DEF ViewIInv

(* Every step keeps the invariant.                                          *)
LEMMA ViewIInvStep == ViewIInv /\ [Next]_vars => ViewIInv'
  <1> SUFFICES ASSUME ViewIInv, [Next]_vars PROVE ViewIInv'
    OBVIOUS
  <1>1. CASE Service
    BY <1>1, PublishStep, EndStep DEF Service
  <1>2. CASE Operator
    BY <1>2, StartStep, StartFailsStep, CleanWorkspaceStep, ClickFilterStep,
       ClickPauseStep, EditPresetsStep DEF Operator
  <1>3. CASE Refresh \/ Reload \/ StartIncrement
    BY <1>3, RefreshStep, ReloadStep, StartIncrementStep
  <1>4. CASE TaskDone \/ \E task \in gui.tasks : Fails(task)
    BY <1>4, CompletesStep, FailsStep DEF TaskDone
  <1>5. CASE UNCHANGED vars
    <2>1. gui' = gui /\ UNCHANGED <<capture, number, live, project, edits, clicks, failures>>
      BY <1>5 DEF vars, bounds
    <2> QED
      BY <2>1, GuiFacts, GuiStep
  <1> QED
    BY <1>1, <1>2, <1>3, <1>4, <1>5 DEF Next

(* Buffer and table hold neighbouring frames of one capture, and a filtered *)
(* view, what a scan of the pool has in hand and what waits for one cover the *)
(* accepted frames of the table once and in order, whatever the operator, the *)
(* bus and the scans do (LiveFilterIntegration, LiveFrameBuffer).           *)
THEOREM ViewInductive == Spec => []ViewIInv
  BY ViewIInvInit, ViewIInvStep, PTL DEF Spec

(* Every variable of LiveView holds a value of its kind, and neither the buffer *)
(* nor the table exceeds its capacity.                                      *)
THEOREM ViewTypes == Spec => []TypeOK
  <1>1. ViewIInv => TypeOK
    BY DEF ViewIInv
  <1> QED
    BY <1>1, ViewInductive, PTL

-----------------------------------------------------------------------------
(* How a group puts its children together.                                  *)

(* What a node may say of a frame (MatchState).                             *)
States == {"match", "no_match", "unavailable"}

(* What the results of the children of a group make together, in whatever   *)
(* order they are.                                                          *)
Together(decisive, results) ==
    IF decisive \in results THEN decisive
    ELSE IF "unavailable" \in results THEN "unavailable" ELSE Opposite(decisive)

(* One child more.                                                          *)
LEMMA TakeTogether ==
  ASSUME NEW operator, NEW results \in SUBSET States, NEW state \in States
  PROVE  LET d == Decisive(operator)
         IN TakeChild(operator, Together(d, results), state) = Together(d, results \cup {state})
  BY DEF Decisive, TakeChild, Together, Opposite, States

(* The rounds of a loop over a sequence, from the base on.                  *)
Rounds(f, N, S, base, step) ==
    /\ f \in [0 .. N -> S] /\ f[0] = base
    /\ \A i \in 1 .. N : f[i] = step[i][f[i - 1]]

(* so_far of _evaluate_group has these rounds.                              *)
LEMMA GroupRounds ==
  ASSUME NEW operator, operator # "not", NEW states \in Seq(States)
  PROVE  \E f : /\ f \in [0 .. Len(states) -> States]
                /\ f[0] = Opposite(Decisive(operator))
                /\ \A i \in 1 .. Len(states) : f[i] = TakeChild(operator, f[i - 1], states[i])
                /\ EvaluateGroup(operator, states) = f[Len(states)]
  <1> DEFINE N == Len(states)
             base == Opposite(Decisive(operator))
             Take(q, i) == TakeChild(operator, q, states[i])
             step == [i \in 1 .. N |-> [q \in States |-> Take(q, i)]]
             P(f) == f = [i \in 0 .. N |-> IF i = 0 THEN base ELSE Take(f[i - 1], i)]
  <1>1. N \in Nat /\ \A i \in 1 .. N : states[i] \in States
    OBVIOUS
  <1>2. base \in States /\ \A q, s \in States : TakeChild(operator, q, s) \in States
    BY DEF Opposite, Decisive, TakeChild, States
  <1>3. \A i \in 1 .. N : \A q \in States : Take(q, i) \in States
    BY <1>1, <1>2
  <1>4. step \in [1 .. N -> [States -> States]]
    <2> HIDE DEF Take, N
    <2> QED
      BY <1>3
  <1>5. PICK f \in [0 .. N -> States] : Iterates(f, N, base, step)
    <2> HIDE DEF step, N, base
    <2> QED
      BY <1>1, <1>2, <1>4, Recursion, Zenon
  <1>6. P(f)
    <2> HIDE DEF N, Take, base
    <2> SUFFICES ASSUME NEW i \in 0 .. N
                 PROVE  f[i] = IF i = 0 THEN base ELSE Take(f[i - 1], i)
      BY <1>5
    <2>1. i # 0 => i \in 1 .. N /\ i - 1 \in 0 .. N
      BY <1>1
    <2>2. i # 0 => f[i - 1] \in States
      BY <1>5, <2>1
    <2> QED
      BY <1>5, <2>1, <2>2 DEF Iterates
  <1> DEFINE F == CHOOSE f1 : P(f1)
  <1>7. P(F)
    <2> HIDE DEF P
    <2> QED
      BY <1>6
  <1>8. EvaluateGroup(operator, states) = F[N]
    BY Zenon DEF EvaluateGroup
  <1> HIDE DEF F
  <1>9. F[0] = base /\ \A i \in 1 .. N : F[i] = Take(F[i - 1], i)
    <2> HIDE DEF Take, N, base
    <2>1. \A i \in 1 .. N : i \in 0 .. N /\ i # 0
      BY <1>1
    <2> QED
      BY <1>1, <1>7, <2>1
  <1>10. F = [i \in 0 .. N |-> F[i]]
    <2> HIDE DEF Take, N, base
    <2>1. DOMAIN F = 0 .. N
      BY <1>7
    <2> QED
      BY <1>7, <2>1
  <1>11. \A i \in 0 .. N : F[i] \in States
    <2>1. ASSUME NEW i \in 1 .. N, F[i - 1] \in States PROVE F[i] \in States
      <3> HIDE DEF Take, N
      <3> QED
        BY <1>3, <1>9, <2>1
    <2> HIDE DEF N, base, Take
    <2> QED
      BY <1>1, <1>2, <1>9, <2>1, IterateType, Zenon
  <1>12. F \in [0 .. N -> States]
    <2> HIDE DEF N
    <2> QED
      BY <1>10, <1>11
  <1> QED
    BY <1>8, <1>9, <1>12

(* The loop over the children of a group finds what they make together.     *)
LEMMA GroupTogether ==
  ASSUME NEW operator, operator # "not", NEW states \in Seq(States)
  PROVE  EvaluateGroup(operator, states) = Together(Decisive(operator), Els(states))
  <1> DEFINE N == Len(states)
             d == Decisive(operator)
             First(i) == {states[j] : j \in 1 .. i}
  <1>1. N \in Nat /\ \A i \in 1 .. N : states[i] \in States
    OBVIOUS
  <1>2. PICK f : /\ f \in [0 .. N -> States] /\ f[0] = Opposite(d)
                 /\ \A i \in 1 .. N : f[i] = TakeChild(operator, f[i - 1], states[i])
                 /\ EvaluateGroup(operator, states) = f[N]
    BY GroupRounds
  <1> HIDE DEF N
  <1> DEFINE T == {i \in 0 .. N : f[i] = Together(d, First(i))}
  <1>3. 0 \in T
    <2>1. First(0) = {}
      OBVIOUS
    <2>2. Together(d, {}) = Opposite(d)
      BY DEF Together
    <2> QED
      BY <1>1, <1>2, <2>1, <2>2
  <1>4. ASSUME NEW i \in 1 .. N, i - 1 \in T PROVE i \in T
    <2>1. First(i) = First(i - 1) \cup {states[i]} /\ First(i - 1) \in SUBSET States
      <3>1. \A j \in 1 .. i : j \in 1 .. (i - 1) \/ j = i
        BY <1>1
      <3>2. \A j \in 1 .. (i - 1) : j \in 1 .. i /\ j \in 1 .. N
        BY <1>1
      <3>3. i \in 1 .. i
        BY <1>1
      <3> QED
        BY <1>1, <3>1, <3>2, <3>3
    <2>2. f[i - 1] = Together(d, First(i - 1)) /\ states[i] \in States
      BY <1>1, <1>4
    <2> HIDE DEF First
    <2>3. f[i] = Together(d, First(i - 1) \cup {states[i]})
      BY <1>2, <2>1, <2>2, TakeTogether
    <2>4. f[i] = Together(d, First(i))
      BY <2>1, <2>3
    <2>5. i \in 0 .. N
      BY <1>1
    <2> HIDE DEF d
    <2> QED
      BY <2>4, <2>5
  <1>5. N \in T
    <2> HIDE DEF T
    <2>1. \A i \in 0 .. N : i \in T
      BY <1>1, <1>3, <1>4, Induction, Zenon
    <2> QED
      BY <1>1, <2>1
  <1>6. First(N) = Els(states)
    BY DEF Els, N
  <1> QED
    BY <1>2, <1>5, <1>6

-----------------------------------------------------------------------------
(* A tree of conditions has one state for each of its nodes.                *)

(* Induction from the leaves, which have the highest numbers, to the root.  *)
LEMMA TreeInduction ==
  ASSUME NEW N \in Nat, NEW S,
         \A n \in 1 .. N : (\A m \in n + 1 .. N : m \in S) => n \in S
  PROVE  \A n \in 1 .. N : n \in S
  <1> SUFFICES ASSUME NEW k \in 1 .. N, k \notin S PROVE FALSE
    OBVIOUS
  <1> DEFINE T == {x \in 0 .. N - 1 : N - x \notin S}
  <1>1. T \subseteq Nat /\ N - k \in T
    <2>1. N - k \in 0 .. N - 1 /\ N - (N - k) = k
      OBVIOUS
    <2> QED
      BY <2>1
  <1>2. PICK x \in T : \A y \in T : x <= y
    <2> HIDE DEF T
    <2> QED
      BY <1>1, LeastNat, Zenon
  <1> DEFINE n == N - x
  <1>3. n \in 1 .. N /\ n \notin S
    BY <1>2
  <1>4. PICK m \in n + 1 .. N : m \notin S
    BY <1>3
  <1>5. N - m \in 0 .. N - 1 /\ N - (N - m) = m /\ ~(x <= N - m)
    BY <1>2, <1>4
  <1> QED
    BY <1>2, <1>4, <1>5

(* What f says of the children of a node.                                   *)
Results(root, f, n) == [i \in DOMAIN root[n].children |-> f[root[n].children[i]]]

(* The same without their order.                                            *)
Resulting(root, f, n) == {f[root[n].children[i]] : i \in DOMAIN root[n].children}

(* Children come after their parent.                                        *)
LEMMA Children ==
  ASSUME NEW root, IsTree(root), NEW n \in DOMAIN root
  PROVE  /\ Len(root) \in Nat /\ DOMAIN root = 1 .. Len(root)
         /\ Len(root[n].children) \in Nat
         /\ DOMAIN root[n].children = 1 .. Len(root[n].children)
         /\ \A i \in DOMAIN root[n].children : root[n].children[i] \in n + 1 .. Len(root)
         /\ \A i \in DOMAIN root[n].children : root[n].children[i] \in DOMAIN root
  <1>1. root \in Seq(Node) /\ root[n].children \in Seq(n + 1 .. Len(root))
    BY DEF IsTree
  <1>2. Len(root) \in Nat /\ DOMAIN root = 1 .. Len(root)
    BY <1>1
  <1> DEFINE c == root[n].children
             S == n + 1 .. Len(root)
  <1>3. c \in Seq(S)
    BY <1>1
  <1> HIDE DEF c, S
  <1>4. Len(c) \in Nat /\ DOMAIN c = 1 .. Len(c) /\ \A i \in DOMAIN c : c[i] \in S
    BY <1>3
  <1>5. \A x \in S : x \in DOMAIN root
    BY <1>2 DEF S
  <1> QED
    BY <1>2, <1>4, <1>5 DEF c, S

(* The results of the children, with and without their order.               *)
LEMMA ResultsType ==
  ASSUME NEW root, IsTree(root), NEW n \in DOMAIN root, NEW S, NEW f,
         \A i \in DOMAIN root[n].children : f[root[n].children[i]] \in S
  PROVE  /\ Results(root, f, n) \in Seq(S)
         /\ Els(Results(root, f, n)) = Resulting(root, f, n)
  <1> DEFINE c == root[n].children
             N == Len(c)
             r == Results(root, f, n)
  <1>1. N \in Nat /\ DOMAIN c = 1 .. N
    BY Children
  <1>2. r = [i \in 1 .. N |-> f[c[i]]]
    BY <1>1 DEF Results
  <1>3. \A i \in 1 .. N : f[c[i]] \in S
    BY <1>1
  <1> HIDE DEF c, N, r
  <1>4. r \in Seq(S) /\ Len(r) = N
    BY <1>1, <1>2, <1>3
  <1>5. Els(r) = {f[c[i]] : i \in 1 .. N}
    BY <1>2, <1>4 DEF Els
  <1> QED
    BY <1>1, <1>4, <1>5 DEF c, r, Resulting

(* A recursion over a tree has a value.                                     *)
LEMMA TreeFunction ==
  ASSUME NEW root, IsTree(root), NEW S, NEW some \in S,
         NEW node \in [1 .. Len(root) -> [Seq(S) -> S]]
  PROVE  \E f \in [1 .. Len(root) -> S] :
            \A n \in 1 .. Len(root) : f[n] = node[n][Results(root, f, n)]
  <1> DEFINE N == Len(root)
             Def(m, f) == \A n \in N - m + 1 .. N : f[n] = node[n][Results(root, f, n)]
             Built1 == {m \in 0 .. N : \E f \in [1 .. N -> S] : Def(m, f)}
  <1>0. root \in Seq(Node)
    BY DEF IsTree
  <1>1. N \in Nat /\ DOMAIN root = 1 .. N
    BY <1>0
  <1>2. ASSUME NEW f \in [1 .. N -> S], NEW n \in 1 .. N
        PROVE  Results(root, f, n) \in Seq(S) /\ node[n][Results(root, f, n)] \in S
    <2>1. \A i \in DOMAIN root[n].children : f[root[n].children[i]] \in S
      BY <1>1, Children
    <2>2. Results(root, f, n) \in Seq(S)
      BY <1>1, <2>1, ResultsType
    <2> QED
      BY <2>2
  <1> HIDE DEF N
  <1>3. 0 \in Built1
    <2> DEFINE f == [n \in 1 .. N |-> some]
    <2>1. f \in [1 .. N -> S]
      OBVIOUS
    <2>2. Def(0, f)
      BY <1>1
    <2> HIDE DEF f, Def
    <2> QED
      BY <1>1, <2>1, <2>2
  <1>4. ASSUME NEW m \in 1 .. N, m - 1 \in Built1 PROVE m \in Built1
    <2>1. PICK f \in [1 .. N -> S] : Def(m - 1, f)
      BY <1>4
    <2> DEFINE n == N - m + 1
               new == node[n][Results(root, f, n)]
               g == [f EXCEPT ![n] = new]
    <2>2. n \in 1 .. N
      BY <1>1
    <2>3. new \in S
      BY <1>2, <2>2
    <2> HIDE DEF new
    <2>4. g \in [1 .. N -> S] /\ g[n] = new /\ \A k \in 1 .. N : k # n => g[k] = f[k]
      BY <2>2, <2>3
    <2> HIDE DEF g
    <2>5. ASSUME NEW k \in 1 .. N, k >= n PROVE Results(root, g, k) = Results(root, f, k)
      <3>1. \A i \in DOMAIN root[k].children :
                root[k].children[i] \in k + 1 .. N
        BY <1>1, Children DEF N
      <3>2. \A x \in k + 1 .. N : x \in 1 .. N /\ x # n
        BY <1>1, <2>2, <2>5
      <3>3. \A i \in DOMAIN root[k].children : g[root[k].children[i]] = f[root[k].children[i]]
        BY <2>4, <3>1, <3>2
      <3> QED
        BY <3>3 DEF Results
    <2>6. Def(m, g)
      <3> SUFFICES ASSUME NEW k \in N - m + 1 .. N
                   PROVE  g[k] = node[k][Results(root, g, k)]
        OBVIOUS
      <3>1. k \in 1 .. N /\ k >= n
        BY <1>1, <2>2
      <3>2. Results(root, g, k) = Results(root, f, k)
        BY <2>5, <3>1
      <3>3. CASE k = n
        BY <2>4, <3>2, <3>3 DEF new
      <3>4. CASE k # n
        <4>1. k \in N - (m - 1) + 1 .. N
          BY <1>1, <3>1, <3>4
        <4>2. f[k] = node[k][Results(root, f, k)]
          BY <2>1, <4>1
        <4> QED
          BY <2>4, <3>1, <3>2, <3>4, <4>2
      <3> QED
        BY <3>3, <3>4
    <2>7. m \in 0 .. N
      BY <1>1
    <2> HIDE DEF Def
    <2> QED
      BY <2>4, <2>6, <2>7
  <1>5. N \in Built1
    <2> HIDE DEF Built1
    <2>1. \A m \in 0 .. N : m \in Built1
      BY <1>1, <1>3, <1>4, Induction, Zenon
    <2> QED
      BY <1>1, <2>1
  <1>6. PICK f \in [1 .. N -> S] : Def(N, f)
    BY <1>5
  <1>7. \A n \in 1 .. N : n \in N - N + 1 .. N
    BY <1>1
  <1>8. \A n \in 1 .. N : f[n] = node[n][Results(root, f, n)]
    BY <1>6, <1>7
  <1> QED
    BY <1>8 DEF N

-----------------------------------------------------------------------------
(* The states of the filter engine are those of the editor.                 *)

(* What a node makes of the states f gives to its children.                 *)
NodeState(root, frame, f, n) ==
    IF root[n].type = "condition" THEN Judges(root[n], frame)
    ELSE IF root[n].operator = "not" THEN Opposite(f[root[n].children[1]])
    ELSE Together(Decisive(root[n].operator), Resulting(root, f, n))

(* f gives every node of the tree its state.                                *)
Tree(root, frame, f) ==
    /\ f \in [DOMAIN root -> States]
    /\ \A n \in DOMAIN root : f[n] = NodeState(root, frame, f, n)

(* A group of a valid tree has children, and a negation has one.            *)
LEMMA ValidNode ==
  ASSUME NEW root, Valid(root), NEW n \in DOMAIN root, root[n].type # "condition"
  PROVE  \/ root[n].operator = "not" /\ Len(root[n].children) = 1
         \/ root[n].operator \in {"and", "or"} /\ root[n].children # <<>>
  BY DEF Valid

(* A node has a state when its children have.                               *)
LEMMA NodeStateType ==
  ASSUME NEW root, IsTree(root), Valid(root), NEW frame, NEW n \in DOMAIN root, NEW f,
         \A i \in DOMAIN root[n].children : f[root[n].children[i]] \in States
  PROVE  NodeState(root, frame, f, n) \in States
  <1>1. CASE root[n].type = "condition"
    BY <1>1 DEF NodeState, Judges, States
  <1>2. CASE root[n].type # "condition" /\ root[n].operator = "not"
    <2>1. 1 \in DOMAIN root[n].children
      BY <1>2, ValidNode, Children
    <2> QED
      BY <1>2, <2>1 DEF NodeState, Opposite, States
  <1>3. CASE root[n].type # "condition" /\ root[n].operator # "not"
    BY <1>3 DEF NodeState, Together, Decisive, Opposite, States
  <1> QED
    BY <1>1, <1>2, <1>3

(* _evaluate_group of the children is what the node makes of them.          *)
LEMMA NodeEvaluated ==
  ASSUME NEW root, IsTree(root), Valid(root), NEW frame, NEW n \in DOMAIN root, NEW f,
         \A i \in DOMAIN root[n].children : f[root[n].children[i]] \in States
  PROVE  NodeState(root, frame, f, n) =
            IF root[n].type = "condition" THEN Judges(root[n], frame)
            ELSE EvaluateGroup(root[n].operator, Results(root, f, n))
  <1>1. CASE root[n].type = "condition"
    BY <1>1 DEF NodeState
  <1>2. CASE root[n].type # "condition" /\ root[n].operator = "not"
    <2>1. 1 \in DOMAIN root[n].children
      BY <1>2, ValidNode, Children
    <2>2. Results(root, f, n)[1] = f[root[n].children[1]]
      BY <2>1 DEF Results
    <2>3. EvaluateGroup(root[n].operator, Results(root, f, n)) = Opposite(Results(root, f, n)[1])
      BY <1>2 DEF EvaluateGroup
    <2> QED
      BY <1>2, <2>2, <2>3 DEF NodeState
  <1>3. CASE root[n].type # "condition" /\ root[n].operator # "not"
    <2>1. /\ Results(root, f, n) \in Seq(States)
          /\ Els(Results(root, f, n)) = Resulting(root, f, n)
      BY ResultsType
    <2>2. EvaluateGroup(root[n].operator, Results(root, f, n)) =
            Together(Decisive(root[n].operator), Els(Results(root, f, n)))
      BY <1>3, <2>1, GroupTogether
    <2> QED
      BY <1>3, <2>1, <2>2 DEF NodeState
  <1> QED
    BY <1>1, <1>2, <1>3

(* A valid tree has a state for each of its nodes.                          *)
LEMMA TreeExists ==
  ASSUME NEW root, IsTree(root), Valid(root), NEW frame
  PROVE  \E f : Tree(root, frame, f)
  <1> DEFINE N == Len(root)
             Of(n, r) == IF root[n].type = "condition" THEN Judges(root[n], frame)
                         ELSE IF root[n].operator = "not"
                                THEN (IF r = <<>> THEN "unavailable" ELSE Opposite(r[1]))
                         ELSE Together(Decisive(root[n].operator), Els(r))
             node == [n \in 1 .. N |-> [r \in Seq(States) |-> Of(n, r)]]
  <1>1. DOMAIN root = 1 .. N
    BY DEF IsTree
  <1>2. ASSUME NEW n \in 1 .. N, NEW r \in Seq(States) PROVE Of(n, r) \in States
    <2>1. r # <<>> => r[1] \in States
      OBVIOUS
    <2> QED
      BY <2>1 DEF Judges, Opposite, Together, Decisive, States
  <1>3. node \in [1 .. N -> [Seq(States) -> States]]
    <2> HIDE DEF Of, N
    <2> QED
      BY <1>2
  <1>4. "match" \in States
    BY DEF States
  <1>5. PICK f \in [1 .. N -> States] : \A n \in 1 .. N : f[n] = node[n][Results(root, f, n)]
    <2> HIDE DEF node
    <2> QED
      BY <1>3, <1>4, TreeFunction
  <1>6. ASSUME NEW n \in DOMAIN root PROVE f[n] = NodeState(root, frame, f, n)
    <2>1. /\ Results(root, f, n) \in Seq(States)
          /\ Els(Results(root, f, n)) = Resulting(root, f, n)
      <3>1. \A i \in DOMAIN root[n].children : f[root[n].children[i]] \in States
        BY <1>1, <1>5, Children
      <3> QED
        BY <3>1, ResultsType
    <2> DEFINE r == Results(root, f, n)
    <2>2. f[n] = Of(n, r)
      <3> HIDE DEF Of, N, r
      <3> QED
        BY <1>1, <1>5, <2>1 DEF r
    <2>3. Of(n, r) = NodeState(root, frame, f, n)
      <3>1. CASE root[n].type = "condition"
        BY <3>1 DEF NodeState
      <3>2. CASE root[n].type # "condition" /\ root[n].operator = "not"
        <4>1. 1 \in DOMAIN root[n].children
          BY <3>2, ValidNode, Children
        <4>2. r[1] = f[root[n].children[1]] /\ DOMAIN r = DOMAIN root[n].children
          BY <4>1 DEF Results
        <4>3. r # <<>>
          BY <4>1, <4>2
        <4> QED
          BY <3>2, <4>2, <4>3 DEF NodeState
      <3>3. CASE root[n].type # "condition" /\ root[n].operator # "not"
        BY <2>1, <3>3 DEF NodeState
      <3> QED
        BY <3>1, <3>2, <3>3
    <2> QED
      BY <2>2, <2>3
  <1> QED
    BY <1>1, <1>5, <1>6 DEF Tree

(* So have the children of a node.                                          *)
LEMMA ChildStates ==
  ASSUME NEW root, IsTree(root), NEW frame, NEW f, Tree(root, frame, f), NEW n \in DOMAIN root
  PROVE  \A i \in DOMAIN root[n].children : f[root[n].children[i]] \in States
  BY Children DEF Tree

(* The views and the editor's test give the root the same state.            *)
LEMMA SameState ==
  ASSUME NEW root, IsTree(root), Valid(root), NEW frame
  PROVE  \E f : Tree(root, frame, f) /\ Evaluate(root, frame) = f[1] /\ Preview(root, frame) = f[1]
  <1>1. PICK f : Tree(root, frame, f)
    BY TreeExists
  <1>2. \A n \in DOMAIN root : \A i \in DOMAIN root[n].children : f[root[n].children[i]] \in States
    BY <1>1, ChildStates
  <1>3. root # <<>> /\ Len(root) \in Nat /\ DOMAIN root = 1 .. Len(root)
    BY DEF IsTree
  <1>3a. 1 \in DOMAIN root
    <2>1. Len(root) # 0
      BY <1>3 DEF IsTree
    <2> QED
      BY <1>3, <2>1
  <1>4. f = [n \in DOMAIN root |-> f[n]]
    BY <1>1 DEF Tree
  (* The recursion of _evaluate_raw.                                        *)
  <1>5. Evaluate(root, frame) = f[1]
    <2> DEFINE Of(n, g) == IF root[n].type = "condition" THEN Judges(root[n], frame)
                           ELSE EvaluateGroup(root[n].operator, Results(root, g, n))
               P(g) == g = [n \in DOMAIN root |-> Of(n, g)]
               F == CHOOSE g : P(g)
    <2>1. \A n \in DOMAIN root : f[n] = Of(n, f)
      <3> TAKE n \in DOMAIN root
      <3>1. NodeState(root, frame, f, n) = Of(n, f)
        BY <1>2, NodeEvaluated
      <3> QED
        BY <1>1, <3>1 DEF Tree
    <2>2. P(f)
      <3> HIDE DEF Of
      <3> QED
        BY <1>4, <2>1
    <2>3. P(F)
      <3> HIDE DEF P
      <3> QED
        BY <2>2
    <2>4. Evaluate(root, frame) = F[1]
      BY Zenon DEF Evaluate, Results
    <2> HIDE DEF F
    <2>5. \A n \in DOMAIN root : F[n] = Of(n, F)
      <3> HIDE DEF Of
      <3> QED
        BY <2>3
    <2> DEFINE T == {n \in DOMAIN root : F[n] = f[n]}
    <2>6. ASSUME NEW n \in 1 .. Len(root), \A m \in n + 1 .. Len(root) : m \in T
          PROVE  n \in T
      <3>1. \A i \in DOMAIN root[n].children : F[root[n].children[i]] = f[root[n].children[i]]
        BY <1>3, <2>6, Children
      <3>2. Results(root, F, n) = Results(root, f, n)
        BY <3>1 DEF Results
      <3>3. Of(n, F) = Of(n, f)
        BY <3>2
      <3> HIDE DEF Of
      <3> QED
        BY <1>3, <2>1, <2>5, <3>3
    <2>7. \A n \in 1 .. Len(root) : n \in T
      <3> HIDE DEF T
      <3> QED
        BY <1>3, <2>6, TreeInduction, Zenon
    <2> QED
      BY <1>3, <1>3a, <2>4, <2>7
  (* The recursion of the test.                                             *)
  <1>6. Preview(root, frame) = f[1]
    <2> DEFINE Of(n, g) ==
                   LET results == {g[root[n].children[i]] : i \in DOMAIN root[n].children}
                       decisive == Decisive(root[n].operator)
                   IN  IF root[n].type = "condition" THEN Judges(root[n], frame)
                       ELSE IF root[n].operator = "not" THEN Opposite(g[root[n].children[1]])
                       ELSE IF decisive \in results THEN decisive
                       ELSE IF "unavailable" \in results THEN "unavailable"
                       ELSE Opposite(decisive)
               P(g) == g = [n \in DOMAIN root |-> Of(n, g)]
               F == CHOOSE g : P(g)
    <2>1. \A g : \A n \in DOMAIN root : Of(n, g) = NodeState(root, frame, g, n)
      BY DEF NodeState, Together, Resulting
    <2>2. P(f)
      <3> HIDE DEF Of
      <3> QED
        BY <1>1, <1>4, <2>1 DEF Tree
    <2>3. P(F)
      <3> HIDE DEF P
      <3> QED
        BY <2>2
    <2>4. Preview(root, frame) = F[1]
      BY Zenon DEF Preview
    <2> HIDE DEF F
    <2>5. \A n \in DOMAIN root : F[n] = NodeState(root, frame, F, n)
      <3> HIDE DEF Of
      <3> QED
        BY <2>1, <2>3
    <2> DEFINE T == {n \in DOMAIN root : F[n] = f[n]}
    <2>6. ASSUME NEW n \in 1 .. Len(root), \A m \in n + 1 .. Len(root) : m \in T
          PROVE  n \in T
      <3>1. \A i \in DOMAIN root[n].children : F[root[n].children[i]] = f[root[n].children[i]]
        BY <1>3, <2>6, Children
      <3>2. Resulting(root, F, n) = Resulting(root, f, n)
        BY <3>1 DEF Resulting
      <3>3. NodeState(root, frame, F, n) = NodeState(root, frame, f, n)
        <4>1. CASE root[n].type # "condition" /\ root[n].operator = "not"
          <5>1. 1 \in DOMAIN root[n].children
            BY <1>3, <4>1, ValidNode, Children
          <5> QED
            BY <3>1, <4>1, <5>1 DEF NodeState
        <4> QED
          BY <3>2, <4>1 DEF NodeState
      <3> QED
        BY <1>1, <1>3, <2>5, <3>3 DEF Tree
    <2>7. \A n \in 1 .. Len(root) : n \in T
      <3> HIDE DEF T
      <3> QED
        BY <1>3, <2>6, TreeInduction, Zenon
    <2> QED
      BY <1>3, <1>3a, <2>4, <2>7
  <1> QED
    BY <1>1, <1>5, <1>6

-----------------------------------------------------------------------------
(* The presets of a project one after another.                              *)

(* The state of a preset in the views and in the editor.                    *)
LEMMA PresetState ==
  ASSUME NEW p \in Preset, NEW frame
  PROVE  /\ Preview(p.root, frame) \in States
         /\ Valid(p.root) => Evaluate(p.root, frame) = Preview(p.root, frame)
         /\ ~Valid(p.root) => Preview(p.root, frame) = "unavailable"
  <1>1. IsTree(p.root)
    BY DEF Preset
  <1>2. CASE Valid(p.root)
    <2>1. PICK f : /\ Tree(p.root, frame, f) /\ Evaluate(p.root, frame) = f[1]
                   /\ Preview(p.root, frame) = f[1]
      BY <1>1, <1>2, SameState
    <2>2. 1 \in DOMAIN p.root
      <3>1. p.root \in Seq(Node) /\ p.root # <<>>
        BY <1>1 DEF IsTree
      <3> DEFINE r == p.root
      <3> HIDE DEF r
      <3>2. r \in Seq(Node) /\ r # <<>>
        BY <3>1 DEF r
      <3>3. 1 \in DOMAIN r
        BY <3>2
      <3> QED
        BY <3>3 DEF r
    <2>3. f[1] \in States
      BY <2>1, <2>2 DEF Tree
    <2> QED
      BY <1>2, <2>1, <2>3
  <1>3. CASE ~Valid(p.root)
    BY <1>3 DEF Preview, States
  <1> QED
    BY <1>2, <1>3

(* The counters of the loop of _decide.                                     *)
Counts == [seen : Nat, matched : Nat, excluded : BOOLEAN, stopped : BOOLEAN]

(* What the presets considered so far say, whatever their order.            *)
Counted(combination, tested, r) ==
    LET excludes == [mode |-> "exclude", result |-> "match"] \in tested
        matches  == [mode |-> "include", result |-> "match"] \in tested
        misses   == [mode |-> "include", result |-> "no_match"] \in tested
    IN  /\ r.matched <= r.seen
        /\ r.stopped => \/ r.excluded /\ excludes
                        \/ ~r.excluded /\ combination = "and" /\ r.matched < r.seen /\ misses
        /\ ~r.stopped => /\ ~r.excluded /\ ~excludes
                         /\ r.seen = 0 <=> ~matches /\ ~misses
                         /\ r.matched > 0 <=> matches
                         /\ r.matched = r.seen <=> ~misses

(* What the test in the editor says of a preset.                            *)
Test(p, frame) == [mode |-> p.mode, result |-> Preview(p.root, frame)]

(* What one round counts.                                                   *)
LEMMA ConsiderCounts ==
  ASSUME NEW combination \in {"and", "or"}, NEW r \in Counts, NEW p \in Preset, NEW frame
  PROVE  LET including == p.mode = "include"
             matched == Preview(p.root, frame) = "match"
             excluded == r.excluded \/ (p.mode = "exclude" /\ matched)
             n == Consider(combination, r, p, frame)
         IN  /\ n \in Counts
             /\ r.stopped \/ Preview(p.root, frame) = "unavailable" => n = r
             /\ ~r.stopped /\ Preview(p.root, frame) # "unavailable" =>
                    /\ n.seen = IF including THEN r.seen + 1 ELSE r.seen
                    /\ n.matched = IF including /\ matched THEN r.matched + 1 ELSE r.matched
                    /\ n.excluded = excluded
                    /\ n.stopped = (excluded \/ (combination = "and" /\ including /\ ~matched))
  <1> DEFINE state == Preview(p.root, frame)
             including == p.mode = "include"
             matched == state = "match"
             excluded == r.excluded \/ (p.mode = "exclude" /\ matched)
             n == Consider(combination, r, p, frame)
             skipped == r.stopped \/ ~Valid(p.root) \/ state = "unavailable"
             seen == IF including THEN r.seen + 1 ELSE r.seen
             hits == IF including /\ matched THEN r.matched + 1 ELSE r.matched
             stopped == excluded \/ (combination = "and" /\ including /\ ~matched)
  <1>1. CASE r.stopped \/ state = "unavailable"
    <2>1. n = r
      BY <1>1, PresetState DEF Consider
    <2> QED
      BY <1>1, <2>1
  <1>2. CASE ~r.stopped /\ state # "unavailable"
    <2>1. Valid(p.root) /\ Evaluate(p.root, frame) = state
      BY <1>2, PresetState
    <2>2. r.seen \in Nat /\ r.matched \in Nat /\ r.excluded \in BOOLEAN
      BY DEF Counts
    <2>3. seen \in Nat /\ hits \in Nat /\ excluded \in BOOLEAN /\ stopped \in BOOLEAN
      BY <2>2
    <2> DEFINE counted == [r EXCEPT !.seen = seen, !.matched = hits, !.excluded = excluded]
    <2>4. n = [counted EXCEPT !.stopped = counted.excluded
                                \/ (combination = "and" /\ including /\ ~matched)]
      BY <1>2, <2>1 DEF Consider
    <2>5. counted.excluded = excluded
      <3> HIDE DEF excluded, seen, hits
      <3> QED
        BY DEF Counts
    <2>6. n = [counted EXCEPT !.stopped = stopped]
      <3> HIDE DEF n, counted
      <3> QED
        BY <2>4, <2>5
    <2> HIDE DEF seen, hits, excluded, stopped, n
    <2>7. n \in Counts /\ n.seen = seen /\ n.matched = hits /\ n.excluded = excluded
          /\ n.stopped = stopped
      BY <2>3, <2>6 DEF Counts
    <2> QED
      BY <1>2, <2>7 DEF seen, hits, excluded, stopped, n
  <1> QED
    BY <1>1, <1>2

(* One preset more.                                                         *)
LEMMA CountedStep ==
  ASSUME NEW combination \in {"and", "or"}, NEW r \in Counts, NEW p \in Preset, NEW frame,
         NEW tested, Counted(combination, tested, r)
  PROVE  Counted(combination, tested \cup {Test(p, frame)}, Consider(combination, r, p, frame))
  <1> DEFINE state == Preview(p.root, frame)
             n == Consider(combination, r, p, frame)
             more == tested \cup {Test(p, frame)}
             Says(mode, result, set) == [mode |-> mode, result |-> result] \in set
  <1>1. state \in States /\ r.seen \in Nat /\ r.matched \in Nat
        /\ r.excluded \in BOOLEAN /\ r.stopped \in BOOLEAN
    BY PresetState DEF Counts
  <1>2. \A mode, result : Says(mode, result, more) <=>
            Says(mode, result, tested) \/ (mode = p.mode /\ result = state)
    BY DEF Test
  <1>3. /\ n \in Counts
        /\ r.stopped \/ state = "unavailable" => n = r
        /\ ~r.stopped /\ state # "unavailable" =>
                    /\ n.seen = IF p.mode = "include" THEN r.seen + 1 ELSE r.seen
                    /\ n.matched = IF p.mode = "include" /\ state = "match" THEN r.matched + 1 ELSE r.matched
                    /\ n.excluded = (r.excluded \/ (p.mode = "exclude" /\ state = "match"))
                    /\ n.stopped = ((r.excluded \/ (p.mode = "exclude" /\ state = "match"))
                        \/ (combination = "and" /\ p.mode = "include" /\ ~(state = "match")))
    BY ConsiderCounts
  <1>4. \A set, c : Counted(combination, set, c) <=>
        /\ c.matched <= c.seen
        /\ c.stopped => \/ c.excluded /\ Says("exclude", "match", set)
                        \/ ~c.excluded /\ combination = "and" /\ c.matched < c.seen
                            /\ Says("include", "no_match", set)
        /\ ~c.stopped => /\ ~c.excluded /\ ~Says("exclude", "match", set)
                         /\ c.seen = 0 <=> ~Says("include", "match", set) /\ ~Says("include", "no_match", set)
                         /\ c.matched > 0 <=> Says("include", "match", set)
                         /\ c.matched = c.seen <=> ~Says("include", "no_match", set)
    BY Zenon DEF Counted
  <1> HIDE DEF Says, more, n, state
  <1>5. CASE r.stopped
    <2>1. n = r
      BY <1>3, <1>5
    <2>2. Counted(combination, more, r)
      BY <1>2, <1>4, <1>5
    <2> QED
      BY <2>1, <2>2 DEF n, more
  <1>6. CASE ~r.stopped /\ state = "unavailable"
    <2>1. n = r
      BY <1>3, <1>6
    <2>2. /\ Says("exclude", "match", more) <=> Says("exclude", "match", tested)
          /\ Says("include", "match", more) <=> Says("include", "match", tested)
          /\ Says("include", "no_match", more) <=> Says("include", "no_match", tested)
      BY <1>2, <1>6
    <2>3. Counted(combination, more, r)
      BY <1>4, <1>6, <2>2
    <2> QED
      BY <2>1, <2>3 DEF n, more
  <1>7. CASE ~r.stopped /\ state # "unavailable"
    <2>1. state = "match" \/ state = "no_match"
      BY <1>1, <1>7 DEF States
    <2>2. /\ n.seen = IF p.mode = "include" THEN r.seen + 1 ELSE r.seen
          /\ n.matched = IF p.mode = "include" /\ state = "match" THEN r.matched + 1 ELSE r.matched
          /\ n.excluded <=> (r.excluded \/ (p.mode = "exclude" /\ state = "match"))
          /\ n.stopped <=> ((r.excluded \/ (p.mode = "exclude" /\ state = "match"))
                \/ (combination = "and" /\ p.mode = "include" /\ ~(state = "match")))
      BY <1>3, <1>7
    <2>3. /\ r.matched <= r.seen /\ ~r.excluded /\ ~Says("exclude", "match", tested)
          /\ r.seen = 0 <=> ~Says("include", "match", tested) /\ ~Says("include", "no_match", tested)
          /\ r.matched > 0 <=> Says("include", "match", tested)
          /\ r.matched = r.seen <=> ~Says("include", "no_match", tested)
      BY <1>4, <1>7
    <2>4. CASE p.mode = "include" /\ state = "match"
      <3>1. /\ ~Says("exclude", "match", more) /\ Says("include", "match", more)
            /\ Says("include", "no_match", more) <=> Says("include", "no_match", tested)
        BY <1>2, <2>3, <2>4
      <3>2. n.seen = r.seen + 1 /\ n.matched = r.matched + 1 /\ ~n.excluded /\ ~n.stopped
        BY <2>2, <2>3, <2>4
      <3>3. n.matched <= n.seen /\ n.seen # 0 /\ n.matched > 0 /\ (n.matched = n.seen <=> r.matched = r.seen)
        BY <1>1, <2>3, <3>2
      <3>4. Counted(combination, more, n)
        BY <1>4, <2>3, <3>1, <3>2, <3>3
      <3> QED
        BY <3>4 DEF n, more
    <2>5. CASE p.mode = "include" /\ state = "no_match"
      <3>1. /\ ~Says("exclude", "match", more) /\ Says("include", "no_match", more)
            /\ Says("include", "match", more) <=> Says("include", "match", tested)
        BY <1>2, <2>3, <2>5
      <3>2. n.seen = r.seen + 1 /\ n.matched = r.matched /\ ~n.excluded /\ (n.stopped <=> combination = "and")
        BY <2>2, <2>3, <2>5
      <3>3. n.matched < n.seen /\ n.matched <= n.seen /\ n.seen # 0 /\ (n.matched > 0 <=> r.matched > 0)
            /\ n.matched # n.seen
        BY <1>1, <2>3, <3>2
      <3>4. Counted(combination, more, n)
        BY <1>4, <2>3, <3>1, <3>2, <3>3
      <3> QED
        BY <3>4 DEF n, more
    <2>6. CASE p.mode # "include"
      <3>1. /\ Says("exclude", "match", more) <=> p.mode = "exclude" /\ state = "match"
            /\ Says("include", "match", more) <=> Says("include", "match", tested)
            /\ Says("include", "no_match", more) <=> Says("include", "no_match", tested)
        BY <1>2, <2>3, <2>6
      <3>2. /\ n.seen = r.seen /\ n.matched = r.matched
            /\ n.excluded <=> p.mode = "exclude" /\ state = "match"
            /\ n.stopped <=> p.mode = "exclude" /\ state = "match"
        BY <2>2, <2>3, <2>6
      <3>3. Counted(combination, more, n)
        BY <1>4, <2>3, <3>1, <3>2
      <3> QED
        BY <3>3 DEF n, more
    <2> QED
      BY <2>1, <2>4, <2>5, <2>6
  <1> QED
    BY <1>1, <1>5, <1>6, <1>7

(* so_far of _decide has these rounds.                                      *)
LEMMA DecideRounds ==
  ASSUME NEW ps \in Seq(Preset), NEW combination \in {"and", "or"}, NEW frame
  PROVE  \E f : /\ f \in [0 .. Len(ps) -> Counts] /\ f[0] = Undecided
                /\ \A i \in 1 .. Len(ps) : f[i] = Consider(combination, f[i - 1], ps[i], frame)
                /\ Decide([presets |-> ps, combination |-> combination], frame) <=>
                     LET result == f[Len(ps)]
                     IN /\ ~result.excluded
                        /\ \/ result.seen = 0
                           \/ combination = "or" /\ result.matched > 0
                           \/ combination = "and" /\ result.matched = result.seen
  <1> DEFINE N == Len(ps)
             active == [presets |-> ps, combination |-> combination]
             Take(q, i) == Consider(active.combination, q, active.presets[i], frame)
             step == [i \in 1 .. N |-> [q \in Counts |-> Take(q, i)]]
             P(f) == f = [i \in 0 .. Len(active.presets) |->
                             IF i = 0 THEN Undecided ELSE Take(f[i - 1], i)]
  <1>1. N \in Nat /\ \A i \in 1 .. N : ps[i] \in Preset
    OBVIOUS
  <1>2. active.presets = ps /\ active.combination = combination
    OBVIOUS
  <1>3. Undecided \in Counts /\ \A i \in 1 .. N : \A q \in Counts : Take(q, i) \in Counts
    <2>1. ASSUME NEW i \in 1 .. N, NEW q \in Counts PROVE Take(q, i) \in Counts
      <3>1. Consider(combination, q, ps[i], frame) \in Counts
        BY <1>1, ConsiderCounts
      <3> QED
        BY <1>2, <3>1
    <2> QED
      BY <2>1 DEF Undecided, Counts
  <1> HIDE DEF active
  <1>4. step \in [1 .. N -> [Counts -> Counts]]
    <2> HIDE DEF Take, N
    <2> QED
      BY <1>3
  <1>5. PICK f \in [0 .. N -> Counts] : Iterates(f, N, Undecided, step)
    <2> HIDE DEF step, N
    <2> QED
      BY <1>1, <1>3, <1>4, Recursion, Zenon
  <1>6. P(f)
    <2> HIDE DEF Take
    <2> SUFFICES ASSUME NEW i \in 0 .. N
                 PROVE  f[i] = IF i = 0 THEN Undecided ELSE Take(f[i - 1], i)
      BY <1>2, <1>5
    <2> HIDE DEF N
    <2>1. i # 0 => i \in 1 .. N /\ i - 1 \in 0 .. N
      BY <1>1
    <2>2. i # 0 => f[i - 1] \in Counts
      BY <1>5, <2>1
    <2> QED
      BY <1>5, <2>1, <2>2 DEF Iterates
  <1> DEFINE F == CHOOSE f1 : P(f1)
  <1>7. P(F)
    <2> HIDE DEF P
    <2> QED
      BY <1>6
  <1>8. Decide(active, frame) <=>
            /\ ~F[Len(active.presets)].excluded
            /\ \/ F[Len(active.presets)].seen = 0
               \/ active.combination = "or" /\ F[Len(active.presets)].matched > 0
               \/ active.combination = "and"
                    /\ F[Len(active.presets)].matched = F[Len(active.presets)].seen
    BY Zenon DEF Decide
  <1> HIDE DEF F
  <1>9. F = [i \in 0 .. N |-> IF i = 0 THEN Undecided ELSE Take(F[i - 1], i)]
    <2> HIDE DEF Take
    <2> QED
      BY <1>2, <1>7
  <1>10. F[0] = Undecided /\ \A i \in 1 .. N : F[i] = Take(F[i - 1], i)
    <2> HIDE DEF Take, N, P
    <2>1. \A i \in 1 .. N : i \in 0 .. N /\ i # 0
      BY <1>1
    <2> QED
      BY <1>1, <1>9, <2>1
  <1>11. F = [i \in 0 .. N |-> F[i]]
    <2> HIDE DEF Take, N, P
    <2>1. DOMAIN F = 0 .. N
      BY <1>9
    <2> QED
      BY <1>9, <2>1
  <1>12. \A i \in 0 .. N : F[i] \in Counts
    <2>1. ASSUME NEW i \in 1 .. N, F[i - 1] \in Counts PROVE F[i] \in Counts
      <3> HIDE DEF Take, N, P
      <3> QED
        BY <1>3, <1>10, <2>1
    <2> HIDE DEF N, Take, P
    <2> QED
      BY <1>1, <1>3, <1>10, <2>1, IterateType, Zenon
  <1>13. F \in [0 .. N -> Counts]
    <2> HIDE DEF N, P
    <2> QED
      BY <1>11, <1>12
  <1>14. \A i \in 1 .. N : F[i] = Consider(combination, F[i - 1], ps[i], frame)
    BY <1>2, <1>10
  <1>15. Decide(active, frame) <=>
            /\ ~F[N].excluded
            /\ \/ F[N].seen = 0
               \/ combination = "or" /\ F[N].matched > 0
               \/ combination = "and" /\ F[N].matched = F[N].seen
    BY <1>2, <1>8
  <1> QED
    BY <1>10, <1>13, <1>14, <1>15 DEF active

(* What the test in the editor says of these presets.                       *)
Tests(ps, frame) == {Test(p, frame) : p \in Els(ps)}

(* The loop ends with what all presets say.                                 *)
LEMMA DecideCounted ==
  ASSUME NEW ps \in Seq(Preset), NEW combination \in {"and", "or"}, NEW frame
  PROVE  \E r \in Counts :
            /\ Counted(combination, Tests(ps, frame), r)
            /\ Decide([presets |-> ps, combination |-> combination], frame) <=>
                /\ ~r.excluded
                /\ \/ r.seen = 0
                   \/ combination = "or" /\ r.matched > 0
                   \/ combination = "and" /\ r.matched = r.seen
  <1> DEFINE N == Len(ps)
             First(i) == {Test(ps[j], frame) : j \in 1 .. i}
             T(f) == {i \in 0 .. N : Counted(combination, First(i), f[i])}
  <1>1. N \in Nat /\ \A i \in 1 .. N : ps[i] \in Preset
    OBVIOUS
  <1>2. PICK f : /\ f \in [0 .. N -> Counts] /\ f[0] = Undecided
                 /\ \A i \in 1 .. N : f[i] = Consider(combination, f[i - 1], ps[i], frame)
                 /\ Decide([presets |-> ps, combination |-> combination], frame) <=>
                     LET result == f[N]
                     IN /\ ~result.excluded
                        /\ \/ result.seen = 0
                           \/ combination = "or" /\ result.matched > 0
                           \/ combination = "and" /\ result.matched = result.seen
    BY DecideRounds
  <1>3. First(N) = Tests(ps, frame)
    BY DEF Tests, Els
  <1> HIDE DEF N
  <1>4. 0 \in T(f)
    <2>1. First(0) = {}
      OBVIOUS
    <2>2. Counted(combination, {}, Undecided)
      BY DEF Counted, Undecided
    <2> HIDE DEF First
    <2>3. f[0] = Undecided
      BY <1>2
    <2>4. Counted(combination, First(0), f[0])
      BY <2>1, <2>2, <2>3
    <2>5. 0 \in 0 .. N
      BY <1>1
    <2> QED
      BY <2>4, <2>5
  <1>5. ASSUME NEW i \in 1 .. N, i - 1 \in T(f) PROVE i \in T(f)
    <2>1. First(i) = First(i - 1) \cup {Test(ps[i], frame)}
      <3>1. \A j \in 1 .. i : j \in 1 .. (i - 1) \/ j = i
        BY <1>1
      <3>2. \A j \in 1 .. (i - 1) : j \in 1 .. i
        BY <1>1
      <3>3. i \in 1 .. i
        BY <1>1
      <3> QED
        BY <3>1, <3>2, <3>3
    <2>2. Counted(combination, First(i - 1), f[i - 1]) /\ f[i - 1] \in Counts /\ i \in 0 .. N
      <3>1. i - 1 \in 0 .. N /\ i \in 0 .. N
        BY <1>1
      <3> QED
        BY <1>2, <1>5, <3>1
    <2> HIDE DEF First
    <2>3. Counted(combination, First(i - 1) \cup {Test(ps[i], frame)}, f[i])
      BY <1>1, <1>2, <2>2, CountedStep
    <2> QED
      BY <2>1, <2>2, <2>3
  <1>6. N \in T(f)
    <2> HIDE DEF T
    <2>1. \A i \in 0 .. N : i \in T(f)
      BY <1>1, <1>4, <1>5, Induction, Zenon
    <2> QED
      BY <1>1, <2>1
  <1>7. Counted(combination, Tests(ps, frame), f[N]) /\ f[N] \in Counts
    <2> HIDE DEF First
    <2>1. N \in 0 .. N
      BY <1>1
    <2> QED
      BY <1>2, <1>3, <1>6, <2>1
  <1> QED
    BY <1>2, <1>7

(* The tests of the presets that are used.                                  *)
LEMMA UsedTests ==
  ASSUME NEW settings \in Settings, NEW frame
  PROVE  LET used == Kept(settings.presets, Used)
         IN /\ used \in Seq(Preset)
            /\ Tests(used, frame) = {Test(p, frame) : p \in
                   {settings.presets[i] : i \in DOMAIN settings.presets} \cap Used}
  <1> DEFINE s == settings.presets
             used == Kept(s, Used)
  <1>1. s \in Seq(Preset)
    BY DEF Settings
  <1> HIDE DEF s
  <1>2. used \in Seq(Preset) /\ Els(used) = {x \in Els(s) : x \in Used}
    BY <1>1, KeptEls
  <1>3. Els(s) = {s[i] : i \in DOMAIN s}
    BY <1>1 DEF Els
  <1>4. Els(used) = {s[i] : i \in DOMAIN s} \cap Used
    BY <1>2, <1>3
  <1> QED
    BY <1>2, <1>4 DEF Tests, s

(* The compiled set that a view uses, which stops at the first child and at the *)
(* first preset that decides, shows a frame exactly when the test in the editor *)
(* of the presets one by one asks for it (StaticCombinedActiveFilterSet._decide, *)
(* StaticFilterCompiler), whatever the presets, valid or not, and their order. *)
THEOREM DecideIsWanted ==
  ASSUME NEW settings \in Settings, NEW frame
  PROVE  Decide(ActiveSet(settings), frame) <=> Wanted(settings, frame)
  <1> DEFINE used == Kept(settings.presets, Used)
             c == settings.combination
             tested == Tests(used, frame)
             Says(mode, result) == [mode |-> mode, result |-> result] \in tested
             including == {t.result : t \in {u \in tested : u.mode = "include"}} \ {"unavailable"}
  <1>1. c \in {"and", "or"} /\ used \in Seq(Preset)
    BY UsedTests DEF Settings
  <1>2. ActiveSet(settings) = [presets |-> used, combination |-> c]
    BY DEF ActiveSet
  <1>3. PICK r \in Counts :
            /\ Counted(c, tested, r)
            /\ Decide([presets |-> used, combination |-> c], frame) <=>
                /\ ~r.excluded
                /\ \/ r.seen = 0
                   \/ c = "or" /\ r.matched > 0
                   \/ c = "and" /\ r.matched = r.seen
    BY <1>1, DecideCounted
  <1>4. tested = {[mode |-> p.mode, result |-> Preview(p.root, frame)] :
                      p \in {settings.presets[i] : i \in DOMAIN settings.presets} \cap Used}
    BY UsedTests DEF Test
  <1>5. Wanted(settings, frame) <=>
            /\ ~Says("exclude", "match")
            /\ \/ including = {}
               \/ c = "or" /\ "match" \in including
               \/ c = "and" /\ "no_match" \notin including
    BY <1>4, Zenon DEF Wanted
  <1>6. \A t \in tested : \E mode : \E state \in States : t = [mode |-> mode, result |-> state]
    <2>1. \A p \in Els(used) : p \in Preset
      BY <1>1, ElsType
    <2> QED
      BY <2>1, PresetState DEF Tests, Test
  <1> HIDE DEF used, c, tested
  <1>7. \A state : state \in including <=> Says("include", state) /\ state # "unavailable"
    <2>1. ASSUME NEW t \in tested, t.mode = "include" PROVE t = [mode |-> "include", result |-> t.result]
      BY <1>6, <2>1
    <2>2. \A state : [mode |-> "include", result |-> state].mode = "include"
                     /\ [mode |-> "include", result |-> state].result = state
      OBVIOUS
    <2> QED
      BY <2>1, <2>2
  <1>8. \A mode, state : Says(mode, state) => state \in States
    <2> SUFFICES ASSUME NEW mode, NEW state, Says(mode, state) PROVE state \in States
      OBVIOUS
    <2>1. PICK m : \E s \in States : [mode |-> mode, result |-> state] = [mode |-> m, result |-> s]
      BY <1>6
    <2> QED
      BY <2>1
  <1>9. including = {} <=> ~Says("include", "match") /\ ~Says("include", "no_match")
    <2> HIDE DEF including, Says
    <2> QED
      BY <1>7, <1>8 DEF States
  <1>10. /\ "match" \in including <=> Says("include", "match")
         /\ "no_match" \in including <=> Says("include", "no_match")
    <2> HIDE DEF including, Says
    <2> QED
      BY <1>7
  <1>11. /\ r.matched <= r.seen
         /\ r.stopped => \/ r.excluded /\ Says("exclude", "match")
                         \/ ~r.excluded /\ c = "and" /\ r.matched < r.seen /\ Says("include", "no_match")
         /\ ~r.stopped => /\ ~r.excluded /\ ~Says("exclude", "match")
                          /\ r.seen = 0 <=> ~Says("include", "match") /\ ~Says("include", "no_match")
                          /\ r.matched > 0 <=> Says("include", "match")
                          /\ r.matched = r.seen <=> ~Says("include", "no_match")
    BY <1>3, Zenon DEF Counted
  <1>12. r.seen \in Nat /\ r.matched \in Nat
    BY DEF Counts
  <1>13. r.matched < r.seen => r.seen # 0 /\ r.matched # r.seen
    BY <1>12
  <1> HIDE DEF including, Says
  <1>14. Decide([presets |-> used, combination |-> c], frame) <=>
            /\ ~Says("exclude", "match")
            /\ \/ including = {}
               \/ c = "or" /\ "match" \in including
               \/ c = "and" /\ "no_match" \notin including
    <2>1. CASE r.stopped /\ r.excluded
      BY <1>3, <1>11, <2>1
    <2>2. CASE r.stopped /\ ~r.excluded
      BY <1>1, <1>3, <1>9, <1>10, <1>11, <1>13, <2>2 DEF c
    <2>3. CASE ~r.stopped
      BY <1>3, <1>9, <1>10, <1>11, <2>3
    <2> QED
      BY <2>1, <2>2, <2>3
  <1> QED
    BY <1>2, <1>5, <1>14 DEF c, used

-----------------------------------------------------------------------------
(* The view and the editor agree.                                           *)

(* A preset without a condition on raw frames cannot judge a frame.         *)
LEMMA NothingRaw ==
  ASSUME NEW p \in Preset, NEW frame,
         \A n \in DOMAIN p.root : p.root[n].type = "condition" => p.root[n].field \notin RawFields
  PROVE  Preview(p.root, frame) = "unavailable"
  <1> DEFINE root == p.root
  <1>1. IsTree(root)
    BY DEF Preset
  <1>2. CASE Valid(root)
    <2> HIDE DEF root
    <2>1. PICK f : Tree(root, frame, f) /\ Preview(root, frame) = f[1]
      BY <1>1, <1>2, SameState
    <2>2. root \in Seq(Node) /\ root # <<>>
      BY <1>1 DEF IsTree
    <2>3. Len(root) \in Nat /\ DOMAIN root = 1 .. Len(root) /\ 1 \in DOMAIN root
      BY <2>2
    <2> DEFINE T == {n \in DOMAIN root : f[n] = "unavailable"}
    <2>4. ASSUME NEW n \in 1 .. Len(root), \A m \in n + 1 .. Len(root) : m \in T
          PROVE  n \in T
      <3>1. \A i \in DOMAIN root[n].children : f[root[n].children[i]] = "unavailable"
        BY <1>1, <2>3, <2>4, Children
      <3>2. f[n] = NodeState(root, frame, f, n)
        BY <2>1, <2>3 DEF Tree
      <3>3. CASE root[n].type = "condition"
        <4>1. root[n].field \notin RawFields
          BY <2>3, <3>3 DEF root
        <4> QED
          BY <2>3, <3>2, <3>3, <4>1 DEF NodeState, Judges
      <3>4. CASE root[n].type # "condition" /\ root[n].operator = "not"
        <4>1. 1 \in DOMAIN root[n].children
          BY <1>1, <1>2, <2>3, <3>4, ValidNode, Children
        <4> QED
          BY <2>3, <3>1, <3>2, <3>4, <4>1 DEF NodeState, Opposite
      <3>5. CASE root[n].type # "condition" /\ root[n].operator # "not"
        <4>1. root[n].children # <<>>
          BY <1>2, <2>3, <3>5, ValidNode
        <4>2. Len(root[n].children) \in Nat /\ DOMAIN root[n].children = 1 .. Len(root[n].children)
          BY <1>1, <2>3, Children
        <4>3. \E i : i \in DOMAIN root[n].children
          <5>1. root[n].children \in Seq(n + 1 .. Len(root))
            BY <1>1, <2>3 DEF IsTree
          <5> DEFINE c == root[n].children
                     S == n + 1 .. Len(root)
          <5> HIDE DEF c, S
          <5>2. c \in Seq(S) /\ c # <<>>
            BY <4>1, <5>1 DEF c, S
          <5>3. 1 \in DOMAIN c
            BY <5>2
          <5> QED
            BY <5>3 DEF c
        <4>4. Resulting(root, f, n) = {"unavailable"}
          BY <3>1, <4>3 DEF Resulting
        <4>5. Together(Decisive(root[n].operator), {"unavailable"}) = "unavailable"
          BY DEF Together, Decisive
        <4> QED
          BY <2>3, <3>2, <3>5, <4>4, <4>5 DEF NodeState
      <3> QED
        BY <3>3, <3>4, <3>5
    <2>5. \A n \in 1 .. Len(root) : n \in T
      <3> HIDE DEF T
      <3> QED
        BY <2>3, <2>4, TreeInduction, Zenon
    <2> QED
      BY <2>1, <2>3, <2>5 DEF root
  <1>3. CASE ~Valid(root)
    BY <1>3 DEF Preview
  <1> QED
    BY <1>2, <1>3

(* Presets that do not concern raw frames ask for every frame.              *)
LEMMA UnaffectedWanted ==
  ASSUME NEW settings \in Settings, ~Affects(ActiveSet(settings)), NEW frame
  PROVE  Wanted(settings, frame)
  <1> DEFINE used == Kept(settings.presets, Used)
             tested == Tests(used, frame)
             including == {t.result : t \in {u \in tested : u.mode = "include"}} \ {"unavailable"}
  <1>1. used \in Seq(Preset)
    BY UsedTests
  <1>2. tested = {[mode |-> p.mode, result |-> Preview(p.root, frame)] :
                      p \in {settings.presets[i] : i \in DOMAIN settings.presets} \cap Used}
    BY UsedTests DEF Test
  <1>3. Wanted(settings, frame) <=>
            /\ [mode |-> "exclude", result |-> "match"] \notin tested
            /\ \/ including = {}
               \/ settings.combination = "or" /\ "match" \in including
               \/ settings.combination = "and" /\ "no_match" \notin including
    BY <1>2, Zenon DEF Wanted
  <1>4. ActiveSet(settings).presets = used
    BY DEF ActiveSet
  <1> HIDE DEF used
  <1>5. ASSUME NEW p \in Els(used), p.mode \in {"include", "exclude"}
        PROVE  Preview(p.root, frame) = "unavailable"
    <2>1. PICK i \in DOMAIN used : p = used[i]
      BY <1>1 DEF Els
    <2>2. p \in Preset
      BY <1>1, ElsType
    <2>3. \A n \in DOMAIN p.root : p.root[n].type = "condition" => p.root[n].field \notin RawFields
      BY <1>4, <1>5, <2>1 DEF Affects
    <2> QED
      BY <2>2, <2>3, NothingRaw
  <1>6. \A t \in tested : t.mode \in {"include", "exclude"} => t.result = "unavailable"
    BY <1>5 DEF Tests, Test
  <1>7. including = {}
    <2> HIDE DEF tested
    <2> QED
      BY <1>6
  <1>8. [mode |-> "exclude", result |-> "match"] \notin tested
    <2> HIDE DEF tested
    <2> SUFFICES ASSUME [mode |-> "exclude", result |-> "match"] \in tested PROVE FALSE
      OBVIOUS
    <2> DEFINE t == [mode |-> "exclude", result |-> "match"]
    <2>1. t.mode = "exclude" /\ t.result = "match"
      OBVIOUS
    <2> QED
      BY <1>6, <2>1
  <1> QED
    BY <1>3, <1>7, <1>8

-----------------------------------------------------------------------------
(* What the views decide, frame by frame, is what is asked for.             *)
LEMMA VisibleIsAsked ==
  ASSUME NEW set \in FilterSets
  PROVE  Visible(set) = Asked(set)
  <1> DEFINE D(s, i) == Decide(InForce(s), Bus[i])
             W(s, i) == Wanted(Projects[s], Bus[i])
  <1>1. \A s \in FilterSets : \A i : D(s, i) <=> W(s, i)
    BY DecideIsWanted, LiveViewAssumption DEF InForce, FilterSets
  <1>2. \A s, i : D(s, i) \in BOOLEAN /\ W(s, i) \in BOOLEAN
    <2>1. \A s, i : D(s, i) \in BOOLEAN
      BY DEF Decide
    <2>2. \A s, i : W(s, i) \in BOOLEAN
      BY DEF Wanted
    <2> QED
      BY <2>1, <2>2
  <1>3. /\ Decisions = {<<s, i, D(s, i)>> : s \in FilterSets, i \in DOMAIN Bus}
        /\ Requests = {<<s, i, W(s, i)>> : s \in FilterSets, i \in DOMAIN Bus}
    BY DEF Decisions, Requests
  <1> HIDE DEF D, W
  <1>4. \A s \in FilterSets : \A i : D(s, i) = W(s, i)
    BY <1>1, <1>2
  <1>5. Decisions = Requests
    BY <1>3, <1>4
  <1> QED
    BY <1>5 DEF Visible, Asked

(* A frame is one that the bus carries.                                     *)
LEMMA OnBusType ==
  ASSUME NEW x \in LiveFrame
  PROVE  OnBus(x) \in DOMAIN Bus
  <1>1. x.sequence \in Nat /\ Len(Bus) \in Nat \ {0} /\ DOMAIN Bus = 1 .. Len(Bus)
    BY LiveViewAssumption DEF LiveFrame
  <1> DEFINE k == x.sequence
             n == Len(Bus)
  <1> HIDE DEF k, n
  <1>2. k \in Nat /\ n \in Nat \ {0}
    BY <1>1 DEF k, n
  <1>3. (k % n) + 1 \in 1 .. n
    BY <1>2
  <1> QED
    BY <1>1, <1>3 DEF OnBus, k, n

(* Presets that do not concern raw frames ask for all of them.              *)
LEMMA UnaffectedRequested ==
  ASSUME NEW set \in FilterSets, ~AffectsRaw(set), NEW s \in Seq(LiveFrame), Rising(s)
  PROVE  Requested(set, s) = s
  <1>1. \A i : Wanted(Projects[set], Bus[i])
    BY ConcernTable, UnaffectedWanted, LiveViewAssumption DEF InForce, FilterSets
  <1> DEFINE W(a, i) == Wanted(Projects[a], Bus[i])
  <1>2. Requests = {<<a, i, W(a, i)>> : a \in FilterSets, i \in DOMAIN Bus}
    BY DEF Requests
  <1>3. \A i : W(set, i) = TRUE
    <2>1. \A i : W(set, i) \in BOOLEAN
      BY DEF Wanted
    <2> HIDE DEF W
    <2>2. \A i : W(set, i)
      BY <1>1 DEF W
    <2> QED
      BY <2>1, <2>2
  <1> HIDE DEF W
  <1>4. \A i \in DOMAIN Bus : <<set, i, TRUE>> \in Requests
    <2> TAKE i \in DOMAIN Bus
    <2>1. <<set, i, W(set, i)>> \in Requests
      BY <1>2
    <2> QED
      BY <1>3, <2>1
  <1>5. \A x \in LiveFrame : x \in Asked(set)
    BY <1>4, OnBusType DEF Asked
  <1> DEFINE k == Kept(s, Asked(set))
  <1>6. k \in Seq(LiveFrame) /\ Els(k) = {x \in Els(s) : x \in Asked(set)} /\ Rising(k)
    BY KeptEls, KeptRising
  <1>7. Els(s) \subseteq LiveFrame
    BY ElsType
  <1> HIDE DEF k
  <1>8. Els(k) = Els(s)
    BY <1>5, <1>6, <1>7
  <1>9. k = s
    BY <1>6, <1>8, SameEls
  <1> QED
    BY <1>9 DEF Requested, k

-----------------------------------------------------------------------------
(* What the one awaited task has in hand.                                   *)
LEMMA HandIs ==
  ASSUME NEW f, HasTask(gui, "increment", f), gui.running
  PROVE  InHand = f
  <1> DEFINE mine == {t \in gui.tasks : t.current}
             task == [kind |-> "increment", frames |-> f, set |-> gui.set, current |-> TRUE]
  <1>1. mine = {task}
    BY DEF HasTask, Mine
  <1>2. task.frames = f
    OBVIOUS
  <1>3. InHand = IF gui.running /\ mine # {} THEN (CHOOSE t \in mine : TRUE).frames ELSE <<>>
    BY DEF InHand
  <1> HIDE DEF mine, task
  <1>4. (CHOOSE t \in mine : TRUE) = task
    BY <1>1
  <1> QED
    BY <1>1, <1>2, <1>3, <1>4

(* The invariant gives what the view promises.                              *)
LEMMA ViewIInvExact == ViewIInv => SourceIsRun /\ FilteredIsExact /\ FilterFollowsBox
  <1> SUFFICES ASSUME ViewIInv PROVE SourceIsRun /\ FilteredIsExact /\ FilterFollowsBox
    OBVIOUS
  <1> DEFINE top == gui.cursor
  <1>1. /\ gui \in Gui /\ Sound(gui, number, top) /\ Follows(gui) /\ Bound(gui)
        /\ top \in Int /\ top >= -1 /\ RunTo(gui.source, number, top)
        /\ gui.set \in FilterSets
    BY GuiFacts
  <1>2. /\ gui.source \in Seq(LiveFrame) /\ gui.rows \in Seq(LiveFrame)
        /\ gui.pending \in Seq(LiveFrame) /\ gui.streaming \in BOOLEAN
        /\ gui.enabled \in BOOLEAN /\ gui.ready \in BOOLEAN /\ gui.shown \in BOOLEAN
    BY <1>1 DEF Gui
  <1>3. Rising(gui.source)
    BY <1>1, <1>2, RunRises DEF UpTo
  <1>4. SourceIsRun
    BY <1>1 DEF RunTo, SourceIsRun
  <1>5. FilterFollowsBox
    BY <1>1, <1>2 DEF Follows, Bound, FilterFollowsBox
  <1>6. ASSUME gui.checked, ~gui.enabled
        PROVE  Requested(gui.set, gui.source) = gui.source
    <2>1. ~AffectsRaw(gui.set)
      BY <1>1, <1>6 DEF Follows
    <2> QED
      BY <1>1, <1>2, <1>3, <2>1, UnaffectedRequested
  <1>7. ASSUME gui.enabled, gui.ready
        PROVE  LET have == Since(gui.source, gui.rows \o Accepted(gui.set, InHand \o gui.pending))
                   want == Requested(gui.set, gui.source)
               IN  IF gui.streaming THEN IsSuffix2(have, want) ELSE have = want
    <2>1. Idle(gui, top) \/ Adding(gui, top)
      BY <1>1, <1>7 DEF Sound, Scanning
    <2>2. InHand \in Seq(LiveFrame) /\ FlowOf(gui, InHand, top)
      <3>1. CASE Idle(gui, top)
        <4>1. InHand = <<>>
          BY <3>1 DEF InHand, Idle
        <4> QED
          BY <3>1, <4>1 DEF Idle
      <3>2. CASE Adding(gui, top)
        BY <3>2, HandIs DEF Adding
      <3> QED
        BY <2>1, <3>1, <3>2
    <2>3. Requested(gui.set, gui.source) = Accepted(gui.set, gui.source)
      BY <1>1, VisibleIsAsked DEF Requested, Accepted
    <2>4. Flow(gui.source, Visible(gui.set), gui.streaming, gui.rows, InHand, gui.pending, top)
      BY <2>2 DEF FlowOf
    <2>5. LET have == Since(gui.source, gui.rows \o Accepted(gui.set, InHand \o gui.pending))
              want == Accepted(gui.set, gui.source)
          IN  IF gui.streaming THEN IsSuffix2(have, want) ELSE have = want
      BY <1>1, <1>2, <1>3, <2>2, <2>4, FlowIsExact
    <2> QED
      BY <2>3, <2>5
  <1>8. FilteredIsExact
    BY <1>6, <1>7, Zenon DEF FilteredIsExact
  <1> QED
    BY <1>4, <1>5, <1>8

-----------------------------------------------------------------------------
(* The rows of the projection and the frames that wait are bounded.         *)

(* No frame of s is more than n numbers older than the first row.           *)
Within(source, s, n) ==
    \A x \in Els(s) : source = <<>> \/ source[1].sequence - n <= x.sequence

(* A view that is not filtered keeps nothing.                               *)
Bare(g) == ~g.enabled => g.rows = <<>> /\ g.pending = <<>>

(* Nothing is older than the first row, or a table of few rows has lost them *)
(* all: then that lag is a chunk at most, the table is longer than that, and *)
(* something waits, so that the next batch prunes what is left.             *)
Pruned(g) == Within(g.source, g.rows, 0) /\ Within(g.source, g.pending, 0)
Drained(g) ==
    /\ Within(g.source, g.rows, TrimChunk) /\ Within(g.source, g.pending, TrimChunk)
    /\ TrimChunk < Len(g.source) /\ g.pending # <<>>

Near(g) == Bare(g) /\ (Pruned(g) \/ Drained(g))

(* Two states of the GUI with the same rows.                                *)
SameRows(g, h) ==
    /\ g.source = h.source /\ g.rows = h.rows /\ g.pending = h.pending
    /\ g.enabled = h.enabled

(* A view that holds nothing of its own.                                    *)
Empty(g) == g.rows = <<>> /\ g.pending = <<>>

(* Such a view is near the table, and so is one with the same rows.         *)
LEMMA NearSame ==
  ASSUME NEW g, NEW h
  PROVE  (Empty(g) => Near(g)) /\ (SameRows(g, h) /\ Near(g) => Near(h))
  <1>1. ASSUME Empty(g) PROVE Near(g)
    BY <1>1, NothingIn DEF Empty, Near, Bare, Pruned, Within
  <1>2. ASSUME SameRows(g, h), Near(g) PROVE Near(h)
    BY <1>2 DEF SameRows, Near, Bare, Pruned, Drained
  <1> QED
    BY <1>1, <1>2

(* The parts that do not touch the rows.                                    *)
LEMMA SameParts ==
  ASSUME NEW g \in Gui
  PROVE  SameRows(g, Synchronize(g)) /\ SameRows(g, ScheduleIncrement(g))
  BY DEF SameRows, Synchronize, ScheduleIncrement, Gui

(* Whatever is in flight, nothing waits any more.                           *)
LEMMA NewGenerationRows ==
  ASSUME NEW g \in Gui
  PROVE  LET h == NewGeneration(g)
         IN /\ h \in Gui /\ h.pending = <<>> /\ h.rows = g.rows /\ h.source = g.source
            /\ h.enabled = g.enabled /\ h.set = g.set /\ h.checked = g.checked
  <1>1. NewGeneration(g) \in Gui
    BY NewGenerationType
  <1> QED
    BY <1>1 DEF NewGeneration, Gui

(* A whole scan starts from nothing.                                        *)
LEMMA ScheduleScanEmpties ==
  ASSUME NEW g \in Gui, Bare(g)
  PROVE  Empty(ScheduleScan(g))
  <1> DEFINE e == NewGeneration(g)
             empty == g.source = <<>>
             task == [kind |-> "scan", frames |-> g.source, set |-> g.set, current |-> TRUE]
             tasks == e.tasks \cup (IF empty THEN {} ELSE {task})
             h == [e EXCEPT !.rows = <<>>, !.scanning = ~empty, !.ready = empty,
                            !.shown = empty, !.tasks = tasks]
  <1>1. CASE ~g.enabled
    BY <1>1 DEF ScheduleScan, Bare, Empty
  <1>2. CASE g.enabled
    <2>1. e \in Gui /\ e.pending = <<>>
      BY NewGenerationRows
    <2>2. ScheduleScan(g) = h
      BY <1>2 DEF ScheduleScan, NewGeneration
    <2> HIDE DEF e, empty, tasks
    <2>3. h.rows = <<>> /\ h.pending = <<>>
      BY <2>1 DEF Gui
    <2> QED
      BY <2>2, <2>3 DEF Empty
  <1> QED
    BY <1>1, <1>2

(* So does the view of a table that is replaced or cleared.                 *)
LEMMA ReplaceRowsNear ==
  ASSUME NEW g \in Gui, Bare(g), NEW frames \in Seq(LiveFrame)
  PROVE  Near(ReplaceRows(g, frames))
  <1> DEFINE k == Max2(0, Len(frames) - Capacity)
             last == Drop(frames, k)
             e == [g EXCEPT !.source = last]
  <1>1. Capacity \in Nat \ {0} /\ Len(frames) \in Nat
    BY LiveViewAssumption
  <1>2. k \in 0 .. Len(frames)
    BY <1>1 DEF Max2
  <1> HIDE DEF k
  <1>3. last \in Seq(LiveFrame)
    BY <1>2, CutType
  <1> HIDE DEF last
  <1>4. e \in Gui /\ e.rows = g.rows /\ e.pending = g.pending /\ e.enabled = g.enabled
    BY <1>3 DEF Gui
  <1>5. ReplaceRows(g, frames) = ScheduleScan(e)
    BY DEF ReplaceRows, LastOf, last, k
  <1> HIDE DEF e
  <1>6. Bare(e)
    BY <1>4 DEF Bare
  <1> QED
    BY <1>4, <1>5, <1>6, ScheduleScanEmpties, NearSame

(* clear                                                                    *)
LEMMA ClearRowsNear ==
  ASSUME NEW g \in Gui, Near(g)
  PROVE  Near(ClearRows(g))
  <1>1. <<>> \in Seq(LiveFrame) /\ Bare(g)
    BY DEF Near
  <1> QED
    BY <1>1, ReplaceRowsNear DEF ClearRows

(* A streaming view that starts anew.                                       *)
LEMMA ResetStreamEmpties ==
  ASSUME NEW g \in Gui, ~g.enabled => g.rows = <<>>
  PROVE  Empty(ResetStream(g))
  <1> DEFINE e == NewGeneration(g)
             n == [e EXCEPT !.source = <<>>, !.shown = g.enabled]
             h == [n EXCEPT !.rows = <<>>, !.scanning = FALSE, !.ready = TRUE]
  <1>1. e \in Gui /\ e.pending = <<>> /\ e.rows = g.rows
    BY NewGenerationRows
  <1>2. ResetStream(g) = IF g.enabled THEN h ELSE n
    BY DEF ResetStream
  <1> HIDE DEF e
  <1>3. n.pending = <<>> /\ n.rows = g.rows /\ h.pending = <<>> /\ h.rows = <<>>
    BY <1>1 DEF Gui
  <1> QED
    BY <1>2, <1>3 DEF Empty

(* What set_filter_enabled makes of the rows.                               *)
LEMMA SetEnabledRows ==
  ASSUME NEW g \in Gui, NEW wanted \in BOOLEAN, ~g.enabled => g.rows = <<>>
  PROVE  LET h == SetEnabled(g, wanted)
         IN /\ h \in Gui /\ h.pending = g.pending /\ h.enabled = (wanted /\ Active(g.set))
            /\ ~h.enabled => h.rows = <<>>
            /\ h.enabled = g.enabled => h = g
  <1> DEFINE h == SetEnabled(g, wanted)
             enabled == wanted /\ Active(g.set)
             d == [g EXCEPT !.enabled = enabled, !.ready = FALSE, !.scanning = FALSE, !.rows = <<>>]
  <1>1. h \in Gui /\ h.enabled = enabled
    BY SetEnabledType
  <1>2. h = IF enabled = g.enabled THEN g ELSE d
    BY DEF SetEnabled
  <1> HIDE DEF enabled, h
  <1>3. d.rows = <<>> /\ d.pending = g.pending
    BY DEF Gui
  <1>4. CASE enabled = g.enabled
    <2>1. h = g
      BY <1>2, <1>4
    <2> QED
      BY <1>1, <2>1 DEF h, enabled
  <1>5. CASE enabled # g.enabled
    <2>1. h = d
      BY <1>2, <1>5
    <2> QED
      BY <1>1, <1>3, <1>5, <2>1 DEF h, enabled
  <1> QED
    BY <1>4, <1>5

-----------------------------------------------------------------------------
(* The check box, the presets and errors leave a view that is near.         *)

(* _set_filter_application, while nothing is captured                       *)
LEMMA ApplyStoppedNear ==
  ASSUME NEW g \in Gui, Near(g), g.checked => ~g.enabled
  PROVE  Near(ApplyStopped(g))
  <1> DEFINE applied == g.checked /\ Active(g.set)
             s == [g EXCEPT !.streaming = FALSE]
             e == SetEnabled(s, applied /\ AffectsRaw(g.set))
             w == NewGeneration(e)
             d == [w EXCEPT !.checked = FALSE]
  <1>1. /\ s \in Gui /\ s.rows = g.rows /\ s.pending = g.pending /\ s.enabled = g.enabled
        /\ s.set = g.set /\ s.checked = g.checked
    BY DEF Gui
  <1>2. g.checked \in BOOLEAN /\ g.set \in FilterSets /\ applied \in BOOLEAN
        /\ (applied /\ AffectsRaw(g.set)) \in BOOLEAN
    BY AffectsType DEF Gui
  <1>3. Bare(g) /\ (~s.enabled => s.rows = <<>>)
    BY <1>1 DEF Near, Bare
  <1>4. ApplyStopped(g) = IF applied THEN ScheduleScan(e) ELSE d
    BY DEF ApplyStopped
  <1> HIDE DEF s
  <1>5. /\ e \in Gui /\ e.pending = g.pending /\ (~e.enabled => e.rows = <<>>)
        /\ e.enabled = ((applied /\ AffectsRaw(g.set)) /\ Active(g.set))
    BY <1>1, <1>2, <1>3, SetEnabledRows
  <1> HIDE DEF e
  <1>6. CASE applied
    <2>1. ~g.enabled
      BY <1>6
    <2>2. Bare(e)
      BY <1>3, <1>5, <2>1 DEF Bare
    <2> QED
      BY <1>4, <1>5, <1>6, <2>2, ScheduleScanEmpties, NearSame
  <1>7. CASE ~applied
    <2>1. w \in Gui /\ w.pending = <<>> /\ w.rows = <<>>
      BY <1>5, <1>7, NewGenerationRows
    <2> HIDE DEF w
    <2>2. Empty(d)
      BY <2>1 DEF Gui, Empty
    <2> QED
      BY <1>4, <1>7, <2>2, NearSame
  <1> QED
    BY <1>6, <1>7

(* _set_filter_application, during a capture                                *)
LEMMA ApplyStreamingNear ==
  ASSUME NEW g \in Gui, Near(g)
  PROVE  Near(ApplyStreaming(g))
  <1> DEFINE applied == g.checked /\ Active(g.set)
             e == SetEnabled(g, applied /\ AffectsRaw(g.set))
             s == [e EXCEPT !.streaming = applied]
  <1>1. applied \in BOOLEAN /\ (applied /\ AffectsRaw(g.set)) \in BOOLEAN
    BY AffectsType DEF Gui
  <1>2. ~g.enabled => g.rows = <<>>
    BY DEF Near, Bare
  <1>3. e \in Gui /\ (~e.enabled => e.rows = <<>>)
    BY <1>1, <1>2, SetEnabledRows
  <1>4. ApplyStreaming(g) = ResetStream(s)
    BY DEF ApplyStreaming
  <1> HIDE DEF e, applied
  <1>5. s \in Gui /\ (~s.enabled => s.rows = <<>>)
    BY <1>1, <1>3 DEF Gui
  <1> HIDE DEF s
  <1> QED
    BY <1>4, <1>5, ResetStreamEmpties, NearSame

(* _reload_stopped_view                                                     *)
LEMMA ReloadStoppedNear ==
  ASSUME NEW g \in Gui, Near(g), NEW set \in FilterSets, NEW changed \in BOOLEAN
  PROVE  Near(ReloadStopped([g EXCEPT !.set = set], changed))
  <1> DEFINE e == [g EXCEPT !.set = set]
             h == ReloadStopped(e, changed)
             s == SetEnabled(e, AffectsRaw(e.set))
             v == NewGeneration(e)
             w == [v EXCEPT !.checked = FALSE]
             off == SetEnabled(w, FALSE)
             d == [s EXCEPT !.pending = <<>>, !.running = FALSE, !.timer = FALSE]
  <1>1. e \in Gui /\ SameRows(g, e)
    BY DEF SameRows, Gui
  <1> HIDE DEF e
  <1>2. Near(e)
    BY <1>1, NearSame
  <1>3. Bare(e) /\ (~e.enabled => e.rows = <<>>)
    BY <1>2 DEF Near, Bare
  <1>4. h = IF ~Active(e.set) THEN off
            ELSE IF ~changed \/ ~e.checked THEN e
            ELSE IF s.enabled THEN ScheduleScan(s) ELSE d
    BY DEF ReloadStopped
  <1> HIDE DEF h
  <1>5. Empty(off)
    <2>1. v \in Gui /\ v.pending = <<>> /\ v.rows = e.rows /\ v.enabled = e.enabled
      BY <1>1, NewGenerationRows
    <2> HIDE DEF v
    <2>2. w \in Gui /\ w.pending = <<>> /\ w.rows = e.rows /\ w.enabled = e.enabled
      BY <2>1 DEF Gui
    <2> HIDE DEF w
    <2>3. /\ off.enabled = (FALSE /\ Active(w.set)) /\ off.pending = w.pending
          /\ ~off.enabled => off.rows = <<>>
      BY <1>3, <2>2, SetEnabledRows
    <2> HIDE DEF off
    <2> QED
      BY <2>2, <2>3 DEF Empty
  <1>6. s \in Gui /\ s.pending = e.pending /\ (~s.enabled => s.rows = <<>>)
    BY <1>1, <1>3, AffectsType, SetEnabledRows
  <1> HIDE DEF s, off
  <1>7. ~s.enabled => Empty(d)
    BY <1>6 DEF Gui, Empty
  <1>8. s.enabled => Empty(ScheduleScan(s))
    <2>1. s.enabled => Bare(s)
      BY DEF Bare
    <2> QED
      BY <1>6, <2>1, ScheduleScanEmpties
  <1> HIDE DEF d
  <1>9. Near(h)
    BY <1>2, <1>4, <1>5, <1>7, <1>8, NearSame
  <1> QED
    BY <1>9 DEF h, e

(* _reload_streaming_view                                                   *)
LEMMA ReloadStreamingNear ==
  ASSUME NEW g \in Gui, Near(g), Follows(g), NEW set \in FilterSets, NEW changed \in BOOLEAN
  PROVE  Near(ReloadStreaming([g EXCEPT !.set = set], changed))
  <1> DEFINE e == [g EXCEPT !.set = set]
             h == ReloadStreaming(e, changed)
             off == SetEnabled(e, FALSE)
             on == SetEnabled(e, AffectsRaw(e.set))
             o == [off EXCEPT !.streaming = FALSE]
             i == [on EXCEPT !.streaming = TRUE]
             filtering == e.enabled \/ e.streaming
  <1>1. e \in Gui /\ SameRows(g, e) /\ (e.enabled => e.checked) /\ e.enabled \in BOOLEAN
    BY DEF SameRows, Gui, Follows
  <1> HIDE DEF e
  <1>2. Near(e)
    BY <1>1, NearSame
  <1>3. ~e.enabled => e.rows = <<>>
    BY <1>2 DEF Near, Bare
  <1>4. h = IF ~Active(e.set)
              THEN IF e.checked /\ (changed \/ filtering) THEN ResetStream(o) ELSE off
            ELSE IF ~changed \/ ~e.checked THEN e ELSE ResetStream(i)
    BY DEF ReloadStreaming
  <1> HIDE DEF h
  <1>5. /\ off \in Gui /\ (~off.enabled => off.rows = <<>>) /\ off.enabled = (FALSE /\ Active(e.set))
        /\ off.enabled = e.enabled => off = e
    BY <1>1, <1>3, SetEnabledRows
  <1>6. on \in Gui /\ (~on.enabled => on.rows = <<>>)
    BY <1>1, <1>3, AffectsType, SetEnabledRows
  <1> HIDE DEF off, on
  <1>7. o \in Gui /\ (~o.enabled => o.rows = <<>>) /\ i \in Gui /\ (~i.enabled => i.rows = <<>>)
    BY <1>5, <1>6 DEF Gui
  <1> HIDE DEF o, i
  <1>8. Near(ResetStream(o)) /\ Near(ResetStream(i))
    BY <1>7, ResetStreamEmpties, NearSame
  <1>9. ~e.enabled => off = e
    BY <1>1, <1>5
  <1>10. Near(h)
    BY <1>1, <1>2, <1>4, <1>8, <1>9
  <1> QED
    BY <1>10 DEF h, e

(* _disable_after_error                                                     *)
LEMMA DisableAfterErrorNear ==
  ASSUME NEW g \in Gui, Near(g)
  PROVE  Near(DisableAfterError(g))
  <1> DEFINE s == SetEnabled(g, FALSE)
             h == [s EXCEPT !.checked = FALSE, !.pending = <<>>, !.running = FALSE,
                            !.timer = FALSE]
  <1>1. ~g.enabled => g.rows = <<>>
    BY DEF Near, Bare
  <1>2. s \in Gui /\ s.enabled = (FALSE /\ Active(g.set)) /\ (~s.enabled => s.rows = <<>>)
    BY <1>1, SetEnabledRows
  <1>3. DisableAfterError(g) = h
    BY DEF DisableAfterError
  <1> HIDE DEF s
  <1>4. Empty(h)
    BY <1>2 DEF Gui, Empty
  <1> QED
    BY <1>3, <1>4, NearSame

-----------------------------------------------------------------------------
(* The scans leave a view that is near.                                     *)

(* What is kept is not older than the first row.                            *)
LEMMA SinceWithin ==
  ASSUME NEW source \in Seq(LiveFrame), NEW s \in Seq(LiveFrame)
  PROVE  Since(source, s) \in Seq(LiveFrame) /\ Within(source, Since(source, s), 0)
  <1> DEFINE k == Since(source, s)
  <1>1. k \in Seq(LiveFrame) /\ Els(k) = {x \in Els(s) : x \in NotBefore(source)}
    BY KeptEls DEF Since
  <1> HIDE DEF k
  <1>2. ASSUME source # <<>>, NEW x \in Els(k) PROVE source[1].sequence - 0 <= x.sequence
    <2>1. x \in NotBefore(source)
      BY <1>1, <1>2
    <2>2. x \in LiveFrame /\ x.sequence >= source[1].sequence
      BY <1>2, <2>1 DEF NotBefore
    <2>3. source[1] \in LiveFrame
      BY <1>2
    <2>4. x.sequence \in Nat /\ source[1].sequence \in Nat
      BY <2>2, <2>3 DEF LiveFrame
    <2> QED
      BY <2>2, <2>4
  <1> QED
    BY <1>1, <1>2 DEF Within, k

(* Fewer frames are no older.                                               *)
LEMMA WithinLess ==
  ASSUME NEW source, NEW s, NEW t, NEW n, Within(source, s, n), Els(t) \subseteq Els(s)
  PROVE  Within(source, t, n)
  BY DEF Within

(* Nor are the frames of both, with one lag or a greater one.               *)
LEMMA WithinBoth ==
  ASSUME NEW source \in Seq(LiveFrame), NEW s \in Seq(LiveFrame), NEW t \in Seq(LiveFrame),
         NEW n \in Nat, Within(source, s, n), Within(source, t, 0)
  PROVE  Within(source, s \o t, n)
  <1>1. Els(s \o t) = Els(s) \cup Els(t)
    BY ElsConcat
  <1> SUFFICES ASSUME source # <<>>, NEW x \in Els(t) PROVE source[1].sequence - n <= x.sequence
    BY <1>1 DEF Within
  <1>2. source[1] \in LiveFrame
    OBVIOUS
  <1>3. source[1].sequence \in Nat /\ x.sequence \in Nat
    BY <1>2, FrameNumber DEF LiveFrame
  <1>4. source[1].sequence - 0 <= x.sequence
    BY DEF Within
  <1> QED
    BY <1>3, <1>4

(* _prune_frame_filter_cache                                                *)
LEMMA PruneNear ==
  ASSUME NEW g \in Gui, Bare(g)
  PROVE  LET p == Prune(g)
         IN /\ p \in Gui /\ Bare(p) /\ Pruned(p)
            /\ p.source = g.source /\ p.enabled = g.enabled
  <1> DEFINE p == Prune(g)
             r == Since(g.source, g.rows)
             w == Since(g.source, g.pending)
  <1>1. g.source \in Seq(LiveFrame) /\ g.rows \in Seq(LiveFrame) /\ g.pending \in Seq(LiveFrame)
    BY DEF Gui
  <1>2. /\ r \in Seq(LiveFrame) /\ Within(g.source, r, 0)
        /\ w \in Seq(LiveFrame) /\ Within(g.source, w, 0)
    BY <1>1, SinceWithin
  <1>3. /\ g.rows = <<>> => r = <<>>
        /\ g.pending = <<>> => w = <<>>
    BY <1>1, SinceType
  <1>4. p = [g EXCEPT !.rows = r, !.pending = w]
    BY DEF Prune
  <1> HIDE DEF p, r, w
  <1>5. /\ p \in Gui /\ p.source = g.source /\ p.rows = r /\ p.pending = w /\ p.enabled = g.enabled
    BY <1>2, <1>4 DEF Gui
  <1>6. Pruned(p)
    BY <1>2, <1>5 DEF Pruned
  <1>7. Bare(p)
    BY <1>3, <1>5 DEF Bare
  <1> QED
    BY <1>5, <1>6, <1>7 DEF p

(* A batch of the pending rows is handed out.                               *)
LEMMA BatchedNear ==
  ASSUME NEW g \in Gui, Near(g)
  PROVE  Near(Batched(g))
  <1> DEFINE p == Prune(g)
             m == Min2(BatchSize, Len(p.pending))
             task == [kind |-> "increment", frames |-> SubSeq(p.pending, 1, m),
                      set |-> g.set, current |-> TRUE]
             left == Drop(p.pending, m)
             tasks == p.tasks \cup {task}
             d == [p EXCEPT !.pending = left, !.running = TRUE, !.tasks = tasks]
             busy == ~g.enabled \/ ~g.ready \/ g.scanning \/ g.running
  <1>1. p \in Gui /\ Bare(p) /\ Pruned(p) /\ p.enabled = g.enabled
    BY PruneNear DEF Near
  <1>2. Batched(g) = IF busy THEN g ELSE IF p.pending = <<>> THEN p ELSE d
    BY <1>1 DEF Batched, Gui
  <1> HIDE DEF p
  <1>3. Near(p)
    BY <1>1 DEF Near
  <1>4. ASSUME ~busy PROVE Near(d)
    <2>1. p.pending \in Seq(LiveFrame)
      BY <1>1 DEF Gui
    <2>2. m \in 0 .. Len(p.pending)
      <3>1. BatchSize \in Nat /\ Len(p.pending) \in Nat
        BY <2>1, LiveViewAssumption
      <3> QED
        BY <3>1 DEF Min2
    <2> HIDE DEF m
    <2>3. left \in Seq(LiveFrame) /\ Els(left) \subseteq Els(p.pending)
      <3>1. /\ left \in Seq(LiveFrame) /\ Len(left) = Len(p.pending) - m
            /\ \A i \in 1 .. Len(p.pending) - m : left[i] = p.pending[i + m]
        BY <2>1, <2>2, CutType
      <3> HIDE DEF left
      <3>2. Len(p.pending) \in Nat /\ m \in Nat /\ m <= Len(p.pending)
        BY <2>1, <2>2
      <3>3. \A i \in 1 .. Len(left) : left[i] = p.pending[i + m] /\ i + m \in 1 .. Len(p.pending)
        BY <3>1, <3>2
      <3> QED
        BY <3>1, <3>3 DEF Els
    <2> HIDE DEF left, tasks
    <2>4. d.source = p.source /\ d.rows = p.rows /\ d.pending = left /\ d.enabled = p.enabled
      BY <1>1 DEF Gui
    <2> HIDE DEF d
    <2>5. Pruned(d)
      BY <1>1, <2>3, <2>4, WithinLess DEF Pruned
    <2>6. Bare(d)
      BY <1>1, <1>4, <2>4 DEF Bare
    <2> QED
      BY <2>5, <2>6 DEF Near
  <1> QED
    BY <1>2, <1>3, <1>4

(* The result of a task of the pool, with the task gone.                    *)
LEMMA TaskGoneNear ==
  ASSUME NEW g \in Gui, Near(g), NEW task \in g.tasks
  PROVE  LET e == [g EXCEPT !.tasks = @ \ {task}]
         IN /\ e \in Gui /\ Near(e) /\ task \in Task
            /\ Accepted(task.set, task.frames) \in Seq(LiveFrame)
  <1> DEFINE e == [g EXCEPT !.tasks = @ \ {task}]
  <1>1. /\ e \in Gui /\ Kin(g, e) /\ e.source = g.source /\ e.rows = g.rows
        /\ e.pending = g.pending
    BY TaskGone
  <1> HIDE DEF e
  <1>2. Near(e)
    BY <1>1, NearSame DEF SameRows, Kin
  <1>3. task \in Task
    BY DEF Gui
  <1>4. task.frames \in Seq(LiveFrame)
    BY <1>3 DEF Task
  <1>5. Accepted(task.set, task.frames) \in Seq(LiveFrame)
    BY <1>4, KeptEls DEF Accepted
  <1> QED
    BY <1>1, <1>2, <1>3, <1>5 DEF e

(* _frame_scan_completed                                                    *)
LEMMA ScanCompletedNear ==
  ASSUME NEW g \in Gui, Near(g), NEW task \in g.tasks
  PROVE  Near(ScanCompleted([g EXCEPT !.tasks = @ \ {task}], task))
  <1> DEFINE e == [g EXCEPT !.tasks = @ \ {task}]
             h == ScanCompleted(e, task)
             accepted == Accepted(task.set, task.frames)
             rows == Since(e.source, accepted)
             later == {frame \in LiveFrame : frame.sequence > task.frames[Len(task.frames)].sequence}
             pending == Kept(e.pending, later)
             d == [e EXCEPT !.rows = rows, !.scanning = FALSE, !.ready = TRUE, !.pending = pending]
             a == Prune(d)
             b == ScheduleIncrement(a)
  <1>1. e \in Gui /\ Near(e) /\ accepted \in Seq(LiveFrame)
    BY TaskGoneNear
  <1> HIDE DEF e, accepted
  <1>2. h = IF ~UpToDate(task) \/ ~e.enabled THEN e ELSE Synchronize(b)
    BY DEF ScanCompleted, accepted
  <1> HIDE DEF h, later
  <1>3. ASSUME e.enabled PROVE Near(Synchronize(b))
    <2>1. e.source \in Seq(LiveFrame) /\ e.pending \in Seq(LiveFrame)
      BY <1>1 DEF Gui
    <2>2. rows \in Seq(LiveFrame) /\ pending \in Seq(LiveFrame)
      BY <1>1, <2>1, SinceWithin, KeptEls
    <2> HIDE DEF rows, pending
    <2>3. d \in Gui /\ d.enabled
      BY <1>1, <1>3, <2>2 DEF Gui
    <2> HIDE DEF d
    <2>4. Bare(d)
      BY <2>3 DEF Bare
    <2>5. a \in Gui /\ Near(a)
      BY <2>3, <2>4, PruneNear DEF Near
    <2> HIDE DEF a
    <2>6. b \in Gui /\ Near(b)
      BY <2>5, SameParts, NearSame, ScheduleIncrementSound
    <2> HIDE DEF b
    <2> QED
      BY <2>6, SameParts, NearSame
  <1>4. Near(h)
    BY <1>1, <1>2, <1>3
  <1> QED
    BY <1>4 DEF h, e

(* A streaming view loses its oldest rows.                                  *)
LEMMA TrimStreamNear ==
  ASSUME NEW g \in Gui, Near(g)
  PROVE  Near(TrimStream(g))
  <1> DEFINE h == TrimStream(g)
             overflow == Len(g.rows) - StreamCapacity
             chunk == Max2(1, StreamCapacity \div 10)
             k == Min2(Len(g.rows), Max2(overflow, chunk))
             rows == Drop(g.rows, k)
             d == [g EXCEPT !.rows = rows]
  <1>1. /\ StreamCapacity \in Nat \ {0} /\ g.rows \in Seq(LiveFrame)
        /\ Len(g.rows) \in Nat
    BY LiveViewAssumption DEF Gui
  <1>2. h = IF ~g.streaming \/ overflow <= 0 THEN g ELSE d
    BY DEF TrimStream, Gui
  <1> HIDE DEF h
  <1>3. ASSUME ~(overflow <= 0) PROVE Near(d)
    <2>1. chunk \in Nat
      <3>1. StreamCapacity \div 10 \in Int
        BY <1>1
      <3> QED
        BY <3>1 DEF Max2
    <2>2. overflow \in Int /\ overflow > 0
      BY <1>1, <1>3
    <2> HIDE DEF chunk
    <2>3. k \in 0 .. Len(g.rows) /\ g.rows # <<>>
      <3>1. Len(g.rows) # 0
        BY <1>1, <2>2
      <3>2. k \in 0 .. Len(g.rows)
        <4> HIDE DEF overflow
        <4> QED
          BY <1>1, <2>1, <2>2 DEF Min2, Max2
      <3> QED
        BY <3>1, <3>2
    <2> HIDE DEF k
    <2>4. rows \in Seq(LiveFrame) /\ Els(rows) \subseteq Els(g.rows)
      <3>1. /\ rows \in Seq(LiveFrame) /\ Len(rows) = Len(g.rows) - k
            /\ \A i \in 1 .. Len(g.rows) - k : rows[i] = g.rows[i + k]
        BY <1>1, <2>3, CutType
      <3> HIDE DEF rows
      <3>2. k \in Nat /\ k <= Len(g.rows)
        BY <1>1, <2>3
      <3>3. \A i \in 1 .. Len(rows) : rows[i] = g.rows[i + k] /\ i + k \in 1 .. Len(g.rows)
        BY <1>1, <3>1, <3>2
      <3> QED
        BY <3>1, <3>3 DEF Els
    <2> HIDE DEF rows
    <2>5. /\ d.source = g.source /\ d.rows = rows /\ d.pending = g.pending
          /\ d.enabled = g.enabled
      BY DEF Gui
    <2> HIDE DEF d
    <2>6. Bare(d)
      BY <2>3, <2>5 DEF Near, Bare
    <2>7. /\ Pruned(g) => Pruned(d)
          /\ Drained(g) => Drained(d)
      BY <2>4, <2>5, WithinLess DEF Pruned, Drained
    <2> QED
      BY <2>6, <2>7 DEF Near
  <1>4. Near(h)
    BY <1>2, <1>3
  <1> QED
    BY <1>4 DEF h

(* _incremental_scan_completed                                              *)
LEMMA IncrementCompletedNear ==
  ASSUME NEW g \in Gui, Near(g), NEW task \in g.tasks
  PROVE  Near(IncrementCompleted([g EXCEPT !.tasks = @ \ {task}], task))
  <1> DEFINE e == [g EXCEPT !.tasks = @ \ {task}]
             h == IncrementCompleted(e, task)
             accepted == Accepted(task.set, task.frames)
             new == Since(e.source, accepted)
             rows == e.rows \o new
             s == [e EXCEPT !.running = FALSE]
             d == [e EXCEPT !.running = FALSE, !.rows = rows]
             a == Synchronize(d)
             b == ScheduleIncrement(a)
  <1>1. e \in Gui /\ Near(e) /\ accepted \in Seq(LiveFrame)
    BY TaskGoneNear
  <1> HIDE DEF e, accepted
  <1>2. h = IF ~UpToDate(task) THEN e
            ELSE IF ~e.enabled \/ ~e.ready THEN s ELSE TrimStream(b)
    BY <1>1 DEF IncrementCompleted, accepted, Gui
  <1> HIDE DEF h
  <1>3. Near(s)
    <2>1. SameRows(e, s)
      BY <1>1 DEF SameRows, Gui
    <2> HIDE DEF s
    <2> QED
      BY <1>1, <2>1, NearSame
  <1>4. ASSUME e.enabled PROVE Near(TrimStream(b))
    <2>1. e.source \in Seq(LiveFrame) /\ e.rows \in Seq(LiveFrame)
      BY <1>1 DEF Gui
    <2>2. new \in Seq(LiveFrame) /\ Within(e.source, new, 0)
      BY <1>1, <2>1, SinceWithin
    <2> HIDE DEF new
    <2>3. /\ rows \in Seq(LiveFrame)
          /\ \A n \in Nat : Within(e.source, e.rows, n) => Within(e.source, rows, n)
      BY <2>1, <2>2, WithinBoth, ElsConcat
    <2> HIDE DEF rows
    <2>4. /\ d \in Gui /\ d.enabled /\ d.source = e.source /\ d.rows = rows
          /\ d.pending = e.pending
      BY <1>1, <1>4, <2>3 DEF Gui
    <2> HIDE DEF d
    <2>5. Near(d)
      <3>1. /\ Pruned(e) => Pruned(d)
            /\ Drained(e) => Drained(d)
        BY <2>3, <2>4, TrimChunkType DEF Pruned, Drained
      <3>2. Bare(d)
        BY <2>4 DEF Bare
      <3> QED
        BY <1>1, <3>1, <3>2 DEF Near
    <2>6. a \in Gui /\ Near(a)
      BY <2>4, <2>5, SameParts, NearSame, SynchronizeSound
    <2> HIDE DEF a
    <2>7. b \in Gui /\ Near(b)
      BY <2>6, SameParts, NearSame, ScheduleIncrementSound
    <2> HIDE DEF b
    <2> QED
      BY <2>7, TrimStreamNear
  <1>5. Near(h)
    BY <1>1, <1>2, <1>3, <1>4
  <1> QED
    BY <1>5 DEF h, e

-----------------------------------------------------------------------------
(* New rows leave a view that is near.                                      *)

(* A filtered view follows the bus, whatever a scan has in hand.            *)
LEMMA SomeFlow ==
  ASSUME NEW g, NEW n, NEW top, Sound(g, n, top), g.enabled
  PROVE  \E f \in Seq(LiveFrame) : FlowOf(g, f, top)
  <1>1. <<>> \in Seq(LiveFrame)
    OBVIOUS
  <1> QED
    BY <1>1, Zenon DEF Sound, Idle, Adding, Scanning

(* Only the first row of the table matters.                                 *)
LEMMA WithinFirst ==
  ASSUME NEW source, NEW t, NEW s, NEW n, source # <<>>, t # <<>>, source[1] = t[1],
         Within(source, s, n)
  PROVE  Within(t, s, n)
  BY DEF Within

(* The frames of a run are not before its first.                            *)
LEMMA RunWithin ==
  ASSUME NEW s \in Seq(LiveFrame), NEW n, NEW top \in Int, RunTo(s, n, top)
  PROVE  Within(s, s, 0)
  <1> SUFFICES ASSUME NEW x \in Els(s), s # <<>> PROVE s[1].sequence - 0 <= x.sequence
    BY DEF Within
  <1>1. Rising(s)
    BY RunRises DEF UpTo
  <1>2. x \in NotBefore(s)
    BY <1>1, SourceNotBefore
  <1>3. x.sequence >= s[1].sequence /\ x.sequence \in Nat
    BY <1>2 DEF NotBefore, LiveFrame
  <1>4. s[1] \in LiveFrame
    OBVIOUS
  <1>5. s[1].sequence \in Nat
    BY <1>4 DEF LiveFrame
  <1> QED
    BY <1>3, <1>5

(* Rows in front of the others.                                             *)
LEMMA ConcatFirst ==
  ASSUME NEW T, NEW s \in Seq(T), NEW t \in Seq(T)
  PROVE  /\ Len(s \o t) = Len(s) + Len(t) /\ Len(s) \in Nat /\ Len(t) \in Nat
         /\ s # <<>> => (s \o t)[1] = s[1]
         /\ s = <<>> => s \o t = t
         /\ (s # <<>> \/ t # <<>>) => s \o t # <<>>
  OBVIOUS

(* append_frames before it arms the timer.                                  *)
LEMMA InsertedNear ==
  ASSUME NEW g, NEW n, NEW top \in Int, NEW top2 \in Int, Sound(g, n, top), Near(g),
         NEW incoming \in Seq(LiveFrame), incoming # <<>>, RunTo(incoming, n, top2),
         top2 = top + Len(incoming), NEW k \in 0 .. Len(g.source),
         NEW p \in Seq(LiveFrame), NEW e \in Gui, Inserted(g, incoming, k, p, e)
  PROVE  Near(e)
  <1> DEFINE d == Drop(g.source, k)
  <1>1. /\ g \in Gui /\ g.source \in Seq(LiveFrame) /\ RunTo(g.source, n, top)
        /\ g.rows \in Seq(LiveFrame) /\ g.pending \in Seq(LiveFrame)
    BY DEF Sound, Gui
  <1>2. /\ \/ k = 0 /\ e.rows = g.rows /\ p = g.pending
           \/ e.rows = Since(d, g.rows) /\ p = Since(d, g.pending)
        /\ k = 0 \/ k < Len(g.source) \/ (Len(g.source) <= TrimChunk /\ TrimChunk < Len(incoming))
        /\ e.source = d \o incoming /\ e.enabled = g.enabled
        /\ e.pending = IF g.enabled THEN p \o incoming ELSE p
    BY DEF Inserted, Kin
  <1>3. /\ d \in Seq(LiveFrame) /\ Len(d) = Len(g.source) - k /\ RunTo(d, n, top)
        /\ k = 0 => d = g.source
    BY <1>1, CutType, RunDropped, DropNone
  <1> HIDE DEF d
  <1>4. TrimChunk \in Nat /\ e.rows \in Seq(LiveFrame) /\ Len(g.source) \in Nat /\ k \in Nat
    BY <1>1, TrimChunkType DEF Gui
  <1>5. /\ g.rows = <<>> => e.rows = <<>>
        /\ g.pending = <<>> => p = <<>>
    BY <1>1, <1>2, SinceType
  <1>6. CASE ~g.enabled
    <2>1. Empty(e)
      BY <1>2, <1>5, <1>6 DEF Near, Bare, Empty
    <2> QED
      BY <2>1, NearSame
  <1>7. ASSUME g.enabled, g.source = <<>> PROVE Pruned(e)
    <2>1. g.rows = <<>> /\ g.pending = <<>>
      BY <1>1, <1>7, SomeFlow DEF FlowOf, Flow
    <2>2. d = <<>>
      BY <1>1, <1>3, <1>7
    <2>3. e.source = incoming /\ e.pending = incoming /\ e.rows = <<>>
      BY <1>2, <1>5, <1>7, <2>1, <2>2, ConcatFirst
    <2>4. Within(incoming, <<>>, 0) /\ Within(incoming, incoming, 0)
      BY RunWithin, NothingIn DEF Within
    <2> QED
      BY <2>3, <2>4 DEF Pruned
  <1>8. ASSUME g.enabled, d # <<>> PROVE Pruned(e) \/ Drained(e)
    <2>1. /\ e.source \in Seq(LiveFrame) /\ e.source # <<>> /\ e.source[1] = d[1]
          /\ Len(e.source) = Len(d) + Len(incoming) /\ Len(d) \in Nat /\ Len(incoming) \in Nat
          /\ e.pending = p \o incoming /\ e.pending # <<>>
      <3>1. e.source \in Seq(LiveFrame) /\ e.source = d \o incoming /\ e.pending = p \o incoming
        BY <1>2, <1>8 DEF Gui
      <3>2. /\ d \o incoming # <<>> /\ (d \o incoming)[1] = d[1]
            /\ Len(d \o incoming) = Len(d) + Len(incoming) /\ Len(d) \in Nat
            /\ Len(incoming) \in Nat
        BY <1>3, <1>8, ConcatFirst, Zenon
      <3>3. p \o incoming # <<>>
        BY ConcatFirst, Zenon
      <3> QED
        BY <3>1, <3>2, <3>3
    <2>2. RunTo(e.source, n, top2)
      BY <1>2, <1>3, RunGrows
    <2>3. Within(e.source, incoming, 0)
      <3>1. Els(incoming) \subseteq Els(e.source)
        BY <1>2, <1>3, ElsConcat
      <3> QED
        BY <2>1, <2>2, <3>1, RunWithin, WithinLess
    <2>4. \A m \in Nat : Within(e.source, p, m) => Within(e.source, e.pending, m)
      BY <2>1, <2>3, WithinBoth
    <2>5. CASE k = 0 /\ e.rows = g.rows /\ p = g.pending
      <3>1. g.source = d /\ Len(g.source) <= Len(e.source)
        BY <1>3, <2>1, <2>5
      <3>2. \A s, m : Within(g.source, s, m) => Within(e.source, s, m)
        BY <1>8, <2>1, <3>1, WithinFirst
      <3>3. CASE Pruned(g)
        BY <2>4, <2>5, <3>2, <3>3 DEF Pruned
      <3>4. CASE Drained(g)
        <4>1. TrimChunk < Len(e.source)
          BY <1>3, <1>4, <2>1, <3>1, <3>4 DEF Drained
        <4> QED
          BY <1>4, <2>1, <2>4, <2>5, <3>2, <3>4, <4>1 DEF Drained
      <3> QED
        BY <3>3, <3>4 DEF Near
    <2>6. CASE e.rows = Since(d, g.rows) /\ p = Since(d, g.pending)
      <3>1. Within(d, e.rows, 0) /\ Within(d, p, 0)
        BY <1>1, <1>3, <2>6, SinceWithin
      <3>2. Within(e.source, e.rows, 0) /\ Within(e.source, p, 0)
        BY <1>8, <2>1, <3>1, WithinFirst
      <3> QED
        BY <2>4, <3>2 DEF Pruned
    <2> QED
      BY <1>2, <2>5, <2>6
  <1>9. ASSUME g.enabled, g.source # <<>>, d = <<>> PROVE Drained(e)
    <2>1. Len(g.source) <= TrimChunk /\ TrimChunk < Len(incoming) /\ Len(incoming) \in Nat
      <3>1. k # 0 /\ Len(d) = 0
        BY <1>3, <1>9
      <3> QED
        BY <1>2, <1>3, <1>4, <3>1
    <2>2. Pruned(g)
      BY <1>4, <2>1 DEF Near, Drained
    <2>3. e.source = incoming /\ e.pending = p \o incoming /\ e.pending # <<>>
      BY <1>2, <1>3, <1>9, ConcatFirst
    <2>4. g.source[1].sequence = top - Len(g.source) + 1 /\ incoming[1].sequence = top + 1
      <3>1. g.source[1].sequence = top - Len(g.source) + 1
        BY <1>1, <1>9, RunEnds
      <3>2. incoming[1].sequence = top2 - Len(incoming) + 1
        BY RunEnds
      <3> QED
        BY <2>1, <3>1, <3>2
    <2>5. ASSUME NEW s \in Seq(LiveFrame), Within(g.source, s, 0) PROVE Within(incoming, s, TrimChunk)
      <3> SUFFICES ASSUME NEW x \in Els(s) PROVE incoming[1].sequence - TrimChunk <= x.sequence
        BY DEF Within
      <3>1. g.source[1].sequence - 0 <= x.sequence
        BY <1>9, <2>5 DEF Within
      <3>2. x.sequence \in Nat
        BY FrameNumber
      <3> DEFINE a == Len(g.source)
                 y == x.sequence
      <3>3. y \in Nat /\ a \in Nat /\ a <= TrimChunk /\ (top - a + 1) - 0 <= y
        BY <1>4, <2>1, <2>4, <3>1, <3>2
      <3> HIDE DEF a, y
      <3>4. (top + 1) - TrimChunk <= y
        BY <1>4, <3>3
      <3> QED
        BY <2>4, <3>4 DEF y
    <2>6. Within(incoming, g.rows, TrimChunk) /\ Within(incoming, g.pending, TrimChunk)
      BY <1>1, <2>2, <2>5 DEF Pruned
    <2>7. Els(e.rows) \subseteq Els(g.rows) /\ Els(p) \subseteq Els(g.pending)
      BY <1>1, <1>2, KeptEls DEF Since
    <2>8. Within(incoming, e.rows, TrimChunk) /\ Within(incoming, p, TrimChunk)
      BY <2>6, <2>7, WithinLess
    <2>9. Within(incoming, p \o incoming, TrimChunk)
      BY <1>4, <2>8, RunWithin, WithinBoth
    <2> QED
      BY <2>1, <2>3, <2>8, <2>9 DEF Drained
  <1>10. CASE g.enabled
    <2>1. Bare(e)
      BY <1>2, <1>10 DEF Bare
    <2>2. Pruned(e) \/ Drained(e)
      BY <1>7, <1>8, <1>9, <1>10
    <2> QED
      BY <2>1, <2>2 DEF Near
  <1> QED
    BY <1>6, <1>10

(* append_frames                                                            *)
LEMMA AppendRowsNear ==
  ASSUME NEW g, NEW n, NEW top \in Int, NEW top2 \in Int, Sound(g, n, top), Near(g),
         NEW incoming \in Seq(LiveFrame), incoming # <<>>, RunTo(incoming, n, top2),
         top2 = top + Len(incoming)
  PROVE  Near(AppendRows(g, incoming))
  <1>1. Capacity \in Nat /\ Len(incoming) \in Nat /\ g \in Gui /\ Len(g.source) <= Capacity
    BY LiveViewAssumption DEF Sound
  <1>2. CASE Len(incoming) >= Capacity
    BY <1>1, <1>2, ReplaceRowsNear DEF AppendRows, Near
  <1>3. CASE ~(Len(incoming) >= Capacity)
    <2>1. Len(incoming) < Capacity
      BY <1>1, <1>3
    <2>2. PICK k \in 0 .. Len(g.source), p \in Seq(LiveFrame), e \in Gui :
            InsertRows(g, incoming) = ScheduleIncrement(e) /\ Inserted(g, incoming, k, p, e)
      BY <1>1, <2>1, InsertRowsFields
    <2>3. Near(e)
      BY <2>2, InsertedNear
    <2>4. Near(ScheduleIncrement(e))
      BY <2>3, SameParts, NearSame
    <2> QED
      BY <1>3, <2>2, <2>4 DEF AppendRows
  <1> QED
    BY <1>2, <1>3

-----------------------------------------------------------------------------
(* The steps, and the invariant.                                            *)

(* The view of the GUI is near its table.                                   *)
ViewIsNear == Near(gui)

(* A handler that only sets marks, and one that ends with the table bound.  *)
LEMMA MarkedNear ==
  ASSUME NEW g \in Gui, NEW h \in Gui, Near(g), Alike(g, h)
  PROVE  Near(h)
  BY NearSame DEF SameRows, Alike

(* The rows are cleared before a capture.                                   *)
LEMMA ClearingNear ==
  ASSUME ViewIInv, ViewIsNear, Start \/ CleanWorkspace
  PROVE  ViewIsNear'
  <1> DEFINE g == [gui EXCEPT !.cursor = None, !.paused = FALSE, !.log = TRUE, !.clean = FALSE]
             w == [gui EXCEPT !.cursor = None, !.paused = FALSE]
             c == ClearRows(w)
             h == [c EXCEPT !.log = FALSE, !.clean = TRUE]
  <1>1. gui \in Gui /\ Near(gui) /\ Sound(gui, number, gui.cursor)
    BY GuiFacts DEF ViewIsNear
  <1>2. g \in Gui /\ Alike(gui, g) /\ w \in Gui /\ Alike(gui, w)
    BY <1>1 DEF Gui, Alike, Mine, None
  <1>3. gui' = ClearRows(g) \/ gui' = h
    BY DEF Start, CleanWorkspace
  <1> HIDE DEF g, w
  <1>4. Near(ClearRows(g)) /\ Near(c)
    BY <1>1, <1>2, MarkedNear, ClearRowsNear
  <1>5. c \in Gui
    <2>1. Sound(w, number, gui.cursor)
      BY <1>1, <1>2, AlikeSound
    <2>2. Sound(c, number, -1)
      BY <2>1, ClearRowsSound
    <2> QED
      BY <2>2 DEF Sound
  <1> HIDE DEF c
  <1>6. h \in Gui /\ Alike(c, h)
    BY <1>5 DEF Gui, Alike, Mine
  <1> HIDE DEF h
  <1>7. Near(h)
    BY <1>4, <1>5, <1>6, MarkedNear
  <1> QED
    BY <1>3, <1>4, <1>7 DEF ViewIsNear

(* The marks of the workspace and of the pause box.                         *)
LEMMA MarkingNear ==
  ASSUME ViewIInv, ViewIsNear, StartFails \/ ClickPause
  PROVE  ViewIsNear'
  <1> DEFINE s == [gui EXCEPT !.clean = FALSE]
             p == [gui EXCEPT !.paused = ~gui.paused]
  <1>1. gui \in Gui /\ Near(gui)
    BY GuiFacts DEF ViewIsNear
  <1>2. s \in Gui /\ Alike(gui, s) /\ p \in Gui /\ Alike(gui, p)
    BY <1>1 DEF Gui, Alike, Mine
  <1>3. gui' = s \/ gui' = p
    BY DEF StartFails, ClickPause
  <1> HIDE DEF s, p
  <1> QED
    BY <1>1, <1>2, <1>3, MarkedNear DEF ViewIsNear

(* The refresh appends to the rows or replaces them.                        *)
LEMMA RefreshNear ==
  ASSUME ViewIInv, ViewIsNear, Refresh
  PROVE  ViewIsNear'
  <1> DEFINE g == Synchronize(gui)
             last == live[Len(live)].sequence
             h == Copy(g)
             e == [h EXCEPT !.cursor = last]
  <1>1. /\ last \in Nat
        /\ \E s \in Seq(LiveFrame), top \in Int :
              /\ s # <<>> /\ RunTo(s, number, last)
              /\ \/ h = ReplaceRows(g, s)
                 \/ h = AppendRows(g, s) /\ Sound(g, number, top) /\ last = top + Len(s)
    BY RefreshCopies
  <1>2. gui' = e
    BY DEF Refresh
  <1>3. gui \in Gui /\ Near(gui)
    BY GuiFacts DEF ViewIsNear
  <1>4. g \in Gui /\ Near(g)
    BY <1>3, SynchronizeSound, MarkedNear
  <1> HIDE DEF g, last
  <1> HIDE DEF h
  <1>5. Near(h) /\ h \in Gui
    <2>1. PICK s \in Seq(LiveFrame), top \in Int :
              /\ s # <<>> /\ RunTo(s, number, last)
              /\ \/ h = ReplaceRows(g, s)
                 \/ h = AppendRows(g, s) /\ Sound(g, number, top) /\ last = top + Len(s)
      BY <1>1
    <2>2. last \in Int /\ last >= -1
      BY <1>1
    <2>3. CASE h = ReplaceRows(g, s)
      <3>1. Near(h)
        BY <1>4, <2>3, ReplaceRowsNear DEF Near
      <3>2. Sound(h, number, last)
        BY <1>4, <2>1, <2>2, <2>3, ReplaceRowsSound
      <3> QED
        BY <3>1, <3>2 DEF Sound
    <2>4. CASE h = AppendRows(g, s) /\ Sound(g, number, top) /\ last = top + Len(s)
      <3>1. Near(h)
        BY <1>4, <2>1, <2>2, <2>4, AppendRowsNear
      <3>2. Sound(h, number, last)
        BY <1>4, <2>1, <2>2, <2>4, AppendRowsSound
      <3> QED
        BY <3>1, <3>2 DEF Sound
    <2> QED
      BY <2>1, <2>3, <2>4
  <1>6. e \in Gui /\ Alike(h, e)
    BY <1>1, <1>5 DEF Gui, Alike, Mine
  <1> HIDE DEF e
  <1> QED
    BY <1>2, <1>5, <1>6, MarkedNear DEF ViewIsNear

(* The filter box.                                                          *)
LEMMA ClickFilterNear ==
  ASSUME ViewIInv, ViewIsNear, ClickFilter
  PROVE  ViewIsNear'
  <1> DEFINE g == [gui EXCEPT !.checked = ~gui.checked]
             h == IF Capturing THEN ApplyStreaming(g) ELSE ApplyStopped(g)
  <1>1. gui \in Gui /\ Near(gui) /\ Follows(gui) /\ gui.checked \in BOOLEAN
        /\ Len(gui.source) <= Capacity /\ RunTo(gui.source, number, gui.cursor)
        /\ gui.cursor \in Int /\ gui.cursor >= -1
    BY GuiFacts DEF ViewIsNear, Gui
  <1>2. /\ g \in Gui /\ SameRows(gui, g) /\ g.checked = ~gui.checked
        /\ g.source = gui.source /\ g.cursor = gui.cursor
    BY <1>1 DEF Gui, SameRows
  <1>3. gui' = Synchronize(h)
    BY DEF ClickFilter
  <1> HIDE DEF g
  <1>4. Near(g) /\ (g.checked => ~g.enabled)
    BY <1>1, <1>2, NearSame DEF Follows, SameRows
  <1>5. Near(h) /\ h \in Gui
    <2>1. CASE Capturing
      <3>1. h = ApplyStreaming(g)
        BY <2>1
      <3> HIDE DEF h
      <3>2. Sound(h, number, gui.cursor)
        BY <1>1, <1>2, <3>1, ApplyStreamingSound
      <3> QED
        BY <1>2, <1>4, <3>1, <3>2, ApplyStreamingNear DEF Sound
    <2>2. CASE ~Capturing
      <3>1. h = ApplyStopped(g)
        BY <2>2
      <3> HIDE DEF h
      <3>2. Len(g.source) <= Capacity /\ RunTo(g.source, number, gui.cursor)
        BY <1>1, <1>2
      <3>3. Sound(h, number, gui.cursor)
        BY <1>1, <1>2, <3>1, <3>2, ApplyStoppedSound
      <3> QED
        BY <1>2, <1>4, <3>1, <3>3, ApplyStoppedNear DEF Sound
    <2> QED
      BY <2>1, <2>2
  <1> HIDE DEF h
  <1> QED
    BY <1>3, <1>5, SynchronizeSound, MarkedNear DEF ViewIsNear

(* The presets are read again.                                              *)
LEMMA ReloadNear ==
  ASSUME ViewIInv, ViewIsNear, Reload
  PROVE  ViewIsNear'
  <1> DEFINE changed == <<gui.set, project, TRUE>> \in Changes
             set == IF changed THEN project ELSE gui.set
             g == [gui EXCEPT !.set = set]
             h == IF Capturing THEN ReloadStreaming(g, changed) ELSE ReloadStopped(g, changed)
  <1>1. changed \in BOOLEAN /\ set \in FilterSets /\ (~changed => set = gui.set)
    BY GuiFacts
  <1>2. gui' = Synchronize(h)
    BY DEF Reload
  <1>3. gui \in Gui /\ Near(gui) /\ Follows(gui)
    BY GuiFacts DEF ViewIsNear
  <1> HIDE DEF changed, set
  <1>4. Near(h) /\ h \in Gui
    <2>1. CASE Capturing
      <3>1. h = ReloadStreaming([gui EXCEPT !.set = set], changed)
        BY <2>1
      <3> HIDE DEF h, g
      <3>2. Sound(h, number, gui.cursor)
        BY <1>1, <3>1, GuiFacts, ReloadStreamingSound
      <3>3. Near(h)
        BY <1>1, <1>3, <3>1, ReloadStreamingNear
      <3> QED
        BY <3>2, <3>3 DEF Sound
    <2>2. CASE ~Capturing
      <3>1. h = ReloadStopped([gui EXCEPT !.set = set], changed)
        BY <2>2
      <3> HIDE DEF h, g
      <3>2. Sound(h, number, gui.cursor)
        BY <1>1, <3>1, GuiFacts, ReloadStoppedSound
      <3>3. Near(h)
        BY <1>1, <1>3, <3>1, ReloadStoppedNear
      <3> QED
        BY <3>2, <3>3 DEF Sound
    <2> QED
      BY <2>1, <2>2
  <1> HIDE DEF h
  <1> QED
    BY <1>2, <1>4, SynchronizeSound, MarkedNear DEF ViewIsNear

(* The timer fires.                                                         *)
LEMMA StartIncrementNear ==
  ASSUME ViewIInv, ViewIsNear, StartIncrement
  PROVE  ViewIsNear'
  <1> DEFINE g == [gui EXCEPT !.timer = FALSE]
  <1>1. gui \in Gui /\ Near(gui)
    BY GuiFacts DEF ViewIsNear
  <1>2. g \in Gui /\ Alike(gui, g)
    BY <1>1 DEF Gui, Alike, Mine
  <1>3. gui' = Batched(g)
    BY DEF StartIncrement, Batched
  <1> HIDE DEF g
  <1> QED
    BY <1>1, <1>2, <1>3, MarkedNear, BatchedNear DEF ViewIsNear

(* A scan ends.                                                             *)
LEMMA CompletesNear ==
  ASSUME ViewIInv, ViewIsNear, NEW task \in gui.tasks, Completes(task)
  PROVE  ViewIsNear'
  <1>1. gui \in Gui /\ Near(gui)
    BY GuiFacts DEF ViewIsNear
  <1>2. \/ gui' = ScanCompleted([gui EXCEPT !.tasks = @ \ {task}], task)
        \/ gui' = IncrementCompleted([gui EXCEPT !.tasks = @ \ {task}], task)
    BY DEF Completes
  <1> QED
    BY <1>1, <1>2, ScanCompletedNear, IncrementCompletedNear DEF ViewIsNear

(* A scan raises.                                                           *)
LEMMA FailsNear ==
  ASSUME ViewIInv, ViewIsNear, NEW task \in gui.tasks, Fails(task)
  PROVE  ViewIsNear'
  <1> DEFINE g == [gui EXCEPT !.tasks = @ \ {task}]
             d == DisableAfterError(g)
  <1>1. gui \in Gui /\ Near(gui)
    BY GuiFacts DEF ViewIsNear
  <1>2. gui' = IF UpToDate(task) THEN Synchronize(d) ELSE g
    BY DEF Fails
  <1>3. g \in Gui /\ Near(g) /\ g.source = gui.source
    BY <1>1, TaskGoneNear, TaskGone
  <1> HIDE DEF g
  <1>4. Near(d) /\ d \in Gui
    <2>1. Len(g.source) <= Capacity /\ RunTo(g.source, number, gui.cursor)
      BY <1>3, GuiFacts
    <2>2. Sound(d, number, gui.cursor)
      BY <1>3, <2>1, DisableAfterErrorSound
    <2> QED
      BY <1>3, <2>2, DisableAfterErrorNear DEF Sound
  <1> HIDE DEF d
  <1> QED
    BY <1>2, <1>3, <1>4, SynchronizeSound, MarkedNear DEF ViewIsNear

(* The view stays near.                                                     *)
LEMMA ViewNearStep == ViewIInv /\ ViewIsNear /\ [Next]_vars => ViewIsNear'
  <1> SUFFICES ASSUME ViewIInv, ViewIsNear, [Next]_vars PROVE ViewIsNear'
    OBVIOUS
  <1>1. CASE Service
    <2>1. gui' = gui
      BY <1>1 DEF Service, Publish, End
    <2> QED
      BY <2>1 DEF ViewIsNear
  <1>2. CASE Operator
    <2>1. CASE EditPresets
      <3>1. gui' = gui
        BY <2>1 DEF EditPresets
      <3> QED
        BY <3>1 DEF ViewIsNear
    <2> QED
      BY <1>2, <2>1, ClearingNear, MarkingNear, ClickFilterNear DEF Operator
  <1>3. CASE Refresh \/ Reload \/ StartIncrement
    BY <1>3, RefreshNear, ReloadNear, StartIncrementNear
  <1>4. CASE TaskDone \/ \E task \in gui.tasks : Fails(task)
    BY <1>4, CompletesNear, FailsNear DEF TaskDone
  <1>5. CASE UNCHANGED vars
    BY <1>5 DEF vars, ViewIsNear
  <1> QED
    BY <1>1, <1>2, <1>3, <1>4, <1>5 DEF Next

(* An empty view is near.                                                   *)
LEMMA ViewNearInit == Init => ViewIsNear
  <1> SUFFICES ASSUME Init PROVE ViewIsNear
    OBVIOUS
  <1>1. gui.rows = <<>> /\ gui.pending = <<>>
    BY DEF Init
  <1> QED
    BY <1>1, NearSame DEF Empty, ViewIsNear

(* Nothing in a filtered view is older than the table's first row, or by one *)
(* chunk at most while a batch waits, and a view that is not filtered keeps *)
(* nothing (_prune_frame_filter_cache).                                     *)
THEOREM ViewNear == Spec => []ViewIsNear
  <1>1. Init => ViewIInv /\ ViewIsNear
    BY ViewIInvInit, ViewNearInit
  <1>2. ViewIInv /\ ViewIsNear /\ [Next]_vars => (ViewIInv /\ ViewIsNear)'
    BY ViewIInvStep, ViewNearStep
  <1> QED
    BY <1>1, <1>2, PTL DEF Spec

-----------------------------------------------------------------------------
(* How many frames that is.                                                 *)

(* Frames in order between two numbers.                                     *)
LEMMA RisingSpan ==
  ASSUME NEW s \in Seq(LiveFrame), Rising(s), NEW a \in Int, NEW b \in Int, s # <<>>,
         \A x \in Els(s) : a <= x.sequence /\ x.sequence <= b
  PROVE  Len(s) <= b - a + 1
  <1> DEFINE N == Len(s)
             S == {i \in 0 .. N : i = 0 \/ s[i].sequence >= a + i - 1}
  <1>1. N \in Nat /\ N >= 1 /\ N \in 1 .. N
    OBVIOUS
  <1>2. \A i \in 1 .. N : s[i] \in Els(s) /\ s[i].sequence \in Nat
    BY ElsType, FrameNumber
  <1>3. 0 \in S
    BY <1>1
  <1>4. ASSUME NEW i \in 1 .. N, i - 1 \in S PROVE i \in S
    <2>1. i \in 0 .. N
      BY <1>1
    <2>2. CASE i = 1
      <3>1. s[i].sequence \in Nat /\ a <= s[i].sequence
        BY <1>2
      <3> QED
        BY <2>1, <2>2, <3>1
    <2>3. CASE i # 1
      <3>1. i - 1 \in 1 .. N /\ i - 1 < i /\ i - 1 # 0
        BY <1>1, <2>3
      <3>2. s[i - 1].sequence < s[i].sequence
        BY <3>1 DEF Rising
      <3>3. s[i - 1].sequence >= a + (i - 1) - 1
        BY <1>4, <3>1
      <3>4. s[i - 1].sequence \in Nat /\ s[i].sequence \in Nat
        BY <1>2, <3>1
      <3> DEFINE u == s[i - 1].sequence
                 v == s[i].sequence
      <3>5. u \in Nat /\ v \in Nat /\ u < v /\ u >= a + (i - 1) - 1
        BY <3>2, <3>3, <3>4
      <3> HIDE DEF u, v
      <3>6. v >= a + i - 1
        BY <1>1, <3>5
      <3> QED
        BY <2>1, <3>6 DEF v
    <2> QED
      BY <2>2, <2>3
  <1>5. N \in S
    <2> HIDE DEF N, S
    <2>1. \A i \in 0 .. N : i \in S
      BY <1>1, <1>3, <1>4, Induction, Zenon
    <2> QED
      BY <1>1, <2>1
  <1>6. s[N].sequence >= a + N - 1
    BY <1>1, <1>5
  <1> DEFINE v == s[N].sequence
  <1>7. v \in Nat /\ v <= b /\ v >= a + N - 1
    BY <1>1, <1>2, <1>6
  <1> HIDE DEF v, N
  <1>8. N <= b - a + 1
    BY <1>1, <1>7
  <1> QED
    BY <1>8 DEF N

(* Rows of a view that are near its table are hardly more.                  *)
LEMMA NearLength ==
  ASSUME NEW s \in Seq(LiveFrame), NEW source \in Seq(LiveFrame), NEW n, NEW top \in Int,
         source # <<>>, RunTo(source, n, top), Len(source) <= Capacity,
         Rising(s), \A x \in Els(s) : x.sequence <= top,
         Within(source, s, 0) \/ Within(source, s, TrimChunk)
  PROVE  Len(s) \in 0 .. Capacity + TrimChunk
  <1>1. /\ TrimChunk \in Nat /\ Capacity \in Nat /\ Len(s) \in Nat
        /\ source[1].sequence = top - Len(source) + 1 /\ Len(source) \in Nat
    BY TrimChunkType, RunEnds
  <1> DEFINE m == Len(source)
             a == top - m + 1 - TrimChunk
  <1>2. m \in Nat /\ m <= Capacity
    BY <1>1
  <1>3. CASE s = <<>>
    BY <1>1, <1>3
  <1>4. CASE s # <<>>
    <2>1. ASSUME NEW x \in Els(s) PROVE a <= x.sequence /\ x.sequence <= top
      <3> DEFINE y == x.sequence
                 first == source[1].sequence
      <3>1. y \in Nat /\ y <= top
        BY FrameNumber
      <3>2. first - 0 <= y \/ first - TrimChunk <= y
        BY DEF Within
      <3>3. first = top - m + 1
        BY <1>1
      <3> HIDE DEF y, m, first
      <3>4. top - m + 1 - TrimChunk <= y
        BY <1>1, <1>2, <3>1, <3>2, <3>3
      <3> QED
        BY <3>1, <3>4 DEF y
    <2>2. a \in Int
      BY <1>1, <1>2
    <2> HIDE DEF a
    <2>3. Len(s) <= top - a + 1
      BY <1>4, <2>1, <2>2, RisingSpan
    <2> DEFINE N == Len(s)
    <2> HIDE DEF m
    <2>4. N \in Nat /\ N <= top - (top - m + 1 - TrimChunk) + 1
      BY <1>1, <2>3 DEF a
    <2> HIDE DEF N
    <2>5. N \in 0 .. Capacity + TrimChunk
      BY <1>1, <1>2, <2>4
    <2> QED
      BY <2>5 DEF N
  <1> QED
    BY <1>3, <1>4

(* Nothing is left out of rows that are not older than the table.           *)
LEMMA SinceAll ==
  ASSUME NEW s \in Seq(LiveFrame), NEW source \in Seq(LiveFrame), Rising(s),
         Within(source, s, 0)
  PROVE  Since(source, s) = s
  <1> DEFINE k == Since(source, s)
  <1>1. /\ k \in Seq(LiveFrame) /\ Els(k) = {x \in Els(s) : x \in NotBefore(source)}
        /\ Rising(k)
    BY KeptEls, KeptRising DEF Since
  <1>2. ASSUME NEW x \in Els(s) PROVE x \in NotBefore(source)
    <2>1. x \in LiveFrame /\ x.sequence \in Nat
      BY FrameNumber
    <2>2. CASE source = <<>>
      BY <2>1, <2>2 DEF NotBefore
    <2>3. CASE source # <<>>
      <3>1. source[1] \in LiveFrame
        BY <2>3
      <3>2. source[1].sequence \in Nat /\ source[1].sequence - 0 <= x.sequence
        BY <2>3, <3>1 DEF Within, LiveFrame
      <3>3. x.sequence >= source[1].sequence
        BY <2>1, <3>2
      <3> QED
        BY <2>1, <3>3 DEF NotBefore
    <2> QED
      BY <2>2, <2>3
  <1> HIDE DEF k
  <1>3. Els(k) = Els(s)
    BY <1>1, <1>2
  <1>4. k = s
    BY <1>1, <1>3, SameEls
  <1> QED
    BY <1>4 DEF k

(* The invariants give the bound.                                           *)
LEMMA NearIsBounded == ViewIInv /\ ViewIsNear => ViewIsBounded
  <1> SUFFICES ASSUME ViewIInv, ViewIsNear PROVE ViewIsBounded
    OBVIOUS
  <1>1. /\ gui \in Gui /\ Sound(gui, number, gui.cursor) /\ gui.cursor \in Int
        /\ Len(gui.source) <= Capacity /\ RunTo(gui.source, number, gui.cursor)
        /\ Near(gui)
    BY GuiFacts DEF ViewIsNear
  <1>2. /\ gui.source \in Seq(LiveFrame) /\ gui.rows \in Seq(LiveFrame)
        /\ gui.pending \in Seq(LiveFrame)
    BY <1>1 DEF Gui
  <1>3. 0 \in 0 .. Capacity + TrimChunk
    BY TrimChunkType
  <1>4. CASE gui.rows = <<>> /\ gui.pending = <<>>
    <2>1. Len(gui.rows) = 0 /\ Len(gui.pending) = 0
      BY <1>4
    <2>2. Since(gui.source, gui.rows) = gui.rows
      BY <1>2, <1>4, SinceType
    <2> QED
      BY <1>3, <2>1, <2>2 DEF ViewIsBounded
  <1>5. CASE gui.enabled /\ gui.source # <<>>
    <2>1. PICK f \in Seq(LiveFrame) : FlowOf(gui, f, gui.cursor)
      BY <1>1, <1>5, SomeFlow
    <2>2. /\ Rising(gui.rows) /\ Rising(gui.pending)
          /\ \A x \in Els(gui.rows) : x.sequence <= gui.cursor
          /\ \A x \in Els(gui.pending) : x.sequence <= gui.cursor
      BY <2>1 DEF FlowOf, Flow
    <2>3. /\ Within(gui.source, gui.rows, 0) \/ Within(gui.source, gui.rows, TrimChunk)
          /\ Within(gui.source, gui.pending, 0) \/ Within(gui.source, gui.pending, TrimChunk)
      BY <1>1 DEF Near, Pruned, Drained
    <2>4. {Len(gui.rows), Len(gui.pending)} \subseteq 0 .. Capacity + TrimChunk
      BY <1>1, <1>2, <1>5, <2>2, <2>3, NearLength
    <2>5. Since(gui.source, gui.rows) = gui.rows \/ gui.pending # <<>>
      BY <1>1, <1>2, <2>2, SinceAll DEF Near, Pruned, Drained
    <2> QED
      BY <2>4, <2>5 DEF ViewIsBounded
  <1>6. CASE gui.enabled /\ gui.source = <<>>
    <2>1. gui.rows = <<>> /\ gui.pending = <<>>
      BY <1>1, <1>6, SomeFlow DEF FlowOf, Flow
    <2> QED
      BY <1>4, <2>1
  <1> QED
    BY <1>1, <1>4, <1>5, <1>6 DEF Near, Bare

(* The accepted rows and the frames that wait are never more than the table *)
(* may hold and one chunk, so that the limits of 250 000 frames of the      *)
(* projection and of its queue are never reached; rows that the table has   *)
(* dropped are shown only while the next batch waits (LiveFilterIntegration). *)
THEOREM ViewBounded == Spec => []ViewIsBounded
  BY ViewInductive, ViewNear, NearIsBounded, PTL

(* The table shows a run of neighbouring frames up to the cursor; the filtered *)
(* view neither loses nor repeats a frame that the presets ask for in the editor's *)
(* test, a streaming view apart from its oldest rows; frames are filtered exactly *)
(* when the box is checked and the presets concern frames; and what the view *)
(* keeps is bounded.                                                        *)
THEOREM ViewExact == Spec => []ViewIsExact
  <1>1. ViewIInv /\ ViewIsBounded => ViewIsExact
    BY ViewIInvExact DEF ViewIsExact
  <1> QED
    BY <1>1, ViewInductive, ViewBounded, PTL
==================================================================================
