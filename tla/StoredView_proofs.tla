--------------------------- MODULE StoredView_proofs ---------------------------
(***************************************************************************)
(* Proof that the tab of a stored session shows what was asked for, for    *)
(* every number of frames, pages, presets, navigators, tasks and failures. *)
(*                                                                         *)
(* StoredIInv is inductive.  What holds it together is the generation: a   *)
(* load, and a navigator that waits for a page, belong to the filters that *)
(* were in force when the generation was taken, for filters change only    *)
(* with a new one.  A slot of the code calls several operations one after  *)
(* the other, so that the invariant is stated of a record (Sound), each    *)
(* operation is proved to keep what the next one needs (Steady, Others,    *)
(* Heard), and the steps of the actions put the operations together.       *)
(***************************************************************************)
EXTENDS StoredView, FiniteSetTheorems, FunctionTheorems, SequenceTheorems, TLAPS

-----------------------------------------------------------------------------
(* Pages and places.                                                        *)

\* The page of an index starts at or before it.
LEMMA PageStarts ==
    ASSUME NEW index \in Nat
    PROVE  PageOf(index) \in Nat /\ PageOf(index) <= index
<1>1. PageSize \in Nat /\ PageSize > 0
  BY StoredAssumption
<1> PICK q : q = index \div PageSize
  OBVIOUS
<1>2. q \in Nat /\ q * PageSize <= index
  BY <1>1
<1>3. q * PageSize \in Nat
  BY <1>1, <1>2
<1> QED BY <1>2, <1>3 DEF PageOf

\* The last page starts at a row.
LEMMA LastPageType ==
    ASSUME NEW visible \in Nat
    PROVE  LastPage(visible) \in Nat
BY PageStarts DEF LastPage

\* The rows of a set are finitely many.
LEMMA SetOfRows ==
    ASSUME NEW set, set \subseteq Rows
    PROVE  /\ IsFiniteSet(set) /\ Cardinality(set) \in Nat
           /\ \A row \in set : row \in Nat
<1>1. IsFiniteSet(Rows)
  BY StoredAssumption, FS_Interval DEF Rows
<1>2. Rows \subseteq Nat
  BY StoredAssumption DEF Rows
<1> QED BY <1>1, <1>2, FS_Subset, FS_CardinalityType

\* A sequence of rows in order.
Ascends(s) == \A i, j \in DOMAIN s : i < j => s[i] < s[j]

\* An ascending sequence of all the rows of a set has each at its place.
LEMMA AscendsToPlaces ==
    ASSUME NEW set, set \subseteq Rows,
           NEW s \in [1 .. Cardinality(set) -> set], Ascends(s),
           NEW row \in set
    PROVE  /\ Place(set, row) + 1 \in 1 .. Cardinality(set)
           /\ s[Place(set, row) + 1] = row
<1> DEFINE n == Cardinality(set)
<1>1. IsFiniteSet(set) /\ n \in Nat /\ \A r \in set : r \in Nat
  BY SetOfRows
<1>2. \A i, j \in 1 .. n : i < j => s[i] < s[j]
  BY DEF Ascends
<1>3. \A i, j \in 1 .. n : s[i] < s[j] => i < j
  BY <1>1, <1>2
<1>4. s \in Injection(1 .. n, set)
  <2>1. \A i, j \in 1 .. n : s[i] = s[j] => i = j
    BY <1>1, <1>2
  <2> QED BY <2>1 DEF Injection, IsInjective
<1>5. s \in Surjection(1 .. n, set)
  <2>1. IsFiniteSet(1 .. n) /\ Cardinality(1 .. n) = n
    BY <1>1, FS_Interval
  <2> QED BY <1>1, <1>4, <2>1, FS_Injection
<1>6. PICK i \in 1 .. n : s[i] = row
  BY <1>5 DEF Surjection
<1> DEFINE Before == {r \in set : r < row}
           f == [j \in 1 .. i - 1 |-> s[j]]
<1>7. f \in Bijection(1 .. i - 1, Before)
  <2>1. \A j \in 1 .. i - 1 : j \in 1 .. n /\ s[j] \in Before
    BY <1>1, <1>2, <1>6
  <2>2. f \in Injection(1 .. i - 1, Before)
    BY <2>1, <1>4 DEF Injection, IsInjective
  <2>3. \A r \in Before : \E j \in 1 .. i - 1 : f[j] = r
    <3> SUFFICES ASSUME NEW r \in Before PROVE \E j \in 1 .. i - 1 : f[j] = r
      OBVIOUS
    <3>1. PICK j \in 1 .. n : s[j] = r
      BY <1>5 DEF Surjection
    <3>2. j < i
      BY <1>3, <1>6, <3>1
    <3> QED BY <3>1, <3>2, <1>1
  <2> QED BY <2>1, <2>2, <2>3 DEF Bijection, Surjection
<1>8. Cardinality(Before) = i - 1
  <2>1. i - 1 \in Nat /\ 1 \in Int
    BY <1>1
  <2>2. IsFiniteSet(1 .. i - 1) /\ Cardinality(1 .. i - 1) = i - 1
    BY <2>1, FS_Interval
  <2> QED BY <1>7, <2>2, FS_Bijection DEF ExistsBijection
<1> QED BY <1>1, <1>6, <1>8 DEF Place

\* There is such a sequence.
LEMMA ThroughAscends ==
    ASSUME NEW set, set \subseteq Rows
    PROVE  Through(set) \in [1 .. Cardinality(set) -> set] /\ Ascends(Through(set))
<1> DEFINE n == Cardinality(set)
           place == [row \in set |-> Place(set, row) + 1]
<1>1. IsFiniteSet(set) /\ n \in Nat /\ \A r \in set : r \in Nat
  BY SetOfRows
<1>2. ASSUME NEW row \in set
      PROVE  Place(set, row) \in Nat /\ Place(set, row) + 1 <= n
  <2> DEFINE Before == {r \in set : r < row}
  <2>1. Before \in SUBSET set /\ Before # set
    BY <1>1
  <2>2. IsFiniteSet(Before) /\ Cardinality(Before) <= n /\ Cardinality(Before) # n
    BY <1>1, <2>1, FS_Subset
  <2>3. Cardinality(Before) \in Nat
    BY <2>2, FS_CardinalityType
  <2> QED BY <1>1, <2>2, <2>3 DEF Place
<1>3. ASSUME NEW p \in set, NEW r \in set, p < r
      PROVE  Place(set, p) < Place(set, r)
  <2> DEFINE BeforeP == {x \in set : x < p}
             BeforeR == {x \in set : x < r}
  <2>1. BeforeP \in SUBSET BeforeR /\ p \in BeforeR /\ p \notin BeforeP
    BY <1>1, <1>3
  <2>2. IsFiniteSet(BeforeR)
    BY <1>1, FS_Subset
  <2>3. Cardinality(BeforeP) <= Cardinality(BeforeR) /\ Cardinality(BeforeP) # Cardinality(BeforeR)
    <3> HIDE DEF BeforeP, BeforeR
    <3> QED BY <2>1, <2>2, FS_Subset
  <2> QED BY <2>3, <1>2 DEF Place
<1>4. place \in Injection(set, 1 .. n)
  <2>1. \A p, r \in set : p # r => p < r \/ r < p
    BY <1>1
  <2>2. \A p, r \in set : place[p] = place[r] => p = r
    <3> SUFFICES ASSUME NEW p \in set, NEW r \in set, p # r PROVE place[p] # place[r]
      OBVIOUS
    <3>1. CASE p < r
      BY <3>1, <1>2, <1>3
    <3>2. CASE r < p
      BY <3>2, <1>2, <1>3
    <3> QED BY <2>1, <3>1, <3>2
  <2>3. place \in [set -> 1 .. n]
    BY <1>1, <1>2
  <2> QED BY <2>2, <2>3 DEF Injection, IsInjective
<1>5. place \in Surjection(set, 1 .. n)
  <2>1. IsFiniteSet(1 .. n) /\ Cardinality(1 .. n) = n
    BY <1>1, FS_Interval
  <2> QED BY <1>4, <2>1, FS_Injection
<1> DEFINE s == [i \in 1 .. n |-> CHOOSE row \in set : place[row] = i]
<1>6. \A i \in 1 .. n : s[i] \in set /\ place[s[i]] = i
  BY <1>5 DEF Surjection
<1>7. s \in [1 .. n -> set] /\ Ascends(s)
  <2>1. ASSUME NEW i \in 1 .. n, NEW j \in 1 .. n, i < j
        PROVE  s[i] < s[j]
    <3> PICK p \in set, r \in set : p = s[i] /\ r = s[j]
      BY <1>6
    <3>1. Place(set, p) + 1 = i /\ Place(set, r) + 1 = j
      BY <1>6
    <3>2. ~(r < p) /\ r # p
      BY <2>1, <3>1, <1>2, <1>3
    <3>3. p < r
      BY <1>1, <3>2
    <3> QED BY <3>3
  <2> QED BY <2>1, <1>6 DEF Ascends
<1> HIDE DEF s
<1> QED BY <1>7 DEF Through, Ascends

\* The rows that are let through, each at its place.
LEMMA ThroughType ==
    ASSUME NEW set, set \subseteq Rows
    PROVE  /\ Through(set) \in Seq(Rows) /\ Len(Through(set)) = Cardinality(set)
           /\ \A row \in set :
                 /\ Place(set, row) + 1 \in 1 .. Len(Through(set))
                 /\ Through(set)[Place(set, row) + 1] = row
<1>1. Cardinality(set) \in Nat
  BY SetOfRows
<1>2. Through(set) \in [1 .. Cardinality(set) -> set] /\ Ascends(Through(set))
  BY ThroughAscends
<1>3. Through(set) \in Seq(set) /\ Len(Through(set)) = Cardinality(set)
  BY <1>1, <1>2
<1> QED BY <1>2, <1>3, AscendsToPlaces

\* The page that is read says where it starts; asked for there, it is the same.
LEMMA PageType ==
    ASSUME NEW set \in Presets, NEW start \in Nat
    PROVE  /\ Page(set, start) \in Pages
           /\ Page(set, Page(set, start).start) = Page(set, start)
<1>1. set \subseteq Rows
  BY StoredAssumption
<1> PICK v : v = Through(set)
  OBVIOUS
<1>2. v \in Seq(Rows) /\ Len(v) \in Nat
  BY <1>1, ThroughType
<1> PICK from : from = Min2(start, LastPage(Len(v)))
  OBVIOUS
<1>3. from \in Nat /\ Min2(from, LastPage(Len(v))) = from
  BY <1>2, LastPageType DEF Min2
<1>4. Page(set, start) =
        [start |-> from, visible |-> Len(v), of |-> set,
         rows |-> SubSeq(v, from + 1, Min2(from + PageSize, Len(v)))]
  BY DEF Page
<1>5. Page(set, from) = Page(set, start)
  BY <1>3, <1>4 DEF Page
<1>6. SubSeq(v, from + 1, Min2(from + PageSize, Len(v))) \in Seq(Rows)
  <2>1. PageSize \in Nat /\ from + PageSize \in Nat
    BY <1>3, StoredAssumption
  <2>2. Min2(from + PageSize, Len(v)) \in Nat /\ Min2(from + PageSize, Len(v)) <= Len(v)
    BY <1>2, <2>1 DEF Min2
  <2>3. \A i \in from + 1 .. Min2(from + PageSize, Len(v)) : v[i] \in Rows
    BY <1>2, <1>3, <2>2, ElementOfSeq
  <2> QED BY <1>3, <2>2, <2>3, SubSeqProperties
<1> QED BY SMTT(30), <1>2, <1>3, <1>4, <1>5, <1>6 DEF Pages

\* The row that is located is in the page that is asked for, at its place.
LEMMA PageHasRow ==
    ASSUME NEW set \in Presets, NEW row \in set,
           NEW page, page = Page(set, PageOf(Place(set, row))),
           page.start = PageOf(Place(set, row)),
           NEW place, place = Place(set, row) - PageOf(Place(set, row)), place < Len(page.rows)
    PROVE  page.rows[place + 1] = row
<1>1. set \subseteq Rows
  BY StoredAssumption
<1> PICK v : v = Through(set)
  OBVIOUS
<1> PICK p : p = Place(set, row)
  OBVIOUS
<1> PICK from : from = PageOf(p)
  OBVIOUS
<1>2. v \in Seq(Rows) /\ p + 1 \in 1 .. Len(v) /\ v[p + 1] = row
  BY <1>1, ThroughType
<1>3. p \in Nat
  BY SetOfRows, <1>1, FS_Subset, FS_CardinalityType DEF Place
<1>4. from \in Nat /\ from <= p
  BY <1>3, PageStarts
<1> PICK last : last = Min2(from + PageSize, Len(v))
  OBVIOUS
<1>5. last \in Nat /\ last <= Len(v)
  BY <1>2, <1>4, StoredAssumption DEF Min2
<1>6. page.rows = SubSeq(v, from + 1, last)
  BY DEF Page
<1>7. place \in Nat /\ place + from = p
  BY <1>3, <1>4
<1>8. /\ Len(page.rows) = IF from + 1 <= last THEN last - (from + 1) + 1 ELSE 0
      /\ \A i \in 1 .. last - (from + 1) + 1 : page.rows[i] = v[from + 1 + i - 1]
  <2>1. \A i \in from + 1 .. last : v[i] \in Rows
    BY <1>2, <1>4, <1>5, ElementOfSeq
  <2>2. from + 1 \in Int /\ last \in Int
    BY <1>4, <1>5
  <2> QED BY <1>6, <2>1, <2>2, SubSeqProperties
<1>9. place + 1 \in 1 .. last - (from + 1) + 1
  <2>1. PICK len : len = Len(page.rows)
    OBVIOUS
  <2>2. place < len /\ len = IF from + 1 <= last THEN last - (from + 1) + 1 ELSE 0
    BY <1>8, <2>1
  <2>3. CASE from + 1 <= last
    <3>1. len = last - (from + 1) + 1 /\ place < len
      BY <2>2, <2>3
    <3>2. last - (from + 1) + 1 \in Nat
      BY <2>3, <1>4, <1>5
    <3> QED BY <3>1, <3>2, <1>7
  <2>4. CASE ~(from + 1 <= last)
    <3>1. len = 0 /\ place < len
      BY <2>2, <2>4
    <3> QED BY <3>1, <1>7
  <2> QED BY <2>3, <2>4
<1>10. page.rows[place + 1] = v[from + 1 + (place + 1) - 1]
  BY <1>8, <1>9
<1>11. from + 1 + (place + 1) - 1 = p + 1
  BY <1>3, <1>4, <1>7
<1> QED BY <1>2, <1>10, <1>11

-----------------------------------------------------------------------------
(* What a slot may make of the program: the invariants of such a record.    *)

States == [gui : Guis, loads : SUBSET Loads, locates : SUBSET Locations]

\* Loads are told apart by their generation, and none is ahead.
Known(s) ==
    /\ \A l \in s.loads : l.generation <= s.gui.generation
    /\ \A l, k \in s.loads : l.generation = k.generation => l = k

\* The current load reads what the tab waits for.
Expected(s) ==
    \A l \in s.loads : l.generation = s.gui.generation => s.gui.loading /\ l.set = s.gui.active

\* The tab that waits has a load.
Loaded(s) ==
    (~s.gui.closed /\ s.gui.loading) => \E l \in s.loads : l.generation = s.gui.generation

\* The page of a generation is shown once.
Shown(g) ==
    /\ g.rendered <= g.generation
    /\ ~g.closed => (g.loading <=> g.rendered # g.generation)

\* PageIsExact, SelectionIsAsked and PendingInv of a record.
Exact(g) ==
    ~g.closed /\ ~g.loading /\ ~g.error =>
        /\ g.page = Page(g.active, g.start) /\ g.page.start = g.start
        /\ g.rows = g.page.rows

Asked(g) ==
    g.selection # NoSelection /\ g.selection.clean =>
        g.rows[g.selection.place + 1] = g.selection.row

Pends(g) ==
    \A n \in Navigators :
        /\ g.nav[n].pending <= g.generation
        /\ g.nav[n].pending = g.generation => g.nav[n].row \in g.active

\* Navigator n does not wait in vain.
Heard(s, n) ==
    s.gui.nav[n].request = "waiting" =>
        \/ s.gui.nav[n].pending # 0
        \/ \E t \in s.locates : t.nav = n /\ t.generation = s.gui.nav[n].generation

Steady(s) ==
    /\ s \in States
    /\ Known(s) /\ Expected(s) /\ Loaded(s)
    /\ Shown(s.gui) /\ Exact(s.gui) /\ Asked(s.gui) /\ Pends(s.gui)

Sound(s) == Steady(s) /\ (~s.gui.closed => \A n \in Navigators : Heard(s, n))

\* A record says what the invariant says of the variables.
LEMMA InvariantOfState ==
    TypeOK /\ StoredIInv <=>
        /\ Sound(State) /\ presets \in Presets
        /\ inputs \in Nat /\ edits \in Nat /\ failures \in Nat
<1>1. State.gui = gui /\ State.loads = loads /\ State.locates = locates
  BY DEF State
<1>2. State \in States <=> gui \in Guis /\ loads \subseteq Loads /\ locates \subseteq Locations
  BY DEF State, States
<1>3. Known(State) /\ Expected(State) <=> LoadsInv
  BY <1>1 DEF Known, Expected, LoadsInv, Current
<1>4. Shown(gui) <=> ShownInv
  BY DEF Shown, ShownInv
<1>5. Exact(gui) <=> PageIsExact
  BY DEF Exact, PageIsExact
<1>6. Asked(gui) <=> SelectionIsAsked
  BY DEF Asked, SelectionIsAsked
<1>7. Pends(gui) <=> PendingInv
  BY DEF Pends, PendingInv
<1>8. Loaded(State) /\ (~gui.closed => \A n \in Navigators : Heard(State, n)) <=> NobodyWaitsInVain
  <2>1. Loaded(State) <=> (~gui.closed => (gui.loading => \E l \in loads : Current(l)))
    BY <1>1 DEF Loaded, Current
  <2>2. ASSUME NEW n \in Navigators
        PROVE  Heard(State, n) <=>
                 (Waiting(n) => gui.nav[n].pending # 0 \/ \E t \in locates : t.nav = n /\ Newest(t))
    <3>1. \A t : t.nav = n => (Newest(t) <=> t.generation = gui.nav[n].generation)
      BY DEF Newest
    <3> QED BY <1>1, <3>1 DEF Heard, Waiting
  <2> QED BY <2>1, <2>2 DEF NobodyWaitsInVain
<1> QED BY <1>1, <1>2, <1>3, <1>4, <1>5, <1>6, <1>7, <1>8 DEF TypeOK, StoredIInv, Sound, Steady

\* A slot that becomes a sound state keeps the invariant.
LEMMA Becoming ==
    ASSUME NEW s, Sound(s), Becomes(s), TypeOK,
           presets' \in Presets, inputs' \in Nat, edits' \in Nat, failures' \in Nat
    PROVE  (TypeOK /\ StoredIInv)'
<1>1. gui' = s.gui /\ loads' = s.loads /\ locates' = s.locates
  BY DEF Becomes
<1>2. s.gui \in Guis /\ s.loads \subseteq Loads /\ s.locates \subseteq Locations
  BY DEF Sound, Steady, States
<1>3. TypeOK'
  BY <1>1, <1>2 DEF TypeOK
<1>4. LoadsInv'
  BY <1>1 DEF Sound, Steady, Known, Expected, LoadsInv, Current
<1>5. ShownInv'
  BY <1>1 DEF Sound, Steady, Shown, ShownInv
<1>6. PageIsExact'
  BY <1>1 DEF Sound, Steady, Exact, PageIsExact
<1>7. SelectionIsAsked'
  BY <1>1 DEF Sound, Steady, Asked, SelectionIsAsked
<1>8. PendingInv'
  BY <1>1 DEF Sound, Steady, Pends, PendingInv
<1>9. NobodyWaitsInVain'
  <2>1. ~gui'.closed /\ gui'.loading => \E l \in loads' : l.generation = gui'.generation
    BY <1>1 DEF Sound, Steady, Loaded
  <2>2. ASSUME ~gui'.closed, NEW n \in Navigators, gui'.nav[n].request = "waiting"
        PROVE  \/ gui'.nav[n].pending # 0
               \/ \E t \in locates' : t.nav = n /\ t.generation = gui'.nav[t.nav].generation
    BY <1>1, <2>2 DEF Sound, Heard
  <2> QED BY <2>1, <2>2 DEF NobodyWaitsInVain, Current, Waiting, Newest
<1> QED BY <1>3, <1>4, <1>5, <1>6, <1>7, <1>8, <1>9 DEF StoredIInv

-----------------------------------------------------------------------------
(* The slots, as operators on a record.                                     *)

\* A state from which a page may be asked for, whatever was asked before.
Ready(s) ==
    /\ s \in States /\ ~s.gui.closed
    /\ Known(s) /\ Asked(s.gui)
    /\ s.gui.rendered <= s.gui.generation
    /\ \A n \in Navigators : s.gui.nav[n].pending <= s.gui.generation

\* A page may be asked for at any time.
LEMMA SteadyIsReady ==
    ASSUME NEW s, Steady(s), ~s.gui.closed
    PROVE  Ready(s)
BY DEF Steady, Ready, Shown, Pends

\* _submit: whatever is pending is now pending for an earlier generation.
LEMMA SubmitSteady ==
    ASSUME NEW s, Ready(s), NEW start \in Nat,
           NEW r, r = Submit(s, start)
    PROVE  /\ Steady(r) /\ r.locates = s.locates /\ ~r.gui.closed
           /\ r.gui.nav = s.gui.nav /\ r.gui.active = s.gui.active
           /\ r.gui.generation = s.gui.generation + 1
<1> PICK g : g = [s.gui EXCEPT !.generation = @ + 1, !.start = start, !.loading = TRUE,
                               !.error = FALSE]
  OBVIOUS
<1> PICK l : l = Load(g, start)
  OBVIOUS
<1>1. r = [s EXCEPT !.gui = g, !.loads = @ \cup {l}]
  BY DEF Submit
<1>2. s.gui \in Guis /\ s.loads \subseteq Loads /\ s.locates \subseteq Locations
  BY DEF Ready, States
<1>4. s.gui.generation \in Nat /\ s.gui.rendered \in Nat
  BY <1>2 DEF Guis
<1>3. /\ g \in Guis /\ g.generation = s.gui.generation + 1 /\ g.loading
      /\ g.active = s.gui.active /\ g.nav = s.gui.nav /\ g.rendered = s.gui.rendered
      /\ g.selection = s.gui.selection /\ g.rows = s.gui.rows /\ g.closed = s.gui.closed
  <2>1. PICK n : n = s.gui.generation + 1
    OBVIOUS
  <2>2. g = [s.gui EXCEPT !.generation = n, !.start = start, !.loading = TRUE, !.error = FALSE]
    BY <1>2, <2>1 DEF Guis
  <2>3. n \in Nat \ {0}
    BY <1>4, <2>1
  <2> QED BY ZenonT(40), <1>2, <2>1, <2>2, <2>3 DEF Guis
<1>5. l \in Loads /\ l.generation = g.generation /\ l.set = g.active
  BY <1>3 DEF Load, Loads, TaskStates, Guis
<1>6. /\ r.gui = g /\ r.loads = s.loads \cup {l} /\ r.locates = s.locates
      /\ r \in States
  <2>1. r.gui = g /\ r.loads = s.loads \cup {l} /\ r.locates = s.locates
    BY <1>1 DEF Ready, States
  <2>2. s.loads \cup {l} \subseteq Loads
    BY <1>2, <1>5
  <2>3. r = [gui |-> g, loads |-> s.loads \cup {l}, locates |-> s.locates]
    BY <1>1 DEF Ready, States
  <2> QED BY <1>2, <1>3, <2>1, <2>2, <2>3 DEF States
<1>7. \A k \in s.loads : k.generation \in Nat /\ k.generation <= s.gui.generation
  BY <1>2 DEF Ready, Known, Loads
<1>8. Known(r) /\ Expected(r) /\ Loaded(r)
  <2>1. \A k \in r.loads : k = l \/ (k \in s.loads /\ k.generation < g.generation)
    <3>1. \A k \in s.loads : k.generation < g.generation
      BY <1>3, <1>4, <1>7
    <3>2. r.loads = s.loads \cup {l}
      BY <1>6
    <3> QED BY <3>1, <3>2
  <2>2. g.generation \in Nat
    BY <1>3, <1>4
  <2>3. \A k, m \in s.loads : k.generation = m.generation => k = m
    BY DEF Ready, Known
  <2>4. \A k \in r.loads : k.generation \in Nat
    BY <1>6, <1>5, <1>7, <2>2
  <2>5. Known(r)
    BY <2>1, <2>2, <2>3, <2>4, <1>5, <1>6 DEF Known
  <2>6. Expected(r)
    BY <2>1, <2>2, <2>4, <1>3, <1>5, <1>6 DEF Expected
  <2>7. Loaded(r)
    BY <1>5, <1>6 DEF Loaded
  <2> QED BY <2>5, <2>6, <2>7
<1>9. Shown(g) /\ Exact(g) /\ Asked(g)
  BY <1>3, <1>4 DEF Ready, Shown, Exact, Asked
<1>10. Pends(g)
  <2> SUFFICES ASSUME NEW n \in Navigators
               PROVE  g.nav[n].pending <= g.generation /\ g.nav[n].pending # g.generation
    BY DEF Pends
  <2>1. s.gui.nav[n].pending \in Nat
    BY <1>2 DEF Guis, Requests
  <2>2. s.gui.nav[n].pending <= s.gui.generation
    BY DEF Ready
  <2> QED BY <2>1, <2>2, <1>3, <1>4
<1> QED BY <1>3, <1>6, <1>8, <1>9, <1>10 DEF Steady, Ready

\* What the tab shows is the same.
Alike(r, s) ==
    /\ r.gui.generation = s.gui.generation /\ r.gui.start = s.gui.start
    /\ r.gui.loading = s.gui.loading /\ r.gui.error = s.gui.error
    /\ r.gui.page = s.gui.page /\ r.gui.opened = s.gui.opened
    /\ r.gui.active = s.gui.active /\ r.gui.rows = s.gui.rows
    /\ r.gui.closed = s.gui.closed

\* Navigator n has another request.
WithRequest(s, n, q) == [s EXCEPT !.gui.nav[n] = q]

\* A request whose page, if it waits for the current one, is asked for its row.
Fitting(q, g) ==
    /\ q \in Requests /\ q.pending <= g.generation
    /\ q.pending = g.generation => q.row \in g.active

\* Only the request of navigator n changes.
LEMMA RequestSteady ==
    ASSUME NEW s, Steady(s), NEW n \in Navigators, NEW q, Fitting(q, s.gui),
           NEW r, r = WithRequest(s, n, q)
    PROVE  /\ Steady(r) /\ Alike(r, s) /\ r.locates = s.locates
           /\ r.gui.nav = [s.gui.nav EXCEPT ![n] = q]
<1>1. s \in States /\ s.gui \in Guis /\ q \in Requests
  BY DEF Steady, States, Fitting
<1> PICK g : g = [s.gui EXCEPT !.nav[n] = q]
  OBVIOUS
<1>2. s.gui.nav \in [Navigators -> Requests]
  BY <1>1 DEF Guis
<1>3. g = [s.gui EXCEPT !.nav = [s.gui.nav EXCEPT ![n] = q]]
  BY <1>1 DEF Guis
<1>4. /\ g \in Guis /\ g.nav = [s.gui.nav EXCEPT ![n] = q]
      /\ g.generation = s.gui.generation /\ g.loading = s.gui.loading /\ g.error = s.gui.error
      /\ g.active = s.gui.active /\ g.rendered = s.gui.rendered /\ g.start = s.gui.start
      /\ g.selection = s.gui.selection /\ g.rows = s.gui.rows /\ g.closed = s.gui.closed
      /\ g.page = s.gui.page /\ g.opened = s.gui.opened
  BY <1>1, <1>2, <1>3 DEF Guis
<1>5. r.gui = g /\ r.loads = s.loads /\ r.locates = s.locates /\ r \in States
  BY <1>1, <1>4 DEF States, WithRequest
<1>6. Known(r) /\ Expected(r) /\ Loaded(r)
  <2>1. Known(s) /\ Expected(s) /\ Loaded(s)
    BY DEF Steady
  <2>2. /\ r.loads = s.loads /\ r.gui.generation = s.gui.generation
        /\ r.gui.loading = s.gui.loading /\ r.gui.active = s.gui.active
        /\ r.gui.closed = s.gui.closed
    BY <1>4, <1>5
  <2>3. Known(r)
    BY <2>1, <2>2 DEF Known
  <2>4. Expected(r)
    BY <2>1, <2>2 DEF Expected
  <2>5. Loaded(r)
    BY <2>1, <2>2 DEF Loaded
  <2> QED BY <2>3, <2>4, <2>5
<1>7. Shown(g) /\ Exact(g) /\ Asked(g)
  BY <1>4 DEF Steady, Shown, Exact, Asked
<1>8. Pends(g)
  <2> SUFFICES ASSUME NEW m \in Navigators
               PROVE  /\ g.nav[m].pending <= g.generation
                      /\ g.nav[m].pending = g.generation => g.nav[m].row \in g.active
    BY DEF Pends
  <2>1. g.generation \in Nat /\ g.generation # 0
    BY <1>4 DEF Guis
  <2>2. /\ s.gui.nav[m].pending <= s.gui.generation
        /\ s.gui.nav[m].pending = s.gui.generation => s.gui.nav[m].row \in s.gui.active
    BY DEF Steady, Pends
  <2>3. g.nav[m] = IF m = n THEN q ELSE s.gui.nav[m]
    BY <1>2, <1>4
  <2> QED BY <2>1, <2>2, <2>3, <1>4 DEF Fitting
<1> QED BY <1>4, <1>5, <1>6, <1>7, <1>8 DEF Steady, Alike

\* Navigators other than n are left alone.
Others(r, s, n) ==
    \A m \in Navigators \ {n} :
        /\ r.gui.nav[m] = s.gui.nav[m]
        /\ \A t \in s.locates : t.nav = m => t \in r.locates

\* They wait for what they waited for.
LEMMA OthersHeard ==
    ASSUME NEW r, NEW s, NEW n, Others(r, s, n), NEW m \in Navigators \ {n}, Heard(s, m)
    PROVE  Heard(r, m)
BY DEF Others, Heard

\* Two operations for one navigator leave the others alone.
LEMMA OthersOfOthers ==
    ASSUME NEW r, NEW s, NEW u, NEW n, Others(r, s, n), Others(s, u, n)
    PROVE  Others(r, u, n)
BY DEF Others

\* An answer leaves navigator n with no request that waits.
LEMMA AnswerSteady ==
    ASSUME NEW s, Steady(s), NEW n \in Navigators,
           NEW a \in {"selected", "failed", "dropped"},
           NEW r, r = Answer(s, n, a)
    PROVE  /\ Steady(r) /\ Alike(r, s) /\ Others(r, s, n) /\ Heard(r, n)
           /\ r.locates = s.locates
           /\ r.gui.nav[n].request # "waiting"
           /\ r.gui.nav[n].pending = s.gui.nav[n].pending
<1>1. s \in States /\ s.gui \in Guis /\ s.gui.nav \in [Navigators -> Requests]
      /\ s.gui.nav[n] \in Requests
  BY DEF Steady, States, Guis
<1> PICK q : q = [s.gui.nav[n] EXCEPT !.request = IF @ = "waiting" THEN a ELSE @]
  OBVIOUS
<1>2. /\ q \in Requests
      /\ q.pending = s.gui.nav[n].pending /\ q.row = s.gui.nav[n].row
      /\ q.request # "waiting"
  BY <1>1 DEF Requests
<1>3. r = WithRequest(s, n, q)
  BY <1>1 DEF Answer, States, Guis, WithRequest
<1>4. Fitting(q, s.gui)
  BY <1>2 DEF Steady, Pends, Fitting
<1>5. /\ Steady(r) /\ Alike(r, s) /\ r.locates = s.locates
      /\ r.gui.nav = [s.gui.nav EXCEPT ![n] = q]
  BY SMTT(30), <1>3, <1>4, RequestSteady
<1> QED BY <1>1, <1>2, <1>5 DEF Others, Heard

\* A page that is forgotten is not waited for.
LEMMA ForgetSteady ==
    ASSUME NEW s, Steady(s), NEW n \in Navigators, NEW r, r = Forget(s, n)
    PROVE  /\ Steady(r) /\ Alike(r, s) /\ Others(r, s, n) /\ r.locates = s.locates
           /\ r.gui.nav[n].request = s.gui.nav[n].request
<1>1. s \in States /\ s.gui \in Guis /\ s.gui.nav \in [Navigators -> Requests]
      /\ s.gui.nav[n] \in Requests
  BY DEF Steady, States, Guis
<1> PICK q : q = [s.gui.nav[n] EXCEPT !.pending = 0]
  OBVIOUS
<1>2. q \in Requests /\ q.pending = 0 /\ q.request = s.gui.nav[n].request
  BY <1>1 DEF Requests
<1>3. r = WithRequest(s, n, q)
  BY <1>1 DEF Forget, States, Guis, WithRequest
<1>4. Fitting(q, s.gui)
  BY <1>1, <1>2 DEF Guis, Fitting
<1>5. /\ Steady(r) /\ Alike(r, s) /\ r.locates = s.locates
      /\ r.gui.nav = [s.gui.nav EXCEPT ![n] = q]
  BY <1>3, <1>4, RequestSteady
<1> QED BY <1>1, <1>5 DEF Others

\* _select_local_row selects the row that was asked for, or gives an answer.
LEMMA SelectSteady ==
    ASSUME NEW s, Steady(s), ~s.gui.closed, NEW n \in Navigators,
           NEW row \in Nat, NEW place \in Nat,
           (~s.gui.error /\ place < Len(s.gui.rows)) => s.gui.rows[place + 1] = row,
           NEW r, r = Select(s, n, row, place)
    PROVE  Steady(r) /\ ~r.gui.closed /\ Others(r, s, n) /\ Heard(r, n)
<1>1. CASE place < Len(s.gui.rows)
  <2>1. PICK p : p = [row |-> row, place |-> place, clean |-> ~s.gui.error]
    OBVIOUS
  <2>2. PICK g : g = [s.gui EXCEPT !.selection = p]
    OBVIOUS
  <2>3. PICK u : u = [s EXCEPT !.gui = g]
    OBVIOUS
  <2>4. s \in States /\ s.gui \in Guis /\ p \in Selections
    BY <2>1 DEF Steady, States, Guis, Selections
  <2>5. /\ g \in Guis /\ g.selection = p /\ g.nav = s.gui.nav
        /\ g.generation = s.gui.generation /\ g.loading = s.gui.loading /\ g.error = s.gui.error
        /\ g.active = s.gui.active /\ g.rendered = s.gui.rendered /\ g.start = s.gui.start
        /\ g.rows = s.gui.rows /\ g.closed = s.gui.closed /\ g.page = s.gui.page
    BY <2>2, <2>4 DEF Guis
  <2>6. u.gui = g /\ u.loads = s.loads /\ u.locates = s.locates /\ u \in States
    BY <2>3, <2>4, <2>5 DEF States
  <2>7. Known(s) /\ Expected(s) /\ Loaded(s) /\ Shown(s.gui) /\ Exact(s.gui) /\ Pends(s.gui)
    BY DEF Steady
  <2>8. Known(u) /\ Expected(u) /\ Loaded(u)
    BY <2>5, <2>6, <2>7 DEF Known, Expected, Loaded
  <2>9. Shown(g) /\ Exact(g) /\ Pends(g)
    BY <2>5, <2>7 DEF Shown, Exact, Pends
  <2>10. Asked(g)
    <3>1. CASE s.gui.error
      <4>1. p.clean = FALSE
        BY <2>1, <3>1
      <4> QED BY <2>5, <4>1 DEF Asked
    <3>2. CASE ~s.gui.error
      <4>1. g.rows[p.place + 1] = p.row
        BY <1>1, <2>1, <2>5, <3>2
      <4> QED BY <2>5, <4>1 DEF Asked
    <3> QED BY <3>1, <3>2
  <2>11. Steady(u) /\ Others(u, s, n)
    BY <2>5, <2>6, <2>8, <2>9, <2>10 DEF Steady, Others
  <2>12. r = Answer(u, n, "selected")
    BY <1>1, <2>1, <2>2, <2>3, <2>4 DEF Select, States
  <2>13. Steady(r) /\ Alike(r, u) /\ Others(r, u, n) /\ Heard(r, n)
    BY <2>11, <2>12, AnswerSteady
  <2> QED BY <2>5, <2>6, <2>11, <2>13, OthersOfOthers DEF Alike
<1>2. CASE ~(place < Len(s.gui.rows))
  <2>1. r = Answer(s, n, "failed")
    BY <1>2 DEF Select
  <2> QED BY <2>1, AnswerSteady DEF Alike
<1> QED BY <1>1, <1>2

\* _location_ready goes to the page that has the row.
LEMMA GoToSteady ==
    ASSUME NEW s, Steady(s), ~s.gui.closed, NEW n \in Navigators, NEW row \in Rows,
           NEW r, r = GoTo(s, n, row)
    PROVE  Steady(r) /\ ~r.gui.closed /\ Others(r, s, n) /\ Heard(r, n)
<1> PICK place : place = Place(s.gui.active, row)
  OBVIOUS
<1> PICK start : start = PageOf(place)
  OBVIOUS
<1>1. s \in States /\ s.gui \in Guis /\ s.gui.active \in Presets /\ s.gui.active \subseteq Rows
  BY StoredAssumption DEF Steady, States, Guis
<1>2. row \in Nat
  BY StoredAssumption DEF Rows
<1>3. CASE row \notin s.gui.active
  <2>1. r = Answer(s, n, "failed")
    BY <1>3 DEF GoTo
  <2> QED BY SMTT(30), <2>1, AnswerSteady DEF Alike
<1>4. CASE row \in s.gui.active
  <2>1. place \in Nat
    BY <1>1, SetOfRows, FS_Subset, FS_CardinalityType DEF Place
  <2>2. start \in Nat /\ start <= place
    BY <2>1, PageStarts
  <2>3. CASE \/ ~s.gui.loading /\ s.gui.opened /\ s.gui.page.start = start
             \/ IsThere(s.gui, start)
    <3>1. r = Select(s, n, row, place - start)
      BY <1>4, <2>3 DEF GoTo
    <3>2. place - start \in Nat
      BY <2>1, <2>2
    <3>3. ASSUME ~s.gui.error, place - start < Len(s.gui.rows)
          PROVE  s.gui.rows[(place - start) + 1] = row
      <4>1. /\ s.gui.page = Page(s.gui.active, start) /\ s.gui.page.start = start
            /\ s.gui.rows = s.gui.page.rows
        BY <2>3, <3>3 DEF Steady, Exact, IsThere
      <4> QED BY <1>1, <1>4, <3>3, <4>1, PageHasRow
    <3> QED BY <1>2, <3>1, <3>2, <3>3, SelectSteady
  <2>4. CASE ~(\/ ~s.gui.loading /\ s.gui.opened /\ s.gui.page.start = start
               \/ IsThere(s.gui, start))
    <3>1. PICK u : u = Submit(s, start)
      OBVIOUS
    <3>2. /\ Steady(u) /\ u.locates = s.locates /\ ~u.gui.closed
          /\ u.gui.nav = s.gui.nav /\ u.gui.active = s.gui.active
          /\ u.gui.generation = s.gui.generation + 1
      <4>1. Ready(s)
        BY SteadyIsReady
      <4> QED BY <2>2, <3>1, <4>1, SubmitSteady
    <3>3. /\ u \in States /\ u.gui \in Guis /\ u.gui.nav \in [Navigators -> Requests]
          /\ u.gui.nav[n] \in Requests /\ u.gui.generation \in Nat \ {0}
      BY <3>2 DEF Steady, States, Guis
    <3>4. PICK q : q = [u.gui.nav[n] EXCEPT !.pending = u.gui.generation, !.row = row]
      OBVIOUS
    <3>5. q \in Requests /\ q.pending = u.gui.generation /\ q.row = row
      BY <1>2, <3>3, <3>4 DEF Requests
    <3>6. Fitting(q, u.gui)
      BY <1>4, <3>2, <3>3, <3>5 DEF Fitting
    <3>7. r = WithRequest(u, n, q)
      <4>1. r = [u EXCEPT !.gui.nav[n].pending = u.gui.generation, !.gui.nav[n].row = row]
        BY <1>4, <2>4, <3>1 DEF GoTo
      <4>2. PICK p : p = [u.gui.nav[n] EXCEPT !.pending = u.gui.generation]
        OBVIOUS
      <4>3. PICK v : v = WithRequest(u, n, p)
        OBVIOUS
      <4>4. r = [v EXCEPT !.gui.nav[n].row = row]
        BY <3>3, <4>1, <4>2, <4>3 DEF WithRequest, States, Guis
      <4>5. /\ v.gui.nav[n] = p /\ q = [p EXCEPT !.row = row]
        BY <3>3, <3>4, <4>2, <4>3 DEF WithRequest, States, Guis, Requests
      <4>6. r = WithRequest(v, n, q)
        BY <3>3, <4>3, <4>4, <4>5 DEF WithRequest, States, Guis
      <4>7. [v.gui.nav EXCEPT ![n] = q] = [u.gui.nav EXCEPT ![n] = q]
        BY <3>3, <4>3 DEF WithRequest, States, Guis
      <4>8. [v.gui EXCEPT !.nav = [v.gui.nav EXCEPT ![n] = q]]
              = [u.gui EXCEPT !.nav = [u.gui.nav EXCEPT ![n] = q]]
        <5>1. v.gui = [u.gui EXCEPT !.nav = [u.gui.nav EXCEPT ![n] = p]]
          BY <3>3, <4>3 DEF WithRequest, States
        <5> QED BY <3>3, <4>7, <5>1 DEF Guis
      <4>9. r = [v EXCEPT !.gui = [v.gui EXCEPT !.nav = [v.gui.nav EXCEPT ![n] = q]]]
        BY <4>6 DEF WithRequest
      <4>10. v.loads = u.loads /\ v.locates = u.locates
             /\ v = [gui |-> v.gui, loads |-> v.loads, locates |-> v.locates]
        BY <3>3, <4>3 DEF WithRequest, States
      <4>11. r = [u EXCEPT !.gui = [u.gui EXCEPT !.nav = [u.gui.nav EXCEPT ![n] = q]]]
        BY <3>3, <4>8, <4>9, <4>10 DEF States
      <4> QED BY <4>11 DEF WithRequest
    <3>8. /\ Steady(r) /\ Alike(r, u) /\ r.locates = u.locates
          /\ r.gui.nav = [u.gui.nav EXCEPT ![n] = q]
      BY <3>2, <3>6, <3>7, RequestSteady
    <3>9. Others(r, s, n)
      BY <3>2, <3>3, <3>8 DEF Others
    <3>10. r.gui.nav[n].pending # 0
      BY <3>3, <3>5, <3>8
    <3> QED BY <3>2, <3>8, <3>9, <3>10 DEF Alike, Heard
  <2> QED BY <2>3, <2>4
<1> QED BY <1>3, <1>4

\* Tasks that are added or taken away change nothing of the tab.
LEMMA LocatesSteady ==
    ASSUME NEW s, Steady(s), NEW L \in SUBSET Locations,
           NEW r, r = [s EXCEPT !.locates = L]
    PROVE  Steady(r) /\ r.gui = s.gui /\ r.locates = L
<1>1. s \in States
  BY DEF Steady
<1>2. r \in States /\ r.gui = s.gui /\ r.loads = s.loads /\ r.locates = L
  BY <1>1 DEF States
<1> QED BY <1>2 DEF Steady, Known, Expected, Loaded

\* A page that is asked for: one that is there, or a new one.
LEMMA RequestPageSteady ==
    ASSUME NEW s, Steady(s), ~s.gui.closed, NEW start \in Nat,
           NEW r, r = RequestPage(s, start)
    PROVE  /\ Steady(r) /\ r.locates = s.locates /\ ~r.gui.closed
           /\ r.gui.nav = s.gui.nav /\ r.gui.active = s.gui.active
BY SteadyIsReady, SubmitSteady DEF RequestPage

\* _invalidate_current_request
LEMMA GiveUpSteady ==
    ASSUME NEW s, Steady(s), ~s.gui.closed, NEW n \in Navigators,
           NEW r, r = GiveUp(s, n)
    PROVE  /\ Steady(r) /\ ~r.gui.closed /\ Others(r, s, n)
           /\ r.gui.nav[n].request = s.gui.nav[n].request
<1>1. /\ s \in States /\ s.gui \in Guis /\ s.gui.nav \in [Navigators -> Requests]
      /\ s.gui.nav[n] \in Requests /\ s.gui.page.start \in Nat /\ s.locates \subseteq Locations
  BY DEF Steady, States, Guis, Pages
<1>2. PICK L : L = {t \in s.locates : t.nav # n \/ t.state # "running"}
  OBVIOUS
<1>3. PICK b : b = [s EXCEPT !.locates = L]
  OBVIOUS
<1>4. Steady(b) /\ b.gui = s.gui /\ b.locates = L
  BY <1>1, <1>2, <1>3, LocatesSteady
<1>5. PICK q : q = [s.gui.nav[n] EXCEPT !.generation = @ + 1]
  OBVIOUS
<1>6. q \in Requests /\ q.pending = s.gui.nav[n].pending /\ q.row = s.gui.nav[n].row
      /\ q.request = s.gui.nav[n].request
  BY <1>1, <1>5 DEF Requests
<1>7. Fitting(q, b.gui)
  BY <1>4, <1>6 DEF Steady, Pends, Fitting
<1>8. PICK a : a = WithRequest(b, n, q)
  OBVIOUS
<1>9. /\ Steady(a) /\ Alike(a, b) /\ a.locates = b.locates
      /\ a.gui.nav = [b.gui.nav EXCEPT ![n] = q]
  BY <1>4, <1>7, <1>8, RequestSteady
<1>10. a = [s EXCEPT !.gui.nav[n].generation = @ + 1, !.locates = L]
  BY <1>1, <1>3, <1>5, <1>8 DEF WithRequest, States, Guis
<1>11. PICK f : f = Forget(a, n)
  OBVIOUS
<1>12. /\ Steady(f) /\ Alike(f, a) /\ Others(f, a, n) /\ f.locates = a.locates
       /\ f.gui.nav[n].request = a.gui.nav[n].request
  <2>1. Steady(a)
    BY <1>9
  <2> QED BY <2>1, <1>11, ForgetSteady
<1>13. Others(a, s, n)
  BY <1>1, <1>2, <1>4, <1>9 DEF Others
<1>14. Others(f, s, n) /\ f.gui.nav[n].request = s.gui.nav[n].request /\ ~f.gui.closed
  <2>1. Others(f, s, n)
    BY <1>12, <1>13, OthersOfOthers
  <2>2. a.gui.nav[n] = q
    BY <1>1, <1>4, <1>9
  <2> QED BY <2>1, <2>2, <1>4, <1>6, <1>9, <1>12 DEF Alike
<1>15. r = f \/ r = RequestPage(f, s.gui.page.start)
  BY <1>2, <1>10, <1>11 DEF GiveUp
<1>16. CASE r = f
  BY <1>12, <1>14, <1>16
<1>17. CASE r = RequestPage(f, s.gui.page.start)
  <2>1. /\ Steady(r) /\ r.locates = f.locates /\ ~r.gui.closed /\ r.gui.nav = f.gui.nav
    BY <1>1, <1>12, <1>14, <1>17, RequestPageSteady
  <2> QED BY <2>1, <1>14 DEF Others
<1> QED BY <1>15, <1>16, <1>17

\* navigate_to_source_row: the row is gone to, or located first.
LEMMA LocateSteady ==
    ASSUME NEW s, Steady(s), ~s.gui.closed, NEW n \in Navigators, NEW row \in Rows,
           NEW r, r = Locate(s, n, row)
    PROVE  Steady(r) /\ ~r.gui.closed /\ Others(r, s, n) /\ Heard(r, n)
<1>1. PICK u : u = GiveUp(s, n)
  OBVIOUS
<1>2. Steady(u) /\ ~u.gui.closed /\ Others(u, s, n)
  BY <1>1, GiveUpSteady
<1>3. CASE u.gui.active = All
  <2>1. r = GoTo(u, n, row)
    BY <1>1, <1>3 DEF Locate
  <2>2. Steady(r) /\ ~r.gui.closed /\ Others(r, u, n) /\ Heard(r, n)
    BY <1>2, <2>1, GoToSteady
  <2> QED BY <1>2, <2>2, OthersOfOthers
<1>4. CASE u.gui.active # All
  <2>1. PICK t : t = [nav |-> n, generation |-> u.gui.nav[n].generation,
                      set |-> u.gui.active, row |-> row, state |-> "running"]
    OBVIOUS
  <2>2. PICK L : L = u.locates \cup {t}
    OBVIOUS
  <2>3. u \in States /\ u.gui \in Guis /\ u.gui.nav[n] \in Requests /\ u.locates \subseteq Locations
    BY <1>2 DEF Steady, States, Guis
  <2>4. t \in Locations
    BY <2>1, <2>3 DEF Locations, TaskStates, Guis, Requests
  <2>5. r = [u EXCEPT !.locates = L]
    BY <1>1, <1>4, <2>1, <2>2 DEF Locate
  <2>6. Steady(r) /\ r.gui = u.gui /\ r.locates = L
    BY <1>2, <2>2, <2>3, <2>4, <2>5, LocatesSteady
  <2>7. Others(r, u, n)
    BY <2>2, <2>6 DEF Others
  <2>8. t.nav = n /\ t.generation = r.gui.nav[n].generation /\ t \in r.locates
    BY <2>1, <2>2, <2>6
  <2>9. Heard(r, n)
    BY <2>8 DEF Heard
  <2> QED BY <1>2, <2>6, <2>7, <2>9, OthersOfOthers
<1> QED BY <1>3, <1>4

-----------------------------------------------------------------------------
(* The steps.                                                               *)

\* Who waited for a task or a page waits for it still.
LEMMA SameHeard ==
    ASSUME NEW r, NEW s, NEW n, Heard(s, n),
           r.gui.nav = s.gui.nav, r.locates = s.locates
    PROVE  Heard(r, n)
BY DEF Heard

\* A slot of navigator n leaves a sound state when n has an answer or waits.
LEMMA OthersSound ==
    ASSUME NEW s, Sound(s), NEW n \in Navigators, ~s.gui.closed,
           NEW r, Steady(r), Others(r, s, n), Heard(r, n)
    PROVE  Sound(r)
BY OthersHeard DEF Sound

\* A load that ends is still the load of its generation.
LEMMA EndLoadSound ==
    ASSUME NEW s, Sound(s), NEW l \in s.loads, NEW state \in TaskStates,
           NEW r, r = [s EXCEPT !.loads = (@ \ {l}) \cup {[l EXCEPT !.state = state]}]
    PROVE  Sound(r)
<1>1. PICK k : k = [l EXCEPT !.state = state]
  OBVIOUS
<1>2. s \in States /\ s.loads \subseteq Loads /\ l \in Loads
  BY DEF Sound, Steady, States
<1>3. k \in Loads /\ k.generation = l.generation /\ k.set = l.set
  BY <1>1, <1>2 DEF Loads
<1>4. r \in States /\ r.gui = s.gui /\ r.locates = s.locates /\ r.loads = (s.loads \ {l}) \cup {k}
  BY <1>1, <1>2, <1>3 DEF States
<1>5. Known(s) /\ Expected(s) /\ Loaded(s)
  BY DEF Sound, Steady
<1>6. Known(r)
  BY <1>3, <1>4, <1>5 DEF Known
<1>7. Expected(r)
  BY <1>3, <1>4, <1>5 DEF Expected
<1>8. Loaded(r)
  BY <1>3, <1>4, <1>5 DEF Loaded
<1>9. Steady(r)
  BY <1>4, <1>6, <1>7, <1>8 DEF Sound, Steady
<1>10. ~r.gui.closed => \A n \in Navigators : Heard(r, n)
  BY <1>4, SameHeard DEF Sound
<1> QED BY <1>9, <1>10 DEF Sound

\* The load of the state has ended, and the tab g shows so.
Rested(g, s) ==
    /\ g \in Guis /\ ~g.loading /\ ~g.closed /\ Exact(g) /\ Asked(g)
    /\ g.rendered = g.generation /\ g.generation = s.gui.generation
    /\ g.nav = s.gui.nav /\ g.active = s.gui.active

\* poll shows the page of the current load, or that it failed.
LEMMA PollSound ==
    ASSUME NEW s, Sound(s), ~s.gui.closed, NEW l \in s.loads, l.state # "running",
           l.generation = s.gui.generation,
           NEW page, page = Page(l.set, l.start),
           NEW g, g = IF l.state = "failed"
                         THEN [s.gui EXCEPT !.loading = FALSE, !.error = TRUE]
                         ELSE [s.gui EXCEPT !.loading = FALSE, !.error = FALSE, !.page = page,
                                            !.opened = TRUE, !.start = page.start],
           NEW r, r = [gui |-> Show(g), loads |-> {k \in s.loads : k.state = "running"},
                       locates |-> s.locates]
    PROVE  Sound(r)
<1>1. /\ s \in States /\ s.gui \in Guis /\ s.loads \subseteq Loads /\ s.locates \subseteq Locations
      /\ Known(s) /\ Expected(s) /\ Shown(s.gui) /\ Asked(s.gui) /\ Pends(s.gui)
  BY DEF Sound, Steady, States
<1>2. l \in Loads /\ s.gui.loading /\ l.set = s.gui.active
  BY <1>1 DEF Expected
<1>3. page \in Pages /\ page = Page(s.gui.active, page.start)
  BY <1>2, PageType DEF Loads
<1>4. s.gui.generation # s.gui.rendered
  BY <1>1, <1>2 DEF Shown
<1>5. PICK h : h = Show(g)
  OBVIOUS
<1>6. ASSUME l.state = "failed"
      PROVE  Rested(h, s)
  <2>1. g = [s.gui EXCEPT !.loading = FALSE, !.error = TRUE]
    BY <1>6
  <2>2. g \in Guis /\ ~g.loading /\ g.error /\ g.generation # g.rendered
    BY <1>1, <1>4, <2>1 DEF Guis
  <2>3. h = [g EXCEPT !.rendered = g.generation]
    BY <1>5, <2>2 DEF Show
  <2>4. /\ h \in Guis /\ ~h.loading /\ h.error /\ ~h.closed
        /\ h.rendered = h.generation /\ h.generation = s.gui.generation
        /\ h.rows = s.gui.rows /\ h.selection = s.gui.selection
        /\ h.nav = s.gui.nav /\ h.active = s.gui.active
    BY <1>1, <2>1, <2>2, <2>3 DEF Guis
  <2>5. Exact(h) /\ Asked(h)
    BY <1>1, <2>4 DEF Exact, Asked
  <2> QED BY <2>4, <2>5 DEF Rested
<1>7. ASSUME l.state # "failed"
      PROVE  Rested(h, s)
  <2>1. g = [s.gui EXCEPT !.loading = FALSE, !.error = FALSE, !.page = page,
                          !.opened = TRUE, !.start = page.start]
    BY <1>7
  <2>2. /\ g \in Guis /\ ~g.loading /\ ~g.error /\ g.generation # g.rendered
        /\ g.page = page /\ g.start = page.start
    BY ZenonT(40), <1>1, <1>3, <1>4, <2>1 DEF Guis, Pages
  <2>3. h = [g EXCEPT !.rendered = g.generation, !.rows = g.page.rows, !.selection = NoSelection]
    BY <1>5, <2>2 DEF Show
  <2>4. NoSelection \in Selections /\ page.rows \in Seq(Rows)
    BY <1>3, StoredAssumption DEF NoSelection, Selections, Pages
  <2>5. /\ h \in Guis /\ ~h.loading /\ ~h.closed
        /\ h.rendered = h.generation /\ h.generation = s.gui.generation
        /\ h.rows = page.rows /\ h.selection = NoSelection /\ h.page = page
        /\ h.start = page.start /\ h.nav = s.gui.nav /\ h.active = s.gui.active
    BY <1>1, <2>1, <2>2, <2>3, <2>4 DEF Guis
  <2>6. Exact(h) /\ Asked(h)
    BY <1>3, <2>5 DEF Exact, Asked
  <2> QED BY <2>5, <2>6 DEF Rested
<1>8. Rested(h, s)
  BY <1>6, <1>7
<1>9. PICK L : L = {k \in s.loads : k.state = "running"}
  OBVIOUS
<1>10. r \in States /\ r.gui = h /\ r.loads = L /\ r.locates = s.locates
  BY <1>1, <1>5, <1>8, <1>9 DEF Rested, States
<1>11. l \notin L /\ L \subseteq s.loads
  BY <1>9
<1>12. \A k \in L : k.generation # s.gui.generation
  BY <1>1, <1>11 DEF Known
<1>13. Known(r)
  BY <1>1, <1>8, <1>10, <1>11 DEF Known, Rested
<1>14. Expected(r)
  BY <1>8, <1>10, <1>12 DEF Expected, Rested
<1>15. Loaded(r)
  BY <1>8, <1>10 DEF Loaded, Rested
<1>16. Shown(h) /\ Pends(h)
  <2>1. h.generation \in Nat
    BY <1>8 DEF Rested, Guis
  <2> QED BY <2>1, <1>1, <1>8 DEF Rested, Shown, Pends
<1>17. Steady(r)
  BY <1>8, <1>10, <1>13, <1>14, <1>15, <1>16 DEF Rested, Steady
<1>18. \A n \in Navigators : Heard(r, n)
  BY <1>8, <1>10, SameHeard DEF Rested, Sound
<1> QED BY <1>17, <1>18 DEF Sound

\* Loads that are out of date are no load that is waited for.
LEMMA PollStaleSound ==
    ASSUME NEW s, Sound(s), NEW L, L = {k \in s.loads : k.state = "running"},
           \A l \in s.loads : l.generation = s.gui.generation => l.state = "running",
           NEW r, r = [s EXCEPT !.loads = L]
    PROVE  Sound(r)
<1>1. s \in States /\ Known(s) /\ Expected(s) /\ Loaded(s)
  BY DEF Sound, Steady
<1>2. r \in States /\ r.gui = s.gui /\ r.locates = s.locates /\ r.loads = L
  BY <1>1 DEF States
<1>3. Known(r) /\ Expected(r)
  BY <1>1, <1>2 DEF Known, Expected
<1>4. Loaded(r)
  BY <1>1, <1>2 DEF Loaded
<1>5. Steady(r)
  BY <1>2, <1>3, <1>4 DEF Sound, Steady
<1>6. ~r.gui.closed => \A n \in Navigators : Heard(r, n)
  BY <1>2, SameHeard DEF Sound
<1> QED BY <1>5, <1>6 DEF Sound

\* Other filters, and the first of their pages.
LEMMA FiltersSound ==
    ASSUME NEW s, Sound(s), ~s.gui.closed,
           NEW g \in Guis,
           g.generation = s.gui.generation, g.rendered = s.gui.rendered,
           g.nav = s.gui.nav, g.closed = s.gui.closed,
           g.selection = s.gui.selection, g.rows = s.gui.rows,
           NEW start \in Nat,
           NEW r, r = Submit([s EXCEPT !.gui = g], start)
    PROVE  Sound(r)
<1>1. PICK u : u = [s EXCEPT !.gui = g]
  OBVIOUS
<1>2. s \in States
  BY DEF Sound, Steady
<1>3. u \in States /\ u.gui = g /\ u.loads = s.loads /\ u.locates = s.locates
  BY <1>1, <1>2 DEF States
<1>4. Ready(u)
  BY <1>3 DEF Sound, Steady, Known, Asked, Shown, Pends, Ready
<1>5. Steady(r) /\ r.locates = u.locates /\ ~r.gui.closed /\ r.gui.nav = u.gui.nav
  BY ZenonT(40), <1>1, <1>4, SubmitSteady
<1> QED BY <1>3, <1>5, SameHeard DEF Sound

\* Filters that are not in force may change.
LEMMA AvailableSound ==
    ASSUME NEW s, Sound(s), NEW set \in Presets,
           NEW r, r = [s EXCEPT !.gui = [s.gui EXCEPT !.available = set]]
    PROVE  Sound(r)
<1>1. s \in States /\ s.gui \in Guis
  BY DEF Sound, Steady, States
<1>2. PICK g : g = [s.gui EXCEPT !.available = set]
  OBVIOUS
<1>3. /\ g \in Guis /\ g.nav = s.gui.nav
      /\ g.generation = s.gui.generation /\ g.loading = s.gui.loading /\ g.error = s.gui.error
      /\ g.active = s.gui.active /\ g.rendered = s.gui.rendered /\ g.start = s.gui.start
      /\ g.rows = s.gui.rows /\ g.closed = s.gui.closed /\ g.page = s.gui.page
      /\ g.selection = s.gui.selection
  BY <1>1, <1>2 DEF Guis
<1>4. r \in States /\ r.gui = g /\ r.loads = s.loads /\ r.locates = s.locates
  BY <1>1, <1>2, <1>3 DEF States
<1>5. Known(s) /\ Expected(s) /\ Loaded(s) /\ Shown(s.gui) /\ Exact(s.gui) /\ Asked(s.gui)
      /\ Pends(s.gui)
  BY DEF Sound, Steady
<1>6. Known(r) /\ Expected(r) /\ Loaded(r)
  BY <1>3, <1>4, <1>5 DEF Known, Expected, Loaded
<1>7. Shown(g) /\ Exact(g) /\ Asked(g) /\ Pends(g)
  BY <1>3, <1>5 DEF Shown, Exact, Asked, Pends
<1>8. Steady(r)
  BY <1>4, <1>6, <1>7 DEF Steady
<1>9. ~r.gui.closed => \A n \in Navigators : Heard(r, n)
  BY <1>3, <1>4, SameHeard DEF Sound
<1> QED BY <1>8, <1>9 DEF Sound

\* A tab that is closed waits for nothing, and keeps what it shows.
LEMMA CloseSound ==
    ASSUME NEW s, Sound(s),
           NEW r, r = [gui |-> [s.gui EXCEPT !.closed = TRUE, !.generation = @ + 1],
                       loads |-> {}, locates |-> {}]
    PROVE  Sound(r)
<1>1. s \in States /\ s.gui \in Guis /\ s.gui.generation \in Nat /\ s.gui.rendered \in Nat
  BY DEF Sound, Steady, States, Guis
<1>2. PICK new : new = s.gui.generation + 1
  OBVIOUS
<1>3. new \in Nat \ {0} /\ new > s.gui.generation
  BY <1>1, <1>2
<1>4. PICK g : g = [s.gui EXCEPT !.closed = TRUE, !.generation = new]
  OBVIOUS
<1>5. /\ g \in Guis /\ g.nav = s.gui.nav /\ g.generation = new /\ g.closed
      /\ g.rows = s.gui.rows /\ g.selection = s.gui.selection /\ g.rendered = s.gui.rendered
  BY <1>1, <1>3, <1>4 DEF Guis
<1>6. r \in States /\ r.gui = g /\ r.loads = {} /\ r.locates = {}
  BY <1>2, <1>4, <1>5 DEF States
<1>7. Known(r) /\ Expected(r) /\ Loaded(r)
  BY <1>5, <1>6 DEF Known, Expected, Loaded
<1>8. Exact(g) /\ Asked(g)
  BY <1>5 DEF Sound, Steady, Exact, Asked
<1>9. Shown(g)
  <2>1. s.gui.rendered <= s.gui.generation
    BY DEF Sound, Steady, Shown
  <2> QED BY <2>1, <1>1, <1>3, <1>5 DEF Shown
<1>10. Pends(g)
  <2> SUFFICES ASSUME NEW n \in Navigators
               PROVE  g.nav[n].pending <= g.generation /\ g.nav[n].pending # g.generation
    BY DEF Pends
  <2>1. s.gui.nav[n].pending \in Nat
    BY <1>1 DEF Guis, Requests
  <2>2. s.gui.nav[n].pending <= s.gui.generation
    BY DEF Sound, Steady, Pends
  <2> QED BY <2>1, <2>2, <1>1, <1>3, <1>5
<1> QED BY <1>5, <1>6, <1>7, <1>8, <1>9, <1>10 DEF Sound, Steady

\* A task that has been taken off leaves only its own navigator without it.
LEMMA TakenSteady ==
    ASSUME NEW s, Sound(s), NEW t \in s.locates,
           NEW r, r = [s EXCEPT !.locates = @ \ {t}]
    PROVE  Steady(r) /\ r.gui = s.gui /\ r.locates = s.locates \ {t} /\ Others(r, s, t.nav)
<1>1. s.locates \ {t} \in SUBSET Locations
  BY DEF Sound, Steady, States
<1>2. Steady(s)
  BY DEF Sound
<1>3. Steady(r) /\ r.gui = s.gui /\ r.locates = s.locates \ {t}
  <2>1. r = [s EXCEPT !.locates = s.locates \ {t}]
    BY <1>2 DEF Steady, States
  <2> QED BY <2>1, <1>1, <1>2, LocatesSteady
<1> QED BY <1>3 DEF Others

\* What navigate_to_source_row does first: the request waits.
Ask(s, n) == [s EXCEPT !.gui.nav[n].request = "waiting"]

LEMMA AskSteady ==
    ASSUME NEW s, Steady(s), ~s.gui.closed, NEW n \in Navigators,
           NEW r, r = Ask(s, n)
    PROVE  Steady(r) /\ ~r.gui.closed /\ Others(r, s, n)
<1>1. s \in States /\ s.gui \in Guis /\ s.gui.nav \in [Navigators -> Requests]
      /\ s.gui.nav[n] \in Requests
  BY DEF Steady, States, Guis
<1>2. PICK q : q = [s.gui.nav[n] EXCEPT !.request = "waiting"]
  OBVIOUS
<1>3. q \in Requests /\ q.pending = s.gui.nav[n].pending /\ q.row = s.gui.nav[n].row
  BY <1>1, <1>2 DEF Requests
<1>4. Fitting(q, s.gui)
  BY <1>3 DEF Steady, Pends, Fitting
<1>5. r = WithRequest(s, n, q)
  BY <1>1, <1>2 DEF Ask, WithRequest, States, Guis
<1>6. /\ Steady(r) /\ Alike(r, s) /\ r.locates = s.locates
      /\ r.gui.nav = [s.gui.nav EXCEPT ![n] = q]
  BY <1>4, <1>5, RequestSteady
<1> QED BY <1>1, <1>6 DEF Alike, Others

\* navigate_to_source_row
LEMMA NavigateSound ==
    ASSUME NEW s, Sound(s), ~s.gui.closed, NEW n \in Navigators, NEW row \in Rows,
           NEW r, r = Locate(Ask(s, n), n, row)
    PROVE  Sound(r)
<1>1. PICK u : u = Ask(s, n)
  OBVIOUS
<1>2. Steady(u) /\ ~u.gui.closed /\ Others(u, s, n)
  BY <1>1, AskSteady DEF Sound
<1>3. r = Locate(u, n, row)
  BY <1>1
<1>4. Steady(r) /\ ~r.gui.closed /\ Others(r, u, n) /\ Heard(r, n)
  BY <1>2, <1>3, LocateSteady
<1>5. Others(r, s, n)
  BY <1>2, <1>4, OthersOfOthers
<1> QED BY <1>4, <1>5, OthersSound

\* navigate_to_source_row, when the row cannot be read.
LEMMA NavigateFailsSound ==
    ASSUME NEW s, Sound(s), ~s.gui.closed, NEW n \in Navigators,
           NEW r, r = Answer(GiveUp(Ask(s, n), n), n, "failed")
    PROVE  Sound(r)
<1>1. PICK u : u = Ask(s, n)
  OBVIOUS
<1>2. Steady(u) /\ ~u.gui.closed /\ Others(u, s, n)
  BY <1>1, AskSteady DEF Sound
<1>3. PICK v : v = GiveUp(u, n)
  OBVIOUS
<1>4. Steady(v) /\ ~v.gui.closed /\ Others(v, u, n)
  BY <1>2, <1>3, GiveUpSteady
<1>5. r = Answer(v, n, "failed")
  BY <1>1, <1>3
<1>6. Steady(r) /\ Others(r, v, n) /\ Heard(r, n)
  BY <1>4, <1>5, AnswerSteady
<1>7. Others(r, s, n)
  BY <1>2, <1>4, <1>6, OthersOfOthers
<1> QED BY <1>6, <1>7, OthersSound

\* cancel
LEMMA CancelSound ==
    ASSUME NEW s, Sound(s), ~s.gui.closed, NEW n \in Navigators,
           NEW r, r = GiveUp(Answer(s, n, "failed"), n)
    PROVE  Sound(r)
<1>1. PICK u : u = Answer(s, n, "failed")
  OBVIOUS
<1>2. Steady(u) /\ ~u.gui.closed /\ Others(u, s, n) /\ u.gui.nav[n].request # "waiting"
  <2>1. Steady(s)
    BY DEF Sound
  <2> QED BY SMTT(30), <1>1, <2>1, AnswerSteady DEF Alike
<1>3. r = GiveUp(u, n)
  BY <1>1
<1>4. Steady(r) /\ Others(r, u, n) /\ r.gui.nav[n].request # "waiting"
  BY <1>2, <1>3, GiveUpSteady
<1>5. Others(r, s, n) /\ Heard(r, n)
  BY <1>2, <1>4, OthersOfOthers DEF Heard
<1> QED BY <1>4, <1>5, OthersSound

\* The location of a row arrives: it is gone to, looked up again, or failed.
LEMMA ArriveSound ==
    ASSUME NEW s, Sound(s), ~s.gui.closed, NEW t \in s.locates,
           NEW u, u = [s EXCEPT !.locates = @ \ {t}],
           NEW r, r \in {GoTo(u, t.nav, t.row), Locate(u, t.nav, t.row), Answer(u, t.nav, "failed")}
    PROVE  Sound(r)
<1>1. Steady(u) /\ u.gui = s.gui /\ Others(u, s, t.nav)
  BY TakenSteady
<1>2. t.nav \in Navigators /\ t.row \in Rows
  BY DEF Sound, Steady, States, Locations
<1>3. Steady(r) /\ Others(r, u, t.nav) /\ Heard(r, t.nav)
  <2>1. CASE r = GoTo(u, t.nav, t.row)
    BY <1>1, <1>2, <2>1, GoToSteady
  <2>2. CASE r = Locate(u, t.nav, t.row)
    BY <1>1, <1>2, <2>2, LocateSteady
  <2>3. CASE r = Answer(u, t.nav, "failed")
    BY <1>1, <1>2, <2>3, AnswerSteady
  <2> QED BY <2>1, <2>2, <2>3
<1>4. Others(r, s, t.nav)
  BY <1>1, <1>3, OthersOfOthers
<1> QED BY <1>2, <1>3, <1>4, OthersSound

\* Nobody waits for a location that is out of date.
LEMMA StaleSound ==
    ASSUME NEW s, Sound(s), NEW t \in s.locates, t.generation # s.gui.nav[t.nav].generation,
           NEW r, r = [s EXCEPT !.locates = @ \ {t}]
    PROVE  Sound(r)
<1>1. Steady(r) /\ r.gui = s.gui /\ r.locates = s.locates \ {t}
  BY TakenSteady
<1>2. ASSUME ~s.gui.closed, NEW n \in Navigators
      PROVE  Heard(r, n)
  BY <1>1, <1>2 DEF Sound, Heard
<1> QED BY <1>1, <1>2 DEF Sound

\* _check_pending_page: the page was replaced, failed, or has the row.
LEMMA PendingSound ==
    ASSUME NEW s, Sound(s), ~s.gui.closed, NEW n \in Navigators,
           NEW u, u = Forget(s, n),
           NEW row, row = s.gui.nav[n].row,
           NEW place, place = Place(s.gui.active, row),
           NEW start, start = PageOf(place),
           NEW r,
           \/ r = Answer(u, n, "dropped")
           \/ r = Answer(u, n, "failed")
           \/ /\ s.gui.nav[n].pending = s.gui.generation /\ ~s.gui.loading /\ ~s.gui.error
              /\ s.gui.page.start = start
              /\ r = Select(u, n, row, place - start)
    PROVE  Sound(r)
<1>1. /\ Steady(u) /\ Alike(u, s) /\ Others(u, s, n) /\ ~u.gui.closed
  BY ForgetSteady DEF Sound, Alike
<1>2. Steady(r) /\ Others(r, u, n) /\ Heard(r, n)
  <2>1. CASE r = Answer(u, n, "dropped")
    BY <1>1, <2>1, AnswerSteady
  <2>2. CASE r = Answer(u, n, "failed")
    BY <1>1, <2>2, AnswerSteady
  <2>3. CASE /\ s.gui.nav[n].pending = s.gui.generation /\ ~s.gui.loading /\ ~s.gui.error
             /\ s.gui.page.start = start
             /\ r = Select(u, n, row, place - start)
    <3>1. s.gui.active \in Presets /\ s.gui.active \subseteq Rows
      BY StoredAssumption DEF Sound, Steady, States, Guis
    <3>2. row \in s.gui.active /\ row \in Nat
      <4>1. row \in s.gui.active
        BY <2>3 DEF Sound, Steady, Pends
      <4> QED BY <3>1, <4>1, SetOfRows
    <3>3. place \in Nat
      BY <3>1, SetOfRows, FS_Subset, FS_CardinalityType DEF Place
    <3>4. start \in Nat /\ start <= place
      BY <3>3, PageStarts
    <3>5. place - start \in Nat
      BY <3>3, <3>4
    <3>6. ASSUME place - start < Len(u.gui.rows)
          PROVE  u.gui.rows[(place - start) + 1] = row
      <4>1. /\ s.gui.page = Page(s.gui.active, start) /\ s.gui.page.start = start
            /\ s.gui.rows = s.gui.page.rows
        BY <2>3 DEF Sound, Steady, Exact
      <4>2. u.gui.rows = s.gui.page.rows
        BY <1>1, <4>1 DEF Alike
      <4>3. place - start < Len(s.gui.page.rows)
        BY <3>6, <4>2
      <4>4. s.gui.page.rows[(place - start) + 1] = row
        BY <3>1, <3>2, <4>1, <4>3, PageHasRow
      <4> QED BY <4>2, <4>4
    <3> QED BY <1>1, <2>3, <3>2, <3>5, <3>6, SelectSteady
  <2> QED BY <2>1, <2>2, <2>3
<1>3. Others(r, s, n)
  BY <1>1, <1>2, OthersOfOthers
<1> QED BY <1>2, <1>3, OthersSound

\* A tab opens with a load of its first page.
LEMMA InitSound == Init => TypeOK /\ StoredIInv
<1> SUFFICES ASSUME Init PROVE TypeOK /\ StoredIInv
  OBVIOUS
<1>1. All \in Presets /\ Presets \subseteq SUBSET Rows /\ Frames \in Nat
  BY StoredAssumption
<1>2. presets \in Presets /\ inputs = 0 /\ edits = 0 /\ failures = 0
  BY DEF Init
<1>3. NoPage \in Pages /\ NoSelection \in Selections /\ Resting \in Requests
  BY <1>1 DEF NoPage, Pages, NoSelection, Selections, Resting, Requests
<1>4. gui = [generation |-> 1, start |-> 0, loading |-> TRUE, error |-> FALSE,
             page |-> NoPage, opened |-> FALSE, enabled |-> FALSE,
             available |-> presets, active |-> All, rows |-> <<>>, rendered |-> 0,
             selection |-> NoSelection, closed |-> FALSE,
             nav |-> [n \in Navigators |-> Resting]]
  BY DEF Init
<1>5. gui \in Guis
  BY <1>1, <1>2, <1>3, <1>4 DEF Guis
<1>6. loads = {[generation |-> 1, set |-> All, start |-> 0, state |-> "running"]} /\ locates = {}
  BY <1>4 DEF Init, Load
<1>7. TypeOK
  BY <1>1, <1>2, <1>5, <1>6 DEF TypeOK, Loads, TaskStates
<1>8. LoadsInv
  BY <1>4, <1>6 DEF LoadsInv, Current
<1>9. ShownInv /\ PendingInv
  BY <1>4 DEF ShownInv, PendingInv, Resting
<1>10. PageIsExact /\ SelectionIsAsked
  BY <1>4 DEF PageIsExact, SelectionIsAsked
<1>11. NobodyWaitsInVain
  BY <1>4, <1>6 DEF NobodyWaitsInVain, Waiting, Current, Resting
<1> QED BY <1>7, <1>8, <1>9, <1>10, <1>11 DEF StoredIInv

\* Every action puts those operations together.
LEMMA NextSound ==
    ASSUME TypeOK, StoredIInv, Next
    PROVE  (TypeOK /\ StoredIInv)'
<1>1. PICK s : s = State
  OBVIOUS
<1>2. Sound(s) /\ presets \in Presets /\ inputs \in Nat /\ edits \in Nat /\ failures \in Nat
  BY <1>1, InvariantOfState
<1>3. /\ s.gui = gui /\ s.loads = loads /\ s.locates = locates
      /\ s = [gui |-> gui, loads |-> loads, locates |-> locates] /\ s \in States /\ gui \in Guis
  BY <1>1, <1>2 DEF State, Sound, Steady, States
<1>4. ASSUME NEW r, Sound(r), Becomes(r), presets' \in Presets,
             inputs' \in {inputs, inputs + 1}, edits' \in {edits, edits + 1},
             failures' \in {failures, failures + 1}
      PROVE  (TypeOK /\ StoredIInv)'
  BY <1>2, <1>4, Becoming
<1>5. CASE Poll
  <2>1. PICK l \in EndedLoad :
           LET page == Page(l.set, l.start)
               g == IF l.state = "failed"
                       THEN [gui EXCEPT !.loading = FALSE, !.error = TRUE]
                       ELSE [gui EXCEPT !.loading = FALSE, !.error = FALSE, !.page = page,
                                        !.opened = TRUE, !.start = page.start]
           IN gui' = Show(g)
    BY <1>5 DEF Poll
  <2>2. PICK page : page = Page(l.set, l.start)
    OBVIOUS
  <2>3. PICK g : g = IF l.state = "failed"
                        THEN [s.gui EXCEPT !.loading = FALSE, !.error = TRUE]
                        ELSE [s.gui EXCEPT !.loading = FALSE, !.error = FALSE, !.page = page,
                                           !.opened = TRUE, !.start = page.start]
    OBVIOUS
  <2>4. gui' = Show(g)
    BY <2>1, <2>2, <2>3, <1>3
  <2>5. l \in s.loads /\ l.state # "running" /\ l.generation = s.gui.generation
    BY <1>3 DEF EndedLoad, Current
  <2>6. PICK r : r = [gui |-> Show(g), loads |-> {k \in s.loads : k.state = "running"},
                      locates |-> s.locates]
    OBVIOUS
  <2>7. ~s.gui.closed
    BY <1>3, <1>5 DEF Poll, Timer
  <2>8. Sound(r)
    BY <1>2, <2>2, <2>3, <2>5, <2>6, <2>7, PollSound
  <2>9. Becomes(r)
    BY <1>3, <1>5, <2>4, <2>6 DEF Poll, Unended, Becomes
  <2> QED BY <1>2, <1>4, <1>5, <2>8, <2>9 DEF Poll, Timer, bounds
<1>6. CASE PollStale
  <2>1. PICK L : L = {k \in s.loads : k.state = "running"}
    OBVIOUS
  <2>2. PICK r : r = [s EXCEPT !.loads = L]
    OBVIOUS
  <2>3. \A l \in s.loads : l.generation = s.gui.generation => l.state = "running"
    BY <1>3, <1>6 DEF PollStale, EndedLoad, Current
  <2>4. Sound(r)
    BY <1>2, <2>1, <2>2, <2>3, PollStaleSound
  <2>5. Becomes(r)
    BY <1>3, <1>6, <2>1, <2>2 DEF PollStale, Unended, Becomes
  <2> QED BY <1>2, <1>4, <1>6, <2>4, <2>5 DEF PollStale, Timer, bounds
<1>7. CASE EndLoad
  <2>1. PICK l \in InHand, state \in {"done", "failed"} :
           loads' = (loads \ {l}) \cup {[l EXCEPT !.state = state]}
    BY <1>7 DEF EndLoad
  <2>2. l \in s.loads /\ state \in TaskStates
    BY <1>3 DEF InHand, Running, TaskStates
  <2>3. PICK r : r = [s EXCEPT !.loads = (@ \ {l}) \cup {[l EXCEPT !.state = state]}]
    OBVIOUS
  <2>4. Sound(r)
    BY <1>2, <2>2, <2>3, EndLoadSound
  <2>5. Becomes(r)
    BY <1>3, <1>7, <2>1, <2>3 DEF EndLoad, Becomes
  <2> QED BY <1>2, <1>4, <1>7, <2>4, <2>5 DEF EndLoad
<1>8. CASE EndLocate
  <2>1. PICK t \in locates, state \in {"done", "failed"} :
           locates' = (locates \ {t}) \cup {[t EXCEPT !.state = state]}
    BY <1>8 DEF EndLocate
  <2>2. PICK k : k = [t EXCEPT !.state = state]
    OBVIOUS
  <2>3. t \in s.locates /\ t \in Locations /\ s.locates \subseteq Locations
    BY <1>3 DEF States
  <2>4. k \in Locations /\ k.nav = t.nav /\ k.generation = t.generation
    BY <2>2, <2>3 DEF Locations, TaskStates
  <2>5. PICK L : L = (s.locates \ {t}) \cup {k}
    OBVIOUS
  <2>6. PICK r : r = [s EXCEPT !.locates = L]
    OBVIOUS
  <2>7. Steady(r) /\ r.gui = s.gui /\ r.locates = L
    BY <1>2, <2>3, <2>4, <2>5, <2>6, LocatesSteady DEF Sound
  <2>8. ASSUME ~s.gui.closed, NEW n \in Navigators
        PROVE  Heard(r, n)
    BY <1>2, <2>4, <2>5, <2>7, <2>8 DEF Sound, Heard
  <2>9. Sound(r)
    BY <2>7, <2>8 DEF Sound
  <2>10. Becomes(r)
    <3>1. r.gui = gui /\ r.loads = loads /\ r.locates = L
      BY <1>3, <2>6
    <3>2. locates' = L
      BY <1>3, <2>1, <2>2, <2>5
    <3> QED BY <1>8, <3>1, <3>2 DEF EndLocate, Becomes
  <2> QED BY <1>2, <1>4, <1>8, <2>9, <2>10 DEF EndLocate
<1>9. CASE EditPresets
  <2>1. Becomes(s)
    BY <1>3, <1>9 DEF EditPresets, Becomes
  <2> QED BY <1>2, <1>4, <1>9, <2>1 DEF EditPresets
<1>10. CASE CloseTab
  <2>1. PICK r : r = [gui |-> [s.gui EXCEPT !.closed = TRUE, !.generation = @ + 1],
                      loads |-> {}, locates |-> {}]
    OBVIOUS
  <2>2. Sound(r)
    BY <1>2, <2>1, CloseSound
  <2>3. Becomes(r)
    BY <1>3, <1>10, <2>1 DEF CloseTab, Becomes
  <2> QED BY <1>2, <1>4, <1>10, <2>2, <2>3 DEF CloseTab, bounds
<1>11. CASE ToggleFilters
  <2>1. PICK on : on = ~gui.enabled
    OBVIOUS
  <2>2. PICK g : g = [gui EXCEPT !.enabled = on, !.active = IF on THEN gui.available ELSE All]
    OBVIOUS
  <2>3. PICK r : r = Submit([s EXCEPT !.gui = g], 0)
    OBVIOUS
  <2>4. Becomes(r)
    BY <1>1, <1>11, <2>1, <2>2, <2>3 DEF ToggleFilters
  <2>5. /\ g \in Guis /\ g.generation = gui.generation /\ g.rendered = gui.rendered
        /\ g.nav = gui.nav /\ g.closed = gui.closed
        /\ g.selection = gui.selection /\ g.rows = gui.rows
    BY ZenonT(40), <1>3, <2>1, <2>2, StoredAssumption DEF Guis
  <2>6. ~s.gui.closed
    BY <1>3, <1>11 DEF ToggleFilters, Input
  <2>7. Sound(r)
    BY <1>2, <1>3, <2>3, <2>5, <2>6, FiltersSound
  <2> QED BY <1>2, <1>4, <1>11, <2>4, <2>7 DEF ToggleFilters, Input
<1>12. CASE ReloadFilters
  <2>1. PICK g : g = [gui EXCEPT !.available = presets]
    OBVIOUS
  <2>2. g \in Guis /\ ~s.gui.closed
    BY <1>2, <1>3, <1>12, <2>1 DEF Guis, ReloadFilters, Timer
  <2>3. CASE gui.enabled
    <3>1. PICK h : h = [g EXCEPT !.active = presets]
      OBVIOUS
    <3>2. PICK r : r = Submit([s EXCEPT !.gui = h], 0)
      OBVIOUS
    <3>3. Becomes(r)
      BY <1>1, <1>12, <2>1, <2>3, <3>1, <3>2 DEF ReloadFilters
    <3>4. /\ h \in Guis /\ h.generation = gui.generation /\ h.rendered = gui.rendered
          /\ h.nav = gui.nav /\ h.closed = gui.closed
          /\ h.selection = gui.selection /\ h.rows = gui.rows
      BY <1>2, <1>3, <2>1, <2>2, <3>1 DEF Guis
    <3>5. Sound(r)
      BY <1>2, <1>3, <2>2, <3>2, <3>4, FiltersSound
    <3> QED BY <1>2, <1>4, <1>12, <3>3, <3>5 DEF ReloadFilters, Timer, bounds
  <2>4. CASE ~gui.enabled
    <3>1. PICK r : r = [s EXCEPT !.gui = [s.gui EXCEPT !.available = presets]]
      OBVIOUS
    <3>2. Becomes(r)
      BY <1>3, <1>12, <2>1, <2>4, <3>1 DEF ReloadFilters, Becomes
    <3>3. Sound(r)
      BY <1>2, <3>1, AvailableSound
    <3> QED BY <1>2, <1>4, <1>12, <3>2, <3>3 DEF ReloadFilters, Timer, bounds
  <2> QED BY <2>3, <2>4
<1>13. CASE TurnPage
  <2>1. PICK start \in {0, Less(gui.start, PageSize), LastPage(gui.page.visible),
                        Min2(LastPage(gui.page.visible), gui.start + PageSize)} :
           Becomes(RequestPage(State, start))
    BY <1>13 DEF TurnPage
  <2>2. start \in Nat
    <3>1. gui.start \in Nat /\ gui.page.visible \in Nat /\ PageSize \in Nat
      BY <1>3, StoredAssumption DEF Guis, Pages
    <3>2. LastPage(gui.page.visible) \in Nat
      BY <3>1, LastPageType
    <3> QED BY <3>1, <3>2 DEF Less, Min2
  <2>3. ~s.gui.closed
    BY <1>3, <1>13 DEF TurnPage, Input
  <2>4. PICK r : r = RequestPage(s, start)
    OBVIOUS
  <2>5. Steady(r) /\ r.locates = s.locates /\ ~r.gui.closed /\ r.gui.nav = s.gui.nav
    BY <1>2, <2>2, <2>3, <2>4, RequestPageSteady DEF Sound
  <2>6. Sound(r)
    BY <1>2, <2>3, <2>5, SameHeard DEF Sound
  <2> QED BY <1>1, <1>2, <1>4, <1>13, <2>1, <2>4, <2>6 DEF TurnPage, Input
<1>14. ASSUME NEW n \in Navigators, Navigate(n)
       PROVE  (TypeOK /\ StoredIInv)'
  <2>1. PICK row \in Rows :
           Becomes(Locate([State EXCEPT !.gui.nav[n].request = "waiting"], n, row))
    BY <1>14 DEF Navigate
  <2>2. PICK r : r = Locate(Ask(s, n), n, row)
    OBVIOUS
  <2>3. Becomes(r)
    BY <1>1, <2>1, <2>2 DEF Ask
  <2>4. ~s.gui.closed
    BY <1>3, <1>14 DEF Navigate, Input
  <2>5. Sound(r)
    BY <1>2, <2>2, <2>4, NavigateSound
  <2> QED BY <1>2, <1>4, <1>14, <2>3, <2>5 DEF Navigate, Input
<1>15. ASSUME NEW n \in Navigators, NavigateFails(n)
       PROVE  (TypeOK /\ StoredIInv)'
  <2>1. PICK r : r = Answer(GiveUp(Ask(s, n), n), n, "failed")
    OBVIOUS
  <2>2. Becomes(r)
    BY <1>1, <1>15, <2>1 DEF NavigateFails, Ask
  <2>3. ~s.gui.closed
    BY <1>3, <1>15 DEF NavigateFails
  <2>4. Sound(r)
    BY <1>2, <2>1, <2>3, NavigateFailsSound
  <2> QED BY <1>2, <1>4, <1>15, <2>2, <2>4 DEF NavigateFails
<1>16. ASSUME NEW n \in Navigators, CancelNavigation(n)
       PROVE  (TypeOK /\ StoredIInv)'
  <2>1. PICK r : r = GiveUp(Answer(s, n, "failed"), n)
    OBVIOUS
  <2>2. Becomes(r) /\ ~s.gui.closed
    BY <1>1, <1>3, <1>16, <2>1 DEF CancelNavigation, Input
  <2>3. Sound(r)
    BY <1>2, <2>1, <2>2, CancelSound
  <2> QED BY <1>2, <1>4, <1>16, <2>2, <2>3 DEF CancelNavigation, Input
<1>17. CASE LocationReady
  <2>1. PICK t \in s.locates : Arrive(t)
    BY <1>3, <1>17 DEF LocationReady
  <2>2. PICK u : u = [s EXCEPT !.locates = @ \ {t}]
    OBVIOUS
  <2>3. PICK r \in {GoTo(u, t.nav, t.row), Locate(u, t.nav, t.row)} : Becomes(r)
    BY <1>1, <2>1, <2>2 DEF Arrive, Taken
  <2>4. ~s.gui.closed
    BY <1>3, <1>17 DEF LocationReady, Timer
  <2>5. Sound(r)
    BY <1>2, <2>2, <2>3, <2>4, ArriveSound
  <2> QED BY <1>2, <1>4, <1>17, <2>3, <2>5 DEF LocationReady, Timer, bounds
<1>18. CASE LocationFailed
  <2>1. PICK t \in s.locates : Becomes(Answer(Taken(t), t.nav, "failed"))
    BY <1>3, <1>18 DEF LocationFailed
  <2>2. PICK u : u = [s EXCEPT !.locates = @ \ {t}]
    OBVIOUS
  <2>3. PICK r : r = Answer(u, t.nav, "failed")
    OBVIOUS
  <2>4. Becomes(r) /\ ~s.gui.closed
    BY <1>1, <1>3, <1>18, <2>1, <2>2, <2>3 DEF Taken, LocationFailed, Timer
  <2>5. Sound(r)
    BY <1>2, <2>2, <2>3, <2>4, ArriveSound
  <2> QED BY <1>2, <1>4, <1>18, <2>4, <2>5 DEF LocationFailed, Timer, bounds
<1>19. CASE LocationStale
  <2>1. PICK t \in s.locates : ~Newest(t) /\ Becomes(Taken(t))
    BY <1>3, <1>19 DEF LocationStale
  <2>2. PICK r : r = [s EXCEPT !.locates = @ \ {t}]
    OBVIOUS
  <2>3. Becomes(r)
    BY <1>1, <2>1, <2>2 DEF Taken
  <2>4. Sound(r)
    BY <1>2, <1>3, <2>1, <2>2, StaleSound DEF Newest
  <2> QED BY <1>2, <1>4, <1>19, <2>3, <2>4 DEF LocationStale, Timer, bounds
<1>20. ASSUME NEW n \in Navigators, PendingStale(n)
       PROVE  (TypeOK /\ StoredIInv)'
  <2>1. PICK u : u = Forget(s, n)
    OBVIOUS
  <2>2. PICK r : r = Answer(u, n, "dropped")
    OBVIOUS
  <2>3. Becomes(r) /\ ~s.gui.closed
    BY <1>1, <1>3, <1>20, <2>1, <2>2 DEF PendingStale, Timer
  <2>4. Sound(r)
    BY <1>2, <2>1, <2>2, <2>3, PendingSound
  <2> QED BY <1>2, <1>4, <1>20, <2>3, <2>4 DEF PendingStale, Timer, bounds
<1>21. ASSUME NEW n \in Navigators, PendingEnds(n)
       PROVE  (TypeOK /\ StoredIInv)'
  <2>1. PICK u : u = Forget(s, n)
    OBVIOUS
  <2>2. PICK row : row = s.gui.nav[n].row
    OBVIOUS
  <2>3. PICK place : place = Place(s.gui.active, row)
    OBVIOUS
  <2>4. PICK start : start = PageOf(place)
    OBVIOUS
  <2>5. PICK r : r = IF gui.error \/ gui.page.start # start
                       THEN Answer(u, n, "failed") ELSE Select(u, n, row, place - start)
    OBVIOUS
  <2>6. Becomes(r) /\ ~s.gui.closed
    BY <1>1, <1>3, <1>21, <2>1, <2>2, <2>3, <2>4, <2>5 DEF PendingEnds, Timer
  <2>7. Sound(r)
    <3>1. \/ r = Answer(u, n, "failed")
          \/ /\ s.gui.nav[n].pending = s.gui.generation /\ ~s.gui.loading /\ ~s.gui.error
             /\ s.gui.page.start = start
             /\ r = Select(u, n, row, place - start)
      BY <1>3, <1>21, <2>5 DEF PendingEnds
    <3> QED BY <1>2, <2>1, <2>2, <2>3, <2>4, <2>6, <3>1, PendingSound
  <2> QED BY <1>2, <1>4, <1>21, <2>6, <2>7 DEF PendingEnds, Timer, bounds
<1> QED
  BY <1>5, <1>6, <1>7, <1>8, <1>9, <1>10, <1>11, <1>12, <1>13, <1>14, <1>15, <1>16, <1>17,
     <1>18, <1>19, <1>20, <1>21, StoredAssumption DEF Next, Operator, Timers

\* The view keeps its types, and its invariant.
THEOREM StoredInvariant == Spec => [](TypeOK /\ StoredIInv)
<1>1. Init => TypeOK /\ StoredIInv
  BY InitSound
<1>2. TypeOK /\ StoredIInv /\ [Next]_vars => (TypeOK /\ StoredIInv)'
  <2>1. CASE Next
    BY <2>1, NextSound
  <2>2. CASE UNCHANGED vars
    BY <2>2 DEF vars, bounds, TypeOK, StoredIInv, LoadsInv, ShownInv, PendingInv, PageIsExact,
                SelectionIsAsked, NobodyWaitsInVain, Current, Waiting, Newest
  <2> QED BY <2>1, <2>2
<1> QED BY <1>1, <1>2, PTL DEF Spec

\* The table has a whole page of what the filters in force let through, however
\* the loads of other generations overtook it (_submit, poll).
THEOREM TableIsExact == Spec => []PageIsExact
<1>1. StoredIInv => PageIsExact
  BY DEF StoredIInv
<1> QED BY <1>1, StoredInvariant, PTL

\* A row that is selected is the one that was asked for, whatever filters and
\* pages did while it was located (_location_ready, _check_pending_page).
THEOREM SelectionIsTheRow == Spec => []SelectionIsAsked
<1>1. StoredIInv => SelectionIsAsked
  BY DEF StoredIInv
<1> QED BY <1>1, StoredInvariant, PTL

\* The tab waits for its load, and a request for its location or its page
\* (_invalidate_current_request, _location_failed).
THEOREM WaitsAreFounded == Spec => []NobodyWaitsInVain
<1>1. StoredIInv => NobodyWaitsInVain
  BY DEF StoredIInv
<1> QED BY <1>1, StoredInvariant, PTL

=============================================================================
