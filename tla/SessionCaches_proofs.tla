------------------------- MODULE SessionCaches_proofs -------------------------
(***************************************************************************)
(* Theorems about the two things that are built from a session file, by a  *)
(* thread and by a process, and kept beside it: the search index           *)
(* (SearchIndex) and the image of the logical messages (LogicalCache).     *)
(* They hold for every number of frames, messages, builds, loads, filters, *)
(* time stamps, failures and kills, for every size of a batch, and for     *)
(* every number of changes of the files.                                   *)
(***************************************************************************)
EXTENDS SearchIndex, LogicalCache, FiniteSetTheorems, TLAPS

-----------------------------------------------------------------------------
(* The search index.  What is proved of the row and the documents goes     *)
(* through the one place where a build decides where to resume.            *)
-----------------------------------------------------------------------------
(* Fields and helpers.                                                      *)

(* What the types say of single fields.                                     *)
LEMMA FieldTypes ==
  ASSUME TypeOK
  PROVE  /\ file.there \in BOOLEAN /\ file.version \in 1 .. 2
         /\ file.stamp \in Nat /\ file.stamp \in 1 .. MaxStamps + 1
         /\ row.indexed \in 0 .. Frames /\ row.stamp \in Nat
         /\ \A i \in Rows : docs[i] \in 0 .. 2
         /\ \A b \in Builds : /\ pc[b] \in Places /\ stamp[b] \in 0 .. MaxStamps + 1
                              /\ stamp[b] \in Nat
                              /\ indexed[b] \in 0 .. Frames /\ batch[b] \in Seq(1 .. 2)
                              /\ Len(batch[b]) \in Nat /\ Len(batch[b]) <= Batch
         /\ overlaps \in Nat /\ Frames \in Nat /\ Frames # 0
  <1>1. /\ file.there \in BOOLEAN /\ file.version \in 1 .. 2
        /\ file.stamp \in Nat /\ file.stamp \in 1 .. MaxStamps + 1
    BY IndexAssumption DEF TypeOK, Files
  <1>2. row.indexed \in 0 .. Frames /\ row.stamp \in Nat
    BY IndexAssumption DEF TypeOK, Sources
  <1>3. \A b \in Builds : /\ pc[b] \in Places /\ stamp[b] \in 0 .. MaxStamps + 1
                          /\ indexed[b] \in 0 .. Frames /\ batch[b] \in Seq(1 .. 2)
                          /\ Len(batch[b]) <= Batch
    BY DEF TypeOK
  <1>4. \A b \in Builds : stamp[b] \in Nat /\ Len(batch[b]) \in Nat
    BY <1>3, IndexAssumption
  <1>5. \A i \in Rows : docs[i] \in 0 .. 2
    BY DEF TypeOK
  <1> QED
    BY <1>1, <1>2, <1>3, <1>4, <1>5, IndexAssumption DEF TypeOK

(* The row that is not there.                                               *)
LEMMA NoRowFields ==
  /\ NoRow \in Sources /\ NoRow.status = "none" /\ NoRow.indexed = 0 /\ NoRow.stamp = 0
  /\ NoDocs \in [Rows -> 0 .. 2] /\ \A i \in Rows : NoDocs[i] = 0
  /\ Closed \in Adapters /\ Closed.task = 0 /\ ~Closed.ready
  <1>1. NoRow \in Sources /\ NoRow.status = "none" /\ NoRow.indexed = 0 /\ NoRow.stamp = 0
    BY IndexAssumption DEF NoRow, Sources
  <1>2. NoDocs \in [Rows -> 0 .. 2] /\ \A i \in Rows : NoDocs[i] = 0
    BY DEF NoDocs
  <1>3. Closed \in Adapters /\ Closed.task = 0 /\ ~Closed.ready
    BY IndexAssumption DEF Closed, NoTask, Adapters
  <1> QED
    BY <1>1, <1>2, <1>3

(* _set_source_status changes the two fields, if there is a row.            *)
LEMMA SetStatusFields ==
  ASSUME TypeOK, NEW n \in 0 .. Frames,
         NEW status \in {"pending", "ready", "failed"}, SetStatus(status, n)
  PROVE  /\ row' \in Sources /\ row'.stamp = row.stamp
         /\ row = NoRow => row' = NoRow
         /\ row # NoRow => row' # NoRow /\ row'.status = status /\ row'.indexed = n
BY NoRowFields DEF SetStatus, TypeOK, Sources

(* Where a build resumes.                                                   *)
LEMMA ResumeType ==
  ASSUME TypeOK, NEW at
  PROVE  /\ ResumeRow(at) \in {0, row.indexed} /\ ResumeRow(at) \in 0 .. Frames
         /\ ResumeRow(at) # 0 => row # NoRow /\ ContentMatches(at) /\ DocCount = row.indexed
BY FieldTypes DEF ResumeRow

(* A table that holds the first n rows holds n.                             *)
LEMMA CountOfPrefix ==
  ASSUME NEW n \in 0 .. Frames, \A i \in Rows : docs[i] # 0 <=> i <= n
  PROVE  DocCount = n
  <1>1. {i \in Rows : docs[i] # 0} = 1 .. n
    BY IndexAssumption DEF Rows
  <1>2. Cardinality(1 .. n) = n
    <2>1. n \in Nat
      BY IndexAssumption
    <2>2. Cardinality(1 .. n) = IF 1 > n THEN 0 ELSE n - 1 + 1
      BY <2>1, FS_Interval
    <2> QED
      BY <2>1, <2>2
  <1> QED
    BY <1>1, <1>2 DEF DocCount

(* A build that begins keeps the rows or starts over with none.             *)
LEMMA ResumedDocs ==
  ASSUME TypeOK, NEW b \in Builds
  PROVE  /\ DocsToResume(b) \in [Rows -> 0 .. 2]
         /\ DocsToResume(b) \in {docs, NoDocs}
         /\ ResumeRow(stamp[b]) # 0 => DocsToResume(b) = docs
         /\ ResumeRow(stamp[b]) = 0 => DocsToResume(b) = NoDocs
BY NoRowFields DEF DocsToResume, TypeOK

-----------------------------------------------------------------------------
(* Types.                                                                   *)

(* A step of a build keeps the types.                                       *)
LEMMA BuildTypes ==
  ASSUME TypeOK, FileInv, LoopInv, NEW b \in Builds,
         BuildStep(b) \/ BeginFails(b) \/ Raise(b)
  PROVE  TypeOK'
  <1> USE NoRowFields, IndexAssumption, FieldTypes
      DEF source, table, build, bounds
  <1>1. ASSUME NEW place \in Places, GoTo(b, place)
        PROVE  pc' \in [Builds -> Places]
               /\ \A o \in Builds : pc[o] = "ended" /\ o # b => pc'[o] = "ended"
    BY <1>1 DEF TypeOK, GoTo
  <1>2. ASSUME NEW signal \in {"completed", "failed"}, End(b, signal)
        PROVE  /\ pc' \in [Builds -> Places]
               /\ posted' \in [Builds -> {"none", "completed", "failed"}]
               /\ \A o \in Builds : posted'[o] # "none" => pc'[o] = "ended"
    BY <1>1, <1>2 DEF TypeOK, End, GoTo, Places
  <1>3. ASSUME NEW place \in Places, GoTo(b, place), pc[b] # "ended", posted' = posted
        PROVE  /\ pc' \in [Builds -> Places]
               /\ \A o \in Builds : posted'[o] # "none" => pc'[o] = "ended"
    BY <1>1, <1>3 DEF TypeOK
  <1>4. CASE Fingerprint(b)
    <2>1. CASE file.there
      <3>1. stamp' \in [Builds -> 0 .. MaxStamps + 1]
        <4>1. file.stamp \in 0 .. MaxStamps + 1
          OBVIOUS
        <4> QED
          BY <1>4, <2>1, <4>1 DEF Fingerprint, TypeOK
      <3>2. "sized" \in Places
        BY DEF Places
      <3> QED
        BY <1>3, <1>4, <2>1, <3>1, <3>2 DEF Fingerprint, TypeOK
    <2>2. CASE ~file.there
      BY <1>2, <1>4, <2>2 DEF Fingerprint, TypeOK
    <2> QED
      BY <2>1, <2>2
  <1>5. CASE Begin(b)
    <2>1. /\ indexed' \in [Builds -> 0 .. Frames] /\ docs' \in [Rows -> 0 .. 2]
      BY <1>5, ResumeType, ResumedDocs DEF Begin, TypeOK
    <2>2. row' \in Sources
      BY <1>5, ResumeType DEF Begin, Sources
    <2>3. overlaps' \in Nat
      BY <1>5 DEF Begin
    <2>4. "begun" \in Places
      BY DEF Places
    <2> QED
      BY <1>3, <1>5, <2>1, <2>2, <2>3, <2>4 DEF Begin, TypeOK
  <1>6. CASE BeginFails(b)
    <2>1. failures' \in 0 .. MaxFailures
      BY <1>6 DEF BeginFails, TypeOK
    <2> QED
      BY <1>2, <1>6, <2>1 DEF BeginFails, TypeOK
  <1>7. CASE OpenFrames(b)
    BY <1>3, <1>7 DEF OpenFrames, TypeOK, Places
  <1>8. CASE ReadFrame(b)
    <2>1. CASE cancelled[b]
      BY <1>3, <1>8, <2>1 DEF ReadFrame, TypeOK, Places
    <2>2. CASE ~cancelled[b]
      <3>1. Append(batch[b], file.version) \in Seq(1 .. 2)
        OBVIOUS
      <3>2. Len(Append(batch[b], file.version)) = Len(batch[b]) + 1
        OBVIOUS
      <3>3. Len(batch[b]) < Batch
        BY <1>8 DEF ReadFrame, AppendDue
      <3>4. batch' \in [Builds -> Seq(1 .. 2)] /\ \A o \in Builds : Len(batch'[o]) <= Batch
        <4>1. batch' = [batch EXCEPT ![b] = Append(batch[b], file.version)]
          BY <1>8, <2>2 DEF ReadFrame
        <4>2. Len(Append(batch[b], file.version)) <= Batch
          BY <3>2, <3>3
        <4> QED
          BY <3>1, <4>1, <4>2 DEF TypeOK
      <3> QED
        BY <1>8, <2>2, <3>4 DEF ReadFrame, TypeOK
    <2> QED
      BY <2>1, <2>2
  <1>9. CASE AppendBatch(b)
    <2>1. CASE row = NoRow
      BY <1>3, <1>9, <2>1 DEF AppendBatch, AppendDue, TypeOK, Places
    <2>2. CASE row # NoRow
      <3> DEFINE upTo == indexed[b] + Len(batch[b])
      <3>1. upTo \in 0 .. Frames
        BY DEF LoopInv
      <3>2. docs' \in [Rows -> 0 .. 2]
        <4>1. \A i \in indexed[b] + 1 .. upTo : batch[b][i - indexed[b]] \in 1 .. 2
          <5>1. \A k \in 1 .. Len(batch[b]) : batch[b][k] \in 1 .. 2
            OBVIOUS
          <5>2. \A i \in indexed[b] + 1 .. upTo : i - indexed[b] \in 1 .. Len(batch[b])
            BY SMTT(30)
          <5> QED
            BY <5>1, <5>2
        <4>2. docs' = [i \in Rows |-> IF i \in indexed[b] + 1 .. upTo
                                        THEN batch[b][i - indexed[b]] ELSE docs[i]]
          BY <1>9, <2>2 DEF AppendBatch
        <4> QED
          BY <4>1, <4>2
      <3>3. row' \in Sources /\ indexed' \in [Builds -> 0 .. Frames]
        <4>1. [row EXCEPT !.indexed = upTo] \in Sources
          BY <3>1 DEF TypeOK, Sources
        <4>2. row' = [row EXCEPT !.indexed = upTo] /\ indexed' = [indexed EXCEPT ![b] = upTo]
          BY <1>9, <2>2 DEF AppendBatch
        <4> QED
          BY <3>1, <4>1, <4>2 DEF TypeOK
      <3>4. batch' \in [Builds -> Seq(1 .. 2)] /\ \A o \in Builds : Len(batch'[o]) <= Batch
        <4>1. <<>> \in Seq(1 .. 2) /\ Len(<<>>) = 0
          OBVIOUS
        <4> QED
          <5>1. batch' = [batch EXCEPT ![b] = <<>>]
            BY <1>9, <2>2 DEF AppendBatch
          <5> QED
            BY <4>1, <5>1 DEF TypeOK
      <3> QED
        BY <1>9, <2>2, <3>2, <3>3, <3>4 DEF AppendBatch, TypeOK
    <2> QED
      BY <2>1, <2>2
  <1>10. CASE Finish(b)
    <2>1. row' \in Sources
      BY <1>10, SetStatusFields DEF Finish
    <2> QED
      BY <1>3, <1>10, <2>1 DEF Finish, TypeOK, Places
  <1>11. CASE Report(b)
    BY <1>2, <1>11 DEF Report, TypeOK
  <1>12. CASE Stop(b)
    <2>1. row' \in Sources
      BY <1>12, SetStatusFields DEF Stop, CountToKeep
    <2> QED
      BY <1>2, <1>12, <2>1 DEF Stop, TypeOK
  <1>13. CASE Raise(b)
    <2>1. failures' \in 0 .. MaxFailures
      BY <1>13 DEF Raise, TypeOK
    <2> QED
      BY <1>3, <1>13, <2>1 DEF Raise, TypeOK, Places
  <1>14. CASE Fail(b)
    <2>1. row' \in Sources
      <3>1. CASE SetStatus("failed", CountToKeep(b))
        BY <3>1, SetStatusFields DEF CountToKeep
      <3>2. CASE UNCHANGED row
        BY <3>2 DEF TypeOK
      <3> QED
        BY <1>14, <3>1, <3>2 DEF Fail
    <2>2. failures' \in 0 .. MaxFailures
      BY <1>14 DEF Fail, TypeOK
    <2> QED
      BY <1>2, <1>14, <2>1, <2>2 DEF Fail, TypeOK
  <1> QED
    BY <1>4, <1>5, <1>6, <1>7, <1>8, <1>9, <1>10, <1>11, <1>12, <1>13, <1>14 DEF BuildStep

(* A step of the window, of the removal or from outside does too.           *)
LEMMA WindowTypes ==
  ASSUME TypeOK, FileInv, LoopInv,
         \/ \E b \in Builds : BuildCompleted(b) \/ BuildFailed(b)
         \/ FindCurrent \/ StartBuild \/ Close \/ RemoveFiles \/ RemoveIndex \/ Stamp \/ Kill
  PROVE  TypeOK'
  <1> USE NoRowFields, IndexAssumption, FieldTypes DEF source, table, build, bounds
  <1>0. adapter \in Adapters /\ adapter.task \in Nat /\ builds \in Nat
    BY DEF TypeOK, Adapters
  <1>1. \A s \in 0 .. MaxStamps + 1 : [row EXCEPT !.stamp = s] \in Sources
    BY DEF TypeOK, Sources
  <1>2. CASE FindCurrent
    <2>1. row' \in Sources
      BY <1>1, <1>2 DEF FindCurrent, Refresh, TypeOK, Files
    <2>2. adapter' \in Adapters /\ adapter'.task = adapter.task
      BY <1>0, <1>2 DEF FindCurrent, Adapters
    <2> QED
      BY <1>2, <2>1, <2>2 DEF FindCurrent, TypeOK
  <1>3. CASE StartBuild
    <2>1. builds' \in 0 .. MaxBuilds /\ builds + 1 \in Builds /\ builds' = builds + 1
      BY <1>0, <1>3 DEF StartBuild, TypeOK, Builds
    <2>2. adapter' \in Adapters /\ adapter'.task <= builds'
      BY <1>3, <2>1 DEF StartBuild, Adapters, Builds
    <2>3. pc[builds + 1] = "none"
      BY <1>0, <2>1 DEF LoopInv
    <2>4. /\ pc' \in [Builds -> Places]
          /\ \A b \in Builds : posted'[b] # "none" => pc'[b] = "ended"
      BY <1>3, <2>1, <2>3 DEF StartBuild, GoTo, TypeOK, Places
    <2> QED
      BY <1>3, <2>1, <2>2, <2>4 DEF StartBuild, TypeOK
  <1>4. CASE Close
    <2>1. cancelled' \in [Builds -> BOOLEAN] /\ adapter' \in Adapters /\ adapter'.task = 0
      BY <1>4 DEF Close, TypeOK
    <2> QED
      BY <1>0, <1>4, <2>1 DEF Close, TypeOK
  <1>5. ASSUME NEW b \in Builds, BuildCompleted(b) \/ BuildFailed(b)
        PROVE  TypeOK'
    <2>1. row' \in Sources
      <3>1. row' \in {row, [row EXCEPT !.stamp = stamp[b]]}
        BY <1>5 DEF BuildCompleted, BuildFailed
      <3> QED
        BY <1>1, <3>1 DEF TypeOK
    <2>2. adapter' \in Adapters /\ adapter'.task \in {0, adapter.task}
      <3>1. \A e \in BOOLEAN :
               [adapter EXCEPT !.task = NoTask, !.ready = TRUE, !.error = e] \in Adapters
        BY <1>0 DEF Adapters, NoTask
      <3>2. \E e \in BOOLEAN : \/ adapter' = adapter
                             \/ adapter' = [adapter EXCEPT !.task = NoTask, !.ready = TRUE,
                                                           !.error = e]
        <4>1. CASE BuildFailed(b)
          BY <4>1 DEF BuildFailed
        <4>2. CASE BuildCompleted(b)
          <5>1. (adapter.error \/ ~IsCurrent(stamp[b])) \in BOOLEAN
            OBVIOUS
          <5> QED
            BY <4>2, <5>1 DEF BuildCompleted
        <4> QED
          BY <1>5, <4>1, <4>2
      <3> QED
        BY <1>0, <3>1, <3>2 DEF Adapters, NoTask
    <2>3. /\ posted' \in [Builds -> {"none", "completed", "failed"}]
          /\ \A o \in Builds : posted'[o] # "none" => posted'[o] = posted[o]
      BY <1>5 DEF BuildCompleted, BuildFailed, TypeOK
    <2>4. UNCHANGED <<source, docs, builds, pc, stamp, indexed, batch, cancelled, bounds>>
      BY <1>5 DEF BuildCompleted, BuildFailed
    <2>5. adapter'.task <= builds
      BY <1>0, <2>2 DEF TypeOK
    <2> QED
      BY <2>1, <2>2, <2>3, <2>4, <2>5 DEF TypeOK
  <1>6. CASE RemoveFiles
    BY <1>6 DEF RemoveFiles, TypeOK, Files
  <1>7. CASE RemoveIndex
    <2>1. failures' \in 0 .. MaxFailures
      BY <1>7 DEF RemoveIndex, TypeOK
    <2> QED
      BY <1>7, <2>1 DEF RemoveIndex, TypeOK
  <1>8. CASE Stamp
    <2>1. file' \in Files
      <3>1. PICK v \in {file.version, 2} :
               file' = [file EXCEPT !.version = v, !.stamp = @ + 1]
        BY <1>8 DEF Stamp
      <3>2. file.stamp + 1 \in 1 .. MaxStamps + 1
        BY <1>8 DEF Stamp
      <3>3. v \in 1 .. 2
        BY <3>1
      <3>4. \A w \in 1 .. 2 : \A t \in 1 .. MaxStamps + 1 :
               [file EXCEPT !.version = w, !.stamp = t] \in Files
        BY DEF TypeOK, Files
      <3> QED
        BY <3>1, <3>2, <3>3, <3>4
    <2> QED
      BY <1>8, <2>1 DEF Stamp, TypeOK
  <1>9. CASE Kill
    <2>1. pc' \in [Builds -> Places] /\ posted' \in [Builds -> {"none", "completed", "failed"}]
      BY <1>9 DEF Kill, TypeOK, Places
    <2>2. \A o \in Builds : posted'[o] = "none"
      BY <1>9 DEF Kill
    <2>3. kills' \in 0 .. MaxKills
      BY <1>9 DEF Kill, TypeOK
    <2>4. session' \in {"kept", "removing", "removed", "left"}
      BY <1>9 DEF Kill, TypeOK
    <2> QED
      BY <1>0, <1>9, <2>1, <2>2, <2>3, <2>4 DEF Kill, TypeOK
  <1> QED
    BY <1>2, <1>3, <1>4, <1>5, <1>6, <1>7, <1>8, <1>9

-----------------------------------------------------------------------------
(* What the steps that touch no documents keep.                             *)

(* A build that runs after the step ran before it.                          *)
NoNewBuild == \A b \in Builds : UnderWay(b)' => UnderWay(b)

LEMMA AloneStays ==
  ASSUME TypeOK, AloneInv, NoNewBuild, UNCHANGED <<docs, indexed>>,
         overlaps' = overlaps, row'.indexed = row.indexed,
         \A b \in Builds : UnderWay(b)' /\ row' # NoRow
            => row # NoRow /\ row'.status = row.status
  PROVE  AloneInv'
BY DEF AloneInv, NoNewBuild

LEMMA PairStays ==
  ASSUME TypeOK, PairInv, NoNewBuild, UNCHANGED <<docs, indexed>>,
         overlaps' = overlaps, row'.indexed = row.indexed, row # NoRow => row' # NoRow,
         file'.there /\ file'.version = 1 => file.there /\ file.version = 1
  PROVE  PairInv'
BY DEF PairInv, NoNewBuild

LEMMA VersionStays ==
  ASSUME TypeOK, VersionInv, NoNewBuild, UNCHANGED <<docs, batch>>,
         overlaps' = overlaps, file'.version = file.version,
         file.version = 1 \/ (row'.stamp = row.stamp /\ file'.stamp = file.stamp)
  PROVE  VersionInv'
BY DEF VersionInv, NoNewBuild

(* The table of a session whose content nobody changed, once complete, stays*)
(* so.                                                                      *)
LEMMA CompleteStays ==
  ASSUME TypeOK, TypeOK', VersionInv', file'.version = 1, file.version = 1, Complete,
         \A i \in Rows : docs[i] # 0 => docs'[i] # 0
  PROVE  Complete'
  <1>1. \A i \in Rows : docs'[i] \in {0, 1}
    BY DEF VersionInv
  <1> QED
    BY <1>1 DEF Complete

(* The search adapter, where it is not the adapter's own step.              *)
LEMMA SeenStays ==
  ASSUME TypeOK, TypeOK', VersionInv', SearchSeesAll,
         overlaps' = 0 => overlaps = 0, session' = "kept" => session = "kept",
         file'.version = 1 => file.version = 1,
         adapter'.ready /\ ~adapter'.error => adapter.ready /\ ~adapter.error,
         overlaps' = 0 /\ file.version = 1 /\ session' = "kept"
            => \A i \in Rows : docs[i] # 0 => docs'[i] # 0
  PROVE  SearchSeesAll'
BY CompleteStays DEF SearchSeesAll

(* What the row claims of a current index is stored, in this version.       *)
LEMMA CurrentMeansComplete ==
  ASSUME TypeOK, FileInv, RowInv, VersionInv, AloneInv, PairInv, file.there, NEW at,
         IsCurrent(at), file.version = 1 \/ at = file.stamp,
         overlaps = 0 \/ (overlaps = 1 /\ file.version = 1)
  PROVE  Complete
  <1>1. \A i \in Rows : i <= row.indexed
    BY FieldTypes DEF IsCurrent, Rows
  <1>2. \A i \in Rows : docs[i] # 0
    BY <1>1, FieldTypes DEF AloneInv, PairInv
  <1>3. file.version = 1 \/ row.stamp = file.stamp
    BY DEF IsCurrent, ContentMatches
  <1>4. file.version = 1 \/ (overlaps = 0 /\ row.stamp = file.stamp)
    BY <1>3, FieldTypes
  <1> QED
    BY <1>2, <1>4, FieldTypes DEF VersionInv, Complete

(* An index is ready only when no build is under way, unless they overlap.  *)
LEMMA ReadyIsAlone ==
  ASSUME TypeOK, AloneInv, NEW at, IsCurrent(at), overlaps = 0, NEW b \in Builds
  PROVE  ~UnderWay(b)
BY DEF AloneInv, IsCurrent

(* The loop of one build.                                                   *)
LEMMA LoopStep ==
  ASSUME TypeOK, LoopInv, NEW b \in Builds, NEW place \in Places \ {"none"},
         pc' = [pc EXCEPT ![b] = place], pc[b] # "none", builds' = builds,
         \A o \in Builds \ {b} : batch'[o] = batch[o] /\ indexed'[o] = indexed[o],
         place \in {"queued", "sized", "begun"} => batch'[b] = <<>>,
         indexed'[b] + Len(batch'[b]) <= Frames
  PROVE  LoopInv'
BY DEF LoopInv, TypeOK

(* Only the place of that build changes.                                    *)
LEMMA PlaceStep ==
  ASSUME TypeOK, NEW b \in Builds, NEW place, pc' = [pc EXCEPT ![b] = place]
  PROVE  /\ \A o \in Builds \ {b} : pc'[o] = pc[o] /\ UnderWay(o)' = UnderWay(o)
         /\ pc'[b] = place
         /\ UnderWay(b)' = (place \in {"begun", "reading", "stopping", "failing"})
BY DEF TypeOK, UnderWay

(* The steps of a build that write neither the row nor the documents.       *)
LEMMA QuietBuildInv ==
  ASSUME TypeOK, TypeOK', IndexIInv, NEW b \in Builds,
         \/ Fingerprint(b) \/ BeginFails(b) \/ Report(b)
         \/ OpenFrames(b) \/ ReadFrame(b) \/ Raise(b)
         \/ AppendBatch(b) /\ row = NoRow
  PROVE  IndexIInv'
  <1> USE DEF source, table, build, bounds
  <1>1. /\ UNCHANGED <<file, session, row, docs, builds, indexed, adapter, overlaps>>
        /\ pc[b] # "none"
    BY DEF Fingerprint, BeginFails, Report, OpenFrames, ReadFrame, Raise, AppendBatch, AppendDue
  <1>2. PICK place \in Places \ {"none"} : pc' = [pc EXCEPT ![b] = place]
    <2>1. CASE Fingerprint(b) \/ BeginFails(b) \/ Report(b)
      BY <2>1 DEF Fingerprint, BeginFails, Report, End, GoTo, Places
    <2>2. CASE OpenFrames(b) \/ Raise(b) \/ (AppendBatch(b) /\ row = NoRow)
      BY <2>2 DEF OpenFrames, Raise, AppendBatch, GoTo, Places
    <2>3. CASE ReadFrame(b)
      <3>1. pc[b] = "reading" /\ (pc' = pc \/ GoTo(b, "stopping"))
        BY <2>3 DEF ReadFrame
      <3>2. pc = [pc EXCEPT ![b] = pc[b]]
        BY DEF TypeOK
      <3> QED
        BY <3>1, <3>2 DEF GoTo, Places
    <2> QED
      BY <2>1, <2>2, <2>3
  <1>10. /\ pc'[b] = place
         /\ place \in {"reading", "stopping"} => OpenFrames(b) \/ pc[b] = "reading"
         /\ place \notin {"queued", "begun"}
         /\ place = "sized" => pc[b] = "queued"
    <2>1. pc'[b] = place
      BY <1>2, PlaceStep
    <2>2. CASE Fingerprint(b) \/ BeginFails(b) \/ Report(b)
      <3>1. place \in {"sized", "ended"} /\ (place = "sized" => pc[b] = "queued")
        BY <2>1, <2>2 DEF Fingerprint, BeginFails, Report, End, GoTo, TypeOK
      <3> QED
        BY <2>1, <3>1
    <2>3. CASE OpenFrames(b) \/ Raise(b) \/ (AppendBatch(b) /\ row = NoRow)
      BY <2>1, <2>3 DEF OpenFrames, Raise, AppendBatch, GoTo, TypeOK
    <2>4. CASE ReadFrame(b)
      BY <2>1, <2>4 DEF ReadFrame, GoTo, TypeOK
    <2> QED
      BY <2>2, <2>3, <2>4
  <1>3. UnderWay(b)' => UnderWay(b)
    <2>1. CASE Fingerprint(b) \/ BeginFails(b) \/ Report(b)
      <3>1. pc'[b] \in {"sized", "ended"}
        BY <2>1 DEF Fingerprint, BeginFails, Report, End, GoTo, TypeOK
      <3> QED
        BY <1>2, <1>10, <3>1, PlaceStep
    <2>2. CASE OpenFrames(b) \/ ReadFrame(b) \/ Raise(b) \/ (AppendBatch(b) /\ row = NoRow)
      BY <2>2 DEF OpenFrames, ReadFrame, Raise, AppendBatch, AppendDue, UnderWay
    <2> QED
      BY <2>1, <2>2
  <1>4. NoNewBuild
    BY <1>2, <1>3, PlaceStep DEF NoNewBuild
  <1>5. AloneInv' /\ PairInv' /\ RowInv'
    <2>1. AloneInv'
      BY <1>1, <1>4, AloneStays DEF IndexIInv
    <2>2. PairInv'
      BY <1>1, <1>4, PairStays DEF IndexIInv
    <2> QED
      BY <1>1, <2>1, <2>2 DEF IndexIInv, RowInv
  <1>6. FileInv'
    <2>1. CASE Fingerprint(b)
      <3>1. stamp' = stamp \/ stamp' = [stamp EXCEPT ![b] = file.stamp]
        BY <2>1 DEF Fingerprint
      <3>2. \A o \in Builds : stamp'[o] \in {stamp[o], file.stamp}
        BY <3>1 DEF TypeOK
      <3> QED
        BY <1>1, <3>2, FieldTypes DEF IndexIInv, FileInv
    <2>2. CASE ~Fingerprint(b)
      <3>1. stamp' = stamp
        BY <2>2 DEF BeginFails, Report, OpenFrames, ReadFrame, Raise, AppendBatch
      <3> QED
        BY <1>1, <3>1 DEF IndexIInv, FileInv
    <2> QED
      BY <2>1, <2>2
  <1>7. RemovedInv'
    <2>1. CASE OpenFrames(b)
      <3>1. SUFFICES ASSUME overlaps = 0, session = "removed", row # NoRow
                     PROVE  place \notin {"reading", "stopping"}
        BY <1>1, <1>2, PlaceStep DEF IndexIInv, RemovedInv
      <3>2. row.indexed = 0 /\ indexed[b] = 0 /\ ~file.there
        BY <2>1, <3>1 DEF IndexIInv, RemovedInv, AloneInv, UnderWay, OpenFrames, FileInv
      <3>3. pc' = [pc EXCEPT ![b] = "failing"]
        BY <2>1, <3>2, FieldTypes DEF OpenFrames, GoTo
      <3> QED
        BY ZenonT(40), <1>2, <3>3, PlaceStep
    <2>2. CASE ~OpenFrames(b)
      <3>1. place \in {"reading", "stopping"} => pc[b] = "reading"
        BY <1>10, <2>2
      <3> QED
        BY <1>1, <1>2, <3>1, PlaceStep DEF IndexIInv, RemovedInv
    <2> QED
      BY <2>1, <2>2
  <1>8. CASE batch' = batch
    <2>1. VersionInv'
      BY <1>1, <1>4, <1>8, VersionStays DEF IndexIInv
    <2>2. LoopInv'
      <3>1. place \in {"queued", "sized", "begun"} => pc[b] \in {"queued", "sized", "begun"}
        BY <1>10
      <3> QED
        BY <1>1, <1>2, <1>8, <3>1, LoopStep DEF IndexIInv, LoopInv
    <2>3. SearchSeesAll'
      BY <1>1, <2>1, SeenStays DEF IndexIInv
    <2> QED
      BY <1>5, <1>6, <1>7, <2>1, <2>2, <2>3 DEF IndexIInv
  <1>9. CASE ReadFrame(b) /\ batch' # batch
    <2>1. /\ pc[b] = "reading" /\ pc' = pc /\ NextFrame(b) <= Frames
          /\ batch' = [batch EXCEPT ![b] = Append(batch[b], file.version)]
      BY <1>9 DEF ReadFrame
    <2>2. /\ batch'[b] = Append(batch[b], file.version)
          /\ \A o \in Builds \ {b} : batch'[o] = batch[o]
      BY <2>1 DEF TypeOK
    <2>3. /\ Len(batch'[b]) = Len(batch[b]) + 1
          /\ batch'[b][Len(batch[b]) + 1] = file.version
          /\ \A k \in 1 .. Len(batch[b]) : batch'[b][k] = batch[b][k]
      BY <2>2, FieldTypes
    <2>4. VersionInv'
      <3>1. \A o \in Builds : UnderWay(o)' = UnderWay(o)
        BY <2>1 DEF UnderWay
      <3>2. \A k \in 1 .. Len(batch[b]) + 1 :
               k \in 1 .. Len(batch[b]) \/ k = Len(batch[b]) + 1
        BY FieldTypes
      <3>3. ASSUME \A k \in 1 .. Len(batch[b]) : batch[b][k] = file.version
            PROVE  \A k \in 1 .. Len(batch'[b]) : batch'[b][k] = file.version
        BY <2>3, <3>2, <3>3
      <3>4. UnderWay(b)
        BY <2>1 DEF UnderWay
      <3> QED
        BY <1>1, <2>2, <3>1, <3>3, <3>4 DEF IndexIInv, VersionInv
    <2>5. LoopInv'
      <3>1. indexed[b] + Len(batch'[b]) <= Frames
        BY <2>1, <2>3, FieldTypes DEF NextFrame
      <3> QED
        BY <1>1, <2>1, <2>2, <3>1 DEF IndexIInv, LoopInv
    <2>6. SearchSeesAll'
      BY <1>1, <2>4, SeenStays DEF IndexIInv
    <2> QED
      BY <1>5, <1>6, <1>7, <2>4, <2>5, <2>6 DEF IndexIInv
  <1> QED
    <2>1. ~ReadFrame(b) => batch' = batch
      BY DEF Fingerprint, BeginFails, Report, OpenFrames, Raise, AppendBatch
    <2> QED
      BY <1>8, <1>9, <2>1

(* _begin_or_resume of unchanged content finds exactly what is stored.      *)
LEMMA BeginKeeps ==
  ASSUME TypeOK, AloneInv, overlaps = 0, file.there, file.version = 1, NEW b \in Builds
  PROVE  /\ ResumeRow(stamp[b]) = row.indexed
         /\ \A i \in Rows : DocsToResume(b)[i] = docs[i]
  <1>1. DocCount = row.indexed
    BY CountOfPrefix, FieldTypes DEF AloneInv
  <1>2. ContentMatches(stamp[b])
    BY DEF ContentMatches
  <1>3. ResumeRow(stamp[b]) = row.indexed
    BY <1>1, <1>2, NoRowFields DEF ResumeRow
  <1>4. row.indexed = 0 => \A i \in Rows : docs[i] = 0
    BY FieldTypes DEF AloneInv, Rows
  <1> QED
    BY <1>3, <1>4, ResumedDocs, NoRowFields

(* _begin_or_resume.                                                        *)
LEMMA BeginInv ==
  ASSUME TypeOK, TypeOK', IndexIInv, NEW b \in Builds, Begin(b)
  PROVE  IndexIInv'
  <1> USE DEF IndexIInv, source
  <1> DEFINE n == ResumeRow(stamp[b])
             other == \E o \in Builds \ {b} : UnderWay(o)
  <1>1. /\ UNCHANGED <<file, session, builds, batch, stamp, adapter>>
        /\ docs' = DocsToResume(b) /\ pc[b] = "sized" /\ pc' = [pc EXCEPT ![b] = "begun"]
        /\ row' = [status |-> "building", indexed |-> n, stamp |-> stamp[b]]
        /\ indexed' = [indexed EXCEPT ![b] = n]
        /\ overlaps' = IF other THEN overlaps + 1 ELSE overlaps
    BY DEF Begin, GoTo
  <1>2. /\ row'.status = "building" /\ row'.indexed = n /\ row'.stamp = stamp[b]
        /\ row' # NoRow
        /\ indexed'[b] = n /\ \A o \in Builds \ {b} : indexed'[o] = indexed[o]
    BY <1>1, NoRowFields DEF TypeOK
  <1>3. /\ \A o \in Builds \ {b} : pc'[o] = pc[o] /\ UnderWay(o)' = UnderWay(o)
        /\ pc'[b] = "begun"
    BY <1>1, PlaceStep
  <1>4. batch[b] = <<>> /\ Len(batch[b]) = 0
    BY <1>1 DEF LoopInv
  <1>5. /\ n \in {0, row.indexed} /\ n \in 0 .. Frames
        /\ n # 0 => row # NoRow /\ ContentMatches(stamp[b])
        /\ n # 0 => docs' = docs
        /\ n = 0 => \A i \in Rows : docs'[i] = 0
    BY <1>1, ResumeType, ResumedDocs, NoRowFields
  <1>6. /\ other => overlaps' = overlaps + 1
        /\ ~other => overlaps' = overlaps
        /\ overlaps \in Nat
        /\ overlaps' = 0 => overlaps = 0 /\ ~other
    BY <1>1, FieldTypes
  <1>7. FileInv' /\ RowInv'
    BY <1>1, <1>2 DEF FileInv, RowInv
  <1>8. LoopInv'
    <2>1. indexed'[b] + Len(batch'[b]) <= Frames
      BY <1>1, <1>2, <1>4, <1>5, FieldTypes
    <2> QED
      BY <1>1, <1>2, <1>4, <2>1, LoopStep DEF Places
  <1>9. AloneInv'
    <2> SUFFICES ASSUME overlaps' = 0 PROVE AloneInv'
      BY DEF AloneInv
    <2>1. \A i \in Rows : docs'[i] # 0 <=> i <= n
      BY <1>5, <1>6, FieldTypes DEF AloneInv, Rows
    <2>2. \A o \in Builds : UnderWay(o)' => o = b
      BY <1>3, <1>6
    <2> QED
      BY <1>2, <2>1, <2>2 DEF AloneInv
  <1>10. PairInv'
    <2> SUFFICES ASSUME file.there, file.version = 1, overlaps' <= 1 PROVE PairInv'
      BY <1>1 DEF PairInv
    <2>1. CASE other
      <3>1. overlaps = 0
        BY <1>6, <2>1
      <3>2. n = row.indexed /\ \A i \in Rows : docs'[i] = docs[i]
        BY <1>1, <3>1, BeginKeeps
      <3>3. /\ \A i, j \in Rows : i <= j /\ docs[j] # 0 => docs[i] # 0
            /\ \A i \in Rows : i <= n => docs[i] # 0
            /\ \A o \in Builds : UnderWay(o) => \A i \in Rows : i <= indexed[o] => docs[i] # 0
        BY <3>1, <3>2 DEF PairInv
      <3> QED
        BY <1>2, <1>3, <3>2, <3>3 DEF PairInv
    <2>2. CASE ~other
      <3>1. overlaps <= 1
        BY <1>6, <2>2
      <3>2. /\ \A i, j \in Rows : i <= j /\ docs'[j] # 0 => docs'[i] # 0
            /\ \A i \in Rows : i <= n => docs'[i] # 0
        BY <1>5, <3>1, FieldTypes DEF PairInv, Rows
      <3>3. \A o \in Builds : UnderWay(o)' => o = b
        BY <1>3, <2>2
      <3> QED
        BY <1>2, <3>2, <3>3 DEF PairInv
    <2> QED
      BY <2>1, <2>2
  <1>11. VersionInv'
    <2> SUFFICES ASSUME file.version = 1 \/ (overlaps' = 0 /\ stamp[b] = file.stamp)
                 PROVE  VersionInv'
      BY <1>1, <1>2 DEF VersionInv
    <2>1. \A i \in Rows : docs'[i] \in {0, file.version}
      <3>1. CASE n = 0
        BY <1>5, <3>1
      <3>2. CASE n # 0
        <4>1. docs' = docs /\ (row.stamp = stamp[b] \/ file.version = 1)
          BY <1>5, <3>2 DEF ContentMatches
        <4> QED
          BY <1>6, <4>1 DEF VersionInv
      <3> QED
        BY <3>1, <3>2
    <2>2. ASSUME NEW o \in Builds, UnderWay(o)', NEW k \in 1 .. Len(batch[o])
          PROVE  batch[o][k] = file.version
      <3>1. o # b
        BY <1>4, <2>2
      <3>2. UnderWay(o) /\ other
        BY <1>3, <2>2, <3>1
      <3>3. file.version = 1
        BY <1>6, <3>2
      <3> QED
        BY <2>2, <3>2, <3>3 DEF VersionInv
    <2> QED
      BY <1>1, <2>1, <2>2 DEF VersionInv
  <1>12. RemovedInv'
    <2> SUFFICES ASSUME overlaps' = 0, session = "removed" PROVE RemovedInv'
      BY <1>1 DEF RemovedInv
    <2>1. n = 0
      BY <1>5, <1>6 DEF RemovedInv
    <2>2. \A o \in Builds \ {b} : ~UnderWay(o)
      BY <1>6
    <2> QED
      BY <1>2, <1>3, <2>1, <2>2 DEF RemovedInv, UnderWay
  <1>13. SearchSeesAll'
    <2>1. overlaps' = 0 /\ file.version = 1 /\ session' = "kept"
             => \A i \in Rows : docs[i] # 0 => docs'[i] # 0
      BY <1>1, <1>6, BeginKeeps DEF FileInv
    <2> QED
      BY <1>1, <1>6, <1>11, <2>1, SeenStays
  <1> QED
    BY <1>7, <1>8, <1>9, <1>10, <1>11, <1>12, <1>13

(* _append_batch, where there is a row.                                     *)
LEMMA AppendInv ==
  ASSUME TypeOK, TypeOK', IndexIInv, NEW b \in Builds, AppendBatch(b), row # NoRow
  PROVE  IndexIInv'
  <1> USE DEF IndexIInv, source
  <1> DEFINE upTo == indexed[b] + Len(batch[b])
  <1>1. /\ UNCHANGED <<file, session, builds, pc, stamp, adapter, overlaps>>
        /\ pc[b] = "reading" /\ UnderWay(b)
        /\ docs' = [i \in Rows |-> IF i \in indexed[b] + 1 .. upTo
                                      THEN batch[b][i - indexed[b]] ELSE docs[i]]
        /\ row' = [row EXCEPT !.indexed = upTo]
        /\ indexed' = [indexed EXCEPT ![b] = upTo] /\ batch' = [batch EXCEPT ![b] = <<>>]
    BY DEF AppendBatch, AppendDue, UnderWay, bounds
  <1>2. /\ row'.indexed = upTo /\ row'.status = row.status /\ row'.stamp = row.stamp
        /\ indexed'[b] = upTo /\ batch'[b] = <<>>
        /\ \A o \in Builds \ {b} : indexed'[o] = indexed[o] /\ batch'[o] = batch[o]
    BY <1>1 DEF TypeOK, Sources
  <1>3. row.status # "none" /\ row' # NoRow
    BY <1>2, NoRowFields DEF RowInv
  <1>4. /\ indexed[b] \in Nat /\ Len(batch[b]) \in Nat /\ Len(batch'[b]) = 0
        /\ upTo \in 0 .. Frames
    BY <1>2, FieldTypes DEF LoopInv
  <1>5. \A o \in Builds : UnderWay(o)' = UnderWay(o)
    BY <1>1 DEF UnderWay
  <1>6. \A i \in Rows :
           /\ i <= indexed[b] \/ i > upTo => docs'[i] = docs[i]
           /\ indexed[b] < i /\ i <= upTo =>
                 \E k \in 1 .. Len(batch[b]) : docs'[i] = batch[b][k]
    <2>1. \A i \in Rows : i \in Nat
      BY FieldTypes DEF Rows
    <2>2. ASSUME NEW i \in Rows, indexed[b] < i, i <= upTo
          PROVE  \E k \in 1 .. Len(batch[b]) : docs'[i] = batch[b][k]
      <3>1. i - indexed[b] \in 1 .. Len(batch[b]) /\ i \in indexed[b] + 1 .. upTo
        BY <1>4, <2>1, <2>2
      <3> QED
        BY <1>1, <3>1
    <2>3. ASSUME NEW i \in Rows, i <= indexed[b] \/ i > upTo
          PROVE  docs'[i] = docs[i]
      <3>1. i \notin indexed[b] + 1 .. upTo
        BY <1>4, <2>1, <2>3
      <3> QED
        BY <1>1, <3>1
    <2> QED
      BY <2>2, <2>3
  <1>7. \A i \in Rows :
           docs'[i] # 0 <=> docs[i] # 0 \/ (indexed[b] < i /\ i <= upTo)
    <2>1. \A k \in 1 .. Len(batch[b]) : batch[b][k] # 0
      BY FieldTypes
    <2>2. \A i \in Rows : i \in Nat
      BY FieldTypes DEF Rows
    <2> QED
      BY <1>4, <1>6, <2>1, <2>2
  <1>8. FileInv' /\ RowInv'
    BY <1>1, <1>2, <1>3 DEF FileInv, RowInv
  <1>9. LoopInv'
    BY <1>1, <1>2, <1>4, FieldTypes DEF LoopInv
  <1>10. AloneInv'
    <2> SUFFICES ASSUME overlaps = 0 PROVE AloneInv'
      BY <1>1 DEF AloneInv
    <2>1. /\ row.indexed = indexed[b] /\ row.status = "building"
          /\ \A i \in Rows : docs[i] # 0 <=> i <= indexed[b]
      BY <1>1 DEF AloneInv
    <2>2. \A i \in Rows : docs'[i] # 0 <=> i <= upTo
      BY <1>4, <1>7, <2>1, FieldTypes DEF Rows
    <2>3. \A o \in Builds : UnderWay(o) => o = b
      BY <1>1 DEF AloneInv
    <2> QED
      BY <1>2, <1>5, <2>1, <2>2, <2>3 DEF AloneInv
  <1>11. PairInv'
    <2> SUFFICES ASSUME file.there, file.version = 1, overlaps <= 1 PROVE PairInv'
      BY <1>1 DEF PairInv
    <2>1. /\ \A i, j \in Rows : i <= j /\ docs[j] # 0 => docs[i] # 0
          /\ \A o \in Builds : UnderWay(o) => \A i \in Rows : i <= indexed[o] => docs[i] # 0
      BY DEF PairInv
    <2>2. \A i \in Rows : i <= upTo => docs'[i] # 0
      BY <1>1, <1>4, <1>7, <2>1, FieldTypes DEF Rows
    <2>3. \A i, j \in Rows : i <= j /\ docs'[j] # 0 => docs'[i] # 0
      BY <1>4, <1>7, <2>1, <2>2, FieldTypes DEF Rows
    <2>4. \A o \in Builds : UnderWay(o) => \A i \in Rows : i <= indexed'[o] => docs'[i] # 0
      BY <1>2, <1>7, <2>1, <2>2
    <2> QED
      BY <1>2, <1>3, <1>5, <2>2, <2>3, <2>4 DEF PairInv
  <1>12. VersionInv'
    <2> SUFFICES ASSUME file.version = 1 \/ (overlaps = 0 /\ row.stamp = file.stamp)
                 PROVE  VersionInv'
      BY <1>1, <1>2 DEF VersionInv
    <2>1. \A i \in Rows : docs'[i] \in {0, file.version}
      <3>1. \A k \in 1 .. Len(batch[b]) : batch[b][k] = file.version
        BY <1>1 DEF VersionInv
      <3>2. \A i \in Rows : docs[i] \in {0, file.version}
        BY DEF VersionInv
      <3>3. \A i \in Rows : i <= indexed[b] \/ i > upTo \/ (indexed[b] < i /\ i <= upTo)
        BY <1>4, FieldTypes DEF Rows
      <3> QED
        BY <1>6, <3>1, <3>2, <3>3
    <2>2. \A o \in Builds : UnderWay(o) => \A k \in 1 .. Len(batch'[o]) : batch'[o][k] = file.version
      BY <1>2, <1>4 DEF VersionInv
    <2> QED
      BY <1>1, <1>5, <2>1, <2>2 DEF VersionInv
  <1>13. RemovedInv'
    BY <1>1 DEF RemovedInv
  <1>14. SearchSeesAll'
    BY <1>1, <1>7, <1>12, SeenStays
  <1> QED
    BY <1>8, <1>9, <1>10, <1>11, <1>12, <1>13, <1>14

(* A build that finishes, stops or fails tells the row what it has stored.  *)
LEMMA EndInv ==
  ASSUME TypeOK, TypeOK', IndexIInv, NEW b \in Builds, Finish(b) \/ Stop(b) \/ Fail(b)
  PROVE  IndexIInv'
  <1> USE DEF IndexIInv, source
  <1>1. /\ UNCHANGED <<file, session, docs, builds, stamp, indexed, batch, adapter, overlaps>>
        /\ UnderWay(b) /\ pc[b] # "none"
    BY DEF Finish, Stop, Fail, UnderWay, bounds
  <1>2. PICK place \in {"ended", "finished"} : pc' = [pc EXCEPT ![b] = place]
    BY DEF Finish, Stop, Fail, End, GoTo
  <1>3. /\ \A o \in Builds \ {b} : pc'[o] = pc[o] /\ UnderWay(o)' = UnderWay(o)
        /\ ~UnderWay(b)' /\ pc'[b] \in {"ended", "finished"}
    BY <1>2, PlaceStep
  <1>4. NoNewBuild
    BY <1>3 DEF NoNewBuild
  <1>5. /\ row'.stamp = row.stamp
        /\ row = NoRow => row' = NoRow
        /\ row # NoRow => row' # NoRow /\ row'.status # "none"
        /\ row # NoRow => row'.indexed \in {row.indexed, indexed[b]}
    <2>1. CASE row' = row
      BY <2>1 DEF RowInv
    <2>2. CASE \E status \in {"pending", "ready", "failed"} : SetStatus(status, indexed[b])
      BY <2>2, SetStatusFields, FieldTypes
    <2> QED
      BY <2>1, <2>2 DEF Finish, Stop, Fail, CountToKeep
  <1>6. RowInv' /\ FileInv'
    BY <1>1, <1>5 DEF RowInv, FileInv
  <1>7. LoopInv'
    <2>1. indexed[b] + Len(batch[b]) <= Frames
      BY DEF LoopInv
    <2> QED
      BY <1>1, <1>2, <2>1, LoopStep DEF Places
  <1>8. overlaps = 0 => row'.indexed = row.indexed
    BY <1>1, <1>5 DEF AloneInv
  <1>9. AloneInv'
    <2>1. overlaps = 0 => \A o \in Builds : ~UnderWay(o)'
      BY <1>1, <1>3 DEF AloneInv
    <2> QED
      BY <1>1, <1>8, <2>1 DEF AloneInv
  <1>10. PairInv'
    <2> SUFFICES ASSUME file.there, file.version = 1, overlaps <= 1 PROVE PairInv'
      BY <1>1 DEF PairInv
    <2>1. \A i \in Rows : i <= row'.indexed => docs[i] # 0
      BY <1>1, <1>5 DEF PairInv
    <2> QED
      BY <1>1, <1>4, <1>5, <2>1 DEF PairInv, NoNewBuild
  <1>11. VersionInv'
    BY <1>1, <1>4, <1>5, VersionStays
  <1>12. RemovedInv'
    BY <1>1, <1>3, <1>5, <1>8 DEF RemovedInv
  <1>13. SearchSeesAll'
    BY <1>1, <1>11, SeenStays
  <1> QED
    BY <1>6, <1>7, <1>9, <1>10, <1>11, <1>12, <1>13

-----------------------------------------------------------------------------
(* The window, the removal and what comes from outside.                     *)

(* is_current and its callers: a stamp that is stored anew goes with what   *)
(* it was verified to stand for.                                            *)
LEMMA StampStored ==
  ASSUME TypeOK, TypeOK', IndexIInv, NEW at \in 0 .. MaxStamps + 1, IsCurrent(at),
         at <= file.stamp, row' = [row EXCEPT !.stamp = at],
         UNCHANGED <<file, session, docs, builds, pc, stamp, indexed, batch, overlaps>>
  PROVE  /\ FileInv' /\ LoopInv' /\ RowInv' /\ VersionInv' /\ AloneInv' /\ PairInv'
         /\ RemovedInv'
  <1> USE DEF IndexIInv
  <1>1. /\ row'.stamp = at /\ row'.status = row.status /\ row'.indexed = row.indexed
        /\ row'.status = "ready" /\ row' # NoRow /\ row # NoRow
    BY NoRowFields DEF TypeOK, Sources, IsCurrent
  <1>2. NoNewBuild
    BY DEF NoNewBuild, UnderWay
  <1>3. FileInv' /\ LoopInv' /\ RowInv'
    BY <1>1 DEF FileInv, LoopInv, RowInv
  <1>4. AloneInv'
    BY <1>1, <1>2, AloneStays
  <1>5. PairInv'
    BY <1>1, <1>2, PairStays
  <1>6. VersionInv'
    <2>1. file.version = 1 \/ row.stamp = at
      BY DEF IsCurrent, ContentMatches
    <2> QED
      BY <1>1, <1>2, <2>1, VersionStays
  <1>7. RemovedInv'
    BY <1>1 DEF RemovedInv
  <1> QED
    BY <1>3, <1>4, <1>5, <1>6, <1>7

(* start.                                                                   *)
LEMMA StartInv ==
  ASSUME TypeOK, TypeOK', IndexIInv, FindCurrent \/ StartBuild \/ Close
  PROVE  IndexIInv'
  <1> USE DEF IndexIInv, source, table, build, bounds
  <1>1. CASE FindCurrent
    <2>1. /\ UNCHANGED <<file, session, docs, builds, pc, stamp, indexed, batch, overlaps>>
          /\ IsCurrent(file.stamp) /\ row' = [row EXCEPT !.stamp = file.stamp]
          /\ file.there /\ session = "kept"
      BY <1>1 DEF FindCurrent, Refresh
    <2>2. /\ FileInv' /\ LoopInv' /\ RowInv' /\ VersionInv' /\ AloneInv' /\ PairInv'
          /\ RemovedInv'
      <3>1. file.stamp \in 0 .. MaxStamps + 1 /\ file.stamp <= file.stamp
        BY FieldTypes
      <3> QED
        BY <2>1, <3>1, StampStored
    <2>3. SearchSeesAll'
      <3>1. overlaps = 0 => Complete
        BY <2>1, CurrentMeansComplete
      <3> QED
        BY <2>1, <3>1 DEF SearchSeesAll, Complete
    <2> QED
      BY <2>2, <2>3
  <1>2. CASE StartBuild
    <2>1. /\ UNCHANGED <<file, session, row, docs, stamp, indexed, batch, overlaps>>
          /\ builds' = builds + 1 /\ pc' = [pc EXCEPT ![builds + 1] = "queued"]
          /\ builds + 1 \in Builds /\ builds \in Nat /\ ~adapter'.ready
      BY <1>2, IndexAssumption DEF StartBuild, GoTo, TypeOK, Builds
    <2>2. PICK b \in Builds : b = builds + 1
      BY <2>1
    <2>3. /\ pc'[b] = "queued" /\ ~UnderWay(b)'
          /\ \A o \in Builds \ {b} : pc'[o] = pc[o] /\ UnderWay(o)' = UnderWay(o)
      BY <2>1, <2>2, PlaceStep
    <2>4. NoNewBuild
      BY <2>3 DEF NoNewBuild
    <2>5. LoopInv'
      <3>1. pc[b] = "none" /\ batch[b] = <<>>
        BY <2>1, <2>2 DEF LoopInv, Builds
      <3> QED
        BY <2>1, <2>2, <2>3, <3>1 DEF LoopInv, Builds
    <2>6. AloneInv' /\ PairInv' /\ VersionInv'
      BY <2>1, <2>4, AloneStays, PairStays, VersionStays
    <2>7. RemovedInv'
      BY <2>1, <2>3 DEF RemovedInv
    <2> QED
      BY <2>1, <2>5, <2>6, <2>7 DEF FileInv, RowInv, SearchSeesAll
  <1>3. CASE Close
    <2>1. /\ UNCHANGED <<file, session, row, docs, builds, pc, stamp, indexed, batch, overlaps>>
          /\ ~adapter'.ready
      BY <1>3, NoRowFields DEF Close
    <2>2. NoNewBuild
      BY <2>1 DEF NoNewBuild, UnderWay
    <2>3. AloneInv' /\ PairInv' /\ VersionInv'
      BY <2>1, <2>2, AloneStays, PairStays, VersionStays
    <2> QED
      BY <2>1, <2>3 DEF FileInv, LoopInv, RowInv, RemovedInv, SearchSeesAll
  <1> QED
    BY <1>1, <1>2, <1>3

(* _build_completed and _build_failed.                                      *)
LEMMA HeardInv ==
  ASSUME TypeOK, TypeOK', IndexIInv, NEW b \in Builds, BuildCompleted(b) \/ BuildFailed(b)
  PROVE  IndexIInv'
  <1> USE DEF IndexIInv, source, table, build, bounds
  <1>1. UNCHANGED <<file, session, docs, builds, pc, stamp, indexed, batch, overlaps>>
    BY DEF BuildCompleted, BuildFailed
  <1>2. NoNewBuild
    BY <1>1 DEF NoNewBuild, UnderWay
  <1>3. CASE row' = row
    <2>1. AloneInv' /\ PairInv' /\ VersionInv'
      BY <1>1, <1>2, <1>3, AloneStays, PairStays, VersionStays
    <2>2. adapter'.ready /\ ~adapter'.error
            => (adapter.ready /\ ~adapter.error) \/ IsCurrent(stamp[b])
      BY ZenonT(40) DEF BuildCompleted, BuildFailed, TypeOK, Adapters
    <2>3. SearchSeesAll'
      <3>1. overlaps = 0 /\ file.version = 1 /\ session = "kept" /\ IsCurrent(stamp[b]) => Complete
        BY CurrentMeansComplete DEF FileInv
      <3> QED
        BY <1>1, <2>2, <3>1 DEF SearchSeesAll, Complete
    <2> QED
      BY <1>1, <1>3, <2>1, <2>3 DEF FileInv, LoopInv, RowInv, RemovedInv
  <1>4. CASE row' # row
    <2>1. IsCurrent(stamp[b]) /\ row' = [row EXCEPT !.stamp = stamp[b]]
      BY <1>4 DEF BuildCompleted, BuildFailed
    <2>2. /\ FileInv' /\ LoopInv' /\ RowInv' /\ VersionInv' /\ AloneInv' /\ PairInv'
          /\ RemovedInv'
      <3>1. stamp[b] \in 0 .. MaxStamps + 1 /\ stamp[b] <= file.stamp
        BY FieldTypes DEF FileInv
      <3> QED
        BY <1>1, <2>1, <3>1, StampStored
    <2>3. SearchSeesAll'
      <3>1. overlaps = 0 /\ file.version = 1 /\ session = "kept" => Complete
        BY <2>1, CurrentMeansComplete DEF FileInv
      <3> QED
        BY <1>1, <3>1 DEF SearchSeesAll, Complete
    <2> QED
      BY <2>2, <2>3
  <1> QED
    BY <1>3, <1>4

(* remove_session, a file that is written or touched, the end of the program*)
LEMMA OutsideInv ==
  ASSUME TypeOK, TypeOK', IndexIInv, RemoveFiles \/ RemoveIndex \/ Stamp \/ Kill
  PROVE  IndexIInv'
  <1> USE DEF IndexIInv, source, table, build, bounds
  <1>1. CASE RemoveFiles
    <2>1. /\ UNCHANGED <<row, docs, builds, pc, stamp, indexed, batch, overlaps>>
          /\ session = "kept" /\ session' = "removing" /\ ~file'.there
          /\ file'.version = file.version /\ file'.stamp = file.stamp
      BY <1>1 DEF RemoveFiles, TypeOK, Files
    <2>2. NoNewBuild
      BY <2>1 DEF NoNewBuild, UnderWay
    <2>3. AloneInv' /\ VersionInv'
      BY <2>1, <2>2, AloneStays, VersionStays
    <2>4. FileInv' /\ LoopInv' /\ RowInv'
      BY <2>1 DEF FileInv, LoopInv, RowInv
    <2> QED
      BY <2>1, <2>3, <2>4 DEF RemovedInv, PairInv, SearchSeesAll
  <1>2. CASE RemoveIndex
    <2>1. /\ UNCHANGED <<file, builds, pc, stamp, indexed, batch, overlaps>>
          /\ session = "removing" /\ session' \in {"removed", "left"} /\ ~file.there
      BY <1>2 DEF RemoveIndex, FileInv
    <2>2. NoNewBuild
      BY <2>1 DEF NoNewBuild, UnderWay
    <2>3. PairInv' /\ SearchSeesAll' /\ LoopInv'
      BY <2>1 DEF PairInv, SearchSeesAll, LoopInv
    <2>4. CASE row' = NoRow /\ docs' = NoDocs
      <3>1. AloneInv'
        <4>1. \A i \in Rows : ~(i <= 0)
          BY FieldTypes DEF Rows
        <4> QED
          BY <2>1, <2>2, <2>4, <4>1, NoRowFields DEF AloneInv, NoNewBuild
      <3>2. VersionInv'
        <4>1. file.stamp # 0 /\ file.version # 0
          BY FieldTypes
        <4> QED
          BY <2>1, <2>2, <2>4, <4>1, NoRowFields DEF VersionInv, NoNewBuild
      <3>3. FileInv'
        BY <2>1, <2>4, NoRowFields, FieldTypes DEF FileInv
      <3> QED
        BY <2>3, <2>4, <3>1, <3>2, <3>3, NoRowFields DEF RowInv, RemovedInv
    <2>5. CASE session' = "left" /\ UNCHANGED table
      <3>1. AloneInv' /\ VersionInv'
        BY <2>1, <2>2, <2>5, AloneStays, VersionStays
      <3> QED
        BY <2>1, <2>3, <2>5, <3>1 DEF FileInv, RowInv, RemovedInv
    <2> QED
      BY <1>2, <2>4, <2>5 DEF RemoveIndex
  <1>3. CASE Stamp
    <2>1. /\ UNCHANGED <<session, row, docs, builds, pc, stamp, indexed, batch, adapter, overlaps>>
          /\ file.there
      BY <1>3 DEF Stamp
    <2>2. PICK v \in {file.version, 2} :
             file' = [file EXCEPT !.version = v, !.stamp = @ + 1]
      BY <1>3 DEF Stamp
    <2>3. /\ file'.there = file.there /\ file'.version = v /\ file'.stamp = file.stamp + 1
      BY <2>2 DEF TypeOK, Files
    <2>4. v = 1 => file.version = 1
      BY <2>2
    <2>5. row.stamp < file'.stamp /\ \A b \in Builds : stamp[b] <= file'.stamp
      BY <2>3, FieldTypes DEF FileInv
    <2>6. NoNewBuild /\ \A b \in Builds : UnderWay(b)' = UnderWay(b)
      BY <2>1 DEF NoNewBuild, UnderWay
    <2>7. AloneInv' /\ PairInv'
      BY <2>1, <2>3, <2>4, <2>6, AloneStays, PairStays
    <2>8. VersionInv'
      <3>1. row.stamp # file'.stamp
        BY <2>5, FieldTypes
      <3> QED
        BY <2>1, <2>3, <2>4, <2>6, <3>1 DEF VersionInv
    <2>9. FileInv'
      <3>1. row.stamp <= file'.stamp
        BY <2>5, <2>3, FieldTypes
      <3> QED
        BY <2>1, <2>3, <2>5, <3>1 DEF FileInv
    <2>10. SearchSeesAll'
      BY <2>1, <2>3, <2>4, <2>8, SeenStays
    <2> QED
      BY <2>1, <2>7, <2>8, <2>9, <2>10 DEF LoopInv, RowInv, RemovedInv
  <1>4. CASE Kill
    <2>1. /\ UNCHANGED <<file, row, docs, builds, stamp, indexed, batch, overlaps>>
          /\ session' = "kept" => session = "kept"
          /\ session = "kept" => session' = "kept"
          /\ session' = "removed" => session = "removed"
          /\ ~adapter'.ready
          /\ pc' = [b \in Builds |-> IF pc[b] = "none" THEN "none" ELSE "ended"]
      BY <1>4, NoRowFields DEF Kill
    <2>2. \A b \in Builds : /\ pc'[b] = "none" <=> pc[b] = "none"
                            /\ pc'[b] \in {"none", "ended"} /\ ~UnderWay(b)'
      BY <2>1 DEF UnderWay
    <2>3. NoNewBuild
      BY <2>2 DEF NoNewBuild
    <2>4. AloneInv' /\ PairInv' /\ VersionInv'
      BY <2>1, <2>3, AloneStays, PairStays, VersionStays
    <2>5. LoopInv' /\ RemovedInv'
      BY <2>1, <2>2 DEF LoopInv, RemovedInv
    <2> QED
      BY <2>1, <2>4, <2>5 DEF FileInv, RowInv, SearchSeesAll
  <1> QED
    BY <1>1, <1>2, <1>3, <1>4

-----------------------------------------------------------------------------
(* The theorems about the index.                                         *)

(* The invariant holds at first.                                            *)
LEMMA InitInv == Init => TypeOK /\ IndexIInv
  <1> SUFFICES ASSUME Init PROVE TypeOK /\ IndexIInv
    OBVIOUS
  <1> USE NoRowFields, IndexAssumption DEF Init
  <1>1. TypeOK
    <2>1. file \in Files /\ row \in Sources /\ docs \in [Rows -> 0 .. 2] /\ adapter \in Adapters
      BY DEF Files
    <2>2. /\ pc \in [Builds -> Places] /\ stamp \in [Builds -> 0 .. MaxStamps + 1]
          /\ indexed \in [Builds -> 0 .. Frames] /\ cancelled \in [Builds -> BOOLEAN]
          /\ posted \in [Builds -> {"none", "completed", "failed"}]
      BY DEF Places
    <2>3. batch \in [Builds -> Seq(1 .. 2)] /\ \A b \in Builds : Len(batch[b]) <= Batch
      <3>1. <<>> \in Seq(1 .. 2) /\ Len(<<>>) = 0 /\ 0 <= Batch
        OBVIOUS
      <3> QED
        BY <3>1
    <2>4. \A b \in Builds : posted[b] # "none" => pc[b] = "ended"
      OBVIOUS
    <2>5. /\ builds \in 0 .. MaxBuilds /\ adapter.task <= builds
          /\ failures \in 0 .. MaxFailures /\ kills \in 0 .. MaxKills /\ overlaps \in Nat
      OBVIOUS
    <2> QED
      BY <2>1, <2>2, <2>3, <2>4, <2>5 DEF TypeOK
  <1>2. FileInv /\ LoopInv /\ RowInv
    <2>1. Len(<<>>) = 0 /\ \A b \in Builds : 0 < b
      BY DEF Builds
    <2> QED
      BY <2>1 DEF FileInv, LoopInv, RowInv
  <1>3. VersionInv /\ AloneInv /\ PairInv /\ RemovedInv /\ SearchSeesAll
    <2>1. \A i \in Rows : ~(i <= 0)
      BY DEF Rows
    <2>2. \A b \in Builds : ~UnderWay(b)
      BY DEF UnderWay
    <2> QED
      BY <2>1, <2>2 DEF VersionInv, AloneInv, PairInv, RemovedInv, SearchSeesAll
  <1> QED
    BY <1>1, <1>2, <1>3 DEF IndexIInv

(* Every step keeps it.                                                     *)
LEMMA StepInv == TypeOK /\ IndexIInv /\ [Next]_vars => (TypeOK /\ IndexIInv)'
  <1> SUFFICES ASSUME TypeOK, IndexIInv, [Next]_vars PROVE (TypeOK /\ IndexIInv)'
    OBVIOUS
  <1>1. ASSUME NEW b \in Builds, BuildStep(b) \/ BeginFails(b) \/ Raise(b)
        PROVE  (TypeOK /\ IndexIInv)'
    <2>1. TypeOK'
      BY <1>1, BuildTypes DEF IndexIInv
    <2>2. CASE Begin(b)
      BY <2>1, <2>2, BeginInv
    <2>3. CASE AppendBatch(b) /\ row # NoRow
      BY <2>1, <2>3, AppendInv
    <2>4. CASE Finish(b) \/ Stop(b) \/ Fail(b)
      BY <2>1, <2>4, EndInv
    <2> QED
      BY <1>1, <2>1, <2>2, <2>3, <2>4, QuietBuildInv DEF BuildStep
  <1>2. ASSUME \/ \E b \in Builds : BuildCompleted(b) \/ BuildFailed(b)
               \/ FindCurrent \/ StartBuild \/ Close \/ RemoveFiles \/ RemoveIndex \/ Stamp \/ Kill
        PROVE  (TypeOK /\ IndexIInv)'
    <2>1. TypeOK'
      BY <1>2, WindowTypes DEF IndexIInv
    <2> QED
      BY <1>2, <2>1, StartInv, HeardInv, OutsideInv
  <1>3. CASE UNCHANGED vars
    BY <1>3 DEF TypeOK, IndexIInv, FileInv, LoopInv, RowInv, VersionInv, AloneInv, PairInv,
                RemovedInv, SearchSeesAll, Complete, UnderWay, vars, source, table, build, bounds
  <1> QED
    BY <1>1, <1>2, <1>3 DEF Next

(* The row, the documents, the builds and the adapter stay in step.         *)
THEOREM IndexInvariant == Spec => [](TypeOK /\ IndexIInv)
BY InitInv, StepInv, PTL DEF Spec

(* An index that is taken for current holds every frame of the file as it   *)
(* is, and a session that was removed leaves none.                          *)
THEOREM IndexIsTheSession == Spec => []IndexFollowsSession
  <1>1. TypeOK /\ IndexIInv => IndexFollowsSession
    <2> SUFFICES ASSUME TypeOK, IndexIInv PROVE IndexFollowsSession
      OBVIOUS
    <2>1. CurrentIsComplete
      BY CurrentMeansComplete DEF IndexIInv, CurrentIsComplete
    <2>2. RemovedLeavesNoDocuments
      <3> SUFFICES ASSUME overlaps = 0, session = "removed" PROVE DocCount = 0
        BY DEF RemovedLeavesNoDocuments
      <3>1. 0 \in 0 .. Frames /\ \A i \in Rows : docs[i] # 0 <=> i <= 0
        BY FieldTypes DEF IndexIInv, AloneInv, RemovedInv
      <3> QED
        BY <3>1, CountOfPrefix
    <2> QED
      BY <2>1, <2>2 DEF IndexFollowsSession
  <1> QED
    BY <1>1, IndexInvariant, PTL

(* A search that is let through without an error misses no frame.           *)
THEOREM SearchMissesNothing == Spec => []SearchSeesAll
  <1>1. TypeOK /\ IndexIInv => SearchSeesAll
    BY DEF IndexIInv
  <1> QED
    BY <1>1, IndexInvariant, PTL

(* What cancelled, failed and killed builds have stored is never read again.*)
THEOREM StoredWorkIsKept == Spec => WorkIsKept
  <1>1. TypeOK /\ IndexIInv /\ [Next]_vars =>
           [overlaps' = 0 /\ file.version = 1 /\ session' = "kept"
              => \A i \in Rows : docs[i] # 0 => docs'[i] # 0]_vars
    <2> SUFFICES ASSUME TypeOK, IndexIInv, [Next]_vars,
                        overlaps' = 0, file.version = 1, session' = "kept"
                 PROVE  \A i \in Rows : docs[i] # 0 => docs'[i] # 0
      OBVIOUS
    <2>1. ASSUME NEW b \in Builds, Begin(b)
          PROVE  \A i \in Rows : docs[i] # 0 => docs'[i] # 0
      <3>1. overlaps = 0 /\ session = "kept" /\ docs' = DocsToResume(b)
        BY <2>1, FieldTypes DEF Begin, source
      <3> QED
        BY <3>1, BeginKeeps DEF IndexIInv, FileInv
    <2>2. ASSUME NEW b \in Builds, AppendBatch(b), row # NoRow
          PROVE  \A i \in Rows : docs[i] # 0 => docs'[i] # 0
      <3>1. docs' = [i \in Rows |-> IF i \in indexed[b] + 1 .. indexed[b] + Len(batch[b])
                                      THEN batch[b][i - indexed[b]] ELSE docs[i]]
        BY <2>2 DEF AppendBatch
      <3>2. ASSUME NEW i \in indexed[b] + 1 .. indexed[b] + Len(batch[b])
            PROVE  batch[b][i - indexed[b]] # 0
        <4>1. i - indexed[b] \in 1 .. Len(batch[b]) /\ batch[b] \in Seq(1 .. 2)
          BY FieldTypes
        <4> QED
          BY <4>1
      <3> QED
        BY <3>1, <3>2
    <2>3. CASE docs' = docs
      BY <2>3
    <2>4. ASSUME NEW b \in Builds, BuildStep(b) \/ BeginFails(b) \/ Raise(b)
          PROVE  docs' = docs \/ Begin(b) \/ (AppendBatch(b) /\ row # NoRow)
      BY <2>4 DEF BuildStep, BeginFails, Raise, Fingerprint, OpenFrames, ReadFrame, AppendBatch,
                  Finish, Report, Stop, Fail, table
    <2>5. ASSUME \/ \E b \in Builds : BuildCompleted(b) \/ BuildFailed(b)
                 \/ FindCurrent \/ StartBuild \/ Close \/ RemoveFiles \/ RemoveIndex \/ Stamp
                 \/ Kill \/ UNCHANGED vars
          PROVE  docs' = docs
      BY <2>5 DEF BuildCompleted, BuildFailed, FindCurrent, StartBuild, Close, RemoveFiles,
                  RemoveIndex, Stamp, Kill, vars, table
    <2> QED
      BY <2>1, <2>2, <2>3, <2>4, <2>5 DEF Next
  <1> QED
    BY <1>1, IndexInvariant, PTL DEF Spec, WorkIsKept

-----------------------------------------------------------------------------
(* The image of the logical messages.  The inductive invariant follows it  *)
(* from the fingerprint the worker takes to the rows that the tab shows.   *)

(* The values that things start with and are set back to.                   *)
LEMMA BlankTypes ==
    /\ NoImage \in Images /\ NoImage.rows = <<>> /\ ~NoImage.committed
    /\ NoWorker \in Workers /\ NoWorker.at = "none" /\ NoWorker.tries = 0
    /\ NoFilter \in Tasks /\ ~NoFilter.newest
  <1>1. Made(0, 0) \in Mades
    BY CacheAssumption DEF Made, Mades
  <1>2. <<>> \in Seq(Mades)
    OBVIOUS
  <1>3. NoImage \in Images /\ NoImage.rows = <<>> /\ ~NoImage.committed
    BY <1>1, <1>2, CacheAssumption DEF NoImage, Images
  <1>4. NoWorker \in Workers /\ NoWorker.at = "none" /\ NoWorker.tries = 0
    BY <1>1, CacheAssumption DEF NoWorker, Workers
  <1>5. NoFilter \in Tasks /\ ~NoFilter.newest
    BY <1>3 DEF NoFilter, Tasks
  <1> QED
    BY <1>3, <1>4, <1>5

(* A worker that starts or ends has done nothing yet or no more.            *)
LEMMA WorkerTypesAt ==
    /\ \A w \in Workers : \A force \in BOOLEAN :
           /\ [w EXCEPT !.at = "started", !.force = force] \in Workers
           /\ \A a \in {"written", "building", "replacing", "succeeded", "failing", "failed"} :
                 [w EXCEPT !.at = a] \in Workers
           /\ \A m \in Mades : [w EXCEPT !.at = "signed", !.signed = m] \in Workers
           /\ \A d \in 0 .. MaxEdits + 1 :
                 [w EXCEPT !.at = "inserting", !.decoder = d] \in Workers
    /\ \A w \in Workers : w.tries < Attempts =>
           [w EXCEPT !.tries = @ + 1,
                     !.at = IF w.tries + 1 = Attempts THEN "failing" ELSE @] \in Workers
  <1>1. ASSUME NEW w \in Workers, w.tries < Attempts
        PROVE  [w EXCEPT !.tries = @ + 1,
                         !.at = IF w.tries + 1 = Attempts THEN "failing" ELSE @] \in Workers
    <2>1. w.tries + 1 \in 0 .. Attempts
      BY <1>1, CacheAssumption DEF Workers
    <2> QED
      BY <2>1 DEF Workers
  <1> QED
    BY <1>1 DEF Workers

(* The fingerprint of the files as they are, and what goes into a row.        *)
LEMMA FingerprintType ==
  ASSUME CacheTypeOK
  PROVE  /\ ActiveDbc \in 0 .. MaxEdits + 1 /\ ActiveDbc <= dbcFile
         /\ (ActiveDbc # 0) = view.dbc
         /\ AnalysisFingerprint = [data |-> data, dbc |-> ActiveDbc]
         /\ AnalysisFingerprint \in Mades
         /\ \A d \in 0 .. MaxEdits + 1 : Made(data, d) \in Mades
  <1>1. /\ ActiveDbc \in 0 .. MaxEdits + 1 /\ ActiveDbc <= dbcFile
        /\ (ActiveDbc # 0) = view.dbc
    BY CacheAssumption DEF CacheTypeOK, ActiveDbc, Views
  <1>2. \A d \in 0 .. MaxEdits + 1 : Made(data, d) \in Mades
    BY CacheAssumption DEF CacheTypeOK, Made, Mades
  <1> QED
    BY <1>1, <1>2 DEF AnalysisFingerprint, Made

-----------------------------------------------------------------------------
(* Types.                                                                   *)

(* A step of the worker keeps the types.                                    *)
LEMMA WorkerTypes ==
  ASSUME CacheTypeOK, OwnedInv, WorkerStep \/ WorkerRaises \/ Crash
  PROVE  CacheTypeOK'
  <1> USE BlankTypes, CacheAssumption DEF CacheTypeOK, sources, images, tab
  <1>1. CASE Sign
    BY <1>1, WorkerTypesAt, FingerprintType DEF Sign
  <1>2. CASE Decide
    BY <1>2, WorkerTypesAt DEF Decide
  <1>3. CASE OpenTemporary
    <2>1. [NoImage EXCEPT !.build = loads] \in Images
      BY DEF Images
    <2> QED
      BY <1>3, <2>1, WorkerTypesAt, FingerprintType DEF OpenTemporary
  <1>4. CASE Insert
    <2>1. worker.decoder \in 0 .. MaxEdits + 1 /\ temporary.rows \in Seq(Mades)
      BY DEF Workers, Images
    <2>2. Made(data, worker.decoder) \in Mades
      BY <2>1, FingerprintType
    <2>3. Append(temporary.rows, Made(data, worker.decoder)) \in Seq(Mades)
      BY <2>1, <2>2
    <2>4. temporary' \in Images
      BY <1>4, <2>3 DEF Insert, Images
    <2> QED
      BY <1>4, <2>4 DEF Insert
  <1>5. CASE Commit
    <2>1. \A m \in Mades : [temporary EXCEPT !.of = m, !.committed = TRUE] \in Images
      BY DEF Images
    <2>2. worker.signed \in Mades
      BY DEF Workers
    <2>3. temporary' \in Images
      BY <1>5, <2>1, <2>2 DEF Commit
    <2> QED
      BY <1>5, <2>3, WorkerTypesAt DEF Commit
  <1>6. CASE Replace
    <2>1. worker' \in Workers
      BY <1>6, WorkerTypesAt DEF Replace, OwnedInv
    <2>2. {cache', temporary'} \subseteq Images
      BY <1>6 DEF Replace
    <2> QED
      BY <1>6, <2>1, <2>2 DEF Replace
  <1>7. CASE WriteResult
    BY <1>7, WorkerTypesAt DEF WriteResult
  <1>8. CASE Unwind
    BY <1>8, WorkerTypesAt DEF Unwind
  <1>9. CASE WorkerRaises
    <2>1. workerFailures' \in 0 .. MaxWorkerFailures
      BY <1>9 DEF WorkerRaises
    <2>2. worker' \in Workers
      BY <1>9, WorkerTypesAt DEF WorkerRaises
    <2> QED
      BY <1>9, <2>1, <2>2 DEF WorkerRaises
  <1>10. CASE Crash
    <2>1. workerFailures' \in 0 .. MaxWorkerFailures
      BY <1>10 DEF Crash
    <2>2. worker' \in Workers
      BY <1>10, WorkerTypesAt DEF Crash
    <2> QED
      BY <1>10, <2>1, <2>2 DEF Crash
  <1> QED
    BY <1>1, <1>2, <1>3, <1>4, <1>5, <1>6, <1>7, <1>8, <1>9, <1>10 DEF WorkerStep

(* A step of the tab, of a filter task or of another program does too.      *)
LEMMA TabTypes ==
  ASSUME CacheTypeOK,
         \/ \E force \in BOOLEAN : Load(force)
         \/ ChangeDbc \/ OpenImage \/ ShowFailure \/ ShowAll \/ ClearFilters \/ CloseTab
         \/ OpenTab
         \/ \E f \in Filters : StartFilter(f) \/ OpenFilter(f) \/ EndFilter(f) \/ ShowFiltered(f)
         \/ EditData \/ EditDbc
  PROVE  CacheTypeOK'
  <1> USE BlankTypes, CacheAssumption DEF CacheTypeOK, sources, images, tab
  <1>1. NewGeneration \in [Filters -> Tasks]
    BY DEF NewGeneration, Tasks
  <1>2. ASSUME NEW force \in BOOLEAN, Launch(force)
        PROVE  worker' \in Workers /\ loads' \in 0 .. MaxLoads
    <2>1. worker' \in Workers
      BY <1>2, WorkerTypesAt DEF Launch
    <2>2. loads' \in 0 .. MaxLoads
      BY <1>2 DEF Launch
    <2> QED
      BY <2>1, <2>2
  <1>3. ASSUME NEW force \in BOOLEAN, Load(force) PROVE CacheTypeOK'
    BY <1>1, <1>2, <1>3 DEF Load, Views
  <1>4. CASE ChangeDbc
    <2>1. view' \in Views
      <3>1. ASSUME NEW b, b = ~view.dbc
            PROVE  /\ [state |-> "loading", dbc |-> b] \in Views
                   /\ [state |-> "idle", dbc |-> b] \in Views
        BY <3>1 DEF Views
      <3> QED
        BY <1>4, <3>1 DEF ChangeDbc
    <2>2. worker' \in Workers /\ loads' \in 0 .. MaxLoads
      BY <1>2, <1>4 DEF ChangeDbc
    <2> QED
      BY <1>1, <1>4, <2>1, <2>2 DEF ChangeDbc
  <1>5. CASE OpenImage
    BY <1>5 DEF OpenImage, Views
  <1>6. CASE ShowFailure
    BY <1>6 DEF ShowFailure, Views
  <1>7. CASE ShowAll \/ ClearFilters
    BY <1>1, <1>7 DEF ShowAll, ClearFilters, Tasks
  <1>8. CASE CloseTab
    BY <1>1, <1>8 DEF CloseTab, Views
  <1>9. CASE OpenTab
    BY <1>9 DEF OpenTab, Views
  <1>10. ASSUME NEW f \in Filters,
                StartFilter(f) \/ OpenFilter(f) \/ EndFilter(f) \/ ShowFiltered(f)
         PROVE  CacheTypeOK'
    <2>1. /\ [state |-> "queued", newest |-> TRUE, image |-> NoImage] \in Tasks
          /\ [NoFilter EXCEPT !.state = "shown"] \in Tasks
          /\ [filter[f] EXCEPT !.state = "completed"] \in Tasks
          /\ \A s \in {"open", "failed"} :
                [filter[f] EXCEPT !.state = s, !.image = cache] \in Tasks
      BY DEF Tasks
    <2>2. filter' \in [Filters -> Tasks]
      <3>1. CASE StartFilter(f)
        BY <1>1, <2>1, <3>1 DEF StartFilter
      <3>2. CASE OpenFilter(f)
        <4>1. filter' = [filter EXCEPT ![f] = [filter[f] EXCEPT
                            !.state = IF cache = NoImage THEN "failed" ELSE "open",
                            !.image = cache]]
          BY <3>2 DEF OpenFilter, Tasks
        <4> QED
          BY <2>1, <4>1
      <3>3. CASE EndFilter(f)
        BY <2>1, <3>3 DEF EndFilter
      <3>4. CASE ShowFiltered(f)
        BY <2>1, <3>4 DEF ShowFiltered
      <3> QED
        BY <1>10, <3>1, <3>2, <3>3, <3>4
    <2>3. CASE ShowFiltered(f)
      <3>1. filter[f].image \in Images
        BY DEF Tasks
      <3> QED
        BY <2>2, <2>3, <3>1 DEF ShowFiltered
    <2>4. CASE StartFilter(f) \/ OpenFilter(f) \/ EndFilter(f)
      BY <2>2, <2>4 DEF StartFilter, OpenFilter, EndFilter
    <2> QED
      BY <1>10, <2>3, <2>4
  <1>11. CASE EditData
    BY <1>11 DEF EditData
  <1>12. CASE EditDbc
    BY <1>12 DEF EditDbc
  <1> QED
    BY <1>3, <1>4, <1>5, <1>6, <1>7, <1>8, <1>9, <1>10, <1>11, <1>12
(* Every step keeps the types.                                              *)
LEMMA TypeStep ==
  ASSUME CacheTypeOK, OwnedInv, [CacheNext]_cachevars
  PROVE  CacheTypeOK'
  <1>1. CASE WorkerStep \/ WorkerRaises \/ Crash
    BY <1>1, WorkerTypes
  <1>2. CASE UNCHANGED cachevars
    BY <1>2 DEF CacheTypeOK, cachevars, sources, images, tab
  <1> QED
    BY <1>1, <1>2, TabTypes DEF CacheNext

-----------------------------------------------------------------------------
(* The invariant.                                                           *)

(* What the types say of the fields that the invariant compares.            *)
LEMMA CacheFieldTypes ==
  ASSUME CacheTypeOK
  PROVE  /\ data \in Nat /\ dbcFile \in Nat /\ dbcFile # 0
         /\ worker.signed.data \in Nat /\ worker.signed.dbc \in Nat
         /\ worker.decoder \in Nat /\ worker.tries \in Nat
         /\ temporary.rows \in Seq(Mades)
         /\ \A image \in Images : image.of.data \in Nat /\ image.of.dbc \in Nat
         /\ \A image \in Images : \A i \in 1 .. Len(image.rows) :
               image.rows[i].data \in Nat /\ image.rows[i].dbc \in Nat
  <1>1. \A m \in Mades : m.data \in Nat /\ m.dbc \in Nat
    BY CacheAssumption DEF Mades
  <1>2. \A image \in Images : image.of \in Mades /\ image.rows \in Seq(Mades)
    BY DEF Images
  <1>3. worker.signed \in Mades /\ worker.decoder \in Nat /\ worker.tries \in Nat
    BY CacheAssumption DEF CacheTypeOK, Workers
  <1>4. data \in Nat /\ dbcFile \in Nat /\ dbcFile # 0
    BY CacheAssumption DEF CacheTypeOK
  <1>5. temporary.rows \in Seq(Mades)
    BY <1>2 DEF CacheTypeOK
  <1>6. \A s \in Seq(Mades) : \A i \in 1 .. Len(s) : s[i] \in Mades
    OBVIOUS
  <1> QED
    BY <1>1, <1>2, <1>3, <1>4, <1>5, <1>6

(* Rows stay true of their fingerprint when files get newer.                *)
LEMMA SinceStays ==
  ASSUME CacheTypeOK, CacheTypeOK', data <= data', dbcFile <= dbcFile'
  PROVE  /\ \A entry, of : MadeSince(entry, of) /\ entry.data \in Nat /\ entry.dbc \in Nat
                             => MadeSince(entry, of)'
         /\ \A image \in Images : Whole(image) => Whole(image)'
  <1>1. \A entry, of : MadeSince(entry, of) /\ entry.data \in Nat /\ entry.dbc \in Nat
                         => MadeSince(entry, of)'
    <2>1. data \in Nat /\ data' \in Nat /\ dbcFile \in Nat /\ dbcFile' \in Nat
      BY CacheAssumption DEF CacheTypeOK
    <2> QED
      BY <2>1 DEF MadeSince
  <1>2. ASSUME NEW image \in Images, Whole(image) PROVE Whole(image)'
    <2>1. \A i \in 1 .. Messages : image.rows[i].data \in Nat /\ image.rows[i].dbc \in Nat
      BY <1>2, CacheFieldTypes DEF Whole
    <2> QED
      BY <1>1, <1>2, <2>1 DEF Whole
  <1> QED
    BY <1>1, <1>2

(* What the worker and the path hold is kept by a step that touches neither *)
(* them nor the state of the tab.                                           *)
LEMMA WorkStays ==
  ASSUME CacheTypeOK, CacheTypeOK', CacheIInv, UNCHANGED <<worker, images, view>>,
         data <= data', dbcFile <= dbcFile'
  PROVE  CacheInv' /\ OwnedInv' /\ SignedInv' /\ InsertedInv' /\ ReplacedInv'
  <1> USE CacheFieldTypes, SinceStays DEF CacheIInv, images
  <1>0. {cache, temporary} \subseteq Images
    BY DEF CacheTypeOK
  <1>1. CacheInv'
    BY <1>0 DEF CacheInv
  <1>2. OwnedInv'
    BY DEF OwnedInv
  <1>3. SignedInv'
    <2>1. data' \in Nat /\ dbcFile' \in Nat
      BY CacheAssumption DEF CacheTypeOK
    <2> QED
      BY <2>1 DEF SignedInv
  <1>4. InsertedInv'
    <2>1. dbcFile' \in Nat
      BY CacheAssumption DEF CacheTypeOK
    <2>2. \A i \in 1 .. Len(temporary.rows) :
             MadeSince(temporary.rows[i], worker.signed)
                 => MadeSince(temporary.rows[i], worker.signed)'
      BY <1>0
    <2> QED
      BY <2>1, <2>2 DEF InsertedInv
  <1>5. ReplacedInv'
    BY <1>0 DEF ReplacedInv, AsAsked
  <1> QED
    BY <1>1, <1>2, <1>3, <1>4, <1>5
(* A step of the worker.                                                    *)
LEMMA WorkerInv ==
  ASSUME CacheTypeOK, CacheTypeOK', CacheIInv, WorkerStep \/ WorkerRaises \/ Crash
  PROVE  CacheIInv'
  <1> USE DEF CacheIInv, sources, images, tab
  <1>1. /\ worker.at # "none" /\ view.state = "loading"
        /\ UNCHANGED <<data, dbcFile, loads, view, shown, visible, filter>>
    <2>1. UNCHANGED <<data, dbcFile, loads, view, shown, visible, filter>>
      BY DEF WorkerStep, Sign, Decide, OpenTemporary, Insert, Commit, Replace, WriteResult,
             Unwind, WorkerRaises, Crash
    <2>2. worker.at # "none"
      BY DEF WorkerStep, Sign, Decide, OpenTemporary, Insert, Commit, Replace, WriteResult,
             Unwind, WorkerRaises, Crash, Running
    <2> QED
      BY <2>1, <2>2 DEF OwnedInv
  <1>2. TabInv' /\ FilterInv'
    BY <1>1 DEF TabInv, FilterInv
  <1>3. \A image : Whole(image)' = Whole(image) /\ AsAsked(image)' = AsAsked(image)
    BY <1>1 DEF Whole, AsAsked, MadeSince
  <1>4. \A entry, of : MadeSince(entry, of)' = MadeSince(entry, of)
    BY <1>1 DEF MadeSince
  <1>5. worker \in Workers /\ 0 < Attempts /\ Attempts \in Nat
    BY CacheAssumption DEF CacheTypeOK
  <1>6. CASE Sign
    <2>1. worker'.at = "signed" /\ worker'.signed = AnalysisFingerprint /\ worker'.tries = worker.tries
      BY <1>5, <1>6 DEF Sign, Workers
    <2>2. SignedInv'
      BY <1>1, <2>1, FingerprintType, CacheFieldTypes DEF SignedInv
    <2> QED
      BY <1>1, <1>2, <1>3, <1>6, <2>1, <2>2
         DEF Sign, CacheInv, OwnedInv, InsertedInv, ReplacedInv
  <1>7. CASE Decide
    <2>1. /\ worker'.at \in {"written", "building"}
          /\ worker'.signed = worker.signed /\ worker'.tries = worker.tries
          /\ worker'.at = "written" => Believes(cache, worker.signed)
      BY <1>5, <1>7 DEF Decide, Workers
    <2>2. SignedInv'
      BY <1>1, <1>7, <2>1 DEF SignedInv, Decide
    <2>3. worker'.at = "written" => Whole(cache) /\ AsAsked(cache)
      BY <1>7, <2>1, BlankTypes DEF Decide, Believes, AsAsked, CacheInv, SignedInv
    <2> QED
      BY <1>1, <1>2, <1>3, <1>7, <2>1, <2>2, <2>3
         DEF Decide, CacheInv, OwnedInv, InsertedInv, ReplacedInv
  <1>8. CASE OpenTemporary
    <2>1. /\ worker'.at = "inserting" /\ worker'.decoder = ActiveDbc
          /\ worker'.signed = worker.signed /\ worker'.tries = worker.tries
      BY <1>5, <1>8 DEF OpenTemporary, Workers
    <2>2. temporary'.rows = <<>>
      BY <1>8 DEF OpenTemporary, NoImage
    <2>3. InsertedInv'
      <3>1. /\ worker.signed.dbc <= dbcFile /\ (worker.signed.dbc # 0) = view.dbc
        BY <1>8 DEF OpenTemporary, SignedInv
      <3>2. worker.signed.dbc <= ActiveDbc /\ ActiveDbc <= dbcFile
        BY <3>1, FingerprintType, CacheFieldTypes DEF ActiveDbc
      <3>3. worker.signed.dbc = 0 <=> ActiveDbc = 0
        BY <3>1, FingerprintType
      <3>4. Len(temporary'.rows) = 0 /\ Messages \in Nat
        BY <2>2, CacheAssumption
      <3> QED
        BY <1>1, <2>1, <3>2, <3>3, <3>4 DEF InsertedInv
    <2> QED
      BY <1>1, <1>2, <1>3, <1>8, <2>1, <2>3
         DEF OpenTemporary, CacheInv, OwnedInv, SignedInv, ReplacedInv
  <1>9. CASE Insert
    <2> DEFINE entry == Made(data, worker.decoder)
    <2>1. entry.data = data /\ entry.dbc = worker.decoder
      BY DEF Made
    <2>2. MadeSince(entry, worker.signed)
      BY <1>9, <2>1, CacheFieldTypes DEF Insert, MadeSince, SignedInv, InsertedInv
    <2>3. temporary'.rows = Append(temporary.rows, entry)
      BY <1>9 DEF Insert, CacheTypeOK, Images
    <2>4. InsertedInv'
      <3>1. /\ Len(temporary'.rows) = Len(temporary.rows) + 1
            /\ \A i \in 1 .. Len(temporary.rows) : temporary'.rows[i] = temporary.rows[i]
            /\ temporary'.rows[Len(temporary.rows) + 1] = entry
            /\ Len(temporary.rows) \in Nat
        <4>1. entry \in Mades
          BY FingerprintType DEF CacheTypeOK, Workers
        <4> QED
          BY <2>3, <4>1, CacheFieldTypes
      <3>2. Len(temporary'.rows) <= Messages
        BY <1>9, <3>1, CacheAssumption DEF Insert
      <3>3. \A i \in 1 .. Len(temporary'.rows) : MadeSince(temporary'.rows[i], worker.signed)
        <4>1. \A i \in 1 .. Len(temporary.rows) : MadeSince(temporary.rows[i], worker.signed)
          BY <1>9 DEF Insert, InsertedInv
        <4>2. \A i \in 1 .. Len(temporary.rows) + 1 :
                 i \in 1 .. Len(temporary.rows) \/ i = Len(temporary.rows) + 1
          BY <3>1
        <4> QED
          BY <2>2, <3>1, <4>1, <4>2
      <3> QED
        BY <1>1, <1>4, <1>9, <3>2, <3>3 DEF Insert, InsertedInv
    <2> QED
      BY <1>1, <1>2, <1>3, <1>9, <2>4 DEF Insert, CacheInv, OwnedInv, SignedInv, ReplacedInv
  <1>10. CASE Commit
    <2>1. /\ worker'.at = "replacing" /\ worker'.signed = worker.signed
          /\ worker'.tries = worker.tries
      BY <1>5, <1>10 DEF Commit, Workers
    <2>2. /\ temporary'.rows = temporary.rows /\ temporary'.of = worker.signed
          /\ temporary'.committed
      BY <1>10 DEF Commit, CacheTypeOK, Images
    <2>3. Whole(temporary') /\ AsAsked(temporary')
      BY <1>10, <2>2 DEF Commit, Whole, AsAsked, InsertedInv, SignedInv
    <2> QED
      BY <1>1, <1>2, <1>3, <1>10, <2>1, <2>3
         DEF Commit, CacheInv, OwnedInv, SignedInv, InsertedInv, ReplacedInv
  <1>11. CASE Replace
    <2>1. CASE UNCHANGED images
      <3>1. /\ worker'.at \in {"failing", "replacing"} /\ worker'.signed = worker.signed
            /\ worker'.tries = worker.tries + 1 \/ worker'.tries = worker.tries
            /\ worker'.at = "replacing" => worker'.tries < Attempts
        <4>1. worker.tries < Attempts /\ worker.tries \in Nat /\ worker.at = "replacing"
          BY <1>11, CacheFieldTypes DEF Replace, OwnedInv
        <4>2. CASE worker' = [worker EXCEPT !.tries = @ + 1,
                                 !.at = IF worker.tries + 1 = Attempts THEN "failing" ELSE @]
          BY <1>5, <4>1, <4>2 DEF Workers
        <4>3. CASE cache' = temporary /\ temporary' = NoImage
          <5>1. temporary = NoImage
            BY <2>1, <4>3
          <5> QED
            BY <1>11, <5>1, BlankTypes DEF Replace, ReplacedInv, Whole
        <4> QED
          BY <1>11, <4>2, <4>3 DEF Replace
      <3> QED
        BY <1>1, <1>2, <1>3, <1>11, <2>1, <3>1
           DEF Replace, CacheInv, OwnedInv, SignedInv, InsertedInv, ReplacedInv
    <2>2. CASE cache' = temporary /\ worker' = [worker EXCEPT !.at = "written"]
      <3>1. /\ worker'.at = "written" /\ worker'.signed = worker.signed
            /\ worker'.tries = worker.tries
        BY <1>5, <2>2 DEF Workers
      <3>2. Whole(temporary) /\ AsAsked(temporary)
        BY <1>11 DEF Replace, ReplacedInv
      <3> QED
        BY <1>1, <1>2, <1>3, <1>11, <2>2, <3>1, <3>2
           DEF Replace, CacheInv, OwnedInv, SignedInv, InsertedInv, ReplacedInv
    <2> QED
      BY <1>11, <2>1, <2>2 DEF Replace
  <1>12. CASE WriteResult
    <2>1. worker'.at = "succeeded" /\ worker'.tries = 0
      BY <1>12, BlankTypes DEF WriteResult, NoWorker
    <2> QED
      BY <1>1, <1>2, <1>3, <1>5, <1>12, <2>1
         DEF WriteResult, CacheInv, OwnedInv, SignedInv, InsertedInv, ReplacedInv
  <1>13. CASE Unwind \/ WorkerRaises \/ Crash
    <2>1. worker'.at \in {"failed", "failing"} /\ worker'.tries = 0 /\ cache' = cache
      BY <1>13, BlankTypes DEF Unwind, WorkerRaises, Crash, NoWorker
    <2> QED
      BY <1>1, <1>2, <1>3, <1>5, <2>1
         DEF CacheInv, OwnedInv, SignedInv, InsertedInv, ReplacedInv
  <1> QED
    BY <1>6, <1>7, <1>8, <1>9, <1>10, <1>11, <1>12, <1>13 DEF WorkerStep
(* No task of the old generations is the newest.                            *)
LEMMA NewGenerationFacts ==
  ASSUME CacheTypeOK
  PROVE  \A f \in Filters : /\ ~NewGeneration[f].newest
                            /\ NewGeneration[f].state = filter[f].state
BY DEF CacheTypeOK, Tasks, NewGeneration

(* A step of the tab that starts, kills or hears of a worker.               *)
LEMMA LoadInv ==
  ASSUME CacheTypeOK, CacheTypeOK', CacheIInv,
         \/ \E force \in BOOLEAN : Load(force)
         \/ ChangeDbc \/ OpenImage \/ ShowFailure \/ CloseTab \/ OpenTab
  PROVE  CacheIInv'
  <1> USE DEF CacheIInv, sources, images, tab
  <1>1. UNCHANGED <<data, dbcFile, cache, temporary>>
    BY DEF Load, ChangeDbc, OpenImage, ShowFailure, CloseTab, OpenTab
  <1>2. \A image : Whole(image)' = Whole(image)
    BY <1>1 DEF Whole, MadeSince
  <1>3. CacheInv'
    BY <1>1, <1>2 DEF CacheInv
  <1>4. ASSUME worker'.at \in {"none", "started"}, worker'.tries = 0,
               worker'.at = "none" \/ view'.state = "loading"
        PROVE  OwnedInv' /\ SignedInv' /\ InsertedInv' /\ ReplacedInv'
    BY <1>4, CacheAssumption DEF OwnedInv, SignedInv, InsertedInv, ReplacedInv
  <1>5. ASSUME view'.state # "ready", shown' = NoImage, visible' = NoImage,
               filter' = NewGeneration \/ (filter' = filter /\ view.state # "ready")
        PROVE  TabInv' /\ FilterInv'
    BY <1>5, NewGenerationFacts DEF TabInv, FilterInv
  <1>6. ASSUME NEW force \in BOOLEAN, Launch(force)
        PROVE  worker'.at = "started" /\ worker'.tries = 0
    BY <1>6, BlankTypes DEF Launch, Workers
  <1>7. NoWorker.at = "none" /\ NoWorker.tries = 0
    BY BlankTypes
  <1>8. view \in Views
    BY DEF CacheTypeOK
  <1>9. view.state # "ready" => shown = NoImage /\ visible = NoImage
    BY DEF TabInv
  <1>10. ASSUME NEW force \in BOOLEAN, Load(force) PROVE CacheIInv'
    <2>1. view'.state = "loading" /\ shown' = NoImage /\ visible' = NoImage
      BY <1>8, <1>10 DEF Load, Views
    <2>2. filter' = NewGeneration /\ Launch(force)
      BY <1>10 DEF Load
    <2> QED
      BY <1>3, <1>4, <1>5, <1>6, <2>1, <2>2
  <1>11. CASE ChangeDbc
    <2>1. shown' = NoImage /\ visible' = NoImage /\ filter' = NewGeneration
      BY <1>11 DEF ChangeDbc
    <2>2. \A s, b : [state |-> s, dbc |-> b].state = s
      OBVIOUS
    <2>3. \/ view'.state = "loading" /\ Launch(TRUE)
          \/ view'.state = "idle" /\ worker' = NoWorker
      BY <1>11, <2>2 DEF ChangeDbc
    <2>4. CASE view'.state = "loading" /\ Launch(TRUE)
      BY <1>3, <1>4, <1>5, <1>6, <2>1, <2>4
    <2>5. CASE view'.state = "idle" /\ worker' = NoWorker
      BY <1>3, <1>4, <1>5, <1>7, <2>1, <2>5
    <2> QED
      BY <2>3, <2>4, <2>5
  <1>12. CASE OpenImage
    <2>1. OwnedInv' /\ SignedInv' /\ InsertedInv' /\ ReplacedInv'
      BY <1>4, <1>7, <1>12 DEF OpenImage
    <2>2. Whole(cache) /\ AsAsked(cache)
      BY <1>12 DEF OpenImage, ReplacedInv
    <2>3. cache # NoImage
      BY <2>2, BlankTypes DEF Whole
    <2>4. view'.state = "ready" /\ view'.dbc = view.dbc /\ shown' = cache /\ visible' = NoImage
      BY <1>8, <1>12, <2>3 DEF OpenImage, Views
    <2>5. AsAsked(cache)'
      BY <1>1, <2>2, <2>4 DEF AsAsked
    <2>6. TabInv'
      BY <1>1, <1>2, <2>2, <2>4, <2>5 DEF TabInv
    <2>7. FilterInv'
      BY <1>12 DEF OpenImage, FilterInv
    <2> QED
      BY <1>3, <2>1, <2>6, <2>7
  <1>13. CASE ShowFailure
    <2>1. OwnedInv' /\ SignedInv' /\ InsertedInv' /\ ReplacedInv'
      BY <1>4, <1>7, <1>13 DEF ShowFailure
    <2>2. view'.state = "failed" /\ view.state # "ready"
      BY <1>8, <1>13 DEF ShowFailure, Views
    <2> QED
      BY <1>3, <1>5, <1>9, <1>13, <2>1, <2>2 DEF ShowFailure
  <1>14. CASE CloseTab
    <2>1. OwnedInv' /\ SignedInv' /\ InsertedInv' /\ ReplacedInv'
      BY <1>4, <1>7, <1>14 DEF CloseTab
    <2>2. view'.state = "closed"
      BY <1>8, <1>14 DEF CloseTab, Views
    <2> QED
      BY <1>3, <1>5, <1>14, <2>1, <2>2 DEF CloseTab
  <1>15. CASE OpenTab
    <2>1. view'.state = "idle" /\ view.state = "closed"
      BY <1>8, <1>15 DEF OpenTab, Views
    <2>2. worker'.at = "none" /\ worker' = worker
      BY <1>15, <2>1 DEF OpenTab, OwnedInv
    <2>3. OwnedInv' /\ SignedInv' /\ InsertedInv' /\ ReplacedInv'
      BY <2>2 DEF OwnedInv, SignedInv, InsertedInv, ReplacedInv
    <2> QED
      BY <1>3, <1>5, <1>9, <1>15, <2>1, <2>3 DEF OpenTab
  <1> QED
    BY <1>10, <1>11, <1>12, <1>13, <1>14, <1>15

(* A step of a filter task, of the tab that starts or ends one, or of       *)
(* another program.                                                         *)
LEMMA TaskInv ==
  ASSUME CacheTypeOK, CacheTypeOK', CacheIInv,
         \/ ShowAll \/ ClearFilters \/ EditData \/ EditDbc
         \/ \E f \in Filters : StartFilter(f) \/ OpenFilter(f) \/ EndFilter(f) \/ ShowFiltered(f)
  PROVE  CacheIInv'
  <1> USE DEF CacheIInv, sources, images, tab
  <1>1. /\ UNCHANGED <<worker, images, loads, view, shown>>
        /\ data <= data' /\ dbcFile <= dbcFile'
    <2>1. data \in Nat /\ dbcFile \in Nat
      BY CacheFieldTypes
    <2>2. CASE ShowAll \/ ClearFilters
      BY <2>1, <2>2 DEF ShowAll, ClearFilters
    <2>3. CASE EditData \/ EditDbc
      BY <2>1, <2>3 DEF EditData, EditDbc
    <2>4. ASSUME NEW f \in Filters,
                 StartFilter(f) \/ OpenFilter(f) \/ EndFilter(f) \/ ShowFiltered(f)
          PROVE  UNCHANGED <<worker, images, loads, view, shown, data, dbcFile>>
      BY <2>4 DEF StartFilter, OpenFilter, EndFilter, ShowFiltered
    <2> QED
      BY <2>1, <2>2, <2>3, <2>4
  <1>2. CacheInv' /\ OwnedInv' /\ SignedInv' /\ InsertedInv' /\ ReplacedInv'
    BY <1>1, WorkStays
  <1>3. Whole(cache) => Whole(cache)'
    BY <1>1, SinceStays DEF CacheTypeOK
  <1>4. AsAsked(cache) => AsAsked(cache)'
    BY <1>1 DEF AsAsked
  <1>5. ASSUME visible' \in {NoImage, shown} PROVE TabInv'
    BY <1>1, <1>3, <1>4, <1>5 DEF TabInv
  <1>6. CASE ClearFilters
    BY <1>1, <1>2, <1>5, <1>6, NewGenerationFacts DEF ClearFilters, FilterInv
  <1>7. CASE ShowAll
    BY <1>1, <1>2, <1>5, <1>7 DEF ShowAll, FilterInv
  <1>8. CASE EditData \/ EditDbc
    BY <1>1, <1>2, <1>5, <1>8 DEF EditData, EditDbc, FilterInv, TabInv
  <1>9. ASSUME NEW f \in Filters,
               StartFilter(f) \/ OpenFilter(f) \/ EndFilter(f) \/ ShowFiltered(f)
        PROVE  CacheIInv'
    <2>1. filter \in [Filters -> Tasks] /\ filter[f] \in Tasks /\ cache \in Images
      BY DEF CacheTypeOK
    <2>2. CASE StartFilter(f)
      <3>1. /\ filter'[f].newest /\ filter'[f].state = "queued" /\ view.state = "ready"
            /\ \A g \in Filters \ {f} : filter'[g] = NewGeneration[g]
        BY <2>2 DEF StartFilter, NewGeneration
      <3>2. FilterInv'
        BY <1>1, <3>1, NewGenerationFacts DEF FilterInv
      <3> QED
        BY <1>2, <1>5, <2>2, <3>2 DEF StartFilter, TabInv
    <2>3. CASE OpenFilter(f)
      <3>1. /\ filter'[f].newest = filter[f].newest /\ filter'[f].image = cache
            /\ \A g \in Filters \ {f} : filter'[g] = filter[g]
        BY <2>1, <2>3 DEF OpenFilter, Tasks
      <3>2. FilterInv'
        BY <1>1, <3>1 DEF FilterInv
      <3> QED
        BY <1>2, <1>5, <2>3, <3>2 DEF OpenFilter, TabInv
    <2>4. CASE EndFilter(f)
      <3>1. /\ filter'[f].newest = filter[f].newest /\ filter'[f].image = filter[f].image
            /\ filter[f].state = "open"
            /\ \A g \in Filters \ {f} : filter'[g] = filter[g]
        BY <2>1, <2>4 DEF EndFilter, Tasks
      <3>2. FilterInv'
        BY <1>1, <3>1 DEF FilterInv
      <3> QED
        BY <1>2, <1>5, <2>4, <3>2 DEF EndFilter, TabInv
    <2>5. CASE ShowFiltered(f)
      <3>1. /\ filter'[f] = [NoFilter EXCEPT !.state = "shown"]
            /\ \A g \in Filters \ {f} : filter'[g] = filter[g]
        BY <2>1, <2>5 DEF ShowFiltered
      <3>2. ~filter'[f].newest
        BY <3>1 DEF NoFilter
      <3>3. FilterInv'
        BY <1>1, <3>1, <3>2 DEF FilterInv
      <3>4. visible' \in {NoImage, shown}
        BY <2>5 DEF ShowFiltered, TabInv, FilterInv
      <3> QED
        BY <1>2, <1>5, <3>3, <3>4
    <2> QED
      BY <1>9, <2>2, <2>3, <2>4, <2>5
  <1> QED
    BY <1>6, <1>7, <1>8, <1>9

-----------------------------------------------------------------------------
(* The theorems about the image.                                         *)

(* The invariant holds at first.                                            *)
LEMMA CacheInitInv == CacheInit => CacheTypeOK /\ CacheIInv
  <1> SUFFICES ASSUME CacheInit PROVE CacheTypeOK /\ CacheIInv
    OBVIOUS
  <1> USE BlankTypes, CacheAssumption DEF CacheInit
  <1>1. CacheTypeOK
    <2>1. 1 \in 1 .. MaxEdits + 1 /\ 0 \in 0 .. MaxLoads /\ 0 \in 0 .. MaxWorkerFailures
      OBVIOUS
    <2>2. view \in Views /\ filter \in [Filters -> Tasks]
      BY DEF Views
    <2> QED
      BY <2>1, <2>2 DEF CacheTypeOK
  <1>2. CacheIInv
    BY DEF CacheIInv, CacheInv, OwnedInv, SignedInv, InsertedInv, ReplacedInv, TabInv, FilterInv
  <1> QED
    BY <1>1, <1>2

(* Every step keeps it.                                                     *)
LEMMA CacheStepInv ==
  CacheTypeOK /\ CacheIInv /\ [CacheNext]_cachevars => (CacheTypeOK /\ CacheIInv)'
  <1> SUFFICES ASSUME CacheTypeOK, CacheIInv, [CacheNext]_cachevars
               PROVE  (CacheTypeOK /\ CacheIInv)'
    OBVIOUS
  <1>1. CacheTypeOK'
    BY TypeStep DEF CacheIInv
  <1>2. CASE UNCHANGED cachevars
    <2>1. CacheInv' /\ OwnedInv' /\ SignedInv' /\ InsertedInv' /\ ReplacedInv'
      BY <1>1, <1>2, WorkStays, CacheFieldTypes DEF cachevars, sources, images, tab
    <2>2. TabInv' /\ FilterInv'
      BY <1>2 DEF CacheIInv, TabInv, FilterInv, Whole, MadeSince, AsAsked, cachevars, sources,
                  images, tab
    <2> QED
      BY <1>1, <2>1, <2>2 DEF CacheIInv
  <1> QED
    BY <1>1, <1>2, WorkerInv, LoadInv, TaskInv DEF CacheNext

(* The image, the worker and the tab stay in step, whatever dies, fails, is *)
(* killed or changes meanwhile.                                             *)
THEOREM CacheInvariant == CacheSpec => [](CacheTypeOK /\ CacheIInv)
BY CacheInitInv, CacheStepInv, PTL DEF CacheSpec

(* An image that the next load would reuse is whole and made of the files   *)
(* as they are, however often a file changed under a worker and wherever a  *)
(* worker died.                                                             *)
THEOREM BelievedImageIsCurrent == CacheSpec => []BelievedIsCurrent
  <1>1. CacheTypeOK /\ CacheIInv => BelievedIsCurrent
    <2> SUFFICES ASSUME CacheTypeOK, CacheIInv, NEW dbc \in {0, dbcFile},
                        Believes(cache, Made(data, dbc))
                 PROVE  cache.rows = [i \in 1 .. Messages |-> Made(data, dbc)]
      BY DEF BelievedIsCurrent
    <2>1. cache.committed /\ cache.of = [data |-> data, dbc |-> dbc]
      BY DEF Believes, Made
    <2>2. Whole(cache)
      BY <2>1, BlankTypes DEF CacheIInv, CacheInv
    <2>3. cache.rows \in Seq(Mades) /\ Len(cache.rows) = Messages
      BY <2>2 DEF CacheTypeOK, Images, Whole
    <2>4. ASSUME NEW i \in 1 .. Messages PROVE cache.rows[i] = Made(data, dbc)
      <3>1. cache.rows[i] \in Mades
        BY <2>3
      <3>2. MadeSince(cache.rows[i], cache.of)
        BY <2>2 DEF Whole
      <3>3. cache.rows[i].data = data /\ cache.rows[i].dbc = dbc
        <4>1. /\ cache.rows[i].data \in Nat /\ cache.rows[i].dbc \in Nat
              /\ data \in Nat /\ dbcFile \in Nat /\ dbcFile # 0
          <5>1. \A m \in Mades : m.data \in Nat /\ m.dbc \in Nat
            BY CacheAssumption DEF Mades
          <5> QED
            BY <3>1, <5>1, CacheFieldTypes
        <4> QED
          BY <2>1, <3>2, <4>1 DEF MadeSince
      <3>4. cache.rows[i] = [data |-> cache.rows[i].data, dbc |-> cache.rows[i].dbc]
        BY <3>1 DEF Mades
      <3> QED
        BY <3>3, <3>4 DEF Made
    <2>5. cache.rows = [i \in 1 .. Messages |-> cache.rows[i]]
      BY <2>3
    <2> QED
      BY <2>4, <2>5
  <1> QED
    BY <1>1, CacheInvariant, PTL

(* The tab shows a whole image with or without DBC signals as last asked,   *)
(* and the rows it leaves visible were chosen in that very image.           *)
THEOREM TabShowsWhatWasAsked == CacheSpec => []TabIsExact
  <1>1. CacheTypeOK /\ CacheIInv => TabIsExact
    BY DEF CacheIInv, TabInv, TabIsExact, ShownIsAsked, FilterFitsShown, Whole, AsAsked
  <1> QED
    BY <1>1, CacheInvariant, PTL
=============================================================================
