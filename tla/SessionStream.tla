---------------------------- MODULE SessionStream ----------------------------
(***************************************************************************)
(* The session file of app/session_stream.py: SessionStreamWriter appends  *)
(* records through the buffer of the file object, SessionPagedReader opens *)
(* the file with the sparse index beside it or rebuilds that index.  One   *)
(* process writes while several threads may read; the process may be       *)
(* killed and the machine may lose power between any two steps.            *)
(*                                                                         *)
(* A file is the sequence of the records that are complete in it, and torn *)
(* says that it ends with a part of another line.  A record has a width,   *)
(* so that an offset of one file need not be the start of a line of        *)
(* another.                                                                *)
(***************************************************************************)
EXTENDS Naturals, Sequences, FiniteSetsExt

CONSTANTS
    FlushEvery,     \* flush_every of the writer (256 in the code)
    Stride,         \* index_stride (4096 in the code)
    MaxFrames,      \* bound: the largest sequence number of a frame
    MaxFiles,       \* bound: times a writer opens this path
    MaxFailures,    \* bound: writes that fail, kills and power losses
    Readers,        \* the threads that open the session
    ReadLive        \* whether they open it while it is being written

ASSUME StreamAssumption ==
    /\ FlushEvery \in Nat \ {0} /\ Stride \in Nat \ {0}
    /\ MaxFrames \in Nat /\ MaxFiles \in Nat /\ MaxFailures \in Nat
    /\ ReadLive \in BOOLEAN

VARIABLES
    writer,         \* where the writer is
    file,           \* complete records in the session file
    torn,           \* a part of Head(buffer), or of a lost record, follows
    buffer,         \* records in the buffer of the file object
    frameCount,     \* _frame_count
    checkpoints,    \* _checkpoints
    synced,         \* records on stable storage
    indexFile,      \* the sidecar index, or NoIndex
    tmpFile,        \* its temporary file, or NoIndex
    reader,         \* where each reader is
    rindex,         \* the index each reader has or is building
    rsize,          \* the file size each reader saw first
    files,          \* writers that have opened the path
    failures        \* failures so far

wvars == <<writer, frameCount, checkpoints, files>>
disk  == <<file, torn, buffer, synced>>
index == <<indexFile, tmpFile>>
rvars == <<reader, rindex, rsize>>
svars == <<wvars, disk, index, rvars, failures>>

-----------------------------------------------------------------------------
(* Records, sizes and the index.                                            *)

Header   == [kind |-> "session", seq |-> 0]
Footer   == [kind |-> "session_end", seq |-> 0]
Frame(n) == [kind |-> "frame", seq |-> n]
IsFrame(r) == r.kind = "frame"

Width(r) == IF IsFrame(r) THEN 2 + (r.seq % 2) ELSE 3

(* The offset at which each prefix of the records ends.                     *)
Ends(rs) ==
    LET ends[i \in 0 .. Len(rs)] ==
            IF i = 0 THEN 0 ELSE ends[i - 1] + Width(rs[i])
    IN  ends
Bytes(rs) == Ends(rs)[Len(rs)]
FileSize == Bytes(file) + (IF torn THEN 1 ELSE 0)

(* An index.  Two fields are history: the writer whose file it was made of, *)
(* and whether the file grew between the scan and the look at its size.     *)
NoIndex == [count |-> 0, points |-> <<>>, size |-> 0, of |-> 0, grew |-> FALSE]

(* The frames before the footer, in order: what a sequential read yields.   *)
FramesIn(rs) ==
    LET frames[i \in 0 .. Len(rs)] ==
            IF i = 0 THEN <<>>
            ELSE IF IsFrame(rs[i]) /\ \A j \in 1 .. i : rs[j] # Footer
              THEN Append(frames[i - 1], rs[i])
            ELSE frames[i - 1]
    IN  frames
FramesOf(rs) == FramesIn(rs)[Len(rs)]

(* Slip: the offset kept is that of the line after.                         *)
ScanRecordLate(acc, r) ==
    IF IsFrame(r)
      THEN [count  |-> acc.count + 1,
            points |-> IF acc.count % Stride = 0
                         THEN Append(acc.points, <<acc.count, acc.at + Width(r)>>)
                         ELSE acc.points,
            at     |-> acc.at + Width(r)]
      ELSE [acc EXCEPT !.at = @ + Width(r)]

(* _build_index: one line after another, the offset taken before the line.  *)
ScanRecord(acc, r) ==
    IF IsFrame(r)
      THEN [count  |-> acc.count + 1,
            points |-> IF acc.count % Stride = 0
                         THEN Append(acc.points, <<acc.count, acc.at>>)
                         ELSE acc.points,
            at     |-> acc.at + Width(r)]
      ELSE [acc EXCEPT !.at = @ + Width(r)]
Scanned(rs) ==
    LET scan[i \in 0 .. Len(rs)] ==
            IF i = 0 THEN [count |-> 0, points |-> <<>>, at |-> 0]
            ELSE ScanRecord(scan[i - 1], rs[i])
    IN  scan
BuildIndex(rs) ==
    LET acc == Scanned(rs)[Len(rs)]
    IN  [count |-> acc.count, points |-> acc.points, size |-> 0, of |-> files,
         grew |-> FALSE]

PointSet(points) == {points[i] : i \in DOMAIN points}

(* _checkpoint_for: the last checkpoint that is not after the start.        *)
CheckpointFor(points, start) ==
    LET before == {i \in DOMAIN points : points[i][1] <= start}
    IN  IF points = <<>> THEN <<0, 0>>
        ELSE IF before = {} THEN points[1] ELSE points[Max(before)]

(* The records that start at an offset, if a record starts there.           *)
RecordsFrom(rs, offset) ==
    {SubSeq(rs, i + 1, Len(rs)) : i \in {j \in 0 .. Len(rs) : Ends(rs)[j] = offset}}

(* The records that lie in the first n bytes.                               *)
UpTo(rs, n) ==
    SubSeq(rs, 1, Max({i \in 0 .. Len(rs) : Ends(rs)[i] <= n}))

Broken == <<[kind |-> "broken", seq |-> 0]>>

(* At most n elements after the first "from" ones.                          *)
Slice(s, from, n) == SubSeq(s, from + 1, Min({Len(s), from + n}))

(* The records end in a cut line that no footer comes before: json.loads    *)
(* raises on it.                                                            *)
CutAtEnd(rs) == torn /\ \A i \in DOMAIN rs : rs[i] # Footer

(* read_page: seek to a checkpoint, skip to the start, and take the limit   *)
(* line by line; a page that is not full when it comes to a cut line raises *)
(* and yields nothing.                                                      *)
ReadPage(idx, start, limit) ==
    IF limit = 0 \/ start >= idx.count THEN <<>>
    ELSE LET point   == CheckpointFor(idx.points, start)
             found   == RecordsFrom(file, point[2])
             records == CHOOSE s \in found : TRUE
             rest    == FramesOf(records)
             skip    == start - point[1]
         IN  IF found = {} \/ (CutAtEnd(records) /\ Len(rest) < skip + limit)
               THEN Broken ELSE Slice(rest, skip, limit)

-----------------------------------------------------------------------------

StreamInit ==
    /\ writer = "none" /\ file = <<>> /\ torn = FALSE /\ buffer = <<>>
    /\ frameCount = 0 /\ checkpoints = <<>> /\ synced = 0
    /\ indexFile = NoIndex /\ tmpFile = NoIndex
    /\ reader = [r \in Readers |-> "idle"]
    /\ rindex = [r \in Readers |-> NoIndex]
    /\ rsize = [r \in Readers |-> 0]
    /\ files = 0 /\ failures = 0

Writing == writer \notin {"none", "done"}
Fail == failures < MaxFailures /\ failures' = failures + 1

-----------------------------------------------------------------------------
(* The writer.                                                              *)

(* open(): the file is emptied, and an index of an earlier file stays.      *)
OpenFile ==
    /\ ~Writing /\ files < MaxFiles /\ files' = files + 1
    /\ \A r \in Readers : reader[r] = "idle"
    /\ writer' = "header" /\ file' = <<>> /\ torn' = FALSE /\ buffer' = <<>>
    /\ frameCount' = 0 /\ checkpoints' = <<>> /\ synced' = 0
    /\ UNCHANGED <<index, reader, rindex, rsize, failures>>

WriteHeader ==
    /\ writer = "header"
    /\ writer' = "open" /\ file' = <<Header>>
    /\ UNCHANGED <<frameCount, checkpoints, files, torn, buffer, synced, index,
                   rvars, failures>>

(* The flush of the header raises.  The capture service keeps the writer,   *)
(* header and all, until its error path closes it; a with block whose       *)
(* __enter__ raised drops it, which may still write the header.             *)
HeaderFails ==
    /\ writer = "header" /\ Fail
    /\ \/ /\ writer' = "failed" /\ buffer' = <<Header>>
          /\ torn' \in BOOLEAN /\ UNCHANGED file
       \/ /\ writer' = "done" /\ torn' \in BOOLEAN /\ UNCHANGED <<file, buffer>>
       \/ /\ writer' = "done" /\ file' = <<Header>> /\ UNCHANGED <<torn, buffer>>
    /\ UNCHANGED <<frameCount, checkpoints, files, synced, index, rvars>>

LastSequence ==
    LET frames == FramesOf(file \o buffer)
    IN  IF frames = <<>> THEN 0 ELSE frames[Len(frames)].seq

(* Slip: the offset is that of the file, and not of what is buffered too.   *)
PointInFile == <<frameCount, Bytes(file)>>

(* The checkpoint of the next frame: its number and tell().                 *)
Point == <<frameCount, Bytes(file \o buffer)>>

FlushDue(count) == count % FlushEvery = 0

(* append(): the sequence has to grow; the checkpoint is noted before the   *)
(* record is written, and every FlushEvery-th record flushes.  The write    *)
(* raises when it has to make room on a full disk, and so may the flush,    *)
(* which comes after the record has been counted.                           *)
AppendFrame(n) ==
    /\ writer = "open" /\ n > LastSequence
    /\ checkpoints' = IF frameCount % Stride = 0
                        THEN Append(checkpoints, Point) ELSE checkpoints
    /\ LET more == Append(buffer, Frame(n))
           due  == FlushDue(frameCount + 1)
       IN  \/ /\ due /\ frameCount' = frameCount + 1
              /\ file' = file \o more /\ buffer' = <<>> /\ torn' = FALSE
              /\ UNCHANGED failures
           \/ /\ ~due /\ frameCount' = frameCount + 1
              /\ buffer' = more /\ UNCHANGED <<file, torn, failures>>
           \/ /\ due /\ frameCount' = frameCount + 1
              /\ buffer' = more /\ torn' = TRUE /\ UNCHANGED file /\ Fail
           \/ /\ buffer # <<>> /\ torn' = TRUE
              /\ UNCHANGED <<frameCount, file, buffer>> /\ Fail
    /\ UNCHANGED <<writer, files, synced, index, rvars>>

(* The buffer of the file object is full: whole records reach the file.     *)
Spill ==
    /\ writer = "open" /\ buffer # <<>>
    /\ file' = file \o buffer /\ buffer' = <<>> /\ torn' = FALSE
    /\ UNCHANGED <<wvars, synced, index, rvars, failures>>

(* close(): footer, flush, fsync and close of the handle.                   *)
CloseFile ==
    /\ writer \in {"open", "failed"}
    /\ file' = file \o Append(buffer, Footer) /\ buffer' = <<>>
    /\ torn' = FALSE /\ synced' = Len(file')
    /\ writer' = "tmp"
    /\ UNCHANGED <<frameCount, checkpoints, files, index, rvars, failures>>

(* close() raises in its flush or its fsync: the handle is dropped and no   *)
(* index is written.                                                        *)
CloseFails ==
    /\ writer \in {"open", "failed"} /\ Fail
    /\ writer' = "done" /\ buffer' = <<>>
    /\ \/ torn' \in {torn, TRUE} /\ UNCHANGED file
       \/ torn' = FALSE /\ file' = file \o Append(buffer, Footer)
    /\ UNCHANGED <<frameCount, checkpoints, files, synced, index, rvars>>

WriterIndex == [count |-> frameCount, points |-> checkpoints,
                size |-> FileSize, of |-> files, grew |-> FALSE]

(* _write_index of the writer: the temporary file, then the replacement,    *)
(* which raises when a reader has moved the temporary file away.            *)
WriteTmp ==
    /\ writer = "tmp"
    /\ tmpFile' = WriterIndex /\ writer' = "replace"
    /\ UNCHANGED <<frameCount, checkpoints, files, disk, indexFile,
                   rvars, failures>>

Replace ==
    /\ writer = "replace"
    /\ writer' = "done"
    /\ IF tmpFile = NoIndex THEN UNCHANGED index
       ELSE indexFile' = tmpFile /\ tmpFile' = NoIndex
    /\ UNCHANGED <<frameCount, checkpoints, files, disk, rvars, failures>>

WriterStep ==
    \/ OpenFile \/ WriteHeader \/ HeaderFails
    \/ \E n \in 1 .. MaxFrames : AppendFrame(n)
    \/ Spill \/ CloseFile \/ CloseFails \/ WriteTmp \/ Replace

-----------------------------------------------------------------------------
(* Failures and the file system.                                            *)

NoReader ==
    /\ reader' = [r \in Readers |-> "idle"]
    /\ rindex' = [r \in Readers |-> NoIndex]
    /\ rsize' = [r \in Readers |-> 0]

(* The process is killed: the buffers of its file objects are lost.         *)
Kill ==
    /\ Fail /\ (Writing \/ \E r \in Readers : reader[r] # "idle")
    /\ writer' = (IF Writing THEN "done" ELSE writer) /\ buffer' = <<>>
    /\ NoReader
    /\ UNCHANGED <<frameCount, checkpoints, files, file, torn, synced, index>>

(* The machine loses power: what was not synced may be cut anywhere.        *)
PowerLoss ==
    /\ Fail /\ Writing
    /\ writer' = "done" /\ buffer' = <<>> /\ NoReader
    /\ \E n \in synced .. Len(file) :
          file' = SubSeq(file, 1, n) /\ torn' \in {torn, n < Len(file)}
    /\ tmpFile' = NoIndex
    /\ UNCHANGED <<frameCount, checkpoints, files, synced, indexFile>>

(* The finished file is moved into the project; its index stays behind.     *)
MoveFile ==
    /\ writer = "done" /\ indexFile # NoIndex
    /\ \A r \in Readers : reader[r] = "idle"
    /\ indexFile' = NoIndex /\ tmpFile' = NoIndex
    /\ UNCHANGED <<wvars, disk, rvars, failures>>

-----------------------------------------------------------------------------
(* A reader.                                                                *)

(* read_session_header: the first line must be there and be complete.       *)
ReadHeader(r) ==
    /\ reader[r] = "idle" /\ files > 0 /\ (ReadLive \/ ~Writing)
    /\ reader' = [reader EXCEPT ![r] = IF file = <<>> THEN "empty" ELSE "stat"]
    /\ UNCHANGED <<wvars, disk, index, rindex, rsize, failures>>

Stat(r) ==
    /\ reader[r] = "stat"
    /\ rsize' = [rsize EXCEPT ![r] = FileSize]
    /\ reader' = [reader EXCEPT ![r] = "index"]
    /\ UNCHANGED <<wvars, disk, index, rindex, failures>>

(* _load_or_build_index: the sidecar is believed when its size agrees.      *)
ReadIndex(r) ==
    /\ reader[r] = "index"
    /\ IF indexFile # NoIndex /\ indexFile.size = rsize[r]
         THEN /\ rindex' = [rindex EXCEPT ![r] = indexFile]
              /\ reader' = [reader EXCEPT ![r] = "open"]
         ELSE /\ reader' = [reader EXCEPT ![r] = "scan"] /\ UNCHANGED rindex
    /\ UNCHANGED <<wvars, disk, index, rsize, failures>>

(* The scan ends at the footer or at the end of the file; a line that is    *)
(* cut short makes json.loads raise.                                        *)
Scan(r) ==
    /\ reader[r] = "scan"
    /\ IF file = <<>> \/ (torn /\ file[Len(file)] # Footer)
         THEN reader' = [reader EXCEPT ![r] = "torn"] /\ UNCHANGED rindex
         ELSE /\ rindex' = [rindex EXCEPT ![r] = BuildIndex(file)]
              /\ reader' = [reader EXCEPT ![r] = "size"]
    /\ UNCHANGED <<wvars, disk, index, rsize, failures>>

(* The size kept in the index is that of the file after the scan.           *)
SizeOfIndex(r) ==
    /\ reader[r] = "size"
    /\ rindex' = [rindex EXCEPT ![r].size = FileSize,
                                ![r].grew = rindex[r].count # Len(FramesOf(file))]
    /\ reader' = [reader EXCEPT ![r] = "tmp"]
    /\ UNCHANGED <<wvars, disk, index, rsize, failures>>

ReaderTmp(r) ==
    /\ reader[r] = "tmp"
    /\ tmpFile' = rindex[r]
    /\ reader' = [reader EXCEPT ![r] = "replace"]
    /\ UNCHANGED <<wvars, disk, indexFile, rindex, rsize,
                   failures>>

(* The temporary file has one name for every thread: when another has moved *)
(* it away, the replacement raises and the constructor with it.             *)
ReaderReplace(r) ==
    /\ reader[r] = "replace"
    /\ IF tmpFile = NoIndex
         THEN reader' = [reader EXCEPT ![r] = "lost"] /\ UNCHANGED index
         ELSE /\ indexFile' = tmpFile /\ tmpFile' = NoIndex
              /\ reader' = [reader EXCEPT ![r] = "open"]
    /\ UNCHANGED <<wvars, disk, rindex, rsize, failures>>

(* The reader is thrown away.                                               *)
DropReader(r) ==
    /\ reader[r] \in {"open", "empty", "torn", "lost"}
    /\ reader' = [reader EXCEPT ![r] = "idle"]
    /\ rindex' = [rindex EXCEPT ![r] = NoIndex]
    /\ rsize' = [rsize EXCEPT ![r] = 0]
    /\ UNCHANGED <<wvars, disk, index, failures>>

ReaderStep(r) ==
    \/ ReadHeader(r) \/ Stat(r) \/ ReadIndex(r) \/ Scan(r) \/ SizeOfIndex(r)
    \/ ReaderTmp(r) \/ ReaderReplace(r) \/ DropReader(r)

StreamNext ==
    \/ WriterStep \/ Kill \/ PowerLoss \/ MoveFile
    \/ \E r \in Readers : ReaderStep(r)

StreamSpec == StreamInit /\ [][StreamNext]_svars

-----------------------------------------------------------------------------
(* Properties.                                                              *)

IndexType == [count : Nat, points : Seq(Nat \X Nat), size : Nat,
              of : Nat, grew : BOOLEAN]
RecordType == [kind : {"session", "frame", "session_end"}, seq : Nat]

(* Every variable holds a value of its kind.                                *)
StreamTypeOK ==
    /\ writer \in {"none", "header", "failed", "open", "tmp", "replace",
                   "done"}
    /\ file \in Seq(RecordType) /\ buffer \in Seq(RecordType)
    /\ torn \in BOOLEAN
    /\ checkpoints \in Seq(Nat \X Nat)
    /\ frameCount \in Nat /\ synced \in Nat /\ files \in Nat
    /\ indexFile \in IndexType /\ tmpFile \in IndexType
    /\ failures \in Nat
    /\ reader \in [Readers -> {"idle", "stat", "index", "scan", "size", "tmp",
                               "replace", "open", "empty", "torn", "lost"}]
    /\ rindex \in [Readers -> IndexType] /\ rsize \in [Readers -> Nat]

(* The writer, which counts bytes as it goes, leaves the index that a scan  *)
(* of its closed file would build; a write that raised may leave checkpoints *)
(* of a frame that is not there, which no page starts from.                 *)
WriterIndexIsBuilt ==
    writer \in {"tmp", "replace"} =>
        LET built == BuildIndex(file)
        IN  /\ frameCount = built.count
            /\ {p \in PointSet(checkpoints) : p[1] < frameCount} = PointSet(built.points)

(* The frames asked for are not all complete in the file, which ends in a   *)
(* cut line: the writer is at it, or a failure left it.                     *)
ComesToCut(start, limit) ==
    limit # 0 /\ CutAtEnd(file) /\ Len(FramesOf(file)) < start + limit

(* A page is the frames it asks for, whichever checkpoint it starts from    *)
(* and whatever has been appended since the reader was opened; a page that  *)
(* comes to a cut line raises, and no other does, so that none is ever       *)
(* short or wrong.  Exempt is an index of an earlier file of the same name  *)
(* and the same size.                                                       *)
PagesAreExact ==
    \A r \in Readers : (reader[r] = "open" /\ rindex[r].of = files) =>
        \A start, limit \in 0 .. MaxFrames :
            ReadPage(rindex[r], start, limit) =
                IF start >= rindex[r].count THEN <<>>
                ELSE IF ComesToCut(start, limit) THEN Broken
                ELSE Slice(FramesOf(file), start, limit)

(* A reader sees every frame that was in the file when it was opened, also  *)
(* from an index another thread left; unless that index was made of another *)
(* file, or while the file grew between its scan and the look at its size.  *)
CountIsComplete ==
    \A r \in Readers :
        (reader[r] = "open" /\ rindex[r].of = files /\ ~rindex[r].grew) =>
            /\ Len(FramesOf(UpTo(file, rsize[r]))) <= rindex[r].count
            /\ rindex[r].count <= Len(FramesOf(file))

(* What another thread of the program reads of a session is what is in it,  *)
(* or the read raises on a line that is cut.                                *)
ReadersAreExact == PagesAreExact /\ CountIsComplete

-----------------------------------------------------------------------------
(* The inductive invariant of ReadersAreExact and WriterIndexIsBuilt.       *)

(* The header comes first, the footer last, and frames between them.        *)
Shaped(rs) ==
    \A i \in DOMAIN rs :
        IF i = 1 THEN rs[i] = Header
        ELSE IsFrame(rs[i]) \/ (i = Len(rs) /\ rs[i] = Footer)

Closed(rs) == Len(rs) > 1 /\ rs[Len(rs)] = Footer

(* The frames among the first n records.                                    *)
Count(rs, n) == IF n = 0 THEN 0 ELSE IF rs[n] = Footer THEN n - 2 ELSE n - 1

(* A point is the offset at which its frame starts, or would start, and     *)
(* every Stride-th frame has one.                                           *)
Due(count) == count % Stride = 0
PointsFit(points, count, rs) ==
    /\ \A i \in DOMAIN points :
          /\ points[i][1] <= count /\ Due(points[i][1])
          /\ points[i][2] = Ends(rs)[points[i][1] + 1]
    /\ \A k \in 0 .. count : (k < count /\ Due(k)) =>
          \E i \in DOMAIN points : points[i][1] = k

(* The index is one of the first m records.                                 *)
Fits(idx, rs, m) ==
    /\ m \in 1 .. Len(rs)
    /\ idx.count = Count(rs, m)
    /\ PointsFit(idx.points, idx.count, rs)

(* The size is that of the first n records, with or without a torn line.    *)
SizeOf(size, rs, n) ==
    n \in 1 .. Len(rs) /\ size \in {Ends(rs)[n], Ends(rs)[n] + 1}

(* The index was made when the file had these records, or fewer of them.    *)
Good(idx, rs, j) ==
    \E m, n \in j .. Len(rs) :
        /\ m <= n /\ Fits(idx, rs, m) /\ SizeOf(idx.size, rs, n)
        /\ ~idx.grew => idx.count = Count(rs, n)

(* The writer: what is in the file and in the buffer, and the checkpoints.  *)
WriterInv ==
    /\ Shaped(file \o buffer)
    /\ writer \in {"none", "header", "failed"} =>
          file = <<>> /\ frameCount = 0 /\ checkpoints = <<>>
    /\ writer = "failed" => buffer = <<Header>>
    /\ writer \notin {"open", "failed"} => buffer = <<>>
    /\ writer = "open" =>
          /\ file # <<>> /\ ~Closed(file \o buffer)
          /\ frameCount = Len(file \o buffer) - 1
    /\ writer \in {"tmp", "replace"} =>
          Closed(file) /\ ~torn /\ frameCount = Len(file) - 2
    /\ writer \in {"open", "tmp", "replace"} =>
          PointsFit(checkpoints, frameCount, file \o buffer)

(* An index on disk that was made of this file: a power loss may have cut   *)
(* the file below the size that it has.                                     *)
KeptInv(idx) ==
    /\ idx.of <= files
    /\ (idx.of = files /\ files > 0) =>
          \/ Good(idx, file, 1)
          \/ ~Writing /\ idx.size > Bytes(file) + 1

(* A reader, which saw the first j records when it looked at the size.      *)
ReaderInv(r) ==
    /\ reader[r] # "idle" => files > 0
    /\ reader[r] \notin {"idle", "empty"} => file # <<>>
    /\ reader[r] \in {"index", "scan", "size", "tmp", "replace", "open"} =>
          \E j \in 1 .. Len(file) :
              /\ SizeOf(rsize[r], file, j)
              /\ reader[r] = "size" =>
                    /\ rindex[r].of = files
                    /\ \E m \in j .. Len(file) : Fits(rindex[r], file, m)
              /\ reader[r] \in {"tmp", "replace"} =>
                    rindex[r].of = files /\ Good(rindex[r], file, j)
              /\ (reader[r] = "open" /\ rindex[r].of = files) =>
                    /\ \E m \in 1 .. Len(file) : Fits(rindex[r], file, m)
                    /\ ~rindex[r].grew => Count(file, j) <= rindex[r].count

StreamIInv ==
    /\ StreamTypeOK /\ WriterInv
    /\ KeptInv(indexFile) /\ KeptInv(tmpFile)
    /\ \A r \in Readers : ReaderInv(r)

(* The docstring of the writer calls the file crash-readable: a file whose  *)
(* header is there can be opened, whatever cut it.                          *)
CrashReadable == \A r \in Readers : reader[r] = "torn" => Writing

(* The same docstring has completed sessions opened in pages: opening one   *)
(* does not fail because another thread opens it too.                       *)
CompletedSessionOpens ==
    \A r \in Readers :
        reader[r] = "lost" => (file = <<>> \/ file[Len(file)] # Footer)
=============================================================================
