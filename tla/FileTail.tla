------------------------------ MODULE FileTail ------------------------------
(***************************************************************************)
(* The tailer of minisoc's live mode (minisoc/core/live.py, FileTail): it  *)
(* remembers how far into a log file it has read and, at every poll, hands *)
(* over the complete lines that were appended since.                       *)
(*                                                                         *)
(* The other actor is the service that writes the log, together with the   *)
(* log rotation: it appends at its own pace, in pieces that need not end   *)
(* on a line boundary, and the file may be renamed away, truncated in      *)
(* place or unlinked between any two system calls of the tailer.           *)
(*                                                                         *)
(* A log line is written in two pieces, numbered 2l-1 and 2l for line l;   *)
(* the second one carries the newline.  File contents are sequences of     *)
(* pieces, so that an offset counts pieces.  MultiByte names the lines     *)
(* whose two pieces meet inside one multi-byte character.                  *)
(***************************************************************************)
EXTENDS Naturals, Sequences, FiniteSets, SequencesExt

CONSTANTS
  MaxLines,     \* how many lines the service writes (bounds the model)
  MaxFaults,    \* how many rotations happen (bounds the model)
  Inodes,       \* inode numbers the file system hands out
  NoFile,       \* no inode: nothing is linked under the watched path
  MultiByte,    \* lines split inside a multi-byte character
  Starts,       \* the values of from_start a watch may be started with
  Faults        \* what may disturb the file, a subset of AllFaults

AllFaults ==
  {"rename", "unlink", "truncate",  \* the kinds of rotation
   "mid_start",                     \* ... between two calls of __init__
   "mid_poll",                      \* ... between two calls of one poll
   "mid_line",                      \* the watch starts after half a line
   "reuse"}                         \* a new file gets the remembered inode

ASSUME BoundsAssumption == MaxLines \in Nat /\ MaxFaults \in Nat
ASSUME NoFileAssumption == NoFile \notin Inodes
ASSUME FaultsAssumption == Faults \subseteq AllFaults

VARIABLES
  data,       \* the contents of every inode
  path,       \* the inode linked under the watched path, or NoFile
  writer,     \* the inode the service has open, or NoFile
  archived,   \* the inodes still linked under a rotated name
  w,          \* how many pieces the service has written
  faults,     \* how many rotations have happened
  happened,   \* history: the disturbances no tailer is told about
  pc,         \* where the tailer stands: between two calls, or inside one
  offset,     \* self._offset
  partial,    \* self._partial
  inode,      \* self._inode
  handed,     \* history: every line handed to the parsers, in order
  skipped     \* history: the pieces __init__ decided to skip

env == <<data, path, writer, archived, w, faults>>
tail == <<pc, offset, partial, inode, handed, skipped>>
vars == <<data, path, writer, archived, w, faults, happened,
          pc, offset, partial, inode, handed, skipped>>

Lines == 1..MaxLines
Pieces == 1..(2 * MaxLines)
LineOf(p) == (p + 1) \div 2
EndsLine(p) == p % 2 = 0

\* One decoded piece of text; a piece that is not intact has lost the
\* character it shared with the other half of its line to U+FFFD.
Text == [piece: Pieces, intact: BOOLEAN]

TypeOK ==
  /\ data \in [Inodes -> Seq(Pieces)]
  /\ path \in Inodes \union {NoFile}
  /\ writer \in Inodes \union {NoFile}
  /\ archived \subseteq Inodes
  /\ w \in 0..(2 * MaxLines)
  /\ faults \in 0..MaxFaults
  /\ happened \subseteq AllFaults
  /\ pc \in {"init", "size", "idle", "stat", "read", "dead"}
  /\ offset \in 0..(2 * MaxLines)
  /\ partial \in Seq(Text)
  /\ inode \in Inodes \union {NoFile}
  /\ handed \in Seq(Seq(Text))
  /\ skipped \subseteq Pieces

Init ==
  /\ data = [i \in Inodes |-> <<>>]
  /\ path = NoFile
  /\ writer = NoFile
  /\ archived = {}
  /\ w = 0
  /\ faults = 0
  /\ happened = {}
  /\ pc = "init"
  /\ offset = 0
  /\ partial = <<>>
  /\ inode = NoFile
  /\ handed = <<>>
  /\ skipped = {}

-----------------------------------------------------------------------------
(* The service and the log rotation.                                       *)

InStart == pc = "size"
InPoll == pc \in {"stat", "read"}

\* What a rotation at this moment adds to the history: the call of the
\* tailer it falls into.
MidCall == IF InStart THEN {"mid_start"} ELSE IF InPoll THEN {"mid_poll"} ELSE {}

Rotation(kind) ==
  /\ kind \in Faults
  /\ path # NoFile
  /\ faults < MaxFaults
  /\ MidCall \subseteq Faults
  /\ faults' = faults + 1

\* The service flushes the next piece of its log.
Append1 ==
  /\ writer # NoFile
  /\ w < 2 * MaxLines
  /\ w' = w + 1
  /\ data' = [data EXCEPT ![writer] = Append(@, w + 1)]
  /\ UNCHANGED <<path, writer, archived, faults, happened, tail>>

\* A file appears under the path: the service's first start, or the file
\* logrotate creates after renaming the old one.
Create(i) ==
  /\ path = NoFile
  /\ i \notin archived \union {writer}
  /\ i = inode => "reuse" \in Faults
  /\ MidCall \subseteq Faults
  /\ path' = i
  /\ data' = [data EXCEPT ![i] = <<>>]
  /\ happened' = happened \union MidCall
                          \union (IF i = inode THEN {"reuse"} ELSE {})
  /\ UNCHANGED <<writer, archived, w, faults, tail>>

\* The service (re)opens its log, between two lines.
Reopen ==
  /\ path # NoFile
  /\ writer # path
  /\ w % 2 = 0
  /\ writer' = path
  /\ UNCHANGED <<data, path, archived, w, faults, happened, tail>>

\* Rotation by rename: the service keeps writing to the renamed file until
\* it reopens the path.
Rename ==
  /\ Rotation("rename")
  /\ path' = NoFile
  /\ archived' = archived \union {path}
  /\ happened' = happened \union MidCall
  /\ UNCHANGED <<data, writer, w, tail>>

\* The file is deleted; its inode is free once the service closes it.
Unlink ==
  /\ Rotation("unlink")
  /\ path' = NoFile
  /\ happened' = happened \union MidCall
  /\ UNCHANGED <<data, writer, archived, w, tail>>

\* copytruncate: the file is emptied in place, between two lines.
Truncate ==
  /\ Rotation("truncate")
  /\ w % 2 = 0
  /\ data' = [data EXCEPT ![path] = <<>>]
  /\ happened' = happened \union MidCall \union {"truncate"}
  /\ UNCHANGED <<path, writer, archived, w, tail>>

-----------------------------------------------------------------------------
(* The tailer.                                                             *)

\* FileTail.__init__: only without from_start, and when the file is there,
\* its size is asked for.
Construct(fromStart) ==
  /\ pc = "init"
  /\ pc' = IF ~fromStart /\ path # NoFile THEN "size" ELSE "idle"
  /\ UNCHANGED <<env, happened, offset, partial, inode, handed, skipped>>

\* __init__: stat the file and skip what it holds now.
ConstructStat ==
  /\ pc = "size"
  /\ path # NoFile
  /\ LET size    == Len(data[path])
         midLine == size > 0 /\ ~EndsLine(data[path][size])
     IN  /\ midLine => "mid_line" \in Faults
         /\ offset' = size
         /\ happened' = happened \union (IF midLine THEN {"mid_line"} ELSE {})
  /\ inode' = path
  /\ skipped' = Range(data[path])
  /\ pc' = "idle"
  /\ UNCHANGED <<env, partial, handed>>

\* __init__: the file has gone since exists(); stat() raises
\* FileNotFoundError and the watch never begins.
ConstructRaises ==
  /\ pc = "size"
  /\ path = NoFile
  /\ pc' = "dead"
  /\ UNCHANGED <<env, happened, offset, partial, inode, handed, skipped>>

\* MUTANT of PollExists: the existence check is left out.
PollExistsUnchecked ==
  /\ pc = "idle"
  /\ pc' = "stat"
  /\ UNCHANGED <<env, happened, offset, partial, inode, handed, skipped>>

\* read_new: a missing file yields no lines and changes nothing.
PollExists ==
  /\ pc = "idle"
  /\ path # NoFile
  /\ pc' = "stat"
  /\ UNCHANGED <<env, happened, offset, partial, inode, handed, skipped>>

\* MUTANTS of IsNewFile: a file no longer than what was read counts as a new
\* one; only the size is compared, not the inode.
IsNewFileWhenNotLonger ==
  \/ inode # NoFile /\ path # inode
  \/ Len(data[path]) <= offset

IsNewFileBySizeOnly == Len(data[path]) < offset

\* Another inode, or a file shorter than what was read: start it afresh.
IsNewFile ==
  \/ inode # NoFile /\ path # inode
  \/ Len(data[path]) < offset

\* MUTANT of PollStat: the unfinished line survives the rotation.
PollStatKeepingPartial ==
  /\ pc = "stat"
  /\ path # NoFile
  /\ LET from == IF IsNewFile THEN 0 ELSE offset
     IN  /\ offset' = from
         /\ inode' = path
         /\ pc' = IF Len(data[path]) = from THEN "idle" ELSE "read"
  /\ UNCHANGED <<env, happened, partial, handed, skipped>>

\* read_new: stat the file, reset on rotation, stop here when nothing is new.
PollStat ==
  /\ pc = "stat"
  /\ path # NoFile
  /\ LET from == IF IsNewFile THEN 0 ELSE offset
     IN  /\ offset' = from
         /\ partial' = IF IsNewFile THEN <<>> ELSE partial
         /\ inode' = path
         /\ pc' = IF Len(data[path]) = from THEN "idle" ELSE "read"
  /\ UNCHANGED <<env, happened, handed, skipped>>

\* chunk.decode("utf-8", errors="replace"): a character that is cut by the
\* start or the end of the chunk is replaced on both sides of the cut.
Decode(chunk) ==
  LET WithOtherHalf(i) ==
        \/ EndsLine(chunk[i]) /\ i > 1 /\ chunk[i - 1] = chunk[i] - 1
        \/ ~EndsLine(chunk[i]) /\ i < Len(chunk) /\ chunk[i + 1] = chunk[i] + 1
  IN  [i \in DOMAIN chunk |->
         [piece  |-> chunk[i],
          intact |-> LineOf(chunk[i]) \in MultiByte => WithOtherHalf(i)]]

\* (partial + text).split("\n"): the complete lines, and the rest.
SplitPiece(acc, c) ==
  IF EndsLine(c.piece)
  THEN [lines |-> Append(acc.lines, Append(acc.rest, c)), rest |-> <<>>]
  ELSE [lines |-> acc.lines, rest |-> Append(acc.rest, c)]

Split(rest, text) == FoldLeft(SplitPiece, [lines |-> <<>>, rest |-> rest], text)

\* MUTANTS of PollRead: the offset advances by the size of the file; the
\* unfinished line is not kept for the next poll.
PollReadAddingSize ==
  /\ pc = "read"
  /\ path # NoFile
  /\ LET chunk == SubSeq(data[path], offset + 1, Len(data[path]))
         split == Split(partial, Decode(chunk))
     IN  /\ offset' = offset + Len(data[path])
         /\ partial' = split.rest
         /\ handed' = handed \o split.lines
  /\ pc' = "idle"
  /\ UNCHANGED <<env, happened, inode, skipped>>

PollReadDroppingPartial ==
  /\ pc = "read"
  /\ path # NoFile
  /\ LET chunk == SubSeq(data[path], offset + 1, Len(data[path]))
     IN  /\ offset' = offset + Len(chunk)
         /\ handed' = handed \o Split(partial, Decode(chunk)).lines
  /\ partial' = <<>>
  /\ pc' = "idle"
  /\ UNCHANGED <<env, happened, inode, skipped>>

\* read_new: open, seek to the offset, read to the end, split into lines.
\* An offset past the end reads nothing.
PollRead ==
  /\ pc = "read"
  /\ path # NoFile
  /\ LET chunk == SubSeq(data[path], offset + 1, Len(data[path]))
         split == Split(partial, Decode(chunk))
     IN  /\ offset' = offset + Len(chunk)
         /\ partial' = split.rest
         /\ handed' = handed \o split.lines
  /\ pc' = "idle"
  /\ UNCHANGED <<env, happened, inode, skipped>>

\* stat() or open() raises FileNotFoundError, which LiveMonitor.run does not
\* catch: the watch is over.
PollRaises ==
  /\ InPoll
  /\ path = NoFile
  /\ pc' = "dead"
  /\ UNCHANGED <<env, happened, offset, partial, inode, handed, skipped>>

-----------------------------------------------------------------------------

Environment ==
  \/ Append1
  \/ \E i \in Inodes : Create(i)
  \/ Reopen
  \/ Rename
  \/ Unlink
  \/ Truncate

Begin ==
  \/ \E fromStart \in Starts : Construct(fromStart)
  \/ ConstructStat
  \/ ConstructRaises

Poll == PollExists \/ PollStat \/ PollRead \/ PollRaises

Next ==
  \/ Environment
  \/ Begin
  \/ Poll

\* LiveMonitor.run polls forever; nothing is promised of the service.
Fairness ==
  /\ WF_vars(Begin)
  /\ WF_vars(Poll)

Spec == Init /\ [][Next]_vars /\ Fairness

-----------------------------------------------------------------------------
(* Correctness.                                                            *)

PiecesOf(line) == [i \in DOMAIN line |-> line[i].piece]
PiecesIn(lines) == UNION {Range(PiecesOf(lines[i])) : i \in DOMAIN lines}
Undisturbed == happened \subseteq {"mid_start"}

\* One line of the log, damaged at most where its halves meet.
Whole(line) ==
  \E l \in Lines :
    /\ PiecesOf(line) = <<2 * l - 1, 2 * l>>
    /\ l \notin MultiByte => \A k \in {1, 2} : line[k].intact

\* Every line handed to a parser is one line of the log, whole, and damaged
\* only where a character straddles two reads: half-written lines wait for
\* their newline and a rotation never glues two files together (live.py
\* 67-90).  Renaming the file between two polls is among the steps.
WholeLines == Undisturbed => \A i \in DOMAIN handed : Whole(handed[i])

\* The pieces of these lines come in the order they were written in.
InOrder(lines) ==
  \A i, j \in DOMAIN lines :
    \A k \in DOMAIN lines[i], l \in DOMAIN lines[j] :
      i < j \/ (i = j /\ k < l) => lines[i][k].piece < lines[j][l].piece

\* No piece of the log reaches the parsers twice or out of order, whatever
\* the rotation, as long as the file is not swapped inside one poll (live.py
\* 74-86).
InOrderOnce == "mid_poll" \notin happened => InOrder(handed)

\* Whatever lies before the offset of the file being read was handed over,
\* is waiting in partial, or was skipped when the watch began: advancing
\* the offset never drops a line (live.py 83-90).
NoneSkipped ==
  (Undisturbed /\ inode # NoFile /\ inode = path /\ pc # "dead") =>
    Range(SubSeq(data[path], 1, offset)) \subseteq
      skipped \union PiecesIn(handed) \union Range(PiecesOf(partial))

\* The watch survives a missing file and every rotation that falls between
\* two calls; only a file that vanishes inside __init__ or inside a poll ends
\* it (live.py 61-62, 72-83).
DiesOnlyMidCall == pc = "dead" => happened \intersect {"mid_start", "mid_poll"} # {}

\* A complete line of the file under the path, not skipped at the start, and
\* a watch to read it.
Readable(l) ==
  /\ Undisturbed
  /\ pc # "dead"
  /\ path # NoFile
  /\ {2 * l - 1, 2 * l} \subseteq Range(data[path]) \ skipped

\* A line that stays in the watched file is eventually handed over, however
\* the rotations before it fell (live.py 66-90, run 202-206).
EventuallyHanded ==
  \A l \in Lines :
    Readable(l) ~> (2 * l \in PiecesIn(handed) \/ ~Readable(l))

\* What the comment of read_new says without a condition: "a half-written
\* log line is never handed to a parser" (live.py 69-70).
NoHalfLine ==
  \A i \in DOMAIN handed :
    \E l \in Lines : PiecesOf(handed[i]) = <<2 * l - 1, 2 * l>>

=============================================================================
