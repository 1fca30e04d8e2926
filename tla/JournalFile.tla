------------------------------ MODULE JournalFile ------------------------------
(***************************************************************************)
(* A session's journal file (runtime/src/harness/jsonl.rs): several        *)
(* handles of one process append lines to one file, each through a         *)
(* projection it keeps in memory; a write may be cut anywhere by an I/O    *)
(* error or a crash, and a crash may also take what was not yet synced.    *)
(*                                                                         *)
(* The file is a sequence of lines, the last of which has no newline yet   *)
(* (and is empty after a clean append).  A line is the sequence of pieces  *)
(* written to it: the frame sentinel of an atomic batch, the JSON text,    *)
(* the marker that sets a torn line aside.  What a piece says is kept only *)
(* as far as the reader tells it apart: whole, cut inside a JSON string,   *)
(* or cut elsewhere.                                                       *)
(***************************************************************************)
EXTENDS Naturals, Sequences, FiniteSets, FiniteSetsExt

CONSTANTS
  Handles,          \* open stores on the file, sharing one writer claim
  MaxAppends,       \* bound: appends that reach the file
  MaxBatch,         \* bound: items of an atomic batch
  MaxFaults         \* bound: I/O errors and crashes

ASSUME JournalAssumption ==
  /\ MaxAppends \in Nat
  /\ MaxBatch \in Nat \ {0}
  /\ MaxFaults \in Nat

VARIABLES
  file,      \* the lines on disk
  synced,    \* the position up to which a power loss takes nothing
  handle,    \* per handle: open?, the length it recorded, the batches it parsed
  writer,    \* the append in progress, which holds the claim's gate
  acked,     \* the batches whose append returned Ok
  appends, faults

vars == <<file, synced, handle, writer, acked, appends, faults>>

-----------------------------------------------------------------------------
(* Lines *)

Batch == [id : 1 .. MaxAppends, first : Nat \ {0}, size : 1 .. MaxBatch]

Frame == [kind |-> "frame", part |-> "whole"]
Mark == [kind |-> "mark", part |-> "whole"]
Newline == [kind |-> "newline", part |-> "whole"]
Json(b) == [kind |-> "json", part |-> "whole", batch |-> b]

\* What is left on disk when the write of a piece is cut after its first byte.
Torn(piece) ==
  CASE piece.kind = "json" -> {[piece EXCEPT !.part = p] : p \in {"string", "cut"}}
    [] piece.kind \in {"frame", "mark"} -> {[piece EXCEPT !.part = "cut"]}
    [] OTHER -> {}

Payload(line) == IF line # <<>> /\ line[1] = Frame THEN Tail(line) ELSE line

Parses(line) ==
  LET p == Payload(line)
  IN  Len(p) = 1 /\ p[1].kind = "json" /\ p[1].part = "whole"

BatchOf(line) == Payload(line)[1].batch

\* The bytes are a prefix of the frame sentinel, or start with all of it.
FrameFragment(line) ==
  line # <<>> /\ line[1].kind = "frame" /\ (line[1] = Frame \/ Len(line) = 1)

\* The JSON parser runs out of input.  Inside a string the marker's text is
\* just more of the string; anywhere else it is a syntax error.
EndsEarly(line) ==
  LET p == Payload(line)
  IN  /\ p # <<>>
      /\ p[1].kind = "json"
      /\ p[1].part = "string" \/ (p[1].part = "cut" /\ Len(p) = 1)

SetAside(line) ==
  /\ line # <<>>
  /\ line[Len(line)] = Mark
  /\ LET torn == SubSeq(line, 1, Len(line) - 1)
     IN  FrameFragment(torn) \/ ~Parses(torn)

Recoverable(line, atEof) ==
  \/ atEof /\ (FrameFragment(line) \/ EndsEarly(line))
  \/ SetAside(line)

LineOk(line, atEof) == line = <<>> \/ Parses(line) \/ Recoverable(line, atEof)

-----------------------------------------------------------------------------
(* The file *)

Position(f) == <<Len(f), Len(f[Len(f)])>>

AtOrBefore(p, q) == p[1] < q[1] \/ (p[1] = q[1] /\ p[2] <= q[2])

\* A mutant of Put: a newline does not end the line.
PutInline(f, piece) == [f EXCEPT ![Len(f)] = Append(@, piece)]

Put(f, piece) ==
  IF piece = Newline
  THEN Append(f, <<>>)
  ELSE [f EXCEPT ![Len(f)] = Append(@, piece)]

UpTo(f, p) == Append(SubSeq(f, 1, p[1] - 1), SubSeq(f[p[1]], 1, p[2]))

ReadableFrom(f, n) == \A i \in n .. Len(f) : LineOk(f[i], i = Len(f))

FoundFrom(f, n) == {BatchOf(f[i]) : i \in {j \in n .. Len(f) : Parses(f[j])}}

Contents(f) == FoundFrom(f, 1)

Final(b) == b.first + b.size - 1

LastSeq(B) == IF B = {} THEN 0 ELSE Max({Final(b) : b \in B})

Disjoint(B) ==
  \A b, c \in B : b # c => Final(b) < c.first \/ Final(c) < b.first

\* A strict read of the whole file and its validation succeed.
Loads(f) == ReadableFrom(f, 1) /\ Disjoint(Contents(f))

-----------------------------------------------------------------------------
(* Handles *)

Closed == [open |-> FALSE, pos |-> <<1, 0>>, batches |-> {}]

Loaded(f) == [open |-> TRUE, pos |-> Position(f), batches |-> Contents(f)]

\* A mutant of Fresh: the recorded length is not compared.
AlwaysFresh(hd) == hd.open

Fresh(hd) == hd.pos = Position(file)

\* The tail past the recorded length can be folded onto the projection: the
\* length is a line boundary, every line classifies, and nothing is numbered
\* inside the committed history.
Folds(hd) ==
  /\ hd.pos[2] = 0
  /\ AtOrBefore(hd.pos, Position(file))
  /\ ReadableFrom(file, hd.pos[1])
  /\ \A b \in FoundFrom(file, hd.pos[1]) : b.first > LastSeq(hd.batches)

Reloads(hd) == Folds(hd) \/ Loads(file)

Reloaded(hd) ==
  IF Folds(hd)
  THEN [hd EXCEPT !.pos = Position(file),
                  !.batches = @ \union FoundFrom(file, hd.pos[1])]
  ELSE Loaded(file)

Idle == [busy |-> FALSE]

\* A mutant of Boundary: only a torn frame is set aside, not a torn record.
BoundaryFramesOnly(f) ==
  LET line == f[Len(f)]
  IN  IF line = <<>> THEN <<>>
      ELSE IF FrameFragment(line) THEN <<Mark, Newline>>
      ELSE <<Newline>>

\* What an append writes before its own line: nothing after a newline, the
\* missing newline after a complete last line, and the marker before it after
\* a torn one.
Boundary(f) ==
  LET line == f[Len(f)]
  IN  IF line = <<>> THEN <<>>
      ELSE IF Parses(line) THEN <<Newline>>
      ELSE <<Mark, Newline>>

-----------------------------------------------------------------------------
Init ==
  /\ file = << <<>> >>
  /\ synced = <<1, 0>>
  /\ handle = [h \in Handles |-> Closed]
  /\ writer = Idle
  /\ acked = {}
  /\ appends = 0
  /\ faults = 0

\* A store is opened; the gate is free while it reads.  An unreadable file
\* is refused.
Open(h) ==
  /\ ~writer.busy
  /\ ~handle[h].open
  /\ Loads(file)
  /\ handle' = [handle EXCEPT ![h] = Loaded(file)]
  /\ UNCHANGED <<file, synced, writer, acked, appends, faults>>

\* refresh and ensure_fresh: the file grew, the projection follows.
Refresh(h) ==
  /\ ~writer.busy
  /\ handle[h].open
  /\ ~Fresh(handle[h])
  /\ Reloads(handle[h])
  /\ handle' = [handle EXCEPT ![h] = Reloaded(@)]
  /\ UNCHANGED <<file, synced, writer, acked, appends, faults>>

\* An append takes the gate, brings its projection up to date, numbers its
\* items and looks at the last line.
Begin(h, framed, n) ==
  LET hd == IF Fresh(handle[h]) THEN handle[h] ELSE Reloaded(handle[h])
      b == [id |-> appends + 1, first |-> LastSeq(hd.batches) + 1, size |-> n]
      line == IF framed THEN <<Frame, Json(b), Newline>> ELSE <<Json(b), Newline>>
  IN  /\ ~writer.busy
      /\ handle[h].open
      /\ Fresh(handle[h]) \/ Reloads(handle[h])
      /\ appends < MaxAppends
      /\ framed \/ n = 1
      /\ appends' = appends + 1
      /\ handle' = [handle EXCEPT ![h] = hd]
      /\ writer' = [busy |-> TRUE, by |-> h, batch |-> b, flushed |-> FALSE,
                    todo |-> Boundary(file) \o line]
      /\ UNCHANGED <<file, synced, acked, faults>>

Write ==
  /\ writer.busy
  /\ writer.todo # <<>>
  /\ file' = Put(file, Head(writer.todo))
  /\ writer' = [writer EXCEPT !.todo = Tail(@)]
  /\ UNCHANGED <<synced, handle, acked, appends, faults>>

\* A mutant of Sync: success is reported without it.
SyncSkipped ==
  /\ writer.busy
  /\ writer.todo = <<>>
  /\ ~writer.flushed
  /\ writer' = [writer EXCEPT !.flushed = TRUE]
  /\ UNCHANGED <<file, synced, handle, acked, appends, faults>>

Sync ==
  /\ writer.busy
  /\ writer.todo = <<>>
  /\ ~writer.flushed
  /\ synced' = Position(file)
  /\ writer' = [writer EXCEPT !.flushed = TRUE]
  /\ UNCHANGED <<file, handle, acked, appends, faults>>

\* The append is durable: the batch joins the projection without a re-read,
\* and the caller is told.
Commit ==
  /\ writer.busy
  /\ writer.flushed
  /\ handle' = [handle EXCEPT ![writer.by].pos = Position(file),
                              ![writer.by].batches = @ \union {writer.batch}]
  /\ acked' = acked \union {writer.batch}
  /\ writer' = Idle
  /\ UNCHANGED <<file, synced, appends, faults>>

\* The file as it may be when the write in progress is cut.
CutWrites ==
  {file} \union
    IF writer.busy /\ writer.todo # <<>>
    THEN {Put(file, piece) : piece \in Torn(Head(writer.todo))}
    ELSE {}

\* A write or the sync returns an error; the process lives on, with the
\* handle's recorded length as it was.
IoError ==
  /\ writer.busy
  /\ ~writer.flushed
  /\ faults < MaxFaults
  /\ faults' = faults + 1
  /\ file' \in CutWrites
  /\ writer' = Idle
  /\ UNCHANGED <<synced, handle, acked, appends>>

Positions(f) == UNION {{i} \X (0 .. Len(f[i])) : i \in 1 .. Len(f)}

\* What a power loss may leave of a file: all of it up to some position at or
\* after the last sync, the piece there possibly torn.
Survivors(f) ==
  UNION {LET kept == UpTo(f, p)
             next == IF p[2] < Len(f[p[1]]) THEN Torn(f[p[1]][p[2] + 1]) ELSE {}
         IN  {kept} \union {Put(kept, piece) : piece \in next} :
           p \in {q \in Positions(f) : AtOrBefore(synced, q)}}

\* The process is killed, or the machine loses power; the next process starts
\* with every handle closed.
Crash ==
  /\ faults < MaxFaults
  /\ faults' = faults + 1
  /\ \E f \in CutWrites : file' \in Survivors(f)
  /\ synced' = Position(file')
  /\ handle' = [h \in Handles |-> Closed]
  /\ writer' = Idle
  /\ UNCHANGED <<acked, appends>>

Next ==
  \/ \E h \in Handles : Open(h) \/ Refresh(h)
  \/ \E h \in Handles, framed \in BOOLEAN, n \in 1 .. MaxBatch : Begin(h, framed, n)
  \/ Write
  \/ Sync
  \/ Commit
  \/ IoError
  \/ Crash

Spec == Init /\ [][Next]_vars

-----------------------------------------------------------------------------
(* What must hold *)

Pieces == [kind : {"frame", "mark"}, part : {"whole", "cut"}]
          \union [kind : {"json"}, part : {"whole", "string", "cut"}, batch : Batch]

\* Every variable has its type: lines of pieces on disk, projections made of
\* batches, at most one append in progress.
TypeOK ==
  /\ file \in Seq(Seq(Pieces))
  /\ file # <<>>
  /\ synced \in Nat \X Nat
  /\ handle \in [Handles -> [open : BOOLEAN, pos : Nat \X Nat, batches : SUBSET Batch]]
  /\ \/ writer = Idle
     \/ writer \in [busy : {TRUE}, by : Handles, batch : Batch, flushed : BOOLEAN,
                    todo : Seq(Pieces \union {Newline})]
  /\ acked \subseteq Batch
  /\ appends \in 0 .. MaxAppends
  /\ faults \in 0 .. MaxFaults

\* The last line ends in part of a marker: the write that was to set a torn line
\* aside was itself cut.
MarkerCut(f) ==
  LET line == f[Len(f)]
  IN  line # <<>> /\ line[Len(line)].kind = "mark" /\ line[Len(line)].part = "cut"

\* The file opens however often the writes of sentinels and records are cut, by
\* errors or power losses, and whichever handle appends next: a torn line is
\* either the last one and recognised as cut short, or set aside by the marker of
\* the append after it, and no two batches share a number.  Markers are cut too;
\* a file whose last line ends in part of one is the only kind the property says
\* nothing of.  prepare_append_boundary promises more ("so the next strict read
\* can skip it instead of bricking the whole session", jsonl.rs:1283): after a cut
\* marker the reader finds neither a truncated record nor a line set aside.
NeverBricked == MarkerCut(file) \/ Loads(file)

\* A handle whose recorded length is the file's has in memory exactly what a
\* full read would find: the incremental commit and the folding of a tail, also
\* from the middle of a torn line, agree with the strict parse.
Coherent ==
  ~writer.busy =>
    \A h \in Handles :
      handle[h].open /\ handle[h].pos = Position(file) => handle[h].batches = Contents(file)

\* The file, read strictly, is a durable log: a batch appears whole, numbered
\* above everything before it, over handles, crashes and failed appends that
\* turn out to be in the file after all; and only a crash takes any away, never
\* one whose append returned Ok, whatever torn lines lie before it.
Log == INSTANCE DurableLog WITH log <- Contents(file), acked <- acked
ImplementsLog == Log!Spec
=============================================================================
