-------------------------- MODULE JournalFile_proofs --------------------------
(***************************************************************************)
(* Theorems about JournalFile, for any handles, batches and faults: what a *)
(* handle keeps in memory is what a full read would find, the file is a    *)
(* durable log, and it opens however often a write was cut, unless its     *)
(* last line ends in part of a marker.                                     *)
(***************************************************************************)
EXTENDS JournalFile, WellFoundedInduction, SequenceTheorems, TLAPS

-----------------------------------------------------------------------------
(* The inductive invariant.  First, the forms of a line: one that parses,   *)
(* or the fragment of one with markers behind it.                          *)

Lines == Seq(Pieces)

IsMark(p) == p.kind = "mark"
TornJson(p) == p.kind = "json" /\ p.part # "whole"
MarksFrom(line, n) == \A i \in n .. Len(line) : IsMark(line[i])

\* A cut piece, alone or after the sentinel, or the sentinel alone.
Broken(line) ==
  /\ line # <<>>
  /\ \/ line[1].kind = "frame" /\ MarksFrom(line, 2)
     \/ TornJson(line[1]) /\ MarksFrom(line, 2)
     \/ line[1] = Frame /\ Len(line) > 1 /\ TornJson(line[2]) /\ MarksFrom(line, 3)

Formed(line) == line = <<>> \/ Parses(line) \/ Broken(line)

\* A line that may have a newline.
Ended(line) ==
  line = <<>> \/ Parses(line) \/ (Broken(line) /\ line[Len(line)] = Mark)

LastOf(f) == f[Len(f)]

\* Every line but the last has its newline, and the batches are numbered in the
\* order of the lines.
FileForm(f) ==
  /\ f \in Seq(Lines) /\ f # <<>>
  /\ Formed(LastOf(f))
  /\ \A i \in 1 .. Len(f) - 1 : Ended(f[i])
  /\ \A i, j \in 1 .. Len(f) :
       i < j /\ Parses(f[i]) /\ Parses(f[j]) => Final(BatchOf(f[i])) < BatchOf(f[j]).first

(* What a reader that went as far as position p of file f has found.       *)
Known(f, p) ==
  {BatchOf(f[i]) : i \in {j \in 1 .. Len(f) : /\ Parses(f[j])
                                              /\ j < p[1] \/ (j = p[1] /\ p[2] = Len(f[j]))}}

HandleType == [open : BOOLEAN, pos : Nat \X Nat, batches : SUBSET Batch]

\* A handle knows the batches of the file up to the position it recorded.
HandlesOK ==
  /\ handle \in [Handles -> HandleType]
  /\ \A h \in Handles : handle[h].open =>
       /\ handle[h].pos \in Positions(file)
       /\ handle[h].batches = Known(file, handle[h].pos)

\* What was acknowledged lies before the position of the last sync.
SyncedOK ==
  /\ synced \in Positions(file)
  /\ \A b \in acked : \E i \in 1 .. Len(file) :
       i < synced[1] /\ Parses(file[i]) /\ BatchOf(file[i]) = b

(* The stages of an append.                                                *)
Bodies(b) == {<<Frame, Json(b), Newline>>, <<Json(b), Newline>>}

Marking(todo, b) ==
  todo \in {<<Mark, Newline, Frame, Json(b), Newline>>, <<Mark, Newline, Json(b), Newline>>}
Ending(todo, b) ==
  todo \in {<<Newline, Frame, Json(b), Newline>>, <<Newline, Json(b), Newline>>}

Before(line, todo, b) ==
  \/ Marking(todo, b) /\ Broken(line)
  \/ Ending(todo, b) /\ Ended(line) /\ line # <<>>
  \/ todo \in Bodies(b) /\ line = <<>>
  \/ todo = <<Json(b), Newline>> /\ line = <<Frame>>

After(line, todo, b) ==
  \/ todo = <<Newline>> /\ Parses(line) /\ BatchOf(line) = b
  \/ todo = <<>> /\ line = <<>>

WriterType ==
  [busy : {TRUE}, by : Handles, batch : Batch, flushed : BOOLEAN,
   todo : Seq(Pieces \union {Newline})]

\* The append in progress has the highest number, and its handle knows of all
\* that was in the file before.
WriterOK ==
  \/ writer = Idle
  \/ /\ writer \in WriterType
     /\ handle[writer.by].open
     /\ \/ /\ Before(LastOf(file), writer.todo, writer.batch)
           /\ \A c \in Contents(file) : Final(c) < writer.batch.first
           /\ Contents(file) = handle[writer.by].batches
        \/ /\ After(LastOf(file), writer.todo, writer.batch)
           /\ Contents(file) = handle[writer.by].batches \union {writer.batch}
     /\ writer.flushed => writer.todo = <<>> /\ synced = Position(file)

Counters == acked \subseteq Batch /\ appends \in 0 .. MaxAppends /\ faults \in 0 .. MaxFaults

Inv == FileForm(file) /\ HandlesOK /\ SyncedOK /\ WriterOK /\ Counters

-----------------------------------------------------------------------------
(* Lemmas about pieces and lines.                                          *)

LEMMA PieceFacts ==
  /\ Frame \in Pieces /\ Mark \in Pieces
  /\ \A b \in Batch : /\ Json(b) \in Pieces /\ Json(b).kind = "json" /\ Json(b).part = "whole"
                      /\ Json(b).batch = b
  /\ Frame.kind = "frame" /\ Frame.part = "whole" /\ Mark.kind = "mark" /\ Mark.part = "whole"
  /\ Newline.kind = "newline"
  /\ \A p \in Pieces : /\ p.kind \in {"frame", "mark", "json"}
                       /\ p.part \in {"whole", "string", "cut"}
                       /\ p.kind = "json" => p.batch \in Batch
                       /\ p.kind \in {"frame", "mark"} => p.part # "string"
BY DEF Frame, Mark, Json, Newline, Pieces

LEMMA WholePieces ==
  ASSUME NEW p \in Pieces, p.part = "whole"
  PROVE  /\ p.kind = "frame" => p = Frame
         /\ p.kind = "mark" => p = Mark
BY DEF Frame, Mark, Pieces

LEMMA TornFacts ==
  ASSUME NEW p \in Pieces, NEW q \in Torn(p)
  PROVE  q \in Pieces /\ q.kind = p.kind /\ q.part # "whole"
<1>1. CASE p.kind = "json"
  <2>1. PICK x \in {"string", "cut"} : q = [p EXCEPT !.part = x]
    BY <1>1 DEF Torn
  <2>2. PICK y \in {"whole", "string", "cut"}, b \in Batch : p = [kind |-> "json", part |-> y, batch |-> b]
    BY <1>1 DEF Pieces
  <2>3. q = [kind |-> "json", part |-> x, batch |-> b]
    BY <2>1, <2>2
  <2> QED BY <1>1, <2>1, <2>3 DEF Pieces
<1>2. CASE p.kind \in {"frame", "mark"}
  <2>1. q = [p EXCEPT !.part = "cut"]
    BY <1>2 DEF Torn
  <2>2. PICK y : p = [kind |-> p.kind, part |-> y]
    BY <1>2 DEF Pieces
  <2>3. q = [kind |-> p.kind, part |-> "cut"]
    BY <2>1, <2>2
  <2> QED BY <1>2, <2>1, <2>3 DEF Pieces
<1> QED BY <1>1, <1>2, PieceFacts

LEMMA NothingTorn == Torn(Newline) = {}
BY DEF Torn, Newline

LEMMA ParsesIff ==
  ASSUME NEW line \in Lines
  PROVE  /\ Parses(line) <=>
              \/ Len(line) = 1 /\ line[1].kind = "json" /\ line[1].part = "whole"
              \/ /\ Len(line) = 2 /\ line[1] = Frame
                 /\ line[2].kind = "json" /\ line[2].part = "whole"
         /\ Parses(line) => BatchOf(line) = line[Len(line)].batch /\ BatchOf(line) \in Batch
<1>1. CASE line # <<>> /\ line[1] = Frame
  <2>1. Payload(line) = Tail(line)
    BY <1>1 DEF Payload
  <2>2. Len(Tail(line)) = Len(line) - 1 /\ \A i \in 1 .. Len(line) - 1 : Tail(line)[i] = line[i + 1]
    BY <1>1 DEF Lines
  <2>3. Len(line) \in Nat /\ \A i \in 1 .. Len(line) : line[i] \in Pieces
    BY DEF Lines
  <2>4. Frame.kind = "frame"
    BY PieceFacts
  <2> QED BY <1>1, <2>1, <2>2, <2>3, <2>4, PieceFacts DEF Parses, BatchOf
<1>2. CASE ~(line # <<>> /\ line[1] = Frame)
  <2>1. Payload(line) = line
    BY <1>2 DEF Payload
  <2>2. Len(line) \in Nat /\ (\A i \in 1 .. Len(line) : line[i] \in Pieces) /\ (line = <<>> <=> Len(line) = 0)
    BY DEF Lines
  <2> QED BY <1>2, <2>1, <2>2, PieceFacts DEF Parses, BatchOf
<1> QED BY <1>1, <1>2

LEMMA BrokenFacts ==
  ASSUME NEW line \in Lines, Broken(line)
  PROVE  line # <<>> /\ ~Parses(line)
<1>1. line # <<>> /\ Len(line) \in Nat /\ Len(line) > 0
  BY DEF Broken, Lines
<1>2. Frame.kind = "frame"
  BY PieceFacts
<1> QED BY <1>1, <1>2, ParsesIff DEF Broken, TornJson, MarksFrom, IsMark

LEMMA EmptyLine == <<>> \in Lines /\ ~Parses(<<>>) /\ ~Broken(<<>>)
<1>1. <<>> \in Lines /\ Len(<<>>) = 0
  BY DEF Lines
<1> QED BY <1>1, ParsesIff DEF Broken

LEMMA AppendLine ==
  ASSUME NEW line \in Lines, NEW p \in Pieces
  PROVE  /\ Append(line, p) \in Lines
         /\ Len(Append(line, p)) = Len(line) + 1
         /\ \A i \in 1 .. Len(line) : Append(line, p)[i] = line[i]
         /\ Append(line, p)[Len(line) + 1] = p
         /\ Append(line, p) # <<>>
BY DEF Lines

\* A broken line stays broken, and its batches are found no more, whatever is
\* left of the marker behind it.
LEMMA MarkBroken ==
  ASSUME NEW line \in Lines, Broken(line), NEW p \in Pieces, IsMark(p)
  PROVE  /\ Broken(Append(line, p)) /\ ~Parses(Append(line, p))
         /\ p = Mark => Ended(Append(line, p))
<1> DEFINE g == Append(line, p)
<1>1. /\ g \in Lines /\ Len(g) = Len(line) + 1 /\ g # <<>> /\ g[Len(line) + 1] = p
      /\ \A i \in 1 .. Len(line) : g[i] = line[i]
  BY AppendLine
<1>2. Len(line) \in Nat /\ Len(line) > 0
  BY DEF Broken, Lines
<1> HIDE DEF g
<1>3. Broken(g)
  BY <1>1, <1>2 DEF Broken, MarksFrom
<1>4. ~Parses(g)
  BY <1>1, <1>3, BrokenFacts
<1>5. p = Mark => Ended(g)
  BY <1>1, <1>3 DEF Ended
<1> QED BY <1>3, <1>4, <1>5 DEF g

LEMMA FirstPiece ==
  ASSUME NEW p \in Pieces
  PROVE  /\ p.kind = "frame" \/ TornJson(p) => Broken(Append(<<>>, p)) /\ ~Parses(Append(<<>>, p))
         /\ p.kind = "json" /\ p.part = "whole" =>
              Parses(Append(<<>>, p)) /\ BatchOf(Append(<<>>, p)) = p.batch
<1> DEFINE g == Append(<<>>, p)
<1>0. <<>> \in Lines /\ Len(<<>>) = 0 /\ Len(<<>>) + 1 = 1
  BY DEF Lines
<1>1. g \in Lines /\ Len(g) = 1 /\ g[1] = p /\ g # <<>>
  BY <1>0 DEF Lines
<1> HIDE DEF g
<1>2. p.kind = "frame" \/ TornJson(p) => Broken(g) /\ ~Parses(g)
  BY <1>1, BrokenFacts DEF Broken, MarksFrom
<1>3. p.kind = "json" /\ p.part = "whole" => Parses(g) /\ BatchOf(g) = p.batch
  BY <1>1, ParsesIff
<1> QED BY <1>2, <1>3 DEF g

LEMMA AfterFrame ==
  ASSUME NEW p \in Pieces, p.kind = "json"
  PROVE  /\ p.part # "whole" => Broken(Append(<<Frame>>, p)) /\ ~Parses(Append(<<Frame>>, p))
         /\ p.part = "whole" =>
              Parses(Append(<<Frame>>, p)) /\ BatchOf(Append(<<Frame>>, p)) = p.batch
<1> DEFINE g == Append(<<Frame>>, p)
<1>0. <<Frame>> \in Lines /\ Len(<<Frame>>) = 1 /\ <<Frame>>[1] = Frame
  BY PieceFacts DEF Lines
<1>1. g \in Lines /\ Len(g) = 2 /\ g[1] = Frame /\ g[2] = p /\ g # <<>>
  BY <1>0, AppendLine
<1> HIDE DEF g
<1>2. p.part # "whole" => Broken(g) /\ ~Parses(g)
  BY <1>1, BrokenFacts DEF Broken, MarksFrom, TornJson
<1>3. p.part = "whole" => Parses(g) /\ BatchOf(g) = p.batch
  BY <1>1, ParsesIff
<1> QED BY <1>2, <1>3 DEF g

LEMMA OnlyFrame == <<Frame>> \in Lines /\ Broken(<<Frame>>) /\ ~Parses(<<Frame>>)
<1>1. <<Frame>> \in Lines /\ Len(<<Frame>>) = 1 /\ <<Frame>>[1] = Frame /\ <<Frame>> # <<>>
  BY PieceFacts DEF Lines
<1> QED BY <1>1, BrokenFacts, PieceFacts DEF Broken, MarksFrom

LEMMA EndedFormed ==
  ASSUME NEW line, Ended(line)
  PROVE  Formed(line)
BY DEF Ended, Formed

\* What is left of a line that is cut, at a piece or inside one, is well formed,
\* and does not parse.
LEMMA PrefixLine ==
  ASSUME NEW line \in Lines, Formed(line), NEW k \in 0 .. Len(line)
  PROVE  /\ SubSeq(line, 1, k) \in Lines /\ Len(SubSeq(line, 1, k)) = k
         /\ \A i \in 1 .. k : SubSeq(line, 1, k)[i] = line[i]
         /\ Formed(SubSeq(line, 1, k))
         /\ k > 0 /\ k < Len(line) => Broken(SubSeq(line, 1, k))
         /\ k < Len(line) => ~Parses(SubSeq(line, 1, k))
         /\ k = Len(line) => SubSeq(line, 1, k) = line
         /\ k = 0 => SubSeq(line, 1, k) = <<>>
<1> DEFINE g == SubSeq(line, 1, k)
<1>1. /\ g \in Lines /\ Len(g) = k /\ Len(line) \in Nat
      /\ \A i \in 1 .. k : g[i] = line[i]
  BY DEF Lines
<1>2. k = Len(line) => g = line
  BY DEF Lines
<1>3. k = 0 => g = <<>>
  BY <1>1 DEF Lines
<1>4. k > 0 => g # <<>>
  BY <1>1
<1> HIDE DEF g
<1>5. ASSUME k > 0, k < Len(line) PROVE Broken(g)
  <2>1. CASE Parses(line)
    <3>1. k = 1 /\ line[1] = Frame
      BY <1>1, <1>5, <2>1, ParsesIff
    <3> QED BY <1>1, <1>4, <3>1, PieceFacts DEF Broken, MarksFrom
  <2>2. CASE Broken(line)
    <3>1. CASE line[1].kind = "frame" /\ MarksFrom(line, 2)
      BY <1>1, <1>4, <1>5, <3>1 DEF Broken, MarksFrom
    <3>2. CASE TornJson(line[1]) /\ MarksFrom(line, 2)
      BY <1>1, <1>4, <1>5, <3>2 DEF Broken, MarksFrom
    <3>3. CASE line[1] = Frame /\ Len(line) > 1 /\ TornJson(line[2]) /\ MarksFrom(line, 3)
      <4>1. CASE k = 1
        BY <1>1, <1>4, <3>3, <4>1, PieceFacts DEF Broken, MarksFrom
      <4>2. CASE k > 1
        BY <1>1, <1>4, <1>5, <3>3, <4>2 DEF Broken, MarksFrom
      <4> QED BY <1>5, <4>1, <4>2
    <3> QED BY <2>2, <3>1, <3>2, <3>3 DEF Broken
  <2>3. line # <<>>
    BY <1>5 DEF Lines
  <2> QED BY <2>1, <2>2, <2>3 DEF Formed
<1>6. k < Len(line) => ~Parses(g)
  <2>1. CASE k > 0
    BY <1>1, <1>5, <2>1, BrokenFacts
  <2>2. CASE k = 0
    BY <1>3, <2>2, EmptyLine
  <2> QED BY <2>1, <2>2
<1>7. Formed(g)
  BY <1>2, <1>3, <1>5 DEF Formed
<1> QED BY <1>1, <1>2, <1>3, <1>5, <1>6, <1>7 DEF g

LEMMA FirstKind ==
  ASSUME NEW line \in Lines, Formed(line), line # <<>>
  PROVE  line[1] \in Pieces /\ line[1].kind \in {"frame", "json"}
<1>1. Len(line) \in Nat /\ Len(line) > 0 /\ line[1] \in Pieces
  BY DEF Lines
<1> QED BY <1>1, ParsesIff, PieceFacts DEF Formed, Broken, TornJson

LEMMA CutLine ==
  ASSUME NEW line \in Lines, Formed(line), NEW k \in 0 .. Len(line), k < Len(line),
         NEW q \in Torn(line[k + 1])
  PROVE  /\ q \in Pieces
         /\ Formed(Append(SubSeq(line, 1, k), q)) /\ ~Parses(Append(SubSeq(line, 1, k), q))
<1>1. PICK g : g = SubSeq(line, 1, k)
  OBVIOUS
<1>2. /\ g \in Lines /\ Len(g) = k /\ (\A i \in 1 .. k : g[i] = line[i])
      /\ (k = 0 => g = <<>>) /\ (k > 0 => Broken(g))
  BY <1>1, PrefixLine
<1>3. line[k + 1] \in Pieces /\ Len(line) \in Nat /\ line # <<>>
  BY DEF Lines
<1>4. PICK q2 : q2 = q /\ q2 \in Pieces /\ q2.kind = line[k + 1].kind /\ q2.part # "whole"
  BY <1>3, TornFacts
<1>5. Broken(Append(g, q2)) /\ ~Parses(Append(g, q2))
  <2>1. CASE k = 0
    <3>1. q2.kind \in {"frame", "json"}
      BY <1>3, <1>4, <2>1, FirstKind
    <3>2. Broken(Append(<<>>, q2)) /\ ~Parses(Append(<<>>, q2))
      BY <1>4, <3>1, FirstPiece DEF TornJson
    <3> QED BY <1>2, <2>1, <3>2
  <2>2. CASE k > 0 /\ line[k + 1].kind = "mark"
    BY <1>2, <1>4, <2>2, MarkBroken DEF IsMark
  <2>3. CASE k > 0 /\ line[k + 1].kind # "mark"
    <3>1. k = 1 /\ line[1] = Frame /\ line[2].kind = "json"
      <4>1. CASE Parses(line)
        BY <1>3, <2>3, <4>1, ParsesIff
      <4>2. CASE Broken(line)
        <5>1. ~(MarksFrom(line, 2))
          BY <1>3, <2>3 DEF MarksFrom, IsMark
        <5> QED BY <1>3, <2>3, <4>2, <5>1 DEF Broken, MarksFrom, IsMark, TornJson
      <4> QED BY <1>3, <4>1, <4>2 DEF Formed
    <3>2. g = <<Frame>>
      BY <1>2, <3>1 DEF Lines
    <3> QED BY <1>4, <3>1, <3>2, AfterFrame
  <2> QED BY <2>1, <2>2, <2>3
<1> QED BY <1>1, <1>4, <1>5 DEF Formed

LEMMA LineTypes ==
  ASSUME NEW f \in Seq(Lines), f # <<>>
  PROVE  /\ Len(f) \in Nat /\ Len(f) > 0 /\ Len(f) \in 1 .. Len(f)
         /\ \A i \in 1 .. Len(f) : f[i] \in Lines /\ Len(f[i]) \in Nat
<1>1. Len(f) \in Nat /\ Len(f) > 0 /\ Len(f) \in 1 .. Len(f) /\ \A i \in 1 .. Len(f) : f[i] \in Lines
  OBVIOUS
<1>2. \A line \in Lines : Len(line) \in Nat
  BY DEF Lines
<1> QED BY <1>1, <1>2

LEMMA FormFacts ==
  ASSUME NEW f, FileForm(f)
  PROVE  /\ f \in Seq(Lines) /\ f # <<>>
         /\ Len(f) \in Nat /\ Len(f) > 0 /\ Len(f) \in 1 .. Len(f)
         /\ LastOf(f) \in Lines /\ LastOf(f) = f[Len(f)] /\ Formed(LastOf(f))
         /\ \A i \in 1 .. Len(f) : f[i] \in Lines /\ Len(f[i]) \in Nat /\ Formed(f[i])
<1>1. f \in Seq(Lines) /\ f # <<>>
  BY DEF FileForm
<1>2. \A i \in 1 .. Len(f) : Formed(f[i])
  <2> TAKE i \in 1 .. Len(f)
  <2>1. CASE i = Len(f)
    BY <2>1 DEF FileForm, LastOf
  <2>2. CASE i # Len(f)
    BY <1>1, <2>2, LineTypes, EndedFormed DEF FileForm
  <2> QED BY <2>1, <2>2
<1> QED BY <1>1, <1>2, LineTypes DEF FileForm, LastOf

-----------------------------------------------------------------------------
(* Lemmas about positions and what a reader finds.                         *)

LEMMA PositionFacts ==
  ASSUME NEW f
  PROVE  /\ \A p \in Positions(f) : /\ p = <<p[1], p[2]>> /\ p[1] \in 1 .. Len(f)
                                    /\ p[2] \in 0 .. Len(f[p[1]])
         /\ \A i \in 1 .. Len(f) : \A k \in 0 .. Len(f[i]) : <<i, k>> \in Positions(f)
<1>1. ASSUME NEW p \in Positions(f)
      PROVE  p = <<p[1], p[2]>> /\ p[1] \in 1 .. Len(f) /\ p[2] \in 0 .. Len(f[p[1]])
  <2>1. PICK i \in 1 .. Len(f) : p \in {i} \X (0 .. Len(f[i]))
    BY DEF Positions
  <2> QED BY <2>1
<1>2. ASSUME NEW i \in 1 .. Len(f), NEW k \in 0 .. Len(f[i]) PROVE <<i, k>> \in Positions(f)
  BY DEF Positions
<1> QED BY <1>1, <1>2

LEMMA PositionNat ==
  ASSUME NEW f, FileForm(f)
  PROVE  /\ Position(f) \in Positions(f) /\ Positions(f) \subseteq Nat \X Nat
         /\ Position(f)[1] = Len(f) /\ Position(f)[2] = Len(f[Len(f)])
<1>1. Position(f) \in Positions(f)
  BY FormFacts, PositionFacts DEF Position
<1>2. ASSUME NEW p \in Positions(f) PROVE p \in Nat \X Nat
  <2>1. p = <<p[1], p[2]>> /\ p[1] \in 1 .. Len(f) /\ p[2] \in 0 .. Len(f[p[1]])
    BY PositionFacts
  <2>2. p[1] \in Nat /\ p[2] \in Nat
    BY <2>1, FormFacts
  <2> QED BY <2>1, <2>2
<1> QED BY <1>1, <1>2 DEF Position

LEMMA InContents ==
  ASSUME NEW f, NEW b
  PROVE  b \in Contents(f) <=> \E i \in 1 .. Len(f) : Parses(f[i]) /\ BatchOf(f[i]) = b
BY DEF Contents, FoundFrom

LEMMA InKnown ==
  ASSUME NEW f, NEW p, NEW b
  PROVE  b \in Known(f, p) <=>
           \E i \in 1 .. Len(f) : /\ Parses(f[i]) /\ BatchOf(f[i]) = b
                                  /\ i < p[1] \/ (i = p[1] /\ p[2] = Len(f[i]))
BY DEF Known

LEMMA AllKnown ==
  ASSUME NEW f, FileForm(f)
  PROVE  Known(f, Position(f)) = Contents(f) /\ Contents(f) \subseteq Batch
<1>1. ASSUME NEW b PROVE b \in Known(f, Position(f)) <=> b \in Contents(f)
  BY FormFacts, InContents, InKnown, PositionNat
<1>2. ASSUME NEW b \in Contents(f) PROVE b \in Batch
  BY FormFacts, InContents, ParsesIff
<1> QED BY <1>1, <1>2

\* A handle that folds a tail onto its projection has what a full read finds.
LEMMA FoldKnown ==
  ASSUME NEW f, FileForm(f), NEW p \in Positions(f), p[2] = 0
  PROVE  Known(f, p) \union FoundFrom(f, p[1]) = Contents(f)
<1>1. p[1] \in 1 .. Len(f)
  BY PositionFacts
<1>2. ASSUME NEW b \in Known(f, p) \union FoundFrom(f, p[1]) PROVE b \in Contents(f)
  <2>1. CASE b \in Known(f, p)
    BY <2>1, InKnown, InContents
  <2>2. CASE b \in FoundFrom(f, p[1])
    <3>1. PICK i \in p[1] .. Len(f) : Parses(f[i]) /\ BatchOf(f[i]) = b
      BY <2>2 DEF FoundFrom
    <3>2. i \in 1 .. Len(f)
      BY <1>1, FormFacts
    <3> QED BY <3>1, <3>2, InContents
  <2> QED BY <1>2, <2>1, <2>2
<1>3. ASSUME NEW b \in Contents(f) PROVE b \in Known(f, p) \union FoundFrom(f, p[1])
  <2>1. PICK i \in 1 .. Len(f) : Parses(f[i]) /\ BatchOf(f[i]) = b
    BY InContents
  <2>2. CASE i < p[1]
    BY <2>1, <2>2, InKnown
  <2>3. CASE ~(i < p[1])
    <3>1. i \in p[1] .. Len(f)
      BY <1>1, <2>3, FormFacts
    <3> QED BY <2>1, <3>1 DEF FoundFrom
  <2> QED BY <2>2, <2>3
<1> QED BY <1>2, <1>3

-----------------------------------------------------------------------------
(* Lemmas about how the file grows.                                        *)

\* g is the file f with more behind it: what was recorded of f stays true of g.
Grown(f, g) ==
  /\ FileForm(g)
  /\ Len(f) <= Len(g) /\ \A i \in 1 .. Len(f) - 1 : g[i] = f[i]
  /\ Positions(f) \subseteq Positions(g)
  /\ \A p \in Positions(f) : Known(g, p) = Known(f, p)

LEMMA PutPiece ==
  ASSUME NEW f \in Seq(Lines), f # <<>>, NEW p \in Pieces
  PROVE  /\ Put(f, p) \in Seq(Lines) /\ Put(f, p) # <<>> /\ Len(Put(f, p)) = Len(f)
         /\ \A i \in 1 .. Len(f) - 1 : Put(f, p)[i] = f[i]
         /\ LastOf(Put(f, p)) = Append(LastOf(f), p)
<1>1. p # Newline
  BY PieceFacts
<1>2. PICK line : line = Append(f[Len(f)], p)
  OBVIOUS
<1>3. Put(f, p) = [f EXCEPT ![Len(f)] = line]
  BY <1>1, <1>2 DEF Put
<1>4. line \in Lines /\ Len(f) \in 1 .. Len(f)
  BY <1>2, LineTypes, AppendLine
<1> QED BY <1>2, <1>3, <1>4 DEF LastOf

LEMMA PutNewline ==
  ASSUME NEW f \in Seq(Lines), f # <<>>
  PROVE  /\ Put(f, Newline) \in Seq(Lines) /\ Put(f, Newline) # <<>>
         /\ Len(Put(f, Newline)) = Len(f) + 1
         /\ \A i \in 1 .. Len(f) : Put(f, Newline)[i] = f[i]
         /\ LastOf(Put(f, Newline)) = <<>>
<1>1. Put(f, Newline) = Append(f, <<>>)
  BY DEF Put
<1>2. PICK e : e = <<>> /\ e \in Lines
  BY EmptyLine
<1>3. Put(f, Newline) = Append(f, e)
  BY <1>1, <1>2
<1> QED BY <1>2, <1>3 DEF LastOf

\* The last line grows and does not parse afterwards.
LEMMA GrowBroken ==
  ASSUME NEW f, FileForm(f), NEW p \in Pieces, ~Parses(LastOf(f)),
         Formed(Append(LastOf(f), p)), ~Parses(Append(LastOf(f), p))
  PROVE  Grown(f, Put(f, p)) /\ Contents(Put(f, p)) = Contents(f)
<1>1. PICK g : g = Put(f, p)
  OBVIOUS
<1>2. /\ g \in Seq(Lines) /\ g # <<>> /\ Len(g) = Len(f) /\ LastOf(g) = Append(LastOf(f), p)
      /\ \A i \in 1 .. Len(f) - 1 : g[i] = f[i]
  BY <1>1, FormFacts, PutPiece
<1>3. /\ Len(f) \in Nat /\ Len(f) > 0 /\ g[Len(f)] = LastOf(g) /\ f[Len(f)] = LastOf(f)
      /\ Len(g[Len(f)]) = Len(f[Len(f)]) + 1 /\ Len(f[Len(f)]) \in Nat
      /\ ~Parses(f[Len(f)]) /\ ~Parses(g[Len(f)])
  BY <1>2, FormFacts, AppendLine DEF LastOf
<1>4. \A i \in 1 .. Len(f) : Parses(g[i]) \/ Parses(f[i]) => i < Len(f) /\ g[i] = f[i]
  <2> TAKE i \in 1 .. Len(f)
  <2>1. CASE i = Len(f)
    BY <1>3, <2>1
  <2>2. CASE i # Len(f)
    <3>1. i \in 1 .. Len(f) - 1
      BY <1>3, <2>2
    <3> QED BY <1>2, <3>1
  <2> QED BY <2>1, <2>2
<1>5. FileForm(g)
  BY <1>2, <1>3, <1>4 DEF FileForm
<1>6. ASSUME NEW q \in Positions(f) PROVE q \in Positions(g)
  <2>1. q = <<q[1], q[2]>> /\ q[1] \in 1 .. Len(f) /\ q[2] \in 0 .. Len(f[q[1]])
    BY PositionFacts
  <2>2. q[2] \in 0 .. Len(g[q[1]])
    BY <1>2, <1>3, <2>1
  <2> QED BY <1>2, <2>1, <2>2, PositionFacts
<1>7. ASSUME NEW q \in Positions(f) PROVE Known(g, q) = Known(f, q)
  <2>1. ASSUME NEW b PROVE b \in Known(g, q) <=> b \in Known(f, q)
    BY <1>2, <1>4, InKnown
  <2> QED BY <2>1
<1>8. Contents(g) = Contents(f)
  <2>1. ASSUME NEW b PROVE b \in Contents(g) <=> b \in Contents(f)
    BY <1>2, <1>4, InContents
  <2> QED BY <2>1
<1> QED BY <1>1, <1>2, <1>3, <1>5, <1>6, <1>7, <1>8 DEF Grown

LEMMA GrowLine ==
  ASSUME NEW f, FileForm(f), Ended(LastOf(f))
  PROVE  Grown(f, Put(f, Newline)) /\ Contents(Put(f, Newline)) = Contents(f)
<1>1. PICK g : g = Put(f, Newline)
  OBVIOUS
<1>2. /\ g \in Seq(Lines) /\ g # <<>> /\ Len(g) = Len(f) + 1 /\ LastOf(g) = <<>>
      /\ \A i \in 1 .. Len(f) : g[i] = f[i]
  BY <1>1, FormFacts, PutNewline
<1>3. /\ Len(f) \in Nat /\ Len(f) > 0 /\ g[Len(f) + 1] = <<>> /\ ~Parses(<<>>)
      /\ f[Len(f)] = LastOf(f)
  BY <1>2, FormFacts, EmptyLine DEF LastOf
<1>4. \A i \in 1 .. Len(g) : Parses(g[i]) => i \in 1 .. Len(f)
  BY <1>2, <1>3
<1>5. FileForm(g)
  <2>1. \A i \in 1 .. Len(g) - 1 : Ended(g[i])
    BY <1>2, <1>3 DEF FileForm
  <2>2. \A i, j \in 1 .. Len(g) :
          i < j /\ Parses(g[i]) /\ Parses(g[j]) => Final(BatchOf(g[i])) < BatchOf(g[j]).first
    BY <1>2, <1>4 DEF FileForm
  <2> QED BY <1>2, <2>1, <2>2 DEF FileForm, Formed
<1>6. ASSUME NEW q \in Positions(f) PROVE q \in Positions(g)
  <2>1. q = <<q[1], q[2]>> /\ q[1] \in 1 .. Len(f) /\ q[2] \in 0 .. Len(f[q[1]])
    BY PositionFacts
  <2>2. q[1] \in 1 .. Len(g) /\ q[2] \in 0 .. Len(g[q[1]])
    BY <1>2, <1>3, <2>1
  <2> QED BY <2>1, <2>2, PositionFacts
<1>7. ASSUME NEW q \in Positions(f) PROVE Known(g, q) = Known(f, q)
  <2>1. ASSUME NEW b PROVE b \in Known(g, q) <=> b \in Known(f, q)
    BY <1>2, <1>3, <1>4, InKnown
  <2> QED BY <2>1
<1>8. Contents(g) = Contents(f)
  <2>1. ASSUME NEW b PROVE b \in Contents(g) <=> b \in Contents(f)
    BY <1>2, <1>3, <1>4, InContents
  <2> QED BY <2>1
<1> QED BY <1>1, <1>2, <1>3, <1>5, <1>6, <1>7, <1>8 DEF Grown

\* A batch above all others is added in one step.
LEMMA GrowRecord ==
  ASSUME NEW f, FileForm(f), NEW b \in Batch, ~Parses(LastOf(f)),
         Parses(Append(LastOf(f), Json(b))), BatchOf(Append(LastOf(f), Json(b))) = b,
         \A c \in Contents(f) : Final(c) < b.first
  PROVE  Grown(f, Put(f, Json(b))) /\ Contents(Put(f, Json(b))) = Contents(f) \union {b}
<1>0. PICK p \in Pieces : p = Json(b)
  BY PieceFacts
<1>1. PICK g : g = Put(f, p)
  OBVIOUS
<1>2. /\ g \in Seq(Lines) /\ g # <<>> /\ Len(g) = Len(f) /\ LastOf(g) = Append(LastOf(f), p)
      /\ \A i \in 1 .. Len(f) - 1 : g[i] = f[i]
  BY <1>1, FormFacts, PutPiece
<1>3. /\ Len(f) \in Nat /\ Len(f) > 0 /\ g[Len(f)] = LastOf(g) /\ f[Len(f)] = LastOf(f)
      /\ Len(g[Len(f)]) = Len(f[Len(f)]) + 1 /\ Len(f[Len(f)]) \in Nat
      /\ ~Parses(f[Len(f)]) /\ Parses(g[Len(f)]) /\ BatchOf(g[Len(f)]) = b
  BY <1>0, <1>2, FormFacts, AppendLine DEF LastOf
<1>4. /\ \A i \in 1 .. Len(f) : Parses(f[i]) => i < Len(f) /\ Parses(g[i]) /\ BatchOf(g[i]) = BatchOf(f[i])
      /\ \A i \in 1 .. Len(f) : i < Len(f) => g[i] = f[i]
  BY <1>2, <1>3
<1>5. FileForm(g)
  <2>1. ASSUME NEW i \in 1 .. Len(g), NEW j \in 1 .. Len(g), i < j, Parses(g[i]), Parses(g[j])
        PROVE  Final(BatchOf(g[i])) < BatchOf(g[j]).first
    <3>1. i < Len(f) /\ g[i] = f[i]
      BY <1>2, <1>3, <2>1
    <3>2. CASE j < Len(f)
      BY <1>2, <1>4, <2>1, <3>1, <3>2 DEF FileForm
    <3>3. CASE j = Len(f)
      <4>1. BatchOf(f[i]) \in Contents(f)
        BY <1>2, <2>1, <3>1, InContents
      <4> QED BY <1>3, <3>1, <3>3, <4>1
    <3> QED BY <1>2, <1>3, <3>2, <3>3
  <2> QED BY <1>2, <1>3, <2>1 DEF FileForm, Formed
<1>6. ASSUME NEW q \in Positions(f) PROVE q \in Positions(g)
  <2>1. q = <<q[1], q[2]>> /\ q[1] \in 1 .. Len(f) /\ q[2] \in 0 .. Len(f[q[1]])
    BY PositionFacts
  <2>2. q[2] \in 0 .. Len(g[q[1]])
    BY <1>2, <1>3, <2>1
  <2> QED BY <1>2, <2>1, <2>2, PositionFacts
<1>7. ASSUME NEW q \in Positions(f) PROVE Known(g, q) = Known(f, q)
  <2>0. q[1] \in 1 .. Len(f) /\ q[2] \in 0 .. Len(f[q[1]])
    BY PositionFacts
  <2>1. ASSUME NEW c PROVE c \in Known(g, q) <=> c \in Known(f, q)
    <3>1. ASSUME NEW i \in 1 .. Len(f), Parses(g[i]), BatchOf(g[i]) = c,
                 i < q[1] \/ (i = q[1] /\ q[2] = Len(g[i]))
          PROVE  i < Len(f)
      BY <1>3, <2>0, <3>1
    <3> QED BY <1>2, <1>4, <3>1, InKnown
  <2> QED BY <2>1
<1>8. Contents(g) = Contents(f) \union {b}
  <2>1. ASSUME NEW c \in Contents(g) PROVE c \in Contents(f) \/ c = b
    <3>1. PICK i \in 1 .. Len(f) : Parses(g[i]) /\ BatchOf(g[i]) = c
      BY <1>2, InContents
    <3>2. CASE i < Len(f)
      BY <1>4, <3>1, <3>2, InContents
    <3>3. CASE i = Len(f)
      BY <1>3, <3>1, <3>3
    <3> QED BY <1>3, <3>2, <3>3
  <2>2. ASSUME NEW c \in Contents(f) PROVE c \in Contents(g)
    <3>1. PICK i \in 1 .. Len(f) : Parses(f[i]) /\ BatchOf(f[i]) = c
      BY InContents
    <3> QED BY <1>2, <1>4, <3>1, InContents
  <2>3. b \in Contents(g)
    BY <1>2, <1>3, FormFacts, InContents
  <2> QED BY <2>1, <2>2, <2>3
<1> QED BY <1>0, <1>1, <1>2, <1>3, <1>5, <1>6, <1>7, <1>8 DEF Grown

-----------------------------------------------------------------------------
(* The file opens, unless its last line ends in part of a marker.          *)

LEMMA EndedOk ==
  ASSUME NEW line \in Lines, Ended(line), NEW atEof
  PROVE  LineOk(line, atEof)
<1>1. CASE line = <<>> \/ Parses(line)
  BY <1>1 DEF LineOk
<1>2. CASE Broken(line) /\ line[Len(line)] = Mark
  <2>1. line # <<>> /\ Len(line) \in Nat /\ Len(line) > 0
    BY <1>2 DEF Broken, Lines
  <2>2. ~Parses(SubSeq(line, 1, Len(line) - 1))
    BY <1>2, <2>1, PrefixLine DEF Formed
  <2>3. SetAside(line)
    BY <1>2, <2>1, <2>2 DEF SetAside
  <2> QED BY <2>3 DEF LineOk, Recoverable
<1> QED BY <1>1, <1>2 DEF Ended

LEMMA FormedOk ==
  ASSUME NEW line \in Lines, Formed(line),
         ~(line # <<>> /\ line[Len(line)].kind = "mark" /\ line[Len(line)].part = "cut")
  PROVE  LineOk(line, TRUE)
<1>1. CASE Ended(line)
  BY <1>1, EndedOk
<1>2. CASE ~Ended(line)
  <2>1. Broken(line) /\ line[Len(line)] # Mark
    BY <1>2 DEF Ended, Formed
  <2>2. /\ Len(line) \in Nat /\ Len(line) > 0 /\ line # <<>>
        /\ \A i \in 1 .. Len(line) : line[i] \in Pieces
    BY <2>1 DEF Broken, Lines
  <2>3. ~IsMark(line[Len(line)])
    <3>1. PICK q \in Pieces : q = line[Len(line)]
      BY <2>2
    <3>2. q.kind = "mark" => q.part \in {"whole", "cut"}
      BY PieceFacts
    <3> QED BY <2>1, <2>2, <3>1, <3>2, WholePieces DEF IsMark
  <2>6. MarksFrom(line, 2) => Len(line) = 1
    <3> SUFFICES ASSUME MarksFrom(line, 2), Len(line) # 1 PROVE FALSE
      OBVIOUS
    <3>1. PICK n \in Nat : n = Len(line) /\ n > 0
      BY <2>2
    <3>2. n \in 2 .. n
      BY <3>1
    <3> QED BY <2>3, <3>1, <3>2 DEF MarksFrom
  <2>4. CASE line[1].kind = "frame"
    <3>1. line[1] = Frame \/ Len(line) = 1
      BY <2>1, <2>2, <2>4, <2>6, PieceFacts DEF Broken, TornJson
    <3> QED BY <2>2, <2>4, <3>1 DEF FrameFragment, LineOk, Recoverable
  <2>5. CASE line[1].kind # "frame"
    <3>1. TornJson(line[1]) /\ Len(line) = 1
      BY <2>1, <2>5, <2>6, PieceFacts DEF Broken
    <3>2. Payload(line) = line
      BY <2>5, PieceFacts DEF Payload
    <3>3. line[1].part \in {"string", "cut"}
      BY <2>2, <3>1, PieceFacts DEF TornJson
    <3>4. EndsEarly(line)
      BY <2>2, <3>1, <3>2, <3>3 DEF EndsEarly, TornJson
    <3> QED BY <3>4 DEF LineOk, Recoverable
  <2> QED BY <2>4, <2>5
<1> QED BY <1>1, <1>2

LEMMA FormDisjoint ==
  ASSUME NEW f, FileForm(f)
  PROVE  Disjoint(Contents(f))
<1>1. ASSUME NEW b \in Contents(f), NEW c \in Contents(f), b # c
      PROVE  Final(b) < c.first \/ Final(c) < b.first
  <2>1. PICK i \in 1 .. Len(f) : Parses(f[i]) /\ BatchOf(f[i]) = b
    BY InContents
  <2>2. PICK j \in 1 .. Len(f) : Parses(f[j]) /\ BatchOf(f[j]) = c
    BY InContents
  <2>3. i < j \/ j < i
    BY <1>1, <2>1, <2>2, FormFacts
  <2> QED BY <2>1, <2>2, <2>3 DEF FileForm
<1> QED BY <1>1 DEF Disjoint

LEMMA FormLoads ==
  ASSUME NEW f, FileForm(f)
  PROVE  MarkerCut(f) \/ Loads(f)
<1> SUFFICES ASSUME ~MarkerCut(f) PROVE Loads(f)
  OBVIOUS
<1>1. ASSUME NEW i \in 1 .. Len(f) PROVE LineOk(f[i], i = Len(f))
  <2>1. CASE i = Len(f)
    BY <2>1, FormFacts, FormedOk DEF MarkerCut, LastOf
  <2>2. CASE i # Len(f)
    <3>1. Ended(f[i]) /\ f[i] \in Lines
      BY <2>2, FormFacts DEF FileForm
    <3> QED BY <3>1, EndedOk
  <2> QED BY <2>1, <2>2
<1> QED BY <1>1, FormDisjoint DEF Loads, ReadableFrom

Less == {ss \in Nat \X Nat : ss[1] < ss[2]}

LEMMA LessWF == IsWellFoundedOn(Less, Nat)
BY NatLessThanWellFounded DEF OpToRel, Less

LEMMA LeastIn ==
  ASSUME NEW I \in SUBSET Nat, I # {}
  PROVE  \E x \in I : \A y \in I : x <= y
<1>1. PICK x \in I : \A y \in I : ~ (<<y, x>> \in Less)
  BY LessWF, WFMin
<1>2. \A y \in I : ~ (y < x)
  BY <1>1 DEF Less
<1> QED BY <1>1, <1>2

\* The number the next batch gets is above all that are in the file.
LEMMA LastSeqFacts ==
  ASSUME NEW f, FileForm(f)
  PROVE  LastSeq(Contents(f)) \in Nat /\ \A c \in Contents(f) : Final(c) <= LastSeq(Contents(f))
<1>1. CASE Contents(f) = {}
  BY <1>1 DEF LastSeq
<1>2. CASE Contents(f) # {}
  <2> DEFINE S == {Final(c) : c \in Contents(f)}
             T == {Len(f) - i : i \in {j \in 1 .. Len(f) : Parses(f[j])}}
  <2>1. T # {} /\ T \subseteq Nat
    BY <1>2, FormFacts, InContents
  <2>2. PICK m \in T : \A n \in T : m <= n
    BY <2>1, LeastIn
  <2>4. PICK i \in 1 .. Len(f) : Parses(f[i]) /\ m = Len(f) - i
    OBVIOUS
  <2>5. ASSUME NEW j \in 1 .. Len(f), Parses(f[j]) PROVE j <= i
    <3>1. Len(f) - j \in T
      BY <2>5
    <3>2. m <= Len(f) - j
      BY <2>2, <3>1
    <3> QED BY <2>4, <3>2, FormFacts
  <2>6. \A c \in Contents(f) : c \in Batch /\ Final(c) \in Nat /\ c.first \in Nat /\ c.first <= Final(c)
    <3>1. \A c \in Batch : Final(c) \in Nat /\ c.first \in Nat /\ c.first <= Final(c)
      BY JournalAssumption DEF Batch, Final
    <3> QED BY <3>1, AllKnown
  <2>7. PICK b \in Contents(f) : b = BatchOf(f[i])
    BY <2>4, InContents
  <2>8. ASSUME NEW c \in Contents(f) PROVE Final(c) <= Final(b)
    <3>1. PICK j \in 1 .. Len(f) : Parses(f[j]) /\ BatchOf(f[j]) = c
      BY InContents
    <3>2. CASE j = i
      BY <2>6, <2>7, <3>1, <3>2
    <3>3. CASE j < i
      <4>1. Final(c) < b.first
        BY <2>4, <2>7, <3>1, <3>3 DEF FileForm
      <4> QED BY <2>6, <4>1
    <3> QED BY <2>5, <3>1, <3>2, <3>3
  <2>9. Final(b) \in S /\ \A y \in S : Final(b) >= y
    BY <2>6, <2>8
  <2>10. Max(S) \in S /\ \A y \in S : Max(S) >= y
    BY <2>9 DEF Max
  <2>11. LastSeq(Contents(f)) = Max(S)
    BY <1>2 DEF LastSeq
  <2> QED BY <2>6, <2>10, <2>11
<1> QED BY <1>1, <1>2

-----------------------------------------------------------------------------
(* What an append has still to write.                                      *)

Todos(b) ==
  {<<Mark, Newline, Frame, Json(b), Newline>>, <<Mark, Newline, Json(b), Newline>>,
   <<Newline, Frame, Json(b), Newline>>, <<Newline, Json(b), Newline>>,
   <<Frame, Json(b), Newline>>, <<Json(b), Newline>>, <<Newline>>, <<>>}

LEMMA TodoTypes ==
  ASSUME NEW b \in Batch, NEW t \in Todos(b)
  PROVE  t \in Seq(Pieces \union {Newline})
<1>1. Frame \in Pieces /\ Mark \in Pieces /\ Json(b) \in Pieces
  BY PieceFacts
<1>2. PICK S, f, m, j, n :
        /\ S = Pieces \union {Newline} /\ f = Frame /\ m = Mark /\ j = Json(b) /\ n = Newline
        /\ f \in S /\ m \in S /\ j \in S /\ n \in S
  BY <1>1
<1>3. /\ <<m, n, f, j, n>> \in Seq(S) /\ <<m, n, j, n>> \in Seq(S) /\ <<n, f, j, n>> \in Seq(S)
      /\ <<n, j, n>> \in Seq(S) /\ <<f, j, n>> \in Seq(S) /\ <<j, n>> \in Seq(S)
      /\ <<n>> \in Seq(S) /\ <<>> \in Seq(S)
  BY <1>2
<1> QED BY <1>2, <1>3 DEF Todos

LEMMA StageTodos ==
  ASSUME NEW b, NEW line, NEW t, Before(line, t, b) \/ After(line, t, b)
  PROVE  /\ t \in Todos(b)
         /\ t = <<>> => After(line, t, b) /\ line = <<>>
BY DEF Before, After, Marking, Ending, Bodies, Todos

LEMMA TodoSteps ==
  ASSUME NEW b, NEW t
  PROVE  /\ Marking(t, b) => Head(t) = Mark /\ Ending(Tail(t), b)
         /\ Ending(t, b) => Head(t) = Newline /\ Tail(t) \in Bodies(b)
         /\ t = <<Frame, Json(b), Newline>> => Head(t) = Frame /\ Tail(t) = <<Json(b), Newline>>
         /\ t = <<Json(b), Newline>> => Head(t) = Json(b) /\ Tail(t) = <<Newline>>
         /\ t = <<Newline>> => Head(t) = Newline /\ Tail(t) = <<>>
<1>1. PICK m, n, f, j : m = Mark /\ n = Newline /\ f = Frame /\ j = Json(b)
  OBVIOUS
<1>2. CASE t = <<m, n, f, j, n>>
  <2>1. Head(t) = m /\ Tail(t) = <<n, f, j, n>> /\ Len(t) = 5
    BY <1>2
  <2> QED BY <1>1, <1>2, <2>1 DEF Marking, Ending, Bodies
<1>3. CASE t = <<m, n, j, n>>
  <2>1. Head(t) = m /\ Tail(t) = <<n, j, n>>
    BY <1>3
  <2> QED BY <1>1, <1>3, <2>1 DEF Marking, Ending, Bodies
<1>4. CASE t = <<n, f, j, n>>
  <2>1. Head(t) = n /\ Tail(t) = <<f, j, n>>
    BY <1>4
  <2> QED BY <1>1, <1>4, <2>1 DEF Marking, Ending, Bodies
<1>5. CASE t = <<n, j, n>>
  <2>1. Head(t) = n /\ Tail(t) = <<j, n>>
    BY <1>5
  <2> QED BY <1>1, <1>5, <2>1 DEF Marking, Ending, Bodies
<1>6. CASE t = <<f, j, n>>
  <2>1. Head(t) = f /\ Tail(t) = <<j, n>>
    BY <1>6
  <2> QED BY <1>1, <1>6, <2>1 DEF Marking, Ending, Bodies
<1>7. CASE t = <<j, n>>
  <2>1. Head(t) = j /\ Tail(t) = <<n>>
    BY <1>7
  <2> QED BY <1>1, <1>7, <2>1 DEF Marking, Ending, Bodies
<1>8. CASE t = <<n>>
  <2>1. Head(t) = n /\ Tail(t) = <<>>
    BY <1>8
  <2> QED BY <1>1, <1>8, <2>1 DEF Marking, Ending, Bodies
<1> QED BY <1>1, <1>2, <1>3, <1>4, <1>5, <1>6, <1>7, <1>8 DEF Marking, Ending, Bodies

\* A write before the record's own completes changes no batch; that one adds it.
Advances(f, g, t, b) ==
  /\ Grown(f, g)
  /\ \/ Before(LastOf(g), t, b) /\ Contents(g) = Contents(f)
     \/ After(LastOf(g), t, b) /\ Contents(g) = Contents(f) \union {b}

LEMMA WriteBefore ==
  ASSUME NEW f, FileForm(f), NEW b \in Batch, NEW t, Before(LastOf(f), t, b),
         \A c \in Contents(f) : Final(c) < b.first
  PROVE  Advances(f, Put(f, Head(t)), Tail(t), b)
<1>1. PICK line \in Lines : line = LastOf(f)
  BY FormFacts
<1>2. CASE Marking(t, b) /\ Broken(line)
  <2>1. PICK p \in Pieces : p = Mark /\ IsMark(p)
    BY PieceFacts DEF IsMark
  <2>2. PICK l : l = Append(line, p) /\ Broken(l) /\ ~Parses(l) /\ Ended(l) /\ l # <<>>
    BY <1>2, <2>1, MarkBroken DEF Broken
  <2>3. Grown(f, Put(f, p)) /\ Contents(Put(f, p)) = Contents(f) /\ LastOf(Put(f, p)) = l
    BY <1>1, <1>2, <2>2, BrokenFacts, FormFacts, GrowBroken, PutPiece DEF Formed
  <2>4. Before(l, Tail(t), b) /\ Head(t) = p
    BY <1>2, <2>1, <2>2, TodoSteps DEF Before
  <2> QED BY <2>3, <2>4 DEF Advances
<1>3. CASE Ending(t, b) /\ Ended(line) /\ line # <<>>
  <2>1. /\ Grown(f, Put(f, Newline)) /\ Contents(Put(f, Newline)) = Contents(f)
        /\ LastOf(Put(f, Newline)) = <<>>
    BY <1>1, <1>3, FormFacts, GrowLine, PutNewline
  <2>2. Before(<<>>, Tail(t), b) /\ Head(t) = Newline
    BY <1>3, TodoSteps DEF Before
  <2> QED BY <2>1, <2>2 DEF Advances
<1>4. CASE t = <<Frame, Json(b), Newline>> /\ line = <<>>
  <2>1. PICK p \in Pieces : p = Frame /\ p.kind = "frame"
    BY PieceFacts
  <2>2. PICK l : l = Append(line, p) /\ l = <<Frame>> /\ Broken(l) /\ ~Parses(l)
    <3>1. Append(line, p) = <<Frame>>
      BY <1>4, <2>1
    <3> QED BY <3>1, OnlyFrame
  <2>3. Grown(f, Put(f, p)) /\ Contents(Put(f, p)) = Contents(f) /\ LastOf(Put(f, p)) = l
    <3>1. ~Parses(line)
      BY <1>4, EmptyLine
    <3> QED BY <1>1, <2>2, <3>1, FormFacts, GrowBroken, PutPiece DEF Formed
  <2>4. Before(l, Tail(t), b) /\ Head(t) = p
    BY <1>4, <2>1, <2>2, TodoSteps DEF Before
  <2> QED BY <2>3, <2>4 DEF Advances
<1>5. CASE t = <<Json(b), Newline>> /\ line \in {<<>>, <<Frame>>}
  <2>1. PICK p \in Pieces : p = Json(b) /\ p.kind = "json" /\ p.part = "whole" /\ p.batch = b
    BY PieceFacts
  <2>2. PICK l : l = Append(line, p) /\ Parses(l) /\ BatchOf(l) = b
    <3>1. CASE line = <<>>
      BY <2>1, <3>1, FirstPiece
    <3>2. CASE line = <<Frame>>
      BY <2>1, <3>2, AfterFrame
    <3> QED BY <1>5, <3>1, <3>2
  <2>3. ~Parses(line)
    BY <1>5, EmptyLine, OnlyFrame
  <2>4. /\ Grown(f, Put(f, p)) /\ Contents(Put(f, p)) = Contents(f) \union {b}
        /\ LastOf(Put(f, p)) = l
    BY <1>1, <2>1, <2>2, <2>3, FormFacts, GrowRecord, PutPiece
  <2>5. After(l, Tail(t), b) /\ Head(t) = p
    BY <1>5, <2>1, <2>2, TodoSteps DEF After
  <2> QED BY <2>4, <2>5 DEF Advances
<1> QED BY <1>1, <1>2, <1>3, <1>4, <1>5 DEF Before, Bodies

LEMMA WriteAfter ==
  ASSUME NEW f, FileForm(f), NEW b, NEW t, t # <<>>, After(LastOf(f), t, b)
  PROVE  /\ Grown(f, Put(f, Head(t))) /\ Contents(Put(f, Head(t))) = Contents(f)
         /\ After(LastOf(Put(f, Head(t))), Tail(t), b)
<1>1. t = <<Newline>> /\ Parses(LastOf(f))
  BY DEF After
<1>2. /\ Grown(f, Put(f, Newline)) /\ Contents(Put(f, Newline)) = Contents(f)
      /\ LastOf(Put(f, Newline)) = <<>>
  BY <1>1, FormFacts, GrowLine, PutNewline DEF Ended
<1>3. Head(t) = Newline /\ After(<<>>, Tail(t), b)
  BY <1>1, TodoSteps DEF After
<1> QED BY <1>2, <1>3

\* A write that is cut changes no batch.
LEMMA WriteCut ==
  ASSUME NEW f, FileForm(f), NEW b \in Batch, NEW t, t # <<>>,
         Before(LastOf(f), t, b) \/ After(LastOf(f), t, b), NEW q \in Torn(Head(t))
  PROVE  Grown(f, Put(f, q)) /\ Contents(Put(f, q)) = Contents(f)
<1>1. PICK line \in Lines : line = LastOf(f)
  BY FormFacts
<1>2. PICK p : p = Head(t)
  OBVIOUS
<1>3. ASSUME p \in Pieces, p.kind = "mark" => Broken(line),
             p.kind \in {"frame", "json"} => line = <<>> \/ (line = <<Frame>> /\ p.kind = "json")
      PROVE  Grown(f, Put(f, q)) /\ Contents(Put(f, q)) = Contents(f)
  <2>1. PICK q2 : q2 = q /\ q2 \in Pieces /\ q2.kind = p.kind /\ q2.part # "whole"
    BY <1>2, <1>3, TornFacts
  <2>2. PICK l : l = Append(line, q2)
    OBVIOUS
  <2>3. ~Parses(line) /\ Broken(l) /\ ~Parses(l)
    <3>1. CASE p.kind = "mark"
      BY <1>3, <2>1, <2>2, <3>1, BrokenFacts, MarkBroken DEF IsMark
    <3>2. CASE p.kind \in {"frame", "json"} /\ line = <<>>
      BY <2>1, <2>2, <3>2, EmptyLine, FirstPiece DEF TornJson
    <3>3. CASE p.kind = "json" /\ line = <<Frame>>
      BY <2>1, <2>2, <3>3, OnlyFrame, AfterFrame
    <3> QED BY <1>3, <3>1, <3>2, <3>3, PieceFacts
  <2> QED BY <1>1, <2>1, <2>2, <2>3, GrowBroken DEF Formed
<1>4. CASE Marking(t, b) /\ Broken(line)
  BY <1>2, <1>3, <1>4, TodoSteps, PieceFacts
<1>5. CASE Ending(t, b) \/ t = <<Newline>>
  BY <1>5, TodoSteps, NothingTorn
<1>6. CASE t = <<Frame, Json(b), Newline>> /\ line = <<>>
  BY <1>2, <1>3, <1>6, TodoSteps, PieceFacts
<1>7. CASE t = <<Json(b), Newline>> /\ line \in {<<>>, <<Frame>>}
  BY <1>2, <1>3, <1>7, TodoSteps, PieceFacts
<1> QED BY <1>1, <1>4, <1>5, <1>6, <1>7 DEF Before, After, Bodies

LEMMA GrownSelf ==
  ASSUME NEW f, FileForm(f)
  PROVE  Grown(f, f)
BY FormFacts DEF Grown

-----------------------------------------------------------------------------
(* The handles.                                                            *)

LEMMA HandlesGrow ==
  ASSUME HandlesOK, NEW f, NEW g, f = file, g = file', Grown(f, g), UNCHANGED handle
  PROVE  HandlesOK'
BY DEF HandlesOK, Grown

LEMMA SyncedGrow ==
  ASSUME SyncedOK, NEW f, NEW g, f = file, g = file', FileForm(f), Grown(f, g),
         UNCHANGED <<synced, acked>>
  PROVE  SyncedOK'
<1>1. \A p \in Positions(f) : p \in Positions(g) /\ p[1] \in 1 .. Len(f)
  BY PositionFacts DEF Grown
<1>2. Len(f) \in Nat /\ Len(g) \in Nat /\ Len(f) <= Len(g)
  BY FormFacts DEF Grown
<1>3. ASSUME NEW b \in acked
      PROVE  \E i \in 1 .. Len(g) : i < synced[1] /\ Parses(g[i]) /\ BatchOf(g[i]) = b
  <2>1. PICK i \in 1 .. Len(f) : i < synced[1] /\ Parses(f[i]) /\ BatchOf(f[i]) = b
    BY DEF SyncedOK
  <2>2. i \in 1 .. Len(f) - 1 /\ i \in 1 .. Len(g)
    BY <1>1, <1>2, <2>1 DEF SyncedOK
  <2> QED BY <2>1, <2>2 DEF Grown
<1> QED BY <1>1, <1>3 DEF SyncedOK

\* A handle that has read the whole file.
UpToDate(hd, f) ==
  hd \in HandleType /\ hd.open /\ hd.pos = Position(f) /\ hd.batches = Contents(f)

LEMMA HandleUpdated ==
  ASSUME HandlesOK, NEW f, f = file, FileForm(f), NEW h \in Handles, NEW hd, UpToDate(hd, f),
         handle' = [handle EXCEPT ![h] = hd], UNCHANGED file
  PROVE  HandlesOK' /\ handle'[h] = hd
<1>1. Known(f, hd.pos) = hd.batches /\ hd.pos \in Positions(f)
  BY AllKnown, PositionNat DEF UpToDate
<1> QED BY <1>1 DEF HandlesOK, UpToDate

LEMMA LoadedUpToDate ==
  ASSUME NEW f, FileForm(f)
  PROVE  UpToDate(Loaded(f), f)
BY AllKnown, PositionNat DEF UpToDate, Loaded, HandleType

LEMMA FreshUpToDate ==
  ASSUME HandlesOK, NEW f, f = file, FileForm(f), NEW h \in Handles, handle[h].open,
         Fresh(handle[h])
  PROVE  UpToDate(handle[h], f)
BY AllKnown DEF UpToDate, HandlesOK, Fresh

LEMMA ReloadedUpToDate ==
  ASSUME HandlesOK, NEW f, f = file, FileForm(f), NEW h \in Handles, handle[h].open
  PROVE  UpToDate(Reloaded(handle[h]), f)
<1>1. PICK hd : hd = handle[h] /\ hd \in HandleType /\ hd.open /\ hd.pos \in Positions(f)
                /\ hd.batches = Known(f, hd.pos)
  BY DEF HandlesOK
<1>2. CASE Folds(hd)
  <2>1. PICK ps, bs : ps = Position(f) /\ bs = hd.batches \union FoundFrom(f, hd.pos[1])
    OBVIOUS
  <2>2. bs = Contents(f) /\ bs \subseteq Batch /\ ps \in Nat \X Nat
    BY <1>1, <1>2, <2>1, FoldKnown, AllKnown, PositionNat DEF Folds
  <2>3. Reloaded(hd) = [hd EXCEPT !.pos = ps, !.batches = bs]
    BY <1>2, <2>1 DEF Reloaded
  <2>4. Reloaded(hd) = [open |-> hd.open, pos |-> ps, batches |-> bs]
    BY <1>1, <2>3 DEF HandleType
  <2> QED BY <1>1, <2>1, <2>2, <2>4 DEF UpToDate, HandleType
<1>3. CASE ~Folds(hd)
  BY <1>1, <1>3, LoadedUpToDate DEF Reloaded
<1> QED BY <1>1, <1>2, <1>3

LEMMA WriterFacts ==
  ASSUME WriterOK
  PROVE  /\ ~writer.busy => writer = Idle
         /\ writer.busy => writer # Idle
<1>1. CASE writer = Idle
  BY <1>1 DEF Idle
<1>2. CASE writer \in WriterType
  <2>1. writer.busy = TRUE
    BY <1>2 DEF WriterType
  <2> QED BY <2>1 DEF Idle
<1> QED BY <1>1, <1>2 DEF WriterOK

LEMMA OpenStep ==
  ASSUME Inv, NEW h \in Handles, Open(h)
  PROVE  Inv'
<1>1. PICK f : f = file /\ FileForm(f)
  BY DEF Inv
<1>2. PICK hd : hd = Loaded(f) /\ UpToDate(hd, f)
  BY <1>1, LoadedUpToDate
<1>3. HandlesOK'
  BY <1>1, <1>2, HandleUpdated DEF Inv, Open
<1>4. writer = Idle
  BY WriterFacts DEF Inv, Open
<1> QED BY <1>3, <1>4 DEF Inv, Open, SyncedOK, WriterOK, Counters

LEMMA RefreshStep ==
  ASSUME Inv, NEW h \in Handles, Refresh(h)
  PROVE  Inv'
<1>1. PICK f : f = file /\ FileForm(f)
  BY DEF Inv
<1>2. PICK hd : hd = Reloaded(handle[h]) /\ UpToDate(hd, f)
  BY <1>1, ReloadedUpToDate DEF Inv, Refresh
<1>3. HandlesOK'
  BY <1>1, <1>2, HandleUpdated DEF Inv, Refresh
<1>4. writer = Idle
  BY WriterFacts DEF Inv, Refresh
<1> QED BY <1>3, <1>4 DEF Inv, Refresh, SyncedOK, WriterOK, Counters

-----------------------------------------------------------------------------
(* An append.                                                              *)

LEMMA JoinedIs ==
  ASSUME NEW S, NEW s \in Seq(S), NEW t \in Seq(S), NEW u \in Seq(S),
         Len(u) = Len(s) + Len(t),
         \A i \in 1 .. Len(s) : u[i] = s[i],
         \A i \in 1 .. Len(t) : u[Len(s) + i] = t[i]
  PROVE  s \o t = u
<1>1. /\ s \o t \in Seq(S) /\ Len(s \o t) = Len(u)
      /\ \A i \in 1 .. Len(u) : (s \o t)[i] = u[i]
  OBVIOUS
<1> QED BY <1>1, SeqEqual

LEMMA Concats ==
  ASSUME NEW b, NEW t \in Bodies(b)
  PROVE  /\ <<>> \o t = t
         /\ Ending(<<Newline>> \o t, b)
         /\ Marking(<<Mark, Newline>> \o t, b)
<1>10. PICK m, n, f, j : m = Mark /\ n = Newline /\ f = Frame /\ j = Json(b)
  OBVIOUS
<1>0. PICK S : m \in S /\ n \in S /\ f \in S /\ j \in S
  <2>1. m \in {m, n, f, j} /\ n \in {m, n, f, j} /\ f \in {m, n, f, j} /\ j \in {m, n, f, j}
    OBVIOUS
  <2> QED BY <2>1
<1>1. PICK s1, s2 : s1 = <<n>> /\ s2 = <<m, n>>
  OBVIOUS
<1>2. PICK t2, t3 : t2 = <<j, n>> /\ t3 = <<f, j, n>>
  OBVIOUS
<1>3. /\ s1 \in Seq(S) /\ Len(s1) = 1 /\ s1[1] = n
      /\ s2 \in Seq(S) /\ Len(s2) = 2 /\ s2[1] = m /\ s2[2] = n
      /\ t2 \in Seq(S) /\ Len(t2) = 2 /\ t2[1] = j /\ t2[2] = n
      /\ t3 \in Seq(S) /\ Len(t3) = 3 /\ t3[1] = f /\ t3[2] = j /\ t3[3] = n
  BY <1>0, <1>1, <1>2
<1>4. s1 \o t3 = <<n, f, j, n>>
  <2>1. PICK u : u = <<n, f, j, n>>
    OBVIOUS
  <2>2. u \in Seq(S) /\ Len(u) = 4
    BY <1>0, <2>1
  <2>3. u[1] = n /\ u[2] = f /\ u[3] = j /\ u[4] = n
    BY <2>1
  <2>4. \A i \in 1 .. Len(s1) : u[i] = s1[i]
    BY <1>3, <2>3
  <2>5. \A i \in 1 .. Len(t3) : u[Len(s1) + i] = t3[i]
    BY <1>3, <2>3
  <2>6. Len(u) = Len(s1) + Len(t3)
    BY <1>3, <2>2
  <2>7. s1 \o t3 = u
    BY <1>3, <2>2, <2>4, <2>5, <2>6, JoinedIs
  <2> QED BY <2>1, <2>7
<1>5. s2 \o t3 = <<m, n, f, j, n>>
  <2>1. PICK u : u = <<m, n, f, j, n>>
    OBVIOUS
  <2>2. u \in Seq(S) /\ Len(u) = 5
    BY <1>0, <2>1
  <2>3. u[1] = m /\ u[2] = n /\ u[3] = f /\ u[4] = j /\ u[5] = n
    BY <2>1
  <2>4. \A i \in 1 .. Len(s2) : u[i] = s2[i]
    BY <1>3, <2>3
  <2>5. \A i \in 1 .. Len(t3) : u[Len(s2) + i] = t3[i]
    BY <1>3, <2>3
  <2>6. Len(u) = Len(s2) + Len(t3)
    BY <1>3, <2>2
  <2>7. s2 \o t3 = u
    BY <1>3, <2>2, <2>4, <2>5, <2>6, JoinedIs
  <2> QED BY <2>1, <2>7
<1>6. s1 \o t2 = <<n, j, n>>
  <2>1. PICK u : u = <<n, j, n>>
    OBVIOUS
  <2>2. u \in Seq(S) /\ Len(u) = 3
    BY <1>0, <2>1
  <2>3. u[1] = n /\ u[2] = j /\ u[3] = n
    BY <2>1
  <2>4. \A i \in 1 .. Len(s1) : u[i] = s1[i]
    BY <1>3, <2>3
  <2>5. \A i \in 1 .. Len(t2) : u[Len(s1) + i] = t2[i]
    BY <1>3, <2>3
  <2>6. Len(u) = Len(s1) + Len(t2)
    BY <1>3, <2>2
  <2>7. s1 \o t2 = u
    BY <1>3, <2>2, <2>4, <2>5, <2>6, JoinedIs
  <2> QED BY <2>1, <2>7
<1>7. s2 \o t2 = <<m, n, j, n>>
  <2>1. PICK u : u = <<m, n, j, n>>
    OBVIOUS
  <2>2. u \in Seq(S) /\ Len(u) = 4
    BY <1>0, <2>1
  <2>3. u[1] = m /\ u[2] = n /\ u[3] = j /\ u[4] = n
    BY <2>1
  <2>4. \A i \in 1 .. Len(s2) : u[i] = s2[i]
    BY <1>3, <2>3
  <2>5. \A i \in 1 .. Len(t2) : u[Len(s2) + i] = t2[i]
    BY <1>3, <2>3
  <2>6. Len(u) = Len(s2) + Len(t2)
    BY <1>3, <2>2
  <2>7. s2 \o t2 = u
    BY <1>3, <2>2, <2>4, <2>5, <2>6, JoinedIs
  <2> QED BY <2>1, <2>7
<1>8. CASE t = t3
  BY <1>1, <1>2, <1>3, <1>4, <1>5, <1>8, <1>10, ConcatEmptySeq DEF Ending, Marking
<1>9. CASE t = t2
  BY <1>1, <1>2, <1>3, <1>6, <1>7, <1>9, <1>10, ConcatEmptySeq DEF Ending, Marking
<1> QED BY <1>2, <1>8, <1>9, <1>10 DEF Bodies

\* Whatever the file ends in, what the append writes first ends the line.
LEMMA BoundaryStage ==
  ASSUME NEW f, FileForm(f), NEW b, NEW t \in Bodies(b)
  PROVE  Before(LastOf(f), Boundary(f) \o t, b)
<1>1. PICK line \in Lines : line = LastOf(f) /\ line = f[Len(f)] /\ Formed(line)
  BY FormFacts
<1>2. CASE line = <<>>
  <2>1. Boundary(f) = <<>>
    BY <1>1, <1>2 DEF Boundary
  <2> QED BY <1>1, <1>2, <2>1, Concats DEF Before
<1>3. CASE Parses(line)
  <2>1. Boundary(f) = <<Newline>> /\ line # <<>>
    BY <1>1, <1>3, EmptyLine DEF Boundary
  <2> QED BY <1>1, <1>3, <2>1, Concats DEF Before, Ended
<1>4. CASE Broken(line)
  <2>1. Boundary(f) = <<Mark, Newline>>
    BY <1>1, <1>4, BrokenFacts DEF Boundary
  <2> QED BY <1>1, <1>4, <2>1, Concats DEF Before
<1> QED BY <1>1, <1>2, <1>3, <1>4 DEF Formed

LEMMA BeginStep ==
  ASSUME Inv, NEW h \in Handles, NEW framed \in BOOLEAN, NEW n \in 1 .. MaxBatch,
         Begin(h, framed, n)
  PROVE  Inv'
<1>1. PICK f : f = file /\ FileForm(f)
  BY DEF Inv
<1>2. PICK hd : hd = IF Fresh(handle[h]) THEN handle[h] ELSE Reloaded(handle[h])
  OBVIOUS
<1>3. UpToDate(hd, f)
  BY <1>1, <1>2, FreshUpToDate, ReloadedUpToDate DEF Inv, Begin
<1>4. PICK x \in Nat : x = LastSeq(hd.batches) /\ \A c \in Contents(f) : Final(c) <= x
  BY <1>1, <1>3, LastSeqFacts DEF UpToDate
<1>5. PICK b : b = [id |-> appends + 1, first |-> LastSeq(hd.batches) + 1, size |-> n]
  OBVIOUS
<1>6. b \in Batch /\ b.first = x + 1
  <2>1. appends + 1 \in 1 .. MaxAppends
    BY JournalAssumption DEF Inv, Counters, Begin
  <2>2. x + 1 \in Nat \ {0}
    OBVIOUS
  <2> QED BY <1>4, <1>5, <2>1, <2>2 DEF Batch
<1>7. \A c \in Contents(f) : Final(c) < b.first
  <2>1. \A c \in Batch : Final(c) \in Nat
    BY JournalAssumption DEF Batch, Final
  <2> QED BY <1>1, <1>4, <1>6, <2>1, AllKnown
<1>8. PICK t : t = IF framed THEN <<Frame, Json(b), Newline>> ELSE <<Json(b), Newline>>
  OBVIOUS
<1>9. t \in Bodies(b)
  BY <1>8 DEF Bodies
<1>10. PICK todo : todo = Boundary(f) \o t /\ Before(LastOf(f), todo, b)
  BY <1>1, <1>9, BoundaryStage
<1>11. /\ writer' = [busy |-> TRUE, by |-> h, batch |-> b, flushed |-> FALSE, todo |-> todo]
       /\ handle' = [handle EXCEPT ![h] = hd] /\ appends' = appends + 1 /\ appends < MaxAppends
       /\ UNCHANGED <<file, synced, acked, faults>>
  BY <1>1, <1>2, <1>5, <1>8, <1>10 DEF Begin
<1>12. HandlesOK' /\ handle'[h] = hd
  BY <1>1, <1>3, <1>11, HandleUpdated DEF Inv
<1>13. todo \in Seq(Pieces \union {Newline})
  BY <1>6, <1>10, StageTodos, TodoTypes
<1>14. writer' \in WriterType
  BY <1>6, <1>11, <1>13 DEF WriterType
<1>15. WriterOK'
  <2>1. /\ writer'.by = h /\ writer'.batch = b /\ writer'.todo = todo /\ writer'.flushed = FALSE
    BY <1>11
  <2>2. Before(LastOf(f), writer'.todo, writer'.batch)
    BY <1>10, <2>1
  <2>3. Contents(f) = handle'[writer'.by].batches /\ handle'[writer'.by].open
    BY <1>3, <1>12, <2>1 DEF UpToDate
  <2>4. \A c \in Contents(f) : Final(c) < writer'.batch.first
    BY <1>7, <2>1
  <2> QED BY <1>1, <1>11, <1>14, <2>1, <2>2, <2>3, <2>4 DEF WriterOK
<1>16. Counters' /\ SyncedOK'
  BY <1>11, JournalAssumption DEF Inv, Counters, SyncedOK
<1> QED BY <1>11, <1>12, <1>15, <1>16 DEF Inv

LEMMA BusyFacts ==
  ASSUME Inv, writer.busy
  PROVE  /\ writer \in WriterType /\ handle[writer.by].open
         /\ \/ /\ Before(LastOf(file), writer.todo, writer.batch)
               /\ \A c \in Contents(file) : Final(c) < writer.batch.first
               /\ Contents(file) = handle[writer.by].batches
            \/ /\ After(LastOf(file), writer.todo, writer.batch)
               /\ Contents(file) = handle[writer.by].batches \union {writer.batch}
         /\ writer.flushed => writer.todo = <<>> /\ synced = Position(file)
         /\ writer.by \in Handles /\ writer.batch \in Batch /\ writer.flushed \in BOOLEAN
         /\ writer.todo \in Seq(Pieces \union {Newline}) /\ writer.todo \in Todos(writer.batch)
<1>1. writer # Idle
  BY WriterFacts DEF Inv
<1>2. /\ writer \in WriterType /\ handle[writer.by].open
      /\ \/ /\ Before(LastOf(file), writer.todo, writer.batch)
            /\ \A c \in Contents(file) : Final(c) < writer.batch.first
            /\ Contents(file) = handle[writer.by].batches
         \/ /\ After(LastOf(file), writer.todo, writer.batch)
            /\ Contents(file) = handle[writer.by].batches \union {writer.batch}
      /\ writer.flushed => writer.todo = <<>> /\ synced = Position(file)
  BY <1>1 DEF Inv, WriterOK
<1>3. /\ writer.by \in Handles /\ writer.batch \in Batch /\ writer.flushed \in BOOLEAN
      /\ writer.todo \in Seq(Pieces \union {Newline})
  BY <1>2 DEF WriterType
<1>4. writer.todo \in Todos(writer.batch)
  <2>1. PICK l, t, b : l = LastOf(file) /\ t = writer.todo /\ b = writer.batch
    OBVIOUS
  <2>2. Before(l, t, b) \/ After(l, t, b)
    BY <1>2, <2>1
  <2> QED BY <2>1, <2>2, StageTodos
<1> QED BY <1>2, <1>3, <1>4

\* A write is a step of the append, and the one that puts down the record adds
\* its batch to the file.
LEMMA WriteFile ==
  ASSUME Inv, Write
  PROVE  /\ FileForm(file) /\ Grown(file, file')
         /\ \/ Contents(file') = Contents(file)
            \/ /\ Contents(file') = Contents(file) \union {writer.batch}
               /\ writer.batch \in Batch
               /\ \A c \in Contents(file) : Final(c) < writer.batch.first
         /\ WriterOK'
<1>1. PICK f, g, t, b, by : /\ f = file /\ g = file' /\ t = writer.todo /\ b = writer.batch
                            /\ by = writer.by
  OBVIOUS
<1>2. /\ FileForm(f) /\ b \in Batch /\ by \in Handles /\ t # <<>> /\ g = Put(f, Head(t))
      /\ handle[by].open /\ handle' = handle
      /\ \/ /\ Before(LastOf(f), t, b) /\ Contents(f) = handle[by].batches
            /\ \A c \in Contents(f) : Final(c) < b.first
         \/ After(LastOf(f), t, b) /\ Contents(f) = handle[by].batches \union {b}
  BY <1>1, BusyFacts DEF Inv, Write
<1>3. writer' = [busy |-> TRUE, by |-> by, batch |-> b, flushed |-> FALSE, todo |-> Tail(t)]
  <2>1. writer \in WriterType /\ ~writer.flushed /\ writer.flushed \in BOOLEAN
    BY <1>1, <1>2, BusyFacts DEF Write
  <2>2. writer' = [writer EXCEPT !.todo = Tail(t)]
    BY <1>1 DEF Write
  <2> QED BY <1>1, <2>1, <2>2 DEF WriterType
<1>4. \/ Advances(f, g, Tail(t), b)
      \/ Grown(f, g) /\ Contents(g) = Contents(f) /\ After(LastOf(g), Tail(t), b)
  BY <1>2, WriteBefore, WriteAfter
<1>5. Grown(f, g)
  BY <1>4 DEF Advances
<1>6. \/ /\ Before(LastOf(g), Tail(t), b) /\ Contents(g) = handle[by].batches
         /\ Contents(g) = Contents(f) /\ \A c \in Contents(f) : Final(c) < b.first
      \/ /\ After(LastOf(g), Tail(t), b) /\ Contents(g) = handle[by].batches \union {b}
         /\ \/ Contents(g) = Contents(f)
            \/ Contents(g) = Contents(f) \union {b} /\ \A c \in Contents(f) : Final(c) < b.first
  <2>1. CASE Before(LastOf(f), t, b) /\ \A c \in Contents(f) : Final(c) < b.first
    <3>1. Advances(f, g, Tail(t), b)
      BY <1>2, <2>1, WriteBefore
    <3>2. Contents(f) = handle[by].batches \/ Contents(f) = handle[by].batches \union {b}
      BY <1>2
    <3>3. ~After(LastOf(f), t, b)
      BY <1>2, <2>1 DEF Before, After, Marking, Ending, Bodies, Ended
    <3> QED BY <1>2, <2>1, <3>1, <3>3 DEF Advances
  <2>2. CASE After(LastOf(f), t, b) /\ Contents(f) = handle[by].batches \union {b}
    BY <1>2, <2>2, WriteAfter
  <2> QED BY <1>2, <2>1, <2>2
<1>7. WriterOK'
  <2>1. Tail(t) \in Seq(Pieces \union {Newline})
    BY <1>1, <1>2, BusyFacts DEF Write
  <2>2. writer' \in WriterType
    BY <1>2, <1>3, <2>1 DEF WriterType
  <2>3. /\ writer'.by = by /\ writer'.batch = b /\ writer'.todo = Tail(t) /\ writer'.flushed = FALSE
    BY <1>3
  <2>4. PICK l, td : l = LastOf(g) /\ td = Tail(t)
    OBVIOUS
  <2> QED BY <1>1, <1>2, <1>6, <2>2, <2>3, <2>4 DEF WriterOK
<1> QED BY <1>1, <1>2, <1>5, <1>6, <1>7

LEMMA WriteStep ==
  ASSUME Inv, Write
  PROVE  Inv'
<1>1. PICK f, g : f = file /\ g = file' /\ FileForm(f) /\ Grown(f, g)
  BY WriteFile
<1>2. HandlesOK' /\ SyncedOK'
  BY <1>1, HandlesGrow, SyncedGrow DEF Inv, Write
<1>3. FileForm(g)
  BY <1>1 DEF Grown
<1> QED BY <1>1, <1>2, <1>3, WriteFile DEF Inv, Write, Counters

LEMMA SyncStep ==
  ASSUME Inv, Sync
  PROVE  Inv'
<1>1. PICK f : f = file /\ FileForm(f)
  BY DEF Inv
<1>2. PICK ps : ps = Position(f) /\ ps \in Positions(f) /\ ps[1] = Len(f)
  BY <1>1, PositionNat
<1>3. synced' = ps /\ UNCHANGED <<file, handle, acked, appends, faults>>
  BY <1>1, <1>2 DEF Sync
<1>4. SyncedOK'
  <2>1. synced[1] \in 1 .. Len(f) /\ Len(f) \in Nat
    BY <1>1, FormFacts, PositionFacts DEF Inv, SyncedOK
  <2> QED BY <1>1, <1>2, <1>3, <2>1 DEF Inv, SyncedOK
<1>5. WriterOK'
  <2>1. /\ writer \in WriterType /\ writer.todo = <<>>
        /\ writer' = [writer EXCEPT !.flushed = TRUE]
    BY BusyFacts DEF Sync
  <2>2. /\ writer' \in WriterType /\ writer'.by = writer.by /\ writer'.batch = writer.batch
        /\ writer'.todo = writer.todo
    BY <2>1 DEF WriterType
  <2>3. PICK l, t, b : l = LastOf(f) /\ t = writer.todo /\ b = writer.batch
    OBVIOUS
  <2>4. /\ handle[writer.by].open
        /\ \/ /\ Before(l, t, b) /\ Contents(f) = handle[writer.by].batches
              /\ \A c \in Contents(f) : Final(c) < b.first
           \/ After(l, t, b) /\ Contents(f) = handle[writer.by].batches \union {b}
    BY <1>1, <2>3, BusyFacts DEF Sync
  <2> QED BY <1>1, <1>2, <1>3, <2>1, <2>2, <2>3, <2>4 DEF WriterOK
<1> QED BY <1>1, <1>3, <1>4, <1>5 DEF Inv, HandlesOK, Counters

\* What is acknowledged is in the file, in front of the position of the sync.
LEMMA CommitFacts ==
  ASSUME Inv, Commit
  PROVE  /\ writer.batch \in Contents(file) /\ writer.batch \in Batch
         /\ Contents(file) = handle[writer.by].batches \union {writer.batch}
         /\ synced = Position(file) /\ LastOf(file) = <<>>
<1>1. PICK l, t, b : l = LastOf(file) /\ t = writer.todo /\ b = writer.batch
  OBVIOUS
<1>2. t = <<>> /\ synced = Position(file) /\ b \in Batch
  BY <1>1, BusyFacts DEF Commit
<1>3. ~Before(l, t, b)
  BY <1>2 DEF Before, Marking, Ending, Bodies
<1>4. After(l, t, b) /\ Contents(file) = handle[writer.by].batches \union {b}
  BY <1>1, <1>3, BusyFacts DEF Commit
<1> QED BY <1>1, <1>2, <1>4 DEF After

LEMMA CommitStep ==
  ASSUME Inv, Commit
  PROVE  Inv'
<1>1. PICK f : f = file /\ FileForm(f)
  BY DEF Inv
<1>2. PICK b, by : b = writer.batch /\ by = writer.by
  OBVIOUS
<1>3. PICK ps, bs : ps = Position(f) /\ bs = handle[by].batches \union {b}
  OBVIOUS
<1>4. /\ b \in Contents(f) /\ b \in Batch /\ bs = Contents(f) /\ synced = ps /\ LastOf(f) = <<>>
  BY <1>1, <1>2, <1>3, CommitFacts
<1>5. by \in Handles /\ handle[by].open /\ handle[by] \in HandleType
  BY <1>2, BusyFacts DEF Commit, Inv, HandlesOK
<1>13. PICK o : o = handle[by].open /\ o \in BOOLEAN /\ o
  BY <1>5 DEF HandleType
<1>6. PICK hd : hd = [open |-> o, pos |-> ps, batches |-> bs]
  OBVIOUS
<1>7. handle' = [handle EXCEPT ![by] = hd]
  <2>1. handle' = [handle EXCEPT ![by].pos = ps, ![by].batches = @ \union {b}]
    BY <1>1, <1>2, <1>3 DEF Commit
  <2>3. PICK hs : hs = handle /\ hs \in [Handles -> HandleType]
    BY DEF Inv, HandlesOK
  <2>4. PICK p0, b0 : hs[by] = [open |-> o, pos |-> p0, batches |-> b0] /\ bs = b0 \union {b}
    <3>1. hs[by] = [open |-> o, pos |-> hs[by].pos, batches |-> hs[by].batches]
      BY <1>5, <1>13, <2>3 DEF HandleType
    <3> QED BY <1>3, <2>3, <3>1
  <2>5. handle' = [hs EXCEPT ![by].pos = ps, ![by].batches = @ \union {b}]
    BY <2>1, <2>3
  <2>6. handle'[by] = hd
    <3>1. PICK h1 : h1 = [hs EXCEPT ![by] = [open |-> o, pos |-> ps, batches |-> b0]]
      OBVIOUS
    <3>6. PICK e : e = hs[by] /\ e = [open |-> o, pos |-> p0, batches |-> b0]
      BY <2>4
    <3>7. [e EXCEPT !.pos = ps] = [open |-> o, pos |-> ps, batches |-> b0]
      BY <3>6
    <3>2. h1 = [hs EXCEPT ![by].pos = ps]
      BY <3>1, <3>6, <3>7
    <3>3. handle' = [h1 EXCEPT ![by].batches = @ \union {b}]
      BY <2>5, <3>2
    <3>4. handle'[by] = [h1[by] EXCEPT !.batches = @ \union {b}]
      BY <1>5, <2>3, <3>1, <3>3
    <3>5. h1[by] = [open |-> o, pos |-> ps, batches |-> b0]
      BY <1>5, <2>3, <3>1
    <3>8. PICK k : k = h1[by] /\ k = [open |-> o, pos |-> ps, batches |-> b0]
      BY <3>5
    <3>9. [k EXCEPT !.batches = b0 \union {b}] = [open |-> o, pos |-> ps, batches |-> b0 \union {b}]
      BY <3>8
    <3>10. k.batches = b0
      BY <3>8
    <3> QED BY <1>6, <2>4, <3>4, <3>8, <3>9, <3>10
  <2>7. /\ DOMAIN handle' = Handles /\ \A x \in Handles : x # by => handle'[x] = hs[x]
        /\ handle' = [x \in Handles |-> handle'[x]]
    BY <1>5, <2>3, <2>5
  <2> QED BY <1>5, <2>3, <2>6, <2>7
<1>8. UpToDate(hd, f)
  BY <1>1, <1>3, <1>4, <1>6, <1>13, AllKnown, PositionNat DEF UpToDate, HandleType
<1>9. HandlesOK'
  BY <1>1, <1>5, <1>7, <1>8, HandleUpdated DEF Inv, Commit
<1>10. acked' = acked \union {b} /\ UNCHANGED <<file, synced, appends, faults>> /\ writer' = Idle
  BY <1>2 DEF Commit
<1>11. \E i \in 1 .. Len(f) : i < synced[1] /\ Parses(f[i]) /\ BatchOf(f[i]) = b
  <2>1. PICK i \in 1 .. Len(f) : Parses(f[i]) /\ BatchOf(f[i]) = b
    BY <1>4, InContents
  <2>2. i # Len(f)
    BY <1>4, <2>1, EmptyLine DEF LastOf
  <2>3. synced[1] = Len(f) /\ Len(f) \in Nat
    BY <1>1, <1>3, <1>4, PositionNat, FormFacts
  <2> QED BY <2>1, <2>2, <2>3
<1>12. SyncedOK'
  BY <1>1, <1>10, <1>11 DEF Inv, SyncedOK
<1> QED BY <1>1, <1>4, <1>9, <1>10, <1>12 DEF Inv, WriterOK, Counters

-----------------------------------------------------------------------------
(* Faults.                                                                 *)

LEMMA CutFacts ==
  ASSUME Inv, NEW g \in CutWrites
  PROVE  FileForm(file) /\ Grown(file, g) /\ Contents(g) = Contents(file)
<1>1. PICK f : f = file /\ FileForm(f)
  BY DEF Inv
<1>2. CASE g = file
  BY <1>1, <1>2, GrownSelf
<1>3. CASE g # file
  <2>1. PICK t, b : t = writer.todo /\ b = writer.batch
    OBVIOUS
  <2>2. PICK q \in Torn(Head(t)) : g = Put(f, q) /\ writer.busy /\ t # <<>>
    BY <1>1, <1>3, <2>1 DEF CutWrites
  <2>3. b \in Batch /\ (Before(LastOf(f), t, b) \/ After(LastOf(f), t, b))
    BY <1>1, <2>1, <2>2, BusyFacts
  <2> QED BY <1>1, <2>2, <2>3, WriteCut
<1> QED BY <1>2, <1>3

LEMMA IoErrorStep ==
  ASSUME Inv, IoError
  PROVE  Inv'
<1>1. PICK f, g : f = file /\ g = file' /\ FileForm(f) /\ Grown(f, g)
  BY CutFacts DEF IoError
<1>2. HandlesOK' /\ SyncedOK'
  BY <1>1, HandlesGrow, SyncedGrow DEF Inv, IoError
<1>3. FileForm(g)
  BY <1>1 DEF Grown
<1> QED BY <1>1, <1>2, <1>3, JournalAssumption DEF Inv, IoError, Counters, WriterOK

\* What a crash leaves of a file is well formed, its lines are those of the file,
\* and a batch in its last line is the one the file has there.
CrashOf(f, p, g) ==
  /\ FileForm(g)
  /\ Len(g) = p[1] /\ \A i \in 1 .. p[1] - 1 : g[i] = f[i]
  /\ Parses(g[p[1]]) => g[p[1]] = f[p[1]]

LEMMA CutForm ==
  ASSUME NEW f, FileForm(f), NEW g \in Seq(Lines), NEW n \in 1 .. Len(f), Len(g) = n,
         \A i \in 1 .. n - 1 : g[i] = f[i], Formed(g[n]), Parses(g[n]) => g[n] = f[n]
  PROVE  FileForm(g)
<1>1. Len(f) \in Nat /\ g # <<>> /\ LastOf(g) = g[n]
  BY FormFacts DEF LastOf
<1>2. \A i \in 1 .. n - 1 : Ended(g[i])
  BY <1>1 DEF FileForm
<1>3. \A i \in 1 .. n : Parses(g[i]) => g[i] = f[i]
  <2> TAKE i \in 1 .. n
  <2>1. CASE i = n
    BY <2>1
  <2>2. CASE i # n
    BY <1>1, <2>2
  <2> QED BY <2>1, <2>2
<1>4. \A i, j \in 1 .. n :
        i < j /\ Parses(g[i]) /\ Parses(g[j]) => Final(BatchOf(g[i])) < BatchOf(g[j]).first
  BY <1>1, <1>3 DEF FileForm
<1> QED BY <1>1, <1>2, <1>4 DEF FileForm

LEMMA CrashCuts ==
  ASSUME NEW f, FileForm(f), NEW p \in Positions(f), NEW g,
         \/ g = UpTo(f, p)
         \/ /\ p[2] < Len(f[p[1]])
            /\ \E q \in Torn(f[p[1]][p[2] + 1]) : g = Put(UpTo(f, p), q)
  PROVE  CrashOf(f, p, g)
<1>1. PICK n, k : n = p[1] /\ k = p[2] /\ n \in 1 .. Len(f) /\ k \in 0 .. Len(f[n])
  BY PositionFacts
<1>2. PICK line \in Lines : line = f[n] /\ Formed(line) /\ Len(line) \in Nat /\ k \in 0 .. Len(line)
  BY <1>1, FormFacts
<1>3. f \in Seq(Lines) /\ Len(f) \in Nat
  BY FormFacts
<1>4. PICK l \in Lines : l = SubSeq(line, 1, k) /\ Formed(l) /\ (Parses(l) => l = line)
  <2>1. k \in 0 .. Len(line) /\ (k < Len(line) \/ k = Len(line))
    BY <1>2
  <2>2. PICK l : l = SubSeq(line, 1, k)
    OBVIOUS
  <2>3. /\ l \in Lines /\ Formed(l) /\ (k < Len(line) => ~Parses(l))
        /\ (k = Len(line) => l = line)
    BY <1>2, <2>1, <2>2, PrefixLine
  <2> QED BY <2>1, <2>2, <2>3
<1>5. PICK u : u = UpTo(f, p)
  OBVIOUS
<1>6. u \in Seq(Lines) /\ Len(u) = n /\ u[n] = l /\ u # <<>> /\ \A i \in 1 .. n - 1 : u[i] = f[i]
  <2>1. u = Append(SubSeq(f, 1, n - 1), l)
    BY <1>1, <1>2, <1>4, <1>5 DEF UpTo
  <2>2. PICK s : s = SubSeq(f, 1, n - 1)
    OBVIOUS
  <2>3. s \in Seq(Lines) /\ Len(s) = n - 1 /\ \A i \in 1 .. n - 1 : s[i] = f[i]
    BY <1>1, <1>3, <2>2
  <2>4. n \in Nat /\ n > 0
    BY <1>1, <1>3
  <2>5. u = Append(s, l)
    BY <2>1, <2>2
  <2>6. u \in Seq(Lines) /\ Len(u) = Len(s) + 1 /\ u[Len(s) + 1] = l /\ u # <<>>
        /\ \A i \in 1 .. Len(s) : u[i] = s[i]
    BY <2>3, <2>5
  <2> QED BY <2>3, <2>4, <2>6
<1>7. CASE g = u
  BY <1>1, <1>2, <1>4, <1>6, <1>7, CutForm DEF CrashOf
<1>8. CASE k < Len(line) /\ \E q \in Torn(line[k + 1]) : g = Put(u, q)
  <2>1. PICK q \in Torn(line[k + 1]) : g = Put(u, q)
    BY <1>8
  <2>2. PICK q2, l2 : q2 = q /\ q2 \in Pieces /\ l2 = Append(l, q2) /\ Formed(l2) /\ ~Parses(l2)
    BY <1>2, <1>4, <1>8, CutLine
  <2>3. /\ g \in Seq(Lines) /\ Len(g) = n /\ LastOf(g) = Append(LastOf(u), q2)
        /\ \A i \in 1 .. n - 1 : g[i] = u[i]
    BY <1>6, <2>1, <2>2, PutPiece
  <2>4. g[n] = l2
    BY <1>6, <2>2, <2>3 DEF LastOf
  <2>5. /\ \A i \in 1 .. n - 1 : g[i] = f[i]
        /\ Formed(g[n]) /\ ~Parses(g[n])
    BY <1>6, <2>2, <2>3, <2>4
  <2>6. FileForm(g)
    BY <1>1, <2>3, <2>5, CutForm
  <2> QED BY <1>1, <2>3, <2>5, <2>6 DEF CrashOf
<1> QED BY <1>1, <1>2, <1>5, <1>7, <1>8

LEMMA CrashFacts ==
  ASSUME Inv, Crash
  PROVE  \E f, p : /\ f \in CutWrites /\ p \in Positions(f) /\ AtOrBefore(synced, p)
                   /\ CrashOf(f, p, file')
<1>1. PICK f \in CutWrites : file' \in Survivors(f)
  BY DEF Crash
<1>2. FileForm(f)
  BY <1>1, CutFacts DEF Grown
<1>3. PICK g : g = file'
  OBVIOUS
<1>4. PICK p \in Positions(f) :
        /\ AtOrBefore(synced, p)
        /\ \/ g = UpTo(f, p)
           \/ /\ p[2] < Len(f[p[1]])
              /\ \E q \in Torn(f[p[1]][p[2] + 1]) : g = Put(UpTo(f, p), q)
  BY <1>1, <1>3 DEF Survivors
<1>5. CrashOf(f, p, g)
  BY <1>2, <1>4, CrashCuts
<1> QED BY <1>1, <1>3, <1>4, <1>5

\* No acknowledged batch is lost.
LEMMA AckedSurvive ==
  ASSUME Inv, NEW f \in CutWrites, NEW p \in Positions(f), AtOrBefore(synced, p), NEW g,
         CrashOf(f, p, g), NEW b \in acked
  PROVE  \E i \in 1 .. Len(g) : i < p[1] /\ Parses(g[i]) /\ BatchOf(g[i]) = b
<1>1. PICK f0 : f0 = file /\ FileForm(f0) /\ Grown(f0, f)
  BY CutFacts DEF Inv
<1>2. PICK i \in 1 .. Len(f0) : i < synced[1] /\ Parses(f0[i]) /\ BatchOf(f0[i]) = b
  BY <1>1 DEF Inv, SyncedOK
<1>3. synced[1] \in 1 .. Len(f0) /\ Len(f0) \in Nat /\ p[1] \in 1 .. Len(f) /\ Len(f) \in Nat
  BY <1>1, FormFacts, PositionFacts DEF Inv, SyncedOK, Grown
<1>4. synced[1] <= p[1]
  BY <1>3 DEF AtOrBefore
<1>5. i \in 1 .. Len(f0) - 1 /\ i \in 1 .. p[1] - 1 /\ i \in 1 .. p[1] /\ i < p[1]
  BY <1>2, <1>3, <1>4
<1>6. g[i] = f0[i]
  BY <1>1, <1>5 DEF CrashOf, Grown
<1> QED BY <1>2, <1>5, <1>6 DEF CrashOf

LEMMA CrashStep ==
  ASSUME Inv, Crash
  PROVE  Inv'
<1>1. PICK f, p, g : /\ f \in CutWrites /\ p \in Positions(f) /\ AtOrBefore(synced, p)
                     /\ g = file' /\ CrashOf(f, p, g)
  BY CrashFacts
<1>2. FileForm(g) /\ Len(g) = p[1]
  BY <1>1 DEF CrashOf
<1>3. PICK ps : ps = Position(g) /\ ps \in Positions(g) /\ ps[1] = p[1]
  BY <1>2, PositionNat
<1>4. synced' = ps /\ UNCHANGED acked
  BY <1>1, <1>3 DEF Crash
<1>5. \A b \in acked : \E i \in 1 .. Len(g) : i < ps[1] /\ Parses(g[i]) /\ BatchOf(g[i]) = b
  BY <1>1, <1>3, AckedSurvive
<1>6. SyncedOK'
  BY <1>1, <1>3, <1>4, <1>5 DEF SyncedOK
<1>7. HandlesOK'
  <2>1. Closed \in HandleType /\ ~Closed.open
    BY DEF Closed, HandleType
  <2>2. handle' = [h \in Handles |-> Closed]
    BY DEF Crash
  <2> QED BY <2>1, <2>2 DEF HandlesOK
<1> QED BY <1>1, <1>2, <1>6, <1>7, JournalAssumption DEF Inv, Crash, Counters, WriterOK

-----------------------------------------------------------------------------
(* The invariant is inductive.                                             *)

LEMMA EmptyFile ==
  /\ FileForm(<< <<>> >>) /\ Positions(<< <<>> >>) = {<<1, 0>>}
  /\ Contents(<< <<>> >>) = {}
<1>1. PICK e, f : e = <<>> /\ e \in Lines /\ ~Parses(e) /\ f = <<e>>
  BY EmptyLine
<1>2. f \in Seq(Lines) /\ Len(f) = 1 /\ f[1] = e /\ f # <<>> /\ LastOf(f) = e /\ Len(e) = 0
  BY <1>1 DEF LastOf
<1>3. FileForm(f)
  BY <1>1, <1>2 DEF FileForm, Formed
<1>4. Positions(f) = {<<1, 0>>}
  BY <1>2, PositionFacts
<1>5. Contents(f) = {}
  BY <1>1, <1>2, InContents
<1> QED BY <1>1, <1>3, <1>4, <1>5

LEMMA Initial ==
  ASSUME Init
  PROVE  Inv
<1>1. PICK f : f = << <<>> >> /\ f = file /\ FileForm(f) /\ <<1, 0>> \in Positions(f)
  BY EmptyFile DEF Init
<1>2. Closed \in HandleType /\ ~Closed.open
  BY DEF Closed, HandleType
<1>3. HandlesOK
  BY <1>2 DEF Init, HandlesOK
<1>4. SyncedOK
  BY <1>1 DEF Init, SyncedOK
<1> QED BY <1>1, <1>3, <1>4, JournalAssumption DEF Init, Inv, WriterOK, Counters

LEMMA NextStep ==
  ASSUME Inv, Next
  PROVE  Inv'
BY OpenStep, RefreshStep, BeginStep, WriteStep, SyncStep, CommitStep, IoErrorStep, CrashStep
   DEF Next

LEMMA Stuttering ==
  ASSUME Inv, UNCHANGED vars
  PROVE  Inv'
BY DEF Inv, vars, HandlesOK, SyncedOK, WriterOK, Counters

LEMMA Inductive == Spec => []Inv
<1>1. Init => Inv
  BY Initial
<1>2. Inv /\ [Next]_vars => Inv'
  BY NextStep, Stuttering
<1> QED BY <1>1, <1>2, PTL DEF Spec

-----------------------------------------------------------------------------
(* The theorems.                                                           *)

(* Whatever is cut or lost, the file is made of pieces of whole batches,   *)
(* projections hold batches, and one append at most is in progress.        *)
THEOREM TypeCorrect == Spec => []TypeOK
<1>1. Inv => TypeOK
  <2> SUFFICES ASSUME Inv PROVE TypeOK
    OBVIOUS
  <2>1. file \in Seq(Seq(Pieces)) /\ file # <<>>
    BY DEF Inv, FileForm, Lines
  <2>2. synced \in Nat \X Nat
    <3>1. PICK f : f = file /\ FileForm(f) /\ synced \in Positions(f)
      BY DEF Inv, SyncedOK
    <3> QED BY <3>1, PositionNat
  <2>3. handle \in [Handles -> HandleType]
    BY DEF Inv, HandlesOK
  <2>4. writer = Idle \/ writer \in WriterType
    BY DEF Inv, WriterOK
  <2> QED BY <2>1, <2>2, <2>3, <2>4 DEF TypeOK, Inv, Counters, HandleType, WriterType
<1> QED BY <1>1, Inductive, PTL

(* Writes are cut anywhere, markers included, and as often as one likes:   *)
(* the file opens unless its last line ends in part of a marker.  A torn   *)
(* frame, a torn record, and any number of them set aside before the last  *)
(* line, never brick the session.                                          *)
THEOREM OpensAgain == Spec => []NeverBricked
<1>1. Inv => NeverBricked
  <2> SUFFICES ASSUME Inv PROVE NeverBricked
    OBVIOUS
  <2>1. PICK f : f = file /\ FileForm(f)
    BY DEF Inv
  <2> QED BY <2>1, FormLoads DEF NeverBricked
<1> QED BY <1>1, Inductive, PTL

(* A handle whose recorded length is the file's has in memory what a full  *)
(* read would find, also after other handles wrote, or failed to.          *)
THEOREM HandlesCoherent == Spec => []Coherent
<1>1. Inv => Coherent
  <2> SUFFICES ASSUME Inv PROVE Coherent
    OBVIOUS
  <2>1. PICK f : f = file /\ FileForm(f)
    BY DEF Inv
  <2> QED BY <2>1, AllKnown DEF Coherent, Inv, HandlesOK
<1> QED BY <1>1, Inductive, PTL

LEMMA CrashImplements ==
  ASSUME Inv, Crash
  PROVE  Log!Crash
<1>1. PICK f, p, g : /\ f \in CutWrites /\ p \in Positions(f) /\ AtOrBefore(synced, p)
                     /\ g = file' /\ CrashOf(f, p, g)
  BY CrashFacts
<1>2. FileForm(f) /\ Contents(f) = Contents(file)
  BY <1>1, CutFacts DEF Grown
<1>3. p[1] \in 1 .. Len(f) /\ Len(f) \in Nat
  BY <1>1, <1>2, PositionFacts, FormFacts
<1>4. \A i \in 1 .. Len(g) : Parses(g[i]) => i \in 1 .. Len(f) /\ g[i] = f[i]
  <2> TAKE i \in 1 .. Len(g)
  <2>1. i \in 1 .. p[1] /\ i \in 1 .. Len(f)
    BY <1>1, <1>3 DEF CrashOf
  <2>2. CASE i = p[1]
    BY <1>1, <2>1, <2>2 DEF CrashOf
  <2>3. CASE i # p[1]
    <3>1. i \in 1 .. p[1] - 1
      BY <1>3, <2>1, <2>3
    <3> QED BY <1>1, <2>1, <3>1 DEF CrashOf
  <2> QED BY <2>2, <2>3
<1>5. acked \subseteq Contents(g)
  BY <1>1, AckedSurvive, InContents
<1>6. Contents(g) \subseteq Contents(f)
  BY <1>4, InContents
<1>7. ASSUME NEW b \in Contents(g), NEW c \in Contents(f) \ Contents(g)
      PROVE  Final(b) < c.first
  <2>1. PICK i \in 1 .. Len(g) : Parses(g[i]) /\ BatchOf(g[i]) = b
    BY InContents
  <2>2. PICK j \in 1 .. Len(f) : Parses(f[j]) /\ BatchOf(f[j]) = c
    BY InContents
  <2>3. i \in 1 .. Len(f) /\ i <= p[1] /\ g[i] = f[i] /\ Len(g) = p[1]
    BY <1>1, <1>3, <1>4, <2>1 DEF CrashOf
  <2>4. ~(j < p[1])
    <3>1. ASSUME j < p[1] PROVE FALSE
      <4>1. j \in 1 .. p[1] - 1 /\ j \in 1 .. Len(g)
        BY <1>3, <2>3, <3>1
      <4>2. g[j] = f[j]
        BY <1>1, <4>1 DEF CrashOf
      <4> QED BY <1>7, <2>2, <4>1, <4>2, InContents
    <3> QED BY <3>1
  <2>5. i # j
    BY <1>7, <2>1, <2>2, <2>3
  <2>6. i < j
    BY <1>3, <2>3, <2>4, <2>5
  <2> QED BY <1>2, <2>1, <2>2, <2>3, <2>6 DEF FileForm
<1>8. UNCHANGED acked
  BY DEF Crash
<1> QED BY <1>1, <1>2, <1>5, <1>6, <1>7, <1>8 DEF Log!Crash, Log!Last, Final

LEMMA StepImplements ==
  ASSUME Inv, Next
  PROVE  Log!Next \/ UNCHANGED <<Contents(file), acked>>
<1>1. CASE \E h \in Handles : Open(h) \/ Refresh(h)
  BY <1>1 DEF Open, Refresh
<1>2. CASE \E h \in Handles, framed \in BOOLEAN, n \in 1 .. MaxBatch : Begin(h, framed, n)
  BY <1>2 DEF Begin
<1>3. CASE Write
  <2>1. UNCHANGED acked
    BY <1>3 DEF Write
  <2>2. CASE Contents(file') = Contents(file)
    BY <2>1, <2>2
  <2>3. CASE /\ Contents(file') = Contents(file) \union {writer.batch}
             /\ writer.batch \in Batch
             /\ \A c \in Contents(file) : Final(c) < writer.batch.first
    <3>1. PICK b : b = writer.batch /\ b \in Batch
      BY <2>3
    <3>2. b.size > 0 /\ Final(b) \in Nat /\ b.first <= Final(b) /\ b.first \in Nat
      BY <3>1, JournalAssumption DEF Batch, Final
    <3>3. b \notin Contents(file)
      BY <2>3, <3>1, <3>2
    <3>4. Log!Extend
      BY <2>1, <2>3, <3>1, <3>2, <3>3 DEF Log!Extend, Log!Below, Log!Last, Final
    <3> QED BY <3>4 DEF Log!Next
  <2> QED BY <1>3, <2>2, <2>3, WriteFile
<1>4. CASE Sync
  BY <1>4 DEF Sync
<1>5. CASE Commit
  <2>1. writer.batch \in Contents(file)
    BY <1>5, CommitFacts
  <2>2. Log!Acknowledge
    BY <1>5, <2>1 DEF Commit, Log!Acknowledge
  <2> QED BY <2>2 DEF Log!Next
<1>6. CASE IoError
  BY <1>6, CutFacts DEF IoError
<1>7. CASE Crash
  BY <1>7, CrashImplements DEF Log!Next
<1> QED BY <1>1, <1>2, <1>3, <1>4, <1>5, <1>6, <1>7 DEF Next

(* The file, read strictly, is a durable log, also when markers are cut: a *)
(* batch appears whole and numbered above all others, and only a crash     *)
(* takes any away, the newest first and none whose append returned Ok.     *)
THEOREM JournalImplementsLog == Spec => ImplementsLog
<1>1. Init => Log!Init
  BY EmptyFile DEF Init, Log!Init
<1>2. Inv /\ [Next]_vars => [Log!Next]_(Log!logVars)
  BY StepImplements DEF vars, Log!logVars
<1> QED BY <1>1, <1>2, Inductive, PTL DEF Spec, ImplementsLog, Log!Spec
=============================================================================
