-------------------------- MODULE FileTail_proofs --------------------------
(***************************************************************************)
(* What reaches the parsers is what the log holds: whole lines, in order,  *)
(* none skipped; and a rotation between two calls never ends the watch.    *)
(* Proved for every log, every number of rotations and every set of        *)
(* faults.                                                                 *)
(***************************************************************************)
EXTENDS FileTail, Inductions

-----------------------------------------------------------------------------
(* The inductive invariant. *)

\* A file holds consecutive pieces, from the start of a line on.
LogFile(s) ==
  /\ \A k \in 1..Len(s) : s[k] = s[1] + (k - 1)
  /\ s # <<>> => s[1] % 2 = 1 /\ s[Len(s)] <= w

\* Only the writer's file grows, and it ends with the last piece written.
Files ==
  /\ \A i \in Inodes : LogFile(data[i])
  /\ writer # NoFile => IF data[writer] = <<>>
                        THEN w % 2 = 0
                        ELSE data[writer][Len(data[writer])] = w
  /\ path \notin {NoFile, writer} => data[path] = <<>>

\* Where the tailer stands; between stat and read the file stays the same
\* one, unless a rotation falls into the poll.
Standing ==
  /\ pc \in {"init", "size"} => inode = NoFile
  /\ inode = NoFile => offset = 0 /\ partial = <<>> /\ handed = <<>>
  /\ pc = "read" => inode # NoFile
  /\ pc = "read" /\ "mid_poll" \notin happened => path = inode
  /\ InPoll /\ "mid_poll" \notin happened => path # NoFile
  /\ InStart /\ "mid_start" \notin happened => path # NoFile

\* A piece that is not half a character has survived the decoding.
Sound(c) == LineOf(c.piece) \notin MultiByte => c.intact

\* What is kept when s has been read up to o: the first half of the line
\* that o lies in.
HalfLine(rest, s, o) ==
  /\ o % 2 = 0 => rest = <<>>
  /\ o % 2 = 1 => Len(rest) = 1 /\ rest[1].piece = s[o] /\ Sound(rest[1])

\* Without disturbances the tailer has read the file up to its offset.
InStep ==
  Undisturbed /\ inode # NoFile =>
    /\ offset <= Len(data[inode])
    /\ HalfLine(partial, data[inode], offset)
    /\ \A k \in 1..offset :
         data[inode][k] \in skipped \union PiecesIn(handed) \union Range(PiecesOf(partial))

\* The pieces of the text come in the order they were written in.
Rising(text) == \A k, l \in DOMAIN text : k < l => text[k].piece < text[l].piece

\* So do the pieces of these lines and, after them, of the unfinished one.
Sorted(lines, rest) ==
  /\ InOrder(lines)
  /\ Rising(rest)
  /\ \A p \in PiecesIn(lines), q \in Range(PiecesOf(rest)) : p < q

\* What the tailer has read, and the places of the file it would read next.
Read == PiecesIn(handed) \union Range(PiecesOf(partial))
Ahead(k) == k > offset \/ path # inode \/ Len(data[path]) < offset

\* What is handed, what waits in partial and what is still to be read come
\* one after the other.
Ordered ==
  "mid_poll" \notin happened =>
    /\ Sorted(handed, partial)
    /\ \A p \in Read : p <= w
    /\ path # NoFile =>
         \A k \in 1..Len(data[path]) : Ahead(k) => \A p \in Read : p < data[path][k]

IInv == TypeOK /\ Files /\ Standing /\ InStep /\ Ordered /\ WholeLines /\ DiesOnlyMidCall

-----------------------------------------------------------------------------
(* The pieces of lines, and how they are split. *)

\* The pieces of a text.
LEMMA TextPieces ==
  ASSUME NEW text \in Seq(Text)
  PROVE  /\ PiecesOf(text) \in Seq(Pieces) /\ Len(PiecesOf(text)) = Len(text)
         /\ \A k \in 1..Len(text) : text[k].piece \in Range(PiecesOf(text))
         /\ \A p \in Range(PiecesOf(text)) : \E k \in 1..Len(text) : p = text[k].piece
         /\ Range(PiecesOf(text)) \subseteq Pieces
  <1>0. \A c \in Text : c.piece \in Pieces
    BY DEF Text
  <1>1. \A k \in 1..Len(text) : text[k].piece \in Pieces
    BY <1>0
  <1>2. DOMAIN text = 1..Len(text) /\ Len(text) \in Nat
    OBVIOUS
  <1>3. PiecesOf(text) \in [1..Len(text) -> Pieces]
    BY <1>1, <1>2 DEF PiecesOf
  <1>4. PiecesOf(text) \in Seq(Pieces) /\ Len(PiecesOf(text)) = Len(text)
    BY <1>2, <1>3, IsSeq
  <1>5. \A k \in 1..Len(text) : PiecesOf(text)[k] = text[k].piece
    BY <1>2 DEF PiecesOf
  <1> QED
    BY <1>1, <1>3, <1>4, <1>5 DEF Range

\* The pieces of some lines.
LEMMA LinePieces ==
  ASSUME NEW lines \in Seq(Seq(Text))
  PROVE  /\ \A i \in 1..Len(lines) : \A k \in 1..Len(lines[i]) :
              lines[i][k].piece \in PiecesIn(lines)
         /\ \A p \in PiecesIn(lines) :
              \E i \in 1..Len(lines) : \E k \in 1..Len(lines[i]) : p = lines[i][k].piece
         /\ PiecesIn(lines) \subseteq Pieces
  <1>1. DOMAIN lines = 1..Len(lines) /\ \A i \in 1..Len(lines) : lines[i] \in Seq(Text)
    OBVIOUS
  <1>2. PiecesIn(lines) = UNION {Range(PiecesOf(lines[i])) : i \in 1..Len(lines)}
    BY <1>1 DEF PiecesIn
  <1>3. ASSUME NEW i \in 1..Len(lines)
        PROVE  /\ \A k \in 1..Len(lines[i]) : lines[i][k].piece \in Range(PiecesOf(lines[i]))
               /\ \A p \in Range(PiecesOf(lines[i])) :
                    \E k \in 1..Len(lines[i]) : p = lines[i][k].piece
               /\ Range(PiecesOf(lines[i])) \subseteq Pieces
    BY <1>1, TextPieces
  <1>4. \A i \in 1..Len(lines) : \A k \in 1..Len(lines[i]) :
          lines[i][k].piece \in PiecesIn(lines)
    BY <1>2, <1>3
  <1>5. ASSUME NEW p \in PiecesIn(lines)
        PROVE  /\ \E i \in 1..Len(lines) : \E k \in 1..Len(lines[i]) : p = lines[i][k].piece
               /\ p \in Pieces
    <2>1. PICK i \in 1..Len(lines) : p \in Range(PiecesOf(lines[i]))
      BY <1>2
    <2> QED
      BY <1>3, <2>1
  <1> QED
    BY <1>4, <1>5

\* The pieces of a longer text.
LEMMA TextAppend ==
  ASSUME NEW text \in Seq(Text), NEW c \in Text
  PROVE  Range(PiecesOf(Append(text, c))) = Range(PiecesOf(text)) \union {c.piece}
  <1>1. /\ Append(text, c) \in Seq(Text) /\ Len(Append(text, c)) = Len(text) + 1
        /\ \A k \in 1..Len(text) : Append(text, c)[k] = text[k]
        /\ Append(text, c)[Len(text) + 1] = c
    OBVIOUS
  <1> DEFINE longer == Append(text, c)
  <1>2. /\ \A k \in 1..Len(text) : text[k].piece \in Range(PiecesOf(text))
        /\ \A p \in Range(PiecesOf(text)) : \E k \in 1..Len(text) : p = text[k].piece
    BY TextPieces
  <1>3. /\ \A k \in 1..Len(longer) : longer[k].piece \in Range(PiecesOf(longer))
        /\ \A p \in Range(PiecesOf(longer)) : \E k \in 1..Len(longer) : p = longer[k].piece
    BY <1>1, TextPieces
  <1> HIDE DEF longer
  <1>4. /\ Len(longer) = Len(text) + 1 /\ Len(text) \in Nat
        /\ \A k \in 1..Len(text) : longer[k] = text[k]
        /\ longer[Len(text) + 1] = c
    BY <1>1 DEF longer
  <1>5. Range(PiecesOf(longer)) \subseteq Range(PiecesOf(text)) \union {c.piece}
    <2> SUFFICES ASSUME NEW k \in 1..Len(longer)
                 PROVE  longer[k].piece \in Range(PiecesOf(text)) \union {c.piece}
      BY <1>3
    <2>1. k \in 1..Len(text) \/ k = Len(text) + 1
      BY <1>4
    <2> QED
      BY <2>1, <1>2, <1>4
  <1>6. Range(PiecesOf(text)) \union {c.piece} \subseteq Range(PiecesOf(longer))
    <2>1. \A k \in 1..Len(text) : text[k].piece = longer[k].piece /\ k \in 1..Len(longer)
      BY <1>4
    <2>2. c.piece = longer[Len(text) + 1].piece /\ Len(text) + 1 \in 1..Len(longer)
      BY <1>4
    <2> QED
      BY <1>2, <1>3, <2>1, <2>2
  <1> QED
    BY <1>5, <1>6 DEF longer

\* The pieces of more lines.
LEMMA LinesConcat ==
  ASSUME NEW lines \in Seq(Seq(Text)), NEW more \in Seq(Seq(Text))
  PROVE  PiecesIn(lines \o more) = PiecesIn(lines) \union PiecesIn(more)
  <1> DEFINE all == lines \o more
             n == Len(lines)
             m == Len(more)
  <1>1. /\ all \in Seq(Seq(Text)) /\ Len(all) = n + m
        /\ \A i \in 1..n : all[i] = lines[i]
        /\ \A i \in 1..m : all[n + i] = more[i]
        /\ n \in Nat /\ m \in Nat
        /\ DOMAIN all = 1..(n + m) /\ DOMAIN lines = 1..n /\ DOMAIN more = 1..m
    OBVIOUS
  <1> HIDE DEF all, n, m
  <1>2. ASSUME NEW i \in 1..(n + m)
        PROVE  i \in 1..n \/ (i - n \in 1..m /\ all[i] = more[i - n])
    <2>1. CASE i <= n
      BY <2>1, <1>1
    <2>2. CASE i > n
      <3>1. i - n \in 1..m /\ n + (i - n) = i
        BY <2>2, <1>1
      <3> QED
        BY <3>1, <1>1
    <2> QED
      BY <2>1, <2>2, <1>1
  <1>3. PiecesIn(all) \subseteq PiecesIn(lines) \union PiecesIn(more)
    BY <1>1, <1>2 DEF PiecesIn
  <1>4. \A i \in 1..m : n + i \in 1..(n + m)
    BY <1>1
  <1>5. \A i \in 1..n : i \in 1..(n + m)
    BY <1>1
  <1>6. PiecesIn(lines) \union PiecesIn(more) \subseteq PiecesIn(all)
    BY <1>1, <1>4, <1>5 DEF PiecesIn
  <1> QED
    BY <1>3, <1>6 DEF all

\* Nothing has been handed over, or waits.
LEMMA NoPieces == PiecesIn(<<>>) = {} /\ Range(PiecesOf(<<>>)) = {}
  <1>1. DOMAIN <<>> = {}
    OBVIOUS
  <1>2. DOMAIN PiecesOf(<<>>) = {}
    BY <1>1 DEF PiecesOf
  <1> QED
    BY <1>1, <1>2 DEF PiecesIn, Range

\* What split has made of the text after each piece.
SplitRun(acc, rest, text) ==
  /\ acc \in [0..Len(text) -> [lines : Seq(Seq(Text)), rest : Seq(Text)]]
  /\ acc[0] = [lines |-> <<>>, rest |-> rest]
  /\ \A j \in 1..Len(text) : acc[j] = SplitPiece(acc[j - 1], text[j])
  /\ Split(rest, text) = acc[Len(text)]

\* One piece more: lines and rest keep their types.
LEMMA SplitPieceType ==
  ASSUME NEW acc \in [lines : Seq(Seq(Text)), rest : Seq(Text)], NEW c \in Text
  PROVE  SplitPiece(acc, c) \in [lines : Seq(Seq(Text)), rest : Seq(Text)]
  <1>1. acc.lines \in Seq(Seq(Text)) /\ acc.rest \in Seq(Text)
    OBVIOUS
  <1>2. Append(acc.rest, c) \in Seq(Text) /\ <<>> \in Seq(Text)
    BY <1>1
  <1>3. Append(acc.lines, Append(acc.rest, c)) \in Seq(Seq(Text))
    BY <1>1, <1>2, AppendProperties
  <1> QED
    BY <1>1, <1>2, <1>3 DEF SplitPiece

\* There is such an account of every split.
LEMMA SplitSteps ==
  ASSUME NEW rest \in Seq(Text), NEW text \in Seq(Text)
  PROVE  \E acc : SplitRun(acc, rest, text)
  <1> DEFINE n == Len(text)
             A == [lines : Seq(Seq(Text)), rest : Seq(Text)]
             base == [lines |-> <<>>, rest |-> rest]
             next == [p \in A \X (1..n) |-> SplitPiece(p[1], text[p[2]])]
             Eq(g) == g = [t \in SUBSET (1..n) |->
                             IF t = {} THEN base
                             ELSE SplitPiece(g[t \ {Max(t)}], text[Max(t)])]
             iter == CHOOSE g : Eq(g)
  <1>1. n \in Nat /\ DOMAIN text = 1..n /\ base \in A /\ \A j \in 1..n : text[j] \in Text
    OBVIOUS
  <1>2. next \in [A \X (1..n) -> A]
    <2>1. \A p \in A \X (1..n) : SplitPiece(p[1], text[p[2]]) \in A
      <3> HIDE DEF n, base
      <3> QED
        BY <1>1, SplitPieceType
    <2> HIDE DEF A, n
    <2> QED
      BY <2>1
  <1>3. PICK g \in [SUBSET (1..n) -> A] : IsFold(g, base, next, n)
    <2> HIDE DEF next, n, A, base
    <2> QED
      BY <1>1, <1>2, FoldExists
  <1>4. \A t \in SUBSET (1..n) : t # {} => Max(t) \in 1..n
    <2>1. \A t \in SUBSET (1..n) : t \in SUBSET Int /\ \A x \in t : x <= n
      BY <1>1
    <2>2. n \in Int
      BY <1>1
    <2> HIDE DEF n
    <2> QED
      BY <2>1, <2>2, GreatestElement
  <1>5. Eq(g)
    <2>1. ASSUME NEW t \in SUBSET (1..n), t # {}
          PROVE  next[<<g[t \ {Max(t)}], Max(t)>>] = SplitPiece(g[t \ {Max(t)}], text[Max(t)])
      <3>1. t \ {Max(t)} \in SUBSET (1..n)
        OBVIOUS
      <3>2. g[t \ {Max(t)}] \in A /\ Max(t) \in 1..n
        BY <3>1, <1>4, <2>1
      <3> HIDE DEF n, A
      <3> QED
        BY <3>2
    <2> HIDE DEF next, base, n
    <2> QED
      BY <1>3, <2>1 DEF IsFold
  <1>6. Eq(iter)
    <2> HIDE DEF Eq
    <2> QED
      BY <1>5
  <1>7. Split(rest, text) = iter[1..n]
    BY <1>1 DEF Split, FoldLeft, MapThenFoldSet
  <1> DEFINE acc == [j \in 0..n |-> iter[1..j]]
  <1> HIDE DEF iter
  <1>8. acc[0] = base
    BY <1>6
  <1>9. ASSUME NEW j \in 1..n PROVE acc[j] = SplitPiece(acc[j - 1], text[j])
    <2>1. 1..j # {} /\ Max(1..j) = j /\ (1..j) \ {Max(1..j)} = 1..(j - 1)
      BY Peel
    <2>2. 1..j \in SUBSET (1..n)
      OBVIOUS
    <2>3. iter[1..j] = SplitPiece(iter[1..(j - 1)], text[j])
      <3> HIDE DEF n, base
      <3> QED
        BY <1>6, <2>1, <2>2
    <2> QED
      BY <2>3
  <1>10. acc \in [0..n -> A]
    <2> DEFINE T == {j \in 0..n : acc[j] \in A}
    <2> HIDE DEF acc, next, Eq, A, base
    <2>1. 0 \in T
      BY <1>1, <1>8
    <2>2. ASSUME NEW j \in 1..n, j - 1 \in T PROVE j \in T
      <3>1. acc[j] = SplitPiece(acc[j - 1], text[j]) /\ text[j] \in Text
        BY <1>1, <1>9
      <3>2. acc[j] \in A
        BY <2>2, <3>1, SplitPieceType DEF A
      <3> QED
        BY <3>2
    <2>3. \A j \in 0..n : j \in T
      <3> HIDE DEF T, n
      <3> QED
        BY <1>1, <2>1, <2>2, UpTo
    <2> QED
      BY <2>3 DEF acc
  <1>11. acc[n] = Split(rest, text)
    BY <1>1, <1>7
  <1> HIDE DEF acc
  <1> QED
    BY <1>8, <1>9, <1>10, <1>11 DEF SplitRun

\* The outcome of a split.
LEMMA SplitType ==
  ASSUME NEW rest \in Seq(Text), NEW text \in Seq(Text)
  PROVE  Split(rest, text).lines \in Seq(Seq(Text)) /\ Split(rest, text).rest \in Seq(Text)
  <1>1. PICK acc : SplitRun(acc, rest, text)
    BY SplitSteps
  <1>2. Len(text) \in 0..Len(text)
    OBVIOUS
  <1>3. Split(rest, text) \in [lines : Seq(Seq(Text)), rest : Seq(Text)]
    BY <1>1, <1>2 DEF SplitRun
  <1> QED
    BY <1>3

\* A single line.
LEMMA OneLine ==
  ASSUME NEW lines \in Seq(Seq(Text)), NEW line \in Seq(Text)
  PROVE  /\ <<line>> \in Seq(Seq(Text))
         /\ PiecesIn(<<line>>) = Range(PiecesOf(line))
         /\ Rising(line) => InOrder(<<line>>)
         /\ Append(lines, line) = lines \o <<line>>
  <1>1. DOMAIN <<line>> = {1} /\ <<line>>[1] = line
    OBVIOUS
  <1>2. PiecesIn(<<line>>) = Range(PiecesOf(line))
    BY <1>1 DEF PiecesIn
  <1>3. ASSUME Rising(line) PROVE InOrder(<<line>>)
    <2> SUFFICES ASSUME NEW i \in {1}, NEW j \in {1}, NEW k \in DOMAIN line, NEW l \in DOMAIN line,
                        i < j \/ (i = j /\ k < l)
                 PROVE  line[k].piece < line[l].piece
      BY <1>1 DEF InOrder
    <2>1. k < l
      OBVIOUS
    <2> QED
      BY <1>3, <2>1 DEF Rising
  <1> QED
    BY <1>2, <1>3

\* Lines after lines.
LEMMA InOrderConcat ==
  ASSUME NEW lines \in Seq(Seq(Text)), NEW more \in Seq(Seq(Text)),
         InOrder(lines), InOrder(more),
         \A p \in PiecesIn(lines), q \in PiecesIn(more) : p < q
  PROVE  InOrder(lines \o more)
  <1> DEFINE all == lines \o more
             n == Len(lines)
             m == Len(more)
  <1>1. /\ all \in Seq(Seq(Text)) /\ Len(all) = n + m
        /\ \A i \in 1..n : all[i] = lines[i]
        /\ \A i \in 1..m : all[n + i] = more[i]
        /\ n \in Nat /\ m \in Nat
        /\ DOMAIN all = 1..(n + m) /\ DOMAIN lines = 1..n /\ DOMAIN more = 1..m
    OBVIOUS
  <1>2. /\ \A i \in 1..n : lines[i] \in Seq(Text) /\ DOMAIN lines[i] = 1..Len(lines[i])
        /\ \A i \in 1..m : more[i] \in Seq(Text) /\ DOMAIN more[i] = 1..Len(more[i])
    OBVIOUS
  <1>3. /\ \A i \in 1..n : \A k \in DOMAIN lines[i] : lines[i][k].piece \in PiecesIn(lines)
        /\ \A i \in 1..m : \A k \in DOMAIN more[i] : more[i][k].piece \in PiecesIn(more)
    <2> HIDE DEF n, m
    <2>1. /\ \A i \in 1..Len(lines) : \A k \in 1..Len(lines[i]) : lines[i][k].piece \in PiecesIn(lines)
          /\ \A i \in 1..Len(more) : \A k \in 1..Len(more[i]) : more[i][k].piece \in PiecesIn(more)
      BY LinePieces
    <2> QED
      BY <1>2, <2>1 DEF n, m
  <1> HIDE DEF all, n, m
  <1> SUFFICES ASSUME NEW i \in 1..(n + m), NEW j \in 1..(n + m),
                      NEW k \in DOMAIN all[i], NEW l \in DOMAIN all[j],
                      i < j \/ (i = j /\ k < l)
               PROVE  all[i][k].piece < all[j][l].piece
    BY <1>1 DEF InOrder, all
  <1>4. CASE j <= n
    <2>1. i \in 1..n /\ j \in 1..n
      BY <1>1, <1>4
    <2>2. all[i] = lines[i] /\ all[j] = lines[j]
      BY <1>1, <2>1
    <2>3. k \in DOMAIN lines[i] /\ l \in DOMAIN lines[j] /\ i \in DOMAIN lines /\ j \in DOMAIN lines
      BY <1>1, <2>1, <2>2
    <2>4. lines[i][k].piece < lines[j][l].piece
      BY <2>3 DEF InOrder
    <2> QED
      BY <2>2, <2>4
  <1>5. CASE i <= n /\ j > n
    <2>1. i \in 1..n /\ j - n \in 1..m /\ n + (j - n) = j
      BY <1>1, <1>5
    <2>2. all[i] = lines[i] /\ all[j] = more[j - n]
      BY <1>1, <2>1
    <2>3. all[i][k].piece \in PiecesIn(lines) /\ all[j][l].piece \in PiecesIn(more)
      BY <1>3, <2>1, <2>2
    <2> QED
      BY <2>3
  <1>6. CASE i > n /\ j > n
    <2>1. i - n \in 1..m /\ j - n \in 1..m /\ n + (i - n) = i /\ n + (j - n) = j
      BY <1>1, <1>6
    <2>2. all[i] = more[i - n] /\ all[j] = more[j - n]
      BY <1>1, <2>1
    <2>3. k \in DOMAIN more[i - n] /\ l \in DOMAIN more[j - n] /\ i - n \in DOMAIN more /\ j - n \in DOMAIN more
      BY <1>1, <2>1, <2>2
    <2>4. i - n < j - n \/ (i - n = j - n /\ k < l)
      BY <1>1
    <2>5. more[i - n][k].piece < more[j - n][l].piece
      BY <2>3, <2>4 DEF InOrder
    <2> QED
      BY <2>2, <2>5
  <1> QED
    BY <1>1, <1>4, <1>5, <1>6

\* A piece after a text.
LEMMA RisingAppend ==
  ASSUME NEW text \in Seq(Text), NEW c \in Text, Rising(text),
         \A p \in Range(PiecesOf(text)) : p < c.piece
  PROVE  Rising(Append(text, c))
  <1> DEFINE longer == Append(text, c)
             n == Len(text)
  <1>1. /\ DOMAIN longer = 1..(n + 1) /\ DOMAIN text = 1..n /\ n \in Nat
        /\ \A k \in 1..n : longer[k] = text[k]
        /\ longer[n + 1] = c
    OBVIOUS
  <1>2. \A k \in 1..n : text[k].piece < c.piece
    BY TextPieces
  <1> HIDE DEF longer, n
  <1> SUFFICES ASSUME NEW k \in 1..(n + 1), NEW l \in 1..(n + 1), k < l
               PROVE  longer[k].piece < longer[l].piece
    BY <1>1 DEF Rising, longer
  <1>3. k \in 1..n
    BY <1>1
  <1>4. CASE l \in 1..n
    BY <1>1, <1>3, <1>4 DEF Rising
  <1>5. CASE l = n + 1
    BY <1>1, <1>2, <1>3, <1>5
  <1> QED
    BY <1>1, <1>4, <1>5

\* One piece more: none is lost.
LEMMA SplitPieceKeeps ==
  ASSUME NEW acc \in [lines : Seq(Seq(Text)), rest : Seq(Text)], NEW c \in Text
  PROVE  PiecesIn(SplitPiece(acc, c).lines) \union Range(PiecesOf(SplitPiece(acc, c).rest))
           = PiecesIn(acc.lines) \union Range(PiecesOf(acc.rest)) \union {c.piece}
  <1>1. acc.lines \in Seq(Seq(Text)) /\ acc.rest \in Seq(Text)
    OBVIOUS
  <1> DEFINE line == Append(acc.rest, c)
  <1>2. line \in Seq(Text)
    BY <1>1
  <1>3. Range(PiecesOf(line)) = Range(PiecesOf(acc.rest)) \union {c.piece}
    BY <1>1, TextAppend
  <1> HIDE DEF line
  <1>4. PiecesIn(Append(acc.lines, line)) = PiecesIn(acc.lines) \union Range(PiecesOf(line))
    BY <1>1, <1>2, OneLine, LinesConcat
  <1>5. CASE EndsLine(c.piece)
    <2>1. SplitPiece(acc, c) = [lines |-> Append(acc.lines, line), rest |-> <<>>]
      BY <1>5 DEF SplitPiece, line
    <2> QED
      BY <2>1, <1>3, <1>4, NoPieces
  <1>6. CASE ~EndsLine(c.piece)
    <2>1. SplitPiece(acc, c) = [lines |-> acc.lines, rest |-> line]
      BY <1>6 DEF SplitPiece, line
    <2> QED
      BY <2>1, <1>3
  <1> QED
    BY <1>5, <1>6

\* One piece more, after all others: the order is kept.
LEMMA SplitPieceSorted ==
  ASSUME NEW acc \in [lines : Seq(Seq(Text)), rest : Seq(Text)], NEW c \in Text,
         Sorted(acc.lines, acc.rest),
         \A p \in PiecesIn(acc.lines) \union Range(PiecesOf(acc.rest)) : p < c.piece
  PROVE  Sorted(SplitPiece(acc, c).lines, SplitPiece(acc, c).rest)
  <1>1. acc.lines \in Seq(Seq(Text)) /\ acc.rest \in Seq(Text)
    OBVIOUS
  <1> DEFINE line == Append(acc.rest, c)
  <1>2. line \in Seq(Text) /\ Range(PiecesOf(line)) = Range(PiecesOf(acc.rest)) \union {c.piece}
    BY <1>1, TextAppend
  <1>3. Rising(line)
    BY <1>1, RisingAppend DEF Sorted
  <1>4. \A p \in PiecesIn(acc.lines), q \in Range(PiecesOf(line)) : p < q
    BY <1>2 DEF Sorted
  <1> HIDE DEF line
  <1>5. CASE EndsLine(c.piece)
    <2>1. SplitPiece(acc, c) = [lines |-> Append(acc.lines, line), rest |-> <<>>]
      BY <1>5 DEF SplitPiece, line
    <2>2. InOrder(acc.lines \o <<line>>)
      BY <1>1, <1>2, <1>3, <1>4, OneLine, InOrderConcat DEF Sorted
    <2>3. InOrder(Append(acc.lines, line))
      BY <1>1, <1>2, <2>2, OneLine
    <2>4. Rising(<<>>)
      BY DEF Rising
    <2> QED
      BY <2>1, <2>3, <2>4, NoPieces DEF Sorted
  <1>6. CASE ~EndsLine(c.piece)
    <2>1. SplitPiece(acc, c) = [lines |-> acc.lines, rest |-> line]
      BY <1>6 DEF SplitPiece, line
    <2> QED
      BY <2>1, <1>3, <1>4 DEF Sorted
  <1> QED
    BY <1>5, <1>6

\* What split has been given up to the j-th piece.
Given(rest, text, j) == Range(PiecesOf(rest)) \union {text[k].piece : k \in 1..j}

\* After each piece, everything that was given is still there.
LEMMA SplitRunKeeps ==
  ASSUME NEW rest \in Seq(Text), NEW text \in Seq(Text), NEW acc, SplitRun(acc, rest, text)
  PROVE  \A j \in 0..Len(text) :
           PiecesIn(acc[j].lines) \union Range(PiecesOf(acc[j].rest)) = Given(rest, text, j)
  <1> DEFINE n == Len(text)
             Kept(j) == PiecesIn(acc[j].lines) \union Range(PiecesOf(acc[j].rest))
             T == {j \in 0..n : Kept(j) = Given(rest, text, j)}
  <1>1. /\ acc \in [0..n -> [lines : Seq(Seq(Text)), rest : Seq(Text)]]
        /\ acc[0] = [lines |-> <<>>, rest |-> rest]
        /\ \A j \in 1..n : acc[j] = SplitPiece(acc[j - 1], text[j])
        /\ n \in Nat /\ \A j \in 1..n : text[j] \in Text
    BY DEF SplitRun
  <1>2. 0 \in T
    BY <1>1, NoPieces DEF Given
  <1>3. ASSUME NEW j \in 1..n, j - 1 \in T PROVE j \in T
    <2>1. j - 1 \in 0..n /\ 1..j = 1..(j - 1) \union {j}
      BY <1>1
    <2>2. acc[j] = SplitPiece(acc[j - 1], text[j])
          /\ acc[j - 1] \in [lines : Seq(Seq(Text)), rest : Seq(Text)] /\ text[j] \in Text
      BY <1>1, <2>1
    <2>3. Kept(j) = Kept(j - 1) \union {text[j].piece}
      BY <2>2, SplitPieceKeeps
    <2>4. Given(rest, text, j) = Given(rest, text, j - 1) \union {text[j].piece}
      BY <2>1 DEF Given
    <2> QED
      BY <1>3, <2>3, <2>4
  <1> HIDE DEF T, n
  <1>4. \A j \in 0..n : j \in T
    BY <1>1, <1>2, <1>3, UpTo
  <1> QED
    BY <1>4 DEF T, n

\* Everything given to a split.
LEMMA AllGiven ==
  ASSUME NEW rest \in Seq(Text), NEW text \in Seq(Text)
  PROVE  Given(rest, text, Len(text)) = Range(PiecesOf(rest)) \union Range(PiecesOf(text))
  BY TextPieces DEF Given

\* split loses nothing (live.py 89-90).
LEMMA SplitKeeps ==
  ASSUME NEW rest \in Seq(Text), NEW text \in Seq(Text)
  PROVE  PiecesIn(Split(rest, text).lines) \union Range(PiecesOf(Split(rest, text).rest))
           = Range(PiecesOf(rest)) \union Range(PiecesOf(text))
  <1>1. PICK acc : SplitRun(acc, rest, text)
    BY SplitSteps
  <1>2. Len(text) \in 0..Len(text) /\ Split(rest, text) = acc[Len(text)]
    BY <1>1 DEF SplitRun
  <1> QED
    BY <1>1, <1>2, SplitRunKeeps, AllGiven

\* split keeps the order (live.py 89-90).
LEMMA SplitSorted ==
  ASSUME NEW rest \in Seq(Text), NEW text \in Seq(Text), Rising(rest), Rising(text),
         \A p \in Range(PiecesOf(rest)), q \in Range(PiecesOf(text)) : p < q
  PROVE  Sorted(Split(rest, text).lines, Split(rest, text).rest)
  <1>0. PICK acc : SplitRun(acc, rest, text)
    BY SplitSteps
  <1> DEFINE n == Len(text)
             U == {j \in 0..n : Sorted(acc[j].lines, acc[j].rest)}
  <1>1. /\ acc \in [0..n -> [lines : Seq(Seq(Text)), rest : Seq(Text)]]
        /\ acc[0] = [lines |-> <<>>, rest |-> rest]
        /\ \A j \in 1..n : acc[j] = SplitPiece(acc[j - 1], text[j])
        /\ Split(rest, text) = acc[n]
        /\ n \in Nat /\ DOMAIN text = 1..n /\ \A j \in 1..n : text[j] \in Text
    BY <1>0 DEF SplitRun
  <1>2. 0 \in U
    <2>1. InOrder(<<>>)
      BY DEF InOrder
    <2> QED
      BY <1>1, <2>1, NoPieces DEF Sorted
  <1>3. ASSUME NEW j \in 1..n, j - 1 \in U PROVE j \in U
    <2>1. j - 1 \in 0..n /\ \A k \in 1..(j - 1) : k \in 1..n /\ k < j
      BY <1>1
    <2>2. acc[j] = SplitPiece(acc[j - 1], text[j])
          /\ acc[j - 1] \in [lines : Seq(Seq(Text)), rest : Seq(Text)] /\ text[j] \in Text
      BY <1>1, <2>1
    <2>3. \A p \in Given(rest, text, j - 1) : p < text[j].piece
      <3>1. text[j].piece \in Range(PiecesOf(text))
        BY TextPieces
      <3>2. \A k \in 1..(j - 1) : text[k].piece < text[j].piece
        BY <1>1, <2>1 DEF Rising
      <3> QED
        BY <3>1, <3>2 DEF Given
    <2>4. \A p \in PiecesIn(acc[j - 1].lines) \union Range(PiecesOf(acc[j - 1].rest)) :
            p < text[j].piece
      <3>1. PiecesIn(acc[j - 1].lines) \union Range(PiecesOf(acc[j - 1].rest))
              = Given(rest, text, j - 1)
        BY <1>0, <2>1, SplitRunKeeps
      <3> QED
        BY <2>3, <3>1
    <2>5. Sorted(SplitPiece(acc[j - 1], text[j]).lines, SplitPiece(acc[j - 1], text[j]).rest)
      BY <1>3, <2>2, <2>4, SplitPieceSorted
    <2> QED
      BY <2>2, <2>5
  <1> HIDE DEF U, n
  <1>4. \A j \in 0..n : j \in U
    BY <1>1, <1>2, <1>3, UpTo
  <1>5. n \in 0..n
    BY <1>1
  <1> QED
    BY <1>1, <1>4, <1>5 DEF U

\* The pieces of a file: odd ones start a line, even ones end it.
LEMMA Halves ==
  ASSUME NEW s \in Seq(Pieces), LogFile(s), NEW k \in 1..Len(s)
  PROVE  /\ s[k] \in Pieces
         /\ k % 2 = 0 => s[k] % 2 = 0
         /\ k % 2 = 1 => s[k] % 2 = 1
         /\ k > 1 => s[k] = s[k - 1] + 1
  <1>1. s[1] \in Nat /\ s[1] % 2 = 1 /\ s[k] = s[1] + (k - 1)
    BY BoundsAssumption DEF LogFile, Pieces
  <1>2. k > 1 => s[k - 1] = s[1] + ((k - 1) - 1)
    BY DEF LogFile
  <1> QED
    BY <1>1, <1>2

\* Even and odd.
LEMMA Parity ==
  ASSUME NEW n \in Nat
  PROVE  /\ n % 2 = 0 \/ n % 2 = 1
         /\ n % 2 = 0 => (n + 1) % 2 = 1
         /\ n % 2 = 1 => (n + 1) % 2 = 0
  OBVIOUS

\* A text of two pieces.
LEMMA Two ==
  ASSUME NEW r \in Text, NEW c \in Text
  PROVE  Append(<<r>>, c) = <<r, c>>
  <1>1. /\ Append(<<r>>, c) \in Seq(Text) /\ Len(Append(<<r>>, c)) = 2
        /\ Append(<<r>>, c)[1] = r /\ Append(<<r>>, c)[2] = c
    OBVIOUS
  <1>2. /\ <<r, c>> \in Seq(Text) /\ Len(<<r, c>>) = 2
        /\ <<r, c>>[1] = r /\ <<r, c>>[2] = c
    OBVIOUS
  <1>3. \A k \in 1..2 : k = 1 \/ k = 2
    OBVIOUS
  <1> QED
    BY <1>1, <1>2, <1>3, SeqEqual

\* Two halves make a line.
LEMMA TwoHalves ==
  ASSUME NEW r \in Text, NEW c \in Text, Sound(r), Sound(c),
         c.piece % 2 = 0, c.piece = r.piece + 1
  PROVE  Whole(<<r, c>>)
  <1>1. r.piece \in Nat /\ c.piece \in Nat /\ c.piece \in 1..(2 * MaxLines) /\ MaxLines \in Nat
    BY BoundsAssumption DEF Text, Pieces
  <1>2. PICK l \in Lines : c.piece = 2 * l /\ r.piece = 2 * l - 1
    <2>1. c.piece = 2 * (c.piece \div 2) /\ c.piece \div 2 \in 1..MaxLines
      BY <1>1
    <2> QED
      BY <1>1, <2>1 DEF Lines
  <1>3. PiecesOf(<<r, c>>) = <<2 * l - 1, 2 * l>>
    BY <1>2 DEF PiecesOf
  <1>4. LineOf(c.piece) = l /\ LineOf(r.piece) = l
    BY <1>2 DEF LineOf, Lines
  <1> QED
    BY <1>3, <1>4 DEF Whole, Sound

\* One piece more of a file: lines stay whole.
LEMMA SplitPieceWhole ==
  ASSUME NEW acc \in [lines : Seq(Seq(Text)), rest : Seq(Text)], NEW c \in Text,
         NEW s \in Seq(Pieces), LogFile(s), NEW o \in 0..(Len(s) - 1),
         HalfLine(acc.rest, s, o), c.piece = s[o + 1], Sound(c),
         \A i \in 1..Len(acc.lines) : Whole(acc.lines[i])
  PROVE  /\ HalfLine(SplitPiece(acc, c).rest, s, o + 1)
         /\ \A i \in 1..Len(SplitPiece(acc, c).lines) : Whole(SplitPiece(acc, c).lines[i])
  <1>1. acc.lines \in Seq(Seq(Text)) /\ acc.rest \in Seq(Text) /\ o + 1 \in 1..Len(s) /\ o \in Nat
    OBVIOUS
  <1>2. CASE o % 2 = 0
    <2>1. (o + 1) % 2 = 1 /\ (o + 1) % 2 # 0
      BY <1>1, <1>2, Parity
    <2>2. ~EndsLine(c.piece)
      BY <1>1, <2>1, Halves DEF EndsLine
    <2>3. SplitPiece(acc, c) = [lines |-> acc.lines, rest |-> <<c>>]
      <3>1. Append(<<>>, c) = <<c>>
        OBVIOUS
      <3> QED
        BY <1>2, <2>2, <3>1 DEF SplitPiece, HalfLine
    <2> QED
      BY <2>1, <2>3 DEF HalfLine
  <1>3. CASE o % 2 = 1
    <2>1. (o + 1) % 2 = 0 /\ (o + 1) % 2 # 1 /\ o + 1 > 1 /\ (o + 1) - 1 = o
      <3>1. (o + 1) % 2 = 0
        BY <1>1, <1>3, Parity
      <3>2. o # 0
        BY <1>3
      <3> QED
        BY <1>1, <3>1, <3>2
    <2>2. EndsLine(c.piece) /\ c.piece = s[o] + 1
      BY <1>1, <2>1, Halves DEF EndsLine
    <2>3. PICK r \in Text : acc.rest = <<r>> /\ r.piece = s[o] /\ Sound(r)
      <3>1. Len(acc.rest) = 1 /\ acc.rest[1].piece = s[o] /\ Sound(acc.rest[1])
        BY <1>3 DEF HalfLine
      <3>2. acc.rest[1] \in Text /\ acc.rest = <<acc.rest[1]>>
        BY <1>1, <3>1
      <3> QED
        BY <3>1, <3>2
    <2>4. Whole(<<r, c>>)
      BY <2>2, <2>3, TwoHalves DEF EndsLine
    <2>5. SplitPiece(acc, c) = [lines |-> Append(acc.lines, <<r, c>>), rest |-> <<>>]
      <3>1. Append(<<r>>, c) = <<r, c>>
        BY Two
      <3> QED
        BY <2>2, <2>3, <3>1 DEF SplitPiece
    <2>6. \A i \in 1..Len(Append(acc.lines, <<r, c>>)) : Whole(Append(acc.lines, <<r, c>>)[i])
      <3> DEFINE line == <<r, c>>
      <3> HIDE DEF line
      <3>1. \A i \in 1..Len(Append(acc.lines, line)) : Whole(Append(acc.lines, line)[i])
        BY <1>1, <2>4 DEF line
      <3> QED
        BY <3>1 DEF line
    <2>7. HalfLine(<<>>, s, o + 1)
      BY <2>1 DEF HalfLine
    <2>8. SplitPiece(acc, c).rest = <<>> /\ SplitPiece(acc, c).lines = Append(acc.lines, <<r, c>>)
      BY <2>5
    <2> QED
      BY <2>6, <2>7, <2>8
  <1> QED
    BY <1>1, <1>2, <1>3

\* What is read of a file from o on.
ReadFrom(s, o, text) ==
  /\ Len(text) = Len(s) - o
  /\ \A k \in 1..Len(text) : text[k].piece = s[o + k] /\ Sound(text[k])

\* The lines split off a file are whole (live.py 67-70, 89-90).
LEMMA SplitWhole ==
  ASSUME NEW rest \in Seq(Text), NEW text \in Seq(Text), NEW s \in Seq(Pieces), LogFile(s),
         NEW o \in 0..Len(s), HalfLine(rest, s, o), ReadFrom(s, o, text)
  PROVE  /\ HalfLine(Split(rest, text).rest, s, Len(s))
         /\ \A i \in 1..Len(Split(rest, text).lines) : Whole(Split(rest, text).lines[i])
  <1>0. PICK acc : SplitRun(acc, rest, text)
    BY SplitSteps
  <1> DEFINE n == Len(text)
             T == {j \in 0..n : /\ HalfLine(acc[j].rest, s, o + j)
                                /\ \A i \in 1..Len(acc[j].lines) : Whole(acc[j].lines[i])}
  <1>1. /\ acc \in [0..n -> [lines : Seq(Seq(Text)), rest : Seq(Text)]]
        /\ acc[0] = [lines |-> <<>>, rest |-> rest]
        /\ \A j \in 1..n : acc[j] = SplitPiece(acc[j - 1], text[j])
        /\ Split(rest, text) = acc[n]
        /\ n \in Nat /\ DOMAIN text = 1..n /\ \A j \in 1..n : text[j] \in Text
    BY <1>0 DEF SplitRun
  <1>2. 0 \in T
    BY <1>1
  <1>3. ASSUME NEW j \in 1..n, j - 1 \in T PROVE j \in T
    <2>1. j - 1 \in 0..n /\ o + (j - 1) \in 0..(Len(s) - 1) /\ (o + (j - 1)) + 1 = o + j
      BY <1>1 DEF ReadFrom
    <2>2. acc[j] = SplitPiece(acc[j - 1], text[j])
          /\ acc[j - 1] \in [lines : Seq(Seq(Text)), rest : Seq(Text)] /\ text[j] \in Text
      BY <1>1, <2>1
    <2>3. text[j].piece = s[(o + (j - 1)) + 1] /\ Sound(text[j])
      BY <2>1 DEF ReadFrom
    <2>4. /\ HalfLine(SplitPiece(acc[j - 1], text[j]).rest, s, (o + (j - 1)) + 1)
          /\ \A i \in 1..Len(SplitPiece(acc[j - 1], text[j]).lines) :
               Whole(SplitPiece(acc[j - 1], text[j]).lines[i])
      BY <1>3, <2>1, <2>2, <2>3, SplitPieceWhole
    <2> QED
      BY <2>1, <2>2, <2>4
  <1>4. n \in 0..n /\ o + n = Len(s)
    BY <1>1 DEF ReadFrom
  <1> HIDE DEF T, n
  <1>5. \A j \in 0..n : j \in T
    BY <1>1, <1>2, <1>3, UpTo
  <1> QED
    BY <1>1, <1>4, <1>5 DEF T

\* Decoding keeps the pieces and damages only half characters (live.py 87).
LEMMA DecodeText ==
  ASSUME NEW chunk \in Seq(Pieces)
  PROVE  /\ Decode(chunk) \in Seq(Text) /\ Len(Decode(chunk)) = Len(chunk)
         /\ \A k \in 1..Len(chunk) : Decode(chunk)[k].piece = chunk[k] /\ Sound(Decode(chunk)[k])
  <1>1. DOMAIN chunk = 1..Len(chunk) /\ Len(chunk) \in Nat /\ DOMAIN Decode(chunk) = 1..Len(chunk)
    BY DEF Decode
  <1>2. ASSUME NEW k \in 1..Len(chunk)
        PROVE  /\ Decode(chunk)[k] \in Text
               /\ Decode(chunk)[k].piece = chunk[k] /\ Sound(Decode(chunk)[k])
    <2>1. PICK b \in BOOLEAN :
            /\ Decode(chunk)[k] = [piece |-> chunk[k], intact |-> b]
            /\ LineOf(chunk[k]) \notin MultiByte => b
      BY <1>1, Zenon DEF Decode
    <2>2. chunk[k] \in Pieces
      OBVIOUS
    <2> QED
      BY <2>1, <2>2 DEF Text, Sound
  <1>3. Decode(chunk) \in [1..Len(chunk) -> Text]
    <2>1. Decode(chunk) = [k \in 1..Len(chunk) |-> Decode(chunk)[k]]
      BY <1>1 DEF Decode
    <2> QED
      BY <2>1, <1>2
  <1>4. Decode(chunk) \in Seq(Text) /\ Len(Decode(chunk)) = Len(chunk)
    BY <1>1, <1>3, IsSeq
  <1> QED
    BY <1>2, <1>4

\* The rest of a file: nothing, when the offset lies past its end.
LEMMA Chunk ==
  ASSUME NEW s \in Seq(Pieces), NEW o \in Nat
  PROVE  /\ SubSeq(s, o + 1, Len(s)) \in Seq(Pieces)
         /\ o <= Len(s) => /\ Len(SubSeq(s, o + 1, Len(s))) = Len(s) - o
                           /\ \A k \in 1..(Len(s) - o) : SubSeq(s, o + 1, Len(s))[k] = s[o + k]
         /\ o > Len(s) => SubSeq(s, o + 1, Len(s)) = <<>>
  <1>1. Len(s) \in Nat
    OBVIOUS
  <1>2. CASE o <= Len(s)
    <2>1. o \in 0..Len(s)
      BY <1>1, <1>2
    <2> QED
      BY <1>1, <1>2, <2>1, Cut
  <1>3. CASE o > Len(s)
    <2>1. SubSeq(s, o + 1, Len(s)) = <<>>
      BY <1>1, <1>3
    <2> QED
      BY <1>1, <1>3, <2>1
  <1> QED
    BY <1>1, <1>2, <1>3

\* A file rises, up to the last piece written.
LEMMA LogFileRises ==
  ASSUME NEW s \in Seq(Pieces), LogFile(s), w \in Nat
  PROVE  /\ Len(s) <= w
         /\ \A k \in 1..Len(s) : s[k] \in Nat /\ s[k] <= w
         /\ \A k, l \in 1..Len(s) : k < l => s[k] < s[l]
  <1>1. \A k \in 1..Len(s) : s[k] \in Nat /\ s[k] >= 1 /\ s[k] = s[1] + (k - 1)
    BY BoundsAssumption DEF LogFile, Pieces
  <1>2. Len(s) \in Nat
    OBVIOUS
  <1>3. CASE s = <<>>
    BY <1>3
  <1>4. CASE s # <<>>
    <2>1. Len(s) \in 1..Len(s) /\ 1 \in 1..Len(s) /\ s[Len(s)] <= w
      BY <1>2, <1>4 DEF LogFile
    <2> QED
      BY <1>1, <1>2, <2>1
  <1> QED
    BY <1>3, <1>4

\* What one read hands over and keeps.
NewText == Decode(SubSeq(data[path], offset + 1, Len(data[path])))
NewLines == Split(partial, NewText).lines

\* The effect of PollRead.
LEMMA ReadEffect ==
  ASSUME TypeOK, PollRead
  PROVE  /\ path \in Inodes /\ data[path] \in Seq(Pieces)
         /\ NewText \in Seq(Text) /\ NewLines \in Seq(Seq(Text))
         /\ handed' = handed \o NewLines
         /\ partial' = Split(partial, NewText).rest /\ partial' \in Seq(Text)
         /\ offset <= Len(data[path]) => ReadFrom(data[path], offset, NewText)
         /\ offset > Len(data[path]) => NewText = <<>>
         /\ offset' = IF offset <= Len(data[path]) THEN Len(data[path]) ELSE offset
         /\ pc = "read" /\ pc' = "idle"
         /\ UNCHANGED <<data, path, writer, archived, w, faults, happened, inode, skipped>>
  <1> DEFINE chunk == SubSeq(data[path], offset + 1, Len(data[path]))
  <1>1. path \in Inodes /\ data[path] \in Seq(Pieces) /\ partial \in Seq(Text) /\ offset \in Nat
    BY BoundsAssumption DEF TypeOK, PollRead
  <1>2. /\ chunk \in Seq(Pieces)
        /\ offset <= Len(data[path]) =>
             /\ Len(chunk) = Len(data[path]) - offset
             /\ \A k \in 1..(Len(data[path]) - offset) : chunk[k] = data[path][offset + k]
        /\ offset > Len(data[path]) => chunk = <<>>
    BY <1>1, Chunk
  <1>3. /\ NewText = Decode(chunk)
        /\ offset' = offset + Len(chunk)
        /\ partial' = Split(partial, NewText).rest
        /\ handed' = handed \o NewLines
        /\ pc = "read" /\ pc' = "idle"
        /\ UNCHANGED <<data, path, writer, archived, w, faults, happened, inode, skipped>>
    BY DEF PollRead, NewText, NewLines, env
  <1> HIDE DEF chunk
  <1>4. /\ NewText \in Seq(Text) /\ Len(NewText) = Len(chunk)
        /\ \A k \in 1..Len(chunk) : NewText[k].piece = chunk[k] /\ Sound(NewText[k])
    BY <1>2, <1>3, DecodeText
  <1>5. NewLines \in Seq(Seq(Text)) /\ partial' \in Seq(Text)
    BY <1>1, <1>3, <1>4, SplitType DEF NewLines
  <1>6. Len(data[path]) \in Nat
    BY <1>1
  <1>7. offset <= Len(data[path]) => ReadFrom(data[path], offset, NewText)
    BY <1>2, <1>4 DEF ReadFrom
  <1>8. offset > Len(data[path]) => NewText = <<>> /\ Len(chunk) = 0
    <2> SUFFICES ASSUME offset > Len(data[path]) PROVE NewText = <<>> /\ Len(chunk) = 0
      OBVIOUS
    <2>1. Len(chunk) = 0
      BY <1>2
    <2> QED
      BY <1>4, <2>1, EmptySeq
  <1>9. offset' = IF offset <= Len(data[path]) THEN Len(data[path]) ELSE offset
    BY <1>1, <1>2, <1>3, <1>6, <1>8
  <1> QED
    BY <1>1, <1>3, <1>4, <1>5, <1>7, <1>8, <1>9

-----------------------------------------------------------------------------
(* Types. *)

\* The service and the rotation.
LEMMA TypeEnvironment ==
  ASSUME TypeOK, Environment
  PROVE  TypeOK'
  <1>1. CASE Append1
    <2>1. UNCHANGED <<path, writer, archived, faults, happened, tail>>
      BY <1>1 DEF Append1
    <2>2. w' \in 0..(2 * MaxLines) /\ w + 1 \in Pieces
      BY <1>1, BoundsAssumption DEF Append1, TypeOK, Pieces
    <2>3. data' \in [Inodes -> Seq(Pieces)]
      BY <1>1, <2>2 DEF Append1, TypeOK
    <2> QED
      BY <2>1, <2>2, <2>3 DEF TypeOK, tail
  <1>2. CASE \E i \in Inodes : Create(i)
    <2>1. UNCHANGED <<writer, archived, w, faults, tail>>
      BY <1>2 DEF Create
    <2>2. data' \in [Inodes -> Seq(Pieces)] /\ path' \in Inodes
      BY <1>2 DEF Create, TypeOK
    <2>3. happened' \subseteq AllFaults
      BY <1>2 DEF Create, TypeOK, MidCall, AllFaults
    <2> QED
      BY <2>1, <2>2, <2>3 DEF TypeOK, tail
  <1>3. CASE Reopen
    <2>1. UNCHANGED <<data, path, archived, w, faults, happened, tail>> /\ writer' = path
      BY <1>3 DEF Reopen
    <2> QED
      BY <2>1 DEF TypeOK, tail
  <1>4. CASE Rename \/ Unlink \/ Truncate
    <2>1. UNCHANGED <<writer, w, tail>>
      BY <1>4 DEF Rename, Unlink, Truncate
    <2>2. faults' \in 0..MaxFaults /\ path \in Inodes
      BY <1>4, BoundsAssumption DEF Rename, Unlink, Truncate, Rotation, TypeOK
    <2>3. path' \in Inodes \union {NoFile} /\ archived' \subseteq Inodes
      BY <1>4, <2>2 DEF Rename, Unlink, Truncate, TypeOK
    <2>4. data' \in [Inodes -> Seq(Pieces)]
      <3>1. data' = data \/ data' = [data EXCEPT ![path] = <<>>]
        BY <1>4 DEF Rename, Unlink, Truncate
      <3>2. <<>> \in Seq(Pieces)
        OBVIOUS
      <3> QED
        BY <3>1, <3>2 DEF TypeOK
    <2>5. happened' \subseteq AllFaults
      BY <1>4 DEF Rename, Unlink, Truncate, TypeOK, MidCall, AllFaults
    <2> QED
      BY <2>1, <2>2, <2>3, <2>4, <2>5 DEF TypeOK, tail
  <1> QED
    BY <1>1, <1>2, <1>3, <1>4 DEF Environment

\* The tailer: the offset stays within what the service writes.
LEMMA TypeTailer ==
  ASSUME TypeOK, Files, Poll \/ Begin
  PROVE  TypeOK'
  <1>1. ASSUME path # NoFile
        PROVE  /\ path \in Inodes /\ data[path] \in Seq(Pieces)
               /\ Len(data[path]) \in 0..(2 * MaxLines)
    <2>1. path \in Inodes /\ data[path] \in Seq(Pieces) /\ LogFile(data[path])
      BY <1>1 DEF TypeOK, Files
    <2>2. w \in Nat /\ w <= 2 * MaxLines
      BY BoundsAssumption DEF TypeOK
    <2>3. Len(data[path]) <= w
      BY <2>1, <2>2, LogFileRises
    <2> QED
      BY <2>1, <2>2, <2>3, BoundsAssumption
  <1>2. CASE Begin
    <2>1. CASE ConstructStat
      <3>1. UNCHANGED <<env, partial, handed>> /\ pc' = "idle" /\ path # NoFile
        BY <2>1 DEF ConstructStat
      <3>2. offset' \in 0..(2 * MaxLines) /\ inode' \in Inodes \union {NoFile}
        BY <1>1, <2>1, <3>1 DEF ConstructStat
      <3>3. Range(data[path]) \subseteq Pieces
        BY <1>1, <3>1 DEF Range
      <3>4. skipped' \subseteq Pieces
        BY <2>1, <3>3 DEF ConstructStat
      <3>5. happened' \subseteq AllFaults
        BY <2>1 DEF ConstructStat, TypeOK, AllFaults
      <3> QED
        BY <3>1, <3>2, <3>4, <3>5 DEF TypeOK, env
    <2>2. CASE ~ConstructStat
      <3>1. /\ UNCHANGED <<env, happened, offset, partial, inode, handed, skipped>>
            /\ pc' \in {"size", "idle", "dead"}
        BY <1>2, <2>2 DEF Begin, Construct, ConstructRaises
      <3> QED
        BY <3>1 DEF TypeOK, env
    <2> QED
      BY <2>1, <2>2
  <1>3. CASE PollExists \/ PollRaises
    <2>1. UNCHANGED <<env, happened, offset, partial, inode, handed, skipped>>
          /\ pc' \in {"stat", "dead"}
      BY <1>3 DEF PollExists, PollRaises
    <2> QED
      BY <2>1 DEF TypeOK, env
  <1>4. CASE PollStat
    <2>1. UNCHANGED <<env, happened, handed, skipped>> /\ inode' = path /\ path # NoFile
          /\ pc' \in {"idle", "read"}
      BY <1>4 DEF PollStat
    <2>2. offset' \in 0..(2 * MaxLines) /\ partial' \in Seq(Text)
      BY <1>4, BoundsAssumption DEF PollStat, TypeOK
    <2> QED
      BY <2>1, <2>2 DEF TypeOK, env
  <1>5. CASE PollRead
    <2>1. /\ NewLines \in Seq(Seq(Text)) /\ handed' = handed \o NewLines
          /\ partial' \in Seq(Text)
          /\ offset' = IF offset <= Len(data[path]) THEN Len(data[path]) ELSE offset
          /\ pc' = "idle"
          /\ UNCHANGED <<data, path, writer, archived, w, faults, happened, inode, skipped>>
      BY <1>5, ReadEffect
    <2>2. offset' \in 0..(2 * MaxLines)
      BY <1>1, <1>5, <2>1 DEF PollRead, TypeOK
    <2>3. handed' \in Seq(Seq(Text))
      BY <2>1, ConcatProperties DEF TypeOK
    <2> QED
      BY <2>1, <2>2, <2>3 DEF TypeOK
  <1> QED
    BY <1>2, <1>3, <1>4, <1>5 DEF Poll

-----------------------------------------------------------------------------
(* The files. *)

\* The writer's file stays consecutive.
LEMMA FilesAppend ==
  ASSUME TypeOK, Files, Append1
  PROVE  Files'
  <1> DEFINE s == data[writer]
             t == Append(s, w + 1)
  <1>1. /\ writer \in Inodes /\ w \in Nat /\ w' = w + 1
        /\ data' = [data EXCEPT ![writer] = t]
        /\ UNCHANGED <<path, writer>>
    BY BoundsAssumption DEF Append1, TypeOK
  <1>0. writer # NoFile
    BY DEF Append1
  <1>2. s \in Seq(Pieces) /\ Len(s) \in Nat /\ LogFile(s) /\ w + 1 \in Nat
    BY <1>1 DEF TypeOK, Files
  <1>3. /\ Len(t) = Len(s) + 1 /\ t # <<>>
        /\ \A k \in 1..Len(s) : t[k] = s[k]
        /\ t[Len(s) + 1] = w + 1
    BY <1>2
  <1>4. s = <<>> => w % 2 = 0
    BY <1>0 DEF Files
  <1>5. s # <<>> => s[Len(s)] = w
    BY <1>0 DEF Files
  <1>6. \A k \in 1..Len(s) : s[k] \in Nat /\ s[k] = s[1] + (k - 1)
    BY <1>2, BoundsAssumption DEF LogFile, Pieces
  <1>7. /\ data'[writer] = t
        /\ \A i \in Inodes \ {writer} : data'[i] = data[i]
    BY <1>1 DEF TypeOK
  <1> HIDE DEF s, t
  <1>8. t[1] % 2 = 1 /\ \A k \in 1..Len(t) : t[k] = t[1] + (k - 1)
    <2>1. CASE s = <<>>
      <3>1. Len(s) = 0
        BY <2>1
      <3>2. t[1] = w + 1 /\ Len(t) = 1
        BY <1>3, <3>1
      <3>3. (w + 1) % 2 = 1
        BY <1>1, <1>4, <2>1, Parity
      <3> QED
        BY <1>1, <3>2, <3>3
    <2>2. CASE s # <<>>
      <3>1. Len(s) \in 1..Len(s) /\ 1 \in 1..Len(s)
        BY <1>2, <2>2, EmptySeq
      <3>2. t[1] = s[1] /\ s[1] % 2 = 1
        BY <1>2, <1>3, <2>2, <3>1 DEF LogFile
      <3>3. w = s[1] + (Len(s) - 1) /\ s[1] \in Nat
        BY <1>5, <1>6, <2>2, <3>1
      <3>4. ASSUME NEW k \in 1..Len(t) PROVE t[k] = t[1] + (k - 1)
        <4>1. CASE k \in 1..Len(s)
          BY <1>3, <1>6, <3>2, <4>1
        <4>2. CASE k = Len(s) + 1
          BY <1>2, <1>3, <3>2, <3>3, <4>2
        <4> QED
          BY <1>2, <1>3, <4>1, <4>2
      <3> QED
        BY <3>2, <3>4
    <2> QED
      BY <2>1, <2>2
  <1>10. ASSUME NEW i \in Inodes PROVE LogFile(data[i])'
    <2>1. CASE i = writer
      BY <1>7, <1>8, <1>1, <1>3, <1>2, <2>1 DEF LogFile
    <2>2. CASE i # writer
      <3>1. data[i] \in Seq(Pieces) /\ LogFile(data[i]) /\ data'[i] = data[i]
        BY <1>7, <2>2 DEF Files, TypeOK
      <3>2. data[i] # <<>> => data[i][Len(data[i])] \in Nat
        <4>1. data[i] # <<>> => Len(data[i]) \in 1..Len(data[i])
          BY <3>1, EmptySeq
        <4> QED
          BY <3>1, <4>1, BoundsAssumption DEF Pieces
      <3> QED
        BY <1>1, <3>1, <3>2 DEF LogFile
    <2> QED
      BY <2>1, <2>2
  <1>11. data'[writer] # <<>> /\ data'[writer][Len(data'[writer])] = w'
    BY <1>1, <1>3, <1>7
  <1>12. path \notin {NoFile, writer} => data'[path] = <<>>
    BY <1>7 DEF Files, TypeOK
  <1> QED
    BY <1>1, <1>10, <1>11, <1>12 DEF Files

\* Every other step leaves the files alone or empties one.
LEMMA FilesOthers ==
  ASSUME TypeOK, Files,
         \/ \E i \in Inodes : Create(i)
         \/ Reopen \/ Rename \/ Unlink \/ Truncate
  PROVE  Files'
  <1>1. LogFile(<<>>)
    BY DEF LogFile
  <1>2. CASE \E i \in Inodes : Create(i)
    <2>1. PICK i \in Inodes : Create(i)
      BY <1>2
    <2>2. /\ UNCHANGED <<writer, w>> /\ path' = i /\ i # writer
          /\ data'[i] = <<>> /\ \A j \in Inodes \ {i} : data'[j] = data[j]
      BY <2>1 DEF Create, TypeOK, env
    <2>3. \A j \in Inodes : LogFile(data[j])'
      BY <1>1, <2>2 DEF Files, LogFile
    <2>4. writer # NoFile => data'[writer] = data[writer]
      BY <2>2 DEF TypeOK
    <2> QED
      BY <2>2, <2>3, <2>4 DEF Files
  <1>3. CASE Reopen
    <2>1. UNCHANGED <<data, path, w>> /\ writer' = path /\ path # NoFile /\ writer # path /\ w % 2 = 0
      BY <1>3 DEF Reopen
    <2>2. data[path] = <<>>
      BY <2>1 DEF Files
    <2>3. \A j \in Inodes : LogFile(data[j])'
      BY <2>1 DEF Files, LogFile
    <2> QED
      BY <2>1, <2>2, <2>3 DEF Files
  <1>4. CASE Rename \/ Unlink
    <2>1. UNCHANGED <<data, writer, w>> /\ path' = NoFile
      BY <1>4 DEF Rename, Unlink
    <2>3. \A j \in Inodes : LogFile(data[j])'
      BY <2>1 DEF Files, LogFile
    <2> QED
      BY <2>1, <2>3 DEF Files
  <1>5. CASE Truncate
    <2>1. UNCHANGED <<path, writer, w>> /\ path \in Inodes /\ w % 2 = 0
      BY <1>5 DEF Truncate, Rotation, TypeOK
    <2>2. data'[path] = <<>> /\ \A j \in Inodes \ {path} : data'[j] = data[j]
      BY <1>5, <2>1 DEF Truncate, TypeOK
    <2>3. \A j \in Inodes : LogFile(data[j])'
      BY <1>1, <2>1, <2>2 DEF Files, LogFile
    <2>4. writer # NoFile /\ writer # path => data'[writer] = data[writer]
      BY <2>2 DEF TypeOK
    <2> QED
      BY <2>1, <2>2, <2>3, <2>4 DEF Files
  <1> QED
    BY <1>2, <1>3, <1>4, <1>5

\* The tailer only reads.
LEMMA FilesTailer ==
  ASSUME Files, UNCHANGED <<data, path, writer, w>>
  PROVE  Files'
  BY DEF Files, LogFile

\* The tailer changes nothing of its environment.
LEMMA TailerReads ==
  ASSUME Poll \/ Begin
  PROVE  UNCHANGED env
  BY DEF Poll, PollExists, PollStat, PollRead, PollRaises, Begin, Construct,
         ConstructStat, ConstructRaises

\* What the service may do leaves the tailer alone.
LEMMA EnvironmentApart ==
  ASSUME Environment
  PROVE  UNCHANGED tail
  BY DEF Environment, Append1, Create, Reopen, Rename, Unlink, Truncate

-----------------------------------------------------------------------------
(* Where the tailer stands. *)

\* Inside a call every step that takes the file away is recorded.
LEMMA StandingEnvironment ==
  ASSUME TypeOK, Standing, DiesOnlyMidCall, Environment
  PROVE  Standing' /\ DiesOnlyMidCall'
  <1>1. UNCHANGED tail
    BY EnvironmentApart
  <1>2. happened \subseteq happened'
    BY DEF Environment, Append1, Create, Reopen, Rename, Unlink, Truncate
  <1>3. path' = path \/ MidCall \subseteq happened'
    BY DEF Environment, Append1, Create, Reopen, Rename, Unlink, Truncate
  <1>4. InPoll' = InPoll /\ InStart' = InStart
    BY <1>1 DEF InPoll, InStart, tail
  <1>5. /\ InPoll => MidCall = {"mid_poll"}
        /\ InStart => MidCall = {"mid_start"}
    BY DEF MidCall, InPoll, InStart
  <1>6. pc = "read" => InPoll
    BY DEF InPoll
  <1>7. Standing'
    BY <1>1, <1>2, <1>3, <1>4, <1>5, <1>6 DEF Standing, tail
  <1>8. DiesOnlyMidCall'
    BY <1>1, <1>2 DEF DiesOnlyMidCall, tail
  <1> QED
    BY <1>7, <1>8

\* The tailer enters a poll only when it sees the file, and dies in it only
\* when the file is gone.
LEMMA StandingTailer ==
  ASSUME TypeOK, Standing, DiesOnlyMidCall,
         Poll \/ Begin
  PROVE  Standing' /\ DiesOnlyMidCall'
  <1> USE DEF Standing, DiesOnlyMidCall, InPoll, InStart, env
  <1>1. CASE Begin
    <2>1. CASE \E fromStart \in Starts : Construct(fromStart)
      BY <2>1 DEF Construct
    <2>2. CASE ConstructStat
      BY <2>2 DEF ConstructStat
    <2>3. CASE ConstructRaises
      BY <2>3 DEF ConstructRaises
    <2> QED
      BY <1>1, <2>1, <2>2, <2>3 DEF Begin
  <1>2. CASE PollExists
    BY <1>2 DEF PollExists
  <1>3. CASE PollStat
    BY <1>3 DEF PollStat
  <1>4. CASE PollRead
    BY <1>4 DEF PollRead
  <1>5. CASE PollRaises
    BY <1>5 DEF PollRaises
  <1> QED
    BY <1>1, <1>2, <1>3, <1>4, <1>5 DEF Poll

-----------------------------------------------------------------------------
(* Whole lines, none skipped. *)

\* The file the tailer remembers grows at most at its end, as long as
\* nothing is disturbed.
LEMMA OnlyGrows ==
  ASSUME TypeOK, Environment, Undisturbed', inode # NoFile
  PROVE  /\ Undisturbed
         /\ Len(data'[inode]) >= Len(data[inode])
         /\ \A k \in 1..Len(data[inode]) : data'[inode][k] = data[inode][k]
  <1>1. Undisturbed
    BY DEF Undisturbed, Environment, Append1, Create, Reopen, Rename, Unlink, Truncate
  <1>2. inode \in Inodes /\ data[inode] \in Seq(Pieces) /\ Len(data[inode]) \in Nat
    BY DEF TypeOK
  <1>3. CASE Append1
    <2>1. data' = [data EXCEPT ![writer] = Append(@, w + 1)] /\ writer # NoFile
      BY <1>3 DEF Append1
    <2>2. writer \in Inodes
      BY <2>1 DEF TypeOK
    <2>3. CASE writer = inode
      <3>1. data'[inode] = Append(data[inode], w + 1)
        BY <1>2, <2>1, <2>3 DEF TypeOK
      <3>2. w + 1 \in Nat
        BY BoundsAssumption DEF TypeOK
      <3>3. Len(data'[inode]) = Len(data[inode]) + 1
        BY <1>2, <3>1
      <3>4. \A k \in 1..Len(data[inode]) : data'[inode][k] = data[inode][k]
        BY <1>2, <3>1
      <3> QED
        BY <1>1, <1>2, <3>3, <3>4
    <2>4. CASE writer # inode
      <3>1. data'[inode] = data[inode]
        BY <1>2, <2>1, <2>4 DEF TypeOK
      <3> QED
        BY <1>1, <1>2, <3>1
    <2> QED
      BY <2>3, <2>4
  <1>4. CASE \E i \in Inodes : Create(i)
    <2>1. PICK i \in Inodes : Create(i)
      BY <1>4
    <2>2. i # inode
      BY <2>1 DEF Create, Undisturbed
    <2>3. data'[inode] = data[inode]
      BY <1>2, <2>1, <2>2 DEF Create, TypeOK
    <2> QED
      BY <1>1, <1>2, <2>3
  <1>5. CASE Reopen \/ Rename \/ Unlink
    <2>1. data' = data
      BY <1>5 DEF Reopen, Rename, Unlink
    <2> QED
      BY <1>1, <1>2, <2>1
  <1>6. CASE Truncate
    BY <1>6 DEF Truncate, Undisturbed
  <1> QED
    BY <1>3, <1>4, <1>5, <1>6 DEF Environment

\* The service and the rotation.
LEMMA InStepEnvironment ==
  ASSUME TypeOK, InStep, WholeLines, Environment
  PROVE  InStep' /\ WholeLines'
  <1>1. UNCHANGED <<pc, offset, partial, inode, handed, skipped>>
    BY EnvironmentApart DEF tail
  <1>2. Undisturbed' => Undisturbed
    BY DEF Undisturbed, Environment, Append1, Create, Reopen, Rename, Unlink, Truncate
  <1>3. WholeLines'
    BY <1>1, <1>2 DEF WholeLines, Whole, PiecesOf
  <1>4. ASSUME Undisturbed', inode' # NoFile
        PROVE  /\ offset <= Len(data'[inode])
               /\ HalfLine(partial, data'[inode], offset)
               /\ \A k \in 1..offset : data'[inode][k] = data[inode][k]
    <2>1. /\ Undisturbed
          /\ Len(data'[inode]) >= Len(data[inode])
          /\ \A k \in 1..Len(data[inode]) : data'[inode][k] = data[inode][k]
      BY <1>1, <1>4, OnlyGrows
    <2>2. offset <= Len(data[inode]) /\ HalfLine(partial, data[inode], offset)
      BY <1>1, <1>4, <2>1 DEF InStep
    <2>3. offset \in Nat /\ inode \in Inodes
      BY <1>1, <1>4, BoundsAssumption DEF TypeOK
    <2>4. data[inode] \in Seq(Pieces) /\ Len(data[inode]) \in Nat /\ Len(data'[inode]) \in Nat
      <3>1. TypeOK'
        BY TypeEnvironment
      <3>2. data[inode] \in Seq(Pieces) /\ data'[inode] \in Seq(Pieces)
        BY <2>3, <3>1 DEF TypeOK
      <3> QED
        BY <3>2
    <2>5. offset % 2 = 1 => offset \in 1..Len(data[inode])
      <3>1. 0 % 2 = 0
        OBVIOUS
      <3> QED
        BY <2>2, <2>3, <2>4, <3>1
    <2>6. HalfLine(partial, data'[inode], offset)
      BY <2>1, <2>2, <2>5 DEF HalfLine
    <2>7. \A k \in 1..offset : k \in 1..Len(data[inode])
      BY <2>2, <2>3, <2>4
    <2> QED
      BY <2>1, <2>2, <2>3, <2>4, <2>6, <2>7
  <1>5. InStep'
    <2> SUFFICES ASSUME Undisturbed', inode' # NoFile
                 PROVE  /\ offset' <= Len(data'[inode'])
                        /\ HalfLine(partial', data'[inode'], offset')
                        /\ \A k \in 1..offset' :
                             data'[inode'][k] \in skipped' \union PiecesIn(handed')
                                                   \union Range(PiecesOf(partial'))
      BY DEF InStep
    <2>1. \A k \in 1..offset :
            data[inode][k] \in skipped \union PiecesIn(handed) \union Range(PiecesOf(partial))
      BY <1>1, <1>2 DEF InStep
    <2> QED
      BY <1>1, <1>4, <2>1
  <1> QED
    BY <1>3, <1>5

\* A watch that begins between two lines.
LEMMA InStepConstruct ==
  ASSUME TypeOK, Files, Standing, WholeLines, ConstructStat
  PROVE  InStep' /\ WholeLines'
  <1>1. /\ UNCHANGED <<data, path, partial, handed>>
        /\ inode = NoFile /\ partial = <<>>
    BY DEF ConstructStat, Standing, env
  <1>2. Undisturbed' => Undisturbed
    BY DEF Undisturbed, ConstructStat
  <1>3. WholeLines'
    BY <1>1, <1>2 DEF WholeLines, Whole, PiecesOf
  <1>4. ASSUME Undisturbed', inode' # NoFile
        PROVE  /\ offset' <= Len(data[path]) /\ inode' = path
               /\ HalfLine(<<>>, data[path], offset')
               /\ \A k \in 1..offset' : data[path][k] \in skipped'
    <2>1. path # NoFile
      BY DEF ConstructStat
    <2>2. /\ offset' = Len(data[path]) /\ inode' = path /\ skipped' = Range(data[path])
          /\ ~(Len(data[path]) > 0 /\ ~EndsLine(data[path][Len(data[path])]))
      <3>1. "mid_line" \notin happened'
        BY <1>4 DEF Undisturbed
      <3> QED
        BY <3>1 DEF ConstructStat
    <2>3. data[path] \in Seq(Pieces) /\ LogFile(data[path]) /\ Len(data[path]) \in Nat
      BY <2>1 DEF TypeOK, Files
    <2>4. Len(data[path]) % 2 = 0
      <3>1. CASE Len(data[path]) = 0
        BY <3>1
      <3>2. CASE Len(data[path]) # 0
        <4>1. Len(data[path]) \in 1..Len(data[path]) /\ Len(data[path]) > 0
          BY <2>3, <3>2
        <4>2. data[path][Len(data[path])] % 2 = 0
          BY <2>2, <4>1 DEF EndsLine
        <4>3. Len(data[path]) % 2 # 1
          <5> SUFFICES ASSUME Len(data[path]) % 2 = 1 PROVE FALSE
            OBVIOUS
          <5>1. data[path][Len(data[path])] % 2 = 1
            BY <2>3, <4>1, Halves
          <5> QED
            BY <4>2, <5>1
        <4> QED
          BY <2>3, <4>3, Parity
      <3> QED
        BY <3>1, <3>2
    <2>5. HalfLine(<<>>, data[path], offset')
      <3> DEFINE n == Len(data[path])
      <3>1. n % 2 # 1 /\ n % 2 = 0
        <4>1. n % 2 = 0
          BY <2>4
        <4> HIDE DEF n
        <4> QED
          BY <4>1
      <3>2. HalfLine(<<>>, data[path], n)
        <4> HIDE DEF n
        <4> QED
          BY <3>1 DEF HalfLine
      <3> QED
        BY <2>2, <3>2
    <2>6. \A k \in 1..Len(data[path]) : data[path][k] \in Range(data[path])
      BY <2>3 DEF Range
    <2> QED
      BY <2>2, <2>3, <2>5, <2>6
  <1>5. InStep'
    <2> SUFFICES ASSUME Undisturbed', inode' # NoFile
                 PROVE  /\ offset' <= Len(data'[inode'])
                        /\ HalfLine(partial', data'[inode'], offset')
                        /\ \A k \in 1..offset' :
                             data'[inode'][k] \in skipped' \union PiecesIn(handed')
                                                   \union Range(PiecesOf(partial'))
      BY DEF InStep
    <2> QED
      BY <1>1, <1>4
  <1> QED
    BY <1>3, <1>5

\* A read: it takes the file to its end.
LEMMA InStepRead ==
  ASSUME TypeOK, Files, Standing, InStep, WholeLines, PollRead
  PROVE  InStep' /\ WholeLines'
  <1>1. /\ path \in Inodes /\ data[path] \in Seq(Pieces)
        /\ NewText \in Seq(Text) /\ NewLines \in Seq(Seq(Text))
        /\ handed' = handed \o NewLines
        /\ partial' = Split(partial, NewText).rest /\ partial' \in Seq(Text)
        /\ offset <= Len(data[path]) => ReadFrom(data[path], offset, NewText)
        /\ offset' = IF offset <= Len(data[path]) THEN Len(data[path]) ELSE offset
        /\ UNCHANGED <<data, path, happened, inode, skipped>>
        /\ pc = "read"
    BY ReadEffect
  <1>2. partial \in Seq(Text) /\ handed \in Seq(Seq(Text)) /\ offset \in Nat
        /\ Len(data[path]) \in Nat /\ LogFile(data[path])
    BY <1>1, BoundsAssumption DEF TypeOK, Files
  <1>3. ASSUME Undisturbed
        PROVE  /\ inode = path /\ offset \in 0..Len(data[path]) /\ offset' = Len(data[path])
               /\ HalfLine(partial, data[path], offset)
               /\ ReadFrom(data[path], offset, NewText)
    <2>1. inode = path /\ inode # NoFile
      BY <1>1, <1>3, NoFileAssumption DEF Standing, Undisturbed
    <2>2. offset <= Len(data[path]) /\ HalfLine(partial, data[path], offset)
      BY <1>3, <2>1 DEF InStep
    <2> QED
      BY <1>1, <1>2, <2>1, <2>2
  <1>4. ASSUME Undisturbed
        PROVE  /\ HalfLine(partial', data[path], Len(data[path]))
               /\ \A i \in 1..Len(NewLines) : Whole(NewLines[i])
    <2>1. /\ HalfLine(Split(partial, NewText).rest, data[path], Len(data[path]))
          /\ \A i \in 1..Len(Split(partial, NewText).lines) :
               Whole(Split(partial, NewText).lines[i])
      BY <1>1, <1>2, <1>3, <1>4, SplitWhole
    <2> QED
      BY <1>1, <2>1 DEF NewLines
  <1>5. WholeLines'
    <2> SUFFICES ASSUME Undisturbed PROVE \A i \in DOMAIN (handed \o NewLines) : Whole((handed \o NewLines)[i])
      BY <1>1 DEF WholeLines, Undisturbed
    <2>1. \A i \in 1..Len(handed) : Whole(handed[i])
      BY <1>2 DEF WholeLines
    <2>2. \A i \in 1..Len(NewLines) : Whole(NewLines[i])
      BY <1>4
    <2> DEFINE all == handed \o NewLines
               n == Len(handed)
               m == Len(NewLines)
    <2>3. /\ DOMAIN all = 1..(n + m) /\ n \in Nat /\ m \in Nat
          /\ \A i \in 1..n : all[i] = handed[i]
          /\ \A i \in 1..m : all[n + i] = NewLines[i]
      BY <1>1, <1>2
    <2> HIDE DEF all, n, m
    <2>4. ASSUME NEW i \in 1..(n + m) PROVE Whole(all[i])
      <3>1. CASE i <= n
        BY <2>1, <2>3, <3>1 DEF n
      <3>2. CASE i > n
        <4>1. i - n \in 1..m /\ n + (i - n) = i
          BY <2>3, <3>2
        <4> QED
          BY <2>2, <2>3, <4>1 DEF m
      <3> QED
        BY <2>3, <3>1, <3>2
    <2> QED
      BY <2>3, <2>4 DEF all
  <1>6. ASSUME Undisturbed
        PROVE  \A k \in 1..Len(data[path]) :
                 data[path][k] \in skipped \union PiecesIn(handed')
                                     \union Range(PiecesOf(partial'))
    <2>1. PiecesIn(NewLines) \union Range(PiecesOf(partial'))
            = Range(PiecesOf(partial)) \union Range(PiecesOf(NewText))
      BY <1>1, <1>2, SplitKeeps DEF NewLines
    <2>2. PiecesIn(handed') = PiecesIn(handed) \union PiecesIn(NewLines)
      BY <1>1, <1>2, LinesConcat
    <2>3. ASSUME NEW k \in 1..Len(data[path])
          PROVE  data[path][k] \in skipped \union PiecesIn(handed)
                   \union Range(PiecesOf(partial)) \union Range(PiecesOf(NewText))
      <3>1. CASE k <= offset
        <4>1. k \in 1..offset /\ inode = path /\ inode # NoFile
          BY <1>1, <1>2, <1>3, <1>6, <3>1, NoFileAssumption
        <4> QED
          BY <1>6, <4>1 DEF InStep
      <3>2. CASE k > offset
        <4>1. k - offset \in 1..Len(NewText) /\ offset + (k - offset) = k
          BY <1>1, <1>2, <1>3, <1>6, <3>2 DEF ReadFrom
        <4>2. NewText[k - offset].piece = data[path][k]
          BY <1>3, <1>6, <4>1 DEF ReadFrom
        <4>3. NewText[k - offset].piece \in Range(PiecesOf(NewText))
          BY <1>1, <4>1, TextPieces
        <4> QED
          BY <4>2, <4>3
      <3> QED
        BY <1>2, <3>1, <3>2
    <2> QED
      BY <2>1, <2>2, <2>3
  <1>7. InStep'
    <2> SUFFICES ASSUME Undisturbed', inode' # NoFile
                 PROVE  /\ offset' <= Len(data'[inode'])
                        /\ HalfLine(partial', data'[inode'], offset')
                        /\ \A k \in 1..offset' :
                             data'[inode'][k] \in skipped' \union PiecesIn(handed')
                                                   \union Range(PiecesOf(partial'))
      BY DEF InStep
    <2>1. Undisturbed
      BY <1>1 DEF Undisturbed
    <2>2. inode' = path /\ data' = data /\ skipped' = skipped /\ offset' = Len(data[path])
      BY <1>1, <1>3, <2>1
    <2>3. HalfLine(partial', data[path], Len(data[path]))
      BY <1>4, <2>1
    <2>4. \A k \in 1..Len(data[path]) :
            data[path][k] \in skipped \union PiecesIn(handed') \union Range(PiecesOf(partial'))
      BY <1>6, <2>1
    <2> QED
      BY <1>2, <2>2, <2>3, <2>4
  <1> QED
    BY <1>5, <1>7

\* The other steps of the tailer.
LEMMA InStepPoll ==
  ASSUME TypeOK, Files, Standing, InStep, WholeLines,
         \/ PollExists \/ PollStat \/ PollRaises
         \/ (\E fromStart \in Starts : Construct(fromStart)) \/ ConstructRaises
  PROVE  InStep' /\ WholeLines'
  <1>1. UNCHANGED <<data, path, happened, handed, skipped>>
    BY DEF PollExists, PollStat, PollRaises, Construct, ConstructRaises, env
  <1>2. WholeLines'
    BY <1>1 DEF WholeLines, Undisturbed, Whole, PiecesOf
  <1> DEFINE Goal == /\ offset' <= Len(data'[inode'])
                     /\ HalfLine(partial', data'[inode'], offset')
                     /\ \A k \in 1..offset' :
                          data'[inode'][k] \in skipped' \union PiecesIn(handed')
                                                \union Range(PiecesOf(partial'))
  <1>3. CASE UNCHANGED <<offset, partial, inode>>
    <2> SUFFICES ASSUME Undisturbed', inode' # NoFile PROVE Goal
      BY <1>2 DEF InStep
    <2>1. Undisturbed
      BY <1>1 DEF Undisturbed
    <2> QED
      BY <1>1, <1>3, <2>1 DEF InStep
  <1>4. CASE offset' = 0 /\ partial' = <<>>
    <2> SUFFICES ASSUME Undisturbed', inode' # NoFile PROVE Goal
      BY <1>2 DEF InStep
    <2>1. HalfLine(<<>>, data'[inode'], 0)
      <3>1. 0 % 2 = 0 /\ 0 % 2 # 1
        OBVIOUS
      <3> QED
        BY <3>1 DEF HalfLine
    <2>2. inode' \in Inodes
      BY TypeTailer DEF TypeOK, Poll, Begin
    <2>3. data' \in [Inodes -> Seq(Pieces)]
      BY <1>1 DEF TypeOK
    <2>4. Len(data'[inode']) \in Nat
      BY <2>2, <2>3
    <2>5. 1..0 = {}
      OBVIOUS
    <2> QED
      BY <1>4, <2>1, <2>4, <2>5
  <1>5. PollStat => UNCHANGED <<offset, partial, inode>> \/ (offset' = 0 /\ partial' = <<>>)
    <2> SUFFICES ASSUME PollStat, ~(offset' = 0 /\ partial' = <<>>)
                 PROVE  UNCHANGED <<offset, partial, inode>>
      OBVIOUS
    <2>1. ~IsNewFile
      BY DEF PollStat
    <2>2. offset' = offset /\ partial' = partial /\ inode' = path
      BY <2>1 DEF PollStat
    <2>3. inode = path
      BY <2>1, <2>2 DEF IsNewFile, Standing
    <2> QED
      BY <2>2, <2>3
  <1>6. ~PollStat => UNCHANGED <<offset, partial, inode>>
    BY DEF PollExists, PollRaises, Construct, ConstructRaises
  <1> QED
    BY <1>2, <1>3, <1>4, <1>5, <1>6

-----------------------------------------------------------------------------
(* In order, and once. *)

\* What has been read has been written.
LEMMA ReadIsNat ==
  ASSUME TypeOK
  PROVE  \A p \in Read : p \in Nat
  <1>1. PiecesIn(handed) \subseteq Pieces /\ Range(PiecesOf(partial)) \subseteq Pieces
    BY TextPieces, LinePieces DEF TypeOK
  <1> QED
    BY <1>1, BoundsAssumption DEF Read, Pieces

\* The service and the rotation: what comes new to the file is later than
\* everything read.
LEMMA OrderedEnvironment ==
  ASSUME TypeOK, Files, Ordered, Environment
  PROVE  Ordered'
  <1> SUFFICES ASSUME "mid_poll" \notin happened'
               PROVE  /\ Sorted(handed, partial)' /\ (\A p \in Read : p <= w)'
                      /\ path' # NoFile =>
                           \A k \in 1..Len(data'[path']) : Ahead(k)' =>
                             \A p \in Read : p < data'[path'][k]
    BY EnvironmentApart DEF Ordered, Read, tail
  <1>1. UNCHANGED <<pc, offset, partial, inode, handed, skipped>>
    BY EnvironmentApart DEF tail
  <1>2. "mid_poll" \notin happened
    BY DEF Environment, Append1, Create, Reopen, Rename, Unlink, Truncate
  <1>3. w' = w \/ w' = w + 1
    BY DEF Environment, Append1, Create, Reopen, Rename, Unlink, Truncate
  <1>4. w \in Nat /\ \A p \in Read : p \in Nat /\ p <= w
    BY <1>2, ReadIsNat, BoundsAssumption DEF Ordered, TypeOK
  <1>5. Sorted(handed, partial)'
    BY <1>1, <1>2 DEF Ordered, Sorted, InOrder, Rising, PiecesIn, PiecesOf
  <1>6. Read' = Read
    BY <1>1 DEF Read, PiecesIn, PiecesOf
  <1>7. (\A p \in Read : p <= w)'
    BY <1>3, <1>4, <1>6
  <1>8. ASSUME path' # NoFile, NEW k \in 1..Len(data'[path']), Ahead(k)', NEW p \in Read
        PROVE  p < data'[path'][k]
    <2>1. CASE Append1
      <3>1. /\ writer \in Inodes /\ path \in Inodes /\ path' = path
            /\ data' = [data EXCEPT ![writer] = Append(@, w + 1)]
        BY <1>8, <2>1 DEF Append1, TypeOK
      <3>2. data[path] \in Seq(Pieces) /\ Len(data[path]) \in Nat /\ w + 1 \in Nat
        BY <1>4, <3>1 DEF TypeOK
      <3>3. CASE writer = path
        <4>1. data'[path] = Append(data[path], w + 1)
          BY <3>1, <3>3 DEF TypeOK
        <4>2. Len(data'[path]) = Len(data[path]) + 1 /\ data'[path][Len(data[path]) + 1] = w + 1
              /\ \A j \in 1..Len(data[path]) : data'[path][j] = data[path][j]
          BY <3>2, <4>1
        <4>3. CASE k \in 1..Len(data[path])
          <5>1. Ahead(k)
            BY <1>1, <1>8, <3>1, <3>2, <4>2, <4>3, BoundsAssumption DEF Ahead, TypeOK
          <5>2. p < data[path][k]
            BY <1>2, <1>8, <3>1, <4>3, <5>1 DEF Ordered
          <5> QED
            BY <3>1, <4>2, <4>3, <5>2
        <4>4. CASE k = Len(data[path]) + 1
          BY <1>4, <3>1, <4>2, <4>4
        <4> QED
          BY <3>1, <3>2, <4>2, <4>3, <4>4
      <3>4. CASE writer # path
        <4>1. data'[path] = data[path]
          BY <3>1, <3>4 DEF TypeOK
        <4>2. Ahead(k)
          BY <1>1, <1>8, <3>1, <4>1 DEF Ahead
        <4> QED
          BY <1>2, <1>8, <3>1, <4>1, <4>2 DEF Ordered
      <3> QED
        BY <3>3, <3>4
    <2>2. CASE \E i \in Inodes : Create(i)
      <3>1. data'[path'] = <<>>
        BY <2>2 DEF Create, TypeOK
      <3> QED
        BY <1>8, <3>1
    <2>3. CASE Reopen
      <3>1. data' = data /\ path' = path
        BY <2>3 DEF Reopen
      <3>2. Ahead(k)
        BY <1>1, <1>8, <3>1 DEF Ahead
      <3> QED
        BY <1>2, <1>8, <3>1, <3>2 DEF Ordered
    <2>4. CASE Rename \/ Unlink
      BY <1>8, <2>4 DEF Rename, Unlink
    <2>5. CASE Truncate
      <3>1. data'[path'] = <<>>
        BY <1>8, <2>5 DEF Truncate, TypeOK
      <3> QED
        BY <1>8, <3>1
    <2> QED
      BY <2>1, <2>2, <2>3, <2>4, <2>5 DEF Environment
  <1> QED
    BY <1>5, <1>7, <1>8

\* A read: what is read lies ahead of everything read before.
LEMMA OrderedRead ==
  ASSUME TypeOK, Files, Standing, Ordered, PollRead
  PROVE  Ordered'
  <1>1. /\ path \in Inodes /\ data[path] \in Seq(Pieces)
        /\ NewText \in Seq(Text) /\ NewLines \in Seq(Seq(Text))
        /\ handed' = handed \o NewLines
        /\ partial' = Split(partial, NewText).rest /\ partial' \in Seq(Text)
        /\ offset <= Len(data[path]) => ReadFrom(data[path], offset, NewText)
        /\ offset > Len(data[path]) => NewText = <<>>
        /\ offset' = IF offset <= Len(data[path]) THEN Len(data[path]) ELSE offset
        /\ UNCHANGED <<data, path, w, happened, inode>>
        /\ pc = "read"
    BY ReadEffect
  <1> SUFFICES ASSUME "mid_poll" \notin happened PROVE Ordered'
    BY <1>1 DEF Ordered
  <1>2. partial \in Seq(Text) /\ handed \in Seq(Seq(Text)) /\ offset \in Nat /\ w \in Nat
        /\ Len(data[path]) \in Nat /\ LogFile(data[path]) /\ path # NoFile /\ inode = path
    BY <1>1, BoundsAssumption, NoFileAssumption DEF TypeOK, Files, Standing
  <1>3. /\ \A k \in 1..Len(data[path]) : data[path][k] \in Nat /\ data[path][k] <= w
        /\ \A k, l \in 1..Len(data[path]) : k < l => data[path][k] < data[path][l]
    BY <1>1, <1>2, LogFileRises
  <1>4. /\ Sorted(handed, partial) /\ \A p \in Read : p <= w
        /\ \A k \in 1..Len(data[path]) : Ahead(k) => \A p \in Read : p < data[path][k]
    BY <1>2 DEF Ordered
  <1>5. ASSUME NEW k \in 1..Len(NewText)
        PROVE  /\ offset + k \in 1..Len(data[path]) /\ offset <= Len(data[path])
               /\ NewText[k].piece = data[path][offset + k]
    <2>1. Len(NewText) # 0
      OBVIOUS
    <2>2. offset <= Len(data[path])
      BY <1>1, <1>2, <2>1
    <2>3. Len(NewText) = Len(data[path]) - offset /\ NewText[k].piece = data[path][offset + k]
      BY <1>1, <2>2 DEF ReadFrom
    <2> QED
      BY <1>2, <2>2, <2>3
  <1>6. \A q \in Range(PiecesOf(NewText)) : q \in Nat /\ q <= w /\ \A p \in Read : p < q
    <2> SUFFICES ASSUME NEW k \in 1..Len(NewText)
                 PROVE  /\ NewText[k].piece \in Nat /\ NewText[k].piece <= w
                        /\ \A p \in Read : p < NewText[k].piece
      <3>1. \A q \in Range(PiecesOf(NewText)) : \E k \in 1..Len(NewText) : q = NewText[k].piece
        BY <1>1, TextPieces
      <3> QED
        BY <3>1
    <2>1. Ahead(offset + k)
      BY <1>2 DEF Ahead
    <2> QED
      BY <1>3, <1>4, <1>5, <2>1
  <1>7. Rising(NewText)
    <2>1. DOMAIN NewText = 1..Len(NewText)
      BY <1>1
    <2> SUFFICES ASSUME NEW k \in 1..Len(NewText), NEW l \in 1..Len(NewText), k < l
                 PROVE  NewText[k].piece < NewText[l].piece
      BY <2>1 DEF Rising
    <2>2. offset + k < offset + l
      BY <1>2
    <2> QED
      BY <1>3, <1>5, <2>2
  <1>8. Sorted(NewLines, partial')
    <2>1. \A p \in Range(PiecesOf(partial)), q \in Range(PiecesOf(NewText)) : p < q
      BY <1>6 DEF Read
    <2>2. Rising(partial)
      BY <1>4 DEF Sorted
    <2> QED
      BY <1>1, <1>2, <1>7, <2>1, <2>2, SplitSorted DEF NewLines
  <1>9. PiecesIn(NewLines) \union Range(PiecesOf(partial'))
          = Range(PiecesOf(partial)) \union Range(PiecesOf(NewText))
    BY <1>1, <1>2, SplitKeeps DEF NewLines
  <1>10. PiecesIn(handed') = PiecesIn(handed) \union PiecesIn(NewLines)
    BY <1>1, <1>2, LinesConcat
  <1>11. \A p \in PiecesIn(handed), q \in PiecesIn(NewLines) \union Range(PiecesOf(partial')) : p < q
    BY <1>4, <1>6, <1>9 DEF Read, Sorted
  <1>12. Sorted(handed', partial')
    <2>1. InOrder(handed')
      BY <1>1, <1>2, <1>4, <1>8, <1>11, InOrderConcat DEF Sorted
    <2> QED
      BY <1>8, <1>10, <1>11, <2>1 DEF Sorted
  <1>13. Read' = PiecesIn(handed') \union Range(PiecesOf(partial'))
    BY DEF Read
  <1>14. \A p \in Read' : p <= w
    BY <1>4, <1>6, <1>9, <1>10, <1>13 DEF Read
  <1>15. ASSUME NEW k \in 1..Len(data'[path']), Ahead(k)', NEW p \in Read'
         PROVE  p < data'[path'][k]
    <2>1. offset > Len(data[path]) /\ offset' = offset
      BY <1>1, <1>2, <1>15 DEF Ahead
    <2>2. NewText = <<>> /\ Ahead(k)
      BY <1>1, <1>15, <2>1, <1>2 DEF Ahead
    <2>3. Range(PiecesOf(NewText)) = {}
      BY <2>2, NoPieces
    <2>4. p \in Read
      BY <1>9, <1>10, <1>13, <2>3 DEF Read
    <2> QED
      BY <1>1, <1>4, <2>2, <2>4
  <1> QED
    BY <1>1, <1>12, <1>14, <1>15 DEF Ordered

\* The other steps of the tailer.
LEMMA OrderedTailer ==
  ASSUME TypeOK, Files, Standing, Ordered,
         \/ PollExists \/ PollStat \/ PollRaises
         \/ Begin
  PROVE  Ordered'
  <1>1. UNCHANGED <<data, path, w, handed>>
    BY DEF PollExists, PollStat, PollRaises, Begin, Construct, ConstructStat,
           ConstructRaises, env
  <1>2. "mid_poll" \notin happened' => "mid_poll" \notin happened
    BY DEF PollExists, PollStat, PollRaises, Begin, Construct, ConstructStat, ConstructRaises
  <1>3. CASE UNCHANGED <<offset, partial, inode>>
    BY <1>1, <1>2, <1>3 DEF Ordered, Read, Ahead
  <1>4. CASE ConstructStat
    <2>1. handed = <<>> /\ partial = <<>> /\ partial' = partial
      BY <1>4 DEF ConstructStat, Standing
    <2>2. Read' = {}
      BY <1>1, <2>1, NoPieces DEF Read
    <2>3. Sorted(<<>>, <<>>)
      BY NoPieces DEF Sorted, InOrder, Rising
    <2> QED
      BY <1>1, <2>1, <2>2, <2>3 DEF Ordered
  <1>5. CASE PollStat /\ IsNewFile
    <2>1. offset' = 0 /\ partial' = <<>> /\ inode' = path /\ path # NoFile /\ happened' = happened
      BY <1>5 DEF PollStat
    <2>2. Read' = PiecesIn(handed) /\ Read' \subseteq Read
      BY <1>1, <2>1, NoPieces DEF Read
    <2>3. \A k \in 1..Len(data[path]) : Ahead(k)
      BY <1>5 DEF IsNewFile, Ahead
    <2>4. InOrder(handed) => Sorted(handed', partial')
      BY <1>1, <2>1, NoPieces DEF Sorted, Rising
    <2> QED
      BY <1>1, <2>1, <2>2, <2>3, <2>4 DEF Ordered, Sorted
  <1>6. CASE PollStat /\ ~IsNewFile
    <2>1. offset' = offset /\ partial' = partial /\ inode' = path /\ path # NoFile
          /\ happened' = happened
      BY <1>6 DEF PollStat
    <2>2. CASE inode = path
      BY <1>3, <2>1, <2>2
    <2>3. CASE inode # path
      <3>1. handed = <<>> /\ partial = <<>>
        BY <1>6, <2>3 DEF IsNewFile, Standing
      <3>2. Read' = {} /\ Read = {}
        BY <1>1, <2>1, <3>1, NoPieces DEF Read
      <3>3. Sorted(<<>>, <<>>)
        BY NoPieces DEF Sorted, InOrder, Rising
      <3> QED
        BY <1>1, <2>1, <3>1, <3>2, <3>3 DEF Ordered
    <2> QED
      BY <2>2, <2>3
  <1>7. ~PollStat /\ ~ConstructStat => UNCHANGED <<offset, partial, inode>>
    BY DEF PollExists, PollRaises, Begin, Construct, ConstructRaises
  <1> QED
    BY <1>3, <1>4, <1>5, <1>6, <1>7

-----------------------------------------------------------------------------
(* The theorems. *)

\* The inductive invariant of the tailer (live.py 55-90).
THEOREM TailInvariant == Spec => []IInv
  <1>1. Init => IInv
    <2> SUFFICES ASSUME Init PROVE IInv
      OBVIOUS
    <2>1. TypeOK
      BY BoundsAssumption DEF Init, TypeOK, AllFaults
    <2>2. Files
      BY DEF Init, Files, LogFile
    <2>3. Standing /\ InStep /\ DiesOnlyMidCall /\ WholeLines
      BY DEF Init, Standing, InPoll, InStart, InStep, DiesOnlyMidCall, WholeLines
    <2>4. Ordered
      <3>1. Read = {}
        BY NoPieces DEF Init, Read
      <3>2. Sorted(<<>>, <<>>)
        BY NoPieces DEF Sorted, InOrder, Rising
      <3> QED
        BY <3>1, <3>2 DEF Init, Ordered
    <2> QED
      BY <2>1, <2>2, <2>3, <2>4 DEF IInv
  <1>2. IInv /\ [Next]_vars => IInv'
    <2> SUFFICES ASSUME IInv, [Next]_vars PROVE IInv'
      OBVIOUS
    <2>0. TypeOK /\ Files /\ Standing /\ InStep /\ Ordered /\ WholeLines /\ DiesOnlyMidCall
      BY DEF IInv
    <2>1. CASE Environment
      <3>1. TypeOK'
        BY <2>0, <2>1, TypeEnvironment
      <3>2. Files'
        BY <2>0, <2>1, FilesAppend, FilesOthers DEF Environment
      <3>3. Standing' /\ DiesOnlyMidCall'
        BY <2>0, <2>1, StandingEnvironment
      <3>4. InStep' /\ WholeLines'
        BY <2>0, <2>1, InStepEnvironment
      <3>5. Ordered'
        BY <2>0, <2>1, OrderedEnvironment
      <3> QED
        BY <3>1, <3>2, <3>3, <3>4, <3>5 DEF IInv
    <2>2. CASE Poll \/ Begin
      <3>1. TypeOK'
        BY <2>0, <2>2, TypeTailer
      <3>2. Files'
        BY <2>0, <2>2, TailerReads, FilesTailer DEF env
      <3>3. Standing' /\ DiesOnlyMidCall'
        BY <2>0, <2>2, StandingTailer
      <3>4. InStep' /\ WholeLines'
        BY <2>0, <2>2, InStepConstruct, InStepRead, InStepPoll DEF Poll, Begin
      <3>5. Ordered'
        BY <2>0, <2>2, OrderedRead, OrderedTailer DEF Poll
      <3> QED
        BY <3>1, <3>2, <3>3, <3>4, <3>5 DEF IInv
    <2>3. CASE UNCHANGED vars
      <3>1. TypeOK' /\ Files' /\ Standing' /\ DiesOnlyMidCall'
        BY <2>0, <2>3 DEF vars, TypeOK, Files, LogFile, Standing, InPoll, InStart, DiesOnlyMidCall
      <3>2. InStep' /\ WholeLines'
        BY <2>0, <2>3 DEF vars, InStep, Undisturbed, WholeLines
      <3>3. Ordered'
        BY <2>0, <2>3 DEF vars, Ordered, Read, Ahead
      <3> QED
        BY <3>1, <3>2, <3>3 DEF IInv
    <2> QED
      BY <2>1, <2>2, <2>3 DEF Next
  <1> QED
    BY <1>1, <1>2, PTL DEF Spec

\* Offset, partial and what is handed over have their types, for every log:
\* the offset never runs past what the service writes (live.py 83-90).
THEOREM TailTypes == Spec => []TypeOK
  BY TailInvariant, PTL DEF IInv

\* Undisturbed, every line that reaches a parser is a whole line of the log
\* (live.py 67-90).
THEOREM LinesAreWhole == Spec => []WholeLines
  BY TailInvariant, PTL DEF IInv

\* Nothing reaches the parsers twice or out of order (live.py 74-86).
THEOREM HandedInOrder == Spec => []InOrderOnce
  <1>1. IInv => InOrderOnce
    BY DEF IInv, Ordered, Sorted, InOrderOnce
  <1> QED
    BY <1>1, TailInvariant, PTL

\* Nothing before the offset has been dropped (live.py 83-90).
THEOREM OffsetSkipsNothing == Spec => []NoneSkipped
  <1>1. IInv => NoneSkipped
    <2> SUFFICES ASSUME IInv, Undisturbed, inode # NoFile, inode = path
                 PROVE  Range(SubSeq(data[path], 1, offset)) \subseteq
                          skipped \union PiecesIn(handed) \union Range(PiecesOf(partial))
      BY DEF NoneSkipped
    <2>1. data[path] \in Seq(Pieces) /\ offset \in 0..Len(data[path])
      BY BoundsAssumption DEF IInv, TypeOK, InStep
    <2>2. /\ SubSeq(data[path], 1, offset) \in Seq(Pieces)
          /\ Len(SubSeq(data[path], 1, offset)) = offset
          /\ \A k \in 1..offset : SubSeq(data[path], 1, offset)[k] = data[path][k]
      BY <2>1, Cut
    <2>3. DOMAIN SubSeq(data[path], 1, offset) = 1..offset
      BY <2>2
    <2>4. \A k \in 1..offset :
            data[path][k] \in skipped \union PiecesIn(handed) \union Range(PiecesOf(partial))
      BY DEF IInv, InStep
    <2> QED
      BY <2>2, <2>3, <2>4 DEF Range
  <1> QED
    BY <1>1, TailInvariant, PTL

\* The watch dies only of a file that vanishes inside __init__ or inside a
\* poll (live.py 61-62, 72-83).
THEOREM SurvivesRotation == Spec => []DiesOnlyMidCall
  BY TailInvariant, PTL DEF IInv

=============================================================================
