-------------------------- MODULE EventFileProofs ---------------------------
(***************************************************************************)
(* Proofs about EventFile: for any size of a block or of a buffer and any  *)
(* events, the blocks of a file hold the bytes of the events that were     *)
(* accepted, the table finds every block, and who reads a file, of any     *)
(* format, gets these events in their order.                               *)
(***************************************************************************)
EXTENDS EventFile, SequenceLemmas

------------------------------------------------------------------------------
\* The writer of blocks.

\* Names for two sets, which the provers need not look into.
Byte == Nat
Entries == Nat \X Nat

\* The bytes in the first k blocks.
Before(blocks, k) == FlattenSeq(SubSeq(blocks, 1, k))

\* Blocks that are filled, and the table over them up to the n-th entry.
GoodBlocks(blocks) ==
  /\ blocks \in Seq(Seq(Byte))
  /\ \A k \in 1 .. Len(blocks) : Len(blocks[k]) \in 1 .. BlockSize

\* The first n entries of the table: the place of a block and the bytes before it.
TableOf(table, blocks, n) ==
  /\ table \in Seq(Entries) /\ Len(table) = n
  /\ \A k \in 1 .. n : table[k] = <<k, Len(Before(blocks, k - 1))>>

\* The states of a writer.
Writers == [buf : Seq(Byte), blocks : Seq(Seq(Byte)), table : Seq(Entries), total : Nat]

\* A writer fills blocks up to BlockSize, and keeps the table up to date.
WriterInv(w) ==
  /\ w \in Writers /\ Len(w.buf) <= BlockSize
  /\ GoodBlocks(w.blocks)
  /\ TableOf(w.table, w.blocks, Len(w.blocks))
  /\ w.total = Len(FlattenSeq(w.blocks))

\* What was given to the writer.
Given(w) == FlattenSeq(w.blocks) \o w.buf

\* The bytes before a block are bytes.
LEMMA BeforeType ==
  ASSUME NEW blocks \in Seq(Seq(Byte)), NEW k \in 0 .. Len(blocks)
  PROVE  Before(blocks, k) \in Seq(Byte) /\ Len(Before(blocks, k)) \in Nat
<1>1. SubSeq(blocks, 1, k) \in Seq(Seq(Byte))
  BY CutAt
<1>2. FlattenSeq(SubSeq(blocks, 1, k)) \in Seq(Byte)
  BY <1>1, FlattenType
<1> QED
  BY <1>2 DEF Before

\* A table with an entry for the blocks' end.
LEMMA TableLonger ==
  ASSUME NEW blocks, GoodBlocks(blocks), NEW table, TableOf(table, blocks, Len(blocks)),
         NEW n \in Nat, n = Len(blocks)
  PROVE  TableOf(Append(table, <<n + 1, Len(FlattenSeq(blocks))>>), blocks, n + 1)
<1> DEFINE e == <<n + 1, Len(FlattenSeq(blocks))>>
<1>1. /\ blocks \in Seq(Seq(Byte)) /\ table \in Seq(Entries) /\ Len(table) = n
      /\ \A k \in 1 .. n : table[k] = <<k, Len(Before(blocks, k - 1))>>
  BY DEF GoodBlocks, TableOf
<1>2. FlattenSeq(blocks) \in Seq(Byte)
  BY <1>1, FlattenType
<1>3. e \in Entries
  <2>1. Len(FlattenSeq(blocks)) \in Nat
    BY <1>2
  <2> QED
    BY <2>1 DEF Entries
<1>4. Before(blocks, n) = FlattenSeq(blocks)
  BY <1>1, Fronts DEF Before
<1>5. e = <<n + 1, Len(Before(blocks, (n + 1) - 1))>>
  BY <1>4
<1> HIDE DEF e
<1>6. PICK t \in Seq(Entries) : t = Append(table, e)
  BY <1>1, <1>3, AppendProperties
<1>7. Len(t) = n + 1 /\ t[n + 1] = e /\ \A k \in 1 .. n : t[k] = table[k]
  BY <1>1, <1>3, <1>6, AppendProperties
<1>8. ASSUME NEW k \in 1 .. n + 1 PROVE t[k] = <<k, Len(Before(blocks, k - 1))>>
  <2>1. CASE k = n + 1
    BY <1>5, <1>7, <2>1
  <2>2. CASE k # n + 1
    <3>1. k \in 1 .. n
      BY <2>2
    <3> QED
      BY <1>1, <1>7, <3>1
  <2> QED
    BY <2>1, <2>2
<1>9. TableOf(t, blocks, n + 1)
  BY <1>7, <1>8 DEF TableOf
<1> QED
  BY <1>6, <1>9 DEF e

\* One more block: the entries of the table stay right.
LEMMA TableKept ==
  ASSUME NEW blocks, GoodBlocks(blocks), NEW x \in Seq(Byte), NEW table,
         NEW n \in Nat, n <= Len(blocks) + 1, TableOf(table, blocks, n)
  PROVE  TableOf(table, Append(blocks, x), n)
<1>1. blocks \in Seq(Seq(Byte)) /\ Len(blocks) \in Nat
  BY DEF GoodBlocks
<1>2. ASSUME NEW k \in 1 .. n PROVE Before(Append(blocks, x), k - 1) = Before(blocks, k - 1)
  <2>1. k - 1 \in 0 .. Len(blocks)
    BY <1>1
  <2>2. SubSeq(Append(blocks, x), 1, k - 1) = SubSeq(blocks, 1, k - 1)
    BY <1>1, <2>1, FrontKept
  <2> QED
    BY <2>2 DEF Before
<1> QED
  BY <1>2 DEF TableOf

\* CompressWrite() makes a block of what is in the buffer.
LEMMA CompressWriteGood ==
  ASSUME NEW w, WriterInv(w), w.buf # <<>>
  PROVE  /\ WriterInv(CompressWrite(w)) /\ CompressWrite(w).buf = <<>>
         /\ FlattenSeq(CompressWrite(w).blocks) = Given(w)
         /\ Given(CompressWrite(w)) = Given(w)
<1> DEFINE c == CompressWrite(w)
<1>1. PICK n \in Nat : n = Len(w.blocks)
  BY DEF WriterInv, GoodBlocks
<1>2. /\ w.buf \in Seq(Byte) /\ Len(w.buf) <= BlockSize /\ GoodBlocks(w.blocks)
      /\ w.blocks \in Seq(Seq(Byte)) /\ w.total = Len(FlattenSeq(w.blocks))
      /\ TableOf(w.table, w.blocks, Len(w.blocks))
  BY DEF WriterInv, GoodBlocks, Writers
<1>3. /\ c.buf = <<>> /\ c.blocks = Append(w.blocks, w.buf)
      /\ c.table = Append(w.table, <<n + 1, Len(FlattenSeq(w.blocks))>>)
      /\ c.total = Len(FlattenSeq(w.blocks)) + Len(w.buf)
      /\ c = [buf |-> c.buf, blocks |-> c.blocks, table |-> c.table, total |-> c.total]
  BY <1>1, <1>2 DEF CompressWrite
<1> HIDE DEF c
<1>4. FlattenSeq(c.blocks) = FlattenSeq(w.blocks) \o w.buf /\ FlattenSeq(w.blocks) \in Seq(Byte)
  BY <1>2, <1>3, FlattenAppend, FlattenType
<1>5. c.total = Len(FlattenSeq(c.blocks))
  BY <1>2, <1>3, <1>4
<1>6. GoodBlocks(c.blocks)
  <2>1. /\ c.blocks \in Seq(Seq(Byte)) /\ Len(c.blocks) = n + 1 /\ c.blocks[n + 1] = w.buf
        /\ \A k \in 1 .. n : c.blocks[k] = w.blocks[k]
    BY <1>1, <1>2, <1>3, AppendProperties
  <2>2. Len(w.buf) \in 1 .. BlockSize
    BY <1>2, LzoFileAssumption
  <2>3. ASSUME NEW k \in 1 .. n + 1 PROVE Len(c.blocks[k]) \in 1 .. BlockSize
    <3>1. CASE k = n + 1
      BY <2>1, <2>2, <3>1
    <3>2. CASE k # n + 1
      <4>1. k \in 1 .. n
        BY <3>2
      <4> QED
        BY <1>1, <1>2, <2>1, <4>1 DEF GoodBlocks
    <3> QED
      BY <3>1, <3>2
  <2> QED
    BY <2>1, <2>3 DEF GoodBlocks
<1>7. TableOf(c.table, c.blocks, Len(c.blocks))
  <2>1. TableOf(c.table, w.blocks, n + 1)
    BY <1>1, <1>2, <1>3, TableLonger
  <2>2. TableOf(c.table, Append(w.blocks, w.buf), n + 1)
    BY <1>1, <1>2, <2>1, TableKept
  <2>3. Len(c.blocks) = n + 1
    BY <1>1, <1>2, <1>3, AppendProperties
  <2> QED
    BY <1>3, <2>2, <2>3
<1>8. c.buf \in Seq(Byte) /\ Len(c.buf) <= BlockSize
  BY <1>3, LzoFileAssumption
<1>9. WriterInv(c)
  <2>1. c.blocks \in Seq(Seq(Byte)) /\ c.table \in Seq(Entries) /\ c.total \in Nat
    <3>1. FlattenSeq(c.blocks) \in Seq(Byte)
      BY <1>6, FlattenType DEF GoodBlocks
    <3> QED
      BY <1>5, <1>6, <1>7, <3>1 DEF GoodBlocks, TableOf
  <2>2. c \in Writers
    BY <1>3, <1>8, <2>1 DEF Writers
  <2> QED
    BY <1>5, <1>6, <1>7, <1>8, <2>2 DEF WriterInv
<1>10. Given(c) = FlattenSeq(c.blocks)
  <2>1. FlattenSeq(c.blocks) \in Seq(Byte)
    BY <1>6, FlattenType DEF GoodBlocks
  <2> QED
    BY <1>3, <2>1, ConcatEmptySeq DEF Given
<1> QED
  BY <1>3, <1>4, <1>9, <1>10 DEF c, Given

\* What was given to the writer are bytes.
LEMMA GivenType ==
  ASSUME NEW w, WriterInv(w)
  PROVE  /\ Given(w) \in Seq(Byte) /\ w.buf \in Seq(Byte) /\ FlattenSeq(w.blocks) \in Seq(Byte)
         /\ w.buf = <<>> => Given(w) = FlattenSeq(w.blocks)
<1>1. w.buf \in Seq(Byte) /\ FlattenSeq(w.blocks) \in Seq(Byte)
  BY FlattenType DEF WriterInv, GoodBlocks, Writers
<1> QED
  BY <1>1, ConcatProperties, ConcatEmptySeq DEF Given

\* A writer with another buffer.
LEMMA WithBuf ==
  ASSUME NEW w \in Writers, NEW x
  PROVE  [w EXCEPT !.buf = x] = [buf |-> x, blocks |-> w.blocks, table |-> w.table, total |-> w.total]
  BY DEF Writers

\* The buffer takes what it has room for.
LEMMA BufferedGood ==
  ASSUME NEW w, WriterInv(w), NEW bytes \in Seq(Byte), Len(w.buf) + Len(bytes) <= BlockSize
  PROVE  /\ WriterInv(Buffered(w, bytes)) /\ Given(Buffered(w, bytes)) = Given(w) \o bytes
         /\ Buffered(w, bytes).buf = w.buf \o bytes
<1> DEFINE b == Buffered(w, bytes)
<1>1. w \in Writers
  BY DEF WriterInv
<1>2. b = [buf |-> w.buf \o bytes, blocks |-> w.blocks, table |-> w.table, total |-> w.total]
  <2>1. PICK x : x = w.buf \o bytes
    OBVIOUS
  <2>3. [w EXCEPT !.buf = x] = [buf |-> x, blocks |-> w.blocks, table |-> w.table, total |-> w.total]
    BY <1>1, WithBuf
  <2> QED
    BY <2>1, <2>3 DEF Buffered
<1> HIDE DEF b
<1>3. w.buf \in Seq(Byte) /\ FlattenSeq(w.blocks) \in Seq(Byte)
  BY GivenType
<1>4. b.buf = w.buf \o bytes /\ b.buf \in Seq(Byte) /\ Len(b.buf) <= BlockSize
  BY <1>2, <1>3, ConcatProperties
<1>5. WriterInv(b)
  <2>1. b \in Writers
    BY <1>1, <1>2, <1>4 DEF Writers
  <2> QED
    BY <1>2, <1>4, <2>1 DEF WriterInv
<1>6. Given(b) = Given(w) \o bytes
  <2>1. PICK x \in Seq(Byte) : x = FlattenSeq(w.blocks)
    BY <1>3
  <2>2. PICK y \in Seq(Byte) : y = w.buf
    BY <1>3
  <2>3. (x \o y) \o bytes = x \o (y \o bytes)
    BY Associative
  <2> QED
    BY <1>2, <2>1, <2>2, <2>3 DEF Given
<1> QED
  BY <1>4, <1>5, <1>6 DEF b

\* Induction, for a set of numbers.
LEMMA UpTo ==
  ASSUME NEW T, NEW m \in Nat, 0 \in T, \A n \in 1 .. m : n - 1 \in T => n \in T
  PROVE  \A n \in 0 .. m : n \in T
<1> DEFINE U == {n \in 0 .. m : n \notin T}
<1> SUFFICES ASSUME U # {} PROVE FALSE
  OBVIOUS
<1>1. PICK n \in U : \A k \in U : n <= k
  <2>1. U \in SUBSET Nat
    OBVIOUS
  <2> HIDE DEF U
  <2> QED
    BY <2>1, Smallest
<1>2. n \in 0 .. m /\ n \notin T /\ n # 0 /\ n \in 1 .. m
  BY <1>1
<1>3. n - 1 \in 0 .. m /\ ~(n <= n - 1)
  BY <1>2
<1>4. n - 1 \in T
  BY <1>1, <1>3
<1> QED
  BY <1>2, <1>4

\* The loop of Pieces().
PieceLoop(f, start, m) ==
  f = [k \in 0 .. m |-> IF k = 0 THEN start ELSE Piece(f[k - 1])]

\* The values of this function, and that there is one.
LEMMA PieceLoopAt ==
  ASSUME NEW f, NEW start, NEW m \in Nat, PieceLoop(f, start, m)
  PROVE  f[0] = start /\ \A k \in 1 .. m : f[k] = Piece(f[k - 1])
<1> DEFINE Value(k) == IF k = 0 THEN start ELSE Piece(f[k - 1])
<1>1. f = [k \in 0 .. m |-> Value(k)]
  BY DEF PieceLoop
<1> HIDE DEF Value
<1>2. \A k \in 0 .. m : f[k] = Value(k)
  BY <1>1
<1>3. 0 \in 0 .. m /\ \A k \in 1 .. m : k \in 0 .. m /\ k # 0
  OBVIOUS
<1> QED
  BY <1>2, <1>3 DEF Value

\* There is such a function.
LEMMA PieceLoopExists ==
  ASSUME NEW start, NEW m \in Nat
  PROVE  \E f : PieceLoop(f, start, m)
<1> DEFINE T == {n \in 0 .. m : \E f : PieceLoop(f, start, n)}
<1>1. 0 \in T
  <2>1. PieceLoop([k \in 0 .. 0 |-> start], start, 0)
    BY DEF PieceLoop
  <2> QED
    BY <2>1
<1>2. ASSUME NEW n \in 1 .. m, n - 1 \in T PROVE n \in T
  <2>1. n \in Nat /\ n - 1 \in Nat /\ n \in 0 .. m
    OBVIOUS
  <2>2. PICK f : PieceLoop(f, start, n - 1)
    BY <1>2
  <2> DEFINE g == [k \in 0 .. n |-> IF k = 0 THEN start ELSE Piece(f[k - 1])]
  <2>3. \A k \in 0 .. n - 1 : g[k] = f[k]
    <3> SUFFICES ASSUME NEW k \in 0 .. n - 1 PROVE g[k] = f[k]
      OBVIOUS
    <3>1. k \in 0 .. n /\ (k # 0 => k \in 1 .. n - 1)
      BY <2>1
    <3>2. g[k] = IF k = 0 THEN start ELSE Piece(f[k - 1])
      BY <3>1
    <3> HIDE DEF g
    <3>3. f[k] = IF k = 0 THEN start ELSE Piece(f[k - 1])
      BY <2>1, <2>2, <3>1, PieceLoopAt
    <3> QED
      BY <3>2, <3>3
  <2>4. \A k \in 0 .. n : k # 0 => g[k - 1] = f[k - 1]
    <3>1. \A k \in 0 .. n : k # 0 => k - 1 \in 0 .. n - 1
      BY <2>1
    <3> HIDE DEF g
    <3> QED
      BY <2>3, <3>1
  <2>5. g = [k \in 0 .. n |-> IF k = 0 THEN start ELSE Piece(f[k - 1])]
    OBVIOUS
  <2> HIDE DEF g
  <2>6. g = [k \in 0 .. n |-> IF k = 0 THEN start ELSE Piece(g[k - 1])]
    BY <2>4, <2>5
  <2>7. PieceLoop(g, start, n)
    BY <2>6 DEF PieceLoop
  <2> QED
    BY <2>1, <2>7
<1> HIDE DEF T
<1>3. m \in T
  BY <1>1, <1>2, UpTo
<1> QED
  BY <1>3 DEF T

\* What the loop keeps: nothing is in the buffer, and what is in the blocks and
\* what is left are together what there was.
PieceInv(s, all) ==
  /\ WriterInv(s.writer) /\ s.writer.buf = <<>>
  /\ s.left \in Seq(Byte)
  /\ FlattenSeq(s.writer.blocks) \o s.left = all

\* One turn keeps it and takes something.
LEMMA PieceGood ==
  ASSUME NEW s, NEW all, PieceInv(s, all)
  PROVE  /\ PieceInv(Piece(s), all)
         /\ Len(s.left) \in Nat /\ Len(Piece(s).left) \in Nat
         /\ s.left # <<>> => Len(Piece(s).left) < Len(s.left)
<1>1. CASE s.left = <<>>
  BY <1>1 DEF Piece, PieceInv
<1>2. CASE s.left # <<>>
  <2>1. PICK n \in Nat : n = IF Len(s.left) > BlockSize THEN BlockSize ELSE Len(s.left)
    BY LzoFileAssumption DEF PieceInv
  <2>2. s.left \in Seq(Byte) /\ Len(s.left) \in Nat /\ Len(s.left) > 0
    BY <1>2 DEF PieceInv
  <2>3. n \in 1 .. Len(s.left) /\ n \in 0 .. Len(s.left) /\ n <= BlockSize
    BY <2>1, <2>2, LzoFileAssumption
  <2>4. PICK x \in Seq(Byte) : x = SubSeq(s.left, 1, n)
    BY <2>2, <2>3, CutAt
  <2>5. PICK y \in Seq(Byte) : y = SubSeq(s.left, n + 1, Len(s.left))
    BY <2>2, <2>3, CutAt
  <2>6. s.left = x \o y /\ Len(x) = n /\ Len(y) = Len(s.left) - n
    BY <2>2, <2>3, <2>4, <2>5, CutAt
  <2>7. PICK w : w = Buffered(s.writer, x)
    OBVIOUS
  <2>8. Piece(s) = [writer |-> CompressWrite(w), left |-> y]
    BY <1>2, <2>1, <2>4, <2>5, <2>7 DEF Piece
  <2>9. WriterInv(s.writer) /\ s.writer.buf = <<>>
    BY DEF PieceInv
  <2>10. Len(s.writer.buf) + Len(x) <= BlockSize
    BY <2>3, <2>6, <2>9
  <2>11. WriterInv(w) /\ Given(w) = Given(s.writer) \o x /\ w.buf = <<>> \o x
    BY <2>7, <2>9, <2>10, BufferedGood
  <2>12. w.buf # <<>>
    <3>1. <<>> \o x = x
      BY ConcatEmptySeq
    <3>2. x # <<>>
      BY <2>3, <2>6
    <3> QED
      BY <2>11, <3>1, <3>2
  <2>13. PICK c : c = CompressWrite(w)
    OBVIOUS
  <2>14. WriterInv(c) /\ c.buf = <<>> /\ FlattenSeq(c.blocks) = Given(w)
    BY <2>11, <2>12, <2>13, CompressWriteGood
  <2>15. FlattenSeq(c.blocks) \o y = all
    <3>1. PICK z \in Seq(Byte) : z = FlattenSeq(s.writer.blocks)
      BY <2>9, GivenType
    <3>2. Given(s.writer) = z
      BY <2>9, <3>1, GivenType
    <3>3. (z \o x) \o y = z \o (x \o y)
      BY Associative
    <3>4. all = z \o s.left
      BY <3>1 DEF PieceInv
    <3> QED
      BY <2>6, <2>11, <2>14, <3>2, <3>3, <3>4
  <2>16. PieceInv(Piece(s), all)
    <3>1. Piece(s).writer = c /\ Piece(s).left = y
      BY <2>8, <2>13
    <3> QED
      BY <2>14, <2>15, <3>1 DEF PieceInv
  <2> QED
    BY <2>2, <2>3, <2>6, <2>8, <2>16
<1> QED
  BY <1>1, <1>2

\* The loop puts everything into blocks.
LEMMA PiecesGood ==
  ASSUME NEW w, WriterInv(w), w.buf = <<>>, NEW bytes \in Seq(Byte)
  PROVE  /\ WriterInv(Pieces(w, bytes)) /\ Pieces(w, bytes).buf = <<>>
         /\ Given(Pieces(w, bytes)) = Given(w) \o bytes
<1> DEFINE start == [writer |-> w, left |-> bytes]
           F == CHOOSE f : f = [k \in 0 .. Len(bytes) |-> IF k = 0 THEN start ELSE Piece(f[k - 1])]
<1>1. PICK m \in Nat : m = Len(bytes)
  OBVIOUS
<1>2. PICK all \in Seq(Byte) : all = FlattenSeq(w.blocks) \o bytes
  BY GivenType, ConcatProperties
<1>3. Pieces(w, bytes) = F[Len(bytes)].writer
  BY Zenon DEF Pieces
<1>4. PieceLoop(F, start, m)
  <2>1. \E f : PieceLoop(f, start, m)
    BY PieceLoopExists
  <2> QED
    BY <1>1, <2>1, Zenon DEF PieceLoop
<1>5. PieceInv(start, all) /\ start.left = bytes
  BY <1>2 DEF PieceInv
<1> HIDE DEF F, start
<1>6. F[0] = start /\ \A k \in 1 .. m : F[k] = Piece(F[k - 1])
  BY <1>4, PieceLoopAt
<1> DEFINE T == {k \in 0 .. m : PieceInv(F[k], all) /\ Len(F[k].left) \in Nat /\ Len(F[k].left) <= m - k}
<1>7. 0 \in T
  BY <1>1, <1>5, <1>6
<1>8. ASSUME NEW k \in 1 .. m, k - 1 \in T PROVE k \in T
  <2>1. PICK s : s = F[k - 1]
    OBVIOUS
  <2>2. PieceInv(s, all) /\ Len(s.left) \in Nat /\ Len(s.left) <= m - (k - 1)
    BY <1>8, <2>1
  <2>3. F[k] = Piece(s)
    BY <1>6, <2>1
  <2>4. /\ PieceInv(Piece(s), all) /\ Len(Piece(s).left) \in Nat
        /\ s.left # <<>> => Len(Piece(s).left) < Len(s.left)
    BY <2>2, PieceGood
  <2>5. CASE s.left # <<>>
    BY <2>2, <2>3, <2>4, <2>5
  <2>6. CASE s.left = <<>>
    <3>1. Piece(s) = s /\ Len(s.left) = 0
      BY <2>6 DEF Piece
    <3> QED
      BY <2>2, <2>3, <3>1
  <2> QED
    BY <2>5, <2>6
<1>9. m \in T
  <2> HIDE DEF T
  <2>1. \A k \in 0 .. m : k \in T
    BY <1>7, <1>8, UpTo
  <2> QED
    BY <2>1
<1>10. PieceInv(F[m], all) /\ Len(F[m].left) = 0
  BY <1>9
<1>11. PICK v : v = F[m].writer
  OBVIOUS
<1>12. WriterInv(v) /\ v.buf = <<>> /\ F[m].left = <<>> /\ FlattenSeq(v.blocks) \o F[m].left = all
  <2>1. F[m].left \in Seq(Byte)
    BY <1>10 DEF PieceInv
  <2>2. F[m].left = <<>>
    BY <1>10, <2>1
  <2> QED
    BY <1>10, <1>11, <2>2 DEF PieceInv
<1>13. Given(v) = FlattenSeq(v.blocks) /\ Given(w) = FlattenSeq(w.blocks) /\ FlattenSeq(v.blocks) \in Seq(Byte)
  BY <1>12, GivenType
<1>14. FlattenSeq(v.blocks) \o <<>> = FlattenSeq(v.blocks)
  BY <1>13, ConcatEmptySeq
<1> QED
  BY <1>1, <1>2, <1>3, <1>11, <1>12, <1>13, <1>14

\* Write() gives the bytes to the file whole, or not at all.
LEMMA WrittenGood ==
  ASSUME NEW w, WriterInv(w), NEW bytes \in Seq(Byte)
  PROVE  /\ WriterInv(Written(w, bytes))
         /\ Given(Written(w, bytes)) = IF Refused(w) THEN Given(w) ELSE Given(w) \o bytes
<1>1. PICK room : room = BlockSize - Len(w.buf)
  OBVIOUS
<1>2. w.buf \in Seq(Byte) /\ Len(w.buf) \in Nat /\ Len(w.buf) <= BlockSize /\ room \in Nat
  BY <1>1, LzoFileAssumption DEF WriterInv, Writers
<1>3. PICK n \in Nat : n = Len(bytes)
  OBVIOUS
<1>4. CASE Refused(w)
  BY <1>4 DEF Written
<1>5. CASE ~Refused(w) /\ n > BlockSize /\ w.buf = <<>>
  <2>1. Written(w, bytes) = Pieces(w, bytes)
    BY <1>3, <1>5 DEF Written
  <2> QED
    BY <1>5, <2>1, PiecesGood
<1>6. CASE ~Refused(w) /\ n > BlockSize /\ w.buf # <<>>
  <2>1. room \in 0 .. Len(bytes)
    BY <1>1, <1>2, <1>3, <1>6, LzoFileAssumption
  <2>2. PICK x \in Seq(Byte) : x = SubSeq(bytes, 1, room)
    BY <2>1, CutAt
  <2>3. PICK y \in Seq(Byte) : y = SubSeq(bytes, room + 1, Len(bytes))
    BY <2>1, CutAt
  <2>4. bytes = x \o y /\ Len(x) = room
    BY <2>1, <2>2, <2>3, CutAt
  <2>5. PICK b : b = Buffered(w, x)
    OBVIOUS
  <2>6. WriterInv(b) /\ Given(b) = Given(w) \o x /\ b.buf = w.buf \o x
    <3>1. Len(w.buf) + Len(x) <= BlockSize
      BY <1>1, <1>2, <2>4, LzoFileAssumption
    <3> QED
      BY <2>5, <3>1, BufferedGood
  <2>7. b.buf # <<>>
    <3>1. Len(w.buf \o x) = Len(w.buf) + Len(x) /\ Len(w.buf) > 0 /\ Len(x) \in Nat
      BY <1>2, <1>6
    <3> QED
      BY <1>2, <2>6, <3>1
  <2>8. PICK c : c = CompressWrite(b)
    OBVIOUS
  <2>9. WriterInv(c) /\ c.buf = <<>> /\ Given(c) = Given(b)
    BY <2>6, <2>7, <2>8, CompressWriteGood
  <2>10. Written(w, bytes) = Pieces(c, y)
    BY <1>1, <1>3, <1>6, <2>2, <2>3, <2>5, <2>8 DEF Written
  <2>11. WriterInv(Pieces(c, y)) /\ Given(Pieces(c, y)) = (Given(w) \o x) \o y
    BY <2>6, <2>9, PiecesGood
  <2>12. (Given(w) \o x) \o y = Given(w) \o bytes
    <3>1. PICK g \in Seq(Byte) : g = Given(w)
      BY GivenType
    <3>2. (g \o x) \o y = g \o (x \o y)
      BY Associative
    <3> QED
      BY <2>4, <3>1, <3>2
  <2> QED
    BY <1>6, <2>10, <2>11, <2>12
<1>7. CASE ~Refused(w) /\ ~(n > BlockSize) /\ n > room
  <2>1. w.buf # <<>>
    <3>1. room < BlockSize
      BY <1>2, <1>3, <1>7, LzoFileAssumption
    <3>2. Len(w.buf) > 0
      BY <1>1, <1>2, <3>1, LzoFileAssumption
    <3> QED
      BY <3>2
  <2>2. PICK c : c = CompressWrite(w)
    OBVIOUS
  <2>3. WriterInv(c) /\ c.buf = <<>> /\ Given(c) = Given(w)
    BY <2>1, <2>2, CompressWriteGood
  <2>4. Len(c.buf) + Len(bytes) <= BlockSize
    BY <1>3, <1>7, <2>3, LzoFileAssumption
  <2>5. WriterInv(Buffered(c, bytes)) /\ Given(Buffered(c, bytes)) = Given(c) \o bytes
    BY <2>3, <2>4, BufferedGood
  <2>6. Written(w, bytes) = Buffered(c, bytes)
    BY <1>1, <1>3, <1>7, <2>2 DEF Written
  <2> QED
    BY <1>7, <2>3, <2>5, <2>6
<1>8. CASE ~Refused(w) /\ ~(n > BlockSize) /\ ~(n > room)
  <2>1. Len(w.buf) + Len(bytes) <= BlockSize
    BY <1>1, <1>2, <1>3, <1>8, LzoFileAssumption
  <2>2. WriterInv(Buffered(w, bytes)) /\ Given(Buffered(w, bytes)) = Given(w) \o bytes
    BY <2>1, BufferedGood
  <2>3. Written(w, bytes) = Buffered(w, bytes)
    BY <1>1, <1>3, <1>8 DEF Written
  <2> QED
    BY <1>8, <2>2, <2>3
<1> QED
  BY <1>4, <1>5, <1>6, <1>7, <1>8

\* A file whose table tells the truth.
FileInv(f) ==
  /\ GoodBlocks(f.blocks)
  /\ TableOf(f.table, f.blocks, Len(f.blocks) + 1)
  /\ f.num = Len(f.blocks)

\* Close() makes one of the writer, with everything that was given to it.
LEMMA ClosedGood ==
  ASSUME NEW w, WriterInv(w)
  PROVE  FileInv(Closed(w)) /\ FlattenSeq(Closed(w).blocks) = Given(w)
<1>1. PICK c : c = IF w.buf = <<>> THEN w ELSE CompressWrite(w)
  OBVIOUS
<1>2. WriterInv(c) /\ FlattenSeq(c.blocks) = Given(w)
  <2>1. CASE w.buf = <<>>
    BY <1>1, <2>1, GivenType
  <2>2. CASE w.buf # <<>>
    BY <1>1, <2>2, CompressWriteGood
  <2> QED
    BY <2>1, <2>2
<1>3. PICK n \in Nat : n = Len(c.blocks)
  BY <1>2 DEF WriterInv, GoodBlocks
<1>4. Closed(w) = [num    |-> Len(c.table),
                   blocks |-> c.blocks,
                   table  |-> Append(c.table, <<Len(c.blocks) + 1, c.total>>)]
  BY <1>1 DEF Closed
<1>5. /\ GoodBlocks(c.blocks) /\ TableOf(c.table, c.blocks, Len(c.blocks))
      /\ c.total = Len(FlattenSeq(c.blocks)) /\ Len(c.table) = n
  BY <1>2, <1>3 DEF WriterInv, TableOf
<1>6. TableOf(Append(c.table, <<n + 1, Len(FlattenSeq(c.blocks))>>), c.blocks, n + 1)
  BY <1>3, <1>5, TableLonger
<1>7. PICK f : f = Closed(w)
  OBVIOUS
<1>8. /\ f.num = n /\ f.blocks = c.blocks
      /\ f.table = Append(c.table, <<n + 1, Len(FlattenSeq(c.blocks))>>)
  BY <1>3, <1>4, <1>5, <1>7
<1>9. FileInv(f)
  BY <1>3, <1>5, <1>6, <1>8 DEF FileInv
<1> QED
  BY <1>2, <1>7, <1>8, <1>9

------------------------------------------------------------------------------
\* The reader.

\* The bytes from the k-th block on.
From(blocks, k) == FlattenSeq(SubSeq(blocks, k, Len(blocks)))

\* A block, the bytes before it and the bytes from it on.
LEMMA BlocksAre ==
  ASSUME NEW blocks, GoodBlocks(blocks), NEW k \in 1 .. Len(blocks)
  PROVE  /\ blocks[k] \in Seq(Byte) /\ Len(blocks[k]) \in 1 .. BlockSize
         /\ Before(blocks, k - 1) \in Seq(Byte) /\ Before(blocks, k) \in Seq(Byte)
         /\ Before(blocks, k) = Before(blocks, k - 1) \o blocks[k]
         /\ From(blocks, k + 1) \in Seq(Byte) /\ From(blocks, k) \in Seq(Byte)
         /\ From(blocks, k) = blocks[k] \o From(blocks, k + 1)
<1>1. blocks \in Seq(Seq(Byte)) /\ blocks[k] \in Seq(Byte) /\ Len(blocks[k]) \in 1 .. BlockSize
  BY DEF GoodBlocks
<1>2. /\ FlattenSeq(SubSeq(blocks, 1, k - 1)) \in Seq(Byte)
      /\ FlattenSeq(SubSeq(blocks, 1, k)) = FlattenSeq(SubSeq(blocks, 1, k - 1)) \o blocks[k]
  BY <1>1, FlattenFront
<1>3. /\ FlattenSeq(SubSeq(blocks, k + 1, Len(blocks))) \in Seq(Byte)
      /\ FlattenSeq(SubSeq(blocks, k, Len(blocks))) = blocks[k] \o FlattenSeq(SubSeq(blocks, k + 1, Len(blocks)))
  BY <1>1, FlattenBehind
<1> QED
  BY <1>1, <1>2, <1>3, ConcatProperties DEF Before, From

\* The bytes before a place between two blocks and those behind it are all.
LEMMA BlocksTogether ==
  ASSUME NEW blocks, GoodBlocks(blocks), NEW k \in 0 .. Len(blocks)
  PROVE  /\ Before(blocks, k) \in Seq(Byte) /\ From(blocks, k + 1) \in Seq(Byte)
         /\ FlattenSeq(blocks) = Before(blocks, k) \o From(blocks, k + 1)
         /\ FlattenSeq(blocks) \in Seq(Byte)
<1>1. blocks \in Seq(Seq(Byte))
  BY DEF GoodBlocks
<1> QED
  BY <1>1, FlattenCut, FlattenType DEF Before, From

\* No bytes come before the first block and none after the last.
LEMMA BlocksEnds ==
  ASSUME NEW blocks, GoodBlocks(blocks)
  PROVE  /\ Before(blocks, 0) = <<>> /\ From(blocks, Len(blocks) + 1) = <<>>
         /\ Before(blocks, Len(blocks)) = FlattenSeq(blocks)
<1>1. blocks \in Seq(Seq(Byte))
  BY DEF GoodBlocks
<1>2. SubSeq(blocks, 1, 0) = <<>> /\ SubSeq(blocks, 1, Len(blocks)) = blocks
      /\ SubSeq(blocks, Len(blocks) + 1, Len(blocks)) = <<>>
  BY <1>1, Fronts
<1> QED
  BY <1>2, FlattenEmpty DEF Before, From

------------------------------------------------------------------------------
\* The reader of blocks.

\* The states of a reader.
Readers == [current : Nat, out : Seq(Byte), off : Nat, isEnd : BOOLEAN, fpos : Nat]

\* Where a reader stands in a file: what it has out is the block before fpos.
InFile(f, r) == r \in Readers /\ r.current <= f.num /\ r.fpos = r.current + 1

\* A reader between two calls of Read() that gave what they were asked for.
Between(f, r) ==
  /\ InFile(f, r) /\ r.isEnd = FALSE
  /\ r.current > 0 => r.out = f.blocks[r.current]

\* What is left in the buffer, and a reader with the bytes that are left.
Left(r) == SubSeq(r.out, r.off + 1, Len(r.out))

\* The bytes that a reader is about to give are rest.
Ready(f, r, rest) ==
  /\ InFile(f, r) /\ r.off <= Len(r.out)
  /\ IF r.isEnd THEN r.out = <<>> /\ r.current = f.num
                ELSE r.current > 0 /\ r.out = f.blocks[r.current]
  /\ rest = Left(r) \o From(f.blocks, r.current + 1)

\* What is left of the block in hand is bytes.
LEMMA LeftType ==
  ASSUME NEW r \in Readers, r.off <= Len(r.out)
  PROVE  Left(r) \in Seq(Byte) /\ Len(Left(r)) = Len(r.out) - r.off
<1>1. r.out \in Seq(Byte) /\ r.off \in 0 .. Len(r.out)
  BY DEF Readers
<1> QED
  BY <1>1, CutAt DEF Left

\* What the table says.
LEMMA Offsets ==
  ASSUME NEW f, FileInv(f), NEW k \in 0 .. f.num
  PROVE  /\ f.num \in Nat
         /\ RealOffset(f, k) = k + 1 /\ VirtualOffset(f, k) = Len(Before(f.blocks, k))
         /\ RealOffset(f, f.num + 1) = 0
         /\ Size(f) = Len(FlattenSeq(f.blocks))
<1>1. f.num \in Nat /\ f.num = Len(f.blocks) /\ Len(f.table) = f.num + 1
  BY DEF FileInv, GoodBlocks, TableOf
<1>2. \A j \in 1 .. f.num + 1 : f.table[j] = <<j, Len(Before(f.blocks, j - 1))>>
  BY <1>1 DEF FileInv, TableOf
<1>3. ASSUME NEW j \in 0 .. f.num
      PROVE  f.table[j + 1] = <<j + 1, Len(Before(f.blocks, j))>>
  <2>1. j + 1 \in 1 .. f.num + 1 /\ (j + 1) - 1 = j
    BY <1>1
  <2>2. f.table[j + 1] = <<j + 1, Len(Before(f.blocks, (j + 1) - 1))>>
    BY <1>2, <2>1
  <2> QED
    BY <2>1, <2>2
<1>4. k < Len(f.table) /\ f.num \in 0 .. f.num
  BY <1>1
<1>5. RealOffset(f, k) = k + 1 /\ VirtualOffset(f, k) = Len(Before(f.blocks, k))
  BY <1>3, <1>4 DEF RealOffset, VirtualOffset
<1>6. RealOffset(f, f.num + 1) = 0
  BY <1>1 DEF RealOffset
<1>7. Size(f) = Len(FlattenSeq(f.blocks))
  <2>1. VirtualOffset(f, f.num) = Len(Before(f.blocks, f.num))
    <3>1. f.table[f.num + 1] = <<f.num + 1, Len(Before(f.blocks, f.num))>>
      BY <1>3, <1>4
    <3> QED
      BY <3>1 DEF VirtualOffset
  <2>2. Before(f.blocks, f.num) = FlattenSeq(f.blocks)
    BY <1>1, BlocksEnds DEF FileInv
  <2> QED
    BY <2>1, <2>2 DEF Size
<1> QED
  BY <1>1, <1>5, <1>6, <1>7

\* A reader with other contents, field by field.
LEMMA ReaderAtEnd ==
  ASSUME NEW r \in Readers
  PROVE  [r EXCEPT !.out = <<>>, !.off = 0, !.isEnd = TRUE]
           = [current |-> r.current, out |-> <<>>, off |-> 0, isEnd |-> TRUE, fpos |-> r.fpos]
<1>1. PICK a : a = [r EXCEPT !.out = <<>>]
  OBVIOUS
<1>2. PICK b : b = [a EXCEPT !.off = 0]
  OBVIOUS
<1>3. PICK c : c = [b EXCEPT !.isEnd = TRUE]
  OBVIOUS
<1>4. c = [r EXCEPT !.out = <<>>, !.off = 0, !.isEnd = TRUE]
  BY <1>1, <1>2, <1>3
<1>5. a = [current |-> r.current, out |-> <<>>, off |-> r.off, isEnd |-> r.isEnd, fpos |-> r.fpos]
  BY <1>1 DEF Readers
<1>6. b = [current |-> r.current, out |-> <<>>, off |-> 0, isEnd |-> r.isEnd, fpos |-> r.fpos]
  BY <1>2, <1>5
<1>7. c = [current |-> r.current, out |-> <<>>, off |-> 0, isEnd |-> TRUE, fpos |-> r.fpos]
  BY <1>3, <1>6
<1> QED
  BY <1>4, <1>7

\* EXCEPT, of a reader that goes on to a block.
LEMMA ReaderAtBlock ==
  ASSUME NEW r \in Readers, NEW x
  PROVE  [r EXCEPT !.out = x, !.off = 0, !.current = @ + 1, !.fpos = @ + 1]
           = [current |-> r.current + 1, out |-> x, off |-> 0, isEnd |-> r.isEnd, fpos |-> r.fpos + 1]
<1>1. PICK a : a = [r EXCEPT !.out = x]
  OBVIOUS
<1>2. PICK b : b = [a EXCEPT !.off = 0]
  OBVIOUS
<1>3. PICK c : c = [b EXCEPT !.current = @ + 1]
  OBVIOUS
<1>4. PICK d : d = [c EXCEPT !.fpos = @ + 1]
  OBVIOUS
<1>5. a = [current |-> r.current, out |-> x, off |-> r.off, isEnd |-> r.isEnd, fpos |-> r.fpos]
  BY <1>1 DEF Readers
<1>6. b = [current |-> r.current, out |-> x, off |-> 0, isEnd |-> r.isEnd, fpos |-> r.fpos]
  BY <1>2, <1>5
<1>7. c = [current |-> r.current + 1, out |-> x, off |-> 0, isEnd |-> r.isEnd, fpos |-> r.fpos]
  BY <1>3, <1>6
<1>8. d = [current |-> r.current + 1, out |-> x, off |-> 0, isEnd |-> r.isEnd, fpos |-> r.fpos + 1]
  BY <1>4, <1>7
<1>9. d = [r EXCEPT !.out = x, !.off = 0, !.current = @ + 1, !.fpos = @ + 1]
  BY <1>1, <1>2, <1>3, <1>4, <1>5, <1>6, <1>7
<1> QED
  BY <1>8, <1>9

\* DeCompressRead() takes the next block, or sees that there is none.
LEMMA NextBlock ==
  ASSUME NEW f, FileInv(f), NEW r, InFile(f, r), r.isEnd = FALSE
  PROVE  LET d == DeCompressRead(f, r) IN
         /\ Ready(f, d, From(f.blocks, r.current + 1))
         /\ d.off = 0
         /\ IF r.current < f.num THEN d.isEnd = FALSE /\ d.current = r.current + 1
                                 ELSE d.isEnd = TRUE /\ d.current = r.current
<1> DEFINE d == DeCompressRead(f, r)
<1>1. r \in Readers /\ r.current \in 0 .. f.num /\ f.num \in Nat /\ r.fpos = r.current + 1
  BY DEF InFile, Readers, FileInv, GoodBlocks
<1>2. /\ RealOffset(f, r.current) = r.current + 1 /\ RealOffset(f, f.num + 1) = 0
      /\ f.num = Len(f.blocks) /\ GoodBlocks(f.blocks)
  BY <1>1, Offsets DEF FileInv
<1>3. CASE r.current < f.num
  <2>1. PICK k : k = r.current + 1
    OBVIOUS
  <2>2. k \in 0 .. f.num /\ k \in 1 .. Len(f.blocks)
    BY <1>1, <1>2, <1>3, <2>1
  <2>3. RealOffset(f, k) = k + 1
    BY <2>2, Offsets
  <2>4. PICK x \in Seq(Byte) : x = f.blocks[k] /\ Len(x) \in 1 .. BlockSize
    BY <1>2, <2>2, BlocksAre
  <2>5. ~(RealOffset(f, r.current + 1) - RealOffset(f, r.current) <= 0)
    BY <1>1, <1>2, <2>1, <2>3
  <2>6. d = [r EXCEPT !.out = x, !.off = 0, !.current = @ + 1, !.fpos = @ + 1]
    BY <1>1, <2>1, <2>4, <2>5 DEF DeCompressRead
  <2>7. d = [current |-> k, out |-> x, off |-> 0, isEnd |-> FALSE, fpos |-> k + 1]
    BY <1>1, <2>1, <2>6, ReaderAtBlock
  <2> HIDE DEF d
  <2>8. d \in Readers /\ k \in Nat
    BY <2>2, <2>7 DEF Readers
  <2>9. SubSeq(x, 1, Len(x)) = x
    BY Fronts
  <2>10. Left(d) = x
    BY <2>7, <2>9 DEF Left
  <2>11. From(f.blocks, k) = x \o From(f.blocks, k + 1)
    BY <1>2, <2>2, <2>4, BlocksAre
  <2>12. Ready(f, d, From(f.blocks, k))
    <3>1. InFile(f, d)
      BY <2>2, <2>7, <2>8 DEF InFile
    <3>2. d.off <= Len(d.out)
      BY <2>4, <2>7
    <3>3. d.current > 0 /\ d.out = f.blocks[d.current] /\ d.isEnd = FALSE /\ d.current = k
      BY <2>2, <2>4, <2>7
    <3>4. From(f.blocks, k) = Left(d) \o From(f.blocks, d.current + 1)
      BY <2>10, <2>11, <3>3
    <3> QED
      BY <3>1, <3>2, <3>3, <3>4 DEF Ready
  <2> QED
    BY <1>3, <2>1, <2>7, <2>12 DEF d
<1>4. CASE ~(r.current < f.num)
  <2>1. r.current = f.num
    BY <1>1, <1>4
  <2>2. RealOffset(f, r.current + 1) - RealOffset(f, r.current) <= 0
    BY <1>1, <1>2, <2>1
  <2>3. d = [current |-> r.current, out |-> <<>>, off |-> 0, isEnd |-> TRUE, fpos |-> r.fpos]
    BY <1>1, <2>2, ReaderAtEnd DEF DeCompressRead
  <2> HIDE DEF d
  <2>4. d \in Readers
    BY <1>1, <2>3 DEF Readers
  <2>5. Left(d) = <<>>
    BY <2>3, Fronts DEF Left
  <2>6. From(f.blocks, r.current + 1) = <<>>
    BY <1>2, <2>1, BlocksEnds
  <2>7. Ready(f, d, From(f.blocks, r.current + 1))
    <3>1. InFile(f, d)
      BY <1>1, <2>3, <2>4 DEF InFile
    <3>2. d.off <= Len(d.out) /\ d.isEnd = TRUE /\ d.out = <<>> /\ d.current = f.num
      BY <2>1, <2>3
    <3>3. From(f.blocks, r.current + 1) = Left(d) \o From(f.blocks, d.current + 1)
      BY <2>1, <2>5, <2>6, <3>2
    <3> QED
      BY <3>1, <3>2, <3>3 DEF Ready
  <2> QED
    BY <1>4, <2>3, <2>7 DEF d
<1> QED
  BY <1>3, <1>4

\* The loop of Read().
ReadLoop(f, start, f_, m) ==
  f = [k \in 0 .. m |-> IF k = 0 THEN start ELSE ReadOn(f_, f[k - 1])]

\* The values of this function, and that there is one.
LEMMA ReadLoopAt ==
  ASSUME NEW f, NEW start, NEW f_, NEW m \in Nat, ReadLoop(f, start, f_, m)
  PROVE  f[0] = start /\ \A k \in 1 .. m : f[k] = ReadOn(f_, f[k - 1])
<1> DEFINE Value(k) == IF k = 0 THEN start ELSE ReadOn(f_, f[k - 1])
<1>1. f = [k \in 0 .. m |-> Value(k)]
  BY DEF ReadLoop
<1> HIDE DEF Value
<1>2. \A k \in 0 .. m : f[k] = Value(k)
  BY <1>1
<1>3. 0 \in 0 .. m /\ \A k \in 1 .. m : k \in 0 .. m /\ k # 0
  OBVIOUS
<1> QED
  BY <1>2, <1>3 DEF Value

\* There is such a loop.
LEMMA ReadLoopExists ==
  ASSUME NEW start, NEW f_, NEW m \in Nat
  PROVE  \E f : ReadLoop(f, start, f_, m)
<1> DEFINE T == {n \in 0 .. m : \E f : ReadLoop(f, start, f_, n)}
<1>1. 0 \in T
  <2>1. ReadLoop([k \in 0 .. 0 |-> start], start, f_, 0)
    BY DEF ReadLoop
  <2> QED
    BY <2>1
<1>2. ASSUME NEW n \in 1 .. m, n - 1 \in T PROVE n \in T
  <2>1. n \in Nat /\ n - 1 \in Nat /\ n \in 0 .. m
    OBVIOUS
  <2>2. PICK f : ReadLoop(f, start, f_, n - 1)
    BY <1>2
  <2> DEFINE g == [k \in 0 .. n |-> IF k = 0 THEN start ELSE ReadOn(f_, f[k - 1])]
  <2>3. \A k \in 0 .. n - 1 : g[k] = f[k]
    <3> SUFFICES ASSUME NEW k \in 0 .. n - 1 PROVE g[k] = f[k]
      OBVIOUS
    <3>1. k \in 0 .. n /\ (k # 0 => k \in 1 .. n - 1)
      BY <2>1
    <3>2. g[k] = IF k = 0 THEN start ELSE ReadOn(f_, f[k - 1])
      BY <3>1
    <3> HIDE DEF g
    <3>3. f[k] = IF k = 0 THEN start ELSE ReadOn(f_, f[k - 1])
      BY <2>1, <2>2, <3>1, ReadLoopAt
    <3> QED
      BY <3>2, <3>3
  <2>4. \A k \in 0 .. n : k # 0 => g[k - 1] = f[k - 1]
    <3>1. \A k \in 0 .. n : k # 0 => k - 1 \in 0 .. n - 1
      BY <2>1
    <3> HIDE DEF g
    <3> QED
      BY <2>3, <3>1
  <2>5. g = [k \in 0 .. n |-> IF k = 0 THEN start ELSE ReadOn(f_, f[k - 1])]
    OBVIOUS
  <2> HIDE DEF g
  <2>6. g = [k \in 0 .. n |-> IF k = 0 THEN start ELSE ReadOn(f_, g[k - 1])]
    BY <2>4, <2>5
  <2>7. ReadLoop(g, start, f_, n)
    BY <2>6 DEF ReadLoop
  <2> QED
    BY <2>1, <2>7
<1> HIDE DEF T
<1>3. m \in T
  BY <1>1, <1>2, UpTo
<1> QED
  BY <1>3 DEF T

\* The front of what is behind a place.
LEMMA Middle ==
  ASSUME NEW S, NEW s \in Seq(S), NEW i \in 0 .. Len(s), NEW n \in 0 .. Len(s) - i
  PROVE  /\ SubSeq(s, i + 1, i + n) \in Seq(S) /\ Len(SubSeq(s, i + 1, i + n)) = n
         /\ SubSeq(SubSeq(s, i + 1, Len(s)), 1, n) = SubSeq(s, i + 1, i + n)
<1>1. PICK m \in Nat : m = Len(s)
  OBVIOUS
<1> DEFINE b == SubSeq(s, i + 1, m)
           c == SubSeq(s, i + 1, i + n)
<1>2. b \in Seq(S) /\ Len(b) = m - i /\ \A j \in 1 .. m - i : b[j] = s[i + j]
  <2>1. b \in Seq(S) /\ Len(b) = m - i
    BY <1>1, CutAt
  <2>2. \A j \in 1 .. m - i : b[j] = s[i + j]
    BY <1>1
  <2> QED
    BY <2>1, <2>2
<1>3. c \in Seq(S) /\ Len(c) = n /\ \A j \in 1 .. n : c[j] = s[i + j]
  <2>1. i + n \in 0 .. m /\ i \in 0 .. m /\ n \in Nat
    BY <1>1
  <2>2. \A j \in i + 1 .. i + n : s[j] \in S
    BY <1>1, <2>1
  <2>3. c \in Seq(S) /\ Len(c) = n
    BY <1>1, <2>1, <2>2
  <2>4. \A j \in 1 .. n : c[j] = s[i + j]
    BY <1>1, <2>1
  <2> QED
    BY <2>3, <2>4
<1> HIDE DEF b, c
<1>4. n \in 0 .. Len(b) /\ n \in Nat
  BY <1>1, <1>2
<1>5. SubSeq(b, 1, n) \in Seq(S) /\ Len(SubSeq(b, 1, n)) = n /\ \A j \in 1 .. n : SubSeq(b, 1, n)[j] = b[j]
  BY <1>2, <1>4
<1>6. \A j \in 1 .. n : SubSeq(b, 1, n)[j] = c[j]
  <2> SUFFICES ASSUME NEW j \in 1 .. n PROVE SubSeq(b, 1, n)[j] = c[j]
    OBVIOUS
  <2>1. j \in 1 .. m - i
    BY <1>1
  <2> QED
    BY <1>2, <1>3, <1>5, <2>1
<1>7. SubSeq(b, 1, n) = c
  BY <1>3, <1>5, <1>6, SeqEqual
<1> QED
  BY <1>1, <1>3, <1>7 DEF b, c

\* The front of a concatenation that ends in its middle.
LEMMA FrontEnds ==
  ASSUME NEW S, NEW b \in Seq(S), NEW out \in Seq(S), NEW z \in Seq(S),
         NEW off \in 0 .. Len(out), NEW need \in 0 .. Len(out) - off
  PROVE  /\ Cat(b, SubSeq(out, off + 1, off + need)) \in Seq(S)
         /\ Cat(b, SubSeq(out, off + 1, off + need))
              = SubSeq(Cat(b, Cat(SubSeq(out, off + 1, Len(out)), z)), 1, Len(b) + need)
         /\ Len(b) + need <= Len(Cat(b, Cat(SubSeq(out, off + 1, Len(out)), z)))
<1>1. PICK t \in Seq(S) : t = SubSeq(out, off + 1, Len(out))
  BY CutAt
<1>2. Len(t) = Len(out) - off
  BY <1>1, CutAt
<1>3. PICK x \in Seq(S) : x = SubSeq(out, off + 1, off + need)
  BY Middle
<1>4. Len(x) = need /\ x = SubSeq(t, 1, need)
  BY <1>1, <1>3, Middle
<1>5. need \in 0 .. Len(t)
  BY <1>2
<1>6. PICK y \in Seq(S) : y = SubSeq(t, need + 1, Len(t))
  BY <1>1, <1>5, CutAt
<1>7. t = Cat(x, y)
  BY <1>1, <1>4, <1>5, <1>6, CutAt DEF Cat
<1>8. PICK bx \in Seq(S) : bx = Cat(b, x)
  BY <1>3, CatType
<1>9. PICK u \in Seq(S) : u = Cat(y, z)
  BY <1>6, CatType
<1>10. Cat(b, Cat(t, z)) = Cat(bx, u)
  <2>1. x \in Seq(S) /\ y \in Seq(S)
    BY <1>3, <1>6
  <2>2. Cat(b, Cat(Cat(x, y), z)) = Cat(Cat(b, x), Cat(y, z))
    BY <2>1, CatAssociative
  <2> QED
    BY <1>7, <1>8, <1>9, <2>2
<1>11. Len(bx) = Len(b) + need
  BY <1>3, <1>4, <1>8, CatType
<1>12. SubSeq(Cat(bx, u), 1, Len(bx)) = bx /\ Len(Cat(bx, u)) = Len(bx) + Len(u)
  BY <1>8, <1>9, CatFront, CatType
<1>13. Len(u) \in Nat /\ Len(bx) \in Nat
  BY <1>8, <1>9
<1> QED
  BY <1>1, <1>3, <1>8, <1>10, <1>11, <1>12, <1>13, SMTT(30)

\* What the loop of Read() keeps, if n bytes are to be read and all are left:
\* what it has and what is left of the file are all, and in the end it has n
\* bytes, or all if there are less.
ReadInv(f, s, all, n) ==
  /\ s.bytes \in Seq(Byte)
  /\ s.over \in BOOLEAN
  /\ s.over => IF n <= Len(all) THEN s.bytes = SubSeq(all, 1, n) /\ Between(f, s.reader)
                                ELSE s.bytes = all
  /\ ~s.over => /\ s.need \in Nat \ {0} /\ Len(s.bytes) + s.need = n
                /\ \E rest \in Seq(Byte) : Ready(f, s.reader, rest) /\ all = s.bytes \o rest

\* Turns of the loop that can follow.
TurnsLeft(f, s) ==
  IF s.over THEN 0 ELSE IF s.reader.isEnd THEN 1 ELSE f.num - s.reader.current + 2

\* A reader at another place of its buffer.
LEMMA ReaderAt ==
  ASSUME NEW r \in Readers, NEW n \in Nat
  PROVE  /\ [r EXCEPT !.off = n] \in Readers
         /\ [r EXCEPT !.off = n] = [current |-> r.current, out |-> r.out, off |-> n,
                                    isEnd |-> r.isEnd, fpos |-> r.fpos]
  BY DEF Readers

\* The last turn of a call that gets what it wants.
LEMMA ReadEnough ==
  ASSUME NEW f, FileInv(f), NEW all \in Seq(Byte), NEW n \in Nat,
         NEW s, ReadInv(f, s, all, n), ~s.over,
         Len(s.reader.out) - s.reader.off >= s.need
  PROVE  ReadInv(f, ReadOn(f, s), all, n) /\ ReadOn(f, s).over = TRUE
<1>1. PICK r : r = s.reader
  OBVIOUS
<1>2. PICK rest \in Seq(Byte) : Ready(f, r, rest) /\ all = s.bytes \o rest
  BY <1>1 DEF ReadInv
<1>3. s.bytes \in Seq(Byte) /\ s.need \in Nat \ {0} /\ Len(s.bytes) + s.need = n
  BY DEF ReadInv
<1>4. /\ r \in Readers /\ r.out \in Seq(Byte) /\ r.off \in Nat /\ r.off <= Len(r.out)
      /\ r.current <= f.num /\ r.fpos = r.current + 1 /\ r.current \in Nat
  BY <1>2 DEF Ready, InFile, Readers
<1>5. ~r.isEnd /\ r.current > 0 /\ r.out = f.blocks[r.current]
  <2>1. r.out # <<>>
    <3>1. Len(r.out) > 0
      BY <1>1, <1>3, <1>4
    <3> QED
      BY <3>1
  <2> QED
    BY <1>2, <2>1 DEF Ready
<1>6. PICK need \in Nat : need = s.need
  BY <1>3
<1>7. r.off \in 0 .. Len(r.out) /\ need \in 0 .. Len(r.out) - r.off
  BY <1>1, <1>4, <1>6
<1>8. PICK z \in Seq(Byte) : z = From(f.blocks, r.current + 1)
  <2>1. r.current \in 0 .. Len(f.blocks)
    BY <1>4 DEF FileInv
  <2> QED
    BY <2>1, BlocksTogether DEF FileInv
<1>9. all = s.bytes \o (SubSeq(r.out, r.off + 1, Len(r.out)) \o z)
  BY <1>2, <1>8 DEF Ready, Left
<1>10. PICK bx : bx = s.bytes \o SubSeq(r.out, r.off + 1, r.off + need)
  OBVIOUS
<1>11. /\ bx \in Seq(Byte) /\ bx = SubSeq(all, 1, Len(s.bytes) + need)
       /\ Len(s.bytes) + need <= Len(all)
  <2>1. PICK b \in Seq(Byte) : b = s.bytes
    BY <1>3
  <2>2. PICK o \in Seq(Byte) : o = r.out
    BY <1>4
  <2>3. PICK i \in 0 .. Len(o) : i = r.off
    BY <1>7, <2>2
  <2>4. need \in 0 .. Len(o) - i
    BY <1>7, <2>2, <2>3
  <2>5. all = b \o (SubSeq(o, i + 1, Len(o)) \o z) /\ bx = b \o SubSeq(o, i + 1, i + need)
    BY <1>9, <1>10, <2>1, <2>2, <2>3
  <2>6. all = Cat(b, Cat(SubSeq(o, i + 1, Len(o)), z)) /\ bx = Cat(b, SubSeq(o, i + 1, i + need))
    BY <2>5 DEF Cat
  <2>7. bx \in Seq(Byte) /\ bx = SubSeq(all, 1, Len(b) + need) /\ Len(b) + need <= Len(all)
    <3>1. /\ Cat(b, SubSeq(o, i + 1, i + need)) \in Seq(Byte)
          /\ Cat(b, SubSeq(o, i + 1, i + need))
               = SubSeq(Cat(b, Cat(SubSeq(o, i + 1, Len(o)), z)), 1, Len(b) + need)
          /\ Len(b) + need <= Len(Cat(b, Cat(SubSeq(o, i + 1, Len(o)), z)))
      <4>1. b \in Seq(Byte) /\ o \in Seq(Byte) /\ z \in Seq(Byte) /\ i \in 0 .. Len(o)
        BY <1>8, <2>1, <2>2, <2>3
      <4> QED
        BY <2>4, <4>1, FrontEnds
    <3> QED
      BY <2>6, <3>1
  <2> QED
    BY <2>1, <2>7
<1>12. bx = SubSeq(all, 1, n) /\ n <= Len(all)
  BY <1>3, <1>6, <1>11
<1>13. PICK q : q = ReadOn(f, s)
  OBVIOUS
<1>14. q.reader = [r EXCEPT !.off = @ + need] /\ q.over = TRUE /\ q.bytes = bx
  BY <1>1, <1>6, <1>10, <1>13 DEF ReadOn
<1>15. Between(f, q.reader)
  <2>1. PICK d : d = [r EXCEPT !.off = @ + need]
    OBVIOUS
  <2>2. PICK n_ \in Nat : n_ = r.off + need
    BY <1>4, <1>6
  <2>3. /\ d = [r EXCEPT !.off = n_] /\ d \in Readers
        /\ d.current = r.current /\ d.fpos = r.fpos /\ d.out = r.out /\ d.isEnd = r.isEnd
    <3>1. d = [r EXCEPT !.off = n_]
      BY <2>1, <2>2
    <3>2. /\ d \in Readers
          /\ d = [current |-> r.current, out |-> r.out, off |-> n_, isEnd |-> r.isEnd, fpos |-> r.fpos]
      BY <1>4, <2>2, <3>1, ReaderAt
    <3> QED
      BY <3>1, <3>2
  <2>4. InFile(f, d)
    BY <1>4, <2>3 DEF InFile
  <2>5. d.isEnd = FALSE
    BY <1>4, <1>5, <2>3 DEF Readers
  <2> QED
    BY <1>5, <1>14, <2>1, <2>3, <2>4, <2>5 DEF Between
<1>16. ReadInv(f, q, all, n)
  BY <1>11, <1>12, <1>14, <1>15 DEF ReadInv
<1> QED
  BY <1>13, <1>14, <1>16

\* What a reader that is ready has in its buffer.
LEMMA ReadyType ==
  ASSUME NEW f, FileInv(f), NEW r, NEW rest, Ready(f, r, rest)
  PROVE  /\ r \in Readers /\ InFile(f, r) /\ f.num \in Nat /\ r.current \in 0 .. f.num
         /\ Left(r) \in Seq(Byte) /\ Len(Left(r)) = Len(r.out) - r.off
         /\ From(f.blocks, r.current + 1) \in Seq(Byte) /\ rest \in Seq(Byte)
         /\ rest = Cat(Left(r), From(f.blocks, r.current + 1))
         /\ r.isEnd => Left(r) = <<>> /\ rest = <<>>
<1>1. r \in Readers /\ InFile(f, r) /\ r.off <= Len(r.out)
  BY DEF Ready, InFile
<1>2. f.num \in Nat /\ f.num = Len(f.blocks) /\ GoodBlocks(f.blocks) /\ r.current \in 0 .. f.num
  BY <1>1 DEF InFile, Readers, FileInv, GoodBlocks
<1>3. Left(r) \in Seq(Byte) /\ Len(Left(r)) = Len(r.out) - r.off
  BY <1>1, LeftType
<1>4. From(f.blocks, r.current + 1) \in Seq(Byte)
  BY <1>2, BlocksTogether
<1>5. rest = Cat(Left(r), From(f.blocks, r.current + 1))
  BY DEF Ready, Cat
<1>6. rest \in Seq(Byte)
  BY <1>3, <1>4, <1>5, CatType
<1>7. ASSUME r.isEnd PROVE Left(r) = <<>> /\ rest = <<>>
  <2>1. r.out = <<>> /\ r.current = f.num
    BY <1>7 DEF Ready
  <2>2. Len(Left(r)) = 0
    <3>1. Len(r.out) = 0 /\ r.off \in Nat
      BY <1>1, <2>1 DEF Readers
    <3> QED
      BY <1>1, <1>3, <3>1
  <2>3. Left(r) = <<>>
    BY <1>3, <2>2
  <2>4. From(f.blocks, r.current + 1) = <<>>
    BY <1>2, <2>1, BlocksEnds
  <2>5. Cat(<<>>, <<>>) = <<>>
    BY <1>3, <2>3, CatEmpty
  <2> QED
    BY <1>5, <2>3, <2>4, <2>5
<1> QED
  BY <1>1, <1>2, <1>3, <1>4, <1>6, <1>5, <1>7

\* Two parts of what is to be read move together.
LEMMA TakenTogether ==
  ASSUME NEW S, NEW a \in Seq(S), NEW b \in Seq(S), NEW c \in Seq(S)
  PROVE  Cat(a, Cat(b, c)) = Cat(Cat(a, b), c)
  BY CatAssociative

\* A turn at the end of the file: there is less than what is wanted.
LEMMA ReadLast ==
  ASSUME NEW f, FileInv(f), NEW all \in Seq(Byte), NEW n \in Nat,
         NEW s, ReadInv(f, s, all, n), ~s.over,
         ~(Len(s.reader.out) - s.reader.off >= s.need), s.reader.isEnd
  PROVE  ReadInv(f, ReadOn(f, s), all, n) /\ ReadOn(f, s).over = TRUE
<1>1. PICK r : r = s.reader
  OBVIOUS
<1>2. PICK rest \in Seq(Byte) : Ready(f, r, rest) /\ all = s.bytes \o rest
  BY <1>1 DEF ReadInv
<1>3. s.bytes \in Seq(Byte) /\ s.need \in Nat \ {0} /\ Len(s.bytes) + s.need = n
  BY DEF ReadInv
<1>4. Left(r) = <<>> /\ rest = <<>> /\ r \in Readers
  BY <1>1, <1>2, ReadyType
<1>5. s.bytes \o <<>> = s.bytes
  BY <1>3, ConcatEmptySeq
<1>6. all = s.bytes /\ ~(n <= Len(all))
  <2>1. all = s.bytes
    BY <1>2, <1>4, <1>5
  <2>2. Len(s.bytes) \in Nat
    BY <1>3
  <2> QED
    BY <1>3, <2>1, <2>2
<1>7. PICK q : q = ReadOn(f, s)
  OBVIOUS
<1>8. q.over = r.isEnd /\ q.bytes = s.bytes \o Left(r)
  BY <1>1, <1>7 DEF ReadOn, Left
<1>9. q.over = TRUE /\ q.bytes = s.bytes
  BY <1>1, <1>4, <1>5, <1>8 DEF Readers
<1>10. ReadInv(f, q, all, n)
  BY <1>3, <1>6, <1>9 DEF ReadInv
<1> QED
  BY <1>7, <1>9, <1>10

\* A turn that takes what is left in the buffer and goes on to the next block.
LEMMA ReadOneBlock ==
  ASSUME NEW f, FileInv(f), NEW all \in Seq(Byte), NEW n \in Nat,
         NEW s, ReadInv(f, s, all, n), ~s.over,
         ~(Len(s.reader.out) - s.reader.off >= s.need), ~s.reader.isEnd
  PROVE  ReadInv(f, ReadOn(f, s), all, n) /\ TurnsLeft(f, ReadOn(f, s)) < TurnsLeft(f, s)
<1>1. PICK r : r = s.reader
  OBVIOUS
<1>2. PICK rest \in Seq(Byte) : Ready(f, r, rest) /\ all = s.bytes \o rest
  BY <1>1 DEF ReadInv
<1>3. s.bytes \in Seq(Byte) /\ s.need \in Nat \ {0} /\ Len(s.bytes) + s.need = n
  BY DEF ReadInv
<1>4. /\ r \in Readers /\ InFile(f, r) /\ f.num \in Nat /\ r.current \in 0 .. f.num
      /\ Left(r) \in Seq(Byte) /\ Len(Left(r)) = Len(r.out) - r.off
      /\ From(f.blocks, r.current + 1) \in Seq(Byte)
      /\ rest = Cat(Left(r), From(f.blocks, r.current + 1))
  BY <1>2, ReadyType
<1>5. r.isEnd = FALSE
  BY <1>1, <1>4 DEF Readers
<1>6. PICK d : d = DeCompressRead(f, r)
  OBVIOUS
<1>7. PICK u \in Seq(Byte) : u = From(f.blocks, r.current + 1)
  BY <1>4
<1>8. /\ Ready(f, d, u)
      /\ IF r.current < f.num THEN d.isEnd = FALSE /\ d.current = r.current + 1
                              ELSE d.isEnd = TRUE /\ d.current = r.current
  BY <1>4, <1>5, <1>6, <1>7, NextBlock
<1>9. PICK t \in Seq(Byte) : t = Left(r)
  BY <1>4
<1>10. PICK b \in Seq(Byte) : b = s.bytes
  BY <1>3
<1>11. PICK bt \in Seq(Byte) : bt = Cat(b, t)
  BY <1>9, <1>10, CatType
<1>12. Len(bt) = Len(b) + Len(t) /\ Len(t) < s.need /\ Len(t) \in Nat /\ Len(b) \in Nat
  <2>1. b \in Seq(Byte) /\ t \in Seq(Byte)
    BY <1>9, <1>10
  <2>2. Len(bt) = Len(b) + Len(t)
    BY <1>11, <2>1, CatType
  <2>3. Len(t) = Len(r.out) - r.off /\ ~(Len(r.out) - r.off >= s.need)
    BY <1>1, <1>4, <1>9
  <2>4. Len(t) \in Nat /\ Len(b) \in Nat
    BY <2>1
  <2> QED
    BY <1>3, <2>2, <2>3, <2>4
<1>13. all = bt \o u
  <2>1. all = Cat(b, Cat(t, u))
    BY <1>2, <1>4, <1>7, <1>9, <1>10 DEF Cat
  <2>2. b \in Seq(Byte) /\ t \in Seq(Byte) /\ u \in Seq(Byte)
    BY <1>7, <1>9, <1>10
  <2>3. Cat(b, Cat(t, u)) = Cat(Cat(b, t), u)
    BY <2>2, TakenTogether
  <2> QED
    BY <1>11, <2>1, <2>3 DEF Cat
<1>14. PICK q : q = ReadOn(f, s)
  OBVIOUS
<1>15. q.reader = d /\ q.need = s.need - Len(t) /\ q.over = FALSE /\ q.bytes = bt
  <2>1. q = [reader |-> DeCompressRead(f, r), need |-> s.need - Len(Left(r)),
             over |-> FALSE, bytes |-> s.bytes \o Left(r)]
    BY <1>1, <1>5, <1>14 DEF ReadOn, Left
  <2>2. bt = s.bytes \o Left(r)
    BY <1>9, <1>10, <1>11 DEF Cat
  <2> QED
    BY <1>6, <1>9, <2>1, <2>2
<1>16. ReadInv(f, q, all, n)
  <2>1. q.need \in Nat \ {0} /\ Len(q.bytes) + q.need = n
    <3>1. PICK k \in Nat \ {0} : k = s.need
      BY <1>3
    <3>2. Len(b) + k = n /\ Len(t) < k
      BY <1>3, <1>10, <1>12, <3>1
    <3>3. k - Len(t) \in Nat \ {0} /\ Len(bt) + (k - Len(t)) = n
      BY <1>12, <3>1, <3>2
    <3> QED
      BY <1>15, <3>1, <3>3
  <2>2. \E v \in Seq(Byte) : Ready(f, q.reader, v) /\ all = q.bytes \o v
    BY <1>7, <1>8, <1>13, <1>15
  <2>3. q.bytes \in Seq(Byte) /\ q.over \in BOOLEAN /\ ~q.over
    BY <1>11, <1>15
  <2> QED
    BY <2>1, <2>2, <2>3 DEF ReadInv
<1>17. TurnsLeft(f, q) < TurnsLeft(f, s)
  <2>1. TurnsLeft(f, s) = f.num - r.current + 2
    BY <1>1 DEF TurnsLeft
  <2>2. TurnsLeft(f, q) = IF d.isEnd THEN 1 ELSE f.num - d.current + 2
    BY <1>15 DEF TurnsLeft
  <2> QED
    BY <1>4, <1>8, <2>1, <2>2, SMTT(30)
<1> QED
  BY <1>14, <1>16, <1>17

\* A turn, whichever it is.
LEMMA ReadTurn ==
  ASSUME NEW f, FileInv(f), NEW all \in Seq(Byte), NEW n \in Nat,
         NEW s, ReadInv(f, s, all, n)
  PROVE  /\ ReadInv(f, ReadOn(f, s), all, n)
         /\ TurnsLeft(f, s) \in Nat
         /\ TurnsLeft(f, s) = 0 => s.over
         /\ ~s.over => TurnsLeft(f, ReadOn(f, s)) < TurnsLeft(f, s)
         /\ s.over => ReadOn(f, s) = s
<1>1. CASE s.over
  BY <1>1 DEF ReadOn, TurnsLeft
<1>2. CASE ~s.over
  <2>1. PICK rest \in Seq(Byte) : Ready(f, s.reader, rest)
    BY <1>2 DEF ReadInv
  <2>2. f.num \in Nat /\ s.reader.current \in 0 .. f.num
    BY <2>1, ReadyType
  <2>3. TurnsLeft(f, s) \in Nat \ {0}
    BY <1>2, <2>2 DEF TurnsLeft
  <2>4. CASE Len(s.reader.out) - s.reader.off >= s.need
    <3>1. ReadInv(f, ReadOn(f, s), all, n) /\ ReadOn(f, s).over = TRUE
      BY <1>2, <2>4, ReadEnough
    <3>2. TurnsLeft(f, ReadOn(f, s)) = 0
      BY <3>1 DEF TurnsLeft
    <3> QED
      BY <1>2, <2>3, <3>1, <3>2
  <2>5. CASE ~(Len(s.reader.out) - s.reader.off >= s.need) /\ s.reader.isEnd
    <3>1. ReadInv(f, ReadOn(f, s), all, n) /\ ReadOn(f, s).over = TRUE
      BY <1>2, <2>5, ReadLast
    <3>2. TurnsLeft(f, ReadOn(f, s)) = 0
      BY <3>1 DEF TurnsLeft
    <3> QED
      BY <1>2, <2>3, <3>1, <3>2
  <2>6. CASE ~(Len(s.reader.out) - s.reader.off >= s.need) /\ ~s.reader.isEnd
    BY <1>2, <2>3, <2>6, ReadOneBlock
  <2> QED
    BY <2>4, <2>5, <2>6
<1> QED
  BY <1>1, <1>2

\* Read() gives what it is asked for, or all that is left if that is less.
LEMMA ReadGood ==
  ASSUME NEW f, FileInv(f), NEW r, NEW all, Ready(f, r, all), NEW n \in Nat \ {0}
  PROVE  IF n <= Len(all)
         THEN Read(f, r, n).bytes = SubSeq(all, 1, n) /\ Between(f, Read(f, r, n).reader)
         ELSE Read(f, r, n).bytes = all
<1> DEFINE start == [reader |-> r, need |-> n, over |-> FALSE, bytes |-> <<>>]
           turns == Len(f.blocks) + 3
           F == CHOOSE g : g = [k \in 0 .. turns |-> IF k = 0 THEN start ELSE ReadOn(f, g[k - 1])]
<1>1. Read(f, r, n) = F[turns]
  BY Zenon DEF Read
<1>2. PICK m \in Nat : m = turns
  BY DEF FileInv, GoodBlocks
<1>3. ReadLoop(F, start, f, m)
  <2>1. \E g : ReadLoop(g, start, f, m)
    BY ReadLoopExists
  <2> QED
    BY <1>2, <2>1, Zenon DEF ReadLoop
<1>4. all \in Seq(Byte) /\ f.num \in Nat /\ r.current \in 0 .. f.num
  BY ReadyType
<1>5. ReadInv(f, start, all, n) /\ TurnsLeft(f, start) \in Nat /\ TurnsLeft(f, start) <= m
  <2>1. PICK e \in Seq(Byte) : e = <<>>
    BY EmptySeq
  <2>2. e \o all = all /\ Len(e) = 0
    BY <1>4, <2>1, ConcatEmptySeq
  <2>3. ReadInv(f, start, all, n)
    BY <1>4, <2>1, <2>2 DEF ReadInv
  <2>4. f.num = Len(f.blocks)
    BY DEF FileInv
  <2> QED
    BY <1>2, <1>4, <2>3, <2>4 DEF TurnsLeft
<1> HIDE DEF F, start, turns
<1>6. F[0] = start /\ \A k \in 1 .. m : F[k] = ReadOn(f, F[k - 1])
  BY <1>3, ReadLoopAt
<1> DEFINE T == {k \in 0 .. m : /\ ReadInv(f, F[k], all, n)
                                /\ TurnsLeft(f, F[k]) \in Nat /\ TurnsLeft(f, F[k]) <= m - k}
<1>7. 0 \in T
  BY <1>5, <1>6
<1>8. ASSUME NEW k \in 1 .. m, k - 1 \in T PROVE k \in T
  <2>1. PICK s : s = F[k - 1]
    OBVIOUS
  <2>2. ReadInv(f, s, all, n) /\ TurnsLeft(f, s) \in Nat /\ TurnsLeft(f, s) <= m - (k - 1)
    BY <1>8, <2>1
  <2>3. PICK q : q = ReadOn(f, s)
    OBVIOUS
  <2>4. F[k] = q
    BY <1>6, <2>1, <2>3
  <2>5. /\ ReadInv(f, q, all, n)
        /\ ~s.over => TurnsLeft(f, q) < TurnsLeft(f, s)
        /\ s.over => q = s
    BY <1>4, <2>2, <2>3, ReadTurn
  <2>6. TurnsLeft(f, q) \in Nat
    BY <1>4, <2>5, ReadTurn
  <2>7. CASE s.over
    <3>1. TurnsLeft(f, q) = 0
      BY <2>5, <2>7 DEF TurnsLeft
    <3> QED
      BY <2>4, <2>5, <2>6, <3>1
  <2>8. CASE ~s.over
    BY <2>2, <2>4, <2>5, <2>6, <2>8
  <2> QED
    BY <2>7, <2>8
<1>9. m \in T
  <2> HIDE DEF T
  <2>1. \A k \in 0 .. m : k \in T
    BY <1>7, <1>8, UpTo
  <2> QED
    BY <2>1
<1>10. PICK q : q = F[m]
  OBVIOUS
<1>11. ReadInv(f, q, all, n) /\ TurnsLeft(f, q) = 0
  BY <1>9, <1>10
<1>12. q.over
  BY <1>4, <1>11, ReadTurn
<1>13. IF n <= Len(all) THEN q.bytes = SubSeq(all, 1, n) /\ Between(f, q.reader) ELSE q.bytes = all
  BY <1>11, <1>12 DEF ReadInv
<1>14. Read(f, r, n) = q
  BY <1>1, <1>2, <1>10
<1> QED
  BY <1>13, <1>14

\* A place in the k-th block: what is behind it.
LEMMA Placed ==
  ASSUME NEW f, FileInv(f), NEW k \in 1 .. f.num,
         NEW P \in Seq(Byte), NEW Q \in Seq(Byte), FlattenSeq(f.blocks) = Cat(P, Q),
         Len(Before(f.blocks, k - 1)) <= Len(P), Len(P) <= Len(Before(f.blocks, k)),
         NEW within, within = Len(P) - Len(Before(f.blocks, k - 1))
  PROVE  /\ within \in 0 .. Len(f.blocks[k])
         /\ Q = SubSeq(f.blocks[k], within + 1, Len(f.blocks[k])) \o From(f.blocks, k + 1)
<1>1. k \in 1 .. Len(f.blocks) /\ GoodBlocks(f.blocks) /\ k \in 0 .. Len(f.blocks)
  BY DEF FileInv, GoodBlocks
<1>2. PICK a \in Seq(Byte) : a = Before(f.blocks, k - 1)
  BY <1>1, BlocksAre
<1>3. PICK x \in Seq(Byte) : x = f.blocks[k]
  BY <1>1, BlocksAre
<1>4. PICK z \in Seq(Byte) : z = From(f.blocks, k + 1)
  BY <1>1, BlocksAre
<1>5. a \in Seq(Byte) /\ x \in Seq(Byte) /\ z \in Seq(Byte)
  BY <1>2, <1>3, <1>4
<1>6. Before(f.blocks, k) = Cat(a, x)
  BY <1>1, <1>2, <1>3, BlocksAre DEF Cat
<1>7. FlattenSeq(f.blocks) = Cat(Cat(a, x), z)
  BY <1>1, <1>4, <1>6, BlocksTogether DEF Cat
<1>8. Len(a) \in Nat /\ Len(x) \in Nat /\ Len(P) \in Nat /\ Len(Cat(a, x)) = Len(a) + Len(x)
  <2>1. Len(Cat(a, x)) = Len(a) + Len(x)
    BY <1>5, CatType
  <2>2. Len(a) \in Nat /\ Len(x) \in Nat /\ Len(P) \in Nat
    BY <1>5
  <2> QED
    BY <2>1, <2>2
<1>9. within \in 0 .. Len(x) /\ Len(a) + within = Len(P)
  BY <1>2, <1>6, <1>8
<1>10. PICK p \in Seq(Byte) : p = SubSeq(x, 1, within)
  BY <1>5, <1>9, CutAt
<1>11. PICK q \in Seq(Byte) : q = SubSeq(x, within + 1, Len(x))
  BY <1>5, <1>9, CutAt
<1>12. Len(p) = within /\ x = Cat(p, q)
  <2>1. /\ Len(SubSeq(x, 1, within)) = within
        /\ x = SubSeq(x, 1, within) \o SubSeq(x, within + 1, Len(x))
    BY <1>5, <1>9, CutAt, ZenonT(30)
  <2>2. Len(p) = within /\ x = p \o q
    BY <1>10, <1>11, <2>1
  <2> QED
    BY <2>2 DEF Cat
<1>13. p \in Seq(Byte) /\ q \in Seq(Byte)
  BY <1>10, <1>11
<1>14. Cat(Cat(a, Cat(p, q)), z) = Cat(Cat(a, p), Cat(q, z))
  <2>1. Cat(a, Cat(p, q)) = Cat(Cat(a, p), q)
    BY <1>5, <1>13, TakenTogether
  <2>2. Cat(Cat(Cat(a, p), q), z) = Cat(Cat(a, p), Cat(q, z))
    BY <1>5, <1>13, CatAssociative
  <2> QED
    BY <2>1, <2>2
<1>15. PICK ap \in Seq(Byte) : ap = Cat(a, p)
  BY <1>5, <1>13, CatType
<1>16. PICK qz \in Seq(Byte) : qz = Cat(q, z)
  BY <1>5, <1>13, CatType
<1>17. Len(ap) = Len(P)
  BY <1>5, <1>9, <1>12, <1>13, <1>15, CatType
<1>18. Cat(P, Q) = Cat(ap, qz)
  BY <1>7, <1>12, <1>14, <1>15, <1>16
<1>19. Q = qz
  <2>1. ap \in Seq(Byte) /\ qz \in Seq(Byte)
    BY <1>15, <1>16
  <2> QED
    BY <1>17, <1>18, <2>1, CatCancel
<1>20. Q = q \o z
  BY <1>16, <1>19 DEF Cat
<1> QED
  BY <1>3, <1>4, <1>9, <1>11, <1>20

\* A reader in that place.
LEMMA PlacedReady ==
  ASSUME NEW f, FileInv(f), NEW k \in 1 .. f.num,
         NEW P \in Seq(Byte), NEW Q \in Seq(Byte), FlattenSeq(f.blocks) = Cat(P, Q),
         Len(Before(f.blocks, k - 1)) <= Len(P), Len(P) <= Len(Before(f.blocks, k)),
         NEW d, d = [current |-> k, out |-> f.blocks[k],
                     off |-> Len(P) - Len(Before(f.blocks, k - 1)), isEnd |-> FALSE, fpos |-> k + 1]
  PROVE  Ready(f, d, Q)
<1>1. PICK within : within = Len(P) - Len(Before(f.blocks, k - 1))
  OBVIOUS
<1>2. PICK x : x = f.blocks[k]
  OBVIOUS
<1>3. within \in 0 .. Len(x) /\ Q = SubSeq(x, within + 1, Len(x)) \o From(f.blocks, k + 1)
  BY <1>1, <1>2, Placed
<1>4. d = [current |-> k, out |-> x, off |-> within, isEnd |-> FALSE, fpos |-> k + 1]
  BY <1>1, <1>2
<1>5. x \in Seq(Byte) /\ f.num \in Nat /\ k \in 1 .. f.num
  <2>1. k \in 1 .. Len(f.blocks) /\ GoodBlocks(f.blocks) /\ f.num \in Nat
    BY SMTT(30) DEF FileInv, GoodBlocks
  <2> QED
    BY <1>2, <2>1, BlocksAre
<1>6. within \in Nat /\ k \in Nat /\ within <= Len(x)
  BY <1>3, <1>5
<1>7. d \in Readers
  BY <1>4, <1>5, <1>6 DEF Readers
<1>8. InFile(f, d)
  BY <1>4, <1>5, <1>7 DEF InFile
<1>9. Q = Left(d) \o From(f.blocks, d.current + 1)
  <2>1. d.out = x /\ d.off = within /\ d.current = k
    BY <1>4
  <2>2. Left(d) = SubSeq(x, within + 1, Len(x))
    BY <2>1 DEF Left
  <2> QED
    BY <1>3, <2>1, <2>2
<1>10. d.current > 0 /\ d.out = f.blocks[d.current] /\ d.isEnd = FALSE /\ d.off <= Len(d.out)
  <2>1. d.current = k /\ d.out = x /\ d.isEnd = FALSE /\ d.off = within
    BY <1>4
  <2>2. k > 0
    BY <1>5
  <2> QED
    BY <1>2, <1>6, <2>1, <2>2
<1> QED
  BY <1>8, <1>9, <1>10 DEF Ready

\* The block that Seek() finds.
LastTo(f, vplace, k) ==
  /\ VirtualOffset(f, k) <= vplace
  /\ \A j \in 0 .. f.num : VirtualOffset(f, j) <= vplace => j <= k

\* There is one: the first block begins at 0.
LEMMA LastExists ==
  ASSUME NEW f, FileInv(f), NEW vplace \in Nat
  PROVE  \E k \in 0 .. f.num : LastTo(f, vplace, k)
<1>1. f.num \in Nat /\ GoodBlocks(f.blocks)
  BY DEF FileInv, GoodBlocks
<1> DEFINE T == {k \in 0 .. f.num : VirtualOffset(f, k) <= vplace}
<1>2. T \in SUBSET (0 .. f.num)
  OBVIOUS
<1>3. 0 \in T
  <2>1. 0 \in 0 .. f.num
    BY <1>1
  <2>2. VirtualOffset(f, 0) = Len(Before(f.blocks, 0)) /\ Before(f.blocks, 0) = <<>>
    BY <1>1, <2>1, Offsets, BlocksEnds
  <2>3. VirtualOffset(f, 0) = 0
    BY <2>2
  <2> QED
    BY <2>1, <2>3
<1>4. PICK k \in T : \A j \in T : j <= k
  <2> HIDE DEF T
  <2> QED
    BY <1>1, <1>2, <1>3, Greatest
<1> QED
  BY <1>4 DEF LastTo

\* So seek() goes there.
LEMMA SeekFinds ==
  ASSUME NEW f, FileInv(f), NEW vplace \in Nat, vplace <= Size(f), NEW r
  PROVE  \E k \in 0 .. f.num :
           /\ LastTo(f, vplace, k)
           /\ Seek(f, r, vplace) =
                IF SameBlock(r, k)
                THEN [r EXCEPT !.off = vplace - VirtualOffset(f, k), !.isEnd = FALSE]
                ELSE [DeCompressRead(f, [r EXCEPT !.current = k, !.fpos = RealOffset(f, k)])
                      EXCEPT !.off = vplace - VirtualOffset(f, k)]
<1> DEFINE block == CHOOSE k \in 0 .. f.num :
                      /\ VirtualOffset(f, k) <= vplace
                      /\ \A j \in 0 .. f.num : VirtualOffset(f, j) <= vplace => j <= k
<1>1. block \in 0 .. f.num /\ LastTo(f, vplace, block)
  <2>1. \E k \in 0 .. f.num :
          /\ VirtualOffset(f, k) <= vplace
          /\ \A j \in 0 .. f.num : VirtualOffset(f, j) <= vplace => j <= k
    BY LastExists DEF LastTo
  <2> QED
    BY <2>1, Zenon DEF LastTo
<1>2. ~(vplace > Size(f))
  <2>1. Size(f) \in Nat
    <3>1. f.num \in Nat /\ f.num \in 0 .. f.num /\ GoodBlocks(f.blocks)
      BY DEF FileInv, GoodBlocks
    <3>2. Size(f) = Len(FlattenSeq(f.blocks)) /\ FlattenSeq(f.blocks) \in Seq(Byte)
      BY <3>1, Offsets, BlocksTogether DEF FileInv
    <3> QED
      BY <3>2
  <2> QED
    BY <2>1
<1>3. Seek(f, r, vplace) =
        IF SameBlock(r, block)
        THEN [r EXCEPT !.off = vplace - VirtualOffset(f, block), !.isEnd = FALSE]
        ELSE [DeCompressRead(f, [r EXCEPT !.current = block, !.fpos = RealOffset(f, block)])
              EXCEPT !.off = vplace - VirtualOffset(f, block)]
  BY <1>2 DEF Seek
<1> HIDE DEF block
<1> QED
  BY <1>1, <1>3

\* A reader that is moved, field by field.
LEMMA ReaderMoved ==
  ASSUME NEW r \in Readers, NEW n \in Nat, NEW k \in Nat, NEW p \in Nat
  PROVE  /\ [r EXCEPT !.off = n, !.isEnd = FALSE]
              = [current |-> r.current, out |-> r.out, off |-> n, isEnd |-> FALSE, fpos |-> r.fpos]
         /\ [r EXCEPT !.current = k, !.fpos = p]
              = [current |-> k, out |-> r.out, off |-> r.off, isEnd |-> r.isEnd, fpos |-> p]
         /\ [r EXCEPT !.current = k, !.fpos = p] \in Readers
<1>1. PICK a : a = [r EXCEPT !.off = n]
  OBVIOUS
<1>2. a = [current |-> r.current, out |-> r.out, off |-> n, isEnd |-> r.isEnd, fpos |-> r.fpos]
  BY <1>1, ReaderAt
<1>3. PICK c : c = [a EXCEPT !.isEnd = FALSE]
  OBVIOUS
<1>4. [r EXCEPT !.off = n, !.isEnd = FALSE] = c
  BY <1>1, <1>3
<1>10. c = [current |-> r.current, out |-> r.out, off |-> n, isEnd |-> FALSE, fpos |-> r.fpos]
  BY <1>2, <1>3
<1>5. PICK b : b = [r EXCEPT !.current = k]
  OBVIOUS
<1>6. b = [current |-> k, out |-> r.out, off |-> r.off, isEnd |-> r.isEnd, fpos |-> r.fpos]
  BY <1>5 DEF Readers
<1>7. [r EXCEPT !.current = k, !.fpos = p] = [b EXCEPT !.fpos = p]
  BY <1>5
<1>8. [b EXCEPT !.fpos = p]
        = [current |-> k, out |-> r.out, off |-> r.off, isEnd |-> r.isEnd, fpos |-> p]
  BY <1>6
<1>9. [current |-> k, out |-> r.out, off |-> r.off, isEnd |-> r.isEnd, fpos |-> p] \in Readers
  BY DEF Readers
<1> QED
  BY <1>4, <1>10, <1>7, <1>8, <1>9

\* Seek() from anywhere between two calls: the reader is ready for what comes
\* behind the offset.
LEMMA SeekGood ==
  ASSUME NEW f, FileInv(f), NEW r, Between(f, r),
         NEW P \in Seq(Byte), NEW Q \in Seq(Byte), FlattenSeq(f.blocks) = Cat(P, Q)
  PROVE  Ready(f, Seek(f, r, Len(P)), Q)
<1>1. /\ f.num \in Nat /\ f.num = Len(f.blocks) /\ GoodBlocks(f.blocks) /\ r \in Readers
      /\ r.current \in 0 .. f.num /\ r.fpos = r.current + 1 /\ r.isEnd = FALSE
      /\ f.num \in 0 .. f.num
  BY DEF FileInv, GoodBlocks, Between, InFile, Readers
<1>2. PICK vplace \in Nat : vplace = Len(P)
  OBVIOUS
<1>3. Size(f) = vplace + Len(Q) /\ Len(Q) \in Nat
  <2>1. Size(f) = Len(FlattenSeq(f.blocks))
    BY <1>1, Offsets
  <2> QED
    BY <1>2, <2>1, CatType
<1>4. PICK k \in 0 .. f.num :
        /\ LastTo(f, vplace, k)
        /\ Seek(f, r, vplace) =
             IF SameBlock(r, k)
             THEN [r EXCEPT !.off = vplace - VirtualOffset(f, k), !.isEnd = FALSE]
             ELSE [DeCompressRead(f, [r EXCEPT !.current = k, !.fpos = RealOffset(f, k)])
                   EXCEPT !.off = vplace - VirtualOffset(f, k)]
  <2>1. vplace <= Size(f)
    BY <1>2, <1>3
  <2> QED
    BY <2>1, SeekFinds
<1>5. VirtualOffset(f, k) = Len(Before(f.blocks, k)) /\ RealOffset(f, k) = k + 1
  BY <1>4, Offsets
<1>6. PICK within : within = vplace - Len(Before(f.blocks, k))
  OBVIOUS
<1>7. Len(Before(f.blocks, k)) \in Nat /\ Len(Before(f.blocks, k)) <= vplace /\ within \in Nat
  <2>1. Before(f.blocks, k) \in Seq(Byte)
    BY <1>1, <1>4, BlocksTogether
  <2>2. Len(Before(f.blocks, k)) \in Nat
    BY <2>1
  <2>3. Len(Before(f.blocks, k)) <= vplace
    BY <1>4, <1>5 DEF LastTo
  <2> QED
    BY <1>6, <2>2, <2>3
<1>8. PICK d : d = Seek(f, r, vplace)
  OBVIOUS
<1>9. ASSUME k < f.num
      PROVE  /\ k + 1 \in 1 .. f.num
             /\ vplace <= Len(Before(f.blocks, k + 1))
  <2>1. k + 1 \in 0 .. f.num /\ k \in Nat
    BY <1>1, <1>4, <1>9
  <2>2. VirtualOffset(f, k + 1) = Len(Before(f.blocks, k + 1))
    BY <2>1, Offsets
  <2>3. Len(Before(f.blocks, k + 1)) \in Nat
    <3>1. Before(f.blocks, k + 1) \in Seq(Byte)
      BY <1>1, <2>1, BlocksTogether
    <3> QED
      BY <3>1
  <2>4. ~(VirtualOffset(f, k + 1) <= vplace)
    <3>1. ~(k + 1 <= k)
      BY <2>1
    <3> QED
      BY <1>4, <2>1, <3>1 DEF LastTo
  <2> QED
    BY <1>1, <1>2, <1>9, <2>1, <2>2, <2>3, <2>4
<1>10. ASSUME k < f.num,
              d = [current |-> k + 1, out |-> f.blocks[k + 1], off |-> within,
                   isEnd |-> FALSE, fpos |-> (k + 1) + 1]
       PROVE  Ready(f, d, Q)
  <2>1. PICK c : c = k + 1
    OBVIOUS
  <2>2. c \in 1 .. f.num /\ vplace <= Len(Before(f.blocks, c)) /\ c - 1 = k
    BY <1>4, <1>9, <1>10, <2>1
  <2>3. d = [current |-> c, out |-> f.blocks[c], off |-> Len(P) - Len(Before(f.blocks, c - 1)),
             isEnd |-> FALSE, fpos |-> c + 1]
    BY <1>2, <1>6, <1>10, <2>1, <2>2
  <2>4. Len(Before(f.blocks, c - 1)) <= Len(P) /\ Len(P) <= Len(Before(f.blocks, c))
    BY <1>2, <1>7, <2>2
  <2> QED
    BY <2>2, <2>3, <2>4, PlacedReady
<1>11. CASE SameBlock(r, k)
  <2>1. r.current = k + 1 /\ k < f.num /\ r.current > 0
    BY <1>1, <1>4, <1>11 DEF SameBlock
  <2>2. r.out = f.blocks[k + 1]
    BY <2>1 DEF Between
  <2>3. d = [r EXCEPT !.off = within, !.isEnd = FALSE]
    BY <1>4, <1>5, <1>6, <1>8, <1>11
  <2>4. d = [current |-> r.current, out |-> r.out, off |-> within, isEnd |-> FALSE, fpos |-> r.fpos]
    <3>1. \A p \in Nat, q \in Nat :
            [r EXCEPT !.off = within, !.isEnd = FALSE]
              = [current |-> r.current, out |-> r.out, off |-> within, isEnd |-> FALSE, fpos |-> r.fpos]
      BY <1>1, <1>7, ReaderMoved
    <3> QED
      BY <2>3, <3>1
  <2>5. d = [current |-> k + 1, out |-> f.blocks[k + 1], off |-> within,
             isEnd |-> FALSE, fpos |-> (k + 1) + 1]
    BY <1>1, <2>1, <2>2, <2>4
  <2> QED
    BY <1>2, <1>8, <1>10, <2>1, <2>5
<1>12. CASE ~SameBlock(r, k)
  <2>1. PICK a : a = [r EXCEPT !.current = k, !.fpos = k + 1]
    OBVIOUS
  <2>2. k \in Nat /\ k + 1 \in Nat
    BY <1>4
  <2>3. /\ a = [current |-> k, out |-> r.out, off |-> r.off, isEnd |-> r.isEnd, fpos |-> k + 1]
        /\ a \in Readers
    BY <1>1, <2>1, <2>2, ReaderMoved
  <2>4. InFile(f, a) /\ a.isEnd = FALSE /\ a.current = k
    <3>1. a.current = k /\ a.fpos = k + 1 /\ a.isEnd = FALSE
      BY <1>1, <2>3
    <3>2. k <= f.num
      BY <1>1, <1>4
    <3> QED
      BY <2>3, <3>1, <3>2 DEF InFile
  <2>5. PICK b : b = DeCompressRead(f, a)
    OBVIOUS
  <2>6. /\ Ready(f, b, From(f.blocks, k + 1)) /\ b.off = 0
        /\ IF k < f.num THEN b.isEnd = FALSE /\ b.current = k + 1
                        ELSE b.isEnd = TRUE /\ b.current = k
    BY <2>4, <2>5, NextBlock
  <2>7. d = [b EXCEPT !.off = within]
    BY <1>4, <1>5, <1>6, <1>8, <1>12, <2>1, <2>5
  <2>8. b \in Readers /\ InFile(f, b)
    BY <2>6, ReadyType
  <2>9. d = [current |-> b.current, out |-> b.out, off |-> within, isEnd |-> b.isEnd, fpos |-> b.fpos]
    BY <1>7, <2>7, <2>8, ReaderAt
  <2>10. CASE k < f.num
    <3>1. b.current = k + 1 /\ b.isEnd = FALSE /\ b.fpos = (k + 1) + 1
      BY <2>6, <2>8, <2>10 DEF InFile
    <3>2. b.out = f.blocks[k + 1]
      BY <2>6, <3>1 DEF Ready
    <3>3. d = [current |-> k + 1, out |-> f.blocks[k + 1], off |-> within,
               isEnd |-> FALSE, fpos |-> (k + 1) + 1]
      BY <2>9, <3>1, <3>2
    <3> QED
      BY <1>2, <1>8, <1>10, <2>10, <3>3
  <2>11. CASE ~(k < f.num)
    <3>1. k = f.num
      BY <1>1, <1>4, <2>11
    <3>2. Len(Before(f.blocks, k)) = Size(f)
      BY <1>1, <3>1, Offsets, BlocksEnds
    <3>3. Len(Q) = 0 /\ within = 0
      BY <1>2, <1>3, <1>6, <1>7, <3>2
    <3>4. Q = <<>>
      BY <3>3
    <3>5. From(f.blocks, k + 1) = <<>>
      BY <1>1, <3>1, BlocksEnds
    <3>6. d = b
      BY <2>6, <2>7, <2>8, <3>3 DEF Readers
    <3> QED
      BY <1>2, <1>8, <2>6, <3>4, <3>5, <3>6
  <2> QED
    BY <2>10, <2>11
<1> QED
  BY <1>11, <1>12

\* A reader that was just opened has no block out yet.
LEMMA NewReaderBetween ==
  ASSUME NEW f, FileInv(f)
  PROVE  Between(f, NewReader)
<1>1. PICK e \in Seq(Byte) : e = <<>>
  BY EmptySeq
<1>2. NewReader = [current |-> 0, out |-> e, off |-> 0, isEnd |-> FALSE, fpos |-> 1]
  BY <1>1 DEF NewReader
<1>3. NewReader \in Readers
  BY <1>2 DEF Readers
<1>4. f.num \in Nat
  BY DEF FileInv, GoodBlocks
<1> QED
  BY <1>2, <1>3, <1>4 DEF Between, InFile

\* An event that is read where it begins, and the end of the file.
LEMMA ReadAtGood ==
  ASSUME NEW f, FileInv(f), NEW r, Between(f, r),
         NEW P \in Seq(Byte), NEW x \in Seq(Byte), NEW z \in Seq(Byte),
         FlattenSeq(f.blocks) = Cat(P, Cat(x, z)), x # <<>>
  PROVE  /\ Read(f, Seek(f, r, Len(P)), Len(x)).bytes = x
         /\ Between(f, Read(f, Seek(f, r, Len(P)), Len(x)).reader)
<1>1. PICK Q \in Seq(Byte) : Q = Cat(x, z)
  BY CatType
<1>2. PICK s : s = Seek(f, r, Len(P))
  OBVIOUS
<1>3. Ready(f, s, Q)
  BY <1>1, <1>2, SeekGood
<1>4. PICK n \in Nat \ {0} : n = Len(x)
  OBVIOUS
<1>5. n <= Len(Q) /\ SubSeq(Q, 1, n) = x
  <2>1. Len(Q) = Len(x) + Len(z) /\ Len(z) \in Nat
    BY <1>1, CatType
  <2>2. SubSeq(Q, 1, Len(x)) = x
    BY <1>1, CatFront
  <2> QED
    BY <1>4, <2>1, <2>2
<1>6. Read(f, s, n).bytes = SubSeq(Q, 1, n) /\ Between(f, Read(f, s, n).reader)
  BY <1>3, <1>5, ReadGood
<1> QED
  BY <1>2, <1>4, <1>5, <1>6

\* Behind the last byte nothing is read.
LEMMA ReadAtEnd ==
  ASSUME NEW f, FileInv(f), NEW r, Between(f, r),
         NEW P \in Seq(Byte), FlattenSeq(f.blocks) = P, NEW n \in Nat \ {0}
  PROVE  Read(f, Seek(f, r, Len(P)), n).bytes = <<>>
<1>1. PICK e \in Seq(Byte) : e = <<>>
  BY EmptySeq
<1>2. FlattenSeq(f.blocks) = Cat(P, e)
  BY <1>1, CatEmpty
<1>3. PICK s : s = Seek(f, r, Len(P))
  OBVIOUS
<1>4. Ready(f, s, e)
  BY <1>1, <1>2, <1>3, SeekGood
<1>5. ~(n <= Len(e))
  BY <1>1
<1>6. Read(f, s, n).bytes = e
  BY <1>4, <1>5, ReadGood
<1> QED
  BY <1>1, <1>3, <1>6

------------------------------------------------------------------------------
\* The file of blocks.

\* The bytes of an event.
LEMMA BytesType ==
  ASSUME NEW i \in Nat, NEW n \in Sizes
  PROVE  /\ Len(Bytes(i, n)) = 1 /\ Bytes(i, n)[1] \in Seq(Byte) /\ Len(Bytes(i, n)[1]) = n
         /\ Bytes(i, n) = <<Bytes(i, n)[1]>> /\ Bytes(i, n) \in Seq(Seq(Byte))
<1>1. n \in Nat
  BY EventFileAssumption
<1>2. PICK x : x = [j \in 1 .. n |-> 10 * i + j]
  OBVIOUS
<1>3. \A j \in 1 .. n : x[j] \in Byte
  BY <1>1, <1>2 DEF Byte
<1>4. x = [j \in 1 .. n |-> x[j]]
  BY <1>2
<1>5. x \in Seq(Byte) /\ Len(x) = n
  BY <1>1, <1>3, <1>4, AsSequence
<1>6. Bytes(i, n) = <<x>>
  BY <1>2 DEF Bytes
<1> QED
  BY <1>5, <1>6

\* The bytes of events, when there is one more of them.
LEMMA OneEventMore ==
  ASSUME NEW es \in Seq(Seq(Seq(Byte))), NEW x \in Seq(Byte)
  PROVE  /\ Append(es, <<x>>) \in Seq(Seq(Seq(Byte)))
         /\ FlattenSeq(FlattenSeq(Append(es, <<x>>))) = FlattenSeq(FlattenSeq(es)) \o x
<1>1. PICK e : e = <<x>>
  OBVIOUS
<1>2. e \in Seq(Seq(Byte)) /\ FlattenSeq(e) = x
  BY <1>1, FlattenOne
<1>3. Append(es, e) \in Seq(Seq(Seq(Byte)))
  BY <1>2
<1>4. PICK p \in Seq(Seq(Byte)) : p = FlattenSeq(es)
  BY FlattenType
<1>5. FlattenSeq(Append(es, e)) = p \o e
  BY <1>2, <1>4, FlattenAppend
<1>6. FlattenSeq(p \o e) = FlattenSeq(p) \o FlattenSeq(e)
  BY <1>2, <1>4, FlattenConcat
<1> QED
  BY <1>1, <1>2, <1>3, <1>4, <1>5, <1>6

\* What is in the file, or on its way there, are the bytes of the events that
\* were accepted, and the table tells the truth.
BlocksInv ==
  format = "lzo" =>
    /\ log \in Seq(Seq(Seq(Byte)))
    /\ phase = "writing" => WriterInv(writer) /\ Given(writer) = FlattenSeq(FlattenSeq(log))
    /\ phase # "writing" => FileInv(file) /\ FlattenSeq(file.blocks) = FlattenSeq(FlattenSeq(log))

\* A new writer was given nothing.
LEMMA NewWriterGood == WriterInv(NewWriter) /\ Given(NewWriter) = <<>>
<1>1. PICK s \in Seq(Seq(Byte)) : s = <<>>
  BY EmptySeq
<1>2. PICK b \in Seq(Byte) : b = <<>>
  BY EmptySeq
<1>3. PICK t \in Seq(Entries) : t = <<>>
  BY EmptySeq
<1>4. Len(s) = 0 /\ Len(b) = 0 /\ Len(t) = 0
  BY <1>1, <1>2, <1>3
<1>5. FlattenSeq(s) = b
  BY <1>1, <1>2, FlattenEmpty
<1>6. NewWriter = [buf |-> b, blocks |-> s, table |-> t, total |-> 0]
  BY <1>1, <1>2, <1>3 DEF NewWriter
<1>7. GoodBlocks(s) /\ TableOf(t, s, 0)
  BY <1>4 DEF GoodBlocks, TableOf
<1>8. NewWriter \in Writers
  BY <1>6 DEF Writers
<1>9. b \o b = <<>>
  BY <1>2
<1>10. Len(b) <= BlockSize
  BY <1>4, LzoFileAssumption
<1> QED
  BY <1>4, <1>5, <1>6, <1>7, <1>8, <1>9, <1>10 DEF WriterInv, Given

\* The invariant holds at first.
LEMMA BlocksInit == Init => BlocksInv
<1> SUFFICES ASSUME Init PROVE BlocksInv
  OBVIOUS
<1>1. log = <<>> /\ writer = NewWriter /\ phase = "writing"
  BY DEF Init
<1>2. PICK p \in Seq(Seq(Byte)) : p = <<>>
  BY EmptySeq
<1>3. FlattenSeq(FlattenSeq(log)) = <<>>
  BY <1>1, FlattenEmpty
<1>4. log \in Seq(Seq(Seq(Byte)))
  BY <1>1
<1> QED
  BY <1>1, <1>3, <1>4, NewWriterGood DEF BlocksInv

\* Every step keeps it.
LEMMA BlocksNext == BlocksInv /\ [Next]_vars => BlocksInv'
<1> SUFFICES ASSUME BlocksInv, [Next]_vars, format = "lzo" PROVE BlocksInv'
  BY DEF BlocksInv, Next, vars, WriteBlocks, WriteText, Open, ReadBlocks, ReadText
<1>1. log \in Seq(Seq(Seq(Byte)))
  BY DEF BlocksInv
<1>2. ASSUME NEW e, WriteBlocks(e) PROVE BlocksInv'
  <2>1. PICK n \in Sizes : e = Bytes(Len(log) + 1, n)
    BY <1>2 DEF WriteBlocks
  <2>2. PICK x \in Seq(Byte) : e = <<x>>
    <3>1. Len(log) + 1 \in Nat
      BY <1>1
    <3> QED
      BY <2>1, <3>1, BytesType
  <2>3. phase = "writing" /\ phase' = "writing" /\ writer' = Written(writer, x)
        /\ log' = IF Refused(writer) THEN log ELSE Append(log, <<x>>)
    BY <1>2, <2>2 DEF WriteBlocks
  <2>4. WriterInv(writer) /\ Given(writer) = FlattenSeq(FlattenSeq(log))
    BY <2>3 DEF BlocksInv
  <2>5. PICK v : v = Written(writer, x)
    OBVIOUS
  <2>6. WriterInv(v) /\ Given(v) = IF Refused(writer) THEN Given(writer) ELSE Given(writer) \o x
    BY <2>4, <2>5, WrittenGood
  <2>7. log' \in Seq(Seq(Seq(Byte))) /\ Given(v) = FlattenSeq(FlattenSeq(log'))
    <3>1. CASE Refused(writer)
      BY <1>1, <2>3, <2>4, <2>6, <3>1
    <3>2. CASE ~Refused(writer)
      BY <1>1, <2>3, <2>4, <2>6, <3>2, OneEventMore
    <3> QED
      BY <3>1, <3>2
  <2>8. WriterInv(v)' /\ Given(v)' = Given(v)
    BY <2>6 DEF WriterInv, Given
  <2> QED
    BY <2>3, <2>5, <2>6, <2>7 DEF BlocksInv
<1>3. CASE Open
  <2>1. phase = "writing" /\ phase' = "reading" /\ file' = Closed(writer) /\ log' = log
    BY <1>3 DEF Open
  <2>2. WriterInv(writer) /\ Given(writer) = FlattenSeq(FlattenSeq(log))
    BY <2>1 DEF BlocksInv
  <2>3. FileInv(Closed(writer)) /\ FlattenSeq(Closed(writer).blocks) = FlattenSeq(FlattenSeq(log))
    BY <2>2, ClosedGood
  <2> QED
    BY <1>1, <2>1, <2>3 DEF BlocksInv
<1>4. CASE ReadBlocks
  <2>1. phase = "reading" /\ phase' \in {"reading", "over"} /\ file' = file /\ log' = log
    BY <1>4 DEF ReadBlocks
  <2>2. phase # "writing" /\ phase' # "writing"
    BY <2>1
  <2> QED
    BY <1>1, <2>1, <2>2 DEF BlocksInv
<1>5. CASE UNCHANGED vars
  BY <1>5 DEF BlocksInv, vars
<1>6. ASSUME NEW e PROVE ~WriteText(e) /\ ~ReadText
  BY DEF WriteText, ReadText
<1> QED
  BY <1>2, <1>3, <1>4, <1>5, <1>6 DEF Next

\* So it always holds.
LEMMA BlocksAlways == Spec => []BlocksInv
<1> QED
  BY BlocksInit, BlocksNext, PTL DEF Spec

\* The file of blocks holds the bytes of the events that were accepted, no
\* others and none twice, and its table finds every block.
THEOREM TableCorrect == Spec => []TableRight
<1>1. BlocksInv => TableRight
  <2> SUFFICES ASSUME BlocksInv, format = "lzo", phase # "writing" PROVE TableRight
    BY DEF TableRight
  <2>1. FileInv(file) /\ FlattenSeq(file.blocks) = FlattenSeq(FlattenSeq(log))
    BY DEF BlocksInv
  <2>2. PICK m : m = Len(file.blocks) + 1
    OBVIOUS
  <2>3. TableOf(file.table, file.blocks, m)
    BY <2>1, <2>2 DEF FileInv
  <2>4. Len(file.table) = m /\ \A k \in 1 .. m :
          file.table[k] = <<k, Len(FlattenSeq(SubSeq(file.blocks, 1, k - 1)))>>
    BY <2>3 DEF TableOf, Before
  <2>5. \A k \in 1 .. Len(file.blocks) : Len(file.blocks[k]) \in 1 .. BlockSize
    BY <2>1 DEF FileInv, GoodBlocks
  <2> QED
    BY <2>1, <2>2, <2>4, <2>5 DEF TableRight
<1> QED
  BY <1>1, BlocksAlways, PTL

\* The bytes before an event, its own, and those behind it.
LEMMA EventAt ==
  ASSUME NEW es \in Seq(Seq(Seq(Byte))), NEW k \in 1 .. Len(es), NEW x \in Seq(Byte), es[k] = <<x>>
  PROVE  \E z \in Seq(Byte) :
           FlattenSeq(FlattenSeq(es)) = Cat(FlattenSeq(FlattenSeq(SubSeq(es, 1, k - 1))), Cat(x, z))
<1>1. k - 1 \in 0 .. Len(es) /\ (k - 1) + 1 = k
  OBVIOUS
<1>2. PICK L \in Seq(Seq(Byte)) : L = FlattenSeq(SubSeq(es, 1, k - 1))
  BY <1>1, FlattenCut
<1>3. PICK R \in Seq(Seq(Byte)) : R = FlattenSeq(SubSeq(es, k, Len(es))) /\ FlattenSeq(es) = L \o R
  <2>1. /\ FlattenSeq(SubSeq(es, (k - 1) + 1, Len(es))) \in Seq(Seq(Byte))
        /\ FlattenSeq(es) = FlattenSeq(SubSeq(es, 1, k - 1)) \o FlattenSeq(SubSeq(es, (k - 1) + 1, Len(es)))
    BY <1>1, FlattenCut
  <2> QED
    BY <1>1, <1>2, <2>1
<1>4. PICK R2 \in Seq(Seq(Byte)) : R = es[k] \o R2
  BY <1>3, FlattenBehind
<1>5. FlattenSeq(FlattenSeq(es)) = FlattenSeq(L) \o FlattenSeq(R)
  <2>1. L \in Seq(Seq(Byte)) /\ R \in Seq(Seq(Byte))
    BY <1>2, <1>3
  <2>2. FlattenSeq(L \o R) = FlattenSeq(L) \o FlattenSeq(R)
    BY <2>1, FlattenConcat
  <2> QED
    BY <1>3, <2>2
<1>6. FlattenSeq(R) = x \o FlattenSeq(R2)
  <2>1. R2 \in Seq(Seq(Byte)) /\ R = <<x>> \o R2
    BY <1>4
  <2>2. FlattenSeq(<<x>> \o R2) = x \o FlattenSeq(R2)
    BY <2>1, FlattenCons
  <2> QED
    BY <2>1, <2>2
<1>7. PICK z \in Seq(Byte) : z = FlattenSeq(R2)
  BY <1>4, FlattenType
<1>8. FlattenSeq(FlattenSeq(es)) = Cat(FlattenSeq(L), Cat(x, z))
  BY <1>5, <1>6, <1>7 DEF Cat
<1> QED
  BY <1>2, <1>7, <1>8

\* The events of a file of blocks are bytes, and what was read are the first of
\* them, up to the place where the reader goes on.
ReadsInv ==
  format = "lzo" =>
    /\ phase \in {"writing", "reading", "over"}
    /\ \A i \in 1 .. Len(log) : log[i] = <<log[i][1]>> /\ log[i][1] \in Seq(Byte) /\ log[i][1] # <<>>
    /\ Len(got) \in 0 .. Len(log) /\ got = SubSeq(log, 1, Len(got))
    /\ offset = Len(FlattenSeq(FlattenSeq(got)))
    /\ phase = "writing" => got = <<>>
    /\ phase = "reading" => Between(file, reader)
    /\ phase = "over" => got = log

\* What a step of reading blocks does to what was read.
GetsNext ==
  IF Len(got) < Len(log)
  THEN got' = Append(got, log[Len(got) + 1]) /\ phase' = phase
  ELSE got' = got /\ phase' = "over"

\* A read of blocks gets the next event, or finds the end when there is none.
LEMMA ReadBlocksGood ==
  ASSUME BlocksInv, ReadsInv, ReadBlocks
  PROVE  ReadsInv' /\ GetsNext
<1>1. format = "lzo" /\ phase = "reading" /\ format' = format /\ log' = log /\ file' = file
  BY DEF ReadBlocks
<1>2. /\ log \in Seq(Seq(Seq(Byte)))
      /\ FileInv(file) /\ FlattenSeq(file.blocks) = FlattenSeq(FlattenSeq(log))
  BY <1>1 DEF BlocksInv
<1>3. /\ Len(got) \in 0 .. Len(log) /\ got = SubSeq(log, 1, Len(got))
      /\ offset = Len(FlattenSeq(FlattenSeq(got)))
      /\ Between(file, reader)
      /\ \A i \in 1 .. Len(log) : log[i] = <<log[i][1]>> /\ log[i][1] \in Seq(Byte) /\ log[i][1] # <<>>
  BY <1>1 DEF ReadsInv
<1>4. got \in Seq(Seq(Seq(Byte)))
  BY <1>2, <1>3, CutAt, ZenonT(30)
<1>5. PICK P \in Seq(Byte) : P = FlattenSeq(FlattenSeq(got))
  <2>1. FlattenSeq(got) \in Seq(Seq(Byte))
    BY <1>4, FlattenType
  <2> QED
    BY <2>1, FlattenType
<1>6. PICK n \in IF Len(got) < Len(log) THEN {Len(log[Len(got) + 1][1])} ELSE Sizes :
        LET result == Read(file, Seek(file, reader, offset), n) IN
        /\ reader' = result.reader
        /\ offset' = offset + Len(result.bytes)
        /\ IF Len(result.bytes) = n
           THEN got' = Append(got, <<result.bytes>>) /\ UNCHANGED phase
           ELSE phase' = "over" /\ UNCHANGED got
  BY DEF ReadBlocks
<1>7. PICK q : q = Read(file, Seek(file, reader, Len(P)), n)
  OBVIOUS
<1>8. /\ reader' = q.reader /\ offset' = offset + Len(q.bytes)
      /\ IF Len(q.bytes) = n THEN got' = Append(got, <<q.bytes>>) /\ UNCHANGED phase
                             ELSE phase' = "over" /\ UNCHANGED got
  BY <1>3, <1>5, <1>6, <1>7
<1>9. CASE Len(got) < Len(log)
  <2>1. PICK k : k = Len(got) + 1
    OBVIOUS
  <2>2. k \in 1 .. Len(log) /\ k - 1 = Len(got) /\ k \in 0 .. Len(log)
    BY <1>2, <1>3, <1>9, <2>1
  <2>3. PICK x \in Seq(Byte) : x = log[k][1] /\ log[k] = <<x>> /\ x # <<>>
    BY <1>3, <2>2
  <2>4. n = Len(x)
    BY <1>6, <1>9, <2>1, <2>3
  <2>5. PICK z \in Seq(Byte) : FlattenSeq(file.blocks) = Cat(P, Cat(x, z))
    <3>1. \E z \in Seq(Byte) :
            FlattenSeq(FlattenSeq(log)) = Cat(FlattenSeq(FlattenSeq(SubSeq(log, 1, k - 1))), Cat(x, z))
      BY <1>2, <2>2, <2>3, EventAt
    <3> QED
      BY <1>2, <1>3, <1>5, <2>2, <3>1
  <2>6. q.bytes = x /\ Between(file, q.reader)
    BY <1>2, <1>3, <1>7, <2>3, <2>4, <2>5, ReadAtGood, SMTT(30)
  <2>7. got' = Append(got, log[k]) /\ phase' = phase
    BY <1>8, <2>3, <2>4, <2>6
  <2>8. got' = SubSeq(log, 1, k) /\ Len(got') = k
    <3>1. SubSeq(log, 1, k) = Append(SubSeq(log, 1, k - 1), log[k])
      BY <1>2, <2>2, FrontLonger
    <3>2. Len(SubSeq(log, 1, k)) = k
      BY <1>2, <2>2, CutAt
    <3> QED
      BY <1>3, <2>2, <2>7, <3>1, <3>2
  <2>9. offset' = Len(FlattenSeq(FlattenSeq(got')))
    <3>1. FlattenSeq(FlattenSeq(Append(got, <<x>>))) = Cat(P, x)
      BY <1>4, <1>5, <2>3, OneEventMore DEF Cat
    <3>2. Len(Cat(P, x)) = Len(P) + Len(x)
      BY <2>3, CatType
    <3> QED
      BY <1>3, <1>5, <1>8, <2>3, <2>6, <2>7, <3>1, <3>2
  <2>10. ReadsInv'
    <3>1. Len(got') \in 0 .. Len(log) /\ got' = SubSeq(log, 1, Len(got'))
      BY <2>2, <2>8
    <3>2. Between(file, reader')
      BY <1>8, <2>6
    <3>3. phase' = "reading"
      BY <1>1, <2>7
    <3> QED
      BY <1>1, <1>3, <2>9, <3>1, <3>2, <3>3 DEF ReadsInv
  <2> QED
    BY <1>9, <2>1, <2>7, <2>10 DEF GetsNext
<1>10. CASE ~(Len(got) < Len(log))
  <2>1. Len(got) = Len(log) /\ n \in Sizes
    BY <1>2, <1>3, <1>6, <1>10
  <2>2. n \in Nat \ {0}
    BY <2>1, EventFileAssumption
  <2>3. got = log
    BY <1>2, <1>3, <2>1, Fronts
  <2>4. q.bytes = <<>>
    <3>1. FlattenSeq(file.blocks) = P
      BY <1>2, <1>5, <2>3
    <3>2. P \in Seq(Byte) /\ FileInv(file) /\ Between(file, reader)
      BY <1>2, <1>3, <1>5
    <3>3. Read(file, Seek(file, reader, Len(P)), n).bytes = <<>>
      BY <2>2, <3>1, <3>2, ReadAtEnd
    <3> QED
      BY <1>7, <3>3
  <2>5. Len(q.bytes) = 0 /\ Len(q.bytes) # n
    BY <2>2, <2>4
  <2>6. phase' = "over" /\ got' = got
    BY <1>8, <2>5
  <2>7. offset' = offset
    <3>1. Len(P) \in Nat
      OBVIOUS
    <3> QED
      BY <1>3, <1>5, <1>8, <2>5, <3>1
  <2>8. ReadsInv'
    BY <1>1, <1>3, <2>3, <2>6, <2>7 DEF ReadsInv
  <2> QED
    BY <1>10, <2>6, <2>8 DEF GetsNext
<1> QED
  BY <1>9, <1>10

\* The invariant holds at first.
LEMMA ReadsInit == Init => ReadsInv
<1> SUFFICES ASSUME Init PROVE ReadsInv
  OBVIOUS
<1>1. log = <<>> /\ got = <<>> /\ offset = 0 /\ phase = "writing"
  BY DEF Init
<1>2. FlattenSeq(FlattenSeq(got)) = <<>>
  BY <1>1, FlattenEmpty
<1>3. Len(got) = 0 /\ Len(log) = 0 /\ Len(FlattenSeq(FlattenSeq(got))) = 0
  BY <1>1, <1>2
<1>4. got = SubSeq(log, 1, 0)
  BY <1>1
<1> QED
  BY <1>1, <1>3, <1>4 DEF ReadsInv

\* Every step keeps it.
LEMMA ReadsNext == BlocksInv /\ ReadsInv /\ [Next]_vars => ReadsInv'
<1> SUFFICES ASSUME BlocksInv, ReadsInv, [Next]_vars, format = "lzo" PROVE ReadsInv'
  BY DEF ReadsInv, Next, vars, WriteBlocks, WriteText, Open, ReadBlocks, ReadText
<1>1. log \in Seq(Seq(Seq(Byte)))
  BY DEF BlocksInv
<1>2. ASSUME NEW e, WriteBlocks(e) PROVE ReadsInv'
  <2>1. PICK n \in Sizes : e = Bytes(Len(log) + 1, n)
    BY <1>2 DEF WriteBlocks
  <2>2. PICK x \in Seq(Byte) : e = <<x>> /\ Len(x) = n
    <3>1. Len(log) + 1 \in Nat
      BY <1>1
    <3> QED
      BY <2>1, <3>1, BytesType
  <2>3. x # <<>>
    <3>1. n # 0
      BY <2>1, EventFileAssumption
    <3> QED
      BY <2>2, <3>1
  <2>4. /\ phase = "writing" /\ phase' = "writing" /\ got' = got /\ offset' = offset
        /\ log' = IF Refused(writer) THEN log ELSE Append(log, <<x>>)
    BY <1>2, <2>2 DEF WriteBlocks
  <2>5. got = <<>> /\ Len(got) = 0
    BY <2>4 DEF ReadsInv
  <2>6. /\ log' \in Seq(Seq(Seq(Byte)))
        /\ \A i \in 1 .. Len(log') : log'[i] = <<log'[i][1]>> /\ log'[i][1] \in Seq(Byte) /\ log'[i][1] # <<>>
    <3>1. CASE Refused(writer)
      BY <1>1, <2>4, <3>1 DEF ReadsInv
    <3>2. CASE ~Refused(writer)
      <4>1. PICK y : y = <<x>>
        OBVIOUS
      <4>2. y = <<y[1]>> /\ y[1] \in Seq(Byte) /\ y[1] # <<>> /\ y \in Seq(Seq(Byte))
        BY <2>2, <2>3, <4>1
      <4>3. log' = Append(log, y)
        BY <2>4, <3>2, <4>1
      <4>4. \A i \in 1 .. Len(log) : log[i] = <<log[i][1]>> /\ log[i][1] \in Seq(Byte) /\ log[i][1] # <<>>
        BY DEF ReadsInv
      <4>5. Len(log') = Len(log) + 1 /\ log' \in Seq(Seq(Seq(Byte)))
        BY <1>1, <4>2, <4>3
      <4>6. \A i \in 1 .. Len(log') : IF i = Len(log) + 1 THEN log'[i] = y
                                      ELSE i \in 1 .. Len(log) /\ log'[i] = log[i]
        BY <1>1, <4>2, <4>3, <4>5
      <4> QED
        BY <4>2, <4>4, <4>5, <4>6
    <3> QED
      BY <3>1, <3>2
  <2>7. SubSeq(log', 1, 0) = <<>> /\ 0 \in 0 .. Len(log')
    BY <2>6, Fronts
  <2>8. phase' # "over" /\ phase' # "reading"
    BY <2>4
  <2>9. offset' = Len(FlattenSeq(FlattenSeq(got')))
    BY <2>4 DEF ReadsInv
  <2> QED
    BY <2>4, <2>5, <2>6, <2>7, <2>8, <2>9 DEF ReadsInv
<1>3. CASE Open
  <2>1. /\ phase = "writing" /\ phase' = "reading" /\ file' = Closed(writer) /\ reader' = NewReader
        /\ log' = log /\ got' = got /\ offset' = offset
    BY <1>3 DEF Open
  <2>2. WriterInv(writer)
    BY <2>1 DEF BlocksInv
  <2>3. Between(file', reader')
    BY <2>1, <2>2, ClosedGood, NewReaderBetween
  <2> QED
    BY <2>1, <2>3 DEF ReadsInv
<1>4. CASE ReadBlocks
  BY <1>4, ReadBlocksGood
<1>5. CASE UNCHANGED vars
  BY <1>5 DEF ReadsInv, vars
<1>6. ASSUME NEW e PROVE ~WriteText(e) /\ ~ReadText
  BY DEF WriteText, ReadText
<1> QED
  BY <1>2, <1>3, <1>4, <1>5, <1>6 DEF Next

------------------------------------------------------------------------------
\* The characters of a text, and what is ahead of who reads it.

\* A name for the functions from S to T, which the provers need not look into.
Maps(S, T) == [S -> T]

\* What a function makes of each element.
Mapped(g, s) == [i \in DOMAIN s |-> g[s[i]]]

\* It is a sequence of the same length.
LEMMA MappedType ==
  ASSUME NEW S, NEW T, NEW g \in Maps(S, T), NEW s \in Seq(S)
  PROVE  Mapped(g, s) \in Seq(T) /\ Len(Mapped(g, s)) = Len(s)
<1>1. PICK n \in Nat : n = Len(s)
  OBVIOUS
<1>2. DOMAIN s = 1 .. n /\ \A i \in 1 .. n : s[i] \in S
  BY <1>1
<1>3. PICK m : m = Mapped(g, s)
  OBVIOUS
<1>4. m = [i \in 1 .. n |-> g[s[i]]]
  BY <1>2, <1>3 DEF Mapped
<1>5. m = [i \in 1 .. n |-> m[i]] /\ \A i \in 1 .. n : m[i] = g[s[i]] /\ m[i] \in T
  BY <1>2, <1>4 DEF Maps
<1>6. m \in Seq(T) /\ Len(m) = n
  BY <1>5, AsSequence
<1> QED
  BY <1>1, <1>3, <1>6

\* Its elements.
LEMMA MappedAt ==
  ASSUME NEW S, NEW g, NEW s \in Seq(S), NEW i \in 1 .. Len(s)
  PROVE  Mapped(g, s)[i] = g[s[i]]
<1>1. i \in DOMAIN s
  OBVIOUS
<1> QED
  BY <1>1 DEF Mapped

\* The first element and the others.
LEMMA HeadOf ==
  ASSUME NEW S, NEW s \in Seq(S), s # <<>>
  PROVE  \E x \in S, r \in Seq(S) : s = Cat(<<x>>, r)
<1>1. 1 \in 1 .. Len(s)
  OBVIOUS
<1>2. s[1] \in S /\ SubSeq(s, 1, Len(s)) = <<s[1]>> \o SubSeq(s, 2, Len(s))
  BY <1>1, OneMore
<1>3. SubSeq(s, 1, Len(s)) = s /\ SubSeq(s, 2, Len(s)) \in Seq(S)
  <2>1. 2 \in 1 .. Len(s) + 1
    BY <1>1
  <2> QED
    BY <2>1, Suffix
<1> QED
  BY <1>2, <1>3 DEF Cat

\* A sequence of one element.
LEMMA Single ==
  ASSUME NEW S, NEW x \in S
  PROVE  <<x>> \in Seq(S) /\ Len(<<x>>) = 1 /\ <<x>>[1] = x
  OBVIOUS

\* One element in front of others.
LEMMA FirstOf ==
  ASSUME NEW S, NEW x \in S, NEW s \in Seq(S)
  PROVE  /\ Cat(<<x>>, s) \in Seq(S) /\ Len(Cat(<<x>>, s)) = Len(s) + 1
         /\ Cat(<<x>>, s)[1] = x
         /\ \A i \in 1 .. Len(s) : Cat(<<x>>, s)[i + 1] = s[i]
<1>1. PICK e \in Seq(S) : e = <<x>> /\ Len(e) = 1 /\ e[1] = x
  BY Single
<1>2. Len(e \o s) = Len(s) + 1 /\ e \o s \in Seq(S)
  BY <1>1, ConcatProperties
<1>3. (e \o s)[1] = x
  <2>1. 1 \in 1 .. Len(e) + Len(s)
    BY <1>1
  <2> QED
    BY <1>1, <2>1
<1>4. ASSUME NEW i \in 1 .. Len(s) PROVE (e \o s)[i + 1] = s[i]
  <2>1. i + 1 \in 1 .. Len(e) + Len(s) /\ ~(i + 1 <= Len(e)) /\ (i + 1) - Len(e) = i
    BY <1>1
  <2> QED
    BY <1>1, <2>1
<1> QED
  BY <1>1, <1>2, <1>3, <1>4 DEF Cat

\* What a function makes of them.
LEMMA MappedCons ==
  ASSUME NEW S, NEW T, NEW g \in Maps(S, T), NEW x \in S, NEW s \in Seq(S)
  PROVE  Mapped(g, Cat(<<x>>, s)) = Cat(<<g[x]>>, Mapped(g, s))
<1>1. PICK u \in Seq(S) : /\ u = Cat(<<x>>, s) /\ Len(u) = Len(s) + 1 /\ u[1] = x
                         /\ \A i \in 1 .. Len(s) : u[i + 1] = s[i]
  BY FirstOf
<1>2. PICK m \in Seq(T) : m = Mapped(g, s) /\ Len(m) = Len(s) /\ \A i \in 1 .. Len(s) : m[i] = g[s[i]]
  <2>1. /\ Mapped(g, s) \in Seq(T) /\ Len(Mapped(g, s)) = Len(s)
    BY MappedType
  <2>2. \A i \in 1 .. Len(s) : Mapped(g, s)[i] = g[s[i]]
    BY MappedAt
  <2> QED
    BY <2>1, <2>2
<1>3. PICK p \in Seq(T) : p = Mapped(g, u) /\ Len(p) = Len(u) /\ \A i \in 1 .. Len(u) : p[i] = g[u[i]]
  <2>1. Mapped(g, u) \in Seq(T) /\ Len(Mapped(g, u)) = Len(u)
    BY MappedType
  <2>2. \A i \in 1 .. Len(u) : Mapped(g, u)[i] = g[u[i]]
    BY MappedAt
  <2> QED
    BY <2>1, <2>2
<1>4. PICK y \in T : y = g[x]
  BY DEF Maps
<1>5. PICK q \in Seq(T) : /\ q = Cat(<<y>>, m) /\ Len(q) = Len(m) + 1 /\ q[1] = y
                         /\ \A i \in 1 .. Len(m) : q[i + 1] = m[i]
  <2>1. Cat(<<y>>, m) \in Seq(T)
    BY <1>2, <1>4, FirstOf
  <2>2. Len(Cat(<<y>>, m)) = Len(m) + 1
    BY <1>2, <1>4, FirstOf
  <2>3. Cat(<<y>>, m)[1] = y
    BY <1>2, <1>4, FirstOf
  <2>4. ASSUME NEW i \in 1 .. Len(m) PROVE Cat(<<y>>, m)[i + 1] = m[i]
    BY FirstOf
  <2> QED
    BY <2>1, <2>2, <2>3, <2>4
<1>6. ASSUME NEW i \in 1 .. Len(u) PROVE p[i] = q[i]
  <2>1. CASE i = 1
    BY <1>1, <1>3, <1>4, <1>5, <1>6, <2>1
  <2>2. CASE i # 1
    <3>1. PICK j \in 1 .. Len(s) : i = j + 1
      <4>1. i - 1 \in 1 .. Len(s) /\ i = (i - 1) + 1
        BY <1>1, <1>6, <2>2
      <4> QED
        BY <4>1
    <3>2. u[i] = s[j] /\ q[i] = m[j]
      BY <1>1, <1>2, <1>5, <3>1
    <3>3. p[i] = g[u[i]] /\ m[j] = g[s[j]]
      BY <1>2, <1>3, <1>6, <3>1
    <3> QED
      BY <3>2, <3>3
  <2> QED
    BY <2>1, <2>2
<1>7. Len(p) = Len(q) /\ Len(p) = Len(u)
  BY <1>1, <1>2, <1>3, <1>5
<1>8. p = q
  BY <1>3, <1>5, <1>6, <1>7, SeqEqual
<1> QED
  BY <1>1, <1>2, <1>3, <1>4, <1>5, <1>8

\* The same, flattened.
Flat(g, s) == FlattenSeq(Mapped(g, s))

\* One in front of others, flattened.
LEMMA FlatCons ==
  ASSUME NEW S, NEW T, NEW g \in Maps(S, Seq(T)), NEW x \in S, NEW s \in Seq(S)
  PROVE  /\ g[x] \in Seq(T) /\ Flat(g, s) \in Seq(T) /\ Flat(g, Cat(<<x>>, s)) \in Seq(T)
         /\ Flat(g, Cat(<<x>>, s)) = Cat(g[x], Flat(g, s))
<1>1. PICK m \in Seq(Seq(T)) : m = Mapped(g, s)
  BY MappedType
<1>2. PICK y \in Seq(T) : y = g[x]
  BY DEF Maps
<1>3. Mapped(g, Cat(<<x>>, s)) = Cat(<<y>>, m)
  <2>1. Mapped(g, Cat(<<x>>, s)) = Cat(<<g[x]>>, Mapped(g, s))
    BY MappedCons
  <2> QED
    BY <1>1, <1>2, <2>1
<1>4. FlattenSeq(<<y>> \o m) = y \o FlattenSeq(m)
  BY <1>1, <1>2, FlattenCons
<1>5. FlattenSeq(m) \in Seq(T)
  BY <1>1, FlattenType
<1>6. Flat(g, Cat(<<x>>, s)) = Cat(y, FlattenSeq(m))
  BY <1>3, <1>4 DEF Flat, Cat
<1>7. Cat(y, FlattenSeq(m)) \in Seq(T)
  BY <1>2, <1>5, CatType
<1> QED
  BY <1>1, <1>2, <1>5, <1>6, <1>7 DEF Flat

\* Nothing comes of nothing.
LEMMA FlatEmpty ==
  ASSUME NEW g
  PROVE  Flat(g, <<>>) = <<>> /\ Mapped(g, <<>>) = <<>>
<1>1. Mapped(g, <<>>) = <<>>
  BY DEF Mapped
<1> QED
  BY <1>1, FlattenEmpty DEF Flat

\* The type.
LEMMA FlatType ==
  ASSUME NEW S, NEW T, NEW g \in Maps(S, Seq(T)), NEW s \in Seq(S)
  PROVE  Flat(g, s) \in Seq(T)
<1>1. Mapped(g, s) \in Seq(Seq(T))
  BY MappedType
<1> QED
  BY <1>1, FlattenType DEF Flat

------------------------------------------------------------------------------
\* The characters.

\* A name for the codes of characters, which the provers need not look into.
Char == Nat

\* The six characters differ.
LEMMA Characters ==
  /\ Quote \in Char /\ Comma \in Char /\ LF \in Char /\ CR \in Char /\ Slash \in Char /\ EnChar \in Char
  /\ Quote # Comma /\ Quote # LF /\ Quote # CR /\ Quote # Slash /\ Quote # EnChar
  /\ Comma # LF /\ Comma # CR /\ LF # CR
<1> DEFINE special == <<Quote, Comma, LF, CR, Slash, EnChar>>
<1>1. special \in Seq(Char) /\ IsInjective(special)
  BY CsvTextAssumption DEF Char
<1>2. DOMAIN special = 1 .. 6
  OBVIOUS
<1>3. \A i \in 1 .. 6 : special[i] \in Char
  BY <1>1, <1>2
<1>4. \A i, j \in 1 .. 6 : special[i] = special[j] => i = j
  BY <1>1, <1>2 DEF IsInjective
<1>5. /\ special[1] = Quote /\ special[2] = Comma /\ special[3] = LF
      /\ special[4] = CR /\ special[5] = Slash /\ special[6] = EnChar
  OBVIOUS
<1> HIDE DEF special
<1> QED
  BY <1>3, <1>4, <1>5

\* A character in a line, and read again.
Code == [c \in Char |-> CASE c = LF    -> <<Slash, EnChar>>
                          [] c = Quote -> <<Quote, Quote>>
                          [] OTHER     -> <<c>>]
Show == [c \in Char |-> IF c = LF THEN <<Slash, EnChar>> ELSE <<c>>]

\* What both are.
LEMMA CodeType ==
  /\ Code \in Maps(Char, Seq(Char)) /\ Show \in Maps(Char, Seq(Char))
  /\ Code[LF] = <<Slash, EnChar>> /\ Code[Quote] = <<Quote, Quote>>
  /\ \A c \in Char : c # LF /\ c # Quote => Code[c] = <<c>>
  /\ Show[LF] = <<Slash, EnChar>> /\ \A c \in Char : c # LF => Show[c] = <<c>>
<1>1. \A c \in Char : <<c>> \in Seq(Char)
  BY Single
<1>2. \A c, d \in Char : <<c, d>> \in Seq(Char)
  OBVIOUS
<1> DEFINE C(c) == CASE c = LF    -> <<Slash, EnChar>>
                     [] c = Quote -> <<Quote, Quote>>
                     [] OTHER     -> <<c>>
           D(c) == IF c = LF THEN <<Slash, EnChar>> ELSE <<c>>
<1>3. C(LF) = <<Slash, EnChar>> /\ C(Quote) = <<Quote, Quote>>
      /\ \A c \in Char : c # LF /\ c # Quote => C(c) = <<c>>
  BY Characters
<1>4. D(LF) = <<Slash, EnChar>> /\ \A c \in Char : c # LF => D(c) = <<c>>
  OBVIOUS
<1>5. Code = [c \in Char |-> C(c)] /\ Show = [c \in Char |-> D(c)]
  BY DEF Code, Show
<1> HIDE DEF C, D
<1>6. \A c \in Char : C(c) \in Seq(Char) /\ D(c) \in Seq(Char)
  BY <1>1, <1>2, <1>3, <1>4, Characters
<1>7. Code \in Maps(Char, Seq(Char)) /\ Show \in Maps(Char, Seq(Char))
  BY <1>5, <1>6 DEF Maps
<1>8. \A c \in Char : Code[c] = C(c) /\ Show[c] = D(c)
  BY <1>5
<1> QED
  BY <1>3, <1>4, <1>7, <1>8, Characters

\* get_value_str() takes one character after the other, and so does what is read.
LEMMA Coded ==
  ASSUME NEW v \in Seq(Char)
  PROVE  /\ get_value_str(v) = Flat(Code, v) /\ Shown(v) = Flat(Show, v)
         /\ get_value_str(v) \in Seq(Char) /\ Shown(v) \in Seq(Char)
<1>1. \A i \in DOMAIN v : v[i] \in Char
  OBVIOUS
<1>2. \A c \in Char : Code[c] = CASE c = LF    -> <<Slash, EnChar>>
                                  [] c = Quote -> <<Quote, Quote>>
                                  [] OTHER     -> <<c>>
  BY DEF Code
<1>3. \A c \in Char : Show[c] = IF c = LF THEN <<Slash, EnChar>> ELSE <<c>>
  BY DEF Show
<1>4. [i \in DOMAIN v |-> CASE v[i] = LF    -> <<Slash, EnChar>>
                            [] v[i] = Quote -> <<Quote, Quote>>
                            [] OTHER        -> <<v[i]>>] = Mapped(Code, v)
  BY <1>1, <1>2 DEF Mapped
<1>5. [i \in DOMAIN v |-> IF v[i] = LF THEN <<Slash, EnChar>> ELSE <<v[i]>>] = Mapped(Show, v)
  BY <1>1, <1>3 DEF Mapped
<1>6. get_value_str(v) = Flat(Code, v)
  BY <1>4 DEF get_value_str, Flat
<1>7. Shown(v) = Flat(Show, v)
  BY <1>5 DEF Shown, Flat
<1> QED
  <2>1. Code \in Maps(Char, Seq(Char)) /\ Show \in Maps(Char, Seq(Char))
    BY CodeType
  <2>2. Flat(Code, v) \in Seq(Char) /\ Flat(Show, v) \in Seq(Char)
    BY <2>1, FlatType
  <2> QED
    BY <1>6, <1>7, <2>2

\* A file of text that is read, with the cursor in its buffer.
Files == [rest : Seq(Char), buf : Seq(Char), cur : Nat]
FileType(f) == f \in Files /\ f.cur <= Len(f.buf)

\* What is still to be read of it.
Ahead(f) == Cat(SubSeq(f.buf, f.cur + 1, Len(f.buf)), f.rest)

\* The reader behind the next character.
Beyond(f) == [f EXCEPT !.cur = @ + 1]

\* It is a text, as long as what is left of the buffer and the rest.
LEMMA AheadType ==
  ASSUME NEW f, FileType(f)
  PROVE  /\ Ahead(f) \in Seq(Char)
         /\ Len(Ahead(f)) = Len(f.buf) - f.cur + Len(f.rest)
         /\ Len(f.buf) \in Nat /\ Len(f.rest) \in Nat /\ f.cur \in Nat
<1>1. PICK b \in Seq(Char) : b = f.buf
  BY DEF FileType, Files
<1>2. PICK r \in Seq(Char) : r = f.rest
  BY DEF FileType, Files
<1>3. PICK i \in 0 .. Len(b) : i = f.cur
  BY <1>1 DEF FileType, Files
<1>4. PICK t \in Seq(Char) : t = SubSeq(b, i + 1, Len(b)) /\ Len(t) = Len(b) - i
  BY CutAt
<1>5. Cat(t, r) \in Seq(Char) /\ Len(Cat(t, r)) = Len(t) + Len(r)
  BY CatType
<1>6. Ahead(f) = Cat(t, r)
  BY <1>1, <1>2, <1>3, <1>4 DEF Ahead
<1>7. Len(b) \in Nat /\ Len(r) \in Nat
  OBVIOUS
<1> QED
  BY <1>1, <1>2, <1>3, <1>4, <1>5, <1>6, <1>7

\* The next character of the buffer and what is behind it.
LEMMA AheadTakes ==
  ASSUME NEW f, FileType(f), ~(f.cur >= Len(f.buf))
  PROVE  /\ f.buf[f.cur + 1] \in Char /\ FileType(Beyond(f))
         /\ Beyond(f).cur = f.cur + 1 /\ Beyond(f).buf = f.buf
         /\ Ahead(f) = Cat(<<f.buf[f.cur + 1]>>, Ahead(Beyond(f)))
<1>1. PICK b \in Seq(Char) : b = f.buf
  BY DEF FileType, Files
<1>2. PICK r \in Seq(Char) : r = f.rest
  BY DEF FileType, Files
<1>3. PICK i \in 0 .. Len(b) : i = f.cur
  BY <1>1 DEF FileType, Files
<1>4. PICK g : g = Beyond(f)
  OBVIOUS
<1>5. g \in Files /\ g.cur = i + 1 /\ g.buf = b /\ g.rest = r
  BY <1>1, <1>2, <1>3, <1>4 DEF FileType, Files, Beyond
<1>6. i + 1 \in 1 .. Len(b) /\ i + 1 \in 0 .. Len(b) /\ i + 1 <= Len(b)
  BY <1>1, <1>3
<1>7. b[i + 1] \in Char
  BY <1>6
<1>8. PICK c \in Char : c = b[i + 1]
  BY <1>7
<1>9. PICK e \in Seq(Char) : e = <<c>>
  BY Single
<1>10. PICK t \in Seq(Char) : t = SubSeq(b, i + 2, Len(b))
  <2>1. SubSeq(b, (i + 1) + 1, Len(b)) \in Seq(Char) /\ (i + 1) + 1 = i + 2
    BY <1>6, CutAt
  <2> QED
    BY <2>1
<1>11. SubSeq(b, i + 1, Len(b)) = Cat(e, t)
  <2>1. SubSeq(b, i + 1, Len(b)) = <<b[i + 1]>> \o SubSeq(b, (i + 1) + 1, Len(b))
    BY <1>6, OneMore
  <2>2. (i + 1) + 1 = i + 2
    OBVIOUS
  <2> QED
    BY <1>8, <1>9, <1>10, <2>1, <2>2 DEF Cat
<1>12. Ahead(f) = Cat(Cat(e, t), r)
  BY <1>1, <1>2, <1>3, <1>11 DEF Ahead
<1>13. Ahead(g) = Cat(t, r)
  <2>1. (i + 1) + 1 = i + 2
    OBVIOUS
  <2> QED
    BY <1>5, <1>10, <2>1 DEF Ahead
<1>14. Cat(Cat(e, t), r) = Cat(e, Cat(t, r))
  BY CatAssociative
<1>15. FileType(g)
  BY <1>5, <1>6 DEF FileType
<1> QED
  BY <1>1, <1>3, <1>4, <1>5, <1>8, <1>9, <1>12, <1>13, <1>14, <1>15

\* The next piece of the file.
LEMMA NextBufferGood ==
  ASSUME NEW f, FileType(f), NEW size \in Nat \ {0}
  PROVE  /\ FileType(read2buf(f, size)) /\ read2buf(f, size).cur = 0
         /\ Ahead(read2buf(f, size)) = f.rest
         /\ f.rest # <<>> => Len(read2buf(f, size).buf) > 0
<1>1. PICK r \in Seq(Char) : r = f.rest
  BY DEF FileType, Files
<1>2. PICK n : n = IF Len(r) < size THEN Len(r) ELSE size
  OBVIOUS
<1>20. n \in Nat /\ n \in 0 .. Len(r) /\ (Len(r) > 0 => n > 0)
  BY <1>2
<1>21. PICK m \in 0 .. Len(r) : m = n
  BY <1>20
<1>3. PICK a \in Seq(Char) : a = SubSeq(r, 1, n) /\ Len(a) = n
  <2>1. SubSeq(r, 1, m) \in Seq(Char) /\ Len(SubSeq(r, 1, m)) = m
    BY CutAt
  <2> QED
    BY <1>21, <2>1
<1>4. PICK z \in Seq(Char) : z = SubSeq(r, n + 1, Len(r))
  <2>1. SubSeq(r, m + 1, Len(r)) \in Seq(Char)
    BY CutAt
  <2> QED
    BY <1>21, <2>1
<1>5. r = Cat(a, z)
  <2>1. r = SubSeq(r, 1, m) \o SubSeq(r, m + 1, Len(r))
    BY CutAt
  <2> QED
    BY <1>21, <1>3, <1>4, <2>1 DEF Cat
<1>6. PICK g : g = read2buf(f, size)
  OBVIOUS
<1>7. g = [rest |-> z, buf |-> a, cur |-> 0]
  BY <1>1, <1>2, <1>3, <1>4, <1>6 DEF read2buf
<1>8. FileType(g) /\ g.cur = 0 /\ g.buf = a /\ g.rest = z
  BY <1>7 DEF FileType, Files
<1>9. SubSeq(a, 0 + 1, Len(a)) = a
  BY Fronts
<1>10. Ahead(g) = r
  BY <1>5, <1>8, <1>9 DEF Ahead
<1>11. r # <<>> => Len(a) > 0
  BY <1>20, <1>3
<1>12. Ahead(g) = f.rest
  BY <1>1, <1>10
<1>13. f.rest # <<>> => Len(g.buf) > 0
  BY <1>1, <1>8, <1>11
<1>14. FileType(g) /\ g.cur = 0 /\ Ahead(g) = f.rest /\ (f.rest # <<>> => Len(g.buf) > 0)
  BY <1>8, <1>12, <1>13
<1> QED
  BY <1>6, <1>14

\* At the end of the buffer all that is left is the rest of the file.
LEMMA AheadIsRest ==
  ASSUME NEW f, FileType(f), f.cur >= Len(f.buf)
  PROVE  Ahead(f) = f.rest
<1>1. PICK b \in Seq(Char) : b = f.buf
  BY DEF FileType, Files
<1>2. PICK r \in Seq(Char) : r = f.rest
  BY DEF FileType, Files
<1>3. f.cur = Len(b)
  BY <1>1 DEF FileType, Files
<1>4. SubSeq(b, Len(b) + 1, Len(b)) = <<>>
  BY Fronts
<1>5. Cat(<<>>, r) = r
  BY CatEmpty
<1> QED
  BY <1>1, <1>2, <1>3, <1>4, <1>5 DEF Ahead

\* What comes first of one character and others.
LEMMA HeadCancel ==
  ASSUME NEW S, NEW c \in S, NEW d \in S, NEW a \in Seq(S), NEW b \in Seq(S),
         Cat(<<c>>, a) = Cat(<<d>>, b)
  PROVE  c = d /\ a = b
<1>1. PICK e \in Seq(S) : e = <<c>> /\ Len(e) = 1 /\ e[1] = c
  BY Single
<1>2. PICK h \in Seq(S) : h = <<d>> /\ Len(h) = 1 /\ h[1] = d
  BY Single
<1>3. Cat(e, a) = Cat(h, b)
  BY <1>1, <1>2
<1>4. e = h /\ a = b
  BY <1>1, <1>2, <1>3, CatCancel
<1> QED
  BY <1>1, <1>2, <1>4

\* A state of the loop of readfields_csv().
LoopStates ==
  [file : Files, state : 0 .. 2, line : Seq(Char), fields : Seq(Seq(Char)), over : BOOLEAN]

\* What EXCEPT makes of such a state.
LEMMA ChangedState ==
  ASSUME NEW f, NEW n, NEW l, NEW fs, NEW o, NEW g, NEW k
  PROVE  [[file |-> f, state |-> n, line |-> l, fields |-> fs, over |-> o] EXCEPT !.file = g, !.state = k]
           = [file |-> g, state |-> k, line |-> l, fields |-> fs, over |-> o]
<1>1. PICK s : s = [file |-> f, state |-> n, line |-> l, fields |-> fs, over |-> o]
  OBVIOUS
<1>2. PICK a : a = [s EXCEPT !.file = g]
  OBVIOUS
<1>3. a = [file |-> g, state |-> n, line |-> l, fields |-> fs, over |-> o]
  BY <1>1, <1>2
<1>4. PICK b : b = [a EXCEPT !.state = k]
  OBVIOUS
<1>5. b = [file |-> g, state |-> k, line |-> l, fields |-> fs, over |-> o]
  BY <1>3, <1>4
<1>6. b = [s EXCEPT !.file = g, !.state = k]
  BY <1>2, <1>4
<1> QED
  BY <1>1, <1>5, <1>6

\* The same, with the line.
LEMMA ChangedStateLine ==
  ASSUME NEW f, NEW n, NEW l, NEW fs, NEW o, NEW g, NEW k, NEW l2
  PROVE  [[file |-> f, state |-> n, line |-> l, fields |-> fs, over |-> o] EXCEPT !.file = g, !.state = k, !.line = l2]
           = [file |-> g, state |-> k, line |-> l2, fields |-> fs, over |-> o]
<1>1. PICK s : s = [file |-> f, state |-> n, line |-> l, fields |-> fs, over |-> o]
  OBVIOUS
<1>2. PICK a : a = [s EXCEPT !.file = g]
  OBVIOUS
<1>3. a = [file |-> g, state |-> n, line |-> l, fields |-> fs, over |-> o]
  BY <1>1, <1>2
<1>4. PICK b : b = [a EXCEPT !.state = k]
  OBVIOUS
<1>5. b = [file |-> g, state |-> k, line |-> l, fields |-> fs, over |-> o]
  BY <1>3, <1>4
<1>6. PICK c : c = [b EXCEPT !.line = l2]
  OBVIOUS
<1>7. c = [file |-> g, state |-> k, line |-> l2, fields |-> fs, over |-> o]
  BY <1>5, <1>6
<1>8. c = [s EXCEPT !.file = g, !.state = k, !.line = l2]
  BY <1>2, <1>4, <1>6
<1> QED
  BY <1>1, <1>7, <1>8

\* The same, of all but the flag.
LEMMA ChangedAll ==
  ASSUME NEW f, NEW n, NEW l, NEW fs, NEW o, NEW g, NEW k, NEW l2, NEW fs2
  PROVE  [[file |-> f, state |-> n, line |-> l, fields |-> fs, over |-> o] EXCEPT !.file = g, !.state = k, !.line = l2, !.fields = fs2]
           = [file |-> g, state |-> k, line |-> l2, fields |-> fs2, over |-> o]
<1>1. PICK s : s = [file |-> f, state |-> n, line |-> l, fields |-> fs, over |-> o]
  OBVIOUS
<1>2. PICK a : a = [s EXCEPT !.file = g]
  OBVIOUS
<1>3. a = [file |-> g, state |-> n, line |-> l, fields |-> fs, over |-> o]
  BY <1>1, <1>2
<1>4. PICK b : b = [a EXCEPT !.state = k]
  OBVIOUS
<1>5. b = [file |-> g, state |-> k, line |-> l, fields |-> fs, over |-> o]
  BY <1>3, <1>4
<1>6. PICK c : c = [b EXCEPT !.line = l2]
  OBVIOUS
<1>7. c = [file |-> g, state |-> k, line |-> l2, fields |-> fs, over |-> o]
  BY <1>5, <1>6
<1>8. PICK d : d = [c EXCEPT !.fields = fs2]
  OBVIOUS
<1>9. d = [file |-> g, state |-> k, line |-> l2, fields |-> fs2, over |-> o]
  BY <1>7, <1>8
<1>10. d = [s EXCEPT !.file = g, !.state = k, !.line = l2, !.fields = fs2]
  BY <1>2, <1>4, <1>6, <1>8
<1> QED
  BY <1>1, <1>9, <1>10

\* The same, of the file and the line.
LEMMA ChangedLine ==
  ASSUME NEW f, NEW n, NEW l, NEW fs, NEW o, NEW g, NEW l2
  PROVE  [[file |-> f, state |-> n, line |-> l, fields |-> fs, over |-> o] EXCEPT !.file = g, !.line = l2]
           = [file |-> g, state |-> n, line |-> l2, fields |-> fs, over |-> o]
<1>1. PICK s : s = [file |-> f, state |-> n, line |-> l, fields |-> fs, over |-> o]
  OBVIOUS
<1>2. PICK a : a = [s EXCEPT !.file = g]
  OBVIOUS
<1>3. a = [file |-> g, state |-> n, line |-> l, fields |-> fs, over |-> o]
  BY <1>1, <1>2
<1>4. PICK b : b = [a EXCEPT !.line = l2]
  OBVIOUS
<1>5. b = [file |-> g, state |-> n, line |-> l2, fields |-> fs, over |-> o]
  BY <1>3, <1>4
<1>6. b = [s EXCEPT !.file = g, !.line = l2]
  BY <1>2, <1>4
<1> QED
  BY <1>1, <1>5, <1>6

\* What the loop does with the next character c of the buffer.
LEMMA TakesChar ==
  ASSUME NEW s \in LoopStates, FileType(s.file), ~s.over, NEW size,
         ~(s.file.cur >= Len(s.file.buf)),
         NEW c, c = s.file.buf[s.file.cur + 1],
         NEW q, q = Turn(s, size)
  PROVE  /\ c = Comma /\ s.state # 1 =>
              q = [file |-> Beyond(s.file), state |-> 0, line |-> <<>>,
                   fields |-> Append(s.fields, s.line), over |-> FALSE]
         /\ c = LF /\ s.state # 1 =>
              q = [file |-> Beyond(s.file), state |-> s.state, line |-> s.line,
                   fields |-> Append(s.fields, s.line), over |-> TRUE]
         /\ c = CR /\ s.state # 1 =>
              q = [file |-> AfterCR(s.file, size), state |-> s.state, line |-> s.line,
                   fields |-> Append(s.fields, s.line), over |-> TRUE]
         /\ c = Quote /\ s.state # 2 =>
              q = [file |-> Beyond(s.file), state |-> s.state + 1, line |-> s.line,
                   fields |-> s.fields, over |-> FALSE]
         /\ c = Quote /\ s.state = 2 =>
              q = [file |-> Beyond(s.file), state |-> 1, line |-> Append(s.line, c),
                   fields |-> s.fields, over |-> FALSE]
         /\ c # Quote /\ (s.state = 1 \/ c \notin {Comma, LF, CR}) =>
              q = [file |-> Beyond(s.file), state |-> s.state, line |-> Append(s.line, c),
                   fields |-> s.fields, over |-> FALSE]
<1>1. q = NextChar(s, size)
  BY DEF Turn
<1>2. /\ Quote # Comma /\ Quote # LF /\ Quote # CR /\ Comma # LF /\ Comma # CR /\ LF # CR
  BY Characters
<1>3. /\ s = [file |-> s.file, state |-> s.state, line |-> s.line,
              fields |-> s.fields, over |-> FALSE]
      /\ s.state \in 0 .. 2
  BY DEF LoopStates
<1>4. PICK g : g = Beyond(s.file)
  OBVIOUS
<1>5. q = CASE s.state # 1 /\ c = Comma ->
            [s EXCEPT !.file = g, !.state = 0, !.line = <<>>, !.fields = Append(@, s.line)]
       [] s.state # 1 /\ (c = LF \/ c = CR) ->
            [s EXCEPT !.file = IF c = CR THEN AfterCR(s.file, size) ELSE g,
                      !.fields = Append(@, s.line), !.over = TRUE]
       [] s.state = 0 /\ c = Quote -> [s EXCEPT !.file = g, !.state = 1]
       [] s.state = 1 /\ c = Quote -> [s EXCEPT !.file = g, !.state = 2]
       [] s.state = 2 /\ c = Quote ->
            [s EXCEPT !.file = g, !.state = 1, !.line = Append(@, c)]
       [] OTHER -> [s EXCEPT !.file = g, !.line = Append(@, c)]
  BY <1>1, <1>4 DEF NextChar, Beyond
<1>6. PICK h : h = AfterCR(s.file, size)
  OBVIOUS
<1>7. PICK l : l = s.line
  OBVIOUS
<1>8. PICK lc : lc = Append(l, c)
  OBVIOUS
<1>9. PICK fs : fs = s.fields
  OBVIOUS
<1>10. PICK fl : fl = Append(fs, l)
  OBVIOUS
<1>11. PICK n \in 0 .. 2 : n = s.state
  BY <1>3
<1>18. PICK f : s = [file |-> f, state |-> n, line |-> l, fields |-> fs, over |-> FALSE]
  BY <1>3, <1>7, <1>9, <1>11
<1>12. CASE c = Comma /\ n # 1
  <2>1. q = [s EXCEPT !.file = g, !.state = 0, !.line = <<>>, !.fields = fl]
    BY <1>7, <1>9, <1>10, <1>2, <1>5, <1>11, <1>12
  <2>2. q = [file |-> g, state |-> 0, line |-> <<>>, fields |-> fl, over |-> FALSE]
    BY <1>18, <2>1, ChangedAll, Zenon
  <2> QED
    BY <1>2, <1>4, <1>7, <1>9, <1>10, <1>11, <1>12, <2>2
<1>13. CASE c = LF /\ n # 1
  <2>1. q = [s EXCEPT !.file = g, !.fields = Append(@, s.line), !.over = TRUE]
    BY <1>2, <1>5, <1>11, <1>13
  <2>2. q = [file |-> g, state |-> n, line |-> l, fields |-> fl, over |-> TRUE]
    BY <1>3, <1>7, <1>9, <1>10, <1>11, <2>1
  <2> QED
    BY <1>2, <1>4, <1>7, <1>9, <1>10, <1>11, <1>13, <2>2
<1>14. CASE c = CR /\ n # 1
  <2>1. q = [s EXCEPT !.file = h, !.fields = Append(@, s.line), !.over = TRUE]
    BY <1>2, <1>5, <1>6, <1>11, <1>14
  <2>2. q = [file |-> h, state |-> n, line |-> l, fields |-> fl, over |-> TRUE]
    BY <1>3, <1>7, <1>9, <1>10, <1>11, <2>1
  <2> QED
    BY <1>2, <1>6, <1>7, <1>9, <1>10, <1>11, <1>14, <2>2
<1>15. CASE c = Quote /\ n # 2
  <2>0. PICK k : k = n + 1
    OBVIOUS
  <2>1. q = [s EXCEPT !.file = g, !.state = k]
    <3>1. CASE n = 0
      BY <1>2, <1>5, <1>11, <1>15, <2>0, <3>1
    <3>2. CASE n = 1
      BY <1>2, <1>5, <1>11, <1>15, <2>0, <3>2
    <3> QED
      BY <1>11, <1>15, <3>1, <3>2
  <2>2. q = [file |-> g, state |-> k, line |-> l, fields |-> fs, over |-> FALSE]
    BY <1>18, <2>1, ChangedState, Zenon
  <2> QED
    BY <2>0, <1>2, <1>4, <1>7, <1>9, <1>11, <1>15, <2>2
<1>16. CASE c = Quote /\ n = 2
  <2>1. q = [s EXCEPT !.file = g, !.state = 1, !.line = lc]
    BY <1>2, <1>7, <1>8, <1>5, <1>11, <1>16
  <2>2. q = [file |-> g, state |-> 1, line |-> lc, fields |-> fs, over |-> FALSE]
    BY <1>18, <2>1, ChangedStateLine, Zenon
  <2> QED
    BY <1>2, <1>4, <1>7, <1>8, <1>9, <1>11, <1>16, <2>2
<1>17. CASE c # Quote /\ (n = 1 \/ c \notin {Comma, LF, CR})
  <2>1. q = [s EXCEPT !.file = g, !.line = lc]
    BY <1>7, <1>8, <1>2, <1>5, <1>11, <1>17
  <2>2. q = [file |-> g, state |-> n, line |-> lc, fields |-> fs, over |-> FALSE]
    BY <1>18, <2>1, ChangedLine, Zenon
  <2> QED
    BY <1>4, <1>7, <1>8, <1>9, <1>11, <1>17, <2>2
<1> QED
  BY <1>2, <1>11, <1>12, <1>13, <1>14, <1>15, <1>16, <1>17

------------------------------------------------------------------------------
\* Lines, and where the loop of readfields_csv() is in one.

\* A text that does not begin with an LF.
NotLF(t) == \A u \in Seq(Char) : t # Cat(<<LF>>, u)

\* A CR and the LF behind it are taken, wherever the buffer ends.
LEMMA AfterCRGood ==
  ASSUME NEW f, FileType(f), NEW size \in Nat \ {0}, ~(f.cur >= Len(f.buf)),
         NEW t \in Seq(Char), NotLF(t), Ahead(f) = Cat(<<CR>>, Cat(<<LF>>, t))
  PROVE  FileType(AfterCR(f, size)) /\ Ahead(AfterCR(f, size)) = t
<1>1. LF \in Char /\ CR \in Char
  BY Characters
<1>2. PICK e \in Seq(Char) : e = <<LF>>
  BY <1>1, Single
<1>3. PICK u \in Seq(Char) : u = Cat(<<LF>>, t)
  BY <1>2, CatType
<1>4. PICK b : b = Beyond(f)
  OBVIOUS
<1>5. /\ FileType(b) /\ b.cur = f.cur + 1 /\ b.buf = f.buf /\ f.buf[f.cur + 1] \in Char
      /\ Ahead(f) = Cat(<<f.buf[f.cur + 1]>>, Ahead(b))
  BY <1>4, AheadTakes
<1>6. Ahead(b) = u
  <2>1. Ahead(b) \in Seq(Char) /\ Cat(<<f.buf[f.cur + 1]>>, Ahead(b)) = Cat(<<CR>>, u)
    BY <1>3, <1>5, AheadType
  <2> QED
    BY <1>1, <1>5, <2>1, HeadCancel
<1>7. /\ f \in Files /\ f.cur \in Nat /\ f.cur < Len(f.buf) /\ Len(f.buf) \in Nat
      /\ b = [f EXCEPT !.cur = f.cur + 1]
  BY <1>4, AheadType DEF FileType, Files, Beyond
<1>8. PICK r : r = AfterCR(f, size)
  OBVIOUS
<1>9. CASE f.cur >= Len(f.buf) - 1
  <2>1. PICK g : g = read2buf(f, size)
    OBVIOUS
  <2>2. f.rest = u
    <3>1. b.cur >= Len(b.buf)
      BY <1>5, <1>7, <1>9
    <3>2. Ahead(b) = b.rest
      BY <1>5, <3>1, AheadIsRest
    <3>3. b.rest = f.rest
      BY <1>7 DEF Files
    <3> QED
      BY <1>6, <3>2, <3>3
  <2>3. u # <<>>
    <3>1. Len(u) = Len(t) + 1 /\ Len(t) \in Nat
      BY <1>1, <1>3, FirstOf
    <3> QED
      BY <3>1
  <2>4. FileType(g) /\ g.cur = 0 /\ Ahead(g) = u /\ Len(g.buf) > 0
    BY <2>1, <2>2, <2>3, NextBufferGood
  <2>5. PICK h : h = Beyond(g)
    OBVIOUS
  <2>6. /\ FileType(h) /\ h.cur = 1 /\ h.buf = g.buf /\ g.buf[1] \in Char
        /\ u = Cat(<<g.buf[1]>>, Ahead(h))
    <3>1. ~(g.cur >= Len(g.buf)) /\ Len(g.buf) \in Nat
      BY <2>4, AheadType
    <3>2. g.cur + 1 = 1
      BY <2>4
    <3>3. /\ FileType(h) /\ h.cur = g.cur + 1 /\ h.buf = g.buf /\ g.buf[g.cur + 1] \in Char
          /\ Ahead(g) = Cat(<<g.buf[g.cur + 1]>>, Ahead(h))
      BY <2>4, <2>5, <3>1, AheadTakes
    <3> QED
      BY <2>4, <3>2, <3>3
  <2>7. Ahead(h) = t
    <3>1. Ahead(h) \in Seq(Char)
      BY <2>6, AheadType
    <3>2. PICK x \in Char : x = g.buf[1]
      BY <2>6
    <3>3. Cat(<<LF>>, t) = Cat(<<x>>, Ahead(h))
      BY <1>3, <2>6, <3>2
    <3> QED
      BY <1>1, <3>1, <3>3, HeadCancel
  <2>8. ~(1 < Len(g.buf) /\ g.buf[2] = LF)
    <3> SUFFICES ASSUME 1 < Len(g.buf) PROVE g.buf[2] # LF
      OBVIOUS
    <3>1. ~(h.cur >= Len(h.buf)) /\ h.cur + 1 = 2
      <4>1. Len(g.buf) \in Nat
        BY <2>4, AheadType
      <4> QED
        BY <2>6, <4>1
    <3>2. FileType(Beyond(h)) /\ Ahead(h) = Cat(<<g.buf[2]>>, Ahead(Beyond(h)))
      BY <2>6, <3>1, AheadTakes
    <3>3. Ahead(Beyond(h)) \in Seq(Char)
      BY <3>2, AheadType
    <3> QED
      BY <2>7, <3>2, <3>3 DEF NotLF
  <2>9. r = [g EXCEPT !.cur = IF g.cur + 1 < Len(g.buf) /\ g.buf[(g.cur + 1) + 1] = LF
                              THEN (g.cur + 1) + 1 ELSE g.cur + 1]
    BY <1>8, <1>9, <2>1 DEF AfterCR
  <2>10. r = [g EXCEPT !.cur = 1]
    <3>1. g.cur + 1 = 1 /\ (g.cur + 1) + 1 = 2
      BY <2>4
    <3> QED
      BY <2>8, <2>9, <3>1
  <2>11. h = [g EXCEPT !.cur = 1]
    <3>1. g.cur + 1 = 1
      BY <2>4
    <3> QED
      BY <2>5, <3>1 DEF Beyond
  <2> QED
    BY <1>8, <2>6, <2>7, <2>10, <2>11
<1>10. CASE ~(f.cur >= Len(f.buf) - 1)
  <2>1. PICK h : h = Beyond(b)
    OBVIOUS
  <2>2. ~(b.cur >= Len(b.buf)) /\ b.cur + 1 = (f.cur + 1) + 1 /\ f.cur + 1 < Len(f.buf)
    BY <1>5, <1>7, <1>10
  <2>3. /\ FileType(h) /\ f.buf[(f.cur + 1) + 1] \in Char
        /\ u = Cat(<<f.buf[(f.cur + 1) + 1]>>, Ahead(h))
    BY <1>5, <1>6, <2>1, <2>2, AheadTakes
  <2>4. f.buf[(f.cur + 1) + 1] = LF /\ Ahead(h) = t
    <3>1. Ahead(h) \in Seq(Char)
      BY <2>3, AheadType
    <3>2. PICK x \in Char : x = f.buf[(f.cur + 1) + 1]
      BY <2>3
    <3>3. Cat(<<LF>>, t) = Cat(<<x>>, Ahead(h))
      BY <1>3, <2>3, <3>2
    <3>4. LF = x /\ t = Ahead(h)
      BY <1>1, <3>1, <3>3, HeadCancel
    <3> QED
      BY <3>2, <3>4
  <2>5. r = [f EXCEPT !.cur = IF f.cur + 1 < Len(f.buf) /\ f.buf[(f.cur + 1) + 1] = LF
                              THEN (f.cur + 1) + 1 ELSE f.cur + 1]
    BY <1>8, <1>10 DEF AfterCR
  <2>6. PICK n : n = (f.cur + 1) + 1
    OBVIOUS
  <2>7. r = [f EXCEPT !.cur = n]
    BY <2>2, <2>4, <2>5, <2>6
  <2>8. h = [f EXCEPT !.cur = n]
    <3>1. h = [b EXCEPT !.cur = n]
      BY <1>5, <2>1, <2>6 DEF Beyond
    <3>2. [[f EXCEPT !.cur = f.cur + 1] EXCEPT !.cur = n] = [f EXCEPT !.cur = n]
      BY <1>7 DEF Files
    <3> QED
      BY <1>7, <3>1, <3>2
  <2> QED
    BY <1>8, <2>3, <2>4, <2>7, <2>8
<1> QED
  BY <1>9, <1>10

------------------------------------------------------------------------------
\* What follows a value on a line of write(), and on a line made by hand.

\* A value and what comes before it, in a line of write() and in one made by hand.
FieldText == [v \in Seq(Char) |-> Cat(<<Comma>>, Cat(<<Quote>>, Cat(Flat(Code, v), <<Quote>>)))]
HandText  == [v \in Seq(Char) |-> Cat(<<Comma>>, v)]

\* A value up to its end, where the values es and the text t come next.
More(es, t)     == Cat(Flat(FieldText, es), Cat(<<LF>>, t))
HandMore(es, t) == Cat(Flat(HandText, es), Cat(<<CR>>, Cat(<<LF>>, t)))
Rest(v, es, t)  == Cat(Flat(Code, v), Cat(<<Quote>>, More(es, t)))

\* What both are.
LEMMA FieldTextType ==
  /\ FieldText \in Maps(Seq(Char), Seq(Char)) /\ HandText \in Maps(Seq(Char), Seq(Char))
  /\ \A v \in Seq(Char) :
       /\ FieldText[v] = Cat(<<Comma>>, Cat(<<Quote>>, Cat(Flat(Code, v), <<Quote>>)))
       /\ HandText[v] = Cat(<<Comma>>, v)
<1>1. <<Comma>> \in Seq(Char) /\ <<Quote>> \in Seq(Char)
  BY Characters, Single
<1>2. ASSUME NEW v \in Seq(Char)
      PROVE  /\ Cat(<<Comma>>, Cat(<<Quote>>, Cat(Flat(Code, v), <<Quote>>))) \in Seq(Char)
             /\ Cat(<<Comma>>, v) \in Seq(Char)
  <2>1. PICK x \in Seq(Char) : x = Flat(Code, v)
    BY CodeType, FlatType
  <2>2. PICK y \in Seq(Char) : y = Cat(x, <<Quote>>)
    BY <1>1, CatType
  <2>3. PICK z \in Seq(Char) : z = Cat(<<Quote>>, y)
    BY <1>1, CatType
  <2>4. Cat(<<Comma>>, z) \in Seq(Char) /\ Cat(<<Comma>>, v) \in Seq(Char)
    BY <1>1, CatType
  <2> QED
    BY <2>1, <2>2, <2>3, <2>4
<1>3. \A v \in Seq(Char) :
       /\ FieldText[v] = Cat(<<Comma>>, Cat(<<Quote>>, Cat(Flat(Code, v), <<Quote>>)))
       /\ HandText[v] = Cat(<<Comma>>, v)
  BY DEF FieldText, HandText
<1> QED
  BY <1>2, <1>3 DEF FieldText, HandText, Maps

\* They are texts.
LEMMA MoreType ==
  ASSUME NEW es \in Seq(Seq(Char)), NEW t \in Seq(Char)
  PROVE  /\ More(es, t) \in Seq(Char) /\ HandMore(es, t) \in Seq(Char)
         /\ \A v \in Seq(Char) : Rest(v, es, t) \in Seq(Char)
<1>1. <<LF>> \in Seq(Char) /\ <<CR>> \in Seq(Char) /\ <<Quote>> \in Seq(Char)
  BY Characters, Single
<1>2. PICK x \in Seq(Char) : x = Cat(<<LF>>, t)
  BY <1>1, CatType
<1>3. PICK y \in Seq(Char) : y = Cat(<<CR>>, x)
  BY <1>1, CatType
<1>4. Flat(FieldText, es) \in Seq(Char) /\ Flat(HandText, es) \in Seq(Char)
  <2>1. FieldText \in Maps(Seq(Char), Seq(Char)) /\ HandText \in Maps(Seq(Char), Seq(Char))
    BY FieldTextType
  <2> QED
    BY <2>1, FlatType
<1>5. More(es, t) \in Seq(Char) /\ HandMore(es, t) \in Seq(Char)
  BY <1>2, <1>3, <1>4, CatType DEF More, HandMore
<1>6. PICK m \in Seq(Char) : m = Cat(<<Quote>>, More(es, t))
  BY <1>1, <1>5, CatType
<1>7. \A v \in Seq(Char) : Flat(Code, v) \in Seq(Char)
  BY CodeType, FlatType
<1>8. \A v \in Seq(Char) : Rest(v, es, t) \in Seq(Char)
  BY <1>6, <1>7, CatType DEF Rest
<1> QED
  BY <1>5, <1>8

\* Behind the last value.
LEMMA MoreEmpty ==
  ASSUME NEW t \in Seq(Char)
  PROVE  More(<<>>, t) = Cat(<<LF>>, t) /\ HandMore(<<>>, t) = Cat(<<CR>>, Cat(<<LF>>, t))
<1>1. <<LF>> \in Seq(Char) /\ <<CR>> \in Seq(Char)
  BY Characters, Single
<1>2. PICK x \in Seq(Char) : x = Cat(<<LF>>, t)
  BY <1>1, CatType
<1>3. PICK y \in Seq(Char) : y = Cat(<<CR>>, x)
  BY <1>1, CatType
<1>4. Cat(<<>>, x) = x /\ Cat(<<>>, y) = y
  BY CatEmpty
<1>5. Flat(FieldText, <<>>) = <<>> /\ Flat(HandText, <<>>) = <<>>
  BY FlatEmpty
<1> QED
  BY <1>2, <1>3, <1>4, <1>5 DEF More, HandMore

\* Behind another value.
LEMMA MoreCons ==
  ASSUME NEW v \in Seq(Char), NEW es \in Seq(Seq(Char)), NEW t \in Seq(Char)
  PROVE  /\ More(Cat(<<v>>, es), t) = Cat(<<Comma>>, Cat(<<Quote>>, Rest(v, es, t)))
         /\ HandMore(Cat(<<v>>, es), t) = Cat(<<Comma>>, Cat(v, HandMore(es, t)))
<1>1. PICK x \in Seq(Char) : x = Cat(<<LF>>, t)
  BY Characters, Single, CatType
<1>2. PICK y \in Seq(Char) : y = Cat(<<CR>>, x)
  BY Characters, Single, CatType
<1>3. PICK c \in Seq(Char) : c = <<Comma>>
  BY Characters, Single
<1>4. PICK u \in Seq(Char) : u = <<Quote>>
  BY Characters, Single
<1>5. PICK k \in Seq(Char) : k = Flat(Code, v)
  BY CodeType, FlatType
<1>6. /\ FieldText \in Maps(Seq(Char), Seq(Char)) /\ HandText \in Maps(Seq(Char), Seq(Char))
      /\ FieldText[v] = Cat(c, Cat(u, Cat(k, u))) /\ HandText[v] = Cat(c, v)
  BY <1>3, <1>4, <1>5, FieldTextType
<1>7. PICK m \in Seq(Char) : m = Flat(FieldText, es)
  BY <1>6, FlatType
<1>8. PICK h \in Seq(Char) : h = Flat(HandText, es)
  BY <1>6, FlatType
<1>9. Flat(FieldText, Cat(<<v>>, es)) = Cat(Cat(c, Cat(u, Cat(k, u))), m)
  BY <1>6, <1>7, FlatCons
<1>10. Flat(HandText, Cat(<<v>>, es)) = Cat(Cat(c, v), h)
  BY <1>6, <1>8, FlatCons
<1>11. Cat(Cat(Cat(c, Cat(u, Cat(k, u))), m), x) = Cat(c, Cat(u, Cat(k, Cat(u, Cat(m, x)))))
  <2>1. PICK ku \in Seq(Char) : ku = Cat(k, u)
    BY CatType
  <2>2. PICK uku \in Seq(Char) : uku = Cat(u, ku)
    BY CatType
  <2>3. PICK mx \in Seq(Char) : mx = Cat(m, x)
    BY CatType
  <2>4. Cat(Cat(Cat(c, uku), m), x) = Cat(Cat(c, uku), mx)
    <3>1. Cat(c, uku) \in Seq(Char)
      BY CatType
    <3> QED
      BY <2>3, <3>1, CatAssociative
  <2>5. Cat(Cat(c, uku), mx) = Cat(c, Cat(uku, mx))
    BY CatAssociative
  <2>6. Cat(uku, mx) = Cat(u, Cat(ku, mx))
    BY <2>2, CatAssociative
  <2>7. Cat(ku, mx) = Cat(k, Cat(u, mx))
    BY <2>1, CatAssociative
  <2> QED
    BY <2>1, <2>2, <2>3, <2>4, <2>5, <2>6, <2>7
<1>12. Cat(Cat(Cat(c, v), h), y) = Cat(c, Cat(v, Cat(h, y)))
  <2>1. PICK cv \in Seq(Char) : cv = Cat(c, v)
    BY CatType
  <2>2. PICK hy \in Seq(Char) : hy = Cat(h, y)
    BY CatType
  <2>3. Cat(Cat(cv, h), y) = Cat(cv, hy)
    BY <2>2, CatAssociative
  <2>4. Cat(cv, hy) = Cat(c, Cat(v, hy))
    BY <2>1, CatAssociative
  <2> QED
    BY <2>1, <2>2, <2>3, <2>4
<1>13. More(Cat(<<v>>, es), t) = Cat(c, Cat(u, Cat(k, Cat(u, Cat(m, x)))))
  BY <1>1, <1>9, <1>11 DEF More
<1>14. Rest(v, es, t) = Cat(k, Cat(u, Cat(m, x)))
  BY <1>1, <1>4, <1>5, <1>7 DEF Rest, More
<1>15. HandMore(Cat(<<v>>, es), t) = Cat(c, Cat(v, HandMore(es, t)))
  BY <1>1, <1>2, <1>8, <1>10, <1>12 DEF HandMore
<1> QED
  BY <1>3, <1>4, <1>13, <1>14, <1>15

\* A value that can be written without quotes.
PlainValue(v) == v \in Seq(Char) /\ \A i \in 1 .. Len(v) : v[i] \notin {Quote, Comma, LF, CR}

\* Its first character and the others.
LEMMA PlainCons ==
  ASSUME NEW c \in Char, NEW r \in Seq(Char), PlainValue(Cat(<<c>>, r))
  PROVE  c \notin {Quote, Comma, LF, CR} /\ PlainValue(r)
<1>1. PICK u \in Seq(Char) : /\ u = Cat(<<c>>, r) /\ Len(u) = Len(r) + 1 /\ u[1] = c
                            /\ \A i \in 1 .. Len(r) : u[i + 1] = r[i]
  BY FirstOf
<1>2. \A i \in 1 .. Len(u) : u[i] \notin {Quote, Comma, LF, CR}
  BY <1>1 DEF PlainValue
<1>3. Len(r) \in Nat
  OBVIOUS
<1>4. c \notin {Quote, Comma, LF, CR}
  <2>1. 1 \in 1 .. Len(u)
    BY <1>1, <1>3
  <2> QED
    BY <1>1, <1>2, <2>1
<1>5. ASSUME NEW i \in 1 .. Len(r) PROVE r[i] \notin {Quote, Comma, LF, CR}
  <2>1. i + 1 \in 1 .. Len(u)
    BY <1>1, <1>3
  <2>2. u[i + 1] = r[i]
    BY <1>1
  <2>3. u[i + 1] \notin {Quote, Comma, LF, CR}
    BY <1>2, <2>1
  <2> QED
    BY <2>2, <2>3
<1> QED
  BY <1>4, <1>5 DEF PlainValue

\* Another character of a value.
LEMMA CodeCons ==
  ASSUME NEW c \in Char, NEW r \in Seq(Char)
  PROVE  /\ Flat(Show, Cat(<<c>>, r)) = Cat(Show[c], Flat(Show, r))
         /\ Flat(Code, Cat(<<c>>, r)) = Cat(Code[c], Flat(Code, r))
         /\ Show[c] \in Seq(Char) /\ Code[c] \in Seq(Char)
         /\ Flat(Show, r) \in Seq(Char) /\ Flat(Code, r) \in Seq(Char)
<1>1. Show \in Maps(Char, Seq(Char)) /\ Code \in Maps(Char, Seq(Char))
  BY CodeType
<1>8. PICK T : T = Char
  OBVIOUS
<1>2. PICK g \in Maps(Char, Seq(T)) : g = Show
  BY <1>1, <1>8
<1>3. PICK h \in Maps(Char, Seq(T)) : h = Code
  BY <1>1, <1>8
<1>4. g[c] \in Seq(T) /\ h[c] \in Seq(T)
  BY DEF Maps
<1>5. Flat(g, r) \in Seq(T) /\ Flat(h, r) \in Seq(T)
  BY FlatType
<1>6. Flat(g, Cat(<<c>>, r)) = Cat(g[c], Flat(g, r))
  BY FlatCons
<1>7. Flat(h, Cat(<<c>>, r)) = Cat(h[c], Flat(h, r))
  BY FlatCons
<1> QED
  BY <1>2, <1>3, <1>4, <1>5, <1>6, <1>7, <1>8

\* Such a value is read as it is.
LEMMA PlainShown ==
  ASSUME NEW v, PlainValue(v)
  PROVE  Flat(Show, v) = v
<1>1. PICK m \in Nat : m = Len(v)
  BY DEF PlainValue
<1> DEFINE T == {n \in 0 .. m : \A w : PlainValue(w) /\ Len(w) = n => Flat(Show, w) = w}
<1>2. 0 \in T
  <2> SUFFICES ASSUME NEW w, PlainValue(w), Len(w) = 0 PROVE Flat(Show, w) = w
    BY <1>1
  <2>1. w = <<>>
    BY DEF PlainValue
  <2> QED
    BY <2>1, FlatEmpty
<1>3. ASSUME NEW n \in 1 .. m, n - 1 \in T PROVE n \in T
  <2> SUFFICES ASSUME NEW w, PlainValue(w), Len(w) = n PROVE Flat(Show, w) = w
    BY <1>1, <1>3
  <2>1. w \in Seq(Char) /\ w # <<>>
    <3>1. w \in Seq(Char)
      BY DEF PlainValue
    <3>2. Len(w) # 0
      BY <1>1
    <3> QED
      BY <3>1, <3>2
  <2>2. PICK c \in Char, r \in Seq(Char) : w = Cat(<<c>>, r)
    BY <2>1, HeadOf
  <2>3. c \notin {Quote, Comma, LF, CR} /\ PlainValue(r)
    BY <2>2, PlainCons
  <2>4. Len(r) = n - 1
    <3>1. Len(Cat(<<c>>, r)) = Len(r) + 1 /\ Len(r) \in Nat
      BY FirstOf
    <3> QED
      BY <2>2, <3>1
  <2>5. Flat(Show, r) = r
    BY <1>3, <2>3, <2>4
  <2>6. Flat(Show, Cat(<<c>>, r)) = Cat(Show[c], Flat(Show, r))
    BY <2>2, CodeCons
  <2>7. Show[c] = <<c>>
    BY <2>3, CodeType
  <2> QED
    BY <2>2, <2>5, <2>6, <2>7
<1>4. m \in T
  <2> HIDE DEF T
  <2>1. \A k \in 0 .. m : k \in T
    BY <1>2, <1>3, UpTo
  <2> QED
    BY <1>1, <2>1
<1> QED
  BY <1>1, <1>4

\* A character put behind a line.
LEMMA AppendIsCat ==
  ASSUME NEW S, NEW s \in Seq(S), NEW c \in S
  PROVE  Append(s, c) = Cat(s, <<c>>) /\ Append(s, c) \in Seq(S)
<1>1. Append(s, c) = s \o <<c>>
  OBVIOUS
<1>2. Append(s, c) \in Seq(S)
  BY AppendProperties
<1> QED
  BY <1>1, <1>2 DEF Cat

\* What a turn of the loop does with a character c that is followed by the text a.
Goes(s, q, a, state, line, fields) ==
  /\ q \in LoopStates /\ FileType(q.file) /\ Ahead(q.file) = a
  /\ Len(Ahead(q.file)) < Len(Ahead(s.file))
  /\ q.state = state /\ q.line = line /\ q.fields = fields

\* What the next character of the buffer is.
LEMMA NextIs ==
  ASSUME NEW s \in LoopStates, FileType(s.file), ~s.over, NEW size,
         ~(s.file.cur >= Len(s.file.buf)),
         NEW c \in Char, NEW a \in Seq(Char), Ahead(s.file) = Cat(<<c>>, a)
  PROVE  /\ c = s.file.buf[s.file.cur + 1]
         /\ FileType(Beyond(s.file)) /\ Ahead(Beyond(s.file)) = a
         /\ Len(a) < Len(Ahead(s.file))
<1>1. PICK x \in Char : x = s.file.buf[s.file.cur + 1]
  BY AheadTakes
<1>2. PICK b \in Seq(Char) : b = Ahead(Beyond(s.file)) /\ FileType(Beyond(s.file))
  <2>1. FileType(Beyond(s.file))
    BY AheadTakes
  <2> QED
    BY <2>1, AheadType
<1>3. Cat(<<c>>, a) = Cat(<<x>>, b)
  BY <1>1, <1>2, AheadTakes
<1>4. c = x /\ a = b
  BY <1>3, HeadCancel
<1>5. Len(Cat(<<c>>, a)) = Len(a) + 1 /\ Len(a) \in Nat
  BY FirstOf
<1> QED
  BY <1>1, <1>2, <1>4, <1>5

\* What a turn does with a character other than CR.
LEMMA TurnGoes ==
  ASSUME NEW s \in LoopStates, FileType(s.file), ~s.over, NEW size,
         ~(s.file.cur >= Len(s.file.buf)),
         NEW c \in Char, NEW a \in Seq(Char), Ahead(s.file) = Cat(<<c>>, a),
         NEW q, q = Turn(s, size)
  PROVE  /\ c = Comma /\ s.state # 1 =>
              Goes(s, q, a, 0, <<>>, Cat(s.fields, <<s.line>>)) /\ q.over = FALSE
         /\ c = LF /\ s.state # 1 =>
              Goes(s, q, a, s.state, s.line, Cat(s.fields, <<s.line>>)) /\ q.over = TRUE
         /\ c = Quote /\ s.state # 2 =>
              Goes(s, q, a, s.state + 1, s.line, s.fields) /\ q.over = FALSE
         /\ c = Quote /\ s.state = 2 =>
              Goes(s, q, a, 1, Cat(s.line, <<c>>), s.fields) /\ q.over = FALSE
         /\ c # Quote /\ (s.state = 1 \/ c \notin {Comma, LF, CR}) =>
              Goes(s, q, a, s.state, Cat(s.line, <<c>>), s.fields) /\ q.over = FALSE
<1>1. PICK g : g = Beyond(s.file)
  OBVIOUS
<1>2. /\ c = s.file.buf[s.file.cur + 1]
      /\ FileType(g) /\ Ahead(g) = a /\ Len(a) < Len(Ahead(s.file)) /\ g \in Files
  BY <1>1, NextIs DEF FileType
<1>3. /\ s.line \in Seq(Char) /\ s.fields \in Seq(Seq(Char)) /\ s.state \in 0 .. 2
  BY DEF LoopStates
<1>4. PICK lc \in Seq(Char) : lc = Append(s.line, c) /\ lc = Cat(s.line, <<c>>)
  BY <1>3, AppendIsCat
<1>5. PICK fl \in Seq(Seq(Char)) : fl = Append(s.fields, s.line) /\ fl = Cat(s.fields, <<s.line>>)
  BY <1>3, AppendIsCat
<1>6. PICK e \in Seq(Char) : e = <<>>
  BY EmptySeq
<1>7. ASSUME NEW n \in 0 .. 2, NEW l \in Seq(Char), NEW fs \in Seq(Seq(Char)), NEW o \in BOOLEAN,
             q = [file |-> g, state |-> n, line |-> l, fields |-> fs, over |-> o]
      PROVE  Goes(s, q, a, n, l, fs) /\ q.over = o
  <2>1. q \in LoopStates /\ q.file = g /\ q.state = n /\ q.line = l /\ q.fields = fs /\ q.over = o
    BY <1>2, <1>7 DEF LoopStates
  <2> QED
    BY <1>2, <2>1 DEF Goes
<1>13. 0 \in 0 .. 2 /\ 1 \in 0 .. 2 /\ FALSE \in BOOLEAN /\ TRUE \in BOOLEAN
  OBVIOUS
<1>8. CASE c = Comma /\ s.state # 1
  <2>1. q = [file |-> g, state |-> 0, line |-> e, fields |-> fl, over |-> FALSE]
    BY <1>1, <1>2, <1>5, <1>6, <1>8, TakesChar
  <2>2. Goes(s, q, a, 0, e, fl) /\ q.over = FALSE
    BY <1>5, <1>6, <1>7, <1>13, <2>1
  <2> QED
    BY <1>5, <1>6, <1>8, <2>2, Characters
<1>9. CASE c = LF /\ s.state # 1
  <2>1. q = [file |-> g, state |-> s.state, line |-> s.line, fields |-> fl, over |-> TRUE]
    BY <1>1, <1>2, <1>5, <1>9, TakesChar
  <2>2. Goes(s, q, a, s.state, s.line, fl) /\ q.over = TRUE
    BY <1>3, <1>7, <2>1
  <2> QED
    BY <1>5, <1>9, <2>2, Characters
<1>10. CASE c = Quote /\ s.state # 2
  <2>1. q = [file |-> g, state |-> s.state + 1, line |-> s.line, fields |-> s.fields, over |-> FALSE]
    BY <1>1, <1>2, <1>10, TakesChar
  <2>2. s.state + 1 \in 0 .. 2
    BY <1>3, <1>10
  <2>3. Goes(s, q, a, s.state + 1, s.line, s.fields) /\ q.over = FALSE
    BY <1>3, <1>7, <2>1, <2>2
  <2> QED
    BY <1>10, <2>3, Characters
<1>11. CASE c = Quote /\ s.state = 2
  <2>1. q = [file |-> g, state |-> 1, line |-> lc, fields |-> s.fields, over |-> FALSE]
    BY <1>1, <1>2, <1>4, <1>11, TakesChar, ZenonT(30)
  <2>2. Goes(s, q, a, 1, lc, s.fields) /\ q.over = FALSE
    BY <1>3, <1>4, <1>7, <1>13, <2>1
  <2> QED
    BY <1>4, <1>11, <2>2, Characters
<1>12. CASE c # Quote /\ (s.state = 1 \/ c \notin {Comma, LF, CR})
  <2>1. q = [file |-> g, state |-> s.state, line |-> lc, fields |-> s.fields, over |-> FALSE]
    BY <1>1, <1>2, <1>4, <1>12, TakesChar, ZenonT(30)
  <2>2. Goes(s, q, a, s.state, lc, s.fields) /\ q.over = FALSE
    BY <1>3, <1>7, <2>1
  <2> QED
    BY <1>4, <1>12, <2>2
<1> QED
  BY <1>8, <1>9, <1>10, <1>11, <1>12

\* What values are read as.
Shows == [v \in Seq(Char) |-> Flat(Show, v)]

\* What it is.
LEMMA ShowsType ==
  /\ Shows \in Maps(Seq(Char), Seq(Char))
  /\ \A v \in Seq(Char) : Shows[v] = Flat(Show, v) /\ Flat(Show, v) \in Seq(Char)
<1>1. \A v \in Seq(Char) : Flat(Show, v) \in Seq(Char)
  BY CodeType, FlatType
<1>2. \A v \in Seq(Char) : Shows[v] = Flat(Show, v)
  BY DEF Shows
<1> QED
  BY <1>1, <1>2 DEF Shows, Maps

\* What the fields will be: those that are read, the value at which the loop
\* is, and the values behind it.
Fields(fields, V, es) == Cat(fields, Cat(<<V>>, Mapped(Shows, es)))

\* A field that is done, the last one or one before another.
LEMMA FieldDone ==
  ASSUME NEW fields \in Seq(Seq(Char)), NEW V \in Seq(Char), NEW es \in Seq(Seq(Char)),
         NEW v \in Seq(Char)
  PROVE  /\ Fields(fields, V, <<>>) = Cat(fields, <<V>>)
         /\ Fields(fields, V, Cat(<<v>>, es)) = Fields(Cat(fields, <<V>>), Flat(Show, v), es)
<1>1. PICK x \in Seq(Seq(Char)) : x = <<V>>
  BY Single
<1>2. PICK y \in Seq(Seq(Char)) : y = <<Flat(Show, v)>>
  BY ShowsType, Single
<1>3. PICK m \in Seq(Seq(Char)) : m = Mapped(Shows, es)
  BY ShowsType, MappedType
<1>4. Mapped(Shows, Cat(<<v>>, es)) = Cat(y, m)
  <2>1. Shows \in Maps(Seq(Char), Seq(Char)) /\ Shows[v] = Flat(Show, v)
    BY ShowsType
  <2>2. Mapped(Shows, Cat(<<v>>, es)) = Cat(<<Shows[v]>>, Mapped(Shows, es))
    BY <2>1, MappedCons
  <2> QED
    BY <1>2, <1>3, <2>1, <2>2
<1>5. PICK ym \in Seq(Seq(Char)) : ym = Cat(y, m)
  BY CatType
<1>6. Cat(Cat(fields, x), ym) = Cat(fields, Cat(x, ym))
  BY CatAssociative
<1>7. Mapped(Shows, <<>>) = <<>> /\ Cat(x, <<>>) = x
  BY FlatEmpty, CatEmpty
<1> QED
  BY <1>1, <1>2, <1>3, <1>4, <1>5, <1>6, <1>7 DEF Fields

\* Where the loop can be in a line of write(): before the value in its quotes,
\* inside of the quotes, at the second of two characters that stand for one,
\* and behind the quotes.  V is what the value is read as.
Starts(s, V, es, t) ==
  /\ s.state = 0 /\ s.line = <<>>
  /\ \E v \in Seq(Char) : V = Flat(Show, v) /\ Ahead(s.file) = Cat(<<Quote>>, Rest(v, es, t))
Inside(s, V, es, t) ==
  /\ s.state = 1
  /\ \E w \in Seq(Char) : V = Cat(s.line, Flat(Show, w)) /\ Ahead(s.file) = Rest(w, es, t)
Half(s, V, es, t) ==
  \E c \in {Quote, EnChar}, w \in Seq(Char) :
    /\ s.state = IF c = Quote THEN 2 ELSE 1
    /\ V = Cat(Cat(s.line, <<c>>), Flat(Show, w)) /\ Ahead(s.file) = Cat(<<c>>, Rest(w, es, t))
Closes(s, V, es, t) == s.state = 2 /\ V = s.line /\ Ahead(s.file) = More(es, t)

\* And in a line made by hand.
ByHand(s, V, es, t) ==
  /\ s.state = 0 /\ NotLF(t) /\ \A i \in 1 .. Len(es) : PlainValue(es[i])
  /\ \E w \in Seq(Char) :
       PlainValue(w) /\ V = Cat(s.line, w) /\ Ahead(s.file) = Cat(w, HandMore(es, t))

\* The reader is at one of five places in a line.
Within(s, V, es, t) ==
  Starts(s, V, es, t) \/ Inside(s, V, es, t) \/ Half(s, V, es, t) \/ Closes(s, V, es, t)
  \/ ByHand(s, V, es, t)

\* What the loop of readfields_csv() keeps, if it is to read the fields F and
\* leave the text t.
TextInv(s, F, t) ==
  /\ s \in LoopStates /\ FileType(s.file)
  /\ s.over => s.fields = F /\ Ahead(s.file) = t
  /\ ~s.over => \E V \in Seq(Char), es \in Seq(Seq(Char)) :
                  F = Fields(s.fields, V, es) /\ Within(s, V, es, t)

\* A turn that takes a character brings it nearer to its end.
Nearer(s, q, F, t) == TextInv(q, F, t) /\ (q.over \/ Len(Ahead(q.file)) < Len(Ahead(s.file)))

\* What is left of a value begins with its next character, as it is written.
LEMMA RestCases ==
  ASSUME NEW es \in Seq(Seq(Char)), NEW t \in Seq(Char)
  PROVE  /\ Rest(<<>>, es, t) = Cat(<<Quote>>, More(es, t))
         /\ \A c \in Char, w \in Seq(Char) :
              Rest(Cat(<<c>>, w), es, t) =
                IF c = LF THEN Cat(<<Slash>>, Cat(<<EnChar>>, Rest(w, es, t)))
                ELSE IF c = Quote THEN Cat(<<Quote>>, Cat(<<Quote>>, Rest(w, es, t)))
                ELSE Cat(<<c>>, Rest(w, es, t))
<1>1. PICK m \in Seq(Char) : m = More(es, t)
  BY MoreType
<1>2. PICK u \in Seq(Char) : u = <<Quote>>
  BY Characters, Single
<1>3. PICK um \in Seq(Char) : um = Cat(u, m)
  BY CatType
<1>4. Rest(<<>>, es, t) = Cat(<<Quote>>, m)
  <2>1. Flat(Code, <<>>) = <<>> /\ Cat(<<>>, um) = um
    BY FlatEmpty, CatEmpty
  <2> QED
    BY <1>1, <1>2, <1>3, <2>1 DEF Rest
<1>5. ASSUME NEW c \in Char, NEW w \in Seq(Char)
      PROVE  Rest(Cat(<<c>>, w), es, t) = Cat(Code[c], Rest(w, es, t)) /\ Rest(w, es, t) \in Seq(Char)
  <2>1. PICK x \in Seq(Char) : x = Code[c]
    BY CodeCons
  <2>2. PICK y \in Seq(Char) : y = Flat(Code, w)
    BY CodeCons
  <2>3. Flat(Code, Cat(<<c>>, w)) = Cat(x, y)
    BY <2>1, <2>2, CodeCons
  <2>4. Cat(Cat(x, y), um) = Cat(x, Cat(y, um))
    BY CatAssociative
  <2>5. Rest(w, es, t) = Cat(y, um) /\ Cat(y, um) \in Seq(Char)
    BY <1>1, <1>2, <1>3, <2>2, CatType DEF Rest
  <2> QED
    BY <1>1, <1>2, <1>3, <2>1, <2>3, <2>4, <2>5 DEF Rest
<1>6. ASSUME NEW c \in Char, NEW d \in Char, NEW r \in Seq(Char)
      PROVE  Cat(<<c, d>>, r) = Cat(<<c>>, Cat(<<d>>, r))
  <2>1. PICK x \in Seq(Char) : x = <<c>>
    BY Single
  <2>2. PICK y \in Seq(Char) : y = <<d>>
    BY Single
  <2>3. <<c, d>> = Cat(x, y)
    <3>1. <<c, d>> = Append(<<c>>, d)
      OBVIOUS
    <3>2. Append(x, d) = Cat(x, <<d>>)
      BY AppendIsCat
    <3> QED
      BY <2>1, <2>2, <3>1, <3>2
  <2>4. Cat(Cat(x, y), r) = Cat(x, Cat(y, r))
    BY CatAssociative
  <2> QED
    BY <2>1, <2>2, <2>3, <2>4
<1>7. ASSUME NEW c \in Char, NEW w \in Seq(Char)
      PROVE  Rest(Cat(<<c>>, w), es, t) =
               IF c = LF THEN Cat(<<Slash>>, Cat(<<EnChar>>, Rest(w, es, t)))
               ELSE IF c = Quote THEN Cat(<<Quote>>, Cat(<<Quote>>, Rest(w, es, t)))
               ELSE Cat(<<c>>, Rest(w, es, t))
  <2>1. PICK r \in Seq(Char) : r = Rest(w, es, t) /\ Rest(Cat(<<c>>, w), es, t) = Cat(Code[c], r)
    BY <1>5
  <2>2. Cat(<<Slash, EnChar>>, r) = Cat(<<Slash>>, Cat(<<EnChar>>, r))
    BY <1>6, Characters
  <2>3. Cat(<<Quote, Quote>>, r) = Cat(<<Quote>>, Cat(<<Quote>>, r))
    BY <1>6, Characters
  <2>4. CASE c = LF
    BY <2>1, <2>2, <2>4, CodeType
  <2>5. CASE c = Quote
    BY <2>1, <2>3, <2>5, CodeType, Characters
  <2>6. CASE c # LF /\ c # Quote
    <3>1. Code[c] = <<c>>
      BY <2>6, CodeType
    <3> QED
      BY <2>1, <2>6, <3>1
  <2> QED
    BY <2>4, <2>5, <2>6
<1> QED
  BY <1>1, <1>4, <1>7

\* The loop at a character of the buffer.
AtChar(s) ==
  s \in LoopStates /\ FileType(s.file) /\ ~s.over /\ ~(s.file.cur >= Len(s.file.buf))

\* A turn after which the value at which the loop is is the same.
LEMMA SameValue ==
  ASSUME NEW s, NEW q, NEW F, NEW V \in Seq(Char), NEW es \in Seq(Seq(Char)), NEW t \in Seq(Char),
         F = Fields(s.fields, V, es), NEW a, NEW state, NEW line,
         Goes(s, q, a, state, line, s.fields), q.over = FALSE, Within(q, V, es, t)
  PROVE  Nearer(s, q, F, t)
<1>1. q \in LoopStates /\ FileType(q.file) /\ Len(Ahead(q.file)) < Len(Ahead(s.file)) /\ q.fields = s.fields
  BY DEF Goes
<1>2. F = Fields(q.fields, V, es)
  BY <1>1
<1> QED
  BY <1>1, <1>2 DEF Nearer, TextInv

\* At the first quote of a value.
LEMMA StartsTurn ==
  ASSUME NEW s, AtChar(s), NEW size, NEW q, q = Turn(s, size),
         NEW F, NEW V \in Seq(Char), NEW es \in Seq(Seq(Char)), NEW t \in Seq(Char),
         F = Fields(s.fields, V, es), Starts(s, V, es, t)
  PROVE  Nearer(s, q, F, t)
<1>1. PICK v \in Seq(Char) : V = Flat(Show, v) /\ Ahead(s.file) = Cat(<<Quote>>, Rest(v, es, t))
  BY DEF Starts
<1>2. PICK a \in Seq(Char) : a = Rest(v, es, t)
  BY MoreType
<1>3. s.state = 0 /\ s.line = <<>> /\ Quote \in Char
  BY Characters DEF Starts
<1>4. PICK k : k = s.state + 1
  OBVIOUS
<1>5. k = 1
  BY <1>3, <1>4
<1>6. Goes(s, q, a, s.state + 1, s.line, s.fields) /\ q.over = FALSE
  <2>1. Ahead(s.file) = Cat(<<Quote>>, a)
    BY <1>1, <1>2
  <2>2. s.state # 2
    BY <1>3
  <2> QED
    BY <1>3, <2>1, <2>2, TurnGoes DEF AtChar
<1>7. Cat(<<>>, V) = V
  BY CatEmpty
<1>8. Inside(q, V, es, t)
  BY <1>1, <1>2, <1>3, <1>4, <1>5, <1>6, <1>7 DEF Inside, Goes
<1>9. Within(q, V, es, t)
  BY <1>8 DEF Within
<1> QED
  BY <1>6, <1>9, SameValue

\* At the second of two characters.
LEMMA HalfTurn ==
  ASSUME NEW s, AtChar(s), NEW size, NEW q, q = Turn(s, size),
         NEW F, NEW V \in Seq(Char), NEW es \in Seq(Seq(Char)), NEW t \in Seq(Char),
         F = Fields(s.fields, V, es), Half(s, V, es, t)
  PROVE  Nearer(s, q, F, t)
<1>1. PICK c \in {Quote, EnChar}, w \in Seq(Char) :
        /\ s.state = IF c = Quote THEN 2 ELSE 1
        /\ V = Cat(Cat(s.line, <<c>>), Flat(Show, w)) /\ Ahead(s.file) = Cat(<<c>>, Rest(w, es, t))
  BY DEF Half
<1>2. PICK a \in Seq(Char) : a = Rest(w, es, t)
  BY MoreType
<1>3. c \in Char /\ Quote # EnChar
  BY Characters
<1>4. PICK l : l = Cat(s.line, <<c>>)
  OBVIOUS
<1>5. Goes(s, q, a, 1, l, s.fields) /\ q.over = FALSE
  <2>1. Ahead(s.file) = Cat(<<c>>, a)
    BY <1>1, <1>2
  <2>2. CASE c = Quote
    <3>1. s.state = 2
      BY <1>1, <2>2
    <3> QED
      BY <1>3, <1>4, <2>1, <2>2, <3>1, TurnGoes DEF AtChar
  <2>3. CASE c # Quote
    <3>1. s.state = 1
      BY <1>1, <2>3
    <3>2. Goes(s, q, a, s.state, Cat(s.line, <<c>>), s.fields) /\ q.over = FALSE
      BY <1>3, <2>1, <2>3, <3>1, TurnGoes DEF AtChar
    <3> QED
      BY <1>4, <3>1, <3>2
  <2> QED
    BY <2>2, <2>3
<1>6. Inside(q, V, es, t)
  BY <1>1, <1>2, <1>4, <1>5 DEF Inside, Goes
<1>7. Within(q, V, es, t)
  BY <1>6 DEF Within
<1> QED
  BY <1>5, <1>7, SameValue

\* In the quotes of a value.
LEMMA InsideTurn ==
  ASSUME NEW s, AtChar(s), NEW size, NEW q, q = Turn(s, size),
         NEW F, NEW V \in Seq(Char), NEW es \in Seq(Seq(Char)), NEW t \in Seq(Char),
         F = Fields(s.fields, V, es), Inside(s, V, es, t)
  PROVE  Nearer(s, q, F, t)
<1>1. PICK w \in Seq(Char) : V = Cat(s.line, Flat(Show, w)) /\ Ahead(s.file) = Rest(w, es, t)
  BY DEF Inside
<1>2. s.state = 1 /\ s.line \in Seq(Char)
  BY DEF Inside, AtChar, LoopStates
<1>3. /\ Quote \in Char /\ LF \in Char /\ Slash \in Char /\ EnChar \in Char
      /\ Quote # LF /\ Quote # Slash /\ Quote # EnChar
  BY Characters
<1>4. PICK k : k = s.state + 1
  OBVIOUS
<1>5. k = 2
  BY <1>2, <1>4
<1>6. ASSUME NEW a \in Seq(Char), Ahead(s.file) = Cat(<<Quote>>, a)
      PROVE  Goes(s, q, a, k, s.line, s.fields) /\ q.over = FALSE
  <2>1. s.state # 2
    BY <1>2
  <2> QED
    BY <1>3, <1>4, <1>6, <2>1, TurnGoes DEF AtChar
<1>7. ASSUME NEW c \in Char, c # Quote, NEW a \in Seq(Char), Ahead(s.file) = Cat(<<c>>, a)
      PROVE  Goes(s, q, a, 1, Cat(s.line, <<c>>), s.fields) /\ q.over = FALSE
  <2>1. Goes(s, q, a, s.state, Cat(s.line, <<c>>), s.fields) /\ q.over = FALSE
    BY <1>2, <1>7, TurnGoes DEF AtChar
  <2> QED
    BY <1>2, <2>1
<1>8. CASE w = <<>>
  <2>1. PICK a \in Seq(Char) : a = More(es, t)
    BY MoreType
  <2>2. Ahead(s.file) = Cat(<<Quote>>, a)
    BY <1>1, <1>8, <2>1, RestCases
  <2>3. Goes(s, q, a, k, s.line, s.fields) /\ q.over = FALSE
    BY <1>6, <2>2
  <2>4. V = s.line
    <3>1. Flat(Show, w) = <<>>
      BY <1>8, FlatEmpty
    <3>2. Cat(s.line, <<>>) = s.line
      BY <1>2, CatEmpty
    <3> QED
      BY <1>1, <3>1, <3>2
  <2>5. Closes(q, V, es, t)
    BY <1>5, <2>1, <2>3, <2>4 DEF Closes, Goes
  <2>6. Within(q, V, es, t)
    BY <2>5 DEF Within
  <2> QED
    BY <2>3, <2>6, SameValue
<1>9. ASSUME NEW d \in Char, NEW r \in Seq(Char), w = Cat(<<d>>, r) PROVE Nearer(s, q, F, t)
  <2>1. PICK R \in Seq(Char) : R = Rest(r, es, t)
    BY MoreType
  <2>2. PICK z \in Seq(Char) : z = Flat(Show, r)
    BY CodeCons, <1>9
  <2>3. Ahead(s.file) = IF d = LF THEN Cat(<<Slash>>, Cat(<<EnChar>>, R))
                        ELSE IF d = Quote THEN Cat(<<Quote>>, Cat(<<Quote>>, R))
                        ELSE Cat(<<d>>, R)
    <3>1. \A c \in Char, x \in Seq(Char) :
            Rest(Cat(<<c>>, x), es, t) =
              IF c = LF THEN Cat(<<Slash>>, Cat(<<EnChar>>, Rest(x, es, t)))
              ELSE IF c = Quote THEN Cat(<<Quote>>, Cat(<<Quote>>, Rest(x, es, t)))
              ELSE Cat(<<c>>, Rest(x, es, t))
      BY RestCases
    <3>2. Rest(Cat(<<d>>, r), es, t) =
            IF d = LF THEN Cat(<<Slash>>, Cat(<<EnChar>>, R))
            ELSE IF d = Quote THEN Cat(<<Quote>>, Cat(<<Quote>>, R))
            ELSE Cat(<<d>>, R)
      BY <1>9, <2>1, <3>1
    <3> QED
      BY <1>1, <1>9, <3>2
  <2>4. PICK y \in Seq(Char) : y = Show[d]
    BY <1>9, CodeCons
  <2>5. V = Cat(Cat(s.line, y), z)
    <3>1. Flat(Show, w) = Cat(y, z)
      BY <1>9, <2>2, <2>4, CodeCons
    <3>2. Cat(s.line, Cat(y, z)) = Cat(Cat(s.line, y), z)
      BY <1>2, CatAssociative
    <3> QED
      BY <1>1, <3>1, <3>2
  <2>6. CASE d = LF
    <3>1. PICK a \in Seq(Char) : a = Cat(<<EnChar>>, R)
      BY <1>3, FirstOf
    <3>2. Goes(s, q, a, 1, Cat(s.line, <<Slash>>), s.fields) /\ q.over = FALSE
      BY <1>3, <1>7, <2>3, <2>6, <3>1
    <3>3. V = Cat(Cat(Cat(s.line, <<Slash>>), <<EnChar>>), z)
      <4>1. PICK sl \in Seq(Char) : sl = <<Slash>>
        BY <1>3, Single
      <4>2. PICK en \in Seq(Char) : en = <<EnChar>>
        BY <1>3, Single
      <4>3. y = Cat(sl, en)
        <5>1. y = <<Slash, EnChar>>
          BY <2>4, <2>6, CodeType
        <5>2. <<Slash, EnChar>> = Append(<<Slash>>, EnChar)
          OBVIOUS
        <5>3. Append(sl, EnChar) = Cat(sl, <<EnChar>>)
          BY <1>3, AppendIsCat
        <5> QED
          BY <4>1, <4>2, <5>1, <5>2, <5>3
      <4>4. Cat(s.line, Cat(sl, en)) = Cat(Cat(s.line, sl), en)
        BY <1>2, CatAssociative
      <4> QED
        BY <2>5, <4>1, <4>2, <4>3, <4>4
    <3>4. Half(q, V, es, t)
      <4>1. EnChar \in {Quote, EnChar}
        OBVIOUS
      <4>2. /\ q.state = IF EnChar = Quote THEN 2 ELSE 1
            /\ V = Cat(Cat(q.line, <<EnChar>>), Flat(Show, r)) /\ Ahead(q.file) = Cat(<<EnChar>>, Rest(r, es, t))
        BY <1>3, <2>1, <2>2, <3>1, <3>2, <3>3 DEF Goes
      <4> QED
        BY <4>1, <4>2 DEF Half
    <3>5. Within(q, V, es, t)
      BY <3>4 DEF Within
    <3> QED
      BY <3>2, <3>5, SameValue
  <2>7. CASE d = Quote
    <3>1. PICK a \in Seq(Char) : a = Cat(<<Quote>>, R)
      BY <1>3, FirstOf
    <3>2. Goes(s, q, a, k, s.line, s.fields) /\ q.over = FALSE
      BY <1>3, <1>6, <2>3, <2>7, <3>1
    <3>3. y = <<Quote>>
      BY <1>3, <2>4, <2>7, CodeType
    <3>4. Half(q, V, es, t)
      <4>1. Quote \in {Quote, EnChar}
        OBVIOUS
      <4>2. /\ q.state = IF Quote = Quote THEN 2 ELSE 1
            /\ V = Cat(Cat(q.line, <<Quote>>), Flat(Show, r)) /\ Ahead(q.file) = Cat(<<Quote>>, Rest(r, es, t))
        BY <1>5, <2>1, <2>2, <2>5, <3>1, <3>2, <3>3 DEF Goes
      <4> QED
        BY <4>1, <4>2 DEF Half
    <3>5. Within(q, V, es, t)
      BY <3>4 DEF Within
    <3> QED
      BY <3>2, <3>5, SameValue
  <2>8. CASE d # LF /\ d # Quote
    <3>1. Goes(s, q, R, 1, Cat(s.line, <<d>>), s.fields) /\ q.over = FALSE
      BY <1>7, <1>9, <2>3, <2>8
    <3>2. y = <<d>>
      BY <1>9, <2>4, <2>8, CodeType
    <3>3. Inside(q, V, es, t)
      BY <1>9, <2>1, <2>2, <2>5, <3>1, <3>2 DEF Inside, Goes
    <3>4. Within(q, V, es, t)
      BY <3>3 DEF Within
    <3> QED
      BY <3>1, <3>4, SameValue
  <2> QED
    BY <2>6, <2>7, <2>8
<1>10. CASE w # <<>>
  BY <1>9, <1>10, HeadOf
<1> QED
  BY <1>8, <1>10

\* A turn that ends a field.
LEMMA FieldLast ==
  ASSUME NEW fs \in Seq(Seq(Char)), NEW V \in Seq(Char)
  PROVE  Fields(fs, V, <<>>) = Cat(fs, <<V>>)
<1>1. PICK v \in Seq(Char) : v = <<>>
  BY EmptySeq
<1>2. PICK es \in Seq(Seq(Char)) : es = <<>>
  BY EmptySeq
<1> QED
  BY <1>1, <1>2, FieldDone

\* A field with another behind it.
LEMMA FieldNext ==
  ASSUME NEW fs \in Seq(Seq(Char)), NEW V \in Seq(Char), NEW r \in Seq(Seq(Char)), NEW v \in Seq(Char)
  PROVE  Fields(fs, V, Cat(<<v>>, r)) = Fields(Cat(fs, <<V>>), Flat(Show, v), r)
  BY FieldDone

\* The first of several values.
LEMMA FirstValue ==
  ASSUME NEW v \in Seq(Char), NEW r \in Seq(Seq(Char)), NEW es, es = Cat(<<v>>, r)
  PROVE  Len(es) = Len(r) + 1 /\ es[1] = v /\ \A i \in 1 .. Len(r) : es[i + 1] = r[i]
<1>1. Len(Cat(<<v>>, r)) = Len(r) + 1
  BY FirstOf
<1>2. Cat(<<v>>, r)[1] = v
  BY FirstOf
<1>3. \A i \in 1 .. Len(r) : Cat(<<v>>, r)[i + 1] = r[i]
  <2>1. PICK S : S = Seq(Char)
    OBVIOUS
  <2>2. PICK x \in S : x = v
    BY <2>1
  <2>3. PICK y \in Seq(S) : y = r
    BY <2>1
  <2>4. \A i \in 1 .. Len(y) : Cat(<<x>>, y)[i + 1] = y[i]
    BY FirstOf
  <2> QED
    BY <2>2, <2>3, <2>4
<1> QED
  BY <1>1, <1>2, <1>3

\* When all values are plain, so are the first and the others.
LEMMA PlainOthers ==
  ASSUME NEW v \in Seq(Char), NEW r \in Seq(Seq(Char)), NEW es, es = Cat(<<v>>, r),
         \A i \in 1 .. Len(es) : PlainValue(es[i])
  PROVE  PlainValue(v) /\ \A i \in 1 .. Len(r) : PlainValue(r[i])
<1>1. PICK n \in Nat : n = Len(r)
  OBVIOUS
<1>2. Len(es) = n + 1
  BY <1>1, FirstValue
<1>3. es[1] = v
  BY FirstValue
<1>4. \A i \in 1 .. n : es[i + 1] = r[i]
  BY <1>1, FirstValue
<1>5. PlainValue(v)
  <2>1. 1 \in 1 .. Len(es)
    BY <1>2
  <2> QED
    BY <1>3, <2>1
<1>6. ASSUME NEW i \in 1 .. n PROVE PlainValue(r[i])
  <2>1. i + 1 \in 1 .. Len(es)
    BY <1>2
  <2> QED
    BY <1>4, <2>1
<1> QED
  BY <1>1, <1>5, <1>6

\* Behind the quotes of a value.
LEMMA ClosesTurn ==
  ASSUME NEW s, AtChar(s), NEW size, NEW q, q = Turn(s, size),
         NEW F, NEW V \in Seq(Char), NEW es \in Seq(Seq(Char)), NEW t \in Seq(Char),
         F = Fields(s.fields, V, es), Closes(s, V, es, t)
  PROVE  Nearer(s, q, F, t)
<1>1. /\ Comma \in Char /\ LF \in Char /\ Comma # LF /\ Quote \in Char
  BY Characters
<1>2. s.state = 2 /\ V = s.line /\ Ahead(s.file) = More(es, t) /\ s \in LoopStates
  BY DEF Closes, AtChar
<1>3. s.state # 1 /\ s.fields \in Seq(Seq(Char))
  BY <1>2 DEF LoopStates
<1>7. PICK fl : fl = Cat(s.fields, <<s.line>>)
  OBVIOUS
<1>4. CASE es = <<>>
  <2>1. Ahead(s.file) = Cat(<<LF>>, t)
    BY <1>2, <1>4, MoreEmpty
  <2>2. Goes(s, q, t, s.state, s.line, fl) /\ q.over = TRUE
    <3>1. Goes(s, q, t, s.state, s.line, Cat(s.fields, <<s.line>>)) /\ q.over = TRUE
      BY <1>1, <1>3, <2>1, TurnGoes DEF AtChar
    <3> QED
      BY <1>7, <3>1
  <2>3. F = fl
    <3>1. Fields(s.fields, V, <<>>) = Cat(s.fields, <<V>>)
      BY <1>3, FieldLast
    <3> QED
      BY <1>2, <1>4, <1>7, <3>1
  <2> QED
    BY <2>2, <2>3 DEF Nearer, TextInv, Goes
<1>5. ASSUME NEW v \in Seq(Char), NEW r \in Seq(Seq(Char)), es = Cat(<<v>>, r)
      PROVE  Nearer(s, q, F, t)
  <2>1. PICK a \in Seq(Char) : a = Cat(<<Quote>>, Rest(v, r, t))
    BY <1>1, <1>5, MoreType, FirstOf
  <2>2. Ahead(s.file) = Cat(<<Comma>>, a)
    BY <1>2, <1>5, <2>1, MoreCons
  <2>3. Goes(s, q, a, 0, <<>>, fl) /\ q.over = FALSE
    <3>1. Goes(s, q, a, 0, <<>>, Cat(s.fields, <<s.line>>)) /\ q.over = FALSE
      BY <1>1, <1>3, <2>2, TurnGoes DEF AtChar
    <3> QED
      BY <1>7, <3>1
  <2>4. PICK W \in Seq(Char) : W = Flat(Show, v)
    BY <1>5, ShowsType
  <2>5. F = Fields(fl, W, r)
    <3>1. Fields(s.fields, V, Cat(<<v>>, r)) = Fields(Cat(s.fields, <<V>>), Flat(Show, v), r)
      BY <1>3, <1>5, FieldNext
    <3> QED
      BY <1>2, <1>5, <1>7, <2>4, <3>1
  <2>6. Starts(q, W, r, t)
    BY <1>5, <2>1, <2>3, <2>4 DEF Starts, Goes
  <2>7. Within(q, W, r, t)
    BY <2>6 DEF Within
  <2>8. q \in LoopStates /\ FileType(q.file) /\ q.fields = fl /\ Len(Ahead(q.file)) < Len(Ahead(s.file))
    BY <2>3 DEF Goes
  <2>9. F = Fields(q.fields, W, r) /\ W \in Seq(Char) /\ r \in Seq(Seq(Char))
    BY <1>5, <2>4, <2>5, <2>8
  <2> QED
    BY <2>3, <2>7, <2>8, <2>9 DEF Nearer, TextInv
<1>6. CASE es # <<>>
  BY <1>5, <1>6, HeadOf
<1> QED
  BY <1>4, <1>6

\* In a line made by hand.
LEMMA HandTurn ==
  ASSUME NEW s, AtChar(s), NEW size \in Nat \ {0}, NEW q, q = Turn(s, size),
         NEW F, NEW V \in Seq(Char), NEW es \in Seq(Seq(Char)), NEW t \in Seq(Char),
         F = Fields(s.fields, V, es), ByHand(s, V, es, t)
  PROVE  Nearer(s, q, F, t)
<1>1. /\ Comma \in Char /\ LF \in Char /\ CR \in Char /\ Quote \in Char
      /\ Comma # LF /\ Comma # CR /\ CR # LF /\ Quote # CR /\ Quote # Comma
  BY Characters
<1>2. /\ s.state = 0 /\ s \in LoopStates /\ s.line \in Seq(Char) /\ s.fields \in Seq(Seq(Char))
      /\ NotLF(t) /\ \A i \in 1 .. Len(es) : PlainValue(es[i])
  BY DEF ByHand, AtChar, LoopStates
<1>3. PICK w \in Seq(Char) :
        PlainValue(w) /\ V = Cat(s.line, w) /\ Ahead(s.file) = Cat(w, HandMore(es, t))
  BY DEF ByHand
<1>12. s.state # 1
  BY <1>2
<1>4. PICK fl \in Seq(Seq(Char)) : fl = Cat(s.fields, <<s.line>>) /\ fl = Append(s.fields, s.line)
  BY <1>2, AppendIsCat
<1>5. PICK m \in Seq(Char) : m = HandMore(es, t)
  BY MoreType
<1>6. ASSUME w = <<>> PROVE V = s.line /\ Ahead(s.file) = m
  <2>1. Cat(s.line, <<>>) = s.line /\ Cat(<<>>, m) = m
    BY <1>2, CatEmpty
  <2> QED
    BY <1>3, <1>5, <1>6, <2>1
<1>7. CASE w = <<>> /\ es = <<>>
  <2>1. V = s.line /\ Ahead(s.file) = Cat(<<CR>>, Cat(<<LF>>, t))
    BY <1>5, <1>6, <1>7, MoreEmpty
  <2>2. CR = s.file.buf[s.file.cur + 1]
    <3>1. Cat(<<LF>>, t) \in Seq(Char)
      BY <1>1, FirstOf
    <3> QED
      BY <1>1, <2>1, <3>1, NextIs DEF AtChar
  <2>3. PICK g : g = AfterCR(s.file, size)
    OBVIOUS
  <2>4. q = [file |-> g, state |-> s.state, line |-> s.line, fields |-> fl, over |-> TRUE]
    <3>1. q = [file |-> AfterCR(s.file, size), state |-> s.state, line |-> s.line,
               fields |-> Append(s.fields, s.line), over |-> TRUE]
      BY <1>12, <2>2, TakesChar DEF AtChar
    <3> QED
      BY <1>4, <2>3, <3>1
  <2>5. FileType(g) /\ Ahead(g) = t
    BY <1>2, <2>1, <2>3, AfterCRGood DEF AtChar
  <2>6. F = fl
    <3>1. Fields(s.fields, V, <<>>) = Cat(s.fields, <<V>>)
      BY <1>2, FieldLast
    <3> QED
      BY <1>4, <1>7, <2>1, <3>1
  <2>7. g \in Files /\ s.state \in 0 .. 2 /\ s.line \in Seq(Char)
    BY <1>2, <2>5 DEF FileType
  <2>8. q \in LoopStates /\ q.file = g /\ q.fields = fl /\ q.over = TRUE
    <3>1. PICK n \in 0 .. 2 : n = s.state
      BY <2>7
    <3>2. PICK l \in Seq(Char) : l = s.line
      BY <2>7
    <3>3. q = [file |-> g, state |-> n, line |-> l, fields |-> fl, over |-> TRUE]
      BY <2>4, <3>1, <3>2
    <3> QED
      BY <2>7, <3>3 DEF LoopStates
  <2> QED
    BY <2>5, <2>6, <2>8 DEF Nearer, TextInv
<1>8. ASSUME w = <<>>, NEW v \in Seq(Char), NEW r \in Seq(Seq(Char)), es = Cat(<<v>>, r)
      PROVE  Nearer(s, q, F, t)
  <2>1. PICK a \in Seq(Char) : a = Cat(v, HandMore(r, t))
    BY <1>8, MoreType, CatType
  <2>2. V = s.line /\ Ahead(s.file) = Cat(<<Comma>>, a)
    BY <1>5, <1>6, <1>8, <2>1, MoreCons, SMTT(30)
  <2>3. Goes(s, q, a, 0, <<>>, fl) /\ q.over = FALSE
    <3>1. Goes(s, q, a, 0, <<>>, Cat(s.fields, <<s.line>>)) /\ q.over = FALSE
      BY <1>1, <1>12, <2>2, TurnGoes DEF AtChar
    <3> QED
      BY <1>4, <3>1
  <2>4. PlainValue(v) /\ \A i \in 1 .. Len(r) : PlainValue(r[i])
    <3>1. \A i \in 1 .. Len(es) : PlainValue(es[i])
      BY <1>2
    <3> QED
      BY <1>8, <3>1, PlainOthers
  <2>5. F = Fields(fl, v, r)
    <3>1. F = Fields(fl, Flat(Show, v), r)
      <4>1. Fields(s.fields, V, Cat(<<v>>, r)) = Fields(Cat(s.fields, <<V>>), Flat(Show, v), r)
        BY <1>2, <1>8, FieldNext
      <4> QED
        BY <1>4, <1>8, <2>2, <4>1
    <3>2. Flat(Show, v) = v
      BY <2>4, PlainShown
    <3> QED
      BY <3>1, <3>2
  <2>6. Cat(<<>>, v) = v
    BY <1>8, CatEmpty
  <2>7. ByHand(q, v, r, t)
    BY <1>2, <1>8, <2>1, <2>3, <2>4, <2>6 DEF ByHand, Goes
  <2>8. Within(q, v, r, t)
    BY <2>7 DEF Within
  <2>9. q \in LoopStates /\ FileType(q.file) /\ q.fields = fl /\ Len(Ahead(q.file)) < Len(Ahead(s.file))
    BY <2>3 DEF Goes
  <2>10. F = Fields(q.fields, v, r) /\ v \in Seq(Char) /\ r \in Seq(Seq(Char))
    BY <1>8, <2>5, <2>9
  <2> QED
    BY <2>3, <2>8, <2>9, <2>10 DEF Nearer, TextInv
<1>9. ASSUME NEW d \in Char, NEW r \in Seq(Char), w = Cat(<<d>>, r) PROVE Nearer(s, q, F, t)
  <2>1. d \notin {Quote, Comma, LF, CR} /\ PlainValue(r)
    BY <1>3, <1>9, PlainCons
  <2>2. PICK a \in Seq(Char) : a = Cat(r, m)
    BY <1>9, CatType
  <2>3. PICK x \in Seq(Char) : x = <<d>>
    BY <1>9, Single
  <2>4. r \in Seq(Char) /\ s.line \in Seq(Char)
    BY <1>2, <1>9
  <2>5. Ahead(s.file) = Cat(x, a)
    <3>1. Cat(Cat(x, r), m) = Cat(x, Cat(r, m))
      BY <2>4, CatAssociative
    <3> QED
      BY <1>3, <1>5, <1>9, <2>2, <2>3, <3>1
  <2>6. V = Cat(Cat(s.line, x), r)
    <3>1. Cat(s.line, Cat(x, r)) = Cat(Cat(s.line, x), r)
      BY <2>4, CatAssociative
    <3> QED
      BY <1>3, <1>9, <2>3, <3>1
  <2>7. Goes(s, q, a, s.state, Cat(s.line, <<d>>), s.fields) /\ q.over = FALSE
    <3>1. d # Quote /\ d \notin {Comma, LF, CR} /\ d \in Char /\ Ahead(s.file) = Cat(<<d>>, a)
      BY <1>9, <2>1, <2>3, <2>5
    <3> QED
      BY <3>1, TurnGoes, ZenonT(30) DEF AtChar
  <2>8. ByHand(q, V, es, t)
    BY <1>2, <1>5, <1>9, <2>1, <2>2, <2>3, <2>6, <2>7 DEF ByHand, Goes
  <2>9. Within(q, V, es, t)
    BY <2>8 DEF Within
  <2> QED
    BY <2>7, <2>9, SameValue
<1>10. CASE w = <<>> /\ es # <<>>
  <2>1. PICK v \in Seq(Char), r \in Seq(Seq(Char)) : es = Cat(<<v>>, r)
    BY <1>10, HeadOf
  <2> QED
    BY <1>8, <1>10, <2>1
<1>11. CASE w # <<>>
  <2>1. PICK d \in Char, r \in Seq(Char) : w = Cat(<<d>>, r)
    <3>1. w \in Seq(Char)
      BY <1>3
    <3> QED
      BY <1>11, <3>1, HeadOf
  <2> QED
    BY <1>9, <2>1
<1> QED
  BY <1>7, <1>10, <1>11

------------------------------------------------------------------------------
\* A line is read.

\* What holds a character is not empty.
LEMMA HasChar ==
  ASSUME NEW x \in Seq(Char), NEW c \in Char, NEW y \in Seq(Char)
  PROVE  Cat(x, Cat(<<c>>, y)) # <<>> /\ Cat(<<c>>, y) # <<>>
<1>1. PICK z \in Seq(Char) : z = Cat(<<c>>, y)
  BY FirstOf
<1>2. Len(z) = Len(y) + 1
  BY <1>1, FirstOf
<1>3. Len(Cat(x, z)) = Len(x) + Len(z)
  BY CatType
<1>4. Len(x) \in Nat /\ Len(y) \in Nat
  OBVIOUS
<1>5. Len(Cat(x, z)) # 0 /\ Len(z) # 0
  BY <1>2, <1>3, <1>4
<1> QED
  BY <1>1, <1>5

\* Inside of a line there is something to be read.
LEMMA WithinReads ==
  ASSUME NEW s, NEW V, NEW es \in Seq(Seq(Char)), NEW t \in Seq(Char), Within(s, V, es, t)
  PROVE  Ahead(s.file) # <<>>
<1>1. Quote \in Char /\ EnChar \in Char /\ LF \in Char /\ CR \in Char
  BY Characters
<1>2. PICK m \in Seq(Char) : m = More(es, t) /\ m # <<>>
  <2>1. Flat(FieldText, es) \in Seq(Char)
    <3>1. FieldText \in Maps(Seq(Char), Seq(Char))
      BY FieldTextType
    <3> QED
      BY <3>1, FlatType
  <2>2. More(es, t) # <<>>
    BY <1>1, <2>1, HasChar DEF More
  <2> QED
    BY <2>2, MoreType
<1>3. ASSUME NEW w \in Seq(Char) PROVE Rest(w, es, t) # <<>>
  <2>1. Flat(Code, w) \in Seq(Char)
    BY CodeType, FlatType
  <2> QED
    BY <1>1, <1>2, <2>1, HasChar DEF Rest
<1>4. ASSUME NEW w \in Seq(Char) PROVE Cat(w, HandMore(es, t)) # <<>>
  <2>1. PICK h \in Seq(Char) : h = Flat(HandText, es)
    <3>1. HandText \in Maps(Seq(Char), Seq(Char))
      BY FieldTextType
    <3> QED
      BY <3>1, FlatType
  <2>2. PICK u \in Seq(Char) : u = Cat(<<LF>>, t)
    BY <1>1, FirstOf
  <2>3. PICK y \in Seq(Char) : y = Cat(<<CR>>, u)
    BY <1>1, FirstOf
  <2>4. PICK wh \in Seq(Char) : wh = Cat(w, h)
    BY CatType
  <2>5. Cat(w, Cat(h, y)) = Cat(wh, y)
    BY <2>4, CatAssociative
  <2>6. Cat(wh, Cat(<<CR>>, u)) # <<>>
    BY <1>1, HasChar
  <2> QED
    BY <2>1, <2>2, <2>3, <2>5, <2>6 DEF HandMore
<1>5. ASSUME NEW c \in Char, NEW w \in Seq(Char) PROVE Cat(<<c>>, Rest(w, es, t)) # <<>>
  <2>1. Rest(w, es, t) \in Seq(Char)
    BY MoreType
  <2> QED
    BY <2>1, HasChar
<1>6. CASE Starts(s, V, es, t)
  BY <1>1, <1>5, <1>6 DEF Starts
<1>7. CASE Inside(s, V, es, t)
  BY <1>3, <1>7 DEF Inside
<1>8. CASE Half(s, V, es, t)
  BY <1>1, <1>5, <1>8 DEF Half
<1>9. CASE Closes(s, V, es, t)
  BY <1>2, <1>9 DEF Closes
<1>10. CASE ByHand(s, V, es, t)
  BY <1>4, <1>10 DEF ByHand
<1> QED
  BY <1>6, <1>7, <1>8, <1>9, <1>10 DEF Within

\* Turns that can follow.
Measure(s) == 2 * Len(Ahead(s.file)) + (IF s.file.cur >= Len(s.file.buf) THEN 1 ELSE 0)

\* It is a number.
LEMMA MeasureType ==
  ASSUME NEW s, FileType(s.file)
  PROVE  /\ Measure(s) \in Nat /\ Len(Ahead(s.file)) \in Nat
         /\ Measure(s) >= 2 * Len(Ahead(s.file)) /\ Measure(s) <= 2 * Len(Ahead(s.file)) + 1
         /\ s.file.cur >= Len(s.file.buf) => Measure(s) = 2 * Len(Ahead(s.file)) + 1
<1>1. PICK n \in Nat : n = Len(Ahead(s.file))
  <2>1. Ahead(s.file) \in Seq(Char)
    BY AheadType
  <2> QED
    BY <2>1
<1>2. Measure(s) = 2 * n + 1 \/ Measure(s) = 2 * n
  BY <1>1 DEF Measure
<1>3. s.file.cur >= Len(s.file.buf) => Measure(s) = 2 * n + 1
  BY <1>1 DEF Measure
<1> QED
  BY <1>1, <1>2, <1>3

\* A turn that takes the next piece of the file.
LEMMA PieceTurn ==
  ASSUME NEW s, NEW F, NEW t \in Seq(Char), TextInv(s, F, t), ~s.over,
         s.file.cur >= Len(s.file.buf), NEW size \in Nat \ {0}, NEW q, q = Turn(s, size)
  PROVE  TextInv(q, F, t) /\ q.over = FALSE /\ Measure(q) < Measure(s)
<1>1. PICK V \in Seq(Char), es \in Seq(Seq(Char)) : F = Fields(s.fields, V, es) /\ Within(s, V, es, t)
  BY DEF TextInv
<1>2. s \in LoopStates /\ FileType(s.file)
  BY DEF TextInv
<1>3. Ahead(s.file) # <<>>
  BY <1>1, WithinReads
<1>4. PICK g : g = read2buf(s.file, size)
  OBVIOUS
<1>5. FileType(g) /\ g.cur = 0 /\ Ahead(g) = Ahead(s.file) /\ Len(g.buf) > 0
  BY <1>2, <1>3, <1>4, AheadIsRest, NextBufferGood
<1>6. g.buf # <<>>
  BY <1>5
<1>7. q = [s EXCEPT !.file = g]
  BY <1>4, <1>6 DEF Turn, NextPiece
<1>8. /\ q \in LoopStates /\ q.file = g /\ q.state = s.state /\ q.line = s.line
      /\ q.fields = s.fields /\ q.over = FALSE
  BY <1>2, <1>5, <1>7 DEF LoopStates, FileType
<1>9. Ahead(q.file) = Ahead(s.file)
  BY <1>5, <1>8
<1>10. Within(q, V, es, t)
  <2>1. Starts(s, V, es, t) => Starts(q, V, es, t)
    BY <1>8, <1>9 DEF Starts
  <2>2. Inside(s, V, es, t) => Inside(q, V, es, t)
    BY <1>8, <1>9 DEF Inside
  <2>3. Half(s, V, es, t) => Half(q, V, es, t)
    BY <1>8, <1>9 DEF Half
  <2>4. Closes(s, V, es, t) => Closes(q, V, es, t)
    BY <1>8, <1>9 DEF Closes
  <2>5. ByHand(s, V, es, t) => ByHand(q, V, es, t)
    BY <1>8, <1>9 DEF ByHand
  <2> QED
    BY <1>1, <2>1, <2>2, <2>3, <2>4, <2>5 DEF Within
<1>11. TextInv(q, F, t)
  <2>1. F = Fields(q.fields, V, es) /\ FileType(q.file)
    BY <1>1, <1>5, <1>8
  <2> QED
    BY <1>8, <1>10, <2>1 DEF TextInv
<1>12. Measure(q) = 2 * Len(Ahead(s.file))
  <2>1. ~(q.file.cur >= Len(q.file.buf))
    <3>1. Len(g.buf) \in Nat
      BY <1>5, AheadType
    <3> QED
      BY <1>5, <1>8, <3>1
  <2>2. PICK n \in Nat : n = Len(Ahead(s.file))
    BY <1>2, MeasureType
  <2>3. Measure(q) = 2 * n + 0
    BY <1>9, <2>1, <2>2 DEF Measure
  <2> QED
    BY <2>2, <2>3
<1>13. Measure(s) = 2 * Len(Ahead(s.file)) + 1 /\ Len(Ahead(s.file)) \in Nat
  BY <1>2, MeasureType
<1> QED
  BY <1>8, <1>11, <1>12, <1>13

\* A turn, whichever it is.
LEMMA TextTurn ==
  ASSUME NEW s, NEW F, NEW t \in Seq(Char), TextInv(s, F, t), NEW size \in Nat \ {0},
         NEW q, q = Turn(s, size)
  PROVE  /\ TextInv(q, F, t)
         /\ s.over => q = s
         /\ ~s.over => Measure(s) > 0 /\ (q.over \/ Measure(q) < Measure(s))
<1>1. CASE s.over
  BY <1>1 DEF Turn
<1>2. CASE ~s.over
  <2>1. PICK V \in Seq(Char), es \in Seq(Seq(Char)) : F = Fields(s.fields, V, es) /\ Within(s, V, es, t)
    BY <1>2 DEF TextInv
  <2>2. s \in LoopStates /\ FileType(s.file)
    BY DEF TextInv
  <2>3. Measure(s) > 0
    <3>1. Ahead(s.file) # <<>> /\ Ahead(s.file) \in Seq(Char)
      BY <2>1, <2>2, WithinReads, AheadType
    <3>2. Len(Ahead(s.file)) # 0
      BY <3>1
    <3>3. PICK n \in Nat : n = Len(Ahead(s.file)) /\ Measure(s) >= 2 * n /\ Measure(s) \in Nat
      BY <2>2, MeasureType
    <3> QED
      BY <3>2, <3>3
  <2>4. CASE s.file.cur >= Len(s.file.buf)
    BY <1>2, <2>3, <2>4, PieceTurn
  <2>5. CASE ~(s.file.cur >= Len(s.file.buf))
    <3>1. AtChar(s)
      BY <1>2, <2>2, <2>5 DEF AtChar
    <3>2. Nearer(s, q, F, t)
      <4>1. CASE Starts(s, V, es, t)
        BY <2>1, <3>1, <4>1, StartsTurn
      <4>2. CASE Inside(s, V, es, t)
        BY <2>1, <3>1, <4>2, InsideTurn
      <4>3. CASE Half(s, V, es, t)
        BY <2>1, <3>1, <4>3, HalfTurn
      <4>4. CASE Closes(s, V, es, t)
        BY <2>1, <3>1, <4>4, ClosesTurn
      <4>5. CASE ByHand(s, V, es, t)
        BY <2>1, <3>1, <4>5, HandTurn
      <4> QED
        BY <2>1, <4>1, <4>2, <4>3, <4>4, <4>5 DEF Within
    <3>3. TextInv(q, F, t) /\ (q.over \/ Len(Ahead(q.file)) < Len(Ahead(s.file)))
      BY <3>2 DEF Nearer
    <3>4. ASSUME Len(Ahead(q.file)) < Len(Ahead(s.file)) PROVE Measure(q) < Measure(s)
      <4>1. FileType(q.file)
        BY <3>3 DEF TextInv
      <4>2. PICK n \in Nat : n = Len(Ahead(s.file)) /\ Measure(s) >= 2 * n
        BY <2>2, MeasureType
      <4>3. PICK m \in Nat : m = Len(Ahead(q.file)) /\ Measure(q) <= 2 * m + 1
        BY <4>1, MeasureType
      <4>4. Measure(s) \in Nat /\ Measure(q) \in Nat
        BY <2>2, <4>1, MeasureType
      <4>5. m < n
        BY <3>4, <4>2, <4>3
      <4> QED
        BY <4>2, <4>3, <4>4, <4>5
    <3> QED
      BY <1>2, <2>3, <3>3, <3>4
  <2> QED
    BY <2>4, <2>5
<1> QED
  BY <1>1, <1>2

\* The loop of readfields_csv().
TextLoop(f, start, size, m) ==
  f = [k \in 0 .. m |-> IF k = 0 THEN start ELSE Turn(f[k - 1], size)]

\* Its steps.
LEMMA TextLoopAt ==
  ASSUME NEW f, NEW start, NEW size, NEW m \in Nat, TextLoop(f, start, size, m)
  PROVE  f[0] = start /\ \A k \in 1 .. m : f[k] = Turn(f[k - 1], size)
<1> DEFINE Value(k) == IF k = 0 THEN start ELSE Turn(f[k - 1], size)
<1>1. f = [k \in 0 .. m |-> Value(k)]
  BY DEF TextLoop
<1> HIDE DEF Value
<1>2. \A k \in 0 .. m : f[k] = Value(k)
  BY <1>1
<1>3. 0 \in 0 .. m /\ \A k \in 1 .. m : k \in 0 .. m /\ k # 0
  OBVIOUS
<1> QED
  BY <1>2, <1>3 DEF Value

\* There is such a loop.
LEMMA TextLoopExists ==
  ASSUME NEW start, NEW size, NEW m \in Nat
  PROVE  \E f : TextLoop(f, start, size, m)
<1> DEFINE T == {n \in 0 .. m : \E f : TextLoop(f, start, size, n)}
<1>1. 0 \in T
  <2>1. TextLoop([k \in 0 .. 0 |-> start], start, size, 0)
    BY DEF TextLoop
  <2> QED
    BY <2>1
<1>2. ASSUME NEW n \in 1 .. m, n - 1 \in T PROVE n \in T
  <2>1. n \in Nat /\ n - 1 \in Nat /\ n \in 0 .. m
    OBVIOUS
  <2>2. PICK f : TextLoop(f, start, size, n - 1)
    BY <1>2
  <2> DEFINE g == [k \in 0 .. n |-> IF k = 0 THEN start ELSE Turn(f[k - 1], size)]
  <2>3. \A k \in 0 .. n - 1 : g[k] = f[k]
    <3> SUFFICES ASSUME NEW k \in 0 .. n - 1 PROVE g[k] = f[k]
      OBVIOUS
    <3>1. k \in 0 .. n /\ (k # 0 => k \in 1 .. n - 1)
      BY <2>1
    <3>2. g[k] = IF k = 0 THEN start ELSE Turn(f[k - 1], size)
      BY <3>1
    <3> HIDE DEF g
    <3>3. f[k] = IF k = 0 THEN start ELSE Turn(f[k - 1], size)
      BY <2>1, <2>2, <3>1, TextLoopAt
    <3> QED
      BY <3>2, <3>3
  <2>4. \A k \in 0 .. n : k # 0 => g[k - 1] = f[k - 1]
    <3>1. \A k \in 0 .. n : k # 0 => k - 1 \in 0 .. n - 1
      BY <2>1
    <3> HIDE DEF g
    <3> QED
      BY <2>3, <3>1
  <2>5. g = [k \in 0 .. n |-> IF k = 0 THEN start ELSE Turn(f[k - 1], size)]
    OBVIOUS
  <2> HIDE DEF g
  <2>6. g = [k \in 0 .. n |-> IF k = 0 THEN start ELSE Turn(g[k - 1], size)]
    BY <2>4, <2>5
  <2>7. TextLoop(g, start, size, n)
    BY <2>6 DEF TextLoop
  <2> QED
    BY <2>1, <2>7
<1> HIDE DEF T
<1>3. m \in T
  BY <1>1, <1>2, UpTo
<1> QED
  BY <1>3 DEF T

\* What the loop begins with.
Begins(f) == [file |-> f, state |-> 0, line |-> <<>>, fields |-> <<>>, over |-> FALSE]

\* readfields_csv() reads the fields F and leaves the text t.
LEMMA TextGood ==
  ASSUME NEW f, FileType(f), NEW size \in Nat \ {0}, NEW F, NEW t \in Seq(Char),
         TextInv(Begins(f), F, t)
  PROVE  /\ readfields_csv(f, size).fields = F
         /\ FileType(readfields_csv(f, size).file) /\ Ahead(readfields_csv(f, size).file) = t
<1> DEFINE start == [file |-> f, state |-> 0, line |-> <<>>, fields |-> <<>>, over |-> FALSE]
           turns == 2 * (Len(f.buf) + Len(f.rest)) + 2
           L == CHOOSE g : g = [k \in 0 .. turns |-> IF k = 0 THEN start ELSE Turn(g[k - 1], size)]
<1>1. readfields_csv(f, size) = L[turns]
  BY Zenon DEF readfields_csv
<1>2. PICK m \in Nat : m = turns
  <2>1. PICK b \in Nat : b = Len(f.buf)
    BY AheadType
  <2>2. PICK r \in Nat : r = Len(f.rest)
    BY AheadType
  <2>3. 2 * (b + r) + 2 \in Nat
    OBVIOUS
  <2> QED
    BY <2>1, <2>2, <2>3
<1>3. TextLoop(L, start, size, m)
  <2>1. \E g : TextLoop(g, start, size, m)
    BY TextLoopExists
  <2> QED
    BY <1>2, <2>1, Zenon DEF TextLoop
<1>4. start = Begins(f) /\ start.file = f
  BY DEF Begins
<1>5. Measure(start) <= m
  <2>1. PICK n \in Nat : n = Len(Ahead(f))
    <3>1. Ahead(f) \in Seq(Char)
      BY AheadType
    <3> QED
      BY <3>1
  <2>2. PICK b \in Nat : b = Len(f.buf)
    BY AheadType
  <2>3. PICK r \in Nat : r = Len(f.rest)
    BY AheadType
  <2>4. n <= b + r
    <3>1. PICK c \in Nat : c = f.cur
      BY AheadType
    <3>2. n = b - c + r
      BY <2>1, <2>2, <2>3, <3>1, AheadType
    <3> QED
      BY <3>2
  <2>5. Measure(start) <= 2 * n + 1 /\ Measure(start) \in Nat
    <3>1. FileType(start.file)
      BY <1>4
    <3>2. Measure(start) <= 2 * Len(Ahead(start.file)) + 1 /\ Measure(start) \in Nat
      BY <3>1, MeasureType
    <3> QED
      BY <1>4, <2>1, <3>2
  <2>6. m = 2 * (b + r) + 2
    BY <1>2, <2>2, <2>3
  <2> HIDE DEF start, turns
  <2> QED
    BY <2>4, <2>5, <2>6
<1> HIDE DEF L, start, turns
<1>6. L[0] = start /\ \A k \in 1 .. m : L[k] = Turn(L[k - 1], size)
  BY <1>3, TextLoopAt
<1> DEFINE T == {k \in 0 .. m : TextInv(L[k], F, t) /\ (L[k].over \/ Measure(L[k]) <= m - k)}
<1>7. 0 \in T
  <2>1. TextInv(start, F, t)
    BY <1>4
  <2>2. Measure(start) <= m - 0
    BY <1>5
  <2> QED
    BY <1>6, <2>1, <2>2
<1>8. ASSUME NEW k \in 1 .. m, k - 1 \in T PROVE k \in T
  <2>1. PICK s : s = L[k - 1]
    OBVIOUS
  <2>2. TextInv(s, F, t) /\ (s.over \/ Measure(s) <= m - (k - 1))
    BY <1>8, <2>1
  <2>3. PICK q : q = Turn(s, size)
    OBVIOUS
  <2>4. L[k] = q
    BY <1>6, <2>1, <2>3
  <2>5. /\ TextInv(q, F, t)
        /\ s.over => q = s
        /\ ~s.over => (q.over \/ Measure(q) < Measure(s))
    BY <2>2, <2>3, TextTurn
  <2>6. Measure(s) \in Nat /\ Measure(q) \in Nat
    <3>1. FileType(s.file) /\ FileType(q.file)
      BY <2>2, <2>5 DEF TextInv
    <3> QED
      BY <3>1, MeasureType
  <2>7. q.over \/ Measure(q) <= m - k
    <3>1. CASE s.over
      BY <2>5, <3>1
    <3>2. CASE ~s.over /\ ~q.over
      <4>1. Measure(q) < Measure(s) /\ Measure(s) <= m - (k - 1)
        BY <2>2, <2>5, <3>2
      <4> QED
        BY <2>6, <4>1
    <3> QED
      BY <3>1, <3>2
  <2> QED
    BY <2>4, <2>5, <2>7
<1>9. m \in T
  <2> HIDE DEF T
  <2>1. \A k \in 0 .. m : k \in T
    BY <1>7, <1>8, UpTo
  <2> QED
    BY <2>1
<1>10. PICK q : q = L[m]
  OBVIOUS
<1>11. TextInv(q, F, t) /\ (q.over \/ Measure(q) <= 0)
  BY <1>9, <1>10
<1>12. q.over
  <2> SUFFICES ASSUME ~q.over PROVE FALSE
    OBVIOUS
  <2>1. Measure(q) > 0
    BY <1>11, TextTurn
  <2>2. Measure(q) \in Nat /\ Measure(q) <= 0
    BY <1>11, MeasureType DEF TextInv
  <2> QED
    BY <2>1, <2>2
<1>13. q.fields = F /\ Ahead(q.file) = t /\ FileType(q.file)
  BY <1>11, <1>12 DEF TextInv
<1>14. readfields_csv(f, size) = q
  BY <1>1, <1>2, <1>10
<1> QED
  BY <1>13, <1>14

\* A function, and its domain.
IsTable(p, domain) == p = [i \in domain |-> p[i]]

\* Pieces of a line: the first, and one for each of the other values.
LEMMA Joined ==
  ASSUME NEW v \in Seq(Char), NEW es \in Seq(Seq(Char)), NEW e, e = Cat(<<v>>, es),
         NEW first \in Seq(Char), NEW g \in Maps(Seq(Char), Seq(Char)),
         NEW P, IsTable(P, DOMAIN e), P[1] = first,
         \A i \in 1 .. Len(es) : P[i + 1] = g[es[i]]
  PROVE  FlattenSeq(P) = Cat(first, Flat(g, es))
<1>1. PICK n \in Nat : n = Len(es)
  OBVIOUS
<1>2. DOMAIN e = 1 .. n + 1
  <2>1. Len(e) = n + 1
    BY <1>1, FirstValue
  <2>2. e \in Seq(Seq(Char))
    <3>1. <<v>> \in Seq(Seq(Char))
      BY Single
    <3> QED
      BY <3>1, CatType
  <2> QED
    BY <2>1, <2>2
<1>3. PICK m \in Seq(Seq(Char)) : m = Mapped(g, es)
  BY MappedType
<1>4. Len(m) = n
  BY <1>1, <1>3, MappedType
<1>5. ASSUME NEW i \in 1 .. n PROVE m[i] = g[es[i]]
  <2>1. i \in 1 .. Len(es)
    BY <1>1
  <2>2. Mapped(g, es)[i] = g[es[i]]
    BY <2>1, MappedAt
  <2> QED
    BY <1>3, <2>2
<1>6. PICK q \in Seq(Seq(Char)) : q = Cat(<<first>>, m)
  <2>1. <<first>> \in Seq(Seq(Char))
    BY Single
  <2> QED
    BY <2>1, CatType
<1>7. Len(q) = n + 1 /\ q[1] = first /\ \A i \in 1 .. n : q[i + 1] = m[i]
  <2>1. /\ Len(Cat(<<first>>, m)) = Len(m) + 1 /\ Cat(<<first>>, m)[1] = first
        /\ \A i \in 1 .. Len(m) : Cat(<<first>>, m)[i + 1] = m[i]
    BY <1>3, FirstValue
  <2> QED
    BY <1>4, <1>6, <2>1
<1>8. \A i \in 1 .. n : P[i + 1] = m[i]
  BY <1>1, <1>5
<1>9. ASSUME NEW i \in 1 .. n + 1 PROVE P[i] = q[i]
  <2>1. CASE i = 1
    BY <1>7, <2>1
  <2>2. CASE i # 1
    <3>1. PICK j \in 1 .. n : i = j + 1
      <4>1. i - 1 \in 1 .. n /\ i = (i - 1) + 1
        BY <1>9, <2>2
      <4> QED
        BY <4>1
    <3> QED
      BY <1>7, <1>8, <3>1
  <2> QED
    BY <2>1, <2>2
<1>10. P = q
  <2>1. \A i \in 1 .. n + 1 : P[i] \in Seq(Char)
    <3>1. \A i \in 1 .. n + 1 : q[i] \in Seq(Char)
      BY <1>6, <1>7
    <3> QED
      BY <1>9, <3>1
  <2>2. n + 1 \in Nat /\ P = [i \in 1 .. n + 1 |-> P[i]]
    BY <1>2 DEF IsTable
  <2>3. P \in Seq(Seq(Char)) /\ Len(P) = n + 1
    BY <2>1, <2>2, AsSequence
  <2> QED
    BY <1>6, <1>7, <1>9, <2>3, SeqEqual, ZenonT(30)
<1>11. FlattenSeq(<<first>> \o m) = first \o FlattenSeq(m)
  BY <1>3, FlattenCons
<1>12. Flat(g, es) \in Seq(Char)
  BY FlatType
<1> QED
  BY <1>3, <1>6, <1>10, <1>11, <1>12 DEF Flat, Cat

\* The line of write(), followed by a text.
LEMMA LineIs ==
  ASSUME NEW v \in Seq(Char), NEW es \in Seq(Seq(Char)), NEW e, e = Cat(<<v>>, es), NEW t \in Seq(Char)
  PROVE  LineOf(e) \in Seq(Char) /\ Cat(LineOf(e), t) = Cat(<<Quote>>, Rest(v, es, t))
<1>1. PICK c \in Seq(Char) : c = <<Comma>>
  BY Characters, Single
<1>2. PICK u \in Seq(Char) : u = <<Quote>>
  BY Characters, Single
<1>3. PICK n \in Seq(Char) : n = <<LF>>
  BY Characters, Single
<1>4. PICK empty \in Seq(Char) : empty = <<>>
  BY EmptySeq
<1> DEFINE Part(i) == (IF i = 1 THEN <<>> ELSE <<Comma>>) \o <<Quote>> \o get_value_str(e[i]) \o <<Quote>>
<1>5. ASSUME NEW x \in Seq(Char)
      PROVE  /\ ((empty \o u) \o get_value_str(x)) \o u = Cat(u, Cat(Flat(Code, x), u))
             /\ ((c \o u) \o get_value_str(x)) \o u = FieldText[x]
             /\ Cat(u, Cat(Flat(Code, x), u)) \in Seq(Char)
  <2>1. PICK k \in Seq(Char) : k = get_value_str(x) /\ k = Flat(Code, x)
    BY Coded
  <2>2. PICK ku \in Seq(Char) : ku = Cat(k, u)
    BY CatType
  <2>3. Cat(Cat(Cat(empty, u), k), u) = Cat(u, ku) /\ Cat(u, ku) \in Seq(Char)
    <3>1. Cat(empty, u) = u
      BY <1>4, CatEmpty
    <3>2. Cat(Cat(u, k), u) = Cat(u, ku)
      BY <2>2, CatAssociative
    <3> QED
      BY <3>1, <3>2, CatType
  <2>4. Cat(Cat(Cat(c, u), k), u) = Cat(c, Cat(u, ku))
    <3>1. PICK cu \in Seq(Char) : cu = Cat(c, u)
      BY CatType
    <3>2. Cat(Cat(cu, k), u) = Cat(cu, ku)
      BY <2>2, CatAssociative
    <3>3. Cat(cu, ku) = Cat(c, Cat(u, ku))
      BY <3>1, CatAssociative
    <3> QED
      BY <3>1, <3>2, <3>3
  <2>5. FieldText[x] = Cat(c, Cat(u, Cat(k, u)))
    BY <1>1, <1>2, <2>1, FieldTextType
  <2> QED
    BY <2>1, <2>2, <2>3, <2>4, <2>5 DEF Cat
<1>6. e[1] = v /\ \A i \in 1 .. Len(es) : e[i + 1] = es[i]
  BY FirstValue
<1>7. PICK P : P = [i \in DOMAIN e |-> Part(i)]
  OBVIOUS
<1>8. DOMAIN e = 1 .. Len(es) + 1 /\ Len(es) \in Nat
  <2>1. Len(e) = Len(es) + 1
    BY FirstValue
  <2>2. e \in Seq(Seq(Char))
    <3>1. <<v>> \in Seq(Seq(Char))
      BY Single
    <3> QED
      BY <3>1, CatType
  <2> QED
    BY <2>1, <2>2
<1>9. \A i \in 1 .. Len(es) + 1 : P[i] = Part(i)
  <2> HIDE DEF Part
  <2> QED
    BY <1>7, <1>8
<1>10. PICK first \in Seq(Char) : first = Cat(u, Cat(Flat(Code, v), u))
  BY <1>5
<1>11. P[1] = first
  <2>1. P[1] = Part(1)
    <3> HIDE DEF Part
    <3>1. 1 \in 1 .. Len(es) + 1
      BY <1>8
    <3> QED
      BY <1>9, <3>1
  <2>2. Part(1) = ((empty \o u) \o get_value_str(v)) \o u
    BY <1>2, <1>4, <1>6
  <2> QED
    BY <1>5, <1>10, <2>1, <2>2
<1>12. ASSUME NEW i \in 1 .. Len(es) PROVE P[i + 1] = FieldText[es[i]]
  <2>1. P[i + 1] = Part(i + 1) /\ i + 1 # 1
    <3> HIDE DEF Part
    <3>1. i + 1 \in 1 .. Len(es) + 1 /\ i + 1 # 1
      BY <1>8
    <3> QED
      BY <1>9, <3>1
  <2>2. PICK x \in Seq(Char) : x = es[i]
    OBVIOUS
  <2>3. e[i + 1] = x
    BY <1>6, <2>2
  <2>4. Part(i + 1) = ((c \o u) \o get_value_str(x)) \o u
    BY <1>1, <1>2, <2>1, <2>3
  <2> QED
    BY <1>5, <2>1, <2>2, <2>4
<1>13. IsTable(P, DOMAIN e)
  <2> HIDE DEF Part
  <2> QED
    BY <1>7 DEF IsTable
<1>14. FlattenSeq(P) = Cat(first, Flat(FieldText, es)) /\ Flat(FieldText, es) \in Seq(Char)
  <2> HIDE DEF Part
  <2>1. PICK g \in Maps(Seq(Char), Seq(Char)) : g = FieldText
    BY FieldTextType
  <2>2. \A i \in 1 .. Len(es) : P[i + 1] = g[es[i]]
    BY <1>12, <2>1
  <2>3. FlattenSeq(P) = Cat(first, Flat(g, es))
    BY <1>11, <1>13, <2>2, Joined
  <2>4. Flat(g, es) \in Seq(Char)
    BY FlatType
  <2> QED
    BY <2>1, <2>3, <2>4
<1>15. LineOf(e) = FlattenSeq(P) \o n
  BY <1>3, <1>7, Zenon DEF LineOf
<1> HIDE DEF Part
<1>16. PICK m \in Seq(Char) : m = Flat(FieldText, es)
  BY <1>14
<1>17. PICK k \in Seq(Char) : k = Flat(Code, v)
  BY CodeType, FlatType
<1>18. LineOf(e) = Cat(Cat(Cat(u, Cat(k, u)), m), n)
  BY <1>10, <1>14, <1>15, <1>16, <1>17 DEF Cat
<1>19. PICK ku \in Seq(Char) : ku = Cat(k, u)
  BY CatType
<1>20. PICK uku \in Seq(Char) : uku = Cat(u, ku)
  BY CatType
<1>21. PICK um \in Seq(Char) : um = Cat(uku, m)
  BY CatType
<1>22. PICK l \in Seq(Char) : l = Cat(um, n)
  BY CatType
<1>23. PICK nt \in Seq(Char) : nt = Cat(n, t)
  BY CatType
<1>24. PICK mnt \in Seq(Char) : mnt = Cat(m, nt)
  BY CatType
<1>25. Cat(l, t) = Cat(um, nt)
  BY <1>22, <1>23, CatAssociative
<1>26. Cat(um, nt) = Cat(uku, mnt)
  BY <1>21, <1>24, CatAssociative
<1>27. Cat(uku, mnt) = Cat(u, Cat(ku, mnt))
  BY <1>20, CatAssociative
<1>28. Cat(ku, mnt) = Cat(k, Cat(u, mnt))
  BY <1>19, CatAssociative
<1>29. Rest(v, es, t) = Cat(k, Cat(u, mnt))
  BY <1>2, <1>3, <1>16, <1>17, <1>23, <1>24 DEF Rest, More
<1>30. LineOf(e) = l
  BY <1>18, <1>19, <1>20, <1>21, <1>22
<1> QED
  BY <1>2, <1>22, <1>25, <1>26, <1>27, <1>28, <1>29, <1>30

\* A line made by hand, followed by a text.
LEMMA HandLineIs ==
  ASSUME NEW v \in Seq(Char), NEW es \in Seq(Seq(Char)), NEW e, e = Cat(<<v>>, es), NEW t \in Seq(Char)
  PROVE  HandLine(e) \in Seq(Char) /\ Cat(HandLine(e), t) = Cat(v, HandMore(es, t))
<1>1. PICK c \in Seq(Char) : c = <<Comma>>
  BY Characters, Single
<1>2. PICK r \in Seq(Char) : r = <<CR>>
  BY Characters, Single
<1>3. PICK n \in Seq(Char) : n = <<LF>>
  BY Characters, Single
<1> DEFINE Part(i) == (IF i = 1 THEN <<>> ELSE <<Comma>>) \o e[i]
<1>4. ASSUME NEW x \in Seq(Char) PROVE <<>> \o x = x /\ <<Comma>> \o x = HandText[x]
  <2>1. Cat(<<>>, x) = x
    BY CatEmpty
  <2>2. HandText[x] = Cat(<<Comma>>, x)
    BY FieldTextType
  <2> QED
    BY <2>1, <2>2 DEF Cat
<1>6. e[1] = v /\ \A i \in 1 .. Len(es) : e[i + 1] = es[i]
  BY FirstValue
<1>7. PICK P : P = [i \in DOMAIN e |-> Part(i)]
  OBVIOUS
<1>8. DOMAIN e = 1 .. Len(es) + 1 /\ Len(es) \in Nat
  <2>1. Len(e) = Len(es) + 1
    BY FirstValue
  <2>2. e \in Seq(Seq(Char))
    <3>1. <<v>> \in Seq(Seq(Char))
      BY Single
    <3> QED
      BY <3>1, CatType
  <2> QED
    BY <2>1, <2>2
<1>9. \A i \in 1 .. Len(es) + 1 : P[i] = Part(i)
  <2> HIDE DEF Part
  <2> QED
    BY <1>7, <1>8
<1>11. P[1] = v
  <2>1. P[1] = Part(1)
    <3> HIDE DEF Part
    <3>1. 1 \in 1 .. Len(es) + 1
      BY <1>8
    <3> QED
      BY <1>9, <3>1
  <2>2. Part(1) = <<>> \o v
    BY <1>6
  <2> QED
    BY <1>4, <2>1, <2>2
<1>12. ASSUME NEW i \in 1 .. Len(es) PROVE P[i + 1] = HandText[es[i]]
  <2>1. P[i + 1] = Part(i + 1) /\ i + 1 # 1
    <3> HIDE DEF Part
    <3>1. i + 1 \in 1 .. Len(es) + 1 /\ i + 1 # 1
      BY <1>8
    <3> QED
      BY <1>9, <3>1
  <2>2. PICK x \in Seq(Char) : x = es[i]
    OBVIOUS
  <2>3. e[i + 1] = x
    BY <1>6, <2>2
  <2>4. Part(i + 1) = <<Comma>> \o x
    BY <2>1, <2>3
  <2> QED
    BY <1>4, <2>1, <2>2, <2>4
<1>13. IsTable(P, DOMAIN e)
  <2> HIDE DEF Part
  <2> QED
    BY <1>7 DEF IsTable
<1>14. FlattenSeq(P) = Cat(v, Flat(HandText, es)) /\ Flat(HandText, es) \in Seq(Char)
  <2> HIDE DEF Part
  <2>1. PICK g \in Maps(Seq(Char), Seq(Char)) : g = HandText
    BY FieldTextType
  <2>2. \A i \in 1 .. Len(es) : P[i + 1] = g[es[i]]
    BY <1>12, <2>1
  <2>3. FlattenSeq(P) = Cat(v, Flat(g, es))
    BY <1>11, <1>13, <2>2, Joined
  <2>4. Flat(g, es) \in Seq(Char)
    BY FlatType
  <2> QED
    BY <2>1, <2>3, <2>4
<1>15. HandLine(e) = FlattenSeq(P) \o <<CR, LF>>
  BY <1>7, Zenon DEF HandLine
<1> HIDE DEF Part
<1>16. PICK m \in Seq(Char) : m = Flat(HandText, es)
  BY <1>14
<1>17. PICK rn \in Seq(Char) : rn = Cat(r, n) /\ rn = <<CR, LF>>
  <2>1. <<CR, LF>> = Append(<<CR>>, LF)
    OBVIOUS
  <2>2. Append(r, LF) = Cat(r, <<LF>>) /\ Append(r, LF) \in Seq(Char)
    BY AppendIsCat, Characters
  <2> QED
    BY <1>2, <1>3, <2>1, <2>2
<1>18. HandLine(e) = Cat(Cat(v, m), rn)
  BY <1>14, <1>15, <1>16, <1>17 DEF Cat
<1>19. PICK vm \in Seq(Char) : vm = Cat(v, m)
  BY CatType
<1>20. PICK l \in Seq(Char) : l = Cat(vm, rn)
  BY CatType
<1>21. PICK nt \in Seq(Char) : nt = Cat(n, t)
  BY CatType
<1>22. PICK rnt \in Seq(Char) : rnt = Cat(r, nt)
  BY CatType
<1>23. Cat(l, t) = Cat(vm, Cat(rn, t))
  BY <1>20, CatAssociative
<1>24. Cat(rn, t) = rnt
  <2>1. Cat(Cat(r, n), t) = Cat(r, Cat(n, t))
    BY CatAssociative
  <2> QED
    BY <1>17, <1>21, <1>22, <2>1
<1>25. Cat(vm, rnt) = Cat(v, Cat(m, rnt))
  BY <1>19, CatAssociative
<1>26. HandMore(es, t) = Cat(m, rnt)
  BY <1>2, <1>3, <1>16, <1>21, <1>22 DEF HandMore
<1>27. HandLine(e) = l
  BY <1>18, <1>19, <1>20
<1> QED
  BY <1>20, <1>23, <1>24, <1>25, <1>26, <1>27

\* The events of a format of text, and the line of each.
Events(fm) ==
  {e \in Seq(Seq(Char)) : /\ Len(e) = FieldCount
                          /\ fm = "hand" => \A i \in 1 .. Len(e) : PlainValue(e[i])}
LineFn(fm) == [e \in Events(fm) |-> IF fm = "csv" THEN LineOf(e) ELSE HandLine(e)]

\* An event of the model is one of these.
LEMMA EventsAre ==
  ASSUME NEW fm \in {"csv", "hand"}, NEW e \in EventsOf(fm)
  PROVE  e \in Events(fm)
<1>1. FieldCount \in Nat
  BY EventFileAssumption
<1>2. CASE fm = "csv"
  <2>1. e \in [1 .. FieldCount -> Values]
    BY <1>2 DEF EventsOf
  <2>2. \A i \in 1 .. FieldCount : e[i] \in Seq(Char)
    BY <2>1, EventFileAssumption DEF Char
  <2>3. e = [i \in 1 .. FieldCount |-> e[i]]
    BY <2>1
  <2>4. e \in Seq(Seq(Char)) /\ Len(e) = FieldCount
    BY <1>1, <2>2, <2>3, AsSequence
  <2> QED
    BY <1>2, <2>4 DEF Events
<1>3. CASE fm = "hand"
  <2>1. e \in [1 .. FieldCount -> Plain]
    BY <1>3 DEF EventsOf
  <2>2. \A i \in 1 .. FieldCount : e[i] \in Plain
    BY <2>1
  <2>3. ASSUME NEW v \in Plain PROVE PlainValue(v)
    <3>1. v \in Seq(Char)
      BY EventFileAssumption DEF Char
    <3>2. \A i \in 1 .. Len(v) : v[i] \notin {Quote, Comma, LF, CR}
      <4>1. DOMAIN v = 1 .. Len(v)
        BY <3>1
      <4> QED
        BY <4>1, EventFileAssumption
    <3> QED
      BY <3>1, <3>2 DEF PlainValue
  <2>4. \A i \in 1 .. FieldCount : PlainValue(e[i]) /\ e[i] \in Seq(Char)
    BY <2>2, <2>3 DEF PlainValue
  <2>5. e = [i \in 1 .. FieldCount |-> e[i]]
    BY <2>1
  <2>6. e \in Seq(Seq(Char)) /\ Len(e) = FieldCount
    BY <1>1, <2>4, <2>5, AsSequence
  <2> QED
    BY <2>4, <2>6 DEF Events
<1> QED
  BY <1>2, <1>3

\* The first value of an event, and the others.
LEMMA EventHead ==
  ASSUME NEW fm, NEW e \in Events(fm)
  PROVE  \E v \in Seq(Char), es \in Seq(Seq(Char)) :
           /\ e = Cat(<<v>>, es) /\ Len(es) + 1 = FieldCount
           /\ fm = "hand" => PlainValue(v) /\ \A i \in 1 .. Len(es) : PlainValue(es[i])
<1>1. PICK S : S = Seq(Char)
  OBVIOUS
<1>2. e \in Seq(S) /\ Len(e) = FieldCount /\ FieldCount \in Nat \ {0}
  BY <1>1, EventFileAssumption DEF Events
<1>3. e # <<>>
  BY <1>2
<1>4. PICK v \in S, es \in Seq(S) : e = Cat(<<v>>, es)
  BY <1>2, <1>3, HeadOf
<1>5. v \in Seq(Char) /\ es \in Seq(Seq(Char))
  BY <1>1, <1>4
<1>6. Len(e) = Len(es) + 1 /\ e[1] = v /\ \A i \in 1 .. Len(es) : e[i + 1] = es[i]
  BY <1>4, <1>5, FirstValue
<1>7. ASSUME fm = "hand" PROVE PlainValue(v) /\ \A i \in 1 .. Len(es) : PlainValue(es[i])
  <2>1. \A i \in 1 .. Len(e) : PlainValue(e[i])
    BY <1>7 DEF Events
  <2>2. Len(es) \in Nat
    BY <1>5
  <2>3. 1 \in 1 .. Len(e) /\ \A i \in 1 .. Len(es) : i + 1 \in 1 .. Len(e)
    BY <1>6, <2>2
  <2> QED
    BY <1>6, <2>1, <2>3
<1> QED
  BY <1>2, <1>4, <1>5, <1>6, <1>7

\* Every event has a line.
LEMMA LineFnType ==
  ASSUME NEW fm \in {"csv", "hand"}
  PROVE  /\ LineFn(fm) \in Maps(Events(fm), Seq(Char))
         /\ \A e \in Events(fm) : LineFn(fm)[e] = IF fm = "csv" THEN LineOf(e) ELSE HandLine(e)
<1>1. ASSUME NEW e \in Events(fm) PROVE LineOf(e) \in Seq(Char) /\ HandLine(e) \in Seq(Char)
  <2>1. PICK v \in Seq(Char), es \in Seq(Seq(Char)) : e = Cat(<<v>>, es)
    BY EventHead
  <2>2. PICK t \in Seq(Char) : t = <<>>
    BY EmptySeq
  <2>3. LineOf(e) \in Seq(Char)
    BY <2>1, <2>2, LineIs
  <2>4. HandLine(e) \in Seq(Char)
    BY <2>1, <2>2, HandLineIs
  <2> QED
    BY <2>3, <2>4
<1>2. \A e \in Events(fm) : (IF fm = "csv" THEN LineOf(e) ELSE HandLine(e)) \in Seq(Char)
  BY <1>1
<1> QED
  BY <1>2 DEF LineFn, Maps

\* What an event is read as is what readfields_csv() has to find.
LEMMA EventShown ==
  ASSUME NEW v \in Seq(Char), NEW es \in Seq(Seq(Char)), NEW e, e = Cat(<<v>>, es)
  PROVE  /\ ShownAs(e) = Fields(<<>>, Flat(Show, v), es)
         /\ ShownAs(e) \in Seq(Seq(Char)) /\ Len(ShownAs(e)) = Len(es) + 1
<1>1. PICK S : S = Seq(Char)
  OBVIOUS
<1>2. PICK g \in Maps(S, S) : g = Shows
  BY <1>1, ShowsType
<1>3. PICK w \in S : w = v
  BY <1>1
<1>4. PICK r \in Seq(S) : r = es
  BY <1>1
<1>5. Mapped(g, Cat(<<w>>, r)) = Cat(<<g[w]>>, Mapped(g, r))
  BY MappedCons
<1>6. e \in Seq(Seq(Char)) /\ Len(e) = Len(es) + 1
  <2>1. <<v>> \in Seq(Seq(Char))
    BY Single
  <2> QED
    BY <2>1, CatType, FirstValue
<1>7. ShownAs(e) = Mapped(Shows, e)
  <2>1. \A i \in DOMAIN e : e[i] \in Seq(Char)
    BY <1>6
  <2>2. \A u \in Seq(Char) : Shown(u) = Shows[u]
    BY Coded, ShowsType
  <2> QED
    BY <2>1, <2>2 DEF ShownAs, Mapped
<1>8. ShownAs(e) = Cat(<<Flat(Show, v)>>, Mapped(Shows, es))
  BY <1>2, <1>3, <1>4, <1>5, <1>7, ShowsType
<1>9. ShownAs(e) \in Seq(S) /\ Len(ShownAs(e)) = Len(e)
  <2>1. PICK p \in Seq(S) : p = e
    BY <1>1, <1>6
  <2>2. Mapped(g, p) \in Seq(S) /\ Len(Mapped(g, p)) = Len(p)
    BY MappedType
  <2> QED
    BY <1>2, <1>7, <2>1, <2>2
<1>10. Fields(<<>>, Flat(Show, v), es) = ShownAs(e)
  <2>1. Cat(<<>>, ShownAs(e)) = ShownAs(e)
    BY <1>9, CatEmpty
  <2> QED
    BY <1>8, <2>1 DEF Fields
<1> QED
  BY <1>1, <1>6, <1>9, <1>10

\* A line made by hand does not begin with an LF, nor does a text of them.
LEMMA HandBegins ==
  ASSUME NEW e \in Events("hand"), NEW t \in Seq(Char)
  PROVE  NotLF(Cat(HandLine(e), t))
<1>1. PICK v \in Seq(Char), es \in Seq(Seq(Char)) :
        /\ e = Cat(<<v>>, es) /\ PlainValue(v)
  BY EventHead
<1>2. PICK m \in Seq(Char) : m = HandMore(es, t)
  BY MoreType
<1>3. Cat(HandLine(e), t) = Cat(v, m)
  BY <1>1, <1>2, HandLineIs
<1>4. \E c \in Char, a \in Seq(Char) : c # LF /\ Cat(v, m) = Cat(<<c>>, a)
  <2>1. CASE v = <<>>
    <3>1. Cat(v, m) = m
      BY <2>1, CatEmpty
    <3>2. CASE es = <<>>
      <4>1. PICK n \in Seq(Char) : n = Cat(<<LF>>, t)
        <5>1. <<LF>> \in Seq(Char)
          BY Characters, Single
        <5> QED
          BY <5>1, CatType
      <4>2. m = Cat(<<CR>>, n)
        BY <1>2, <3>2, <4>1, MoreEmpty
      <4> QED
        BY <3>1, <4>2, Characters
    <3>3. CASE es # <<>>
      <4>1. PICK S : S = Seq(Char)
        OBVIOUS
      <4>2. PICK x \in S, r \in Seq(S) : es = Cat(<<x>>, r)
        <5>1. es \in Seq(S)
          BY <4>1
        <5> QED
          BY <3>3, <5>1, HeadOf
      <4>3. x \in Seq(Char) /\ r \in Seq(Seq(Char))
        BY <4>1, <4>2
      <4>4. PICK n \in Seq(Char) : n = Cat(x, HandMore(r, t))
        <5>1. HandMore(r, t) \in Seq(Char)
          BY <4>3, MoreType
        <5> QED
          BY <4>3, <5>1, CatType
      <4>5. m = Cat(<<Comma>>, n)
        <5>1. PICK y \in Seq(Char) : y = x
          BY <4>3
        <5>2. PICK q \in Seq(Seq(Char)) : q = r
          BY <4>3
        <5>3. HandMore(Cat(<<y>>, q), t) = Cat(<<Comma>>, Cat(y, HandMore(q, t)))
          BY MoreCons
        <5> QED
          BY <1>2, <4>2, <4>4, <5>1, <5>2, <5>3
      <4> QED
        BY <3>1, <4>5, Characters
    <3> QED
      BY <3>2, <3>3
  <2>2. CASE v # <<>>
    <3>1. PICK S : S = Char
      OBVIOUS
    <3>2. PICK c \in S, r \in Seq(S) : v = Cat(<<c>>, r)
      <4>1. v \in Seq(S)
        BY <3>1
      <4> QED
        BY <2>2, <4>1, HeadOf
    <3>3. c \in Char /\ r \in Seq(Char)
      BY <3>1, <3>2
    <3>4. c # LF
      BY <1>1, <3>2, <3>3, PlainCons
    <3>5. PICK h \in Seq(Char) : h = <<c>>
      BY <3>3, Single
    <3>6. PICK q \in Seq(Char) : q = r
      BY <3>3
    <3>7. Cat(Cat(h, q), m) = Cat(h, Cat(q, m)) /\ Cat(q, m) \in Seq(Char)
      <4>1. Cat(Cat(h, q), m) = Cat(h, Cat(q, m))
        BY CatAssociative
      <4>2. Cat(q, m) \in Seq(Char)
        BY CatType
      <4> QED
        BY <4>1, <4>2
    <3> QED
      BY <3>2, <3>3, <3>4, <3>5, <3>6, <3>7
  <2> QED
    BY <2>1, <2>2
<1>5. PICK c \in Char, a \in Seq(Char) : c # LF /\ Cat(v, m) = Cat(<<c>>, a)
  BY <1>4
<1>6. ASSUME NEW u \in Seq(Char), Cat(HandLine(e), t) = Cat(<<LF>>, u) PROVE FALSE
  <2>1. Cat(<<c>>, a) = Cat(<<LF>>, u)
    BY <1>3, <1>5, <1>6
  <2>2. c = LF
    BY <2>1, Characters, HeadCancel
  <2> QED
    BY <1>5, <2>2
<1> QED
  BY <1>6 DEF NotLF

\* readfields_csv() begins with the line of an event.
LEMMA LineBegins ==
  ASSUME NEW f, FileType(f), NEW fm \in {"csv", "hand"}, NEW e \in Events(fm), NEW t \in Seq(Char),
         fm = "hand" => NotLF(t), Ahead(f) = Cat(LineFn(fm)[e], t)
  PROVE  TextInv(Begins(f), ShownAs(e), t) /\ Len(ShownAs(e)) = FieldCount /\ Ahead(f) # <<>>
<1>1. PICK v \in Seq(Char), es \in Seq(Seq(Char)) :
        /\ e = Cat(<<v>>, es) /\ Len(es) + 1 = FieldCount
        /\ fm = "hand" => PlainValue(v) /\ \A i \in 1 .. Len(es) : PlainValue(es[i])
  BY EventHead
<1>2. PICK s : s = Begins(f)
  OBVIOUS
<1>3. /\ s.file = f /\ s.state = 0 /\ s.line = <<>> /\ s.fields = <<>> /\ s.over = FALSE
      /\ s = [file |-> f, state |-> 0, line |-> <<>>, fields |-> <<>>, over |-> FALSE]
  BY <1>2 DEF Begins
<1>4. s \in LoopStates
  <2>1. PICK l \in Seq(Char) : l = <<>>
    BY EmptySeq
  <2>2. PICK fs \in Seq(Seq(Char)) : fs = <<>>
    BY EmptySeq
  <2>3. f \in Files
    BY DEF FileType
  <2>4. s = [file |-> f, state |-> 0, line |-> l, fields |-> fs, over |-> FALSE]
    BY <1>3, <2>1, <2>2
  <2> QED
    BY <2>3, <2>4 DEF LoopStates
<1>5. PICK V \in Seq(Char) : V = Flat(Show, v)
  BY ShowsType
<1>6. ShownAs(e) = Fields(s.fields, V, es) /\ Len(ShownAs(e)) = FieldCount
  <2>1. ShownAs(e) = Fields(<<>>, Flat(Show, v), es)
    BY <1>1, EventShown
  <2>2. Len(ShownAs(e)) = Len(es) + 1
    BY <1>1, EventShown
  <2> QED
    BY <1>1, <1>3, <1>5, <2>1, <2>2
<1>7. Within(s, V, es, t)
  <2>1. CASE fm = "csv"
    <3>1. LineFn(fm)[e] = LineOf(e)
      BY <2>1, LineFnType
    <3>2. Cat(LineOf(e), t) = Cat(<<Quote>>, Rest(v, es, t))
      BY <1>1, LineIs
    <3>3. Starts(s, V, es, t)
      BY <1>3, <1>5, <3>1, <3>2 DEF Starts
    <3> QED
      BY <3>3 DEF Within
  <2>2. CASE fm = "hand"
    <3>1. LineFn(fm)[e] = HandLine(e)
      BY <2>2, LineFnType
    <3>2. Cat(HandLine(e), t) = Cat(v, HandMore(es, t))
      BY <1>1, HandLineIs
    <3>3. PlainValue(v) /\ V = v
      BY <1>1, <1>5, <2>2, PlainShown
    <3>4. V = Cat(s.line, v)
      <4>1. Cat(<<>>, v) = v
        BY CatEmpty
      <4> QED
        BY <1>3, <3>3, <4>1
    <3>5. ByHand(s, V, es, t)
      BY <1>1, <1>3, <2>2, <3>1, <3>2, <3>3, <3>4 DEF ByHand
    <3> QED
      BY <3>5 DEF Within
  <2> QED
    BY <2>1, <2>2
<1>8. TextInv(s, ShownAs(e), t)
  BY <1>3, <1>4, <1>6, <1>7 DEF TextInv
<1>9. Ahead(f) # <<>>
  BY <1>3, <1>7, WithinReads
<1> QED
  BY <1>2, <1>6, <1>8, <1>9

\* A text of lines made by hand does not begin with an LF.
LEMMA HandTextBegins ==
  ASSUME NEW s \in Seq(Events("hand"))
  PROVE  NotLF(Flat(LineFn("hand"), s))
<1>1. PICK S : S = Events("hand")
  OBVIOUS
<1>2. PICK g \in Maps(S, Seq(Char)) : g = LineFn("hand")
  BY <1>1, LineFnType
<1>3. CASE s = <<>>
  <2>1. Flat(g, s) = <<>>
    BY <1>3, FlatEmpty
  <2>2. ASSUME NEW u \in Seq(Char), <<>> = Cat(<<LF>>, u) PROVE FALSE
    <3>1. PICK x \in Seq(Char) : x = <<>>
      BY EmptySeq
    <3>2. Cat(<<LF>>, u) # <<>>
      BY <3>1, Characters, HasChar
    <3> QED
      BY <2>2, <3>2
  <2> QED
    BY <1>2, <2>1, <2>2 DEF NotLF
<1>4. CASE s # <<>>
  <2>1. PICK e \in S, r \in Seq(S) : s = Cat(<<e>>, r)
    <3>1. s \in Seq(S)
      BY <1>1
    <3> QED
      BY <1>4, <3>1, HeadOf
  <2>2. PICK t \in Seq(Char) : t = Flat(g, r)
    BY FlatType
  <2>3. Flat(g, s) = Cat(g[e], t)
    <3>1. Flat(g, Cat(<<e>>, r)) = Cat(g[e], Flat(g, r))
      BY FlatCons
    <3> QED
      BY <2>1, <2>2, <3>1
  <2>4. g[e] = HandLine(e) /\ e \in Events("hand")
    <3>1. "hand" \in {"csv", "hand"} /\ "hand" # "csv"
      OBVIOUS
    <3> QED
      BY <1>1, <1>2, <3>1, LineFnType
  <2>5. NotLF(Cat(HandLine(e), t))
    BY <2>4, HandBegins
  <2> QED
    BY <1>2, <2>3, <2>4, <2>5
<1> QED
  BY <1>3, <1>4

\* A file that was opened has all its text ahead.
LEMMA OpenedGood ==
  ASSUME NEW text \in Seq(Char)
  PROVE  FileType(Opened(text)) /\ Ahead(Opened(text)) = text
<1>1. PICK b \in Seq(Char) : b = <<>>
  BY EmptySeq
<1>2. PICK f : f = [rest |-> text, buf |-> b, cur |-> 0]
  OBVIOUS
<1>3. f = Opened(text)
  BY <1>1, <1>2 DEF Opened
<1>4. f.rest = text /\ f.buf = <<>> /\ f.cur = 0 /\ Len(f.buf) = 0
  BY <1>1, <1>2
<1>5. FileType(f)
  <2>1. f \in Files
    BY <1>2 DEF Files
  <2> QED
    BY <1>4, <2>1 DEF FileType
<1>6. Ahead(f) = text
  BY <1>4, <1>5, AheadIsRest
<1> QED
  BY <1>3, <1>5, <1>6

\* is_end() tells the truth.
LEMMA EndIs ==
  ASSUME NEW f, FileType(f)
  PROVE  is_end(f) <=> Ahead(f) = <<>>
<1>1. ASSUME is_end(f) PROVE Ahead(f) = <<>>
  BY <1>1, AheadIsRest DEF is_end
<1>2. ASSUME Ahead(f) = <<>> PROVE is_end(f)
  <2>1. /\ Len(Ahead(f)) = Len(f.buf) - f.cur + Len(f.rest)
        /\ Len(f.buf) \in Nat /\ Len(f.rest) \in Nat /\ f.cur \in Nat
    BY AheadType
  <2>2. Len(Ahead(f)) = 0 /\ f.cur <= Len(f.buf)
    BY <1>2 DEF FileType
  <2>3. Len(f.rest) = 0 /\ f.cur >= Len(f.buf)
    BY <2>1, <2>2
  <2>4. f.rest = <<>>
    BY <2>3 DEF FileType, Files
  <2> QED
    BY <2>3, <2>4 DEF is_end
<1> QED
  BY <1>1, <1>2

\* One more element, flattened.
LEMMA FlatAppend ==
  ASSUME NEW S, NEW T, NEW g \in Maps(S, Seq(T)), NEW s \in Seq(S), NEW x \in S
  PROVE  Flat(g, Append(s, x)) = Cat(Flat(g, s), g[x])
<1>1. PICK y \in Seq(T) : y = g[x]
  BY DEF Maps
<1>2. PICK m \in Seq(Seq(T)) : m = Mapped(g, s) /\ Len(m) = Len(s)
  BY MappedType
<1>3. PICK u \in Seq(S) : u = Append(s, x)
  BY AppendIsCat
<1>4. PICK n \in Nat : n = Len(s)
  OBVIOUS
<1>5. Len(u) = n + 1 /\ u[n + 1] = x /\ \A i \in 1 .. n : u[i] = s[i]
  BY <1>3, <1>4
<1>6. PICK p \in Seq(Seq(T)) : p = Mapped(g, u) /\ Len(p) = n + 1
  BY <1>5, MappedType
<1>7. PICK q \in Seq(Seq(T)) : q = Append(m, y)
  <2>1. PICK U : U = Seq(T)
    OBVIOUS
  <2>2. m \in Seq(U) /\ y \in U
    BY <2>1
  <2>3. Append(m, y) \in Seq(U)
    BY <2>2, AppendIsCat
  <2> QED
    BY <2>1, <2>3
<1>8. Len(q) = n + 1 /\ q[n + 1] = y /\ \A i \in 1 .. n : q[i] = m[i]
  BY <1>2, <1>4, <1>7
<1>9. ASSUME NEW i \in 1 .. n + 1 PROVE p[i] = q[i]
  <2>1. i \in 1 .. Len(u) /\ p[i] = g[u[i]]
    <3>1. i \in 1 .. Len(u)
      BY <1>5
    <3>2. Mapped(g, u)[i] = g[u[i]]
      BY <3>1, MappedAt
    <3> QED
      BY <1>6, <3>1, <3>2
  <2>2. CASE i = n + 1
    BY <1>1, <1>5, <1>8, <2>1, <2>2
  <2>3. CASE i # n + 1
    <3>1. i \in 1 .. n /\ i \in 1 .. Len(s)
      BY <1>4, <2>3
    <3>2. Mapped(g, s)[i] = g[s[i]]
      BY <3>1, MappedAt
    <3> QED
      BY <1>2, <1>5, <1>8, <2>1, <3>1, <3>2
  <2> QED
    BY <2>2, <2>3
<1>10. p = q
  BY <1>6, <1>8, <1>9, SeqEqual
<1>11. FlattenSeq(Append(m, y)) = FlattenSeq(m) \o y
  BY FlattenAppend
<1> QED
  BY <1>1, <1>2, <1>3, <1>6, <1>7, <1>10, <1>11 DEF Flat, Cat

------------------------------------------------------------------------------
\* The file of lines, and what a file of any format promises.

\* The lines of a text are those of the events that were accepted, and what was
\* read are the first of them; what the reader has ahead are the lines of the
\* others.
TextsInv ==
  format # "lzo" =>
    /\ format \in {"csv", "hand"} /\ bufSize \in Nat \ {0}
    /\ phase \in {"writing", "reading", "over"}
    /\ log \in Seq(Events(format)) /\ file = Flat(LineFn(format), log)
    /\ got \in Seq(Seq(Seq(Char))) /\ Len(got) \in 0 .. Len(log)
    /\ phase = "writing" => got = <<>>
    /\ phase = "reading" =>
         /\ FileType(reader)
         /\ Ahead(reader) = Flat(LineFn(format), SubSeq(log, Len(got) + 1, Len(log)))
    /\ phase = "over" => Len(got) = Len(log)

\* What a step of reading text does to what was read.
GetsLine ==
  IF Len(got) < Len(log)
  THEN got' = Append(got, ShownAs(log[Len(got) + 1])) /\ phase' = phase
  ELSE got' = got /\ phase' = "over"

\* A read of text gets the next event, or finds the end when there is none.
LEMMA ReadTextGood ==
  ASSUME TextsInv, ReadText
  PROVE  TextsInv' /\ GetsLine
<1>1. /\ format # "lzo" /\ phase = "reading"
      /\ format' = format /\ bufSize' = bufSize /\ log' = log /\ file' = file
  BY DEF ReadText
<1>2. /\ format \in {"csv", "hand"} /\ bufSize \in Nat \ {0}
      /\ log \in Seq(Events(format)) /\ file = Flat(LineFn(format), log)
      /\ got \in Seq(Seq(Seq(Char))) /\ Len(got) \in 0 .. Len(log)
      /\ FileType(reader)
      /\ Ahead(reader) = Flat(LineFn(format), SubSeq(log, Len(got) + 1, Len(log)))
  BY <1>1 DEF TextsInv
<1>3. PICK fm \in {"csv", "hand"} : fm = format
  BY <1>2
<1>4. PICK S : S = Events(fm)
  OBVIOUS
<1>5. PICK g \in Maps(S, Seq(Char)) : g = LineFn(fm)
  BY <1>4, LineFnType
<1>6. PICK s \in Seq(S) : s = log
  BY <1>2, <1>3, <1>4
<1>7. PICK result : result = readfields_csv(reader, bufSize)
  OBVIOUS
<1>8. IF is_end(reader)
      THEN phase' = "over" /\ UNCHANGED <<reader, got>>
      ELSE /\ reader' = result.file
           /\ IF Len(result.fields) = FieldCount
              THEN got' = Append(got, result.fields) /\ UNCHANGED phase
              ELSE phase' = "over" /\ UNCHANGED got
  BY <1>7 DEF ReadText
<1>9. PICK n \in Nat : n = Len(got) /\ n <= Len(s)
  BY <1>2, <1>6
<1>10. Ahead(reader) = Flat(g, SubSeq(s, n + 1, Len(s)))
  BY <1>2, <1>3, <1>5, <1>6, <1>9
<1>11. CASE n < Len(s)
  <2>1. n + 1 \in 1 .. Len(s) /\ n + 2 \in 1 .. Len(s) + 1 /\ (n + 1) + 1 = n + 2
    BY <1>6, <1>9, <1>11
  <2>2. PICK e \in S : e = s[n + 1]
    BY <2>1
  <2>3. PICK r \in Seq(S) : r = SubSeq(s, n + 2, Len(s))
    BY <2>1, Suffix
  <2>4. SubSeq(s, n + 1, Len(s)) = Cat(<<e>>, r)
    <3>1. SubSeq(s, n + 1, Len(s)) = <<s[n + 1]>> \o SubSeq(s, (n + 1) + 1, Len(s))
      BY <2>1, OneMore
    <3> QED
      BY <2>1, <2>2, <2>3, <3>1 DEF Cat
  <2>5. PICK t \in Seq(Char) : t = Flat(g, r)
    BY FlatType
  <2>6. Flat(g, Cat(<<e>>, r)) = Cat(g[e], Flat(g, r))
    BY FlatCons
  <2>7. Ahead(reader) = Cat(LineFn(fm)[e], t)
    BY <1>5, <1>10, <2>4, <2>5, <2>6
  <2>8. ASSUME fm = "hand" PROVE NotLF(t)
    <3>1. r \in Seq(Events("hand"))
      BY <1>4, <2>8
    <3>2. NotLF(Flat(LineFn("hand"), r))
      BY <3>1, HandTextBegins
    <3> QED
      BY <1>5, <2>5, <2>8, <3>2
  <2>9. e \in Events(fm)
    BY <1>4
  <2>10. /\ TextInv(Begins(reader), ShownAs(e), t) /\ Len(ShownAs(e)) = FieldCount
         /\ Ahead(reader) # <<>>
    BY <1>2, <2>7, <2>8, <2>9, LineBegins
  <2>11. result.fields = ShownAs(e) /\ FileType(result.file) /\ Ahead(result.file) = t
    BY <1>2, <1>7, <2>10, TextGood
  <2>12. ~is_end(reader)
    BY <1>2, <2>10, EndIs
  <2>13. reader' = result.file /\ got' = Append(got, ShownAs(e)) /\ phase' = phase
    BY <1>8, <2>10, <2>11, <2>12
  <2>14. ShownAs(e) \in Seq(Seq(Char))
    <3>1. PICK v \in Seq(Char), es \in Seq(Seq(Char)) : e = Cat(<<v>>, es)
      BY <2>9, EventHead
    <3> QED
      BY <3>1, EventShown
  <2>15. got' \in Seq(Seq(Seq(Char))) /\ Len(got') = n + 1
    <3>1. PICK U : U = Seq(Seq(Char))
      OBVIOUS
    <3>2. PICK h \in Seq(U) : h = got
      BY <1>2, <3>1
    <3>3. PICK x \in U : x = ShownAs(e)
      BY <2>14, <3>1
    <3>4. Append(h, x) \in Seq(U) /\ Len(Append(h, x)) = Len(h) + 1
      OBVIOUS
    <3> QED
      BY <1>9, <2>13, <3>1, <3>2, <3>3, <3>4
  <2>16. GetsLine
    BY <1>6, <1>9, <1>11, <2>2, <2>13 DEF GetsLine
  <2>17. FileType(reader') /\ Ahead(reader') = Flat(LineFn(fm), SubSeq(log, n + 2, Len(log)))
    BY <1>5, <1>6, <2>3, <2>5, <2>11, <2>13
  <2>18. Len(got') \in 0 .. Len(log) /\ Len(got') + 1 = n + 2
    BY <1>6, <1>9, <1>11, <2>15
  <2>19. TextsInv'
    <3>1. phase' = "reading" /\ phase' # "over" /\ phase' # "writing"
      BY <1>1, <2>13
    <3>2. Ahead(reader') = Flat(LineFn(format), SubSeq(log, Len(got') + 1, Len(log)))
      BY <1>3, <2>17, <2>18
    <3> QED
      BY <1>1, <1>2, <2>15, <2>17, <2>18, <3>1, <3>2 DEF TextsInv
  <2> QED
    BY <2>16, <2>19
<1>12. CASE ~(n < Len(s))
  <2>1. n = Len(s) /\ n + 1 = Len(s) + 1 /\ n + 1 \in 1 .. Len(s) + 1
    BY <1>6, <1>9, <1>12
  <2>2. SubSeq(s, n + 1, Len(s)) = <<>>
    BY <2>1, Suffix
  <2>3. Ahead(reader) = <<>>
    BY <1>10, <2>2, FlatEmpty
  <2>4. phase' = "over" /\ reader' = reader /\ got' = got
    BY <1>2, <1>8, <2>3, EndIs
  <2>5. GetsLine
    BY <1>6, <1>9, <1>12, <2>4 DEF GetsLine
  <2>6. TextsInv'
    BY <1>1, <1>2, <1>6, <1>9, <2>1, <2>4 DEF TextsInv
  <2> QED
    BY <2>5, <2>6
<1> QED
  BY <1>11, <1>12

\* The invariant holds at first.
LEMMA TextsInit == Init => TextsInv
<1> SUFFICES ASSUME Init, format # "lzo" PROVE TextsInv
  BY DEF TextsInv
<1>1. /\ format \in {"csv", "hand"} /\ bufSize \in Nat \ {0}
      /\ log = <<>> /\ got = <<>> /\ file = <<>> /\ phase = "writing"
  BY EventFileAssumption DEF Init
<1>2. log \in Seq(Events(format)) /\ got \in Seq(Seq(Seq(Char))) /\ Len(got) = 0 /\ Len(log) = 0
  BY <1>1
<1>3. Flat(LineFn(format), log) = <<>>
  BY <1>1, FlatEmpty
<1> QED
  BY <1>1, <1>2, <1>3 DEF TextsInv

\* Every step keeps it.
LEMMA TextsNext == TextsInv /\ [Next]_vars => TextsInv'
<1> SUFFICES ASSUME TextsInv, [Next]_vars, format # "lzo" PROVE TextsInv'
  BY DEF TextsInv, Next, vars, WriteBlocks, WriteText, Open, ReadBlocks, ReadText
<1>1. /\ format \in {"csv", "hand"} /\ bufSize \in Nat \ {0}
      /\ log \in Seq(Events(format)) /\ file = Flat(LineFn(format), log)
      /\ got \in Seq(Seq(Seq(Char))) /\ Len(got) \in 0 .. Len(log)
  BY DEF TextsInv
<1>2. PICK fm \in {"csv", "hand"} : fm = format
  BY <1>1
<1>3. PICK S : S = Events(fm)
  OBVIOUS
<1>4. PICK g \in Maps(S, Seq(Char)) : g = LineFn(fm)
  BY <1>3, LineFnType
<1>5. PICK s \in Seq(S) : s = log
  BY <1>1, <1>2, <1>3
<1>6. ASSUME NEW e \in EventsOf(format), WriteText(e) PROVE TextsInv'
  <2>1. /\ phase = "writing" /\ phase' = "writing" /\ format' = format /\ bufSize' = bufSize
        /\ got' = got /\ log' = Append(log, e)
        /\ file' = file \o (IF format = "csv" THEN LineOf(e) ELSE HandLine(e))
    BY <1>6 DEF WriteText
  <2>2. PICK x \in S : x = e
    BY <1>2, <1>3, <1>6, EventsAre
  <2>3. g[x] = IF fm = "csv" THEN LineOf(e) ELSE HandLine(e)
    BY <1>3, <1>4, <2>2, LineFnType
  <2>4. Flat(g, Append(s, x)) = Cat(Flat(g, s), g[x])
    BY FlatAppend
  <2>5. file' = Flat(LineFn(fm), log')
    <3>1. file' = Cat(Flat(g, s), g[x])
      BY <1>1, <1>2, <1>4, <1>5, <2>1, <2>3 DEF Cat
    <3> QED
      BY <1>4, <1>5, <2>1, <2>2, <2>4, <3>1
  <2>6. Append(s, x) \in Seq(S) /\ Len(Append(s, x)) = Len(s) + 1
    OBVIOUS
  <2>7. log' \in Seq(Events(fm)) /\ Len(log') = Len(log) + 1
    BY <1>3, <1>5, <2>1, <2>2, <2>6
  <2>8. Len(got') \in 0 .. Len(log') /\ got' = <<>>
    <3>1. got = <<>>
      BY <2>1 DEF TextsInv
    <3>2. Len(log) \in Nat
      BY <1>5
    <3> QED
      BY <1>1, <2>1, <2>7, <3>1, <3>2
  <2>9. phase' # "reading" /\ phase' # "over"
    BY <2>1
  <2> QED
    BY <1>1, <1>2, <2>1, <2>5, <2>7, <2>8, <2>9 DEF TextsInv
<1>7. CASE Open
  <2>1. /\ phase = "writing" /\ phase' = "reading" /\ format' = format /\ bufSize' = bufSize
        /\ log' = log /\ got' = got /\ file' = file /\ reader' = Opened(file)
    BY <1>7 DEF Open
  <2>2. got = <<>> /\ Len(got) = 0
    BY <2>1 DEF TextsInv
  <2>3. file \in Seq(Char)
    <3>1. Flat(g, s) \in Seq(Char)
      BY FlatType
    <3> QED
      BY <1>1, <1>2, <1>4, <1>5, <3>1
  <2>4. FileType(reader') /\ Ahead(reader') = file
    BY <2>1, <2>3, OpenedGood
  <2>5. SubSeq(log, 1, Len(log)) = log
    BY <1>5, Fronts
  <2>6. Ahead(reader') = Flat(LineFn(format), SubSeq(log, Len(got') + 1, Len(log)))
    <3>1. Len(got') + 1 = 1
      BY <2>1, <2>2
    <3> QED
      BY <1>1, <2>4, <2>5, <3>1
  <2>7. phase' # "writing" /\ phase' # "over"
    BY <2>1
  <2> QED
    BY <1>1, <2>1, <2>4, <2>6, <2>7 DEF TextsInv
<1>8. CASE ReadText
  BY <1>8, ReadTextGood
<1>9. CASE UNCHANGED vars
  BY <1>9 DEF TextsInv, vars
<1>10. ASSUME NEW e PROVE ~WriteBlocks(e) /\ ~ReadBlocks
  BY DEF WriteBlocks, ReadBlocks
<1> QED
  BY <1>6, <1>7, <1>8, <1>9, <1>10 DEF Next

\* The invariant of files of any format.
FormatsInv == BlocksInv /\ ReadsInv /\ TextsInv

\* The log of the abstract file.
TheLog == [i \in DOMAIN log |-> IF format = "lzo" THEN log[i] ELSE ShownAs(log[i])]

\* A table made of a sequence, with one element more.
LEMMA OneFewer ==
  ASSUME NEW S, NEW s \in Seq(S), NEW x \in S, NEW a, NEW b,
         IsTable(a, DOMAIN s), IsTable(b, DOMAIN Append(s, x)), \A i \in DOMAIN s : a[i] = b[i]
  PROVE  b # <<>> /\ a = SubSeq(b, 1, Len(b) - 1)
<1>1. PICK n \in Nat : n = Len(s)
  OBVIOUS
<1>2. DOMAIN s = 1 .. n /\ DOMAIN Append(s, x) = 1 .. n + 1
  BY <1>1
<1>3. PICK m \in Nat : m = n + 1
  OBVIOUS
<1>4. b = [i \in 1 .. m |-> b[i]] /\ a = [i \in 1 .. n |-> a[i]]
  BY <1>2, <1>3 DEF IsTable
<1>5. PICK T : T = {b[i] : i \in 1 .. m}
  OBVIOUS
<1>6. \A i \in 1 .. m : b[i] \in T
  BY <1>5
<1>7. b \in Seq(T) /\ Len(b) = m
  BY <1>4, <1>6, AsSequence
<1>8. \A i \in 1 .. n : a[i] = b[i] /\ i \in 1 .. m
  BY <1>2, <1>3
<1>9. a \in Seq(T) /\ Len(a) = n
  <2>1. \A i \in 1 .. n : a[i] \in T
    BY <1>6, <1>8
  <2> QED
    BY <1>4, <2>1, AsSequence
<1>10. PICK c \in Seq(T) : c = SubSeq(b, 1, n) /\ Len(c) = n /\ \A i \in 1 .. n : c[i] = b[i]
  <2>1. n \in 0 .. Len(b) /\ n <= Len(b)
    BY <1>3, <1>7
  <2>2. SubSeq(b, 1, n) \in Seq(T) /\ Len(SubSeq(b, 1, n)) = n
    BY <1>7, <2>1, CutAt
  <2>3. \A i \in 1 .. n : SubSeq(b, 1, n)[i] = b[i]
    BY <1>7, <2>1
  <2> QED
    BY <2>2, <2>3
<1>11. a = c
  BY <1>8, <1>9, <1>10, SeqEqual
<1> QED
  BY <1>3, <1>7, <1>10, <1>11

\* The log of the abstract file is as long as the one of the code.
LEMMA TheLogIs ==
  ASSUME NEW S, log \in Seq(S)
  PROVE  /\ IsTable(TheLog, DOMAIN log) /\ Len(TheLog) = Len(log)
         /\ \A i \in 1 .. Len(log) : TheLog[i] = IF format = "lzo" THEN log[i] ELSE ShownAs(log[i])
<1>1. DOMAIN log = 1 .. Len(log) /\ Len(log) \in Nat
  OBVIOUS
<1>2. PICK n \in Nat : n = Len(log)
  BY <1>1
<1>3. PICK a : a = TheLog
  OBVIOUS
<1>4. a = [i \in 1 .. n |-> IF format = "lzo" THEN log[i] ELSE ShownAs(log[i])]
  BY <1>1, <1>2, <1>3 DEF TheLog
<1>5. \A i \in 1 .. n : a[i] = IF format = "lzo" THEN log[i] ELSE ShownAs(log[i])
  BY <1>4
<1>6. a = [i \in 1 .. n |-> a[i]]
  BY <1>4
<1>7. PICK T : T = {a[i] : i \in 1 .. n}
  OBVIOUS
<1>8. \A i \in 1 .. n : a[i] \in T
  BY <1>7
<1>9. Len(a) = n
  BY <1>6, <1>8, AsSequence
<1> QED
  BY <1>1, <1>2, <1>3, <1>5, <1>6, <1>9 DEF IsTable

\* An accepted event is one more of the abstract log.
LEMMA AcceptedIsPut ==
  ASSUME NEW S, log \in Seq(S), NEW x \in S, log' = Append(log, x), format' = format,
         phase = "writing", phase' = phase, got' = got
  PROVE  Log!Put
<1>1. PICK a : a = TheLog
  OBVIOUS
<1>2. PICK b : b = TheLog'
  OBVIOUS
<1>3. PICK s \in Seq(S) : s = log
  OBVIOUS
<1>4. PICK u \in Seq(S) : u = Append(s, x)
  BY AppendIsCat
<1>5. a = [i \in DOMAIN s |-> IF format = "lzo" THEN s[i] ELSE ShownAs(s[i])]
  BY <1>1, <1>3 DEF TheLog
<1>6. b = [i \in DOMAIN u |-> IF format = "lzo" THEN u[i] ELSE ShownAs(u[i])]
  BY <1>2, <1>3, <1>4 DEF TheLog, ShownAs
<1>7. IsTable(a, DOMAIN s) /\ IsTable(b, DOMAIN u)
  BY <1>5, <1>6 DEF IsTable
<1>8. ASSUME NEW i \in DOMAIN s PROVE a[i] = b[i]
  <2>1. i \in DOMAIN u /\ u[i] = s[i]
    BY <1>4
  <2> QED
    BY <1>5, <1>6, <2>1
<1>9. b # <<>> /\ a = SubSeq(b, 1, Len(b) - 1)
  BY <1>4, <1>7, <1>8, OneFewer
<1> QED
  BY <1>1, <1>2, <1>9 DEF Log!Put, TheLog

\* What a read gets is what the abstract file gives.
LEMMA ReadIsGet ==
  ASSUME NEW S, log \in Seq(S), phase = "reading", Len(got) \in 0 .. Len(log),
         log' = log, format' = format,
         IF Len(got) < Len(log)
         THEN got' = Append(got, TheLog[Len(got) + 1]) /\ phase' = phase
         ELSE got' = got /\ phase' = "over"
  PROVE  Log!Get \/ Log!Over
<1>1. TheLog' = TheLog
  BY DEF TheLog, ShownAs
<1>2. Len(TheLog) = Len(log) /\ Len(log) \in Nat
  BY TheLogIs
<1>3. CASE Len(got) < Len(log)
  <2>1. Len(got) < Len(TheLog) /\ got' = Append(got, TheLog[Len(got) + 1]) /\ phase' = phase
    BY <1>2, <1>3
  <2> QED
    BY <1>1, <2>1 DEF Log!Get, TheLog
<1>4. CASE ~(Len(got) < Len(log))
  <2>1. Len(got) = Len(TheLog) /\ got' = got /\ phase' = "over"
    BY <1>2, <1>4
  <2> QED
    BY <1>1, <2>1 DEF Log!Over, TheLog
<1> QED
  BY <1>3, <1>4

\* The log is a sequence of something, in every format.
LEMMA LogIsSequence ==
  ASSUME FormatsInv
  PROVE  \E S : log \in Seq(S)
BY DEF FormatsInv, BlocksInv, TextsInv

\* Every step of a file is one of the abstract file, or none.
LEMMA FileStep ==
  ASSUME FormatsInv, [Next]_vars
  PROVE  [Log!Next]_Log!vars
<1>1. PICK S : log \in Seq(S)
  BY LogIsSequence
<1>2. ASSUME NEW e, WriteBlocks(e) PROVE [Log!Next]_Log!vars
  <2>1. /\ phase = "writing" /\ phase' = phase /\ format = "lzo" /\ format' = format /\ got' = got
        /\ log' = IF Refused(writer) THEN log ELSE Append(log, e)
        /\ \E n \in Sizes : e = Bytes(Len(log) + 1, n)
    BY <1>2 DEF WriteBlocks
  <2>2. log \in Seq(Seq(Seq(Byte)))
    BY <2>1 DEF FormatsInv, BlocksInv
  <2>3. e \in Seq(Seq(Byte))
    <3>1. Len(log) + 1 \in Nat
      BY <2>2
    <3> QED
      BY <2>1, <3>1, BytesType
  <2>4. CASE Refused(writer)
    BY <2>1, <2>4 DEF Log!vars, ShownAs
  <2>5. CASE ~Refused(writer)
    <3>1. log' = Append(log, e)
      BY <2>1, <2>5
    <3>2. PICK U : U = Seq(Seq(Byte))
      OBVIOUS
    <3>3. PICK x \in U : x = e
      BY <2>3, <3>2
    <3>4. log \in Seq(U) /\ log' = Append(log, x)
      BY <2>2, <3>1, <3>2, <3>3
    <3>5. Log!Put
      BY <2>1, <3>4, AcceptedIsPut
    <3> QED
      BY <3>5 DEF Log!Next
  <2> QED
    BY <2>4, <2>5
<1>3. ASSUME NEW e \in EventsOf(format), WriteText(e) PROVE [Log!Next]_Log!vars
  <2>1. /\ phase = "writing" /\ phase' = phase /\ format # "lzo" /\ format' = format /\ got' = got
        /\ log' = Append(log, e)
    BY <1>3 DEF WriteText
  <2>2. log \in Seq(Events(format)) /\ e \in Events(format)
    BY <1>3, <2>1, EventsAre DEF FormatsInv, TextsInv
  <2>3. PICK U : U = Events(format)
    OBVIOUS
  <2>4. PICK x \in U : x = e
    BY <2>2, <2>3
  <2>5. log \in Seq(U) /\ log' = Append(log, x)
    BY <2>1, <2>2, <2>3, <2>4
  <2>6. Log!Put
    BY <2>1, <2>5, AcceptedIsPut
  <2> QED
    BY <2>6 DEF Log!Next
<1>4. CASE Open
  <2>1. phase = "writing" /\ phase' = "reading" /\ log' = log /\ got' = got /\ format' = format
    BY <1>4 DEF Open
  <2> QED
    BY <2>1 DEF Log!Next, Log!Finish, ShownAs
<1>5. CASE ReadBlocks
  <2>1. phase = "reading" /\ format = "lzo" /\ format' = format /\ log' = log
    BY <1>5 DEF ReadBlocks
  <2>2. GetsNext
    BY <1>5, ReadBlocksGood DEF FormatsInv
  <2>3. Len(got) \in 0 .. Len(log)
    BY <2>1 DEF FormatsInv, ReadsInv
  <2>4. ASSUME Len(got) < Len(log) PROVE TheLog[Len(got) + 1] = log[Len(got) + 1]
    <3>1. Len(got) + 1 \in 1 .. Len(log)
      BY <1>1, <2>3, <2>4
    <3> QED
      BY <1>1, <2>1, <3>1, TheLogIs
  <2>5. Log!Get \/ Log!Over
    BY <1>1, <2>1, <2>2, <2>3, <2>4, ReadIsGet DEF GetsNext
  <2> QED
    BY <2>5 DEF Log!Next
<1>6. CASE ReadText
  <2>1. phase = "reading" /\ format # "lzo" /\ format' = format /\ log' = log
    BY <1>6 DEF ReadText
  <2>2. GetsLine
    BY <1>6, ReadTextGood DEF FormatsInv
  <2>3. Len(got) \in 0 .. Len(log)
    BY <2>1 DEF FormatsInv, TextsInv
  <2>4. ASSUME Len(got) < Len(log) PROVE TheLog[Len(got) + 1] = ShownAs(log[Len(got) + 1])
    <3>1. Len(got) + 1 \in 1 .. Len(log)
      BY <1>1, <2>3, <2>4
    <3> QED
      BY <1>1, <2>1, <3>1, TheLogIs
  <2>5. Log!Get \/ Log!Over
    BY <1>1, <2>1, <2>2, <2>3, <2>4, ReadIsGet DEF GetsLine
  <2> QED
    BY <2>5 DEF Log!Next
<1>7. CASE UNCHANGED vars
  BY <1>7 DEF vars, Log!vars, ShownAs
<1> QED
  BY <1>2, <1>3, <1>4, <1>5, <1>6, <1>7 DEF Next

\* At first the file is the abstract one at first.
LEMMA FileInit == Init => Log!Init
<1> SUFFICES ASSUME Init PROVE Log!Init
  OBVIOUS
<1>1. log = <<>> /\ got = <<>> /\ phase = "writing"
  BY DEF Init
<1>2. [i \in DOMAIN log |-> IF format = "lzo" THEN log[i] ELSE ShownAs(log[i])] = <<>>
  BY <1>1
<1> QED
  BY <1>1, <1>2 DEF Log!Init

\* A file of events, in blocks of bytes, in text, or in text made by hand, is a
\* log: who reads it gets the events that were accepted, in their order, and is
\* told that the file is over only when it has them all.
THEOREM LogRefinement == Spec => ImplementsLog
<1>1. Init => FormatsInv
  BY BlocksInit, ReadsInit, TextsInit DEF FormatsInv
<1>2. FormatsInv /\ [Next]_vars => FormatsInv'
  BY BlocksNext, ReadsNext, TextsNext DEF FormatsInv
<1>3. FormatsInv /\ [Next]_vars => [Log!Next]_Log!vars
  BY FileStep
<1> QED
  BY <1>1, <1>2, <1>3, FileInit, PTL DEF Spec, ImplementsLog, Log!Spec
=============================================================================
