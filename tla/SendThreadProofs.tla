-------------------------- MODULE SendThreadProofs --------------------------
(***************************************************************************)
(* SendInv holds for every number of callers, every configuration and      *)
(* every length: the lists of the send buffer stay within their limits and *)
(* nothing is put into a block beyond its size.  The lemmas say of each    *)
(* operation of NetIOBuf that it keeps BufferInv; what matters is that     *)
(* GetCrntInBufAndTest() (Room) says yes only if there is room.            *)
(*                                                                         *)
(* IsOutbox holds for all of them, too, if records are not so long that    *)
(* the prefixes of their packages would not fit (RoomForPrefixes).  Here   *)
(* the lemmas say of each operation what it does to what waits.            *)
(***************************************************************************)
EXTENDS SendThread, SequenceLemmas

\* ReSize() gives at least what is asked for, takes nothing away, and doubles
\* at most.
LEMMA GrownFits ==
  ASSUME NEW file \in BOOLEAN, NEW size \in Nat, NEW need \in Nat
  PROVE  /\ Grown(file, size, need) \in Nat
         /\ Grown(file, size, need) >= need
         /\ Grown(file, size, need) >= size
         /\ ~file /\ need <= MaxMem /\ size <= 2 * MaxMem + BlockStep
              => Grown(file, size, need) <= 2 * MaxMem + BlockStep
  BY SendBufferAssumption DEF Grown

\* An empty block.
LEMMA BlockType ==
  ASSUME NEW size \in Nat
  PROVE  /\ Block(size) \in Blocks
         /\ Block(size).len = 0 /\ Block(size).size = size /\ Block(size).packages = <<>>
  BY DEF Block, Blocks

\* A null pointer is no block that breaks a limit.
LEMMA NoBlockType == NoBlock \in Blocks /\ \A file \in BOOLEAN : BlockInv(file, NoBlock)
  BY SendBufferAssumption DEF NoBlock, Blocks, BlockInv

\* A new block, and an idle one, is within the limit and empty.
LEMMA NewBlockGood ==
  ASSUME NEW file \in BOOLEAN
  PROVE  /\ NewBlock(file) \in Blocks /\ NewBlock(file).len = 0
         /\ NewBlock(file).size \in Nat
         /\ BlockInv(file, NewBlock(file))
         /\ NewBlock(file) = Block(NewBlock(file).size)
<1>1. /\ Grown(file, 0, ProperSize) \in Nat
      /\ ~file => Grown(file, 0, ProperSize) <= 2 * MaxMem + BlockStep
  BY GrownFits, SendBufferAssumption
<1> QED
  BY <1>1, BlockType DEF NewBlock, BlockInv

\* Init() fills the list of idle blocks to its limit and not beyond.
LEMMA EmptyBufferGood ==
  ASSUME NEW file \in BOOLEAN
  PROVE  BufferInv(EmptyBuffer(file))
<1> DEFINE idle == [i \in 1 .. MaxCount |-> NewBlock(file).size]
<1>1. NewBlock(file).size \in Nat /\ BlockInv(file, Block(NewBlock(file).size))
  BY NewBlockGood
<1>2. idle \in Seq(Nat) /\ Len(idle) = MaxCount /\ \A i \in DOMAIN idle : idle[i] = NewBlock(file).size
  BY <1>1, SendBufferAssumption
<1>3. EmptyBuffer(file) = [file |-> file, inb |-> NoBlock, busy |-> <<>>, files |-> <<>>, idle |-> idle]
  BY DEF EmptyBuffer
<1> HIDE DEF idle
<1> QED
  BY <1>1, <1>2, <1>3, NoBlockType, SendBufferAssumption DEF BufferInv, Buffers

\* GetInBuf() keeps the buffer; a block it provides is empty.
LEMMA GetInBufGood ==
  ASSUME NEW b, BufferInv(b)
  PROVE  /\ BufferInv(GetInBuf(b)) /\ GetInBuf(b).file = b.file
         /\ b.inb = NoBlock => GetInBuf(b).inb.len = 0
<1>1. CASE b.inb # NoBlock
  BY <1>1 DEF GetInBuf
<1>2. CASE b.inb = NoBlock /\ b.idle = <<>>
  BY <1>2, NewBlockGood DEF GetInBuf, BufferInv, Buffers
<1>3. CASE b.inb = NoBlock /\ b.idle # <<>>
  <2>1. Head(b.idle) \in Nat /\ BlockInv(b.file, Block(Head(b.idle)))
    BY <1>3, HeadTailProperties DEF BufferInv, Buffers
  <2>2. /\ Tail(b.idle) \in Seq(Nat) /\ Len(Tail(b.idle)) <= MaxCount
        /\ \A i \in DOMAIN Tail(b.idle) : BlockInv(b.file, Block(Tail(b.idle)[i]))
    BY <1>3, SendBufferAssumption DEF BufferInv, Buffers
  <2> QED
    BY <1>3, <2>1, <2>2, BlockType DEF GetInBuf, BufferInv, Buffers
<1> QED
  BY <1>1, <1>2, <1>3

\* Blocks that are appended to a list, and lists without their head.
LEMMA ListOfBlocks ==
  ASSUME NEW file \in BOOLEAN, NEW q \in Seq(Blocks), NEW x \in Blocks,
         BlockInv(file, x), \A i \in DOMAIN q : BlockInv(file, q[i])
  PROVE  /\ Append(q, x) \in Seq(Blocks)
         /\ \A i \in DOMAIN Append(q, x) : BlockInv(file, Append(q, x)[i])
         /\ q # <<>> => /\ Head(q) \in Blocks /\ BlockInv(file, Head(q))
                        /\ Tail(q) \in Seq(Blocks)
                        /\ Len(Tail(q)) = Len(q) - 1
                        /\ \A i \in DOMAIN Tail(q) : BlockInv(file, Tail(q)[i])
<1>1. Append(q, x) \in Seq(Blocks) /\ \A i \in DOMAIN Append(q, x) : BlockInv(file, Append(q, x)[i])
  <2>1. \A i \in DOMAIN Append(q, x) : Append(q, x)[i] = x \/ (i \in DOMAIN q /\ Append(q, x)[i] = q[i])
    OBVIOUS
  <2> QED
    BY <2>1
<1>2. ASSUME q # <<>>
      PROVE  /\ Head(q) \in Blocks /\ BlockInv(file, Head(q))
             /\ Tail(q) \in Seq(Blocks) /\ Len(Tail(q)) = Len(q) - 1
             /\ \A i \in DOMAIN Tail(q) : BlockInv(file, Tail(q)[i])
  <2>1. Head(q) = q[1] /\ 1 \in DOMAIN q
    BY <1>2
  <2>2. Tail(q) \in Seq(Blocks) /\ Len(Tail(q)) = Len(q) - 1
    BY <1>2
  <2>3. \A i \in DOMAIN Tail(q) : i + 1 \in DOMAIN q /\ Tail(q)[i] = q[i + 1]
    BY <1>2
  <2> QED
    BY <2>1, <2>2, <2>3
<1> QED
  BY <1>1, <1>2

\* A buffer is good if its parts are.
LEMMA PartsGood ==
  ASSUME NEW file \in BOOLEAN, NEW inb \in Blocks, BlockInv(file, inb),
         NEW busy \in Seq(Blocks), Len(busy) <= MaxCount,
         \A i \in DOMAIN busy : BlockInv(file, busy[i]),
         NEW files \in Seq(Blocks), ~file => files = <<>>,
         \A i \in DOMAIN files : BlockInv(file, files[i]),
         NEW idle \in Seq(Nat), Len(idle) <= MaxCount,
         \A i \in DOMAIN idle : BlockInv(file, Block(idle[i]))
  PROVE  BufferInv([file |-> file, inb |-> inb, busy |-> busy, files |-> files, idle |-> idle])
  BY DEF BufferInv, Buffers

\* The parts of a good buffer are good.
LEMMA BufferParts ==
  ASSUME NEW b, BufferInv(b)
  PROVE  /\ b \in Buffers
         /\ b.file \in BOOLEAN
         /\ b.inb \in Blocks /\ BlockInv(b.file, b.inb)
         /\ b.busy \in Seq(Blocks) /\ Len(b.busy) <= MaxCount
         /\ \A i \in DOMAIN b.busy : BlockInv(b.file, b.busy[i])
         /\ b.files \in Seq(Blocks) /\ (~b.file => b.files = <<>>)
         /\ \A i \in DOMAIN b.files : BlockInv(b.file, b.files[i])
         /\ b.idle \in Seq(Nat) /\ Len(b.idle) <= MaxCount
         /\ \A i \in DOMAIN b.idle : BlockInv(b.file, Block(b.idle[i]))
  BY DEF BufferInv, Buffers

\* The block that is filled may be replaced by any good one.
LEMMA WithInb ==
  ASSUME NEW b, BufferInv(b), NEW x \in Blocks, BlockInv(b.file, x)
  PROVE  LET d == [b EXCEPT !.inb = x]
         IN  BufferInv(d) /\ d.file = b.file /\ d.inb = x
  BY DEF BufferInv, Buffers

\* SetIn() keeps the limits: a full list loses a block before it gets one.
LEMMA SetInGood ==
  ASSUME NEW b, BufferInv(b)
  PROVE  /\ BufferInv(SetIn(b)) /\ SetIn(b).file = b.file
         /\ SetIn(b) = b \/ SetIn(b).inb = NoBlock
<1>1. /\ b \in Buffers
      /\ b.file \in BOOLEAN
      /\ b.inb \in Blocks /\ BlockInv(b.file, b.inb)
      /\ b.busy \in Seq(Blocks) /\ Len(b.busy) <= MaxCount
      /\ \A i \in DOMAIN b.busy : BlockInv(b.file, b.busy[i])
      /\ b.files \in Seq(Blocks) /\ (~b.file => b.files = <<>>)
      /\ \A i \in DOMAIN b.files : BlockInv(b.file, b.files[i])
      /\ b.idle \in Seq(Nat) /\ Len(b.idle) <= MaxCount
      /\ \A i \in DOMAIN b.idle : BlockInv(b.file, Block(b.idle[i]))
  BY BufferParts
<1>2. CASE Len(b.busy) < MaxCount
  <2> DEFINE busy == Append(b.busy, b.inb)
  <2>1. busy \in Seq(Blocks) /\ \A i \in DOMAIN busy : BlockInv(b.file, busy[i])
    BY <1>1, ListOfBlocks
  <2>2. Len(busy) <= MaxCount
    BY <1>2, <1>1, SendBufferAssumption
  <2>3. SetIn(b) = [file |-> b.file, inb |-> NoBlock, busy |-> busy, files |-> b.files, idle |-> b.idle]
    BY <1>2, <1>1 DEF SetIn, Buffers
  <2> HIDE DEF busy
  <2>4. BufferInv(SetIn(b))
    BY <2>1, <2>2, <2>3, NoBlockType, <1>1, PartsGood
  <2> QED
    BY <2>3, <2>4
<1>3. CASE ~(Len(b.busy) < MaxCount) /\ b.file
  <2>1. b.busy # <<>> /\ Len(b.busy) = MaxCount
    BY <1>3, <1>1, SendBufferAssumption
  <2>2. /\ Head(b.busy) \in Blocks /\ BlockInv(b.file, Head(b.busy))
        /\ Tail(b.busy) \in Seq(Blocks) /\ Len(Tail(b.busy)) = Len(b.busy) - 1
        /\ \A i \in DOMAIN Tail(b.busy) : BlockInv(b.file, Tail(b.busy)[i])
    BY <2>1, <1>1, ListOfBlocks
  <2> DEFINE files == Append(b.files, Head(b.busy))
             busy == Append(Tail(b.busy), b.inb)
  <2>3. files \in Seq(Blocks) /\ \A i \in DOMAIN files : BlockInv(b.file, files[i])
    BY <2>2, <1>1, ListOfBlocks
  <2>4. busy \in Seq(Blocks) /\ \A i \in DOMAIN busy : BlockInv(b.file, busy[i])
    BY <2>2, <1>1, ListOfBlocks
  <2>5. Len(busy) <= MaxCount
    BY <2>1, <2>2, SendBufferAssumption
  <2>6. SetIn(b) = [file |-> b.file, inb |-> NoBlock, busy |-> busy, files |-> files, idle |-> b.idle]
    BY <1>3, <1>1 DEF SetIn, Buffers
  <2> HIDE DEF files, busy
  <2>7. BufferInv(SetIn(b))
    BY <1>3, <2>3, <2>4, <2>5, <2>6, NoBlockType, <1>1, PartsGood
  <2> QED
    BY <2>6, <2>7
<1>4. CASE ~(Len(b.busy) < MaxCount) /\ ~b.file
  BY <1>4 DEF SetIn
<1> QED
  BY <1>2, <1>3, <1>4

\* Expand() keeps the limits: a block grows at most to twice its limit, and is
\* replaced by an empty one only if it can wait.
LEMMA ExpandGood ==
  ASSUME NEW b, BufferInv(b), NEW need \in Nat, need > b.inb.size
  PROVE  /\ BufferInv(Expand(b, need).buf) /\ Expand(b, need).buf.file = b.file
         /\ Expand(b, need).ok \in BOOLEAN
<1> DEFINE limit == IF b.file THEN MaxFile ELSE MaxMem
           grown == [b EXCEPT !.inb = Resized(@, b.file, need)]
           next == GetInBuf(SetIn(b))
           fresh == [next EXCEPT !.inb = Block(Grown(b.file, @.size, ProperSize))]
<1>1. /\ b.file \in BOOLEAN /\ b.inb \in Blocks
      /\ b.inb.len \in Nat /\ b.inb.size \in Nat /\ b.inb.packages \in Seq(Packages)
      /\ b.inb.len <= b.inb.size /\ (b.inb.len > 0 <=> b.inb.packages # <<>>)
      /\ ~b.file => b.inb.size <= 2 * MaxMem + BlockStep
  BY BufferParts DEF BlockInv, Blocks
<1>2. BufferInv(next) /\ next.file = b.file /\ next.inb.size \in Nat
  BY GetInBufGood, SetInGood DEF BufferInv, Buffers, Blocks
<1>3. Expand(b, need) =
        IF need <= limit THEN [ok |-> TRUE, buf |-> grown]
        ELSE IF SetIn(b) = b THEN [ok |-> FALSE, buf |-> b]
        ELSE [ok |-> TRUE, buf |-> fresh]
  BY DEF Expand
<1> HIDE DEF next
<1>4. need <= limit => BufferInv(grown) /\ grown.file = b.file
  <2> SUFFICES ASSUME need <= limit PROVE BufferInv(grown) /\ grown.file = b.file
    OBVIOUS
  <2> DEFINE size == Grown(b.file, b.inb.size, need)
             block == [size |-> size, len |-> b.inb.len, packages |-> b.inb.packages]
  <2>1. size \in Nat /\ size >= need /\ (~b.file => size <= 2 * MaxMem + BlockStep)
    BY <1>1, GrownFits
  <2>2. block = Resized(b.inb, b.file, need)
    BY <1>1 DEF Blocks, Resized
  <2> HIDE DEF size
  <2>3. block \in Blocks /\ BlockInv(b.file, block)
    BY <1>1, <2>1 DEF Blocks, BlockInv
  <2> HIDE DEF block
  <2> QED
    BY <2>2, <2>3, WithInb
<1>5. BufferInv(fresh) /\ fresh.file = b.file
  <2> DEFINE block == Block(Grown(b.file, next.inb.size, ProperSize))
  <2>1. ~b.file => next.inb.size <= 2 * MaxMem + BlockStep
    BY <1>2, BufferParts DEF BlockInv
  <2>2. /\ Grown(b.file, next.inb.size, ProperSize) \in Nat
        /\ ~b.file => Grown(b.file, next.inb.size, ProperSize) <= 2 * MaxMem + BlockStep
    BY <1>1, <1>2, <2>1, GrownFits, SendBufferAssumption
  <2>3. block \in Blocks /\ BlockInv(b.file, block)
    BY <2>2, BlockType DEF BlockInv
  <2>4. fresh = [next EXCEPT !.inb = block]
    BY <1>2 DEF BufferInv, Buffers
  <2> HIDE DEF block, fresh
  <2> QED
    BY <1>2, <2>3, <2>4, WithInb
<1> HIDE DEF grown, fresh, limit
<1> QED
  BY <1>3, <1>4, <1>5

\* GetCrntInBufAndTest(): an answer that is yes can be relied on.
LEMMA RoomGood ==
  ASSUME NEW b, BufferInv(b), NEW n \in Nat
  PROVE  /\ BufferInv(Room(b, n).buf) /\ Room(b, n).buf.file = b.file
         /\ Room(b, n).ok \in BOOLEAN
         /\ Room(b, n).ok => HasRoom(Room(b, n).buf, n)
<1> DEFINE c == GetInBuf(b)
           x == Expand(c, c.inb.len + n)
<1>1. BufferInv(c) /\ c.file = b.file /\ c.inb.len \in Nat /\ c.inb.size \in Nat
  BY GetInBufGood DEF BufferInv, Buffers, Blocks
<1>2. Room(b, n) = IF HasRoom(c, n) THEN [ok |-> TRUE, buf |-> c]
                   ELSE IF x.ok /\ HasRoom(x.buf, n) THEN x
                   ELSE [ok |-> FALSE, buf |-> x.buf]
  BY DEF Room
<1> HIDE DEF c
<1>3. ~HasRoom(c, n) => BufferInv(x.buf) /\ x.buf.file = b.file /\ x.ok \in BOOLEAN
  <2>1. c.inb.len + n \in Nat /\ (~HasRoom(c, n) => c.inb.len + n > c.inb.size)
    BY <1>1 DEF HasRoom
  <2> QED
    BY <1>1, <2>1, ExpandGood
<1> HIDE DEF x
<1>4. CASE HasRoom(c, n)
  BY <1>1, <1>2, <1>4
<1>5. CASE ~HasRoom(c, n) /\ x.ok /\ HasRoom(x.buf, n)
  BY <1>2, <1>3, <1>5
<1>6. CASE ~HasRoom(c, n) /\ ~(x.ok /\ HasRoom(x.buf, n))
  <2>1. Room(b, n) = [ok |-> FALSE, buf |-> x.buf]
    BY <1>2, <1>6
  <2>2. Room(b, n).ok = FALSE /\ Room(b, n).buf = x.buf
    BY <2>1
  <2> QED
    BY <1>3, <1>6, <2>2
<1> QED
  BY <1>4, <1>5, <1>6

\* What fits may be put in.
LEMMA PutGood ==
  ASSUME NEW b, BufferInv(b), NEW p \in Packages,
         HasRoom(b, PrefixSize + p.len)
  PROVE  BufferInv(Put(b, p)) /\ Put(b, p).file = b.file
<1> DEFINE len == b.inb.len + PrefixSize + p.len
           packages == Append(b.inb.packages, p)
           block == [size |-> b.inb.size, len |-> len, packages |-> packages]
<1>1. /\ p.len \in Nat /\ PrefixSize \in Nat \ {0}
      /\ b.inb \in Blocks /\ b.inb.len \in Nat /\ b.inb.size \in Nat
      /\ b.inb.packages \in Seq(Packages)
      /\ ~b.file => b.inb.size <= 2 * MaxMem + BlockStep
  BY SendBufferAssumption, BufferParts DEF Blocks, BlockInv, Packages
<1>2. len \in Nat /\ len > 0 /\ len <= b.inb.size
  BY <1>1 DEF HasRoom
<1>3. packages \in Seq(Packages) /\ packages # <<>>
  BY <1>1
<1>4. Put(b, p) = [b EXCEPT !.inb = block]
  <2>1. block = Filled(b.inb, p)
    BY DEF Filled
  <2> HIDE DEF block
  <2> QED
    BY <2>1 DEF Put
<1> HIDE DEF len, packages
<1>5. block \in Blocks /\ BlockInv(b.file, block)
  BY <1>1, <1>2, <1>3 DEF Blocks, BlockInv
<1> HIDE DEF block
<1> QED
  BY <1>4, <1>5, WithInb

\* FreeBuf() returns a block only to a list that has room, and only one that
\* is small enough.
LEMMA FreeBufGood ==
  ASSUME NEW b, BufferInv(b), NEW block \in Blocks, BlockInv(b.file, block)
  PROVE  BufferInv(FreeBuf(b, block)) /\ FreeBuf(b, block).file = b.file
<1>1. CASE block # NoBlock /\ block.size <= MaxMem /\ Len(b.idle) < MaxCount
  <2> DEFINE idle == Append(b.idle, block.size)
  <2>1. idle \in Seq(Nat) /\ Len(idle) <= MaxCount
    BY <1>1, SendBufferAssumption DEF BufferInv, Buffers, Blocks
  <2>2. \A i \in DOMAIN idle : (i \in DOMAIN b.idle /\ idle[i] = b.idle[i]) \/ idle[i] = block.size
    <3>1. b.idle \in Seq(Nat) /\ block.size \in Nat
      BY DEF BufferInv, Buffers, Blocks
    <3> QED
      BY <3>1
  <2>3. BlockInv(b.file, Block(block.size))
    BY BlockType DEF BlockInv, Blocks
  <2>4. FreeBuf(b, block) = [b EXCEPT !.idle = idle]
    BY <1>1 DEF FreeBuf, BufferInv, Buffers
  <2> HIDE DEF idle
  <2> QED
    BY <2>1, <2>2, <2>3, <2>4 DEF BufferInv, Buffers
<1>2. CASE ~(block # NoBlock /\ block.size <= MaxMem /\ Len(b.idle) < MaxCount)
  BY <1>2 DEF FreeBuf
<1> QED
  BY <1>1, <1>2

\* GetOutBuf() takes a good block and leaves a good buffer.
LEMMA GetOutBufGood ==
  ASSUME NEW b, BufferInv(b)
  PROVE  /\ BufferInv(GetOutBuf(b).buf) /\ GetOutBuf(b).buf.file = b.file
         /\ GetOutBuf(b).out \in Blocks /\ BlockInv(b.file, GetOutBuf(b).out)
<1>1. /\ b \in Buffers
      /\ b.file \in BOOLEAN
      /\ b.inb \in Blocks /\ BlockInv(b.file, b.inb)
      /\ b.busy \in Seq(Blocks) /\ Len(b.busy) <= MaxCount
      /\ \A i \in DOMAIN b.busy : BlockInv(b.file, b.busy[i])
      /\ b.files \in Seq(Blocks) /\ (~b.file => b.files = <<>>)
      /\ \A i \in DOMAIN b.files : BlockInv(b.file, b.files[i])
      /\ b.idle \in Seq(Nat) /\ Len(b.idle) <= MaxCount
      /\ \A i \in DOMAIN b.idle : BlockInv(b.file, Block(b.idle[i]))
  BY BufferParts
<1>2. CASE b.files # <<>>
  <2> DEFINE files == Tail(b.files)
  <2>1. /\ Head(b.files) \in Blocks /\ BlockInv(b.file, Head(b.files))
        /\ files \in Seq(Blocks) /\ \A i \in DOMAIN files : BlockInv(b.file, files[i])
    BY <1>2, <1>1, ListOfBlocks
  <2>2. /\ GetOutBuf(b).out = Head(b.files)
        /\ GetOutBuf(b).buf =
             [file |-> b.file, inb |-> b.inb, busy |-> b.busy, files |-> files, idle |-> b.idle]
    BY <1>2, <1>1 DEF GetOutBuf, Buffers
  <2>3. ~b.file => files = <<>>
    BY <1>2, <1>1
  <2> HIDE DEF files
  <2>4. BufferInv(GetOutBuf(b).buf)
    BY <2>1, <2>2, <2>3, <1>1, PartsGood
  <2> QED
    BY <2>1, <2>2, <2>4
<1>3. CASE b.files = <<>> /\ b.busy # <<>>
  <2> DEFINE busy == Tail(b.busy)
  <2>1. /\ Head(b.busy) \in Blocks /\ BlockInv(b.file, Head(b.busy))
        /\ busy \in Seq(Blocks) /\ Len(busy) = Len(b.busy) - 1
        /\ \A i \in DOMAIN busy : BlockInv(b.file, busy[i])
    BY <1>3, <1>1, ListOfBlocks
  <2>2. /\ GetOutBuf(b).out = Head(b.busy)
        /\ GetOutBuf(b).buf =
             [file |-> b.file, inb |-> b.inb, busy |-> busy, files |-> b.files, idle |-> b.idle]
    BY <1>3, <1>1 DEF GetOutBuf, Buffers
  <2>3. Len(busy) <= MaxCount
    BY <2>1, <1>1, SendBufferAssumption
  <2> HIDE DEF busy
  <2>4. BufferInv(GetOutBuf(b).buf)
    BY <2>1, <2>2, <2>3, <1>1, PartsGood
  <2> QED
    BY <2>1, <2>2, <2>4
<1>4. CASE b.files = <<>> /\ b.busy = <<>>
  <2>1. GetOutBuf(b).out = b.inb /\ GetOutBuf(b).buf = [b EXCEPT !.inb = NoBlock]
    BY <1>4 DEF GetOutBuf
  <2> QED
    BY <2>1, WithInb, NoBlockType, <1>1
<1> QED
  BY <1>2, <1>3, <1>4

\* An element of a concatenation is an element of one of the two.
LEMMA ConcatElements ==
  ASSUME NEW S, NEW p \in Seq(S), NEW q \in Seq(S), NEW i \in DOMAIN (p \o q)
  PROVE  \/ i \in DOMAIN p /\ (p \o q)[i] = p[i]
         \/ i - Len(p) \in DOMAIN q /\ (p \o q)[i] = q[i - Len(p)]
  OBVIOUS

\* SetAllBufInFile() keeps the limits of the lists.
LEMMA AllInFileGood ==
  ASSUME NEW b, BufferInv(b)
  PROVE  BufferInv(AllInFile(b)) /\ AllInFile(b).file = b.file
<1>1. /\ b \in Buffers
      /\ b.file \in BOOLEAN
      /\ b.inb \in Blocks /\ BlockInv(b.file, b.inb)
      /\ b.busy \in Seq(Blocks) /\ Len(b.busy) <= MaxCount
      /\ \A i \in DOMAIN b.busy : BlockInv(b.file, b.busy[i])
      /\ b.files \in Seq(Blocks) /\ (~b.file => b.files = <<>>)
      /\ \A i \in DOMAIN b.files : BlockInv(b.file, b.files[i])
      /\ b.idle \in Seq(Nat) /\ Len(b.idle) <= MaxCount
      /\ \A i \in DOMAIN b.idle : BlockInv(b.file, Block(b.idle[i]))
  BY BufferParts
<1>2. CASE b.file
  <2> DEFINE files == b.files \o b.busy
             busy == << >>
  <2>1. files \in Seq(Blocks)
    BY <1>1
  <2>2. \A i \in DOMAIN files :
          (i \in DOMAIN b.files /\ files[i] = b.files[i])
            \/ (i - Len(b.files) \in DOMAIN b.busy /\ files[i] = b.busy[i - Len(b.files)])
    BY <1>1, ConcatElements
  <2>3. AllInFile(b) = [file |-> b.file, inb |-> b.inb, busy |-> busy, files |-> files, idle |-> b.idle]
    BY <1>2, <1>1 DEF AllInFile, Buffers
  <2>4. /\ busy \in Seq(Blocks) /\ Len(busy) <= MaxCount
        /\ \A i \in DOMAIN busy : BlockInv(b.file, busy[i])
    BY SendBufferAssumption
  <2> HIDE DEF files, busy
  <2>5. \A i \in DOMAIN files : BlockInv(b.file, files[i])
    BY <2>2, <1>1
  <2>6. BufferInv(AllInFile(b))
    BY <1>2, <2>1, <2>3, <2>5, <2>4, <1>1, PartsGood
  <2> QED
    BY <2>3, <2>6
<1>3. CASE ~b.file
  BY <1>3 DEF AllInFile
<1> QED
  BY <1>2, <1>3

------------------------------------------------------------------------------
\* What the operations of the send thread work on.
States == [ok : BOOLEAN, buf : Buffers, pack : Packs, left : Nat]
Good(s, file) == s \in States /\ BufferInv(s.buf) /\ s.buf.file = file

\* A good state of which one or several parts are replaced by good ones.
LEMMA GoodOk ==
  ASSUME NEW s, NEW file, Good(s, file), NEW ok \in BOOLEAN
  PROVE  Good([s EXCEPT !.ok = ok], file)
  BY DEF Good, States, BufferInv

\* Likewise, the package.
LEMMA GoodPack ==
  ASSUME NEW s, NEW file, Good(s, file), NEW p \in Packs
  PROVE  Good([s EXCEPT !.pack = p], file)
  BY DEF Good, States, BufferInv

\* Likewise, the buffer.
LEMMA GoodOkBuf ==
  ASSUME NEW s, NEW file, Good(s, file), NEW ok \in BOOLEAN, NEW b, BufferInv(b), b.file = file
  PROVE  Good([s EXCEPT !.ok = ok, !.buf = b], file)
  BY DEF Good, States, BufferInv

\* Likewise, answer and package.
LEMMA GoodOkPack ==
  ASSUME NEW s, NEW file, Good(s, file), NEW ok \in BOOLEAN, NEW p \in Packs
  PROVE  Good([s EXCEPT !.ok = ok, !.pack = p], file)
  BY DEF Good, States, BufferInv

\* Likewise, all three.
LEMMA GoodOkBufPack ==
  ASSUME NEW s, NEW file, Good(s, file), NEW ok \in BOOLEAN, NEW b, BufferInv(b), b.file = file, NEW p \in Packs
  PROVE  Good([s EXCEPT !.ok = ok, !.buf = b, !.pack = p], file)
  BY DEF Good, States, BufferInv

\* Likewise, the buffer and the packages left to cut.
LEMMA GoodOkBufLeft ==
  ASSUME NEW s, NEW file, Good(s, file), NEW ok \in BOOLEAN, NEW b, BufferInv(b), b.file = file, NEW left \in Nat
  PROVE  Good([s EXCEPT !.ok = ok, !.buf = b, !.left = left], file)
  BY DEF Good, States, BufferInv

\* The parts of a good state are good.
LEMMA GoodParts ==
  ASSUME NEW s, NEW file, Good(s, file)
  PROVE  /\ BufferInv(s.buf) /\ s.buf.file = file
         /\ s.ok \in BOOLEAN /\ s.pack \in Packs /\ s.left \in Nat
         /\ s.pack.len \in Nat /\ s.pack.seg \in BOOLEAN /\ s.pack.items \in Seq(Items)
  BY DEF Good, States, Packs

\* The sizes are numbers, and a package has room for some data.
LEMMA Sizes ==
  /\ PkgSize \in Nat /\ HeaderSize \in Nat /\ RecordHeaderSize \in Nat \ {0} /\ BindSize \in Nat
  /\ PrefixSize \in Nat \ {0}
  /\ Chunk \in Nat \ {0}
  BY SendBufferAssumption, SendThreadAssumption DEF Chunk

\* addPkgToSendBuf(), by what the buffer says of its room.
LEMMA AddPkgGood ==
  ASSUME NEW s, NEW file, Good(s, file)
  PROVE  Good(addPkgToSendBuf(s), file)
<1> DEFINE n == s.pack.len + PrefixSize
           r == Room(s.buf, n)
           p == [kind |-> "records", len |-> s.pack.len, seg |-> s.pack.seg, items |-> s.pack.items]
<1>1. n \in Nat /\ p \in Packages /\ EmptyPack(s.pack.seg) \in Packs
  BY GoodParts, Sizes DEF Packages, Packs, EmptyPack
<1>2. /\ BufferInv(r.buf) /\ r.buf.file = file
      /\ r.ok => HasRoom(r.buf, n)
  BY <1>1, GoodParts, RoomGood
<1>3. r.ok => BufferInv(Put(r.buf, p)) /\ Put(r.buf, p).file = file
  <2>1. p.len = s.pack.len
    OBVIOUS
  <2> HIDE DEF p, r
  <2>2. PrefixSize + p.len = n
    BY <2>1, GoodParts, Sizes
  <2> QED
    BY <1>1, <1>2, <2>2, PutGood
<1>4. addPkgToSendBuf(s) =
        IF s.pack.len <= HeaderSize THEN [s EXCEPT !.ok = TRUE]
        ELSE IF ~r.ok THEN [s EXCEPT !.ok = FALSE, !.buf = r.buf]
        ELSE [s EXCEPT !.ok = TRUE, !.buf = Put(r.buf, p), !.pack = EmptyPack(s.pack.seg)]
  BY DEF addPkgToSendBuf
<1> HIDE DEF n, p, r
<1>5. CASE s.pack.len <= HeaderSize
  <2>1. Good([s EXCEPT !.ok = TRUE], file)
    BY GoodOk
  <2> QED
    BY <1>4, <1>5, <2>1
<1>6. CASE ~(s.pack.len <= HeaderSize) /\ ~r.ok
  <2>1. Good([s EXCEPT !.ok = FALSE, !.buf = r.buf], file)
    BY <1>2, GoodOkBuf
  <2> QED
    BY <1>4, <1>6, <2>1
<1>7. CASE ~(s.pack.len <= HeaderSize) /\ r.ok
  <2>1. Good([s EXCEPT !.ok = TRUE, !.buf = Put(r.buf, p), !.pack = EmptyPack(s.pack.seg)], file)
    BY <1>1, <1>3, <1>7, GoodOkBufPack
  <2> QED
    BY <1>4, <1>7, <2>1
<1> QED
  BY <1>5, <1>6, <1>7

\* SendPacket().
LEMMA SendPacketGood ==
  ASSUME NEW s, NEW file, Good(s, file), NEW n \in Nat
  PROVE  Good(SendPacket(s, n), file)
<1> DEFINE p == Command(n)
           r == Room(s.buf, PrefixSize + p.len)
<1>1. p \in Packages /\ p.len \in Nat
  <2>1. <<>> \in Seq(Items)
    OBVIOUS
  <2> QED
    BY <2>1, Sizes DEF Command, Packages
<1> HIDE DEF p
<1>2. PrefixSize + p.len \in Nat
  BY <1>1, Sizes
<1>3. /\ BufferInv(r.buf) /\ r.buf.file = file /\ r.ok \in BOOLEAN
      /\ r.ok => HasRoom(r.buf, PrefixSize + p.len)
  BY <1>2, GoodParts, RoomGood
<1>4. SendPacket(s, n) = [s EXCEPT !.ok = r.ok, !.buf = IF r.ok THEN Put(r.buf, p) ELSE r.buf]
  BY DEF SendPacket, p
<1> DEFINE b == IF r.ok THEN Put(r.buf, p) ELSE r.buf
<1> HIDE DEF r
<1>5. BufferInv(b) /\ b.file = file
  BY <1>1, <1>3, PutGood
<1> HIDE DEF b
<1>6. Good([s EXCEPT !.ok = r.ok, !.buf = b], file)
  BY <1>3, <1>5, GoodOkBuf
<1> QED
  BY <1>4, <1>6 DEF b

\* A package with one more record is a package.
LEMMA LongerType ==
  ASSUME NEW pk \in Packs, NEW n \in Nat, NEW items \in Seq(Items)
  PROVE  Longer(pk, n, items) \in Packs
  BY Sizes DEF Packs, Longer

\* A piece of a record is an item.
LEMMA PieceType ==
  ASSUME NEW id \in Nat, NEW n \in Nat, NEW from \in Int, NEW to \in Int
  PROVE  Piece(id, n, from, to) \in Items
  BY DEF Piece, Items

\* A record added to the package that is filled.
LEMMA AddGood ==
  ASSUME NEW s, NEW file, Good(s, file), NEW id \in Nat, NEW n \in Nat
  PROVE  Good(Add(s, id, n), file)
<1>1. Append(s.pack.items, Piece(id, n, 0, n)) \in Seq(Items)
  <2>1. s.pack.items \in Seq(Items)
    BY GoodParts
  <2>2. Piece(id, n, 0, n) \in Items
    BY PieceType, 0 \in Int, n \in Int
  <2> QED
    BY <2>1, <2>2
<1>2. Longer(s.pack, n, Append(s.pack.items, Piece(id, n, 0, n))) \in Packs
  BY <1>1, GoodParts, LongerType
<1> QED
  BY <1>2, GoodOkPack DEF Add

\* The number of packages of a large record, and the length of the last.
LEMMA PiecesType ==
  ASSUME NEW n \in Nat
  PROVE  Pieces(n) \in Nat /\ n % Chunk \in Nat
<1>1. Chunk \in Nat \ {0} /\ n + Chunk - 1 \in Nat
  BY Sizes
<1>2. \A k \in Nat, d \in Nat \ {0} : k \div d \in Nat /\ k % d \in Nat
  OBVIOUS
<1> QED
  BY <1>1, <1>2 DEF Pieces

\* addSuperLenPkgToSendBuf() before its loop.
LEMMA AddSuperLenGood ==
  ASSUME NEW s, NEW file, Good(s, file), NEW n \in Nat
  PROVE  Good(addSuperLenPkgToSendBuf(s, n), file)
<1> DEFINE r == Room(s.buf, Pieces(n) * PkgSize)
           left == IF r.ok THEN Pieces(n) ELSE 0
<1>1. Pieces(n) * PkgSize \in Nat /\ Pieces(n) \in Nat
  BY Sizes, PiecesType
<1>2. BufferInv(r.buf) /\ r.buf.file = file /\ r.ok \in BOOLEAN
  BY <1>1, GoodParts, RoomGood
<1>3. addSuperLenPkgToSendBuf(s, n) = [s EXCEPT !.ok = r.ok, !.buf = r.buf, !.left = left]
  BY DEF addSuperLenPkgToSendBuf
<1>4. left \in Nat
  BY <1>1
<1> HIDE DEF r, left
<1>5. Good([s EXCEPT !.ok = r.ok, !.buf = r.buf, !.left = left], file)
  BY <1>2, <1>4, GoodOkBufLeft
<1> QED
  BY <1>3, <1>5

\* addToPkg().
LEMMA AddToPkgGood ==
  ASSUME NEW s, NEW file, Good(s, file), NEW id \in Nat, NEW n \in Nat
  PROVE  Good(addToPkg(s, id, n), file)
<1> DEFINE t == addPkgToSendBuf(s)
<1>1. Good(t, file)
  BY AddPkgGood
<1>2. /\ Good(Add(s, id, n), file) /\ Good(Add(t, id, n), file)
      /\ Good(addSuperLenPkgToSendBuf(t, n), file)
  BY <1>1, AddGood, AddSuperLenGood
<1> QED
  BY <1>1, <1>2 DEF addToPkg

\* SendData() with a head.
LEMMA SendHeadedGood ==
  ASSUME NEW s, NEW file, Good(s, file), NEW id \in Nat, NEW n \in Nat
  PROVE  Good(SendHeaded(s, id, n), file)
<1> DEFINE t == addPkgToSendBuf(s)
<1>1. Good(t, file)
  BY AddPkgGood
<1>2. Good(Add(s, id, n), file) /\ Good(Add(t, id, n), file)
  BY <1>1, AddGood
<1>3. Good([s EXCEPT !.ok = FALSE], file)
  BY GoodOk
<1> QED
  BY <1>1, <1>2, <1>3 DEF SendHeaded

\* A round of the loop of addSuperLenPkgToSendBuf().
LEMMA CutGood ==
  ASSUME NEW s, NEW file, Good(s, file), NEW id \in Nat, NEW n \in Nat, NEW left \in Nat
  PROVE  Good(Cut(s, id, n, left), file)
<1> DEFINE from == (Pieces(n) - (IF left > 2 THEN left ELSE 2)) * Chunk
           to == from + (IF left > 2 THEN Chunk ELSE n % Chunk)
           items == <<Piece(id, n, from, to)>>
           full == [len |-> PkgSize, seg |-> TRUE, items |-> items]
           rest == Longer(s.pack, to - from, items)
           t == IF left > 2 THEN [s EXCEPT !.pack = full] ELSE [s EXCEPT !.pack = rest]
<1>1. from \in Int /\ to \in Int /\ to - from \in Nat
  <2>1. Chunk \in Nat /\ Pieces(n) \in Int /\ n % Chunk \in Nat
    BY Sizes, PiecesType
  <2>2. from \in Int
    BY <2>1
  <2> HIDE DEF from
  <2> QED
    BY <2>1, <2>2
<1> HIDE DEF from, to
<1>2. items \in Seq(Items)
  <2>1. Piece(id, n, from, to) \in Items
    BY <1>1, PieceType
  <2> QED
    BY <2>1
<1> HIDE DEF items
<1>3. full \in Packs /\ rest \in Packs
  BY <1>1, <1>2, GoodParts, Sizes, LongerType DEF Packs
<1>4. Cut(s, id, n, left) = addPkgToSendBuf(t)
  BY DEF Cut, from, to, items
<1> HIDE DEF full, rest
<1>5. Good(t, file)
  BY <1>3, GoodPack
<1> HIDE DEF t
<1> QED
  BY <1>4, <1>5, AddPkgGood

\* The parts of a call.
LEMMA CallType ==
  ASSUME NEW r \in Calls
  PROVE  /\ r.kind \in {"record", "headed", "direct"}
         /\ r.len \in Nat /\ r.tries \in 0 .. Tries /\ r.left \in Nat
  BY SendThreadAssumption DEF Calls

\* The current state is good.
LEMMA NowGood ==
  ASSUME SendInv
  PROVE  Good(Now, buf.file)
  BY DEF SendInv, TypeOK, Now, Good, States

\* The send buffer and the block that is sent keep to their limits, and every
\* variable to its type, whatever callers, client and send thread do
\* (SendData, run, doSend).  SendInv is inductive as it stands.
THEOREM SendInvariant == Spec => []SendInv
<1> USE SendBufferAssumption, SendThreadAssumption
<1>1. Init => SendInv
  <2> SUFFICES ASSUME Init PROVE SendInv
    OBVIOUS
  <2>1. PICK file \in Modes : buf = EmptyBuffer(file)
    BY DEF Init
  <2>2. file \in BOOLEAN /\ BufferInv(buf) /\ buf \in Buffers /\ buf.file \in BOOLEAN
    BY <2>1, EmptyBufferGood, BufferParts
  <2>3. EmptyPack(FALSE) \in Packs
    BY Sizes DEF EmptyPack, Packs
  <2>4. out \in Blocks /\ BlockInv(buf.file, out) /\ at \in 0 .. Len(out.packages)
    BY <2>2, NoBlockType DEF Init, Blocks
  <2>5. call \in [Callers -> Calls \cup {NoCall}]
    BY DEF Init
  <2>6. TypeOK
    BY <2>2, <2>3, <2>4, <2>5 DEF Init, TypeOK
  <2> QED
    BY <2>2, <2>4, <2>6 DEF SendInv
<1>2. SendInv /\ [Next]_vars => SendInv'
  <2> SUFFICES ASSUME SendInv, [Next]_vars PROVE SendInv'
    OBVIOUS
  <2>1. Good(Now, buf.file) /\ BufferInv(buf) /\ TypeOK /\ out \in Blocks /\ BlockInv(buf.file, out)
    BY NowGood DEF SendInv, TypeOK
  <2>2. ASSUME NEW c \in Callers, Call(c) PROVE SendInv'
    <3>1. PICK k \in Kinds, n \in Lengths :
            call' = [call EXCEPT ![c] = [kind |-> k, len |-> n, tries |-> Tries, left |-> 0]]
      BY <2>2 DEF Call
    <3>2. [kind |-> k, len |-> n, tries |-> Tries, left |-> 0] \in Calls
      BY DEF Calls
    <3>3. call' \in [Callers -> Calls \cup {NoCall}]
      BY <2>1, <3>1, <3>2 DEF TypeOK
    <3> QED
      BY <2>1, <2>2, <3>3 DEF Call, SendInv, TypeOK, filling, sending, stat, linking
  <2>3. ASSUME NEW c \in Callers, Attempt(c) PROVE SendInv'
    <3> DEFINE n == call[c].len
               s == CASE call[c].kind = "record" -> addToPkg(Now, given + 1, n)
                      [] call[c].kind = "headed" -> SendHeaded(Now, given + 1, n)
                      [] call[c].kind = "direct" -> SendPacket(Now, n)
    <3>1. call[c] # NoCall /\ call[c] \in Calls \cup {NoCall} /\ given \in Nat
      BY <2>1, <2>3 DEF Attempt, TypeOK
    <3>2. call[c] \in Calls /\ n \in Nat /\ given + 1 \in Nat
      <4>1. call[c] \in Calls
        BY <3>1
      <4> QED
        BY <3>1, <4>1, CallType
    <3>3. call[c].kind \in {"record", "headed", "direct"}
      BY <3>2, CallType
    <3>4. Good(s, buf.file)
      BY <2>1, <3>2, <3>3, AddToPkgGood, SendHeadedGood, SendPacketGood
    <3>5. /\ buf' = s.buf /\ pack' = s.pack
          /\ given' = IF s.ok /\ s.left = 0 /\ call[c].kind # "direct" THEN given + 1 ELSE given
          /\ call' = [call EXCEPT ![c] =
                        IF s.left > 0 THEN CutInto(call[c], s.left)
                        ELSE IF s.ok \/ call[c].tries = 0 THEN NoCall
                        ELSE Again(call[c])]
          /\ UNCHANGED <<sending, stat, linking, made>>
      BY <2>3 DEF Attempt
    <3> HIDE DEF s, n
    <3>6. /\ buf' \in Buffers /\ BufferInv(buf') /\ buf'.file = buf.file
          /\ pack' \in Packs /\ s.left \in Nat
      BY <3>4, <3>5, GoodParts, BufferParts
    <3>7. call' \in [Callers -> Calls \cup {NoCall}]
      <4>1. s.left > 0 => CutInto(call[c], s.left) \in Calls
        BY <3>2, <3>6 DEF CutInto, Calls
      <4>2. call[c].tries # 0 => Again(call[c]) \in Calls
        BY <3>2 DEF Again, Calls
      <4> QED
        BY <2>1, <3>5, <4>1, <4>2 DEF TypeOK
    <3>8. given' \in Nat
      BY <2>1, <3>5 DEF TypeOK
    <3> QED
      BY <2>1, <3>5, <3>6, <3>7, <3>8 DEF SendInv, TypeOK, sending, stat, linking
  <2>4. ASSUME NEW c \in Callers, CutRound(c) PROVE SendInv'
    <3> DEFINE n == call[c].len
               left == call[c].left
               id == IF left = Pieces(n) THEN given + 1 ELSE given
               s == Cut(Now, id, n, left)
    <3>1. left > 0 /\ call[c] \in Calls \cup {NoCall} /\ given \in Nat /\ given + 1 \in Nat
      BY <2>1, <2>4 DEF CutRound, TypeOK
    <3>2. call[c] \in Calls /\ n \in Nat /\ left \in Nat \ {0} /\ id \in Nat
      <4>1. call[c] \in Calls
        BY <3>1 DEF NoCall
      <4>2. call[c].left \in Nat /\ call[c].len \in Nat
        BY <4>1, CallType
      <4> QED
        BY <3>1, <4>1, <4>2
    <3>3. Good(s, buf.file)
      BY <2>1, <3>2, CutGood
    <3>4. /\ buf' = s.buf /\ pack' = s.pack /\ given' = id
          /\ call' = [call EXCEPT ![c] = IF left = 1 THEN NoCall ELSE CutInto(call[c], left - 1)]
          /\ UNCHANGED <<sending, stat, linking, made>>
      BY <2>4 DEF CutRound
    <3> HIDE DEF s, id
    <3>5. buf' \in Buffers /\ BufferInv(buf') /\ buf'.file = buf.file /\ pack' \in Packs
      BY <3>3, <3>4, GoodParts, BufferParts
    <3>6. call' \in [Callers -> Calls \cup {NoCall}]
      <4>1. left - 1 \in Nat
        BY <3>2
      <4>2. CutInto(call[c], left - 1) \in Calls
        BY <3>2, <4>1 DEF CutInto, Calls
      <4> QED
        BY <2>1, <3>4, <4>2 DEF TypeOK
    <3> QED
      BY <2>1, <3>2, <3>4, <3>5, <3>6 DEF SendInv, TypeOK, sending, stat, linking
  <2>5. ASSUME NEW n \in Nat, NEW next \in {"join", "up"}, Insist(n, next) PROVE SendInv'
    <3>1. Good(SendPacket(Now, n), buf.file)
      BY <2>1, SendPacketGood
    <3>2. buf' \in Buffers /\ BufferInv(buf') /\ buf'.file = buf.file
      BY <2>5, <3>1, GoodParts, BufferParts DEF Insist
    <3> QED
      BY <2>1, <2>5, <3>2 DEF Insist, SendInv, TypeOK, sending, stat, asking
  <2>6. CASE Dial
    BY <2>1, <2>6 DEF Dial, SendInv, TypeOK, filling, sending, stat, asking
  <2>7. CASE doBind
    BY <2>5, <2>7, Sizes DEF doBind
  <2>8. CASE Join
    BY <2>1, <2>8 DEF Join, SendInv, TypeOK, filling, sending, asking
  <2>9. CASE LinkCheckDue
    BY <2>1, <2>9 DEF LinkCheckDue, SendInv, TypeOK, filling, sending, stat, asking
  <2>10. CASE CheckLink
    BY <2>5, <2>10 DEF CheckLink
  <2>11. CASE Notice
    BY <2>1, <2>11 DEF Notice, SendInv, TypeOK, filling, sending, asking
  <2>12. CASE Break
    BY <2>1, <2>12 DEF Break, SendInv, TypeOK, filling, sending, stat, asking
  <2>13. CASE ServerTimeout
    BY <2>1, <2>13 DEF ServerTimeout, SendInv, TypeOK, filling, sending, stat, asking
  <2>14. CASE NotConnected
    BY <2>1, <2>14 DEF NotConnected, SendInv, TypeOK, filling, stat, linking, asking
  <2>15. CASE SetAllBufInFile
    <3>1. buf' \in Buffers /\ BufferInv(buf') /\ buf'.file = buf.file
      BY <2>1, <2>15, AllInFileGood, BufferParts DEF SetAllBufInFile
    <3> QED
      BY <2>1, <2>15, <3>1 DEF SetAllBufInFile, SendInv, TypeOK, stat, linking, asking
  <2>16. CASE SeesConnection
    BY <2>1, <2>16 DEF SeesConnection, SendInv, TypeOK, filling, stat, linking, asking
  <2>17. CASE NextBlock
    <3> DEFINE free == FreeBuf(buf, out)
               s == addPkgToSendBuf([Now EXCEPT !.buf = free])
               next == GetOutBuf(free)
    <3>1. BufferInv(free) /\ free.file = buf.file /\ free \in Buffers
      BY <2>1, FreeBufGood, BufferParts
    <3>2. Good(s, buf.file)
      <4>1. Good([Now EXCEPT !.buf = free], buf.file)
        BY <2>1, <3>1 DEF Good, States
      <4> QED
        BY <4>1, AddPkgGood
    <3>3. /\ BufferInv(next.buf) /\ next.buf.file = buf.file /\ next.buf \in Buffers
          /\ next.out \in Blocks /\ BlockInv(buf.file, next.out)
      BY <3>1, GetOutBufGood, BufferParts
    <3>4. s.pack \in Packs /\ BufferInv(s.buf) /\ s.buf.file = buf.file /\ s.buf \in Buffers
      BY <3>2, GoodParts, BufferParts
    <3>5. /\ at' = 0 /\ UNCHANGED <<stat, linking, asking>>
          /\ \/ buf' = s.buf /\ pack' = s.pack /\ out' = NoBlock /\ writer' = "loop"
             \/ buf' = free /\ pack' = pack /\ out' = NoBlock /\ writer' = "loop"
             \/ /\ buf' = next.buf /\ out' = next.out /\ pack' = pack
                /\ writer' = IF next.out.len > 0 THEN "write" ELSE "loop"
      BY <2>17 DEF NextBlock
    <3> HIDE DEF free, s, next
    <3>6. buf' \in Buffers /\ BufferInv(buf') /\ buf'.file = buf.file /\ pack' \in Packs
      BY <2>1, <3>1, <3>3, <3>4, <3>5 DEF TypeOK
    <3>7. out' \in Blocks /\ BlockInv(buf.file, out')
      BY <2>1, <3>3, <3>5, NoBlockType, BufferParts
    <3>8. /\ writer' \in {"loop", "write"}
          /\ at' \in 0 .. Len(out'.packages)
          /\ writer' = "write" => at' < Len(out'.packages)
      <4>1. out'.packages \in Seq(Packages)
        BY <3>7 DEF Blocks
      <4>2. writer' = "write" => out'.packages # <<>>
        BY <3>5, <3>7 DEF BlockInv
      <4> QED
        BY <3>5, <4>1, <4>2
    <3> QED
      BY <2>1, <3>5, <3>6, <3>7, <3>8 DEF SendInv, TypeOK, stat, linking, asking
  <2>18. CASE Write
    <3>1. at \in Nat /\ at < Len(out.packages) /\ Len(out.packages) \in Nat
      BY <2>1, <2>18 DEF Write, TypeOK, Blocks
    <3> QED
      BY <2>1, <2>18, <3>1 DEF Write, Onward, SendInv, TypeOK, filling, stat, linking, asking
  <2>19. CASE WriteFails
    BY <2>1, <2>19 DEF WriteFails, SendInv, TypeOK, filling, stat, linking, asking
  <2>20. CASE ConnClose
    <3>1. at \in Nat /\ at < Len(out.packages) /\ Len(out.packages) \in Nat
      BY <2>1, <2>20 DEF ConnClose, TypeOK, Blocks
    <3>2. isConn' \in BOOLEAN /\ everConn' \in BOOLEAN
      BY <2>1, <2>20 DEF ConnClose, TypeOK
    <3>3. /\ at' \in 0 .. Len(out'.packages) /\ writer' \in {"loop", "write"}
          /\ writer' = "write" => at' < Len(out'.packages)
      BY <2>20, <3>1 DEF ConnClose, Onward
    <3> QED
      BY <2>1, <2>20, <3>2, <3>3 DEF ConnClose, SendInv, TypeOK, filling, linking, asking
  <2>21. CASE UNCHANGED vars
    BY <2>1, <2>21 DEF vars, SendInv, TypeOK, filling, sending, stat, linking, asking
  <2> QED
    BY <2>2, <2>3, <2>4, <2>6, <2>7, <2>8, <2>9, <2>10, <2>11, <2>12, <2>13, <2>14, <2>15, <2>16,
       <2>17, <2>18, <2>19, <2>20, <2>21 DEF Next, Caller, Client, Sender
<1> QED
  BY <1>1, <1>2, PTL DEF Spec

------------------------------------------------------------------------------
\* Flattening a sequence of sequences. The library has no facts about it.

------------------------------------------------------------------------------
\* The packages of blocks, and the records of packages.

\* Sequences that are put one behind the other in another way: what SetIn()
\* and GetOutBuf() do with the packages of blocks.
LEMMA MovedToList ==
  ASSUME NEW S, NEW f \in Seq(S), NEW t \in Seq(S), NEW i \in Seq(S)
  PROVE  (f \o (t \o i)) \o <<>> = (f \o t) \o i
<1>1. f \o (t \o i) \in Seq(S)
  OBVIOUS
<1>2. (f \o t) \o i = f \o (t \o i)
  OBVIOUS
<1> QED
  BY <1>1, <1>2, ConcatEmptySeq

\* The first block is taken from what waits.
LEMMA TakenFirst ==
  ASSUME NEW S, NEW f \in Seq(S), NEW h \in Seq(S), NEW t \in Seq(S)
  PROVE  ((f \o h) \o t) = f \o (h \o t)
  OBVIOUS

\* The records of several packages.
LEMMA ItemsOfType ==
  ASSUME NEW p \in Seq(Packages)
  PROVE  ItemsOf(p) \in Seq(Items)
<1>1. \A i \in DOMAIN p : p[i].items \in Seq(Items)
  <2>1. \A x \in Packages : x.items \in Seq(Items)
    BY DEF Packages
  <2> QED
    BY <2>1
<1>2. [i \in DOMAIN p |-> p[i].items] \in Seq(Seq(Items))
  BY <1>1
<1> QED
  BY <1>2, FlattenType DEF ItemsOf

\* The records of packages that follow each other.
LEMMA ItemsOfConcat ==
  ASSUME NEW p \in Seq(Packages), NEW q \in Seq(Packages)
  PROVE  ItemsOf(p \o q) = ItemsOf(p) \o ItemsOf(q)
<1> DEFINE I(s) == [i \in DOMAIN s |-> s[i].items]
<1>1. \A s \in Seq(Packages) : I(s) \in Seq(Seq(Items)) /\ Len(I(s)) = Len(s) /\ \A i \in 1 .. Len(s) : I(s)[i] = s[i].items
  <2> TAKE s \in Seq(Packages)
  <2>1. \A i \in DOMAIN s : s[i].items \in Seq(Items)
    <3>1. \A x \in Packages : x.items \in Seq(Items)
      BY DEF Packages
    <3> QED
      BY <3>1
  <2>2. I(s) = [i \in 1 .. Len(s) |-> s[i].items] /\ Len(s) \in Nat
    OBVIOUS
  <2> HIDE DEF I
  <2> QED
    BY <2>1, <2>2, AsSequence
<1>2. I(p \o q) = I(p) \o I(q)
  <2> HIDE DEF I
  <2>1. p \o q \in Seq(Packages) /\ Len(p \o q) = Len(p) + Len(q)
    OBVIOUS
  <2>2. /\ I(p) \in Seq(Seq(Items)) /\ Len(I(p)) = Len(p) /\ \A i \in 1 .. Len(p) : I(p)[i] = p[i].items
        /\ I(q) \in Seq(Seq(Items)) /\ Len(I(q)) = Len(q) /\ \A i \in 1 .. Len(q) : I(q)[i] = q[i].items
        /\ I(p \o q) \in Seq(Seq(Items)) /\ Len(I(p \o q)) = Len(p \o q)
        /\ \A i \in 1 .. Len(p \o q) : I(p \o q)[i] = (p \o q)[i].items
    BY <1>1, <2>1
  <2>3. ASSUME NEW i \in 1 .. Len(I(p \o q))
        PROVE  I(p \o q)[i] = IF i <= Len(I(p)) THEN I(p)[i] ELSE I(q)[i - Len(I(p))]
    <3>1. i \in 1 .. Len(p) + Len(q) /\ Len(p) \in Nat /\ Len(q) \in Nat
      BY <2>1, <2>2
    <3>2. (p \o q)[i] = IF i <= Len(p) THEN p[i] ELSE q[i - Len(p)]
      BY <3>1, ConcatProperties
    <3>3. IF i <= Len(p) THEN i \in 1 .. Len(p) ELSE i - Len(p) \in 1 .. Len(q)
      BY <3>1
    <3> QED
      BY <2>1, <2>2, <3>1, <3>2, <3>3
  <2>4. Len(I(p \o q)) = Len(I(p)) + Len(I(q))
    BY <2>1, <2>2
  <2> QED
    BY <2>2, <2>3, <2>4, AsConcat
<1>3. I(p) \in Seq(Seq(Items)) /\ I(q) \in Seq(Seq(Items))
  BY <1>1
<1>4. FlattenSeq(I(p) \o I(q)) = FlattenSeq(I(p)) \o FlattenSeq(I(q))
  BY <1>3, FlattenConcat
<1> QED
  BY <1>2, <1>4 DEF I, ItemsOf

\* The records of one package, and of none.
LEMMA ItemsOfOne ==
  ASSUME NEW p \in Packages
  PROVE  ItemsOf(<<p>>) = p.items /\ ItemsOf(<<>>) = <<>>
<1>1. p.items \in Seq(Items) /\ <<>> \in Seq(Seq(Items))
  BY DEF Packages
<1>2. /\ [i \in DOMAIN <<p>> |-> <<p>>[i].items] = Append(<<>>, p.items)
      /\ [i \in DOMAIN <<>> |-> <<>>[i].items] = <<>>
  OBVIOUS
<1>3. FlattenSeq(Append(<<>>, p.items)) = FlattenSeq(<<>>) \o p.items
  BY <1>1, FlattenAppend
<1>4. <<>> \o p.items = p.items
  BY <1>1
<1> QED
  BY <1>2, <1>3, <1>4, FlattenEmpty DEF ItemsOf

\* The packages of a list of blocks.
PackagesOf(blocks) == FlattenSeq([i \in DOMAIN blocks |-> blocks[i].packages])

\* They are packages.
LEMMA PackagesOfType ==
  ASSUME NEW p \in Seq(Blocks)
  PROVE  PackagesOf(p) \in Seq(Packages)
<1>1. \A i \in DOMAIN p : p[i].packages \in Seq(Packages)
  <2>1. \A x \in Blocks : x.packages \in Seq(Packages)
    BY DEF Blocks
  <2> QED
    BY <2>1
<1>2. [i \in DOMAIN p |-> p[i].packages] \in Seq(Seq(Packages))
  BY <1>1
<1> QED
  BY <1>2, FlattenType DEF PackagesOf

\* The packages of two lists of blocks.
LEMMA PackagesOfConcat ==
  ASSUME NEW p \in Seq(Blocks), NEW q \in Seq(Blocks)
  PROVE  PackagesOf(p \o q) = PackagesOf(p) \o PackagesOf(q)
<1> DEFINE I(s) == [i \in DOMAIN s |-> s[i].packages]
<1>1. \A s \in Seq(Blocks) : I(s) \in Seq(Seq(Packages)) /\ Len(I(s)) = Len(s) /\ \A i \in 1 .. Len(s) : I(s)[i] = s[i].packages
  <2> TAKE s \in Seq(Blocks)
  <2>1. \A i \in DOMAIN s : s[i].packages \in Seq(Packages)
    <3>1. \A x \in Blocks : x.packages \in Seq(Packages)
      BY DEF Blocks
    <3> QED
      BY <3>1
  <2>2. I(s) = [i \in 1 .. Len(s) |-> s[i].packages] /\ Len(s) \in Nat
    OBVIOUS
  <2> HIDE DEF I
  <2> QED
    BY <2>1, <2>2, AsSequence
<1>2. I(p \o q) = I(p) \o I(q)
  <2> HIDE DEF I
  <2>1. p \o q \in Seq(Blocks) /\ Len(p \o q) = Len(p) + Len(q)
    OBVIOUS
  <2>2. /\ I(p) \in Seq(Seq(Packages)) /\ Len(I(p)) = Len(p) /\ \A i \in 1 .. Len(p) : I(p)[i] = p[i].packages
        /\ I(q) \in Seq(Seq(Packages)) /\ Len(I(q)) = Len(q) /\ \A i \in 1 .. Len(q) : I(q)[i] = q[i].packages
        /\ I(p \o q) \in Seq(Seq(Packages)) /\ Len(I(p \o q)) = Len(p \o q)
        /\ \A i \in 1 .. Len(p \o q) : I(p \o q)[i] = (p \o q)[i].packages
    BY <1>1, <2>1
  <2>3. ASSUME NEW i \in 1 .. Len(I(p \o q))
        PROVE  I(p \o q)[i] = IF i <= Len(I(p)) THEN I(p)[i] ELSE I(q)[i - Len(I(p))]
    <3>1. i \in 1 .. Len(p) + Len(q) /\ Len(p) \in Nat /\ Len(q) \in Nat
      BY <2>1, <2>2
    <3>2. (p \o q)[i] = IF i <= Len(p) THEN p[i] ELSE q[i - Len(p)]
      BY <3>1, ConcatProperties
    <3>3. IF i <= Len(p) THEN i \in 1 .. Len(p) ELSE i - Len(p) \in 1 .. Len(q)
      BY <3>1
    <3> QED
      BY <2>1, <2>2, <3>1, <3>2, <3>3
  <2>4. Len(I(p \o q)) = Len(I(p)) + Len(I(q))
    BY <2>1, <2>2
  <2> QED
    BY <2>2, <2>3, <2>4, AsConcat
<1>3. I(p) \in Seq(Seq(Packages)) /\ I(q) \in Seq(Seq(Packages))
  BY <1>1
<1>4. FlattenSeq(I(p) \o I(q)) = FlattenSeq(I(p)) \o FlattenSeq(I(q))
  BY <1>3, FlattenConcat
<1> QED
  BY <1>2, <1>4 DEF I, PackagesOf

\* The packages of one block, and of none.
LEMMA PackagesOfOne ==
  ASSUME NEW p \in Blocks
  PROVE  PackagesOf(<<p>>) = p.packages /\ PackagesOf(<<>>) = <<>>
<1>1. p.packages \in Seq(Packages) /\ <<>> \in Seq(Seq(Packages))
  BY DEF Blocks
<1>2. /\ [i \in DOMAIN <<p>> |-> <<p>>[i].packages] = Append(<<>>, p.packages)
      /\ [i \in DOMAIN <<>> |-> <<>>[i].packages] = <<>>
  OBVIOUS
<1>3. FlattenSeq(Append(<<>>, p.packages)) = FlattenSeq(<<>>) \o p.packages
  BY <1>1, FlattenAppend
<1>4. <<>> \o p.packages = p.packages
  BY <1>1
<1> QED
  BY <1>2, <1>3, <1>4, FlattenEmpty DEF PackagesOf

\* The packages of a list to which a block is added (SetIn).
LEMMA PackagesOfLonger ==
  ASSUME NEW q \in Seq(Blocks), NEW x \in Blocks
  PROVE  PackagesOf(Append(q, x)) = PackagesOf(q) \o x.packages
<1>1. Append(q, x) = q \o <<x>> /\ <<x>> \in Seq(Blocks)
  OBVIOUS
<1> QED
  BY <1>1, PackagesOfConcat, PackagesOfOne

\* The packages of the first block of a list, and of the others (GetOutBuf).
LEMMA PackagesOfHead ==
  ASSUME NEW q \in Seq(Blocks), q # <<>>
  PROVE  PackagesOf(q) = Head(q).packages \o PackagesOf(Tail(q))
<1>1. /\ Head(q) \in Blocks /\ <<Head(q)>> \in Seq(Blocks) /\ Tail(q) \in Seq(Blocks)
      /\ q = <<Head(q)>> \o Tail(q)
  OBVIOUS
<1>2. PackagesOf(<<Head(q)>> \o Tail(q)) = PackagesOf(<<Head(q)>>) \o PackagesOf(Tail(q))
  BY <1>1, PackagesOfConcat
<1> QED
  BY <1>1, <1>2, PackagesOfOne

\* What lists of blocks and one more block hold.
InLine(files, busy, packages) == (PackagesOf(files) \o PackagesOf(busy)) \o packages

\* What waits in a buffer, list by list.
LEMMA WaitingIs ==
  ASSUME NEW b, BufferInv(b)
  PROVE  /\ Waiting(b) = InLine(b.files, b.busy, b.inb.packages)
         /\ Waiting(b) \in Seq(Packages)
         /\ PackagesOf(b.files) \in Seq(Packages) /\ PackagesOf(b.busy) \in Seq(Packages)
         /\ b.inb.packages \in Seq(Packages)
<1>1. b.files \in Seq(Blocks) /\ b.busy \in Seq(Blocks) /\ b.inb \in Blocks
  BY BufferParts
<1>2. b.inb.packages \in Seq(Packages)
  BY <1>1 DEF Blocks
<1>3. PackagesOf(b.files) \in Seq(Packages) /\ PackagesOf(b.busy) \in Seq(Packages)
  BY <1>1, PackagesOfType
<1>4. Waiting(b) = PackagesOf(b.files \o b.busy) \o b.inb.packages
  BY Zenon DEF Waiting, PackagesOf
<1>5. Waiting(b) = InLine(b.files, b.busy, b.inb.packages)
  BY <1>1, <1>4, PackagesOfConcat DEF InLine
<1>6. InLine(b.files, b.busy, b.inb.packages) \in Seq(Packages)
  BY <1>2, <1>3 DEF InLine
<1> QED
  BY <1>2, <1>3, <1>5, <1>6

------------------------------------------------------------------------------
\* What each operation of NetIOBuf does to what waits: nothing, or it takes the
\* first block or adds one package at the end.

\* What waits depends on the packages of the lists and of the block only.
LEMMA SameWaiting ==
  ASSUME NEW b, BufferInv(b), NEW d, BufferInv(d),
         d.files = b.files, d.busy = b.busy, d.inb.packages = b.inb.packages
  PROVE  Waiting(d) = Waiting(b)
  BY WaitingIs

\* GetInBuf() provides an empty block.
LEMMA GetInBufWaiting ==
  ASSUME NEW b, BufferInv(b)
  PROVE  Waiting(GetInBuf(b)) = Waiting(b)
<1>1. GetInBuf(b).files = b.files /\ GetInBuf(b).busy = b.busy
  BY BufferParts DEF GetInBuf, Buffers
<1>2. GetInBuf(b).inb.packages = b.inb.packages
  BY BufferParts DEF GetInBuf, Buffers, NewBlock, Block, NoBlock
<1> QED
  BY <1>1, <1>2, GetInBufGood, SameWaiting

\* SetIn() moves blocks, and keeps their order.
LEMMA SetInWaiting ==
  ASSUME NEW b, BufferInv(b)
  PROVE  Waiting(SetIn(b)) = Waiting(b)
<1> DEFINE F == PackagesOf(b.files)
           B == PackagesOf(b.busy)
           I == b.inb.packages
<1>1. /\ F \in Seq(Packages) /\ B \in Seq(Packages) /\ I \in Seq(Packages)
      /\ Waiting(b) = (F \o B) \o I
      /\ b.files \in Seq(Blocks) /\ b.busy \in Seq(Blocks) /\ b.inb \in Blocks
  BY WaitingIs, BufferParts DEF InLine
<1>2. BufferInv(SetIn(b))
  BY SetInGood
<1> HIDE DEF F, B, I
<1>3. CASE Len(b.busy) < MaxCount
  <2>1. /\ SetIn(b).files = b.files /\ SetIn(b).busy = Append(b.busy, b.inb)
        /\ SetIn(b).inb.packages = <<>>
    BY <1>3, BufferParts DEF SetIn, Buffers, NoBlock
  <2>2. PackagesOf(Append(b.busy, b.inb)) = B \o I
    BY <1>1, PackagesOfLonger DEF B, I
  <2>3. Waiting(SetIn(b)) = (F \o (B \o I)) \o <<>>
    BY <1>2, <2>1, <2>2, WaitingIs DEF InLine, F
  <2> QED
    BY <1>1, <2>3, MovedToList
<1>4. CASE ~(Len(b.busy) < MaxCount) /\ b.file
  <2> DEFINE H == Head(b.busy).packages
             T == PackagesOf(Tail(b.busy))
  <2>1. b.busy # <<>>
    BY <1>1, <1>4, SendBufferAssumption
  <2>2. Head(b.busy) \in Blocks /\ Tail(b.busy) \in Seq(Blocks)
    BY <1>1, <2>1
  <2>3. H \in Seq(Packages) /\ T \in Seq(Packages)
    BY <2>2, PackagesOfType DEF Blocks
  <2>4. /\ SetIn(b).files = Append(b.files, Head(b.busy))
        /\ SetIn(b).busy = Append(Tail(b.busy), b.inb)
        /\ SetIn(b).inb.packages = <<>>
    BY <1>4, BufferParts DEF SetIn, Buffers, NoBlock
  <2>5. B = H \o T
    BY <1>1, <2>1, PackagesOfHead DEF B
  <2>6. PackagesOf(Append(b.files, Head(b.busy))) = F \o H
    BY <1>1, <2>2, PackagesOfLonger DEF F
  <2>7. PackagesOf(Append(Tail(b.busy), b.inb)) = T \o I
    BY <1>1, <2>2, PackagesOfLonger DEF I
  <2> HIDE DEF H, T
  <2>8. Waiting(SetIn(b)) = ((F \o H) \o (T \o I)) \o <<>>
    BY <1>2, <2>4, <2>6, <2>7, WaitingIs DEF InLine
  <2>9. F \in Seq(Packages) /\ H \in Seq(Packages) /\ T \in Seq(Packages) /\ I \in Seq(Packages)
    BY <1>1, <2>3
  <2>10. F \o H \in Seq(Packages) /\ (F \o H) \o T = F \o (H \o T)
    BY <2>9, TakenFirst
  <2>11. ((F \o H) \o (T \o I)) \o <<>> = ((F \o H) \o T) \o I
    BY <2>9, <2>10, MovedToList
  <2> QED
    BY <1>1, <2>5, <2>8, <2>10, <2>11
<1>5. CASE ~(Len(b.busy) < MaxCount) /\ ~b.file
  BY <1>5 DEF SetIn
<1> QED
  BY <1>3, <1>4, <1>5

\* Expand() replaces a block only after it has been put with those that wait.
LEMMA ExpandWaiting ==
  ASSUME NEW b, BufferInv(b), NEW need \in Nat, need > b.inb.size
  PROVE  Waiting(Expand(b, need).buf) = Waiting(b)
<1> DEFINE limit == IF b.file THEN MaxFile ELSE MaxMem
           grown == [b EXCEPT !.inb = Resized(@, b.file, need)]
           next == GetInBuf(SetIn(b))
           fresh == [next EXCEPT !.inb = Block(Grown(b.file, @.size, ProperSize))]
<1>1. Expand(b, need) =
        IF need <= limit THEN [ok |-> TRUE, buf |-> grown]
        ELSE IF SetIn(b) = b THEN [ok |-> FALSE, buf |-> b]
        ELSE [ok |-> TRUE, buf |-> fresh]
  BY DEF Expand
<1>2. BufferInv(Expand(b, need).buf)
  BY ExpandGood
<1>3. BufferInv(next) /\ Waiting(next) = Waiting(b)
  BY SetInGood, GetInBufGood, SetInWaiting, GetInBufWaiting
<1>4. /\ grown.files = b.files /\ grown.busy = b.busy
      /\ grown.inb.packages = b.inb.packages
  BY BufferParts DEF Buffers, Blocks, Resized
<1>5. SetIn(b) # b => next.inb.packages = <<>>
  <2>1. SetIn(b) # b => SetIn(b).inb = NoBlock
    BY SetInGood
  <2>2. BufferInv(SetIn(b))
    BY SetInGood
  <2>3. SetIn(b).inb = NoBlock => GetInBuf(SetIn(b)).inb.packages = <<>>
    BY <2>2, BufferParts DEF GetInBuf, Buffers, NewBlock, Block
  <2> QED
    BY <2>1, <2>3
<1> HIDE DEF next
<1>6. fresh.files = next.files /\ fresh.busy = next.busy /\ fresh.inb.packages = <<>>
  BY <1>3, BufferParts DEF Buffers, Block
<1> HIDE DEF limit, grown, fresh
<1>7. CASE need <= limit
  BY <1>1, <1>2, <1>4, <1>7, SameWaiting
<1>8. CASE ~(need <= limit) /\ SetIn(b) = b
  BY <1>1, <1>8
<1>9. CASE ~(need <= limit) /\ SetIn(b) # b
  <2>1. Expand(b, need).buf = fresh
    BY <1>1, <1>9
  <2> QED
    BY <1>2, <1>3, <1>5, <1>6, <1>9, <2>1, SameWaiting
<1> QED
  BY <1>7, <1>8, <1>9

\* GetCrntInBufAndTest() changes nothing of what waits.
LEMMA RoomWaiting ==
  ASSUME NEW b, BufferInv(b), NEW n \in Nat
  PROVE  Waiting(Room(b, n).buf) = Waiting(b)
<1> DEFINE c == GetInBuf(b)
           x == Expand(c, c.inb.len + n)
<1>1. BufferInv(c) /\ c.inb.len \in Nat /\ c.inb.size \in Nat /\ Waiting(c) = Waiting(b)
  BY GetInBufGood, GetInBufWaiting DEF BufferInv, Buffers, Blocks
<1>2. Room(b, n) = IF HasRoom(c, n) THEN [ok |-> TRUE, buf |-> c]
                   ELSE IF x.ok /\ HasRoom(x.buf, n) THEN x
                   ELSE [ok |-> FALSE, buf |-> x.buf]
  BY DEF Room
<1> HIDE DEF c
<1>3. ~HasRoom(c, n) => Waiting(x.buf) = Waiting(b)
  <2>1. c.inb.len + n \in Nat /\ (~HasRoom(c, n) => c.inb.len + n > c.inb.size)
    BY <1>1 DEF HasRoom
  <2> QED
    BY <1>1, <2>1, ExpandWaiting
<1> HIDE DEF x
<1>4. Room(b, n).buf = IF HasRoom(c, n) THEN c ELSE x.buf
  BY <1>2
<1> QED
  BY <1>1, <1>3, <1>4

\* A package that is put waits behind all others.
LEMMA PutWaiting ==
  ASSUME NEW b, BufferInv(b), NEW p \in Packages, HasRoom(b, PrefixSize + p.len)
  PROVE  Waiting(Put(b, p)) = Waiting(b) \o <<p>>
<1>1. BufferInv(Put(b, p))
  BY PutGood
<1>2. /\ Put(b, p).files = b.files /\ Put(b, p).busy = b.busy
      /\ Put(b, p).inb.packages = Append(b.inb.packages, p)
  BY BufferParts DEF Put, Filled, Buffers
<1> DEFINE F == PackagesOf(b.files)
           B == PackagesOf(b.busy)
           I == b.inb.packages
<1>3. /\ F \in Seq(Packages) /\ B \in Seq(Packages) /\ I \in Seq(Packages)
      /\ Waiting(b) = (F \o B) \o I
  BY WaitingIs DEF InLine
<1>4. Waiting(Put(b, p)) = (F \o B) \o Append(I, p)
  BY <1>1, <1>2, WaitingIs DEF InLine
<1> HIDE DEF F, B, I
<1>5. ASSUME NEW f \in Seq(Packages), NEW i \in Seq(Packages)
      PROVE  f \o Append(i, p) = (f \o i) \o <<p>>
  OBVIOUS
<1>6. F \o B \in Seq(Packages)
  BY <1>3
<1> QED
  BY <1>3, <1>4, <1>5, <1>6

\* FreeBuf() changes idle blocks only.
LEMMA FreeBufWaiting ==
  ASSUME NEW b, BufferInv(b), NEW block \in Blocks, BlockInv(b.file, block)
  PROVE  Waiting(FreeBuf(b, block)) = Waiting(b)
<1>1. /\ FreeBuf(b, block).files = b.files /\ FreeBuf(b, block).busy = b.busy
      /\ FreeBuf(b, block).inb = b.inb
  BY BufferParts DEF FreeBuf, Buffers
<1> QED
  BY <1>1, FreeBufGood, SameWaiting

\* SetAllBufInFile() puts the list behind the files.
LEMMA AllInFileWaiting ==
  ASSUME NEW b, BufferInv(b)
  PROVE  Waiting(AllInFile(b)) = Waiting(b)
<1>1. BufferInv(AllInFile(b))
  BY AllInFileGood
<1>2. CASE b.file
  <2>1. /\ AllInFile(b).files = b.files \o b.busy /\ AllInFile(b).busy = <<>>
        /\ AllInFile(b).inb = b.inb
    BY <1>2, BufferParts DEF AllInFile, Buffers
  <2>2. /\ PackagesOf(b.files \o b.busy) = PackagesOf(b.files) \o PackagesOf(b.busy)
        /\ PackagesOf(<<>>) = <<>>
    BY BufferParts, PackagesOfConcat, PackagesOfOne
  <2>3. PackagesOf(b.files) \o PackagesOf(b.busy) \in Seq(Packages)
    BY WaitingIs
  <2>4. (PackagesOf(b.files) \o PackagesOf(b.busy)) \o <<>> = PackagesOf(b.files) \o PackagesOf(b.busy)
    BY <2>3, ConcatEmptySeq
  <2> QED
    BY <1>1, <2>1, <2>2, <2>4, WaitingIs DEF InLine
<1>3. CASE ~b.file
  BY <1>3 DEF AllInFile
<1> QED
  BY <1>2, <1>3

\* GetOutBuf() takes what waits first.
LEMMA GetOutBufWaiting ==
  ASSUME NEW b, BufferInv(b)
  PROVE  Waiting(b) = GetOutBuf(b).out.packages \o Waiting(GetOutBuf(b).buf)
<1> DEFINE F == PackagesOf(b.files)
           B == PackagesOf(b.busy)
           I == b.inb.packages
           d == GetOutBuf(b).buf
           p == GetOutBuf(b).out.packages
<1>1. /\ b \in Buffers /\ b.files \in Seq(Blocks) /\ b.busy \in Seq(Blocks)
      /\ F \in Seq(Packages) /\ B \in Seq(Packages) /\ I \in Seq(Packages)
  BY WaitingIs, BufferParts
<1>2. p \in Seq(Packages)
  BY GetOutBufGood DEF Blocks
<1>3. Waiting(b) = (F \o B) \o I
  BY WaitingIs DEF InLine
<1>4. Waiting(d) = (PackagesOf(d.files) \o PackagesOf(d.busy)) \o d.inb.packages
  BY GetOutBufGood, WaitingIs DEF InLine
<1> HIDE DEF F, B, I
<1>5. CASE b.files # <<>>
  <2> DEFINE T == PackagesOf(Tail(b.files))
  <2>1. /\ GetOutBuf(b).out = Head(b.files)
        /\ GetOutBuf(b).buf = [b EXCEPT !.files = Tail(@)]
    BY <1>5 DEF GetOutBuf
  <2>2. /\ p = Head(b.files).packages
        /\ d.files = Tail(b.files) /\ d.busy = b.busy /\ d.inb = b.inb
    BY <1>1, <2>1 DEF Buffers
  <2>3. F = p \o T
    BY <1>1, <1>5, <2>2, PackagesOfHead DEF F
  <2>4. T \in Seq(Packages)
    <3>1. Tail(b.files) \in Seq(Blocks)
      BY <1>1, <1>5
    <3> QED
      BY <3>1, PackagesOfType
  <2> HIDE DEF d, p
  <2>5. Waiting(d) = (T \o B) \o I
    BY <1>4, <2>2 DEF B, I
  <2> HIDE DEF T
  <2>6. ((p \o T) \o B) \o I = p \o ((T \o B) \o I)
    <3>1. p \in Seq(Packages) /\ T \in Seq(Packages) /\ B \in Seq(Packages) /\ I \in Seq(Packages)
      BY <1>1, <1>2, <2>4
    <3>2. (p \o T) \o B = p \o (T \o B)
      BY <3>1, TakenFirst
    <3>3. T \o B \in Seq(Packages)
      BY <3>1
    <3>4. \A q \in Seq(Packages) : (p \o q) \o I = p \o (q \o I)
      BY <3>1, TakenFirst, SMTT(60)
    <3> QED
      BY <3>2, <3>3, <3>4
  <2> QED
    BY <1>3, <2>3, <2>5, <2>6 DEF d, p
<1>6. CASE b.files = <<>> /\ b.busy # <<>>
  <2> DEFINE T == PackagesOf(Tail(b.busy))
  <2>1. /\ GetOutBuf(b).out = Head(b.busy)
        /\ GetOutBuf(b).buf = [b EXCEPT !.busy = Tail(@)]
    BY <1>6 DEF GetOutBuf
  <2>2. /\ p = Head(b.busy).packages
        /\ d.files = b.files /\ d.busy = Tail(b.busy) /\ d.inb = b.inb
    BY <1>1, <2>1 DEF Buffers
  <2>3. B = p \o T
    BY <1>1, <1>6, <2>2, PackagesOfHead DEF B
  <2>4. T \in Seq(Packages)
    <3>1. Tail(b.busy) \in Seq(Blocks)
      BY <1>1, <1>6
    <3> QED
      BY <3>1, PackagesOfType
  <2>5. F = <<>>
    BY <1>6, FlattenEmpty DEF F, PackagesOf
  <2> HIDE DEF d, p
  <2>6. Waiting(d) = (F \o T) \o I
    BY <1>4, <2>2 DEF F, I
  <2> HIDE DEF T
  <2>7. p \o T \in Seq(Packages)
    BY <1>2, <2>4
  <2>8. <<>> \o (p \o T) = p \o T /\ <<>> \o T = T
    BY <2>4, <2>7, ConcatEmptySeq
  <2>9. (p \o T) \o I = p \o (T \o I)
    BY <1>1, <1>2, <2>4, TakenFirst, SMTT(60)
  <2> QED
    BY <1>3, <2>3, <2>5, <2>6, <2>8, <2>9 DEF d, p
<1>7. CASE b.files = <<>> /\ b.busy = <<>>
  <2>1. GetOutBuf(b).out = b.inb /\ GetOutBuf(b).buf = [b EXCEPT !.inb = NoBlock]
    BY <1>7 DEF GetOutBuf
  <2>2. p = I /\ d.files = b.files /\ d.busy = b.busy /\ d.inb.packages = <<>>
    BY <1>1, <2>1 DEF Buffers, NoBlock, I
  <2>3. F = <<>> /\ B = <<>>
    BY <1>7, FlattenEmpty DEF F, B, PackagesOf
  <2> HIDE DEF d, p
  <2>4. Waiting(d) = (<<>> \o <<>>) \o <<>>
    BY <1>4, <2>2, <2>3 DEF F, B
  <2>5. <<>> \o <<>> = <<>>
    OBVIOUS
  <2>6. <<>> \o I = I /\ I \o <<>> = I
    BY <1>1, ConcatEmptySeq
  <2> QED
    BY <1>3, <2>2, <2>3, <2>4, <2>5, <2>6 DEF d, p
<1> QED
  BY <1>5, <1>6, <1>7

------------------------------------------------------------------------------
\* What each operation of the send thread does to the records that are held.

\* What the last package of a record of n bytes takes in a block, and what is
\* still needed with left rounds of addSuperLenPkgToSendBuf() to go.
LastSize(n) == PrefixSize + HeaderSize + RecordHeaderSize + (n % Chunk)
Needed(n, left) ==
  IF left > 2 THEN (left - 2) * (PrefixSize + PkgSize) + LastSize(n)
  ELSE IF left = 2 THEN LastSize(n) ELSE 0
\* addSuperLenPkgToSendBuf() asks for room for packages * m_pkgsize bytes and
\* leaves out the length in front of each package.  What it does not need of the
\* last package makes up for that in records that are not too long: up to 4097
\* packages with the default m_pkgsize of 8 KB.
RoomForPrefixes == \A n \in Lengths : (Pieces(n) - 1) * PrefixSize <= PkgSize

\* The records in the buffer and in the package that is filled.
Held(b, package) == ItemsOf(Waiting(b)) \o package.items
\* A package is longer than its header if there are records in it.
Packed(package) == package.len >= HeaderSize /\ (package.items # <<>> => package.len > HeaderSize)

\* They are records.
LEMMA HeldType ==
  ASSUME NEW b, BufferInv(b), NEW package \in Packs
  PROVE  /\ Held(b, package) \in Seq(Items)
         /\ ItemsOf(Waiting(b)) \in Seq(Items) /\ package.items \in Seq(Items)
<1>1. ItemsOf(Waiting(b)) \in Seq(Items)
  BY WaitingIs, ItemsOfType
<1>2. package.items \in Seq(Items)
  BY DEF Packs
<1> QED
  BY <1>1, <1>2 DEF Held

\* A package that is put into the buffer brings its records, as the last ones.
LEMMA PutHeld ==
  ASSUME NEW b, BufferInv(b), NEW p \in Packages, HasRoom(b, PrefixSize + p.len)
  PROVE  ItemsOf(Waiting(Put(b, p))) = ItemsOf(Waiting(b)) \o p.items
<1>1. Waiting(Put(b, p)) = Waiting(b) \o <<p>>
  BY PutWaiting
<1>2. Waiting(b) \in Seq(Packages) /\ <<p>> \in Seq(Packages)
  BY WaitingIs
<1>3. ItemsOf(Waiting(b) \o <<p>>) = ItemsOf(Waiting(b)) \o ItemsOf(<<p>>)
  BY <1>2, ItemsOfConcat
<1> QED
  BY <1>1, <1>3, ItemsOfOne

\* addPkgToSendBuf() takes no record away and adds none; if it says yes the
\* package is empty again.
LEMMA AddPkgHeld ==
  ASSUME NEW s, NEW file, Good(s, file), Packed(s.pack)
  PROVE  LET t == addPkgToSendBuf(s)
         IN  /\ Held(t.buf, t.pack) = Held(s.buf, s.pack)
             /\ Packed(t.pack) /\ t.left = s.left
             /\ t.ok => t.pack.len = HeaderSize
<1> DEFINE n == s.pack.len + PrefixSize
           r == Room(s.buf, n)
           p == [kind |-> "records", len |-> s.pack.len, seg |-> s.pack.seg, items |-> s.pack.items]
           t == addPkgToSendBuf(s)
<1>1. /\ BufferInv(s.buf) /\ s.pack \in Packs /\ s \in States
      /\ s.pack.len \in Nat /\ s.pack.items \in Seq(Items) /\ HeaderSize \in Nat
      /\ n \in Nat /\ p \in Packages /\ EmptyPack(s.pack.seg) \in Packs
  BY GoodParts, Sizes DEF Packages, Packs, EmptyPack, Good
<1>2. /\ BufferInv(r.buf) /\ Waiting(r.buf) = Waiting(s.buf)
      /\ r.ok => HasRoom(r.buf, n)
  BY <1>1, RoomGood, RoomWaiting
<1>3. t = IF s.pack.len <= HeaderSize THEN [s EXCEPT !.ok = TRUE]
          ELSE IF ~r.ok THEN [s EXCEPT !.ok = FALSE, !.buf = r.buf]
          ELSE [s EXCEPT !.ok = TRUE, !.buf = Put(r.buf, p), !.pack = EmptyPack(s.pack.seg)]
  BY DEF addPkgToSendBuf
<1>4. r.ok => ItemsOf(Waiting(Put(r.buf, p))) = ItemsOf(Waiting(s.buf)) \o s.pack.items
  <2>1. p.len = s.pack.len /\ p.items = s.pack.items
    OBVIOUS
  <2> HIDE DEF p, r
  <2>2. PrefixSize + p.len = n
    BY <1>1, <2>1, Sizes
  <2> HIDE DEF n
  <2> QED
    BY <1>1, <1>2, <2>1, <2>2, PutHeld
<1> HIDE DEF n, p, r, t
<1>5. CASE s.pack.len <= HeaderSize
  <2>1. t.buf = s.buf /\ t.pack = s.pack /\ t.left = s.left
    BY <1>1, <1>3, <1>5 DEF States
  <2>2. s.pack.len = HeaderSize
    BY <1>1, <1>5 DEF Packed
  <2> QED
    BY <2>1, <2>2 DEF t
<1>6. CASE ~(s.pack.len <= HeaderSize) /\ ~r.ok
  <2>1. t.buf = r.buf /\ t.pack = s.pack /\ t.left = s.left /\ t.ok = FALSE
    BY <1>1, <1>3, <1>6 DEF States
  <2> QED
    BY <1>2, <2>1 DEF t, Held
<1>7. CASE ~(s.pack.len <= HeaderSize) /\ r.ok
  <2>1. t.buf = Put(r.buf, p) /\ t.pack = EmptyPack(s.pack.seg) /\ t.left = s.left
    BY <1>1, <1>3, <1>7 DEF States
  <2>2. t.pack.len = HeaderSize /\ t.pack.items = <<>>
    BY <2>1 DEF EmptyPack
  <2>3. Held(s.buf, s.pack) \in Seq(Items)
    BY <1>1, HeldType
  <2>4. Held(t.buf, t.pack) = Held(s.buf, s.pack)
    BY <1>4, <1>7, <2>1, <2>2, <2>3, ConcatEmptySeq DEF Held
  <2>5. Packed(t.pack)
    BY <1>1, <2>2 DEF Packed
  <2> QED
    BY <2>1, <2>2, <2>4, <2>5 DEF t
<1> QED
  BY <1>5, <1>6, <1>7

\* A record that fits is the last one.
LEMMA AddHeld ==
  ASSUME NEW s, NEW file, Good(s, file), Packed(s.pack), NEW id \in Nat, NEW n \in Nat \ {0}
  PROVE  LET t == Add(s, id, n)
         IN  /\ Held(t.buf, t.pack) = Append(Held(s.buf, s.pack), Piece(id, n, 0, n))
             /\ Packed(t.pack) /\ t.left = s.left /\ t.ok = TRUE
<1> DEFINE x == Piece(id, n, 0, n)
           t == Add(s, id, n)
<1>1. /\ BufferInv(s.buf) /\ s.pack \in Packs /\ s \in States
      /\ s.pack.len \in Nat /\ s.pack.items \in Seq(Items) /\ HeaderSize \in Nat
      /\ ItemsOf(Waiting(s.buf)) \in Seq(Items)
  BY GoodParts, Sizes, HeldType DEF Good
<1>2. x \in Items
  BY PieceType, 0 \in Int, n \in Int
<1> HIDE DEF x
<1>3. /\ t.buf = s.buf /\ t.left = s.left /\ t.ok = TRUE
      /\ t.pack.items = Append(s.pack.items, x)
      /\ t.pack.len = s.pack.len + RecordHeaderSize + n
  BY <1>1 DEF Add, Longer, States, x
<1> HIDE DEF t
<1>4. t.pack.len > HeaderSize
  <2>1. s.pack.len >= HeaderSize
    BY DEF Packed
  <2> QED
    BY <1>1, <1>3, <2>1, Sizes
<1>5. ItemsOf(Waiting(s.buf)) \o Append(s.pack.items, x) = Append(ItemsOf(Waiting(s.buf)) \o s.pack.items, x)
  <2>1. \A a, b \in Seq(Items) : a \o Append(b, x) = Append(a \o b, x)
    BY <1>2, AppendToConcat
  <2> QED
    BY <1>1, <2>1
<1>6. Packed(t.pack)
  <2>1. t.pack.len >= HeaderSize
    BY <1>1, <1>3, <1>4, Sizes
  <2> QED
    BY <1>4, <2>1 DEF Packed
<1> QED
  BY <1>3, <1>5, <1>6 DEF Held, t, x

\* SendPacket() goes past the records.
LEMMA SendPacketHeld ==
  ASSUME NEW s, NEW file, Good(s, file), NEW n \in Nat
  PROVE  LET t == SendPacket(s, n)
         IN  /\ Held(t.buf, t.pack) = Held(s.buf, s.pack)
             /\ t.pack = s.pack /\ t.left = s.left
<1> DEFINE p == Command(n)
           r == Room(s.buf, PrefixSize + p.len)
           t == SendPacket(s, n)
<1>1. p \in Packages /\ p.len \in Nat /\ p.items = <<>>
  <2>1. <<>> \in Seq(Items)
    OBVIOUS
  <2> QED
    BY <2>1, Sizes DEF Command, Packages
<1> HIDE DEF p
<1>2. PrefixSize + p.len \in Nat
  BY <1>1, Sizes
<1>3. /\ BufferInv(s.buf) /\ s.pack \in Packs /\ s \in States
  BY GoodParts DEF Good
<1>4. /\ BufferInv(r.buf) /\ Waiting(r.buf) = Waiting(s.buf)
      /\ r.ok => HasRoom(r.buf, PrefixSize + p.len)
  BY <1>2, <1>3, RoomGood, RoomWaiting
<1>5. t = [s EXCEPT !.ok = r.ok, !.buf = IF r.ok THEN Put(r.buf, p) ELSE r.buf]
  BY DEF SendPacket, p
<1> HIDE DEF r, t
<1>6. t.buf = (IF r.ok THEN Put(r.buf, p) ELSE r.buf) /\ t.pack = s.pack /\ t.left = s.left
  BY <1>3, <1>5 DEF States
<1>7. ItemsOf(Waiting(s.buf)) \in Seq(Items)
  BY <1>3, HeldType
<1>8. r.ok => ItemsOf(Waiting(Put(r.buf, p))) = ItemsOf(Waiting(s.buf)) \o <<>>
  BY <1>1, <1>4, PutHeld
<1>9. ItemsOf(Waiting(t.buf)) = ItemsOf(Waiting(s.buf))
  BY <1>4, <1>6, <1>7, <1>8, ConcatEmptySeq
<1> QED
  BY <1>6, <1>9 DEF Held, t

\* addSuperLenPkgToSendBuf() before its loop touches no record, and has room if
\* it says yes.
LEMMA AddSuperLenHeld ==
  ASSUME NEW s, NEW file, Good(s, file), NEW n \in Nat
  PROVE  LET t == addSuperLenPkgToSendBuf(s, n)
         IN  /\ Held(t.buf, t.pack) = Held(s.buf, s.pack) /\ t.pack = s.pack
             /\ t.left = IF t.ok THEN Pieces(n) ELSE 0
             /\ t.ok => HasRoom(t.buf, Pieces(n) * PkgSize)
<1> DEFINE r == Room(s.buf, Pieces(n) * PkgSize)
           t == addSuperLenPkgToSendBuf(s, n)
<1>1. Pieces(n) * PkgSize \in Nat /\ Pieces(n) \in Nat
  BY Sizes, PiecesType
<1>2. BufferInv(s.buf) /\ s \in States
  BY GoodParts DEF Good
<1>3. /\ r.ok => HasRoom(r.buf, Pieces(n) * PkgSize)
      /\ Waiting(r.buf) = Waiting(s.buf)
  BY <1>1, <1>2, RoomGood, RoomWaiting
<1>4. t = [s EXCEPT !.ok = r.ok, !.buf = r.buf, !.left = IF r.ok THEN Pieces(n) ELSE 0]
  BY DEF addSuperLenPkgToSendBuf
<1> HIDE DEF r, t
<1>5. t.ok = r.ok /\ t.buf = r.buf /\ t.pack = s.pack /\ t.left = IF r.ok THEN Pieces(n) ELSE 0
  BY <1>2, <1>4 DEF States
<1> QED
  BY <1>3, <1>5 DEF Held, t

\* A record has a piece at least, and a rest that is smaller than a chunk.
LEMMA PiecesCount ==
  ASSUME NEW n \in Nat \ {0}
  PROVE  Pieces(n) >= 1 /\ n % Chunk \in 0 .. Chunk - 1
<1>1. Chunk \in Nat \ {0}
  BY Sizes
<1>2. \A a \in Nat, d \in Nat \ {0} : a >= d => a \div d >= 1
  OBVIOUS
<1>3. n + Chunk - 1 \in Nat /\ n + Chunk - 1 >= Chunk
  BY <1>1
<1>4. Pieces(n) >= 1
  BY <1>1, <1>2, <1>3 DEF Pieces
<1>5. n % Chunk \in 0 .. Chunk - 1
  BY <1>1
<1> QED
  BY <1>4, <1>5

\* The room that was asked for is what the loop needs.
LEMMA RoomIsEnough ==
  ASSUME NEW n \in Nat \ {0}, (Pieces(n) - 1) * PrefixSize <= PkgSize
  PROVE  /\ Needed(n, Pieces(n)) \in Nat
         /\ Needed(n, Pieces(n)) <= Pieces(n) * PkgSize
<1>1. /\ Pieces(n) \in Nat /\ Pieces(n) >= 1
      /\ PkgSize \in Nat /\ PrefixSize \in Nat /\ HeaderSize \in Nat /\ RecordHeaderSize \in Nat
  BY PiecesCount, PiecesType, Sizes
<1>2. LastSize(n) \in Nat /\ LastSize(n) < PrefixSize + PkgSize
  BY <1>1, PiecesCount, Sizes DEF LastSize, Chunk
<1> DEFINE P == Pieces(n)
           L == LastSize(n)
<1> HIDE DEF P, L
<1>3. ASSUME NEW p \in Nat, NEW k \in Nat, NEW x \in Nat, NEW l \in Nat,
             p > 2, (p - 1) * x <= k, l < x + k
      PROVE  (p - 2) * (x + k) + l <= p * k /\ (p - 2) * (x + k) + l \in Nat
  <2>1. (p - 2) * (x + k) = (p - 2) * x + (p - 2) * k
    OBVIOUS
  <2>2. (p - 1) * x = (p - 2) * x + x
    OBVIOUS
  <2>3. p * k = (p - 2) * k + 2 * k
    OBVIOUS
  <2>4. (p - 2) * (x + k) \in Nat
    <3>1. p - 2 \in Nat /\ x + k \in Nat
      BY <1>3
    <3>2. \A i, j \in Nat : i * j \in Nat
      OBVIOUS
    <3> QED
      BY <3>1, <3>2
  <2> QED
    BY <1>3, <2>1, <2>2, <2>3, <2>4
<1>4. CASE P > 2
  BY <1>1, <1>2, <1>3, <1>4 DEF Needed, P
<1>5. CASE P = 2
  BY <1>1, <1>2, <1>5 DEF Needed, P
<1>6. CASE P = 1
  BY <1>1, <1>2, <1>6 DEF Needed, P
<1> QED
  BY <1>1, <1>4, <1>5, <1>6 DEF P

\* addToPkg(): the record is the last one, or it is to be cut and there is room
\* for it, or nothing has changed and the caller is told so.
LEMMA AddToPkgHeld ==
  ASSUME NEW s, NEW file, Good(s, file), Packed(s.pack), s.left = 0,
         NEW id \in Nat, NEW n \in Nat \ {0}
  PROVE  LET t == addToPkg(s, id, n)
         IN  /\ Packed(t.pack)
             /\ \/ /\ t.ok /\ t.left = 0
                   /\ Held(t.buf, t.pack) = Append(Held(s.buf, s.pack), Piece(id, n, 0, n))
                \/ /\ t.left = Pieces(n) /\ t.pack.len = HeaderSize
                   /\ HasRoom(t.buf, Pieces(n) * PkgSize)
                   /\ Held(t.buf, t.pack) = Held(s.buf, s.pack)
                \/ ~t.ok /\ t.left = 0 /\ Held(t.buf, t.pack) = Held(s.buf, s.pack)
<1> DEFINE u == addPkgToSendBuf(s)
           a == Add(s, id, n)
           b == Add(u, id, n)
           c == addSuperLenPkgToSendBuf(u, n)
           t == addToPkg(s, id, n)
<1>1. t = IF Fits(s, n) THEN a ELSE IF ~u.ok THEN u ELSE IF Fits(u, n) THEN b ELSE c
  BY DEF addToPkg
<1>2. /\ Good(u, file) /\ Packed(u.pack) /\ u.left = 0
      /\ Held(u.buf, u.pack) = Held(s.buf, s.pack) /\ (u.ok => u.pack.len = HeaderSize)
  BY AddPkgGood, AddPkgHeld
<1> HIDE DEF u
<1>3. /\ Held(a.buf, a.pack) = Append(Held(s.buf, s.pack), Piece(id, n, 0, n))
      /\ Packed(a.pack) /\ a.left = 0 /\ a.ok = TRUE
  BY AddHeld
<1>4. /\ Held(b.buf, b.pack) = Append(Held(u.buf, u.pack), Piece(id, n, 0, n))
      /\ Packed(b.pack) /\ b.left = 0 /\ b.ok = TRUE
  BY <1>2, AddHeld
<1>5. /\ Held(c.buf, c.pack) = Held(u.buf, u.pack) /\ c.pack = u.pack
      /\ c.left = (IF c.ok THEN Pieces(n) ELSE 0)
      /\ c.ok => HasRoom(c.buf, Pieces(n) * PkgSize)
  BY <1>2, AddSuperLenHeld
<1> HIDE DEF a, b, c, t
<1>6. CASE Fits(s, n)
  BY <1>1, <1>3, <1>6 DEF t
<1>7. CASE ~Fits(s, n) /\ ~u.ok
  BY <1>1, <1>2, <1>7 DEF t
<1>8. CASE ~Fits(s, n) /\ u.ok /\ Fits(u, n)
  BY <1>1, <1>2, <1>4, <1>8 DEF t
<1>9. CASE ~Fits(s, n) /\ u.ok /\ ~Fits(u, n)
  BY <1>1, <1>2, <1>5, <1>9 DEF t
<1> QED
  BY <1>6, <1>7, <1>8, <1>9

\* SendData() with a head: the record is the last one, or nothing has changed
\* and the caller is told so.
LEMMA SendHeadedHeld ==
  ASSUME NEW s, NEW file, Good(s, file), Packed(s.pack), s.left = 0,
         NEW id \in Nat, NEW n \in Nat \ {0}
  PROVE  LET t == SendHeaded(s, id, n)
         IN  /\ Packed(t.pack) /\ t.left = 0
             /\ \/ /\ t.ok
                   /\ Held(t.buf, t.pack) = Append(Held(s.buf, s.pack), Piece(id, n, 0, n))
                \/ ~t.ok /\ Held(t.buf, t.pack) = Held(s.buf, s.pack)
<1> DEFINE u == addPkgToSendBuf(s)
           a == Add(s, id, n)
           b == Add(u, id, n)
           c == [s EXCEPT !.ok = FALSE]
           t == SendHeaded(s, id, n)
<1>1. t = IF n > Chunk + HeaderSize THEN c
          ELSE IF Fits(s, n) THEN a ELSE IF u.ok THEN b ELSE u
  BY DEF SendHeaded
<1>2. /\ Good(u, file) /\ Packed(u.pack) /\ u.left = 0
      /\ Held(u.buf, u.pack) = Held(s.buf, s.pack)
  BY AddPkgGood, AddPkgHeld
<1> HIDE DEF u
<1>3. /\ Held(a.buf, a.pack) = Append(Held(s.buf, s.pack), Piece(id, n, 0, n))
      /\ Packed(a.pack) /\ a.left = 0 /\ a.ok = TRUE
  BY AddHeld
<1>4. /\ Held(b.buf, b.pack) = Append(Held(u.buf, u.pack), Piece(id, n, 0, n))
      /\ Packed(b.pack) /\ b.left = 0 /\ b.ok = TRUE
  BY <1>2, AddHeld
<1>5. c.buf = s.buf /\ c.pack = s.pack /\ c.left = 0 /\ c.ok = FALSE
  BY DEF Good, States
<1> HIDE DEF a, b, c, t
<1>6. CASE n > Chunk + HeaderSize
  BY <1>1, <1>5, <1>6 DEF t
<1>7. CASE ~(n > Chunk + HeaderSize) /\ Fits(s, n)
  BY <1>1, <1>3, <1>7 DEF t
<1>8. CASE ~(n > Chunk + HeaderSize) /\ ~Fits(s, n) /\ u.ok
  BY <1>1, <1>2, <1>4, <1>8 DEF t
<1>9. CASE ~(n > Chunk + HeaderSize) /\ ~Fits(s, n) /\ ~u.ok
  BY <1>1, <1>2, <1>9 DEF t
<1> QED
  BY <1>6, <1>7, <1>8, <1>9

\* If there is room already GetCrntInBufAndTest() leaves the buffer alone.
LEMMA RoomAtHand ==
  ASSUME NEW b, BufferInv(b), NEW n \in Nat, NEW k \in Nat \ {0}, n <= k, HasRoom(b, k)
  PROVE  Room(b, n) = [ok |-> TRUE, buf |-> b]
<1>1. b.inb.len \in Nat /\ b.inb.size \in Nat
  BY BufferParts DEF Blocks
<1>2. b.inb # NoBlock
  <2>1. b.inb.size # 0
    BY <1>1 DEF HasRoom
  <2> QED
    BY <2>1 DEF NoBlock
<1>3. GetInBuf(b) = b
  BY <1>2 DEF GetInBuf
<1>4. HasRoom(b, n)
  BY <1>1 DEF HasRoom
<1> QED
  BY <1>3, <1>4 DEF Room

\* What a round of addSuperLenPkgToSendBuf() needs, and what it leaves to the
\* next one.
LEMMA NeededNext ==
  ASSUME NEW n \in Nat \ {0}, NEW left \in Nat, left > 1
  PROVE  LET len == IF left > 2 THEN PkgSize ELSE LastSize(n) - PrefixSize
         IN  /\ len \in Nat /\ len > HeaderSize
             /\ Needed(n, left) \in Nat /\ Needed(n, left - 1) \in Nat
             /\ PrefixSize + len + Needed(n, left - 1) = Needed(n, left)
<1>1. /\ PkgSize \in Nat /\ PrefixSize \in Nat /\ HeaderSize \in Nat /\ RecordHeaderSize \in Nat \ {0}
      /\ n % Chunk \in Nat /\ PkgSize > HeaderSize
  BY Sizes, PiecesType, SendThreadAssumption
<1>2. LastSize(n) \in Nat /\ LastSize(n) - PrefixSize = HeaderSize + RecordHeaderSize + (n % Chunk)
  BY <1>1 DEF LastSize
<1> DEFINE L == LastSize(n)
<1> HIDE DEF L
<1>3. CASE left = 2
  BY <1>1, <1>2, <1>3 DEF Needed
<1>4. CASE left > 2
  <2>1. ASSUME NEW q \in Nat, NEW a \in Nat, NEW l \in Nat
        PROVE  a + (q * a + l) = (q + 1) * a + l /\ q * a + l \in Nat /\ (q + 1) * a + l \in Nat
    <3>1. \A i, j \in Nat : i * j \in Nat
      OBVIOUS
    <3>2. q * a \in Nat
      BY <3>1
    <3>3. (q + 1) * a = q * a + a
      OBVIOUS
    <3> QED
      BY <3>2, <3>3
  <2>2. PICK q \in Nat : left = q + 3
    <3>1. left - 3 \in Nat /\ left = (left - 3) + 3
      BY <1>4
    <3> QED
      BY <3>1
  <2>3. PICK a \in Nat : a = PrefixSize + PkgSize
    BY <1>1
  <2>4. Needed(n, left) = (q + 1) * a + L
    BY <2>2, <2>3 DEF Needed, L
  <2>5. Needed(n, left - 1) = q * a + L
    <3>1. CASE q = 0
      BY <1>2, <2>2, <2>3, <3>1 DEF Needed, L
    <3>2. CASE q # 0
      BY <2>2, <2>3, <3>2 DEF Needed, L
    <3> QED
      BY <3>1, <3>2
  <2> QED
    BY <1>1, <1>2, <1>4, <2>1, <2>3, <2>4, <2>5 DEF L
<1> QED
  BY <1>3, <1>4

\* A round: one more piece, in order; and there is room for what follows, but
\* for the last package.
LEMMA CutHeld ==
  ASSUME NEW s, NEW file, Good(s, file), Packed(s.pack), s.pack.len = HeaderSize,
         NEW id \in Nat, NEW n \in Nat \ {0}, NEW left \in Nat \ {0},
         left > 1 => HasRoom(s.buf, Needed(n, left))
  PROVE  LET t == Cut(s, id, n, left)
         IN  /\ Packed(t.pack)
             /\ \E x \in Items : x.id = id /\ Held(t.buf, t.pack) = Append(Held(s.buf, s.pack), x)
             /\ left > 1 => t.pack.len = HeaderSize
             /\ left > 2 => HasRoom(t.buf, Needed(n, left - 1))
<1> DEFINE from == (Pieces(n) - (IF left > 2 THEN left ELSE 2)) * Chunk
           to == from + (IF left > 2 THEN Chunk ELSE n % Chunk)
           x == Piece(id, n, from, to)
           full == [len |-> PkgSize, seg |-> TRUE, items |-> <<x>>]
           rest == Longer(s.pack, to - from, <<x>>)
           u == IF left > 2 THEN [s EXCEPT !.pack = full] ELSE [s EXCEPT !.pack = rest]
           t == Cut(s, id, n, left)
           len == IF left > 2 THEN PkgSize ELSE LastSize(n) - PrefixSize
<1>1. t = addPkgToSendBuf(u)
  BY DEF Cut
<1>2. from \in Int /\ to \in Int /\ to - from = (IF left > 2 THEN Chunk ELSE n % Chunk)
  <2>1. Chunk \in Nat /\ Pieces(n) \in Int /\ n % Chunk \in Nat
    BY Sizes, PiecesType
  <2>2. from \in Int
    BY <2>1
  <2> HIDE DEF from
  <2> QED
    BY <2>1, <2>2
<1> HIDE DEF from, to
<1>3. x \in Items /\ x.id = id
  BY <1>2, PieceType DEF Piece
<1> HIDE DEF x
<1>4. full \in Packs /\ full.len = PkgSize /\ full.items = <<x>>
  BY <1>3, Sizes DEF Packs
<1>5. /\ rest \in Packs /\ rest.items = <<x>>
      /\ left <= 2 => rest.len = LastSize(n) - PrefixSize
  <2>1. <<x>> \in Seq(Items) /\ to - from \in Nat /\ s.pack \in Packs
    <3>1. Chunk \in Nat /\ n % Chunk \in Nat
      BY Sizes, PiecesType
    <3>2. to - from \in Nat
      BY <1>2, <3>1
    <3>3. s.pack \in Packs
      BY GoodParts
    <3> QED
      BY <1>3, <3>2, <3>3
  <2>2. rest \in Packs
    BY <2>1, LongerType
  <2>3. n % Chunk \in Nat
    BY PiecesType
  <2>4. left <= 2 => rest.len = HeaderSize + RecordHeaderSize + (n % Chunk)
    BY <1>2 DEF Longer
  <2>5. LastSize(n) - PrefixSize = HeaderSize + RecordHeaderSize + (n % Chunk)
    BY <2>3, Sizes DEF LastSize
  <2> QED
    BY <2>2, <2>4, <2>5 DEF Longer
<1> HIDE DEF full, rest
<1>6. /\ u.pack.items = <<x>> /\ u.pack.len = len /\ u.pack \in Packs
      /\ u.buf = s.buf /\ u.left = s.left
  BY <1>4, <1>5 DEF Good, States
<1>7. Good(u, file)
  BY <1>4, <1>5, GoodPack
<1> HIDE DEF u
<1>8. len \in Nat /\ len > HeaderSize
  <2>1. CASE left > 1
    BY <2>1, NeededNext
  <2>2. CASE left = 1
    BY <2>2, PiecesType, Sizes DEF LastSize
  <2> QED
    BY <2>1, <2>2
<1> HIDE DEF len
<1>9. Packed(u.pack)
  BY <1>6, <1>8, Sizes DEF Packed
<1>10. /\ Held(t.buf, t.pack) = Held(u.buf, u.pack) /\ Packed(t.pack)
       /\ t.ok => t.pack.len = HeaderSize
  BY <1>1, <1>7, <1>9, AddPkgHeld
<1> HIDE DEF t
<1>11. Held(u.buf, u.pack) = Append(Held(s.buf, s.pack), x)
  <2>1. ItemsOf(Waiting(s.buf)) \in Seq(Items) /\ s.pack.items = <<>>
    BY GoodParts, HeldType, Sizes DEF Packed
  <2>2. Held(u.buf, u.pack) = ItemsOf(Waiting(s.buf)) \o <<x>>
    BY <1>6 DEF Held
  <2>3. Held(s.buf, s.pack) = ItemsOf(Waiting(s.buf))
    BY <2>1, ConcatEmptySeq DEF Held
  <2> QED
    BY <1>3, <2>1, <2>2, <2>3, AppendIsConcat
<1>12. ASSUME left > 1
       PROVE  t.ok /\ (left > 2 => HasRoom(t.buf, Needed(n, left - 1)))
  <2> DEFINE k == Needed(n, left)
             p == [kind |-> "records", len |-> u.pack.len, seg |-> u.pack.seg, items |-> u.pack.items]
  <2>1. /\ k \in Nat /\ Needed(n, left - 1) \in Nat
        /\ PrefixSize + len + Needed(n, left - 1) = k
    BY <1>12, NeededNext DEF len
  <2>2. HasRoom(s.buf, k) /\ BufferInv(s.buf)
    BY <1>12, GoodParts
  <2> HIDE DEF k
  <2>3. len + PrefixSize \in Nat /\ k \in Nat \ {0} /\ len + PrefixSize <= k
    BY <1>8, <2>1, Sizes
  <2>4. Room(s.buf, len + PrefixSize) = [ok |-> TRUE, buf |-> s.buf]
    BY <2>2, <2>3, RoomAtHand
  <2>5. t = [u EXCEPT !.ok = TRUE, !.buf = Put(s.buf, p), !.pack = EmptyPack(u.pack.seg)]
    <3>1. ~(u.pack.len <= HeaderSize)
      BY <1>6, <1>8, Sizes
    <3> DEFINE r == Room(u.buf, u.pack.len + PrefixSize)
    <3>2. r.ok = TRUE /\ r.buf = s.buf
      BY <1>6, <2>4
    <3>3. addPkgToSendBuf(u) =
            IF u.pack.len <= HeaderSize THEN [u EXCEPT !.ok = TRUE]
            ELSE IF ~r.ok THEN [u EXCEPT !.ok = FALSE, !.buf = r.buf]
            ELSE [u EXCEPT !.ok = TRUE, !.buf = Put(r.buf, p), !.pack = EmptyPack(u.pack.seg)]
      BY DEF addPkgToSendBuf
    <3> HIDE DEF r, p
    <3> QED
      BY <1>1, <3>1, <3>2, <3>3
  <2>6. t.ok = TRUE /\ t.buf = Put(s.buf, p)
    BY <1>7, <2>5 DEF Good, States
  <2>7. t.buf.inb.len = s.buf.inb.len + PrefixSize + len /\ t.buf.inb.size = s.buf.inb.size
    <3>1. p.len = len
      BY <1>6
    <3> QED
      BY <2>2, <2>6, <3>1, BufferParts DEF Put, Filled, Buffers
  <2>8. s.buf.inb.len \in Nat /\ s.buf.inb.size \in Nat
    BY <2>2, BufferParts DEF Blocks
  <2>9. HasRoom(t.buf, Needed(n, left - 1))
    BY <1>8, <2>1, <2>2, <2>7, <2>8, Sizes DEF HasRoom
  <2> QED
    BY <2>6, <2>9
<1>13. \E y \in Items : y.id = id /\ Held(t.buf, t.pack) = Append(Held(s.buf, s.pack), y)
  BY <1>3, <1>10, <1>11
<1> QED
  BY <1>10, <1>12, <1>13 DEF t

------------------------------------------------------------------------------
\* The invariant, and each action.

\* The send thread leaves a block when it has been through it; a record that is
\* being cut has the lock for itself, the package at its start, and room for what
\* is left of it.  The one piece without room is that of the last round, which
\* stays in the package.
SentInv == writer \notin {"write", "failed"} => at = Len(out.packages)
CutInv ==
  \A c \in Callers : call[c].left > 0 =>
    /\ pack.len = HeaderSize
    /\ call[c].left > 1 => HasRoom(buf, Needed(call[c].len, call[c].left))
    /\ \A d \in Callers : call[d].left > 0 => d = c
\* What the order of the records rests on.
OrderInv == SendInv /\ Packed(pack) /\ SentInv /\ CutInv

\* More is held, by one piece of record id, or as much as before.
Kept(b, package)         == Held(b, package) = Held(buf, pack)
Joined(b, package, id)   == \E x \in Items : x.id = id /\ Held(b, package) = Append(Held(buf, pack), x)

\* What the invariant says of the state that an operation starts from.
LEMMA NowParts ==
  ASSUME OrderInv
  PROVE  /\ Good(Now, buf.file) /\ Packed(Now.pack) /\ Now.left = 0 /\ Now.buf = buf /\ Now.pack = pack
         /\ given \in Nat /\ given + 1 \in Nat
  BY NowGood DEF OrderInv, Now, SendInv, TypeOK

\* What it says of a call.
LEMMA CallParts ==
  ASSUME OrderInv, NEW c \in Callers, call[c] # NoCall
  PROVE  /\ call[c] \in Calls /\ call[c].len \in Lengths /\ call[c].len \in Nat \ {0}
         /\ call[c].kind \in {"record", "headed", "direct"} /\ call[c].left \in Nat
         /\ call[c].tries \in Nat
<1>1. call[c] \in Calls
  BY DEF OrderInv, SendInv, TypeOK
<1>2. call[c].len \in Lengths
  BY <1>1 DEF Calls
<1> QED
  BY <1>1, <1>2, CallType, SendThreadAssumption

\* A request whose loop goes on has the lock only if it is cut.
LEMMA RequestLeft ==
  ASSUME NEW request \in Calls, NEW left \in Nat
  PROVE  /\ CutInto(request, left).left = left /\ CutInto(request, left).len = request.len
         /\ Again(request).left = request.left
         /\ NoCall.left = 0
  BY DEF Calls, CutInto, Again, NoCall

\* An attempt that leaves nothing to cut leaves the lock free; one that does
\* has the lock for itself, and room for what is to come.
LEMMA AttemptCut ==
  ASSUME OrderInv, RoomForPrefixes, NEW c \in Callers, call[c] # NoCall, Unlocked,
         NEW left \in Nat, NEW next, next \in {NoCall, Again(call[c])},
         call' = [call EXCEPT ![c] = IF left > 0 THEN CutInto(call[c], left) ELSE next],
         left > 0 => /\ left = Pieces(call[c].len) /\ pack'.len = HeaderSize
                     /\ HasRoom(buf', Pieces(call[c].len) * PkgSize),
         BufferInv(buf')
  PROVE  CutInv'
<1> DEFINE n == call[c].len
<1>1. /\ call[c] \in Calls /\ n \in Nat \ {0} /\ n \in Lengths
  BY CallParts
<1>2. call \in [Callers -> Calls \cup {NoCall}]
  BY DEF OrderInv, SendInv, TypeOK
<1>3. ASSUME NEW d \in Callers, call'[d].left > 0
      PROVE  d = c /\ left > 0 /\ call'[c].left = left /\ call'[c].len = n
  <2>1. call[d].left = 0 /\ call[c].left = 0
    BY DEF Unlocked
  <2>2. d = c
    BY <1>2, <1>3, <2>1
  <2>3. call'[c] = IF left > 0 THEN CutInto(call[c], left) ELSE next
    BY <1>2
  <2>4. next.left = 0
    BY <1>1, <2>1, RequestLeft
  <2>5. left > 0
    BY <1>3, <2>2, <2>3, <2>4
  <2> QED
    BY <1>1, <2>2, <2>3, <2>5, RequestLeft
<1>4. left > 0 => HasRoom(buf', Needed(n, left))
  <2>1. (Pieces(n) - 1) * PrefixSize <= PkgSize
    BY <1>1 DEF RoomForPrefixes
  <2>2. PICK k \in Nat : k = Needed(n, Pieces(n))
    BY <1>1, <2>1, RoomIsEnough
  <2>3. PICK m \in Nat : m = Pieces(n) * PkgSize
    BY <1>1, PiecesType, Sizes
  <2>4. k <= m
    BY <1>1, <2>1, <2>2, <2>3, RoomIsEnough
  <2>5. buf'.inb.len \in Nat /\ buf'.inb.size \in Nat
    BY BufferParts DEF Blocks
  <2>6. HasRoom(buf', m) => HasRoom(buf', k)
    BY <2>4, <2>5 DEF HasRoom
  <2> QED
    BY <2>2, <2>3, <2>6
<1> HIDE DEF n
<1>5. ASSUME NEW d \in Callers, call'[d].left > 0
      PROVE  /\ pack'.len = HeaderSize
             /\ call'[d].left > 1 => HasRoom(buf', Needed(call'[d].len, call'[d].left))
             /\ \A e \in Callers : call'[e].left > 0 => e = d
  <2>1. d = c /\ left > 0 /\ call'[d].left = left /\ call'[d].len = n
    BY <1>3, <1>5
  <2>2. \A e \in Callers : call'[e].left > 0 => e = d
    BY <1>3, <2>1
  <2> QED
    BY <1>4, <2>1, <2>2
<1> QED
  BY <1>5 DEF CutInv

\* What an attempt of a caller leaves behind.
LEMMA AttemptStep ==
  ASSUME OrderInv, RoomForPrefixes, NEW c \in Callers, Attempt(c), SendInv'
  PROVE  /\ Packed(pack') /\ CutInv'
         /\ \/ Kept(buf', pack') /\ given' = given
            \/ Joined(buf', pack', given + 1) /\ given' = given + 1
<1> DEFINE n == call[c].len
           id == given + 1
           s == CASE call[c].kind = "record" -> addToPkg(Now, id, n)
                  [] call[c].kind = "headed" -> SendHeaded(Now, id, n)
                  [] call[c].kind = "direct" -> SendPacket(Now, n)
           x == Piece(id, n, 0, n)
           H == Held(buf, pack)
           next == IF s.ok \/ call[c].tries = 0 THEN NoCall ELSE Again(call[c])
<1>1. /\ call[c] \in Calls /\ n \in Lengths /\ n \in Nat \ {0}
      /\ call[c].kind \in {"record", "headed", "direct"}
      /\ call[c] # NoCall /\ Unlocked
  BY CallParts DEF Attempt
<1>2. /\ buf' = s.buf /\ pack' = s.pack
      /\ given' = IF s.ok /\ s.left = 0 /\ call[c].kind # "direct" THEN id ELSE given
      /\ call' = [call EXCEPT ![c] = IF s.left > 0 THEN CutInto(call[c], s.left) ELSE next]
  BY DEF Attempt
<1>3. /\ Good(Now, buf.file) /\ Packed(Now.pack) /\ Now.left = 0 /\ Now.buf = buf /\ Now.pack = pack
      /\ given \in Nat /\ id \in Nat
  BY NowParts
<1>4. x \in Items /\ x.id = id
  BY <1>1, <1>3, PieceType, 0 \in Int, n \in Int DEF Piece
<1>5. next \in {NoCall, Again(call[c])}
  OBVIOUS
<1>6. BufferInv(buf')
  BY DEF SendInv
<1> HIDE DEF x, n, id, s, next
<1>7. /\ Packed(s.pack)
      /\ \/ s.ok /\ s.left = 0 /\ call[c].kind # "direct" /\ Held(s.buf, s.pack) = Append(H, x)
         \/ /\ call[c].kind # "direct" /\ s.left = Pieces(n) /\ s.left > 0 /\ s.pack.len = HeaderSize
            /\ HasRoom(s.buf, Pieces(n) * PkgSize) /\ Held(s.buf, s.pack) = H
         \/ (~s.ok \/ call[c].kind = "direct") /\ s.left = 0 /\ Held(s.buf, s.pack) = H
  <2>1. CASE call[c].kind = "record"
    <3>1. s = addToPkg(Now, id, n)
      BY <2>1 DEF s, n
    <3>2. Pieces(n) \in Nat /\ Pieces(n) >= 1
      BY <1>1, PiecesCount, PiecesType
    <3>3. addToPkg(Now, id, n).left = 0 \/ addToPkg(Now, id, n).left = Pieces(n)
      BY <1>1, <1>3, AddToPkgHeld
    <3>4. /\ Packed(s.pack)
          /\ \/ s.ok /\ s.left = 0 /\ Held(s.buf, s.pack) = Append(Held(Now.buf, Now.pack), x)
             \/ /\ s.left = Pieces(n) /\ s.pack.len = HeaderSize
                /\ HasRoom(s.buf, Pieces(n) * PkgSize)
                /\ Held(s.buf, s.pack) = Held(Now.buf, Now.pack)
             \/ ~s.ok /\ s.left = 0 /\ Held(s.buf, s.pack) = Held(Now.buf, Now.pack)
      BY <1>1, <1>3, <3>1, AddToPkgHeld DEF x
    <3> QED
      BY <1>3, <2>1, <3>2, <3>4
  <2>2. CASE call[c].kind = "headed"
    <3>1. s = SendHeaded(Now, id, n)
      BY <2>2 DEF s, n
    <3>2. /\ Packed(s.pack) /\ s.left = 0
          /\ \/ s.ok /\ Held(s.buf, s.pack) = Append(Held(Now.buf, Now.pack), x)
             \/ ~s.ok /\ Held(s.buf, s.pack) = Held(Now.buf, Now.pack)
      BY <1>1, <1>3, <3>1, SendHeadedHeld DEF x
    <3> QED
      BY <1>3, <2>2, <3>2
  <2>3. CASE call[c].kind = "direct"
    <3>1. s = SendPacket(Now, n)
      BY <2>3 DEF s, n
    <3>2. s.pack = Now.pack /\ s.left = 0 /\ Held(s.buf, s.pack) = Held(Now.buf, Now.pack)
      BY <1>1, <1>3, <3>1, SendPacketHeld
    <3> QED
      BY <1>3, <2>3, <3>2
  <2> QED
    BY <1>1, <2>1, <2>2, <2>3
<1>8. CutInv'
  <2>1. PICK left \in Nat : left = s.left
    BY <1>1, <1>7, PiecesType
  <2>2. call' = [call EXCEPT ![c] = IF left > 0 THEN CutInto(call[c], left) ELSE next]
    BY <1>2, <2>1
  <2>3. left > 0 => /\ left = Pieces(call[c].len) /\ pack'.len = HeaderSize
                    /\ HasRoom(buf', Pieces(call[c].len) * PkgSize)
    BY <1>2, <1>7, <2>1 DEF n
  <2> QED
    BY <1>1, <1>5, <1>6, <2>2, <2>3, AttemptCut
<1>9. \/ Kept(buf', pack') /\ given' = given
      \/ Joined(buf', pack', given + 1) /\ given' = given + 1
  <2>1. \/ given' = id /\ Held(buf', pack') = Append(H, x)
        \/ given' = given /\ Held(buf', pack') = H
    BY <1>2, <1>7
  <2> QED
    BY <1>4, <2>1 DEF Kept, Joined, id
<1> QED
  BY <1>2, <1>7, <1>8, <1>9

\* What a round of addSuperLenPkgToSendBuf() leaves behind.
LEMMA CutStep ==
  ASSUME OrderInv, NEW c \in Callers, CutRound(c), SendInv'
  PROVE  /\ Packed(pack') /\ CutInv' /\ Joined(buf', pack', given')
         /\ given' = given \/ given' = given + 1
<1> DEFINE n == call[c].len
           left == call[c].left
           id == IF left = Pieces(n) THEN given + 1 ELSE given
           s == Cut(Now, id, n, left)
           H == Held(buf, pack)
<1>1. /\ call[c] # NoCall /\ call[c] \in Calls /\ n \in Nat \ {0} /\ left \in Nat \ {0}
      /\ call \in [Callers -> Calls \cup {NoCall}]
  <2>1. left > 0 /\ call \in [Callers -> Calls \cup {NoCall}]
    BY DEF CutRound, OrderInv, SendInv, TypeOK
  <2>2. call[c] # NoCall
    BY <2>1 DEF NoCall
  <2> QED
    BY <2>1, <2>2, CallParts
<1>2. /\ buf' = s.buf /\ pack' = s.pack /\ given' = id
      /\ call' = [call EXCEPT ![c] = IF left = 1 THEN NoCall ELSE CutInto(call[c], left - 1)]
  BY DEF CutRound
<1>3. /\ Good(Now, buf.file) /\ Packed(Now.pack) /\ Now.left = 0 /\ Now.buf = buf /\ Now.pack = pack
      /\ given \in Nat /\ given + 1 \in Nat /\ id \in Nat
  BY NowParts
<1>4. /\ pack.len = HeaderSize /\ (left > 1 => HasRoom(buf, Needed(n, left)))
      /\ \A d \in Callers : call[d].left > 0 => d = c
  BY <1>1 DEF OrderInv, CutInv
<1>5. id = given \/ id = given + 1
  OBVIOUS
<1> HIDE DEF n, left, id, s
<1>6. /\ Packed(s.pack)
      /\ \E x \in Items : x.id = id /\ Held(s.buf, s.pack) = Append(H, x)
      /\ left > 1 => s.pack.len = HeaderSize
      /\ left > 2 => HasRoom(s.buf, Needed(n, left - 1))
  <2>1. Now.pack.len = HeaderSize /\ (left > 1 => HasRoom(Now.buf, Needed(n, left)))
    BY <1>3, <1>4
  <2>2. PICK m \in Nat \ {0} : m = left
    BY <1>1
  <2>3. PICK k \in Nat \ {0} : k = n
    BY <1>1
  <2>4. PICK i \in Nat : i = id
    BY <1>3
  <2>5. m > 1 => HasRoom(Now.buf, Needed(k, m))
    BY <2>1, <2>2, <2>3
  <2>6. /\ Packed(Cut(Now, i, k, m).pack)
        /\ \E x \in Items : x.id = i /\ Held(Cut(Now, i, k, m).buf, Cut(Now, i, k, m).pack)
                                          = Append(Held(Now.buf, Now.pack), x)
        /\ m > 1 => Cut(Now, i, k, m).pack.len = HeaderSize
        /\ m > 2 => HasRoom(Cut(Now, i, k, m).buf, Needed(k, m - 1))
    <3>1. Good(Now, buf.file) /\ Packed(Now.pack) /\ Now.pack.len = HeaderSize
      BY <1>3, <2>1
    <3>2. ASSUME NEW ss, NEW file, Good(ss, file), Packed(ss.pack), ss.pack.len = HeaderSize,
                 m > 1 => HasRoom(ss.buf, Needed(k, m))
          PROVE  LET t == Cut(ss, i, k, m)
                 IN  /\ Packed(t.pack)
                     /\ \E x \in Items : x.id = i /\ Held(t.buf, t.pack) = Append(Held(ss.buf, ss.pack), x)
                     /\ m > 1 => t.pack.len = HeaderSize
                     /\ m > 2 => HasRoom(t.buf, Needed(k, m - 1))
      BY <3>2, CutHeld
    <3> QED
      BY <2>5, <3>1, <3>2
  <2>7. s = Cut(Now, i, k, m)
    BY <2>2, <2>3, <2>4 DEF s
  <2> QED
    BY <1>3, <2>2, <2>3, <2>4, <2>6, <2>7
<1>7. CutInv'
  <2>1. ASSUME NEW d \in Callers, call'[d].left > 0
        PROVE  d = c /\ left > 1 /\ call'[c].left = left - 1 /\ call'[c].len = n
    <3>1. d = c
      <4> SUFFICES ASSUME d # c PROVE FALSE
        OBVIOUS
      <4>1. call'[d] = call[d]
        BY <1>1, <1>2
      <4> QED
        BY <1>4, <2>1, <4>1
    <3>2. call'[c] = IF left = 1 THEN NoCall ELSE CutInto(call[c], left - 1)
      BY <1>1, <1>2
    <3>3. left # 1
      BY <2>1, <3>1, <3>2 DEF NoCall
    <3>4. left - 1 \in Nat /\ left > 1
      BY <1>1, <3>3
    <3>5. CutInto(call[c], left - 1).left = left - 1 /\ CutInto(call[c], left - 1).len = n
      BY <1>1, <3>4, RequestLeft DEF n
    <3> QED
      BY <3>1, <3>2, <3>3, <3>4, <3>5
  <2>2. left > 1 => s.pack.len = HeaderSize /\ (left - 1 > 1 => HasRoom(s.buf, Needed(n, left - 1)))
    BY <1>1, <1>6
  <2>3. ASSUME NEW d \in Callers, call'[d].left > 0
        PROVE  /\ pack'.len = HeaderSize
               /\ call'[d].left > 1 => HasRoom(buf', Needed(call'[d].len, call'[d].left))
               /\ \A e \in Callers : call'[e].left > 0 => e = d
    <3>1. d = c /\ left > 1 /\ call'[d].left = left - 1 /\ call'[d].len = n
      BY <2>1, <2>3
    <3>2. \A e \in Callers : call'[e].left > 0 => e = d
      BY <2>1, <3>1
    <3> QED
      BY <1>2, <2>2, <3>1, <3>2
  <2> QED
    BY <2>3 DEF CutInv
<1> QED
  BY <1>2, <1>5, <1>6, <1>7 DEF Joined

\* The lock is free: nothing is being cut.
LEMMA FreeLock ==
  ASSUME OrderInv, Unlocked, UNCHANGED call
  PROVE  CutInv'
<1>1. ASSUME NEW c \in Callers PROVE call'[c].left = 0
  BY DEF Unlocked
<1> QED
  BY <1>1 DEF CutInv

\* What the client's thread puts into the buffer holds no record.
LEMMA InsistStep ==
  ASSUME OrderInv, NEW n \in Nat, NEW next, Insist(n, next)
  PROVE  Packed(pack') /\ CutInv' /\ Kept(buf', pack')
<1> DEFINE s == SendPacket(Now, n)
<1>1. /\ Good(Now, buf.file) /\ Packed(Now.pack) /\ Now.buf = buf /\ Now.pack = pack
  BY NowParts
<1>2. buf' = s.buf /\ pack' = pack
  BY DEF Insist
<1>3. Held(s.buf, s.pack) = Held(buf, pack) /\ s.pack = pack
  BY <1>1, SendPacketHeld
<1>4. UNCHANGED call /\ Unlocked
  BY DEF Insist, asking
<1> QED
  BY <1>1, <1>2, <1>3, <1>4, FreeLock DEF Kept

\* What no step of the client or of the send thread disturbs, unless it adds.
LEMMA CutKept ==
  ASSUME OrderInv, UNCHANGED <<buf, pack, call>>
  PROVE  Packed(pack') /\ CutInv' /\ Kept(buf', pack')
<1>1. Packed(pack') /\ Kept(buf', pack')
  BY DEF OrderInv, Kept
<1>2. ASSUME NEW c \in Callers, call'[c].left > 0
      PROVE  /\ pack'.len = HeaderSize
             /\ call'[c].left > 1 => HasRoom(buf', Needed(call'[c].len, call'[c].left))
             /\ \A d \in Callers : call'[d].left > 0 => d = c
  BY <1>2 DEF OrderInv, CutInv
<1> QED
  BY <1>1, <1>2 DEF CutInv

\* A new request does not have the lock.
LEMMA CallStep ==
  ASSUME OrderInv, NEW c \in Callers, Call(c)
  PROVE  Packed(pack') /\ CutInv' /\ Kept(buf', pack')
<1>1. UNCHANGED <<buf, pack>>
  BY DEF Call, filling
<1>2. PICK k \in Kinds, n \in Lengths :
        call' = [call EXCEPT ![c] = [kind |-> k, len |-> n, tries |-> Tries, left |-> 0]]
  BY DEF Call
<1>3. call \in [Callers -> Calls \cup {NoCall}]
  BY DEF OrderInv, SendInv, TypeOK
<1>4. call'[c].left = 0 /\ call[c].left = 0
  BY <1>2, <1>3 DEF Call, NoCall
<1>5. \A d \in Callers : call'[d].left > 0 => call'[d] = call[d] /\ call[d].left > 0
  BY <1>2, <1>3, <1>4
<1>6. ASSUME NEW d \in Callers, call'[d].left > 0
      PROVE  /\ pack'.len = HeaderSize
             /\ call'[d].left > 1 => HasRoom(buf', Needed(call'[d].len, call'[d].left))
             /\ \A e \in Callers : call'[e].left > 0 => e = d
  <2>1. call'[d] = call[d] /\ call[d].left > 0
    BY <1>5, <1>6
  <2>2. /\ pack.len = HeaderSize
        /\ call[d].left > 1 => HasRoom(buf, Needed(call[d].len, call[d].left))
        /\ \A e \in Callers : call[e].left > 0 => e = d
    BY <2>1 DEF OrderInv, CutInv
  <2> QED
    BY <1>1, <1>5, <2>1, <2>2
<1> QED
  BY <1>1, <1>6 DEF CutInv, OrderInv, Kept

\* The block that was sent is freed, what is being filled may follow what
\* waits, and the next block is taken: nothing else changes places.
LEMMA NextBlockStep ==
  ASSUME OrderInv, NextBlock, SendInv'
  PROVE  /\ Packed(pack') /\ CutInv' /\ SentInv'
         /\ \/ out'.packages = <<>> /\ Kept(buf', pack')
            \/ pack' = pack /\ Waiting(buf) = out'.packages \o Waiting(buf')
<1> DEFINE free == FreeBuf(buf, out)
           s == [Now EXCEPT !.buf = free]
           t == addPkgToSendBuf(s)
           next == GetOutBuf(free)
<1>1. /\ BufferInv(buf) /\ out \in Blocks /\ BlockInv(buf.file, out)
      /\ Good(Now, buf.file) /\ Packed(Now.pack) /\ Now.pack = pack
  BY NowParts DEF OrderInv, SendInv, TypeOK
<1>2. /\ BufferInv(free) /\ free.file = buf.file /\ free \in Buffers
      /\ Waiting(free) = Waiting(buf)
  BY <1>1, FreeBufGood, FreeBufWaiting, BufferParts
<1>3. Unlocked /\ UNCHANGED call /\ at' = 0
  BY DEF NextBlock, asking
<1>4. /\ \/ buf' = t.buf /\ pack' = t.pack /\ out' = NoBlock /\ writer' = "loop"
         \/ buf' = free /\ out' = NoBlock /\ writer' = "loop" /\ pack' = pack
         \/ /\ buf' = next.buf /\ out' = next.out /\ pack' = pack
            /\ writer' = IF next.out.len > 0 THEN "write" ELSE "loop"
  BY DEF NextBlock
<1>5. s.buf = free /\ s.pack = pack /\ Good(s, buf.file) /\ Packed(s.pack)
  BY <1>1, <1>2 DEF Good, States, Now, Packed
<1> HIDE DEF free, s
<1>6. Packed(t.pack) /\ Held(t.buf, t.pack) = Held(s.buf, s.pack)
  BY <1>5, AddPkgHeld
<1>7. Held(free, pack) = Held(buf, pack)
  BY <1>2 DEF Held
<1>8. Waiting(free) = next.out.packages \o Waiting(next.buf)
  BY <1>2, GetOutBufWaiting
<1>9. NoBlock.packages = <<>> /\ NoBlock.len = 0
  BY DEF NoBlock
<1> HIDE DEF t, next
<1>10. Packed(pack')
  BY <1>4, <1>5, <1>6
<1>11. SentInv'
  <2>1. out' \in Blocks /\ BlockInv(buf'.file, out') /\ at' = 0
    BY <1>3 DEF SendInv, TypeOK
  <2>2. writer' = "loop" => out'.packages = <<>>
    BY <1>4, <1>9, <2>1 DEF BlockInv, Blocks
  <2>3. writer' \in {"loop", "write"}
    BY <1>4
  <2> QED
    BY <2>1, <2>2, <2>3 DEF SentInv
<1>12. \/ out'.packages = <<>> /\ Kept(buf', pack')
       \/ pack' = pack /\ Waiting(buf) = out'.packages \o Waiting(buf')
  BY <1>2, <1>4, <1>5, <1>6, <1>7, <1>8, <1>9 DEF Kept
<1>13. CutInv'
  BY <1>3, FreeLock
<1> QED
  BY <1>10, <1>11, <1>12, <1>13

\* SetAllBufInFile() moves blocks in their order.
LEMMA AllInFileStep ==
  ASSUME OrderInv, SetAllBufInFile
  PROVE  Packed(pack') /\ CutInv' /\ Kept(buf', pack')
<1>1. BufferInv(buf) /\ buf' = AllInFile(buf) /\ pack' = pack /\ Unlocked /\ UNCHANGED call
  BY DEF SetAllBufInFile, OrderInv, SendInv, asking
<1>2. Waiting(buf') = Waiting(buf)
  BY <1>1, AllInFileWaiting
<1> QED
  BY <1>1, <1>2, FreeLock DEF Kept, Held, OrderInv

\* The send thread has written or given up all of a block when it leaves it.
LEMMA SentStep ==
  ASSUME OrderInv, Write \/ WriteFails \/ ConnClose
  PROVE  SentInv' /\ UNCHANGED <<buf, pack, call, out, given>>
<1>1. at \in Nat /\ Len(out.packages) \in Nat /\ at < Len(out.packages)
  BY DEF Write, WriteFails, ConnClose, OrderInv, SendInv, TypeOK, Blocks
<1>2. UNCHANGED <<buf, pack, call, out, given>>
  BY DEF Write, WriteFails, ConnClose, filling, asking
<1>3. SentInv'
  BY <1>1 DEF Write, WriteFails, ConnClose, Onward, SentInv
<1> QED
  BY <1>2, <1>3

\* The steps that touch neither a record nor the block that is sent.
Quiet == Dial \/ Join \/ LinkCheckDue \/ Notice \/ Break \/ ServerTimeout \/ NotConnected \/ SeesConnection

\* They change nothing of what waits.
LEMMA QuietStep ==
  ASSUME OrderInv, Quiet
  PROVE  /\ SentInv' /\ UNCHANGED <<buf, pack, call, out, at, given>>
         /\ writer' = "failed" <=> writer = "failed"
<1>1. UNCHANGED <<buf, pack, call, out, at, given>>
  BY DEF Quiet, Dial, Join, LinkCheckDue, Notice, Break, ServerTimeout, NotConnected, SeesConnection,
         filling, sending, asking
<1>2. writer' = writer \/ (writer = "loop" /\ writer' \in {"cache", "locked"})
  BY DEF Quiet, Dial, Join, LinkCheckDue, Notice, Break, ServerTimeout, NotConnected, SeesConnection,
         sending
<1>3. SentInv'
  BY <1>1, <1>2 DEF OrderInv, SentInv
<1> QED
  BY <1>1, <1>2, <1>3

\* What a caller or the client's thread does leaves the send thread alone.
LEMMA OthersSent ==
  ASSUME OrderInv, UNCHANGED sending
  PROVE  SentInv'
  BY DEF OrderInv, SentInv, sending

\* The invariant at the start.
LEMMA OrderInit ==
  ASSUME Init, SendInv
  PROVE  OrderInv
<1>1. Packed(pack)
  BY Sizes DEF Init, EmptyPack, Packed
<1>2. SentInv
  BY DEF Init, NoBlock, SentInv
<1>3. CutInv
  BY DEF Init, NoCall, CutInv
<1> QED
  BY <1>1, <1>2, <1>3 DEF OrderInv

\* A record that is being cut has the lock for itself and the room it was
\* promised, and the send thread leaves a block only when it has been
\* through it.
LEMMA OrderStep ==
  ASSUME OrderInv, RoomForPrefixes, [Next]_vars, SendInv'
  PROVE  OrderInv'
<1>1. ASSUME NEW c \in Callers, Call(c) PROVE OrderInv'
  BY <1>1, CallStep, OthersSent DEF Call, OrderInv
<1>2. ASSUME NEW c \in Callers, Attempt(c) PROVE OrderInv'
  BY <1>2, AttemptStep, OthersSent DEF Attempt, OrderInv
<1>3. ASSUME NEW c \in Callers, CutRound(c) PROVE OrderInv'
  BY <1>3, CutStep, OthersSent DEF CutRound, OrderInv
<1>4. ASSUME NEW n \in Nat, NEW next \in {"join", "up"}, Insist(n, next) PROVE OrderInv'
  BY <1>4, InsistStep, OthersSent DEF Insist, OrderInv
<1>5. CASE doBind
  BY <1>4, <1>5, Sizes DEF doBind
<1>6. CASE CheckLink
  BY <1>4, <1>6 DEF CheckLink
<1>7. CASE Quiet
  BY <1>7, QuietStep, CutKept DEF OrderInv
<1>8. CASE SetAllBufInFile
  <2>1. SentInv'
    BY <1>8 DEF SetAllBufInFile, OrderInv, SentInv
  <2> QED
    BY <1>8, <2>1, AllInFileStep DEF OrderInv
<1>9. CASE NextBlock
  BY <1>9, NextBlockStep DEF OrderInv
<1>10. CASE Write \/ WriteFails \/ ConnClose
  BY <1>10, SentStep, CutKept DEF OrderInv
<1>11. CASE UNCHANGED vars
  BY <1>11, CutKept, OthersSent DEF vars, filling, asking, OrderInv
<1> QED
  BY <1>1, <1>2, <1>3, <1>5, <1>6, <1>7, <1>8, <1>9, <1>10, <1>11
     DEF Next, Caller, Client, Sender, Quiet

\* Whatever callers, client and send thread do meanwhile, addSuperLenPkgToSendBuf()
\* finds room for each package of a record it has begun to cut, whose failure it
\* would ignore, and doSend() leaves no package of a block behind.
THEOREM OrderInvariant ==
  ASSUME RoomForPrefixes
  PROVE  Spec => []OrderInv
<1>1. Init /\ SendInv => OrderInv
  BY OrderInit
<1>2. OrderInv /\ SendInv' /\ [Next]_vars => OrderInv'
  BY OrderStep
<1> QED
  BY <1>1, <1>2, SendInvariant, PTL DEF Spec

------------------------------------------------------------------------------
\* The line of the abstract specification.

\* Sequences of numbers of records.
LEMMA IdsType ==
  ASSUME NEW items \in Seq(Items)
  PROVE  Ids(items) \in Seq(Nat) /\ Len(Ids(items)) = Len(items)
<1>1. Ids(items) = [i \in 1 .. Len(items) |-> items[i].id]
  BY DEF Ids
<1>2. ASSUME NEW i \in 1 .. Len(items) PROVE Ids(items)[i] \in Nat
  <2>1. items[i] \in Items
    OBVIOUS
  <2>2. items[i].id \in Nat
    BY <2>1 DEF Items
  <2> QED
    BY <1>1, <2>2
<1>3. Len(items) \in Nat /\ Ids(items) = [i \in 1 .. Len(items) |-> Ids(items)[i]]
  BY <1>1
<1> QED
  BY <1>2, <1>3, AsSequence

\* The number of a record that is added.
LEMMA IdsAppend ==
  ASSUME NEW items \in Seq(Items), NEW x \in Items
  PROVE  Ids(Append(items, x)) = Append(Ids(items), x.id)
<1>1. Append(items, x) \in Seq(Items) /\ Len(Append(items, x)) = Len(items) + 1 /\ Len(items) \in Nat
  OBVIOUS
<1>2. x.id \in Nat /\ Ids(items) \in Seq(Nat) /\ Len(Ids(items)) = Len(items)
  BY IdsType DEF Items
<1>3. Ids(Append(items, x)) \in Seq(Nat) /\ Len(Ids(Append(items, x))) = Len(items) + 1
  BY <1>1, IdsType
<1>4. ASSUME NEW i \in 1 .. Len(items) + 1
      PROVE  Ids(Append(items, x))[i] = Append(Ids(items), x.id)[i]
  <2>1. Ids(Append(items, x))[i] = Append(items, x)[i].id
    BY <1>1 DEF Ids
  <2>2. i # Len(items) + 1 => Ids(items)[i] = items[i].id /\ i \in 1 .. Len(items)
    BY <1>1 DEF Ids
  <2> QED
    BY <1>1, <1>2, <2>1, <2>2
<1>5. Append(Ids(items), x.id) \in Seq(Nat) /\ Len(Append(Ids(items), x.id)) = Len(items) + 1
  BY <1>2
<1> QED
  BY <1>3, <1>4, <1>5

\* The numbers of what is behind a front.
LEMMA IdsBehind ==
  ASSUME NEW a \in Seq(Items), NEW b \in Seq(Items)
  PROVE  /\ Len(Ids(a \o b)) = Len(a) + Len(b)
         /\ Ids(b) = SubSeq(Ids(a \o b), Len(a) + 1, Len(Ids(a \o b)))
<1>1. a \o b \in Seq(Items) /\ Len(a \o b) = Len(a) + Len(b) /\ Len(a) \in Nat /\ Len(b) \in Nat
  OBVIOUS
<1>2. /\ Ids(a \o b) \in Seq(Nat) /\ Len(Ids(a \o b)) = Len(a) + Len(b)
      /\ Ids(b) \in Seq(Nat) /\ Len(Ids(b)) = Len(b)
  BY <1>1, IdsType
<1>3. ASSUME NEW i \in 1 .. Len(b)
      PROVE  Ids(b)[i] = Ids(a \o b)[Len(a) + i]
  <2>1. Len(a) + i \in 1 .. Len(a \o b) /\ (a \o b)[Len(a) + i] = b[i]
    BY <1>1
  <2> QED
    BY <2>1 DEF Ids
<1>4. Ids(b) = SubSeq(Ids(a \o b), Len(a) + 1, Len(Ids(a \o b)))
  <2>1. PICK s \in Seq(Nat) : s = Ids(a \o b)
    BY <1>2
  <2>2. PICK t \in Seq(Nat) : t = Ids(b)
    BY <1>2
  <2>3. PICK m \in Nat : m = Len(a)
    BY <1>1
  <2>4. Len(s) = m + Len(t) /\ \A i \in 1 .. Len(t) : t[i] = s[m + i]
    BY <1>2, <1>3, <2>1, <2>2, <2>3
  <2>5. t = SubSeq(s, m + 1, Len(s))
    BY <2>4, Behind
  <2> QED
    BY <2>1, <2>2, <2>3, <2>5
<1> QED
  BY <1>2, <1>4

\* Concatenation of records.
LEMMA ItemsAssociative ==
  ASSUME NEW a \in Seq(Items), NEW b \in Seq(Items), NEW c \in Seq(Items)
  PROVE  (a \o b) \o c = a \o (b \o c) /\ a \o b \in Seq(Items) /\ b \o c \in Seq(Items)
  BY Associative

\* The line is what is left of the block that is sent, then what is held.
LEMMA LineIs ==
  ASSUME NEW p \in Seq(Packages), NEW b, BufferInv(b), NEW package \in Packs
  PROVE  /\ Ids(ItemsOf(p \o Waiting(b)) \o package.items) = Ids(ItemsOf(p) \o Held(b, package))
         /\ ItemsOf(p) \in Seq(Items) /\ Held(b, package) \in Seq(Items)
<1>1. /\ ItemsOf(p) \in Seq(Items) /\ ItemsOf(Waiting(b)) \in Seq(Items)
      /\ package.items \in Seq(Items) /\ Held(b, package) \in Seq(Items)
      /\ Waiting(b) \in Seq(Packages)
  BY ItemsOfType, HeldType, WaitingIs
<1>2. ItemsOf(p \o Waiting(b)) = ItemsOf(p) \o ItemsOf(Waiting(b))
  BY <1>1, ItemsOfConcat
<1>3. (ItemsOf(p) \o ItemsOf(Waiting(b))) \o package.items = ItemsOf(p) \o (ItemsOf(Waiting(b)) \o package.items)
  <2>1. PICK i \in Seq(Items) : i = ItemsOf(p)
    BY <1>1
  <2>2. PICK j \in Seq(Items) : j = ItemsOf(Waiting(b))
    BY <1>1
  <2>3. PICK k \in Seq(Items) : k = package.items
    BY <1>1
  <2>4. (i \o j) \o k = i \o (j \o k)
    BY ItemsAssociative
  <2> QED
    BY <2>1, <2>2, <2>3, <2>4
<1> QED
  BY <1>1, <1>2, <1>3 DEF Held

\* A line to which a piece was added, one that was not touched, and one whose
\* first package is gone.
LEMMA LineJoined ==
  ASSUME NEW p \in Seq(Packages), NEW h \in Seq(Items), NEW x \in Items
  PROVE  Ids(ItemsOf(p) \o Append(h, x)) = Append(Ids(ItemsOf(p) \o h), x.id)
<1>1. ItemsOf(p) \in Seq(Items)
  BY ItemsOfType
<1>2. ItemsOf(p) \o Append(h, x) = Append(ItemsOf(p) \o h, x) /\ ItemsOf(p) \o h \in Seq(Items)
  BY <1>1, AppendToConcat
<1> QED
  BY <1>2, IdsAppend

\* Without its front a line is itself or what was behind.
LEMMA WithoutFront ==
  ASSUME NEW i \in Seq(Items), NEW j \in Seq(Items)
  PROVE  \/ Ids(j) = Ids(i \o j)
         \/ \E k \in 1 .. Len(Ids(i \o j)) : Ids(j) = SubSeq(Ids(i \o j), k + 1, Len(Ids(i \o j)))
<1>1. /\ Len(Ids(i \o j)) = Len(i) + Len(j)
      /\ Ids(j) = SubSeq(Ids(i \o j), Len(i) + 1, Len(Ids(i \o j)))
  BY IdsBehind
<1>2. Len(i) \in Nat /\ Len(j) \in Nat
  OBVIOUS
<1>3. CASE Len(i) = 0
  <2>1. i = <<>>
    BY <1>3
  <2>2. i \o j = j
    BY <2>1, ConcatEmptySeq
  <2> QED
    BY <2>2
<1>4. CASE Len(i) > 0
  <2>1. PICK m \in Nat : m = Len(Ids(i \o j))
    BY <1>1, <1>2
  <2>2. Len(i) \in 1 .. m
    BY <1>1, <1>2, <1>4, <2>1
  <2>3. PICK k \in 1 .. m : k = Len(i)
    BY <2>2
  <2> QED
    BY <1>1, <2>1, <2>3
<1> QED
  BY <1>2, <1>3, <1>4

\* The first package leaves the line with all its pieces.
LEMMA LineShorter ==
  ASSUME NEW a \in Packages, NEW p \in Seq(Packages), NEW h \in Seq(Items)
  PROVE  LET line == Ids(ItemsOf(<<a>> \o p) \o h)
             rest == Ids(ItemsOf(p) \o h)
         IN  rest = line \/ \E k \in 1 .. Len(line) : rest = SubSeq(line, k + 1, Len(line))
<1>1. PICK i \in Seq(Items) : i = a.items
  BY DEF Packages
<1>2. PICK q \in Seq(Items) : q = ItemsOf(p)
  BY ItemsOfType
<1>3. ItemsOf(<<a>> \o p) = i \o q
  <2>1. <<a>> \in Seq(Packages)
    OBVIOUS
  <2>2. ItemsOf(<<a>> \o p) = ItemsOf(<<a>>) \o ItemsOf(p)
    BY <2>1, ItemsOfConcat
  <2> QED
    BY <1>1, <1>2, <2>2, ItemsOfOne
<1>4. (i \o q) \o h = i \o (q \o h) /\ q \o h \in Seq(Items)
  BY ItemsAssociative
<1>5. PICK j \in Seq(Items) : j = q \o h
  BY <1>4
<1>6. Ids(ItemsOf(<<a>> \o p) \o h) = Ids(i \o j) /\ Ids(ItemsOf(p) \o h) = Ids(j)
  BY <1>2, <1>3, <1>4, <1>5
<1>7. \/ Ids(j) = Ids(i \o j)
      \/ \E k \in 1 .. Len(Ids(i \o j)) : Ids(j) = SubSeq(Ids(i \o j), k + 1, Len(Ids(i \o j)))
  BY WithoutFront
<1> QED
  BY <1>6, <1>7

\* What is left of a block, wherever the send thread stands in it.
LEMMA UnsentOf ==
  ASSUME NEW b \in Blocks, NEW n \in 0 .. Len(b.packages), NEW w,
         w \in {"write", "failed"} => n < Len(b.packages)
  PROVE  LET k == IF w = "failed" THEN n + 2 ELSE n + 1
         IN  k \in 1 .. Len(b.packages) + 1 /\ SubSeq(b.packages, k, Len(b.packages)) \in Seq(Packages)
<1>1. PICK s \in Seq(Packages) : s = b.packages
  BY DEF Blocks
<1>2. PICK k : k = IF w = "failed" THEN n + 2 ELSE n + 1
  OBVIOUS
<1>3. k \in 1 .. Len(s) + 1
  BY <1>1, <1>2
<1> QED
  BY <1>1, <1>2, <1>3, Suffix

\* The line in a state.
LEMMA LineNow ==
  ASSUME SendInv
  PROVE  /\ Unsent \in Seq(Packages) /\ Held(buf, pack) \in Seq(Items)
         /\ Line = Ids(ItemsOf(Unsent) \o Held(buf, pack))
<1>1. Unsent \in Seq(Packages)
  BY UnsentOf DEF SendInv, TypeOK, Unsent
<1> QED
  BY <1>1, LineIs DEF SendInv, TypeOK, Line

\* The line in the state after it.
LEMMA LineNext ==
  ASSUME SendInv'
  PROVE  /\ Unsent' \in Seq(Packages) /\ Held(buf', pack') \in Seq(Items)
         /\ Line' = Ids(ItemsOf(Unsent') \o Held(buf', pack'))
<1>1. Unsent' \in Seq(Packages)
  BY UnsentOf DEF SendInv, TypeOK, Unsent
<1> QED
  BY <1>1, LineIs DEF SendInv, TypeOK, Line

\* The block that is sent is left alone.
LEMMA SameUnsent ==
  ASSUME UNCHANGED <<out, at>>, writer' = "failed" <=> writer = "failed"
  PROVE  Unsent' = Unsent
  BY DEF Unsent

\* Then the line is the same if what is held is,
LEMMA LineKept ==
  ASSUME SendInv, SendInv', Unsent' = Unsent, Kept(buf', pack')
  PROVE  Line' = Line
  BY LineNow, LineNext DEF Kept

\* and longer by what has joined it.
LEMMA LineLonger ==
  ASSUME SendInv, SendInv', Unsent' = Unsent, NEW id, Joined(buf', pack', id)
  PROVE  Line' = Append(Line, id)
<1>1. PICK x \in Items : x.id = id /\ Held(buf', pack') = Append(Held(buf, pack), x)
  BY DEF Joined
<1>2. PICK p \in Seq(Packages) : p = Unsent
  BY LineNow
<1>3. PICK h \in Seq(Items) : h = Held(buf, pack)
  BY LineNow
<1>4. Ids(ItemsOf(p) \o Append(h, x)) = Append(Ids(ItemsOf(p) \o h), x.id)
  BY LineJoined
<1> QED
  BY <1>1, <1>2, <1>3, <1>4, LineNow, LineNext

\* The send thread goes past a package, written or not, or has still to.
LEMMA LineSent ==
  ASSUME OrderInv, SendInv', Write \/ WriteFails \/ ConnClose
  PROVE  Line' = Line \/ Box!Leave
<1>1. UNCHANGED <<buf, pack, out, given>> /\ SendInv
  BY SentStep DEF OrderInv
<1>2. Held(buf', pack') = Held(buf, pack)
  BY <1>1
<1>3. PICK s \in Seq(Packages) : s = out.packages
  BY <1>1 DEF SendInv, TypeOK, Blocks
<1>4. at \in Nat /\ at + 1 \in 1 .. Len(s)
  <2>1. at \in 0 .. Len(s) /\ at < Len(s) /\ Len(s) \in Nat
    BY <1>1, <1>3 DEF Write, WriteFails, ConnClose, SendInv, TypeOK
  <2> QED
    BY <2>1
<1>5. CASE Write \/ WriteFails
  <2>1. Unsent = SubSeq(s, at + 1, Len(s)) /\ Unsent' = SubSeq(s, at + 2, Len(s))
    <3>1. writer = "write" /\ UNCHANGED out
      BY <1>1, <1>5 DEF Write, WriteFails
    <3>2. CASE Write
      <4>1. at' = at + 1 /\ writer' # "failed"
        BY <3>2 DEF Write, Onward
      <4>2. Unsent' = SubSeq(s, (at + 1) + 1, Len(s)) /\ (at + 1) + 1 = at + 2
        BY <1>3, <1>4, <3>1, <4>1 DEF Unsent
      <4> QED
        BY <1>3, <3>1, <4>2 DEF Unsent
    <3>3. CASE WriteFails
      BY <1>3, <3>1, <3>3 DEF WriteFails, Unsent
    <3> QED
      BY <1>5, <3>2, <3>3
  <2>2. PICK k \in 1 .. Len(s) : k = at + 1
    BY <1>4
  <2>3. k + 1 = at + 2
    BY <1>4, <2>2
  <2>4. s[k] \in Packages /\ SubSeq(s, k, Len(s)) = <<s[k]>> \o SubSeq(s, k + 1, Len(s))
    BY OneMore
  <2>5. PICK a \in Packages : a = s[k]
    BY <2>4
  <2>6. PICK p \in Seq(Packages) : p = Unsent'
    BY LineNext
  <2>7. PICK h \in Seq(Items) : h = Held(buf, pack)
    BY <1>1, LineNow
  <2>8. Line = Ids(ItemsOf(<<a>> \o p) \o h) /\ Line' = Ids(ItemsOf(p) \o h)
    BY <1>1, <1>2, <2>1, <2>2, <2>3, <2>4, <2>5, <2>6, <2>7, LineNow, LineNext
  <2>9. Line' = Line \/ \E i \in 1 .. Len(Line) : Line' = SubSeq(Line, i + 1, Len(Line))
    BY <2>8, LineShorter
  <2> QED
    BY <1>1, <2>9 DEF Box!Leave
<1>6. CASE ConnClose
  <2>1. Unsent = SubSeq(s, at + 2, Len(s)) /\ Unsent' = SubSeq(s, (at + 1) + 1, Len(s))
    BY <1>1, <1>3, <1>6 DEF ConnClose, Unsent, Onward
  <2>2. Unsent' = Unsent
    BY <1>4, <2>1
  <2> QED
    BY <1>1, <2>2, LineKept DEF Kept
<1> QED
  BY <1>5, <1>6

\* The next block is taken when the last one has gone.
LEMMA LineMoved ==
  ASSUME OrderInv, SendInv', NextBlock
  PROVE  Line' = Line
<1>1. SendInv /\ writer = "locked" /\ at' = 0 /\ writer' # "failed"
  BY DEF NextBlock, OrderInv
<1>2. PICK s \in Seq(Packages) : s = out.packages
  BY <1>1 DEF SendInv, TypeOK, Blocks
<1>3. Unsent = <<>>
  <2>1. at = Len(s)
    BY <1>1, <1>2 DEF OrderInv, SentInv
  <2>2. Len(s) \in Nat /\ Unsent = SubSeq(s, Len(s) + 1, Len(s))
    BY <1>1, <1>2, <2>1 DEF Unsent
  <2>3. PICK k \in 1 .. Len(s) + 1 : k = Len(s) + 1
    BY <2>2
  <2>4. SubSeq(s, k, Len(s)) = <<>>
    BY <2>3, Suffix
  <2> QED
    BY <2>2, <2>3, <2>4
<1>4. Unsent' = out'.packages
  <2>1. PICK t \in Seq(Packages) : t = out'.packages
    BY DEF SendInv, TypeOK, Blocks
  <2>2. Unsent' = SubSeq(t, 1, Len(t))
    BY <1>1, <2>1 DEF Unsent
  <2>3. 1 \in 1 .. Len(t) + 1
    OBVIOUS
  <2> QED
    BY <2>1, <2>2, <2>3, Suffix
<1>5. \/ out'.packages = <<>> /\ Kept(buf', pack')
      \/ pack' = pack /\ Waiting(buf) = out'.packages \o Waiting(buf')
  BY NextBlockStep
<1>6. CASE out'.packages = <<>> /\ Kept(buf', pack')
  BY <1>1, <1>3, <1>4, <1>6, LineKept
<1>7. CASE pack' = pack /\ Waiting(buf) = out'.packages \o Waiting(buf')
  <2>1. Waiting(buf) \in Seq(Packages)
    BY <1>1, WaitingIs DEF SendInv
  <2>2. Unsent \o Waiting(buf) = Waiting(buf)
    BY <1>3, <2>1, ConcatEmptySeq
  <2>3. Unsent' \o Waiting(buf') = Waiting(buf)
    BY <1>4, <1>7
  <2> QED
    BY <1>7, <2>2, <2>3 DEF Line
<1> QED
  BY <1>5, <1>6, <1>7

\* No blocks, no packages.
LEMMA PackagesOfNone == PackagesOf(<<>>) = <<>>
  BY FlattenEmpty DEF PackagesOf

\* At the start nothing waits.
LEMMA LineInit ==
  ASSUME Init, SendInv
  PROVE  Box!Init
<1>1. Unsent = <<>>
  <2>1. out.packages = <<>> /\ at = 0 /\ writer = "loop"
    BY DEF Init, NoBlock
  <2> QED
    BY <2>1 DEF Unsent
<1>2. Waiting(buf) = <<>>
  <2>1. buf.files = <<>> /\ buf.busy = <<>> /\ buf.inb.packages = <<>>
    BY DEF Init, EmptyBuffer, NoBlock
  <2>2. Waiting(buf) = InLine(<<>>, <<>>, <<>>)
    BY <2>1, WaitingIs DEF SendInv
  <2>3. <<>> \o <<>> = <<>>
    OBVIOUS
  <2>4. PackagesOf(<<>>) = <<>>
    BY PackagesOfNone
  <2> QED
    BY <2>2, <2>3, <2>4 DEF InLine
<1>3. pack.items = <<>>
  BY DEF Init, EmptyPack
<1>4. <<>> \o <<>> = <<>>
  OBVIOUS
<1>5. Ids(<<>>) = <<>>
  BY DEF Ids
<1>6. ItemsOf(<<>>) = <<>>
  BY FlattenEmpty DEF ItemsOf
<1>7. Unsent \o Waiting(buf) = <<>> /\ ItemsOf(Unsent \o Waiting(buf)) = <<>>
  BY <1>1, <1>2, <1>4, <1>6
<1>8. ItemsOf(Unsent \o Waiting(buf)) \o pack.items = <<>>
  BY <1>3, <1>4, <1>7
<1>9. Line = <<>>
  BY <1>5, <1>8 DEF Line
<1> QED
  BY <1>9 DEF Init, Box!Init

\* Every step of the program is one of the outbox, or does not change it.
LEMMA LineStep ==
  ASSUME OrderInv, OrderInv', RoomForPrefixes, [Next]_vars
  PROVE  [Box!Next]_<<given, Line>>
<1> USE DEF Box!Next
<1>0. SendInv /\ SendInv'
  BY DEF OrderInv
<1>1. ASSUME UNCHANGED sending PROVE Unsent' = Unsent
  BY <1>1, SameUnsent DEF sending
<1>2. ASSUME NEW c \in Callers, Call(c) PROVE UNCHANGED <<given, Line>>
  BY <1>0, <1>1, <1>2, CallStep, LineKept DEF Call
<1>3. ASSUME NEW c \in Callers, Attempt(c) PROVE [Box!Next]_<<given, Line>>
  <2>1. Unsent' = Unsent
    BY <1>1, <1>3 DEF Attempt
  <2>2. CASE Kept(buf', pack') /\ given' = given
    BY <1>0, <2>1, <2>2, LineKept
  <2>3. CASE Joined(buf', pack', given + 1) /\ given' = given + 1
    <3>1. Line' = Append(Line, given + 1)
      BY <1>0, <2>1, <2>3, LineLonger
    <3> QED
      BY <2>3, <3>1 DEF Box!Accept
  <2> QED
    BY <1>0, <1>3, <2>2, <2>3, AttemptStep
<1>4. ASSUME NEW c \in Callers, CutRound(c) PROVE [Box!Next]_<<given, Line>>
  <2>1. Unsent' = Unsent
    BY <1>1, <1>4 DEF CutRound
  <2>2. Joined(buf', pack', given') /\ (given' = given \/ given' = given + 1)
    BY <1>0, <1>4, CutStep
  <2>3. Line' = Append(Line, given')
    BY <1>0, <2>1, <2>2, LineLonger
  <2> QED
    BY <2>2, <2>3 DEF Box!Accept, Box!Continue
<1>5. ASSUME NEW n \in Nat, NEW next \in {"join", "up"}, Insist(n, next) PROVE UNCHANGED <<given, Line>>
  BY <1>0, <1>1, <1>5, InsistStep, LineKept DEF Insist, asking
<1>6. CASE doBind
  BY <1>5, <1>6, Sizes DEF doBind
<1>7. CASE CheckLink
  BY <1>5, <1>7 DEF CheckLink
<1>8. CASE Quiet
  BY <1>0, <1>8, QuietStep, CutKept, SameUnsent, LineKept
<1>9. CASE SetAllBufInFile
  <2>1. Unsent' = Unsent
    BY <1>9, SameUnsent DEF SetAllBufInFile
  <2> QED
    BY <1>0, <1>9, <2>1, AllInFileStep, LineKept DEF SetAllBufInFile, asking
<1>10. CASE NextBlock
  BY <1>0, <1>10, LineMoved DEF NextBlock, asking
<1>11. CASE Write \/ WriteFails \/ ConnClose
  BY <1>0, <1>11, LineSent, SentStep
<1>12. CASE UNCHANGED vars
  BY <1>0, <1>1, <1>12, CutKept, LineKept DEF vars, filling, asking
<1> QED
  BY <1>2, <1>3, <1>4, <1>6, <1>7, <1>8, <1>9, <1>10, <1>11, <1>12
     DEF Next, Caller, Client, Sender, Quiet

\* The send thread, its buffer and its callers implement Outbox, for any number of
\* callers, any sizes and limits, and through any loss of the connection: records
\* leave in the order in which they were accepted, pieces of one record together,
\* and none is dropped or taken twice on its way from SendData() to the socket.
THEOREM OutboxRefinement ==
  ASSUME RoomForPrefixes
  PROVE  Spec => IsOutbox
<1>1. Init /\ SendInv => Box!Init
  BY LineInit
<1>2. OrderInv /\ OrderInv' /\ [Next]_vars => [Box!Next]_<<given, Line>>
  BY LineStep
<1> QED
  BY <1>1, <1>2, SendInvariant, OrderInvariant, PTL DEF Spec, IsOutbox, Box!Spec, Box!vars
=============================================================================
