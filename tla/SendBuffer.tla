----------------------------- MODULE SendBuffer -----------------------------
(***************************************************************************)
(* NetIOBuf (communication/baseutils/netiobuf.cpp): the blocks in which    *)
(* packages wait for a connection.  A block is filled (m_pInbuf), waits    *)
(* (m_lstBusy, then the cache of files), is sent and becomes idle again.   *)
(* Its operations are called under m_lock of the send thread, several of   *)
(* them in one step, so they are functions on the whole buffer b.          *)
(*                                                                         *)
(* Lengths and sizes are numbers of bytes, in the units of the constants.  *)
(***************************************************************************)
EXTENDS Integers, Sequences, SequencesExt

CONSTANTS
  MaxMem, MaxFile,   \* iMaxMemBufSize, dwMaxFileSize
  ProperSize,        \* iProperSize
  MaxCount,          \* wMaxBufCount; ZTPSendThread replaces 0
  BlockStep,         \* m_bs of GrowBuf: allocated beyond twice the need
  PrefixSize         \* the length in front of each package of a block

ASSUME SendBufferAssumption ==
  /\ MaxMem \in Nat /\ MaxFile \in Nat /\ ProperSize \in Nat \ {0}
  /\ ProperSize <= MaxMem /\ ProperSize <= MaxFile   \* NetIOBuf::Init()
  /\ MaxCount \in Nat \ {0}
  /\ BlockStep \in Nat /\ PrefixSize \in Nat \ {0}

\* Of a package (below) only len matters here.  A block is allocated bytes,
\* bytes in use, and what they hold; NoBlock is a null pointer.  A buffer b
\* is the mode, m_pInbuf, m_lstBusy, the file cache, and what idle blocks
\* m_lstIdle has, by their sizes.
NoBlock == [size |-> 0, len |-> 0, packages |-> <<>>]
Block(size) == [size |-> size, len |-> 0, packages |-> <<>>]

\* MMapBuf::ReSize(), of memory that grows to twice the need and of a file
\* that grows by a chunk of iMaxMemBufSize.
Grown(file, size, need) ==
  IF file THEN IF size > need THEN size ELSE need + MaxMem
          ELSE IF size >= need THEN size ELSE 2 * need + BlockStep

Resized(block, file, need) == [block EXCEPT !.size = Grown(file, @, need)]

NewBlock(file) == Block(Grown(file, 0, ProperSize))

EmptyBuffer(file) ==
  [file |-> file, inb |-> NoBlock, busy |-> <<>>, files |-> <<>>,
   idle |-> [i \in 1 .. MaxCount |-> NewBlock(file).size]]

\* GetInBuf(): an idle block, or a new one, is filled if none is.
GetInBuf(b) ==
  IF b.inb # NoBlock THEN b
  ELSE IF b.idle = <<>> THEN [b EXCEPT !.inb = NewBlock(b.file)]
  ELSE [b EXCEPT !.inb = Block(Head(b.idle)), !.idle = Tail(@)]

\* Mutant: a full list of waiting blocks drops its oldest one into the
\* cache of files, where it belongs before, not after, those it waits with.
SetIn_Newest(b) ==
  IF Len(b.busy) < MaxCount THEN [b EXCEPT !.busy = Append(@, b.inb), !.inb = NoBlock]
  ELSE IF b.file THEN [b EXCEPT !.files = Append(@, b.inb), !.inb = NoBlock]
  ELSE b

\* SetIn(): the block that was filled waits.  A full list makes room by
\* moving its oldest block to the cache of files, if there is one; otherwise
\* nothing happens (false).
SetIn(b) ==
  IF Len(b.busy) < MaxCount THEN [b EXCEPT !.busy = Append(@, b.inb), !.inb = NoBlock]
  ELSE IF b.file THEN [b EXCEPT !.files = Append(@, Head(b.busy)),
                                !.busy = Append(Tail(@), b.inb), !.inb = NoBlock]
  ELSE b

\* Expand(): the block that is filled grows to need bytes, or, if that is
\* beyond the limit, waits and is replaced.
Expand(b, need) ==
  LET next  == GetInBuf(SetIn(b))
      fresh == [next EXCEPT !.inb = Block(Grown(b.file, @.size, ProperSize))]
  IN  IF need <= (IF b.file THEN MaxFile ELSE MaxMem)
        THEN [ok |-> TRUE, buf |-> [b EXCEPT !.inb = Resized(@, b.file, need)]]
      ELSE IF SetIn(b) = b THEN [ok |-> FALSE, buf |-> b]
      ELSE [ok |-> TRUE, buf |-> fresh]

HasRoom(b, n) == b.inb.len + n <= b.inb.size

\* GetCrntInBufAndTest(): room for n more bytes in the block that is filled.
Room(b, n) ==
  LET c == GetInBuf(b)
      x == Expand(c, c.inb.len + n)
  IN  IF HasRoom(c, n) THEN [ok |-> TRUE, buf |-> c]
      ELSE IF x.ok /\ HasRoom(x.buf, n) THEN x
      ELSE [ok |-> FALSE, buf |-> x.buf]

\* What the callers do with the room: length and package are copied into it.
Filled(block, p) ==
  [size |-> block.size, len |-> block.len + PrefixSize + p.len, packages |-> Append(block.packages, p)]

Put(b, p) == [b EXCEPT !.inb = Filled(@, p)]

\* Empty().
Empty(b) == b.files = <<>> /\ b.busy = <<>> /\ b.inb.len = 0

\* GetOutBuf(): the oldest block, and the buffer without it.
GetOutBuf(b) ==
  IF b.files # <<>> THEN [out |-> Head(b.files), buf |-> [b EXCEPT !.files = Tail(@)]]
  ELSE IF b.busy # <<>> THEN [out |-> Head(b.busy), buf |-> [b EXCEPT !.busy = Tail(@)]]
  ELSE [out |-> b.inb, buf |-> [b EXCEPT !.inb = NoBlock]]

\* Mutant: idle blocks are kept, however many there are.
FreeBuf_KeepAll(b, block) ==
  IF block # NoBlock /\ block.size <= MaxMem THEN [b EXCEPT !.idle = Append(@, block.size)] ELSE b

\* FreeBuf(): a block that was sent is idle again, unless it has grown too
\* big or there are enough.
FreeBuf(b, block) ==
  IF block # NoBlock /\ block.size <= MaxMem /\ Len(b.idle) < MaxCount
    THEN [b EXCEPT !.idle = Append(@, block.size)]
    ELSE b

\* SetAllBufInFile().
AllInFile(b) == IF b.file THEN [b EXCEPT !.files = @ \o b.busy, !.busy = <<>>] ELSE b

\* The packages of a buffer, the oldest first.
Waiting(b) ==
  FlattenSeq([i \in DOMAIN (b.files \o b.busy) |-> (b.files \o b.busy)[i].packages]) \o b.inb.packages

------------------------------------------------------------------------------
Items    == [id : Nat, of : Nat, from : Int, to : Int]
Packages == [kind : {"records", "command"}, len : Nat, seg : BOOLEAN, items : Seq(Items)]
Blocks   == [size : Nat, len : Nat, packages : Seq(Packages)]
Buffers  == [file : BOOLEAN, inb : Blocks, busy : Seq(Blocks), files : Seq(Blocks), idle : Seq(Nat)]

\* A block holds no more than its size, which ReSize() bounds, and bytes in
\* use are those of packages.
BlockInv(file, block) ==
  /\ block.len <= block.size
  /\ block.len > 0 <=> block.packages # <<>>
  /\ ~file => block.size <= 2 * MaxMem + BlockStep

\* "Two lists of blocks, each of NetBufCount" (netiobuf.h): only the cache
\* of files, if there is one, is longer.
BufferInv(b) ==
  /\ b \in Buffers
  /\ Len(b.busy) <= MaxCount /\ Len(b.idle) <= MaxCount
  /\ ~b.file => b.files = <<>>
  /\ BlockInv(b.file, b.inb)
  /\ \A i \in DOMAIN b.busy : BlockInv(b.file, b.busy[i])
  /\ \A i \in DOMAIN b.files : BlockInv(b.file, b.files[i])
  /\ \A i \in DOMAIN b.idle : BlockInv(b.file, Block(b.idle[i]))
=============================================================================
