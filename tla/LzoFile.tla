------------------------------ MODULE LzoFile -------------------------------
(***************************************************************************)
(* Files of compressed blocks (LZOFileWriter and LZOFileReader of          *)
(* communication/baseutils/lzowrapper.h), as functions of the writer's and *)
(* the reader's state.  What is written is a sequence of bytes.  A block   *)
(* is what it decompresses to: its place in the file, the real offset, is  *)
(* its number in the file, counted from 1; 0 is an offset that is not set. *)
(* The table holds for every block its real and its virtual offset, that   *)
(* is the bytes before it, and behind the last block the end of both.      *)
(***************************************************************************)
EXTENDS Integers, Sequences

CONSTANTS
  BlockSize, \* m_nBlockSize, BLOCKSIZE
  MaxBlocks  \* 65535, the last index of m_blockoffset

ASSUME LzoFileAssumption == {BlockSize, MaxBlocks} \subseteq Nat \ {0}

------------------------------------------------------------------------------
\* LZOFileWriter: m_pInBuf, what is in the file, m_blockoffset, m_nTotalSize.
\* m_currentBlock is the length of the table.

NewWriter == [buf |-> <<>>, blocks |-> <<>>, table |-> <<>>, total |-> 0]

\* Mutant: the block is counted before its offset is recorded.
CompressWrite_late(w) ==
  [buf    |-> <<>>,
   blocks |-> Append(w.blocks, w.buf),
   table  |-> Append(w.table, <<Len(w.blocks) + 1, w.total + Len(w.buf)>>),
   total  |-> w.total + Len(w.buf)]

CompressWrite(w) ==
  [buf    |-> <<>>,
   blocks |-> Append(w.blocks, w.buf),
   table  |-> Append(w.table, <<Len(w.blocks) + 1, w.total>>),
   total  |-> w.total + Len(w.buf)]

Buffered(w, bytes) == [w EXCEPT !.buf = @ \o bytes]

\* One turn of the loop of a write that is larger than a block: a piece of what
\* is left goes into a block of its own.
Piece(s) ==
  LET n == IF Len(s.left) > BlockSize THEN BlockSize ELSE Len(s.left)
  IN IF s.left = <<>> THEN s
     ELSE [writer |-> CompressWrite(Buffered(s.writer, SubSeq(s.left, 1, n))),
           left   |-> SubSeq(s.left, n + 1, Len(s.left))]

\* The loop, which takes a byte at least in every turn.
Pieces(w, bytes) ==
  LET loop[k \in 0 .. Len(bytes)] ==
        IF k = 0 THEN [writer |-> w, left |-> bytes] ELSE Piece(loop[k - 1])
  IN loop[Len(bytes)].writer

Refused(w) == Len(w.table) >= MaxBlocks

\* Write()
Written(w, bytes) ==
  LET room == BlockSize - Len(w.buf) IN
  IF Refused(w) THEN w
  ELSE IF Len(bytes) > BlockSize
  THEN IF w.buf = <<>> THEN Pieces(w, bytes)
       ELSE Pieces(CompressWrite(Buffered(w, SubSeq(bytes, 1, room))),
                   SubSeq(bytes, room + 1, Len(bytes)))
  ELSE IF Len(bytes) > room THEN Buffered(CompressWrite(w), bytes)
  ELSE Buffered(w, bytes)

\* Close(): the file, with the number of blocks, m_blockNum.
Closed(w) ==
  LET last == IF w.buf = <<>> THEN w ELSE CompressWrite(w)
  IN [num    |-> Len(last.table),
      blocks |-> last.blocks,
      table  |-> Append(last.table, <<Len(last.blocks) + 1, last.total>>)]

\* What Close() enters is still in the table.
Fits(w) == Len(Closed(w).table) <= MaxBlocks + 1

------------------------------------------------------------------------------
\* LZOFileReader: m_currentBlock, m_pOutBuf, m_nOutBufOffset, m_isEnd and the
\* position in the file.

NewReader == [current |-> 0, out |-> <<>>, off |-> 0, isEnd |-> FALSE, fpos |-> 1]

RealOffset(file, k) == IF k < Len(file.table) THEN file.table[k + 1][1] ELSE 0
VirtualOffset(file, k) == file.table[k + 1][2]

\* GenOffsetMap(): the total size is the virtual offset of the end.
Size(file) == VirtualOffset(file, file.num)

DeCompressRead(file, r) ==
  IF RealOffset(file, r.current + 1) - RealOffset(file, r.current) <= 0
  THEN [r EXCEPT !.out = <<>>, !.off = 0, !.isEnd = TRUE]
  ELSE [r EXCEPT !.out = file.blocks[r.fpos], !.off = 0,
                 !.current = @ + 1, !.fpos = @ + 1]

\* Mutant: a block that is there already is only found when it is the next.
SameBlock_next(r, block) == block = r.current

SameBlock(r, block) == block = r.current - 1

\* Seek() from the beginning of the file: the last block that does not begin
\* behind the offset.
Seek(file, r, offset) ==
  IF offset > Size(file) THEN [r EXCEPT !.isEnd = TRUE]
  ELSE LET block == CHOOSE k \in 0 .. file.num :
                      /\ VirtualOffset(file, k) <= offset
                      /\ \A j \in 0 .. file.num :
                           VirtualOffset(file, j) <= offset => j <= k
           within == offset - VirtualOffset(file, block)
       IN IF SameBlock(r, block) THEN [r EXCEPT !.off = within, !.isEnd = FALSE]
          ELSE [DeCompressRead(file, [r EXCEPT !.current = block,
                                               !.fpos = RealOffset(file, block)])
                EXCEPT !.off = within]

\* One turn of the loop in Read(): what is in the buffer, then the next block.
\* Bytes that were taken at the end of the file stay in the buffer.
ReadOn(file, s) ==
  LET r     == s.reader
      taken == SubSeq(r.out, r.off + 1, Len(r.out)) IN
  IF s.over THEN s
  ELSE IF Len(r.out) - r.off >= s.need
  THEN [reader |-> [r EXCEPT !.off = @ + s.need], need |-> 0, over |-> TRUE,
        bytes  |-> s.bytes \o SubSeq(r.out, r.off + 1, r.off + s.need)]
  ELSE [reader |-> IF r.isEnd THEN r ELSE DeCompressRead(file, r),
        need   |-> s.need - Len(taken),
        over   |-> r.isEnd,
        bytes  |-> s.bytes \o taken]

\* Read(), whose loop ends when the blocks do.
Read(file, r, need) ==
  LET turns == Len(file.blocks) + 3
      loop[k \in 0 .. turns] ==
        IF k = 0 THEN [reader |-> r, need |-> need, over |-> FALSE, bytes |-> <<>>]
        ELSE ReadOn(file, loop[k - 1])
  IN loop[turns]
=============================================================================
