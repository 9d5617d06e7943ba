----------------------------- MODULE FileCache ------------------------------
(***************************************************************************)
(* The blocks of NetIOBuf down to their bytes (netiobuf.cpp, mmap.cpp,     *)
(* growbuf.cpp).  SendBuffer says what they are for; here a block is       *)
(* memory that GrowBuf allocates, or a file that MMapFile maps, each with  *)
(* what the object believes of its size, and the lists are deques of       *)
(* pointers with counts of their own.  Every operation gives what the one  *)
(* of SendBuffer gives, as long as memory and files grow when asked to.    *)
(*                                                                         *)
(* Offsets are bytes; the length in front of a package is one cell.  That  *)
(* a page reaches beyond what was asked for is left out: nothing may be    *)
(* written there.                                                          *)
(***************************************************************************)
EXTENDS Integers, FiniteSets, Sequences, SequencesExt, Functions, TLC

CONSTANTS MaxMem, MaxFile, ProperSize, MaxCount, BlockStep,
          PutLengths, MaxPuts    \* bounds: packages that are put

Prefix == 1

Buf == INSTANCE SendBuffer WITH PrefixSize <- Prefix

VARIABLE cache

NULL == 0

\* A block: m_alloc (of GrowBuf, or of MMapBuf with m_iSize of its file), the
\* bytes in use, how much of the file is mapped (m_pView, m_iMappedSize), and
\* what the memory or the file really holds.
NewMMapBuf == [alloc |-> 0, used |-> 0, view |-> 0, bytes |-> <<>>]

Extended(bytes, n) == [i \in 1 .. n |-> IF i <= Len(bytes) THEN bytes[i] ELSE 0]

\* Mutant: memory is allocated for the need alone.
GrowBufReSize_Exact(k, n, how) ==
  IF k.alloc >= n THEN [ok |-> TRUE, block |-> [k EXCEPT !.used = n]]
  ELSE [ok |-> how # "none",
        block |-> [k EXCEPT !.alloc = 2 * n + BlockStep, !.used = n, !.bytes = Extended(@, n)]]

\* GrowBuf::ReSize().  Where realloc() fails there may be memory for the
\* need alone ("small"), or none; m_alloc has grown already.
GrowBufReSize(k, n, how) ==
  LET alloc == 2 * n + BlockStep IN
  IF k.alloc >= n THEN [ok |-> TRUE, block |-> [k EXCEPT !.used = n]]
  ELSE [ok |-> how # "none",
        block |-> [k EXCEPT !.alloc = alloc, !.used = n,
                            !.bytes = CASE how = "ok"    -> Extended(@, alloc)
                                        [] how = "small" -> Extended(@, n)
                                        [] OTHER         -> @]]

\* MMapFile::ReSize() behind that of MMapBuf: the view is given up, and the
\* last byte written makes the file as long as m_iSize, which has grown.
MMapFileReSize(k, n, how) ==
  LET alloc == n + MaxMem IN
  IF k.alloc > n THEN [ok |-> TRUE, block |-> k]
  ELSE [ok |-> how = "ok",
        block |-> [k EXCEPT !.alloc = alloc, !.view = 0,
                            !.bytes = IF how = "ok" THEN Extended(@, alloc) ELSE @]]

ReSizeBlock(file, k, n, how) == IF file THEN MMapFileReSize(k, n, how) ELSE GrowBufReSize(k, n, how)

ReSize(s, n, how) ==
  LET r == ReSizeBlock(s.file, s.block[s.in], n, how) IN
  [ok |-> r.ok,
   s  |-> [s EXCEPT !.block[s.in] = r.block,
                    !.failed = IF how # "ok" /\ r.block.alloc # s.block[s.in].alloc
                               THEN @ \cup {"grow"} ELSE @]]

SetLen(s, n) == [s EXCEPT !.block[s.in].used = n]

\* Get(): GetAligned() maps all of the file, unless it is mapped.
Get(s, id) ==
  IF s.file /\ s.block[id].view = 0 THEN [s EXCEPT !.block[id].view = s.block[id].alloc] ELSE s

\* MMapBuf::release().
Release(s, id) == [s EXCEPT !.block[id].view = 0]

-----------------------------------------------------------------------------
(* The lists.  The counts are those of NetBufInfo that something keeps:    *)
(* blocks and their bytes in use, or allocated for idle ones, and the      *)
(* bytes in the cache of files.                                            *)

SetBusyBuf(s) ==
  [s EXCEPT !.busy = Append(@, s.in), !.in = NULL,
            !.info.busy = [num |-> @.num + 1, len |-> @.len + s.block[s.in].used]]

GetBusyBuf(s) ==
  [s EXCEPT !.busy = Tail(@),
            !.info.busy = [num |-> @.num - 1, len |-> @.len - s.block[Head(s.busy)].used]]

SetIdleBuf(s, id) ==
  [s EXCEPT !.idle = Append(@, id),
            !.info.idle = [num |-> @.num + 1, len |-> @.len + s.block[id].alloc]]

GetIdleBuf(s) ==
  [s EXCEPT !.in = Head(s.idle), !.idle = Tail(@), !.block[Head(s.idle)].used = 0,
            !.info.idle = [num |-> @.num - 1, len |-> @.len - s.block[Head(s.idle)].alloc]]

\* ForceFileCache::SetFileIn(): the oldest block that waits.
SetFileIn(s) ==
  LET id == Head(s.busy) IN
  [Release(GetBusyBuf(s), id) EXCEPT !.cached = Append(@, id),
                                     !.info.cached = @ + s.block[id].used]

\* FileCacheManage::GetFileDesc().
GetFileDesc(s) ==
  [s EXCEPT !.out = Head(s.cached), !.cached = Tail(@),
            !.info.cached = @ - s.block[Head(s.cached)].used]

\* GetNewBuf(): a block with a file of its own, by MakeFileName().  One that
\* cannot be made is deleted; the file it may have opened stays.
GetNewBuf(s, how) ==
  LET id == s.count + 1
      r  == ReSizeBlock(s.file, NewMMapBuf, ProperSize, how)
      named == [s EXCEPT !.count = id, !.disk = IF s.file THEN @ \cup {id} ELSE @]
  IN IF r.ok
     THEN [named EXCEPT !.block = (id :> [r.block EXCEPT !.used = 0]) @@ @, !.in = id,
                        !.failed = IF how = "ok" THEN @ ELSE @ \cup {"grow"}]
     ELSE [named EXCEPT !.failed = @ \cup {"new"}]

GetInBuf(s, how) ==
  IF s.in # NULL THEN s
  ELSE IF s.idle # <<>> THEN GetIdleBuf(s)
  ELSE GetNewBuf(s, how)

-----------------------------------------------------------------------------
(* What ZTPSendThread calls.  how says what becomes of the requests for    *)
(* memory or disk a call makes: of one for a new block, and of others.     *)

SetIn(s) ==
  IF Len(s.busy) < MaxCount THEN SetBusyBuf(s)
  ELSE IF s.file THEN SetBusyBuf(SetFileIn(s))
  ELSE s

Refused(s) == [ok |-> FALSE, s |-> s]

\* Mutant: the block goes on with the length ReSize() left it.
AtLength_Long(resized, len) == resized

\* ReSize() may change the length, which is set behind it.
AtLength(resized, len) ==
  IF resized.ok THEN [resized EXCEPT !.s = SetLen(@, len)] ELSE resized

\* Expand() beyond the limit goes on with the next block.
InNextBlock(next, how) ==
  IF next.in = NULL THEN Refused(next) ELSE AtLength(ReSize(next, ProperSize, how.more), 0)

Expand(s, need, how) ==
  IF need <= (IF s.file THEN MaxFile ELSE MaxMem)
    THEN AtLength(ReSize(s, need, how.more), s.block[s.in].used)
  ELSE IF Len(s.busy) >= MaxCount /\ ~s.file THEN Refused(s)
  ELSE InNextBlock(GetInBuf(SetIn(s), how.new), how)

HasRoom(s, n) == s.block[s.in].used + n <= s.block[s.in].alloc

Mapped(s) == [ok |-> TRUE, s |-> Get(s, s.in)]

\* The test that follows Expand().
Tested(expanded, n) ==
  IF expanded.ok /\ HasRoom(expanded.s, n) THEN Mapped(expanded.s) ELSE Refused(expanded.s)

RoomIn(s, n, how) ==
  IF s.in = NULL THEN Refused(s)
  ELSE IF HasRoom(s, n) THEN Mapped(s)
  ELSE Tested(Expand(s, s.block[s.in].used + n, how), n)

GetCrntInBufAndTest(s, n, how) == RoomIn(GetInBuf(s, how.new), n, how)

\* What the callers copy behind the bytes in use, and the length they set.
Write(s, cells) ==
  LET k   == s.block[s.in]
      end == k.used + Len(cells)
  IN IF end > Len(k.bytes) \/ (s.file /\ end > k.view)
     THEN [SetLen(s, end) EXCEPT !.wrong = TRUE]
     ELSE [s EXCEPT !.block[s.in].bytes = [i \in DOMAIN @ |->
                      IF i \in k.used + 1 .. end THEN cells[i - k.used] ELSE @[i]],
                    !.block[s.in].used = end]

\* SendPacket() and addPkgToSendBuf().
Copied(room, package) ==
  IF room.ok THEN Write(room.s, <<Len(package)>> \o package) ELSE room.s

Put(s, package, how) == Copied(GetCrntInBufAndTest(s, Prefix + Len(package), how), package)

FreeBuf(s) ==
  LET k == s.block[s.out]
      idle == [Release(s, s.out) EXCEPT !.block[s.out].used = 0, !.out = NULL]
  IN IF s.out = NULL THEN s
     ELSE IF k.alloc <= MaxMem /\ Len(s.idle) < MaxCount THEN SetIdleBuf(idle, s.out)
     ELSE [s EXCEPT !.block = Restrict(@, DOMAIN @ \ {s.out}), !.disk = @ \ {s.out}, !.out = NULL]

Empty(s) == s.cached = <<>> /\ s.busy = <<>> /\ (s.in = NULL \/ s.block[s.in].used = 0)

GetOutBuf(s) ==
  IF s.cached # <<>> THEN GetFileDesc(s)
  ELSE IF s.busy # <<>> THEN [GetBusyBuf(s) EXCEPT !.out = Head(s.busy)]
  ELSE [s EXCEPT !.out = s.in, !.in = NULL]

RECURSIVE SetAllBufInFile(_)
SetAllBufInFile(s) == IF s.file /\ s.busy # <<>> THEN SetAllBufInFile(SetFileIn(s)) ELSE s

\* Init(): idle blocks up to wMaxBufCount.
RECURSIVE WithIdle(_, _)
WithIdle(s, n) ==
  IF n = 0 THEN s
  ELSE LET new == GetNewBuf(s, "ok") IN WithIdle([SetIdleBuf(new, new.in) EXCEPT !.in = NULL], n - 1)

NewNetIOBuf(file) ==
  WithIdle([file |-> file, block |-> <<>>, in |-> NULL, out |-> NULL, busy |-> <<>>, idle |-> <<>>,
            cached |-> <<>>, count |-> 0, disk |-> {},
            info |-> [busy |-> [num |-> 0, len |-> 0], idle |-> [num |-> 0, len |-> 0], cached |-> 0],
            puts |-> 0, failed |-> {}, wrong |-> FALSE], MaxCount)

\* ~NetIOBuf(): the blocks it deletes, in this order.  Their files stay.
Deleted(s) ==
  s.cached \o s.busy \o s.idle \o SelectSeq(<<s.in, s.out>>, LAMBDA id : id # NULL)

-----------------------------------------------------------------------------
\* There is no "small" growth of a file.
Outcomes(s) ==
  LET all == IF s.file THEN {"ok", "none"} ELSE {"ok", "small", "none"}
  IN [new : all, more : all]

AllOk == [new |-> "ok", more |-> "ok"]

Package(s, n) == [i \in 1 .. n |-> s.puts + 1]

PutPackage ==
  \E n \in PutLengths, how \in Outcomes(cache) :
    /\ cache.puts < MaxPuts
    /\ cache' = [Put(cache, Package(cache, n), how) EXCEPT !.puts = @ + 1]

\* doSend(): the block before is done with, and the next one mapped to be
\* sent, if the connection is there.
SendNext ==
  LET Out(taken) == Get(taken, taken.out)
      After(freed) == IF Empty(freed) THEN {freed} ELSE {freed, Out(GetOutBuf(freed))}
  IN cache' \in After(FreeBuf(cache))

\* doSend() without a connection.
CloseNext == cache.idle = <<>> /\ cache' = SetAllBufInFile(cache)

Init == cache \in {NewNetIOBuf(file) : file \in BOOLEAN}
Next == PutPackage \/ SendNext \/ CloseNext

-----------------------------------------------------------------------------
(* The buffer of SendBuffer this is.                                       *)

\* The packages in the bytes of a block.
RECURSIVE Packages(_)
Packages(cells) ==
  IF cells = <<>> THEN <<>>
  ELSE LET n == IF Head(cells) < Len(cells) THEN Head(cells) ELSE Len(cells) - 1
       IN <<[len |-> Head(cells), data |-> SubSeq(cells, 2, n + 1)]>>
          \o Packages(SubSeq(cells, n + 2, Len(cells)))

AsBlock(s, id) ==
  IF id = NULL THEN Buf!NoBlock
  ELSE LET k == s.block[id]
       IN [size |-> k.alloc, len |-> k.used, packages |-> Packages(Extended(k.bytes, k.used))]

AsBuffer(s) ==
  LET All(ids) == [i \in DOMAIN ids |-> AsBlock(s, ids[i])] IN
  [file |-> s.file, inb |-> AsBlock(s, s.in), busy |-> All(s.busy), files |-> All(s.cached),
   idle |-> [i \in DOMAIN s.idle |-> s.block[s.idle[i]].alloc]]

\* A package is put as SendBuffer puts it; where there is no new block for
\* it, nothing is lost.
PutsAs(s, room, package) ==
  AsBuffer(Put(s, package, AllOk))
    = IF room.ok THEN Buf!Put(room.buf, [len |-> Len(package), data |-> package]) ELSE room.buf

RefusesAs(s, a, refused) ==
  "new" \in refused.failed \ s.failed => AsBuffer(refused) \in {a, Buf!SetIn(Buf!GetInBuf(a))}

\* The next block is the one SendBuffer takes.
TakesAs(taken, next) == AsBlock(taken, taken.out) = next.out /\ AsBuffer(taken) = next.buf

\* Every operation, from a state s that is the buffer a.
ActsAs(s, a, freed) ==
  /\ \A n \in PutLengths :
       /\ PutsAs(s, Buf!Room(a, Prefix + n), Package(s, n))
       /\ RefusesAs(s, a, Put(s, Package(s, n), [AllOk EXCEPT !.new = "none"]))
  /\ AsBuffer(freed) = Buf!FreeBuf(a, AsBlock(s, s.out))
  /\ Empty(s) = Buf!Empty(a)
  /\ Empty(freed) \/ TakesAs(GetOutBuf(freed), Buf!GetOutBuf(AsBuffer(freed)))
  /\ AsBuffer(SetAllBufInFile(s)) = Buf!AllInFile(a)

\* Every block is in one place, so that it is deleted once, and the counts
\* are what they count.
CountsRight(s) ==
  LET Sum(ids, Of(_)) == FoldLeft(LAMBDA sum, id : sum + Of(s.block[id]), 0, ids)
      Used(k)  == k.used
      Alloc(k) == k.alloc
  IN /\ IsInjective(Deleted(s)) /\ ToSet(Deleted(s)) = DOMAIN s.block
     /\ s.info = [busy |-> [num |-> Len(s.busy), len |-> Sum(s.busy, Used)],
                  idle |-> [num |-> Len(s.idle), len |-> Sum(s.idle, Alloc)],
                  cached |-> Sum(s.cached, Used)]

\* Nothing is written outside of memory and files, and every operation gives
\* what that of SendBuffer gives, as long as all grow when asked; blocks that
\* are sent take their files with them.
BlocksSound ==
  /\ CountsRight(cache)
  /\ cache.failed = {} => cache.disk = IF cache.file THEN DOMAIN cache.block ELSE {}
  /\ "grow" \notin cache.failed => ~cache.wrong /\ ActsAs(cache, AsBuffer(cache), FreeBuf(cache))
=============================================================================
