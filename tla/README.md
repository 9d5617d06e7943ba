# Verification of cepframe

cepframe is a framework for complex event processing in C++: a *processing
node* loads plug-ins ("processing elements", PEs), routes events between them
through a bit matrix, and sends the rest to other nodes over TCP or in files.
This directory holds TLA+ models of it, the TLC configurations that check them
on small instances, and theorems about them checked by TLAPS.  `src/x` below is
the file `x` of the repository; `processing/`, `communication/` and `baseutils/`
are the directories of these names under `src/src` and `src/include`.

## 1. The system

| part | state | operations | what is hard |
|---|---|---|---|
| `circular_bounded_queue` (`src/include/circular_queue.hpp`): what PE workers share | ring, two indices, two wrapping counters, three mutexes, two condition variables | push, pop; each blocking, timed, trying; several or a single thread per side | check and use under different locks; unlocked indices and counters; notification outside the lock |
| `cep::router` (`processing/router.cpp`) | two bit matrices, id-to-index map, arrays of local and remote PEs | `rebuild`, `set_routing_`, `set_node`, `routing4received`, `routing4processed` | one PE has an id, a unified index and an array index; no lock |
| `pn` (`processing/pn.cpp`), life cycle | maps of PEs, `running_` | `reload`, `startup`, `shutdown`, `destroy` | every loop can return in the middle; network threads run before `reload()` |
| `pn`, distribution | the event and who may delete it | `push`, `distribute4received`, `distribute4processed` | one event, several recipients, each on a thread of its own |
| events and their datasets (`event.hpp`, `dataset.hpp`, `const_dataset.hpp`) | an event owns datasets, these recordsets, these records; tables with their rows and indexes; metadata by id | copy, assign, insert, clear, find | copies for every PE; back-pointers; things shared by id |
| event buffers, numbers (`buffer_metadata.cpp`, `dynamic_struct.hpp`, `logic_function.cpp`, `utils_cstr2nbr.cpp`, `utils_nbr2str.cpp`) | a block of bytes laid out like a C struct | `rebuild`, set and get, comparison, conversion to and from text | alignment and virtual fields; widths and signs |
| index structures (`processing/idx_*.cpp`, `trie_map_tree.cpp`, `forest_map.cpp`) | multimap, trie, forest over the rows of a table | rebuild, select | patterns with stars; keys put together from columns |
| `CEPDispatch` (`communication/CEPDispatch.cpp`) | `m_connmap`, `m_nodemap`, `m_smatrix`, `m_client` | `doConnect`, `doClose`, `doMasterCommand`, `doSlaveRequest`, `dispatch`, `requestConnection`, `run` | three locks, one thread per link and end, links that break and come back |
| `SMatrixOL` (`communication/SMatrixOL.h`) | orthogonal lists of `<server, client>` cells | `insert`, `clear` | rows and columns are linked in separate walks |
| `TCPServer`, `TCPClientNode`, `ZTPServer`, `ZTPServerHandler` (`baseutils/`) | list of clients, a thread per connection, a send thread per handler | accept, `CheckClients`, `OnClose`, `SendData` to all, replies | who deletes a connection while who uses it; three locks; time-outs |
| ZTP, sending (`baseutils/ZTPSendThread.cpp`, `ZTPClient.cpp`) | the package that is filled, the block that is sent, `ConnStat`, `m_connected`, the socket | `SendData`, `SendPacket`, `doSend`, `run`, `doBind` | callers, send thread and client thread share the buffer, the state of the connection and the socket |
| `NetIOBuf`, `MMapBuf` (`netiobuf.cpp`, `mmap.cpp`, `growbuf.cpp` there) | lists of idle and waiting blocks, the block that is filled, cache of files | `SetIn`, `Expand`, `GetOutBuf`, `FreeBuf`, `SetAllBufInFile` | order through a list and a cache of files, limits on blocks |
| ZTP, receiving (`ZTPClient.cpp`, `ZTPServerHandler.cpp`, `TCPSocket.cpp`) | the package that is read, the record that is put together | `ReadAll`, `OnRead`, `doRead`, `doSendRecord`, `OnIdle` | bytes arrive in any pieces; encryption and compression by package; records over several packages |
| event files (`processing/event_file_handler.cpp`, `file_lock_counter.hpp`) | directories of commands, data files, counter files | write and post, scan, hand over, archive | shared by processes that may die anywhere |
| content of event files (`event2text.cpp`, `baseutils/lzowrapper.h`) | compressed blocks with a table, or lines of text; `CLzoMem` for data in parts | write, read, seek | events over the ends of blocks; quotes; CR LF over the end of a buffer |
| statistics by months (`event_file_handler.cpp`, `utils_time.cpp`) | commands by slice of months and of days | `GetReadyCmdsForMonth` | calendar |
| node set-up (`main.cpp`, `CEPDispatch::initConfig`, `config_metadata.cpp`, `system_config.cpp`, `ConnConfig`, `dlhandler`, `pe_factory`) | settings, metadata of events, open libraries | `reload_metadata`, `loadFile`, `open`, `close` | documents read twice by different code; libraries shared by PEs |
| XML (TinyXML, `utils_xml.cpp`) | trees of nodes with rings of attributes | parse, print, edit, copy, find | six pointers per node; entities; positions |
| logging, signals, LZO itself, test programs | - | - | no state that others read, or third party |

How they interact.  `main()` starts `CEPDispatch` (its threads call
`pn::push()` for every event that arrives) and then `pn::reload()`, which fills
the router.  `pn::push()` looks the recipients up, hands copies to the local
PEs' queues, and serialises the event for remote PEs through
`CEPDispatch::dispatch()`.  A PE's worker takes events from its
`circular_bounded_queue` and passes results on with `distribute4processed()`.
`CEPDispatch` runs a ZTP server and ZTP clients; every connection has a
handler and a send thread.  On the master it keeps who serves whom in an
`SMatrixOL`.  PEs of different processes hand each other events in files: one
writes data files and posts commands in the directories of the readers, each reader
scans its own, and a counter beside the data says how many still need it.

What makes each part correct is stated with its module below; the places where
it could go wrong are the hazards of `PROJECT.json`, each with its line.
Hazards of this code that are known and not in that list, since nothing here says
more of them: a lookup between the new counts and the new arrays of `rebuild()`
(`router.cpp:31`); `destroy()` leaves the router's pointers to the PEs it deletes
(`pn.cpp:522`); `push()` sizes its arrays by counts it reads before the lookup
(`pn.cpp:546`); `dispatch()` on the master uses `m_masterclient`, which only slaves
have (`CEPDispatch.cpp:368`); `mt_try_push()` takes `mutexPush_` unconditionally, so it
waits for a blocked `mt_push()` (`circular_queue.hpp:634`).

## 2. Modules

| module | models | kind |
|---|---|---|
| `BoundedQueue` | a bounded FIFO queue whose operations are atomic between call and return | abstract specification |
| `CircularQueue`, `CircularQueueProofs` | every step of the circular queue's operations between two lock operations or shared accesses | detailed, refines `BoundedQueue`; proofs |
| `Router` | the routing table as operators and step relations | used by `ProcessingNode` |
| `ProcessingNode`, `ProcessingNodeProofs` | `reload`, `startup`, `shutdown`, `destroy` over `Router` | composition (EXTENDS); proofs |
| `Distribution` | who owns an event | component; proofs in `ProcessingNodeProofs` |
| `Dispatch`, `DispatchProofs` | master, slaves and links | composition of nodes and links; proofs |
| `PairSet` | a set of pairs that grows | abstract specification |
| `SparseMatrix` | `SMatrixOL::insert`, `clear` | detailed, refines `PairSet`; proofs in `ProcessingNodeProofs` |
| `Outbox` | records that wait in line and leave at its front | abstract specification |
| `SendBuffer` | `NetIOBuf` as functions on a buffer | used by `SendThread` |
| `FileCache` | `NetIOBuf`, `MMapBuf`, `MMapFile` and `GrowBuf` down to bytes, mapped files and counts | state machine, implements `SendBuffer` |
| `SendThread`, `SendThreadProofs` | callers, client thread, send thread and connection over `SendBuffer` | composition, refines `Outbox`; proofs |
| `Server`, `ServerProofs` | accept loop, connections with handler and send thread, broadcasts, `dispatch()` | composition; proofs |
| `CommandFiles`, `CommandFilesProofs` | one writer, several readers, data, command and counter files | composition; proofs |
| `EventLog` | a log that is written and then read | abstract specification |
| `LzoFile`, `CsvText` | files of compressed blocks, files of text, as functions | used by `EventFile` |
| `EventFile`, `EventFileProofs` | a file of events in one of three formats | composition, refines `EventLog`; proofs |
| `SequenceLemmas` | concatenation, parts of sequences, `FlattenSeq` | lemmas for `SendThreadProofs` and `EventFileProofs` |
| `Frames`, `Receiver` | packages on a connection; records from packages | algorithms |
| `LzoMem` | data compressed and decompressed in parts | algorithm |
| `MonthScan` | calendar and statistics by months | algorithm |
| `Indexes` | `idx_range`, `idx_rbtree`, `idx_trie_tree`, `forest_map` | algorithms |
| `EventBuffer`, `Numbers` | layout, values and comparison of fields; text and numbers | algorithms |
| `Configuration`, `NodeConfig` | metadata, key files, settings, start, plug-ins | algorithms |
| `Dataset` | events with datasets, recordsets and records; tables | state machine over a heap |
| `XmlText` | XML as text | algorithms |
| `Forest` | trees with attributes | abstract specification |
| `XmlTree` | the nodes of TinyXML | state machine over a heap, refines `Forest` |
| `MC*` | the instance TLC checks: sets, configurations, symmetry; where a cfg says it all (`SparseMatrix`, `SendThread`, `Server`, `CommandFiles`), TLC checks the module itself | |

The algorithms have no behaviour of their own.  `MCReference` asks each of them
one question per behaviour: `input` is the question, a property says what the
answer must be.  In the behaviours that ask nothing `Dataset`, `XmlTree` or
`FileCache` runs.  All this is one run, `reference`.

### CircularQueue

`pushIndex`, `popIndex`, `pushCount`, `popCount` and `buffer` are the members of
that name; `outer["push"]` and `outer["pop"]` are `mutexPush_` and `mutexPop_`,
`mutex` is `mutex_`, taken only by a thread that has to wait.  `pc` names the
place of each thread: `check` (the test outside the lock), `lock`, `pred`
(the predicate of `wait_for`), `blocked`, `woken`, `expired`, `last` (the
predicate once more after the deadline), `slot`, `count`, `index`, `notify`,
`leave`.  A notification is one step and wakes one blocked thread of the other
side, if there is one; it comes outside `mutex_`, so a thread that has evaluated
its predicate and does not block yet misses it, and what helps it is its deadline.  A
blocked thread may also wake for nothing.  The counters wrap at
`CountRange`, which stands for 2^w; `size()` is their difference modulo
`CountRange`.  The mode of a call (wait, timed, trying) is chosen at the call.

The operation takes effect at its count update: that is the refinement mapping
(`Contents`, `Phase`, `Result`), which needs no history variable.

### Router, ProcessingNode

`Router` keeps the flat bit index `pe_count * (source + 1) + destination` as it
is, since confusing the four ways to address a PE is what can go wrong.  The
arrays hold `Wild` where the code has memory that `new[]` left uninitialised, and
`LookupInv` fails if a lookup returns it.  `ProcessingNode` splits `reload()` at
every PE, every route end and every bit, because network threads may look up in
between.  Whatever the configuration or a plug-in can make fail is an action
of its own which returns there.

### Distribution

An event is the address it lives at and `owner` says who has to delete it: a
thread that distributes, a local PE, or nobody (`Free`).  `Lookups` is any
subset of PEs in array order.  Copies take unused addresses; the last local
recipient gets the event itself; a PE may delete what it has at once.
`MCProcessingNode` holds its instance too: a behaviour of run `node` is about the
routing table or about the events, never both.

### Dispatch

A link is one ZTP connection with two ends.  Each end is `new` (no bind yet),
`bound` or `closed`; `queue[e]` is what end `e` has still to read.  The two ends
close separately.  `connmap` holds ends, not links: `doConnect()` lists every service
from the wanted one to the end of `m_nodemap` (line 487), the one of the node itself
included, nothing in 0x1002 compares the node's own id, and then both ends of one link
are at one node.  `connmap`, `nodemap`, `smatrix`, `clients` are
the members of these names, `ports` says who opened which port, and `want`,
`tries`, `asked` are the local variables of a running `dispatch()`.  A
handler of the master is split wherever it releases a lock; `job` of its link is
what it has still to do, and the link takes no further message before that.
`dial` is what a slave has still to do of a 0x1002, node by node (line 201 takes the
lock for each).

| message | code | action |
|---|---|---|
| `bound` | bind reply | `Bind`, `Order`, `Bound` |
| `start` | 0x1001 | `StartService`, `StartFails` |
| `connect` | 0x1002 | `TakeList`, `Dial` |
| `service` | 0x0001 | `Register`, `Notify` |
| `ask` | 0x0002 | `AnswerAsker`, or `WantedHasNone` then `AskerHasOne`, `TellWanted`, or `NeitherHasOne`, `AskForService` |
| `event` | record | `SendEvent`, `Deliver` |

In `Dispatch` `m_smatrix` is a set of pairs.  That this is right except for
the assertion is what `SparseMatrix` shows.

### SparseMatrix

A row is the sequence of the columns of its nodes, a column that of their rows; a
repeated cell has several nodes.  `Place` is where the walk along a list stops,
`Linked` the list with the new node, and an equal cell is looked for only where
the code looks (`IsFirst`).  `aborted` is the failed assertion.

### SendBuffer, SendThread

A buffer `b` has `inb` (`m_pInbuf`), `busy` (`m_lstBusy`), `files` (the cache of
files, in force mode) and `idle` (`m_lstIdle`, of which only the sizes matter).
A block is its allocated size, the bytes in use, and its packages.  The
operations of `NetIOBuf` are called under `m_lock`, several in a row, so they
are functions that `SendThread` composes: `Room` is `GetCrntInBufAndTest()`,
`Expand` is `NetIOBuf::Expand()`, `Put` what the callers do with the room.

`pack` is `m_pkgBuf`; `seg` is the status in its header, which the code sets in
one place and resets in none.  `out` and `at` are the local state of `doSend()`,
`writer` where it stands.  `isConn` and `everConn` are `ConnStat` and
`ConnTimes() > 0`, `connected` is `m_connected`, `client` is where `run()`
stands.  `Insist` is the loop of `ZTPClient::SendPacket()`.  A caller's
`SendData()` is `Call` (what is refused at once), then `Attempt` per round of
its loop; while a record is cut (`CutRound`), its caller keeps `m_lock`
(`Unlocked`).  Records are numbered as they are accepted (`given`, a history
variable); a package holds pieces of records.  `Line`, the mapping to
`Outbox`, is what is left of the block that is sent, the cache of files, the
list, the block and the package being filled, in this order.

`SendBuffer` says what the blocks are for; `FileCache` has them as they are.  A block
is memory with `m_alloc` and `m_used` (`GrowBuf`) or a file with `m_iSize` and a view
(`MMapFile`), and beside what the object believes of its size there are the `bytes` it
really has.  The lists are deques of pointers, each with the counts of `NetBufInfo`;
a package is a length and bytes.  `PutPackage` is `SendPacket()`, `SendNext` the
start of a round of `doSend()` with the block before given back, `CloseNext` that
of a round without a connection.  Memory and files may fail to grow at any
request.  `AsBuffer` reads the buffer of `SendBuffer` out of lists and bytes, and
in every state each operation must give what the one of `SendBuffer` gives.  So the
sizes, the order and the limits that `SendThread` relies on are those of the code.

What the model says of failures: a write is an error or is taken whole, also on
a connection already lost; nothing is sent again, and `Outbox` says nothing of
what arrives.  `ConnClose` after a failed write comes at any later time, also after
the client has connected again.

### Server

A connection `c` is the place of its thread (`pc`), the socket, its entries in
`m_connmap` (`entries`), the statistics and the send thread (`stat`, `sender`),
the packages in its buffers (`buf`) and `m_sendthreadlock` (`slock`).  `clients`
is the list of `TCPServer`, `bcast` a call of `ZTPServer::SendData()` (which holds
`m_lock` while it is not idle), `disp` a call of `dispatch()` that has found a
handler and holds `m_connmaplock`.  `owed` is the number of binds in the buffer of the
connection's client: `Accept(c, d)` is the client of the lost connection `d` dialling again, with
what it did not send on `d` in front of its new bind.  A handler that is used
after its send thread was deleted is undefined behaviour: the call returns, hangs (`disp` =
`Hung`), or the process ends (`Crash`).  An action is what a thread does between two
points where another can see or change what it uses.

### CommandFiles

The steps are the system calls that another process can observe.  `temp` is the file
that is written, which has no suffix; `data` the finished ones.  `toPost` and `posted`
are the writer's way through the commands and the counter.  A counter file has
several incarnations (`locks`, of which `named` is the one with the name), since one
that was removed lives on for whoever has it open.  What `counting()` writes is
in the buffer of stdio until `fclose()`, behind the end of the `flock`:
reading is one step (`Count`), writing another (`FlushCount`).  `inbox` are the
commands in a reader's directory; `loaded`, `scanned` and `ready` are the maps of
its `FilepathScanner`.

### EventFile, LzoFile, CsvText, LzoMem

A block is what it decompresses to; compression itself is taken as
inverse to decompression.  A file of text is a sequence of characters, read in
pieces of `bufSize`.  `ShownAs` is what the code makes of what it wrote: line
feeds come back as the two characters the code writes for them.  The refinement maps the
file to the log of the events that were accepted.  Characters are codes, six of them special;
what is written by hand without quotes holds no quote, delimiter or end of a line, since the
reader has no other way to tell these from the end of a value (`EventFileAssumption`).
An event has at least one persistent field.  `LzoMem` is the same
compression in memory, with output to a function (push) or to the caller (pull).

### Frames, Receiver

`Frames` works on bytes: what `doSend()` makes of a package, header,
compression and encryption included, then `ReadAll()` over what `recv()` returns,
with pieces, signals and the end of the connection, then `OnRead()` (server) and
`doRead()` (client).  A byte carries the positions of the key it was combined with,
so that encryption by exclusive or is undone only at the right place.
`Receiver` works on packages: `doSendRecord()` puts records together, `OnIdle()` is
the second without data.

### MonthScan, Indexes, EventBuffer, Numbers, Configuration, NodeConfig

Each operator has the name of the function it stands for, where there is one.
Loops are recursive operators over the same local variables.  The widths of
integers and the longest text that is looked at are constants of `Numbers`,
scaled down together; `LongBits` takes the place of `long long`.  Layout in `EventBuffer` is a
set of layouts, because the code sorts fields by position with a sort that leaves
equal ones in any order.

### Dataset, XmlText, XmlTree

`Dataset` and `XmlTree` are heaps with addresses that are used again, so that a
pointer to what was deleted points to something else later.  `twice` records a
second `delete`.  `XmlTree` has the six pointers of a node and the ring of
attributes with its sentinel; `Forest` knows nodes by handles, and the mapping takes
addresses for handles.  `XmlText` is the parser and both printers, over texts of
symbols.

## 3. Runs

| run | instance | properties | what it shows |
|---|---|---|---|
| `queue` | 2 producers, 1 consumer, capacity 2, 2 values, counters modulo 4 | `QueueInv`, `NoSlotRace`, `IsBoundedQueue` | the ring is consistent at every step, slot accesses do not meet, and the queue implements `BoundedQueue` |
| `queue_live` | 2 producers, 1 consumer, capacity 1, counters modulo 2, `FairSpec` | `PushProceeds`, `PopProceeds`, `TimedEnds` | a notification that is missed delays a thread, it does not stop it; timed operations end |
| `node` | PEs 0, 1, 2, 3, 7 (local 0, 1, 2), 4 PE lists, 6 x 6 route lists, 2 reloads; distribution: 2 local PEs, 1 remote, 1 network and 1 worker thread, 5 addresses | `NodeInv`, `LookupInv`, `StartedInv`, `OwnershipInv` | a lookup in the middle of `reload()` reaches exactly the routes set so far; every event has one owner until it is deleted |
| `dispatch` | master, 2 slaves, 3 links, 2 closed ends, 1 service, 1 call of `dispatch()` | `ConnMapInv`, `AddressInv`, `ToldInv` | connection maps hold the live handlers; addresses are true; the client is told of its server whoever comes first |
| `matrix` | 3 ids, 6 nodes | `MatrixInv`, `IsPairSet` | rows and columns agree and are a set of pairs |
| `send` | 1 caller, 2 calls of 2 kinds, both modes, 1 waiting block, 1 lost connection, 1 check-link, `FairSpec` | `SendInv`, `IsOutbox`, `AllSent` | records leave in order and once, within the limits, and with a cache of files all of them leave, whatever happens to the connection |
| `server` | 2 connections of one client or of two, buffers of 1 package, `FairSpec` | `ServerInv`, `HandlersAlive`, `SendsAlive`, `BroadcastEnds`, `LostIsClosed` | no broadcast or reply uses a client or send thread that is gone, `dispatch()` only after several binds on one connection; broadcasts and lost connections come to an end unless a lock was leaked or `dispatch()` hangs in freed memory |
| `files` | 2 readers, 2 files of 2 events, 3 events, `FairSpec` | `FilesInv`, `CounterCovers`, `NoEarlyRemoval`, `WindowWhole`, `Collected` | a data file outlives every command that names it, a window is handed over whole, every command is archived in the end |
| `content` | blocks of 3 bytes, 4 in the table, events of 1, 2, 3 and 5; 2 lines of 2 fields, buffers of 1, 2, 3 and 7 | `TableRight`, `ImplementsLog` | events read back are those written, in order and whole, in three formats |
| `reference` | see below | `MonthsRight`, `IndexesRight`, `ReceiveRight`, `PartsRight`, `FieldsRight`, `NumbersRight`, `ConfigurationRight`, `XmlRight`, `DatasetsSound`, `ImplementsForest` | sequential code does what it is for, over bounded inputs |
| `server_timeout` | 1 connection, `FairSpec` | `SendEnds` | **violated**: see findings |
| `server_binds` | 2 connections, buffers of 1 package | `EntriesAreConnections` | **violated**: see findings |

Every property of a passing run has a mutant: a definition changed as a
plausible bug would change it, under which TLC finds the property violated.
The mutants stand before the definitions they change, with a comment.

### Bounds

- `Capacity`, `CountRange`: a ring of two slots with counters that wrap after
  four values has every relation of full, empty and wrapped indices and
  counters; the state space is closed, so both wrap without limit.  The
  theorems hold for every capacity that is less than the number of values of a
  counter (`CapacityAssumption`); the range need not be a multiple of it.
- `MaxReloads` = 2: the second reload starts from whatever the first left.
- `Addresses`: five, one more than two distributions with a copy each need, so
  addresses are used again.
- `MaxLinks` = 3, `MaxCloses` = 2, `MaxPorts` = 1: the two links to the master
  and one more, which is either the link between the slaves or a reconnection
  while the master still holds the old link.  `MaxCalls`, `MaxQueue` = 1 and
  `Tries` = 1: one event for a node not yet connected, one request on its way.
  A link of a node with itself takes a fourth link and a second service; the
  theorems have any number.
- `send`: in its units a package of 5 has a header of 1 and room for two records
  of 1 or for one of 3; a record of 5 is cut into two packages.  A block of 10
  holds two short packages or one long one, and one waiting block
  (`MaxCount` = 1) makes the list full as soon as a second block is: all the ways of
  `Room` happen.  `BlockStep` = 0 leaves out memory a block has beyond twice
  its need.  `MaxBreaks` = 1 counts connections that the network loses; those
  the server ends by its timeout come in addition.
- `MaxNodes` = 6: six cells of nine, repeated ones included; ids start at 0, that of
  the master.

- `server`: two connections, so that one is freed while the broadcast is at
  the other; buffers of one package, so that they are full at once.
  The second connection may be of the client of the first, and then carries two binds
  if the first was lost with its bind unsent.  The number of binds has no bound of
  its own: every connection adds one.
- `files`: the clock goes to `MaxTime` = 3, past the end of the window (0) and the
  time-out (1).  The writer may die at `CrashPoints` "idle", "new", "post" and "lock", that is
  everywhere but between making the counter and filling it; one reader dies
  and starts again, one batch is given back, one call of the writer fails.  The
  theorems are for any readers, files and bounds.
- `content`: events of 5 bytes go over three blocks; the table of `MaxBlocks` = 4
  is filled to its end; buffers of 1 and 2 characters cut every line everywhere.

In `reference`:

| question | inputs |
|---|---|
| calendar, days | years 1970 to 2105; every day of 1999, 2011, 2012 and 2100, cycles of 1, 3 and 5 months, frequencies of 1, 7 and 30 days |
| month scan | two commands around the turn of years 2012 and 2100 and of February, time-out 1 |
| indexes | 3 range rows with ends 1 to 4; patterns to 4 and texts to 4 characters, two patterns at a time; keys of 2 columns |
| packages | 2 packages with 0 to 3 bytes, compressed or not, encrypted or not, cut every 1, 2, 5 or 20 bytes, with a signal or not, ended after any byte by EOF or an error |
| records | 3 records of lengths 0, 1, 2, 3, 14, 15, 28, 31 in packages of 35: two small ones fit, large ones are cut into three |
| parts | up to 9 bytes in blocks of 3, parts up to 6, compressed data cut at every length up to 9, up to 4 calls that succeed |
| `FileCache` | in memory and with files; 5 packages of 1 or 6 bytes, one block waiting and one idle, limits of 6 in memory and 12 in a file: blocks grow in place, are replaced, wait in the cache three deep, are kept or deleted; every request for room may fail |
| fields | 3 fields of 5 types, positions 1 and 2, real or virtual at 0 or 4; order: 3 texts up to 3 |
| numbers | texts up to 5 of 6 characters; `char`, `short`, `int`, `long` of 3, 4, 6, 8 bits; address texts up to 6, octets up to 3 |
| configuration | 3 metadata elements; XML of 5 elements; key files up to 5 lines; node documents with each setting alone or all of them, with 9 texts, after a full document or not (sizes from 2G on are left out); every set of files `main()` may find; 3 calls on plug-ins, 4 on tables, 3 on metadata |
| XML text | documents with up to 2 children and 2 attributes, one child with one more inside, with or without declaration, condensed or not; all texts of up to 3 of 19 symbols in 4 places; stamps over 3 units, tabs of 1 and 4; code points around every limit of length; 3 calls on strings |
| `Dataset` | 2 events, 4 objects of each kind, two recordsets of a column each |
| `XmlTree` | 4 addresses, 4 nodes and attributes together, 2 attribute names and values, documents, elements and texts |

The inputs are small, but each includes both sides of every comparison in the code:
that is what they were chosen by.

TLC's deadlock check is off where the bounds or the end of a question stop the system
(`dispatch`, `matrix`, `send`, `server`, `server_timeout`, `server_binds`, `files`, `content`,
`reference`).  It is on for the queue, where somebody can always take a step, and
for `node`: `MCNext` lets a node stop when its reloads are used up, but not one
that distributes events.

### Fairness

`FairSpec` of `CircularQueue` is used for liveness only.  A thread that has started an
operation goes on with its own steps (weak fairness: the operating system runs
it).  A mutex that is free infinitely often is obtained eventually, and a
timed wait that is woken and resumed again and again with the same absolute
deadline reaches it (strong fairness).  No thread has to call anything, and
spurious wakeups may or may not happen.

`FairSpec` of `SendThread`: the client's thread and the send thread go on (they
are loops that sleep for milliseconds), a caller finishes cutting a record, and
`ServerTimeout` happens if nothing else is possible: the server's handler ends
a connection on which nothing arrived for 120 s (`OnIdle`, 0x78).  Weak
fairness of the client includes `Dial`: a server that is called for ever
answers.  No caller has to call, no connection has to break.

`FairSpec` of `Server`: the threads run.  A thread that waits for
`m_connmaplock`, which others give back again and again, gets it at last (strong
fairness of `Close`).  A write ends: the client reads, or the connection is lost.
Nothing makes a client connect, send or go, a time-out pass or a broadcast begin.

`FairSpec` of `CommandFiles`: the writer, the clock and each reader go on; a reader
that died is started again and archives the batches it is handed.  No process
has to die or to give a batch back.  No fairness is assumed elsewhere.

## 4. Findings

- `server_timeout`: `ZTPServerHandler::SendData()` takes `m_sendthreadlock` again
  after its sleep, and when the time is up leaves the loop (line 209) without giving
  it back.  The next broadcast waits for ever, with `TCPServer::m_lock` held,
  so no connection is accepted or freed, and `OnClose()` waits too.
  `ZTPServer.h:16` and `:189` promise a time-out.
- `server_binds`: `ZTPClient::run()` binds at each reconnection (`ZTPClient.cpp:303`), and
  `doBind()` appends to a buffer that may still hold the bind of a connection
  that was lost (`:502`).  Both go out on the new one; `doConnect()` inserts the same
  handler into `m_connmap` twice, and `doClose()` erases one entry and leaves its loop
  (`CEPDispatch.cpp:525`).  The other stays after the send thread and the
  handler are deleted, and `dispatch()` uses it (`:402`, where a comment says "应该是这里有问题
  目测": there seems to be a problem here).  `CEPDispatch.h:137` calls `m_connmap` the
  state of the local connections, and `:78` counts an entry as one.  `HandlersAlive` says
  what is true all the same: a connection that carried one bind leaves nothing behind,
  one that carried n leaves n - 1 entries.  The client's own `m_connmap` gets two entries
  by the same way, one for each bind the server sends back, but the client's
  handler is never deleted.

### Known divergences

The models have these as the code has them; no property promises more, and no run
is about them.

Nodes and connections:

- `doClose()` (`src/src/communication/CEPDispatch.cpp:536`) erases
  `m_nodemap` from the closed node's entry to the end, so services of nodes with
  higher ids are forgotten although they stand.  The comment at line 513
  speaks of the services of the closed node only.
- On every 0x1001 a slave starts another `ZTPServer`
  (line 165) and a request that was sent is repeated, since
  `requestConnection()` returns 0 for success as a bool.
  `src/include/communication/CEPDispatch.h:77` says one service per node.
- `SMatrixOL::insert` (line 125) notices an equal cell only at the
  head of its row; if the repeated cell is first in its column, `assert(0 == 1)`
  ends the process.
- If the connection is lost while the buffer in memory is full,
  `run()` connects, calls `doBind()`, and stays in its loop for room
  (`src/src/communication/baseutils/ZTPClient.cpp:510`).  Only the send thread makes
  room, and it waits for `ConnStat`, which `run()` sets after `doBind()`.
  `src/include/communication/baseutils/ZTPSendThread.h:80` says that the send
  thread waits for the client to connect again.  With a cache of files
  there is always room, and `AllSent` holds.
- `addSuperLenPkgToSendBuf()` (`ZTPSendThread.cpp:405`) sets
  PKGSEG in the header of `m_pkgBuf`, which nothing resets: the last package and
  all later ones carry it.  `ZTPServer.h:34` and `:40` give the meaning of the two
  statuses.  By the same comparison (`packages > 1` after `packages--`) the last
  two rounds both send the remainder from the same offset, so a chunk of the
  record is not sent; `Cut` has this as it is, and `IsOutbox` is about the order
  of pieces, not about what is in them.  The room asked for leaves out the prefixes of the
  packages (section 5).
- A reply that finds the buffers of a lost connection full is tried for ever
  (`ZTPServerHandler.cpp:266`): `LostIsClosed` excepts it.  Dead connections
  are freed before the next `accept()` only, and `select()` without a time-out
  keeps `Stop()` waiting.
- `MakeFileName()` (`netiobuf.cpp:46`) makes the name of a cache file of the process id and
  a number that each connection counts for itself, in one directory, and
  `MMapFile::ReSize()` opens it without `O_EXCL` and maps it shared: with a cache of files
  (`BufMode` 1), two connections of one process write into each other's blocks.
- `MMapFile::ReSize()`, `MMapBuf::ReSize()` and `GrowBuf::ReSize()` set the new size before
  they have it and leave it set when they fail (`mmap.cpp:73`, `:293`, `growbuf.cpp:38`), so the
  next `GetCrntInBufAndTest()` finds room that is not there; where `realloc()` fails and
  `malloc()` does not, even the call that failed does.  In `FileCache` this is `wrong`, which
  `PartsRight` allows only after a failure.  `Init()` does not expect one:
  `SetIdleBuf()` gets a null pointer.
- A file is longer than `iMaxMemBufSize` from its first block on, so `FreeBuf()` keeps
  none of them idle.  The number of files in the statistics is always 0: only
  `NetIOBuf::Dump()` sets it, which nobody calls.
- A package that ends in its body by EOF is processed with what `m_buf` held before.
  The answer of a client to a check-link is an unknown command to the server, which
  closes the connection.  A record of no bytes at the end of a package is not delivered; an
  idle second inside a record delivers what has come, and by the client again; the server
  goes on behind the whole length.  `pkgsize` may exceed the 16 bits of `package_len`.

What the buffer holds when a connection ends is sent on the next one ahead of
the bind, which is appended to the same buffer; the server's handler then has
records of a client that it does not know yet. And a write that fails on the old
connection may declare the new one closed; what undoes it is only the server's
timeout after two minutes, which `AllSent` needs.

The 0x0002 handler reads `m_nodemap` for the asker, releases the lock, and
enters the pair under another one. If the asker reports its service on a second
link in between, the pair comes too late to be told of. This takes three slaves;
`ToldInv` excepts these pairs (the variable `late`), and with three slaves TLC
finds the exception used and the invariant true.

Files:

- The loop over the commands of a month (`event_file_handler.cpp:581`) advances
  neither when a day is over but its first command too new.  A frequency of -1 or 0
  divides by zero, and the scan ignores `diffms4timezone`.  `cstr2milsecond()` with a short
  format, such as the "%4d" of its comment (`utils_nbr2str.cpp:98`), gives 30 November
  of the year before.
- Two readers may count a counter down from the same number (its `flock` is
  given back before `fclose()` writes), so the data file stays for ever.  A writer that dies
  between making and filling a counter leaves one that counts as 0.
- The table of an LZO file has no room for block 65536.  `event2text::open()` keeps the
  cursors of the file before.  A line feed is written as `\n` and not read back;
  fields of type char are written as they are.
- `CLzoMem::DeCompress()` into the caller's buffer drops input that leaves no
  more than a header or fills its buffer exactly (it returns 0, "data put in
  buffer"), and returns -2 for input it has taken when twice its length would not fit.
  `Compress(forceout)` without data fails an assertion.
- `MMapFile::GetAligned()` returns an old view for another offset, and a failing `ReSize()`
  leaves `m_iSize` as it was.

Data and indexes:

- `forest_map::match()` drops a node that is queued already (`*a` does not match
  `aa`).  A text that ends in an invisible character is never found in a trie.
  `idx_rbtree` never sees its empty key as empty, and columns with `:` in them may collide.
  `idx_range`, rebuilt, keeps the old ranges.
- `ref_dataset::metadata` deletes a pointer twice that was inserted for two ids
  (`const_dataset.hpp:338` allows that).  `recordset::operator=` leaves `recordset_`
  pointing to the source.  `recordset::insert()` takes a record of another dataset.
  `const_dataset::insert()` returns the old table whatever metadata is given.  `event` has no
  assignment.  An index without keys deletes an uninitialised pointer.
- `cstr2nbr("-abc")` is minus the default; 20 digits overflow, although
  `utils_cstr2nbr.hpp` calls up to 20 characters safe; an empty text is 0.  `str2ip()`
  skips what is no digit and takes an octet beyond an `int` for 0.  `bitwise_and` of
  times looks at 32 bits, of texts reads the second up to the size of the first.
  `equal_to` of texts stops at a NUL, `less` and `greater` compare sizes first.

Configuration:

- `config_metadata::reload_metadata()` uses `metadata` when it is NULL or deleted, if an
  element of another name follows an event that was skipped.  A negative length or
  offset passes `rebuild()`.
- `CEPDispatch::initConfig()` accepts every `maxbufcount` (`> 2 || < 100`), its
  `reload_metadata()` (line 623) stores `compresslevel` in its place.  A connector's
  children of any name become clients.  `main()` with a path of "http:" loads nothing and
  idles (its comment says TODO).  A `dlhandler::open()` that fails closes the
  library it had.  `ConnConfig::get_size()` overflows from 2G on.

XML (vendored, but all configuration goes through it):

- A lone `&` is dropped; `&#x` in a value lets the rest go unencoded; a comment,
  unknown or declaration that does not end at document level, and text behind the
  root, are no errors; a declaration that ends in blanks at the end of the text fails an
  assertion.  `parse_xmlstr()` returns a document even after an error.
- `Stamp()` does not advance at a byte 0xEF with less than two bytes behind it.
  `operator=` from a node's own child uses what it has deleted, and so does appending
  a `TiXmlString` to itself.  `LinkEndChild()` with a document fails an assertion
  before its documented error.  `QueryUnsignedAttribute()` sets its variable on a wrong
  type, `QueryBoolAttribute()` takes "10" for true.

## 5. Proofs

TLAPS proves, for every value of the constants that the ASSUMEs admit:

- `QueueInvariant`, `SlotRaceFree`, `QueueRefinement` (`CircularQueueProofs`).
  The inductive invariant is
  `QueueInv = TypeOK /\ LockInv /\ RingInv /\ GuardInv /\ CarryInv`.  Race freedom
  alone is not inductive: it needs that a test made before a lock was released
  still holds (`GuardInv`), which needs that only one thread per side is
  inside (`LockInv`), and that equal indices mean full or empty, which needs
  that the indices and the counters tell the same story even between the
  separate updates (`RingInv`, over `PushNext` and `PopNext`).  `CarryInv`
  relates the slots to what threads carry, for the refinement.
  `IndexArithmetic` and `SizeArithmetic` hold the modular arithmetic.
- `Ownership` (`ProcessingNodeProofs`): `OwnershipInv` is inductive for any threads,
  PEs and routing.
- `MatrixInvariant`, `MatrixRefinement` (`ProcessingNodeProofs`): the lemmas `Linked*` say
  what one sorted insertion into one list does; the invariant follows for rows
  and for columns by the same lemma.

- `SendInvariant` (`SendThreadProofs`): `SendInv = TypeOK /\ BufferInv(buf) /\
  BlockInv(buf.file, out)` is inductive.  The lemmas go up the layers of the code:
  `GrownFits` (`ReSize`), then one per operation of `NetIOBuf`, of which
  `RoomGood` is the heart: if `GetCrntInBufAndTest()` says yes, what is then copied
  fits; then one per operation of the send thread, then one step per
  action.  That a block with bytes in use has packages is part of `BlockInv`
  because `doSend()` reads one before it tests for the end.
- `OrderInvariant`, `OutboxRefinement` (`SendThreadProofs`): `SendThread` implements
  `Outbox`, so records leave in the order in which they were accepted and none
  is dropped or taken twice.  First lemmas on `FlattenSeq` (the library has none), from which
  follows what each operation of `NetIOBuf` does to `Waiting(b)`: nothing, or it
  takes the first block's packages or adds one package; then what each operation of the
  send thread does to the records that are held (`Held`).  Then `OrderInv`, which `SendInv`
  lacks: the send thread leaves a block only when it has been through it
  (`SentInv`), and a record that is being cut has the lock for itself and room
  for all packages still to come (`CutInv`, `Needed`).  The second is not the code's
  test: `addSuperLenPkgToSendBuf()` asks for `packages * m_pkgsize` bytes
  (`src/src/communication/baseutils/ZTPSendThread.cpp:401`), not for the two bytes in
  front of each package, and ignores a package that finds no room.  The
  hypothesis `RoomForPrefixes` says that these bytes, for all packages but one, are no more
  than one package: the loop needs less than it asks for by most of a
  package.  With the default `iPkgSize` of 8 KB that admits records of 4097
  packages, 32 MB.  It is sufficient; whether a longer record can lose a piece depends
  on the limits of the buffer.

- `IInvHolds`, `CounterCoversHolds`, `NoEarlyRemovalHolds` (`CommandFilesProofs`), for
  writers that do not die between making and filling a counter
  (`"flush" \notin CrashPoints`).  That a file is removed only when nobody
  needs it is not inductive: the counter must cover all who need the file
  (`CounterCovers`), also the number a reader has counted to and not written; for that
  `IInv` says of each place of a process what it has done to data, counter and
  command, and which incarnation of the counter file it holds.  Two readers that
  count from the same number only leave the counter too high.
- `ServerInvHolds`, `HandlersAliveHolds`, `SendsAliveHolds` (`ServerProofs`), for any
  number of connections and of binds on each.  `IInv` is `ServerInv` with `MapInv` (a
  handler is in `m_connmap` as often as its connection bound, and once less from
  `doClose()` on; what `dispatch()` found is still there, since it holds the lock),
  `ListInv` (a broadcast holds `m_lock`, and what it visits is in the list) and
  `AcceptInv` (one connection is new at a time).

- `FilesInvHolds` and `WindowWholeHolds` (`CommandFilesProofs`): `FilesInv` without any
  assumption, since whoever dies or fails keeps a command in one place.  `WindowWhole` is about a step: when
  `GetReadyCmds()` hands over, the window is over and no command of it is younger than the
  time-out, so a writer in the middle of posting would have kept the clock back, and
  what the reader loaded is then all of the directory.  The invariant says where
  the writer is while commands are missing, and what a scan has seen.
- `NodeIInvHolds`, `NodeInvHolds`, `LookupInvHolds`, `StartedInvHolds` (`ProcessingNodeProofs`),
  for any PEs and configurations.  That a lookup reaches exactly the routes set so far
  is inductive only with what ties the four addresses of a PE together: each registered PE
  has a slot of its own in the array of its kind and an index below the count that the
  matrices were made for (`SlotInv`, `CountInv`), equal bits are equal pairs of PEs
  (`AddressApart`, the arithmetic of the flat index), every bit is of a route set so far
  (`BitsInv`), and the place in `reload()` says which routes those are (`RouteInv`).
- `DispatchIInvHolds`, `ConnMapInvHolds`, `AddressInvHolds`, `ToldInvHolds` (`DispatchProofs`),
  for any nodes, matrices, links, services, closings and calls.  That `m_connmap` has each
  bound end once needs that an end is bound once: `OnceInv` says that the answer to a
  bind is on its way at most once, and only after the server's `doConnect()`.
  `AddressInv` needs the same of ports that are held in `job` and `dial` between two locks
  (`LinksInv`).  `ToldInv` is kept by `Order` and `Notify` because each writes its map before it
  reads the other's; with `MapInv` a bound client of the master is found there.
  The first attempt at this proof failed at links of a node with itself, which an
  earlier `Dispatch` took for links of two nodes; the code makes them (see `Dispatch`).

- `TableCorrect` (`EventFileProofs`): `TableRight`, for any size of a block and any
  events, by `BlocksInv`: what is in the file and in the writer's buffer are the bytes of the events
  that were accepted (`Given`), no block is empty or too large, and the table has
  for each the number of bytes before it.  `Write()`'s loop over what is larger than a block
  keeps it turn by turn (`PieceGood`).
- `LogRefinement` (`EventFileProofs`): `ImplementsLog`, for any sizes of blocks, buffers and
  events, any number of fields and any values, quotes, delimiters and line feeds among
  them.  The invariant is `FormatsInv`: `BlocksInv`; for blocks `ReadsInv`, that what was read are the
  first events of the log and the reader has the block in hand that it thinks it has
  (`Between`), so that `seek()` and `read()` find the next event wherever it lies (`SeekGood`, `ReadGood`,
  each loop turn by turn, with a measure that falls: `TurnsLeft`); for lines `TextsInv`, that what
  the reader has ahead, in its buffer and in the file, are the lines of the events it has not read
  (`Ahead`).  That one call of `readfields_csv()` takes one line and shows each value as
  `ShownAs` says is `TextGood`: `TextInv` says where in the line the loop is (before a value,
  inside of its quotes, at the second of two characters that stand for one, behind the quotes, or
  in a line without quotes), and each turn of the loop keeps it wherever the buffer ends,
  between a CR and its LF too (`AfterCRGood`).

Only model-checked: `Dataset`, `XmlTree` with its
refinement, and what `reference` asks, where recursive operators over data are
beyond the prover; all liveness, since fairness and ENABLED are, too.

## 6. Not modelled, and why

- Of the transport: connecting and the options of a socket (wrappers of system calls).
  `Dispatch` and `SendThread` assume links that keep order and lose what is unread when an
  end closes; `Server` assumes that a write ends.
- A lookup inside `rebuild()` itself, between the new counts and the new arrays,
  reads freed memory; `ProcessingNode` has that step (`tables`), and `NodeInv` and
  `LookupInv` say nothing of it.
- `dispatch()` on the master, whose `m_masterclient` is null.  In `Order` the services a new node is
  told of are read at once; the code gives `m_nodemaplock` back between two servers of a column.
- In `SendThread`: statistics; failures of memory and
  files (`FileCache` has them); `Start()`'s own `doBind()`, which may run beside `run()`; the end of
  the process (`Stop`).  A package is written whole or not at all there, so half a package
  in front of a lost connection is not distinguished from none (`Frames` does).
  `Dispatch` abstracts from the buffers: there what is unread when a link ends is lost,
  and a link carries one bind, on which "each once" of `ConnMapInv` rests.  What a bind
  left over from a lost connection does is in `Server`.
- In `Server`: `Stop()`, destructors, unbind, `CloseClient` (its option is
  never set).  What a handler does with a record before the bind.  Of a handler that is used
  when it is gone: what it overwrites in memory that serves something else by then,
  and a new handler that is given the same address.
- In `CommandFiles`: several directories scanned by one scanner, the names of
  files, a rename that fails in `archive()`, scans that change nothing.  It assumes
  that a writer closes its output, and that a scan ends, within the time-out: that is
  what the guard of `Tick` says, and `WindowWhole` would fail without it.
- `MonthsRight` is about outputs that were opened before their slice ended; otherwise
  the loop named above spins.
- In `EventFile`: uncompressed files, the header of a text file, calls that
  fail, files with more blocks than the table.  LZO itself, vendored headers of
  a library that is linked.
- In `FileCache`: a mapping that fails, names of files, the page in which a mapping ends,
  and what nobody calls (`Dump`, `TryBufLen`, `GetCrntInBuf`, `add`, `MMapBuf::Init`).
- Floats and doubles; `count_distinct`; the accessors of a `Config`; the build of `main()` for
  tests without a network; TinyXML's streams, which are not built
  (`TIXML_USE_STL`), and `TiXmlHandle`.
- `buffered_queue.hpp`, which holds an include guard only.  Signals (print and
  exit), logging, test and example programs: no state the other parts read.

## 7. Plan

Done: all modules of section 2.  Left, in this order:

1. The composition of `SendThread`, `Frames` and `Receiver` into one link, with the
   bind and the records ahead of it.
2. `Stop()` and the destructors of `TCPServer` and `CEPDispatch`.
