---------------------------- MODULE CommandFiles ----------------------------
(***************************************************************************)
(* How processes hand each other files of events                           *)
(* (processing/event_file_handler.cpp, file_lock_counter.hpp).  A          *)
(* FileOutputter writes events to data files of MaxSize events each.  A    *)
(* file that is finished gets its suffix, then a command file for each     *)
(* reader's directory, then a counter file (.lock) that says how many      *)
(* readers need it.  A reader's FilepathScanner loads the commands of its  *)
(* directory, hands those of a time window to the application when the     *)
(* window is over and the time-out has passed, and archives them: whoever  *)
(* counts down to zero removes the data file and the counter.              *)
(*                                                                         *)
(* Every system call that another process can observe is a step.  What is  *)
(* written to a counter stays in a stdio buffer until the file is closed,  *)
(* after its flock is released, so the locked section is one step that     *)
(* only reads.  A lock file that was removed lives on for who has it open: *)
(* locks[f] lists its incarnations, named[f] is the one with a name.       *)
(***************************************************************************)
EXTENDS Integers, Sequences, FiniteSets

CONSTANTS
  Readers,     \* cmdPaths_, with the process that scans each
  MaxFiles,    \* bound: data files (%d of filenames_)
  MaxSize,     \* maxSize_: events in a file
  MaxEvents,   \* bound: events written
  TimeOut,     \* msTimeOut_
  WindowEnd,   \* the end of the time window of the output
  MaxTime,     \* bound: the clock
  CrashPoints, \* where the writing process may die
  MaxCrashes,  \* bound: readers that die and start again
  MaxCloses,   \* bound: batches given back instead of archived
  MaxFailures  \* bound: calls of the writer that fail

ASSUME CommandFilesAssumption ==
  /\ IsFiniteSet(Readers)
  /\ MaxSize \in Nat \ {0}
  /\ {MaxFiles, MaxEvents, TimeOut, WindowEnd, MaxTime} \subseteq Nat
  /\ {MaxCrashes, MaxCloses, MaxFailures} \subseteq Nat
  /\ CrashPoints \subseteq {"idle", "post", "lock", "flush", "new"}

Files == 1 .. MaxFiles
None  == <<>>    \* no such file
Blank == -1      \* a counter file without content

VARIABLES
  now,      \* systime_msec()
  opened,   \* timestamp of the commands: when the outputter was opened
  writer,   \* where the writing process stands
  goal,     \* what it does after posting: a "new" file or "done"
  file,     \* the file it writes: filename_
  temp,     \* the events in that file while it has no suffix, or None
  size,     \* cnt4file_
  written,  \* counter_: events accepted so far
  toPost,   \* command paths still to be written
  posted,   \* fileLockCounter
  data,     \* data files with their suffix: a sequence of events, or None
  locks, named,     \* the counter files
  inbox,    \* the command files in each reader's directory
  loaded,   \* loadedCmds_ of each reader
  scanned,  \* scanedCmdMap_ of each reader
  ready,    \* what its application holds
  reader,   \* where it stands
  todo,     \* entries of its directory it has still to visit
  cmd,      \* the command it archives
  handle,   \* the incarnation of the counter it has open
  delta,    \* its delta, which is the new counter after counting
  crashes, closes, failures

disk     == <<data, locks, named, inbox>>
output   == <<opened, writer, goal, file, temp, size, written, toPost, posted>>
scanner  == <<loaded, scanned, ready, todo>>
counting == <<reader, cmd, handle, delta>>
bounds   == <<crashes, closes, failures>>
vars == <<now, disk, output, scanner, counting, bounds>>

Init ==
  /\ now = 0 /\ opened = 0
  /\ writer = "closed" /\ goal = "done" /\ file = 0 /\ temp = None
  /\ size = 0 /\ written = 0 /\ toPost = {} /\ posted = 0
  /\ data = [f \in Files |-> None]
  /\ locks = [f \in Files |-> <<>>] /\ named = [f \in Files |-> 0]
  /\ inbox = [r \in Readers |-> {}]
  /\ loaded = [r \in Readers |-> {}] /\ scanned = [r \in Readers |-> {}]
  /\ ready = [r \in Readers |-> {}] /\ todo = [r \in Readers |-> {}]
  /\ reader = [r \in Readers |-> "idle"]
  /\ cmd = [r \in Readers |-> 0]
  /\ handle = [r \in Readers |-> 0] /\ delta = [r \in Readers |-> 0]
  /\ crashes = 0 /\ closes = 0 /\ failures = 0

------------------------------------------------------------------------------
\* The writer: FileOutputter.

Fails == failures < MaxFailures /\ failures' = failures + 1

\* open(): the timestamp of all its commands is taken here (while the clock
\* has far enough to go to show the time-out).
Open ==
  /\ writer = "closed" /\ now + TimeOut < MaxTime
  /\ writer' = "idle" /\ opened' = now
  /\ UNCHANGED <<now, disk, goal, file, temp, size, written, toPost, posted,
                 scanner, counting, bounds>>

\* write() to the file at hand.
Write ==
  /\ writer = "idle" /\ written < MaxEvents
  /\ written > 0 /\ size # MaxSize
  /\ temp' = Append(temp, written + 1)
  /\ size' = size + 1 /\ written' = written + 1
  /\ UNCHANGED <<now, disk, opened, writer, goal, file, toPost, posted,
                 scanner, counting, bounds>>

\* write() to a file that is full closes and posts it first, and close()
\* the last one; then comes a new file, or nothing.
Finish(next) ==
  /\ writer = "idle"
  /\ next = "new" => written < MaxEvents /\ (written = 0 \/ size = MaxSize)
  /\ goal' = next
  /\ writer' = IF written = 0 THEN next ELSE "post"
  /\ toPost' = {} /\ posted' = 0
  /\ UNCHANGED <<now, disk, opened, file, temp, size, written,
                 scanner, counting, bounds>>

\* The rest of that write(): the name, the file and the first event.  When
\* the file cannot be opened its name stays behind, and the event is lost.
NewFile ==
  /\ writer = "new" /\ file < MaxFiles
  /\ writer' = "idle"
  /\ \/ /\ temp' = <<written + 1>> /\ size' = 1 /\ written' = written + 1
        /\ file' = file + 1
        /\ UNCHANGED failures
     \/ Fails /\ temp' = None /\ UNCHANGED <<file, size, written>>
  /\ UNCHANGED <<now, disk, opened, goal, toPost, posted, scanner, counting,
                 crashes, closes>>

\* PostOutput2File(): the data file gets its suffix; without a file under
\* the name, or when renaming fails, nothing is posted.
Suffix ==
  /\ writer = "post" /\ toPost = {} /\ posted = 0
  /\ \/ /\ temp # None
        /\ data' = [data EXCEPT ![file] = temp]
        /\ temp' = None
        /\ toPost' = Readers
        /\ writer' = IF Readers = {} THEN goal ELSE "post"
        /\ UNCHANGED failures
     \/ /\ temp # None => Fails
        /\ temp = None => UNCHANGED failures
        /\ writer' = goal
        /\ UNCHANGED <<data, temp, toPost>>
  /\ UNCHANGED <<now, locks, named, inbox, opened, goal, file, size,
                 written, posted, scanner, counting, crashes, closes>>

\* A command is written under another name and renamed; who fails is left out.
Post(r) ==
  /\ writer = "post" /\ r \in toPost
  /\ toPost' = toPost \ {r}
  /\ \/ /\ inbox' = [inbox EXCEPT ![r] = @ \cup {file}]
        /\ posted' = posted + 1
        /\ UNCHANGED failures
     \/ Fails /\ UNCHANGED <<inbox, posted>>
  /\ writer' = IF toPost' # {} THEN "post" ELSE IF posted' > 0 THEN "lock" ELSE goal
  /\ UNCHANGED <<now, data, locks, named, opened, goal, file, temp,
                 size, written, scanner, counting, crashes, closes>>

\* freopen(): the counter file is made if it is not there.
Incarnate(f) ==
  IF named[f] # 0 THEN UNCHANGED <<locks, named>>
  ELSE /\ locks' = [locks EXCEPT ![f] = Append(@, Blank)]
       /\ named' = [named EXCEPT ![f] = Len(locks[f]) + 1]

\* reset(): opens the counter, and the number is in the buffer ...
OpenLock ==
  /\ writer = "lock" /\ writer' = "flush"
  /\ Incarnate(file)
  /\ UNCHANGED <<now, data, inbox, opened, goal, file, temp, size,
                 written, toPost, posted, scanner, counting, bounds>>

\* Mutant: the counter starts at one whoever has a command.
FlushLockOne ==
  /\ writer = "flush" /\ writer' = goal
  /\ locks' = [locks EXCEPT ![file][Len(locks[file])] = 1]
  /\ UNCHANGED <<now, data, named, inbox, opened, goal, file, temp,
                 size, written, toPost, posted, scanner, counting, bounds>>

\* ... until the destructor of flc closes it.
FlushLock ==
  /\ writer = "flush" /\ writer' = goal
  /\ locks' = [locks EXCEPT ![file][Len(locks[file])] = posted]
  /\ UNCHANGED <<now, data, named, inbox, opened, goal, file, temp,
                 size, written, toPost, posted, scanner, counting, bounds>>

WriterDies ==
  /\ writer \in CrashPoints
  /\ writer' = "dead"
  /\ UNCHANGED <<now, disk, opened, goal, file, temp, size, written, toPost,
                 posted, scanner, counting, bounds>>

\* The clock.  The time-out is there for the writer to close its output and
\* for a scan to end: neither takes longer.
Tick ==
  /\ now < MaxTime
  /\ writer \in {"closed", "done", "dead"} \/ now < opened + TimeOut
  /\ \A r \in Readers : reader[r] # "scan"
  /\ now' = now + 1
  /\ UNCHANGED <<disk, output, scanner, counting, bounds>>

------------------------------------------------------------------------------
\* A reader: FilepathScanner and the process around it.

Goes(r, stand) == reader' = [reader EXCEPT ![r] = stand]

\* Mutant: only the end of the window counts.
IsReadyTooEarly == WindowEnd < now

\* GetReadyCmds(): the window is over, and its commands are old.
IsReady == WindowEnd + TimeOut < now /\ opened + TimeOut < now

\* scanning(): a walk through the directory (a scan that would change nothing
\* is left out) ...
StartScan(r) ==
  /\ reader[r] = "idle" /\ Goes(r, "scan")
  /\ inbox[r] \ loaded[r] # {} \/ (IsReady /\ scanned[r] # {})
  /\ todo' = [todo EXCEPT ![r] = inbox[r] \ loaded[r]]
  /\ UNCHANGED <<now, disk, output, loaded, scanned, ready, cmd, handle, delta, bounds>>

\* ... that reads each new command and opens its data file ...
Load(r, f) ==
  /\ reader[r] = "scan" /\ f \in todo[r]
  /\ todo' = [todo EXCEPT ![r] = @ \ {f}]
  /\ IF f \in inbox[r] /\ data[f] # None
     THEN /\ loaded' = [loaded EXCEPT ![r] = @ \cup {f}]
          /\ scanned' = [scanned EXCEPT ![r] = @ \cup {f}]
     ELSE UNCHANGED <<loaded, scanned>>
  /\ UNCHANGED <<now, disk, output, ready, counting, bounds>>

\* Mutant: the commands stay among the scanned ones when they are handed over.
EndScanAgain(r) ==
  /\ reader[r] = "scan" /\ todo[r] = {}
  /\ IF IsReady /\ scanned[r] # {}
     THEN /\ ready' = [ready EXCEPT ![r] = scanned[r]]
          /\ Goes(r, "batch")
     ELSE Goes(r, "idle") /\ UNCHANGED ready
  /\ UNCHANGED <<now, disk, output, loaded, scanned, todo, cmd, handle, delta, bounds>>

\* ... and hands over what is ready.
EndScan(r) ==
  /\ reader[r] = "scan" /\ todo[r] = {}
  /\ IF IsReady /\ scanned[r] # {}
     THEN /\ ready' = [ready EXCEPT ![r] = scanned[r]]
          /\ scanned' = [scanned EXCEPT ![r] = {}]
          /\ Goes(r, "batch")
     ELSE Goes(r, "idle") /\ UNCHANGED <<ready, scanned>>
  /\ UNCHANGED <<now, disk, output, loaded, todo, cmd, handle, delta, bounds>>

\* archive(): the command leaves the directory first.
Rename(r, f) ==
  /\ reader[r] = "batch" /\ f \in ready[r] /\ Goes(r, "exists")
  /\ inbox' = [inbox EXCEPT ![r] = @ \ {f}]
  /\ cmd' = [cmd EXCEPT ![r] = f]
  /\ UNCHANGED <<now, data, locks, named, output, scanner, handle, delta, bounds>>

\* The end of archive() of a command, and of the batch with the last one.
Archived(r) ==
  /\ loaded' = [loaded EXCEPT ![r] = @ \ {cmd[r]}]
  /\ ready' = [ready EXCEPT ![r] = @ \ {cmd[r]}]
  /\ cmd' = [cmd EXCEPT ![r] = 0]
  /\ handle' = [handle EXCEPT ![r] = 0]
  /\ delta' = [delta EXCEPT ![r] = 0]
  /\ Goes(r, IF ready[r] = {cmd[r]} THEN "idle" ELSE "batch")
  /\ UNCHANGED <<scanned, todo>>

\* fileIsExist(): without a counter nothing is counted.
Exists(r) ==
  /\ reader[r] = "exists"
  /\ IF named[cmd[r]] = 0 THEN Archived(r)
     ELSE Goes(r, "open") /\ UNCHANGED <<scanner, cmd, handle, delta>>
  /\ UNCHANGED <<now, disk, output, bounds>>

\* counting(): opens the counter, and makes it if it is gone by now ...
OpenCounter(r) ==
  /\ reader[r] = "open" /\ Goes(r, "count")
  /\ Incarnate(cmd[r])
  /\ handle' = [handle EXCEPT ![r] = named'[cmd[r]]]
  /\ UNCHANGED <<now, data, inbox, output, scanner, cmd, delta, bounds>>

\* ... and takes one off while it holds the flock of the name; when there is
\* no file of that name any more it throws, and delta keeps its -1.
Count(r) ==
  LET content == locks[cmd[r]][handle[r]]
      counter == IF content = Blank THEN 0 ELSE content
      lives   == named[cmd[r]] # 0
  IN
  /\ reader[r] = "count"
  /\ delta' = [delta EXCEPT ![r] = IF lives THEN counter - 1 ELSE -1]
  /\ Goes(r, IF lives THEN "flush" ELSE "data")
  /\ UNCHANGED <<now, disk, output, scanner, cmd, handle, bounds>>

\* fclose(): only now is the new number in the file.  A positive one ends it.
FlushCount(r) ==
  /\ reader[r] = "flush"
  /\ locks' = [locks EXCEPT ![cmd[r]][handle[r]] = delta[r]]
  /\ IF delta[r] < 1 THEN Goes(r, "data") /\ UNCHANGED <<scanner, cmd, handle, delta>>
     ELSE Archived(r)
  /\ UNCHANGED <<now, data, named, inbox, output, bounds>>

RemoveData(r) ==
  /\ reader[r] = "data" /\ Goes(r, "lock")
  /\ data' = [data EXCEPT ![cmd[r]] = None]
  /\ UNCHANGED <<now, locks, named, inbox, output, scanner, cmd, handle, delta, bounds>>

RemoveLock(r) ==
  /\ reader[r] = "lock" /\ Archived(r)
  /\ named' = [named EXCEPT ![cmd[r]] = 0]
  /\ UNCHANGED <<now, data, locks, inbox, output, bounds>>

\* Mutant: a batch given back stays among the loaded commands.
CloseBatchKeepsLoaded(r) ==
  /\ reader[r] = "batch" /\ closes < MaxCloses /\ Goes(r, "idle")
  /\ closes' = closes + 1
  /\ ready' = [ready EXCEPT ![r] = {}]
  /\ UNCHANGED <<now, disk, output, loaded, scanned, todo, cmd, handle, delta,
                 crashes, failures>>

\* FilepathScanner::close(): the application gives a batch back, unarchived.
CloseBatch(r) ==
  /\ reader[r] = "batch" /\ closes < MaxCloses /\ Goes(r, "idle")
  /\ closes' = closes + 1
  /\ loaded' = [loaded EXCEPT ![r] = @ \ ready[r]]
  /\ ready' = [ready EXCEPT ![r] = {}]
  /\ UNCHANGED <<now, disk, output, scanned, todo, cmd, handle, delta, crashes, failures>>

\* The process dies and starts again: the directories are all it has left.
ReaderDies(r) ==
  /\ crashes < MaxCrashes /\ crashes' = crashes + 1
  /\ reader[r] # "idle" \/ loaded[r] # {}
  /\ Goes(r, "idle")
  /\ loaded' = [loaded EXCEPT ![r] = {}] /\ scanned' = [scanned EXCEPT ![r] = {}]
  /\ ready' = [ready EXCEPT ![r] = {}] /\ todo' = [todo EXCEPT ![r] = {}]
  /\ cmd' = [cmd EXCEPT ![r] = 0] /\ handle' = [handle EXCEPT ![r] = 0]
  /\ delta' = [delta EXCEPT ![r] = 0]
  /\ UNCHANGED <<now, disk, output, closes, failures>>

------------------------------------------------------------------------------
WriterStep ==
  \/ Open \/ Write \/ NewFile \/ Suffix \/ OpenLock \/ FlushLock
  \/ \E next \in {"new", "done"} : Finish(next)
  \/ \E r \in Readers : Post(r)

Archive(r) ==
  \/ \E f \in Files : Rename(r, f)
  \/ Exists(r) \/ OpenCounter(r) \/ Count(r) \/ FlushCount(r)
  \/ RemoveData(r) \/ RemoveLock(r)

ReaderStep(r) ==
  \/ StartScan(r) \/ EndScan(r) \/ Archive(r)
  \/ \E f \in Files : Load(r, f)

Next ==
  \/ WriterStep \/ WriterDies \/ Tick
  \/ \E r \in Readers : ReaderStep(r) \/ CloseBatch(r) \/ ReaderDies(r)

\* Every process is scheduled, and the application archives its batches.
Fairness ==
  /\ WF_vars(WriterStep) /\ WF_vars(Tick)
  /\ \A r \in Readers : WF_vars(ReaderStep(r))

Spec == Init /\ [][Next]_vars
FairSpec == Spec /\ Fairness


\* Who still needs file f: its command is in the reader's directory, or the
\* reader has taken it out and not yet counted.
Needing(f) ==
  {r \in Readers :
     f \in inbox[r] \/ (cmd[r] = f /\ reader[r] \in {"exists", "open", "count"})}

\* What a process that opens the counter of f now would read.
Content(f) == locks[f][named[f]]

\* Types.  A command is in one place of its reader's memory at a time, and a
\* reader that archives has it among the commands it loaded.
FilesInv ==
  /\ now \in 0 .. MaxTime /\ opened \in 0 .. now
  /\ writer \in {"closed", "idle", "new", "post", "lock", "flush", "done", "dead"}
  /\ goal \in {"new", "done"}
  /\ file \in 0 .. MaxFiles /\ written \in 0 .. MaxEvents /\ size \in 0 .. MaxSize
  /\ temp \in Seq(1 .. MaxEvents)
  /\ toPost \subseteq Readers /\ posted \in 0 .. Cardinality(Readers)
  /\ data \in [Files -> Seq(1 .. MaxEvents)]
  /\ \A f \in Files : named[f] \in 0 .. Len(locks[f])
  /\ \A r \in Readers :
       /\ inbox[r] \cup todo[r] \cup loaded[r] \subseteq 1 .. file
       /\ scanned[r] \cup ready[r] \subseteq loaded[r] /\ scanned[r] \cap ready[r] = {}
       /\ reader[r] \notin {"idle", "scan", "batch"} =>
            cmd[r] \in ready[r] \ inbox[r]

\* The counter of a file covers everyone who still needs it, and so does the
\* number a reader has counted down to and not yet written.  (Two readers may
\* read the same number, so the counter may stay too high.)
CounterCovers ==
  \A f \in Files :
    /\ named[f] # 0 /\ ~(writer = "flush" /\ f = file) =>
         Content(f) >= Cardinality(Needing(f))
    /\ \A r \in Readers :
         cmd[r] = f /\ reader[r] = "flush" => delta[r] >= Cardinality(Needing(f))

\* A data file is not removed while a reader has the command for it, whatever
\* the readers do at the same time (archive(), "no one need the cep file").
NoEarlyRemoval ==
  \A r \in Readers : \A f \in inbox[r] : data[f] # None

\* The batch an application gets for a window is all of the window: the
\* writer has stopped and every command in the directory is in it.
WindowWhole ==
  [][\A r \in Readers :
       ready[r] = {} /\ ready'[r] # {} =>
         ready'[r] = inbox[r] /\ writer \in {"closed", "done", "dead"}]_vars

\* Every command is archived in the end, crashes and batches given back
\* notwithstanding.
Collected ==
  \A r \in Readers : \A f \in Files : f \in inbox[r] ~> f \notin inbox[r]
=============================================================================
