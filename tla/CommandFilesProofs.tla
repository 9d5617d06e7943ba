------------------------- MODULE CommandFilesProofs -------------------------
(* Proofs about CommandFiles, for any number of readers, files and events.  *)
(* A command is in one place at a time, whatever crashes or fails.  If the  *)
(* writer does not die between opening a counter and writing it, no data    *)
(* file is removed while a reader still has the command for it, and what    *)
(* is handed over as a window is all of it.                                 *)
EXTENDS CommandFiles, FiniteSetTheorems, SequenceTheorems, TLAPS

Archiving == {"exists", "open", "count", "flush", "data", "lock"}
Stopped == writer \in {"done", "dead"}

\* A file has its suffix, and its commands or its counter are being written.
Posting ==
  \/ writer = "post" /\ (toPost # {} \/ posted > 0)
  \/ writer \in {"lock", "flush"}

Holders(f) == {r \in Readers : f \in inbox[r]}

TypeInv ==
  /\ now \in Nat /\ opened \in Nat
  /\ writer \in {"closed", "idle", "new", "post", "lock", "flush", "done", "dead"}
  /\ goal \in {"new", "done"}
  /\ file \in 0 .. MaxFiles /\ written \in Nat /\ posted \in Nat
  /\ temp \in Seq(Nat)
  /\ toPost \in SUBSET Readers
  /\ data \in [Files -> Seq(Nat)]
  /\ locks \in [Files -> Seq(Int)] /\ named \in [Files -> Nat]
  /\ inbox \in [Readers -> SUBSET Files]
  /\ scanned \in [Readers -> SUBSET Files] /\ ready \in [Readers -> SUBSET Files]
  /\ reader \in [Readers -> {"idle", "scan", "batch"} \cup Archiving]
  /\ cmd \in [Readers -> 0 .. MaxFiles]
  /\ handle \in [Readers -> Nat] /\ delta \in [Readers -> Int]

\* Batches are handed out when the writer has stopped.
ClockInv == writer \notin {"closed", "done", "dead"} => now <= opened + TimeOut

\* What a reader holds is in its directory, but for the command it archives.
InHand(r) ==
  /\ reader[r] \in {"idle", "scan"} => ready[r] = {} /\ scanned[r] \subseteq inbox[r]
  /\ reader[r] \notin {"idle", "scan"} => Stopped /\ scanned[r] = {}
  /\ reader[r] = "batch" => ready[r] \subseteq inbox[r]
  /\ reader[r] \in Archiving =>
       /\ cmd[r] \in ready[r] /\ cmd[r] \notin inbox[r]
       /\ ready[r] \ {cmd[r]} \subseteq inbox[r]

ReaderInv == \A r \in Readers : InHand(r)

\* A file is posted once, and its counter starts with the commands there are.
WriterInv ==
  /\ writer = "closed" => written = 0 /\ \A r \in Readers : inbox[r] = {}
  /\ \A r \in Readers : \A f \in inbox[r] : f <= file
  /\ \A f \in Files : f > file => named[f] = 0
  /\ \A f \in Files : named[f] \in {0, Len(locks[f])}
  /\ temp # None => file \in Files /\ named[file] = 0 /\ Holders(file) = {}
  /\ Posting => /\ file \in Files /\ temp = None /\ data[file] # None
                /\ Cardinality(Holders(file)) <= posted
  /\ Posting /\ writer # "flush" => named[file] = 0
  /\ writer = "flush" => named[file] # 0
  /\ writer = "new" => written = 0 \/ size = MaxSize
  /\ writer \in {"post", "lock", "flush"} /\ goal = "new" => size = MaxSize
  /\ writer = "idle" /\ written > 0 /\ size # MaxSize => temp # None

\* Each counter covers those who need its file, and so does a new number.
Covers(f) ==
  named[f] # 0 /\ ~(writer = "flush" /\ f = file) =>
    Content(f) >= Cardinality(Needing(f))

Counts(r) ==
  /\ reader[r] \in {"open", "count"} => named[cmd[r]] # 0
  /\ reader[r] = "count" => handle[r] = named[cmd[r]]
  /\ reader[r] = "flush" => /\ handle[r] \in 1 .. Len(locks[cmd[r]])
                            /\ named[cmd[r]] \in {0, handle[r]}
                            /\ delta[r] >= Cardinality(Needing(cmd[r]))
  /\ reader[r] \in {"data", "lock"} => Needing(cmd[r]) = {}

CountInv == (\A f \in Files : Covers(f)) /\ (\A r \in Readers : Counts(r))

IInv ==
  /\ TypeInv /\ ClockInv /\ ReaderInv /\ WriterInv /\ CountInv
  /\ NoEarlyRemoval

------------------------------------------------------------------------------
LEMMA Constants ==
  /\ IsFiniteSet(Readers) /\ IsFiniteSet({}) /\ Cardinality({}) = 0
  /\ MaxFiles \in Nat /\ TimeOut \in Nat /\ Files = 1 .. MaxFiles
  BY CommandFilesAssumption, FS_EmptySet DEF CommandFilesAssumption, Files

LEMMA SmallSeqs ==
  /\ <<>> \in Seq(Nat)
  /\ \A n \in Nat : <<n + 1>> \in Seq(Nat) /\ <<n + 1>> # <<>>
<1>1. <<>> \in Seq(Nat)
  BY EmptySeq
<1>2. ASSUME NEW n \in Nat  PROVE <<n + 1>> \in Seq(Nat) /\ <<n + 1>> # <<>>
  <2>1. <<n + 1>> = Append(<<>>, n + 1)
    OBVIOUS
  <2>2. QED
    BY <1>1, <2>1, AppendProperties
<1>3. QED
  BY <1>1, <1>2

\* Counting readers.

LEMMA Fewer ==
  ASSUME NEW S, NEW T, S \subseteq T, T \subseteq Readers
  PROVE  /\ Cardinality(S) \in Nat /\ Cardinality(T) \in Nat
         /\ Cardinality(S) <= Cardinality(T)
<1>1. IsFiniteSet(Readers)
  BY CommandFilesAssumption DEF CommandFilesAssumption
<1>2. IsFiniteSet(T)
  BY <1>1, FS_Subset
<1>3. QED
  BY <1>2, FS_Subset, FS_CardinalityType

LEMMA OneFewer ==
  ASSUME NEW S, NEW T, NEW r \in T, S \subseteq T \ {r}, T \subseteq Readers
  PROVE  Cardinality(S) <= Cardinality(T) - 1
<1>1. IsFiniteSet(T)
  BY CommandFilesAssumption, FS_Subset DEF CommandFilesAssumption
<1>2. IsFiniteSet(T \ {r}) /\ Cardinality(T \ {r}) = Cardinality(T) - 1
  BY <1>1, FS_RemoveElement
<1>3. QED
  BY <1>2, FS_Subset

LEMMA OneMore ==
  ASSUME NEW S, NEW T, NEW r, S \subseteq T \cup {r}, T \subseteq Readers
  PROVE  Cardinality(S) <= Cardinality(T) + 1
<1>1. IsFiniteSet(T) /\ Cardinality(T) \in Nat
  BY CommandFilesAssumption, FS_Subset, FS_CardinalityType DEF CommandFilesAssumption
<1>2. IsFiniteSet(T \cup {r}) /\ Cardinality(T \cup {r}) \in {Cardinality(T), Cardinality(T) + 1}
  BY <1>1, FS_AddElement
<1>3. IsFiniteSet(S) /\ Cardinality(S) <= Cardinality(T \cup {r})
  BY <1>2, FS_Subset
<1>4. Cardinality(S) \in Nat
  BY <1>3, FS_CardinalityType
<1>5. QED
  BY <1>1, <1>2, <1>3, <1>4

LEMMA NobodyLeft ==
  ASSUME NEW S, S \subseteq Readers, Cardinality(S) < 1
  PROVE  S = {}
<1>1. IsFiniteSet(Readers)
  BY CommandFilesAssumption DEF CommandFilesAssumption
<1>2. IsFiniteSet(S)
  BY <1>1, FS_Subset
<1>3. Cardinality(S) \in Nat
  BY <1>2, FS_CardinalityType
<1>4. Cardinality(S) = 0
  BY <1>3
<1>5. QED
  BY <1>2, <1>4, FS_EmptySet

------------------------------------------------------------------------------
\* Writing and making counter files.

LEMMA WrittenLocks ==
  ASSUME TypeInv, NEW f \in Files, NEW i \in 1 .. Len(locks[f]), NEW v \in Int,
         locks' = [locks EXCEPT ![f][i] = v]
  PROVE  /\ locks' \in [Files -> Seq(Int)]
         /\ \A g \in Files : Len(locks'[g]) = Len(locks[g])
         /\ locks'[f][i] = v
         /\ \A g \in Files : g # f => locks'[g] = locks[g]
<1> DEFINE s == [locks[f] EXCEPT ![i] = v]
<1>1. locks[f] \in Seq(Int)
  BY DEF TypeInv
<1>2. s \in Seq(Int) /\ Len(s) = Len(locks[f]) /\ s[i] = v
  BY <1>1, ExceptSeq
<1>3. locks' = [locks EXCEPT ![f] = s]
  OBVIOUS
<1> HIDE DEF s
<1>4. QED
  BY <1>2, <1>3 DEF TypeInv

LEMMA MadeLocks ==
  ASSUME TypeInv, WriterInv, NEW f \in Files, Incarnate(f)
  PROVE  /\ locks' \in [Files -> Seq(Int)] /\ named' \in [Files -> Nat]
         /\ named'[f] # 0 /\ named'[f] = Len(locks'[f])
         /\ named[f] # 0 => UNCHANGED <<locks, named>>
         /\ \A g \in Files : g # f => locks'[g] = locks[g] /\ named'[g] = named[g]
         /\ \A g \in Files : Len(locks'[g]) >= Len(locks[g])
<1>1. CASE named[f] # 0
  BY <1>1 DEF Incarnate, TypeInv, WriterInv
<1>2. CASE named[f] = 0
  <2>1. Append(locks[f], Blank) \in Seq(Int) /\ Len(Append(locks[f], Blank)) = Len(locks[f]) + 1
    BY DEF TypeInv, Blank
  <2>2. locks' = [locks EXCEPT ![f] = Append(locks[f], Blank)]
        /\ named' = [named EXCEPT ![f] = Len(locks[f]) + 1]
    BY <1>2 DEF Incarnate
  <2>3. Len(locks[f]) \in Nat
    BY LenProperties DEF TypeInv
  <2>4. \A g \in Files : Len(locks[g]) \in Nat
    BY LenProperties DEF TypeInv
  <2> HIDE DEF Blank
  <2>5. QED
    BY <1>2, <2>1, <2>2, <2>3, <2>4 DEF TypeInv
<1>3. QED
  BY <1>1, <1>2

------------------------------------------------------------------------------
\* The writer's steps.  While it works no reader archives.

LEMMA NobodyArchives ==
  ASSUME IInv, ~Stopped
  PROVE  /\ \A r \in Readers : reader[r] \in {"idle", "scan"}
         /\ \A f \in Files : Needing(f) = Holders(f)
  BY DEF IInv, ReaderInv, InHand, Needing, Holders

\* What a step of the writer that touches neither commands nor counters keeps.
LEMMA WriterMoves ==
  ASSUME IInv, ~Stopped, UNCHANGED <<now, locks, named, inbox, scanner, counting>>,
         writer # "flush", writer' # "flush"
  PROVE  ReaderInv' /\ CountInv'
<1>1. \A r \in Readers : reader[r] \in {"idle", "scan"}
  BY NobodyArchives
<1>2. ReaderInv'
  BY <1>1 DEF IInv, ReaderInv, InHand, scanner, counting
<1>3. CountInv'
  BY <1>1 DEF IInv, CountInv, Covers, Counts, Needing, Content, scanner, counting
<1>4. QED
  BY <1>2, <1>3

LEMMA OpenKeeps ==
  ASSUME IInv, Open
  PROVE  IInv'
<1>1. MaxFiles \in Nat /\ TimeOut \in Nat /\ Files = 1 .. MaxFiles /\ Cardinality({}) = 0
  BY Constants
<1> USE <1>1
<1>2. ReaderInv' /\ CountInv'
  BY WriterMoves DEF Open, Stopped, disk
<1>3. TypeInv'
  BY DEF IInv, Open, disk, scanner, counting, TypeInv
<1>4. ClockInv'
  BY DEF IInv, Open, ClockInv, TypeInv
<1>5. WriterInv'
  BY DEF IInv, Open, disk, WriterInv, Posting, Holders
<1>6. NoEarlyRemoval'
  BY DEF IInv, Open, disk, NoEarlyRemoval
<1>7. QED
  BY <1>2, <1>3, <1>4, <1>5, <1>6 DEF IInv

LEMMA WriteKeeps ==
  ASSUME IInv, Write
  PROVE  IInv'
<1>1. MaxFiles \in Nat /\ TimeOut \in Nat /\ Files = 1 .. MaxFiles /\ Cardinality({}) = 0
  BY Constants
<1> USE <1>1
<1>2. ReaderInv' /\ CountInv'
  BY WriterMoves DEF Write, Stopped, disk
<1>3. TypeInv'
  <2>1. temp' \in Seq(Nat) /\ written' \in Nat
    BY DEF IInv, TypeInv, Write
  <2>2. QED
    BY <2>1 DEF IInv, Write, disk, scanner, counting, TypeInv
<1>4. ClockInv'
  BY DEF IInv, Write, ClockInv
<1>5. WriterInv'
  <2>1. temp # None
    BY DEF IInv, WriterInv, Write
  <2>2. temp' # None
    BY AppendProperties DEF IInv, TypeInv, Write, None
  <2>3. QED
    BY <2>1, <2>2 DEF IInv, Write, disk, WriterInv, Posting, Holders
<1>6. NoEarlyRemoval'
  BY DEF IInv, Write, disk, NoEarlyRemoval
<1>7. QED
  BY <1>2, <1>3, <1>4, <1>5, <1>6 DEF IInv

LEMMA FinishKeeps ==
  ASSUME IInv, NEW next \in {"new", "done"}, Finish(next)
  PROVE  IInv'
<1>1. MaxFiles \in Nat /\ TimeOut \in Nat /\ Files = 1 .. MaxFiles /\ Cardinality({}) = 0
  BY Constants
<1> USE <1>1
<1>2. ReaderInv' /\ CountInv'
  BY WriterMoves DEF Finish, Stopped, disk
<1>3. TypeInv'
  BY DEF IInv, Finish, disk, scanner, counting, TypeInv
<1>4. ClockInv'
  BY DEF IInv, Finish, ClockInv
<1>5. WriterInv'
  BY DEF IInv, Finish, disk, WriterInv, Posting, Holders
<1>6. NoEarlyRemoval'
  BY DEF IInv, Finish, disk, NoEarlyRemoval
<1>7. QED
  BY <1>2, <1>3, <1>4, <1>5, <1>6 DEF IInv

LEMMA NewFileKeeps ==
  ASSUME IInv, NewFile
  PROVE  IInv'
<1>1. MaxFiles \in Nat /\ TimeOut \in Nat /\ Files = 1 .. MaxFiles /\ Cardinality({}) = 0
  BY Constants
<1> USE <1>1
<1>2. ReaderInv' /\ CountInv'
  BY WriterMoves DEF NewFile, Stopped, disk
<1>3. TypeInv'
  <2>1. temp' = <<written + 1>> \/ temp' = <<>>
    BY DEF NewFile, None
  <2>2. written \in Nat /\ file \in 0 .. MaxFiles /\ file < MaxFiles
    BY DEF IInv, TypeInv, NewFile
  <2>3. temp' \in Seq(Nat)
    BY <2>1, <2>2, SmallSeqs
  <2>4. written' \in Nat /\ file' \in 0 .. MaxFiles
    BY <2>2 DEF NewFile
  <2>5. QED
    BY <2>3, <2>4 DEF IInv, NewFile, disk, scanner, counting, TypeInv
<1>4. ClockInv'
  BY DEF IInv, NewFile, ClockInv
<1>5. WriterInv'
  <2>1. file \in 0 .. MaxFiles /\ file < MaxFiles
    BY DEF IInv, TypeInv, NewFile
  <2>2. CASE temp' = <<written + 1>> /\ file' = file + 1 /\ size' = 1 /\ written' = written + 1
    <3>1. file' \in Files /\ named[file'] = 0
      BY <2>1, <2>2 DEF IInv, WriterInv
    <3>2. Holders(file)' = {}
      BY <2>1, <2>2 DEF IInv, WriterInv, TypeInv, Holders, NewFile, disk
    <3>3. QED
      <4>1. temp' # None
        BY <2>2, SmallSeqs DEF IInv, TypeInv, None
      <4>2. \A r \in Readers : \A f \in inbox[r] : f <= file'
        BY <2>1, <2>2 DEF IInv, WriterInv, TypeInv
      <4>3. \A f \in Files : f > file' => named[f] = 0
        BY <2>1, <2>2 DEF IInv, WriterInv, TypeInv
      <4>4. writer' = "idle" /\ UNCHANGED <<locks, named, inbox>>
        BY DEF NewFile, disk
      <4>5. \A f \in Files : named[f] \in {0, Len(locks[f])}
        BY DEF IInv, WriterInv
      <4>6. QED
        BY <3>1, <3>2, <4>1, <4>2, <4>3, <4>4, <4>5 DEF WriterInv, Posting
  <2>3. CASE temp' = None /\ UNCHANGED <<file, size, written>>
    BY <2>3 DEF IInv, NewFile, disk, WriterInv, Posting, Holders
  <2>4. QED
    BY <2>2, <2>3 DEF NewFile
<1>6. NoEarlyRemoval'
  BY DEF IInv, NewFile, disk, NoEarlyRemoval
<1>7. QED
  BY <1>2, <1>3, <1>4, <1>5, <1>6 DEF IInv

LEMMA SuffixKeeps ==
  ASSUME IInv, Suffix
  PROVE  IInv'
<1>1. MaxFiles \in Nat /\ TimeOut \in Nat /\ Files = 1 .. MaxFiles /\ Cardinality({}) = 0
  BY Constants
<1> USE <1>1
<1>2. ReaderInv' /\ CountInv'
  BY WriterMoves DEF Suffix, Stopped, IInv, TypeInv
<1>3. TypeInv'
  <2>1. temp' \in Seq(Nat) /\ toPost' \subseteq Readers
    BY SmallSeqs DEF IInv, TypeInv, Suffix, None
  <2>2. data' \in [Files -> Seq(Nat)]
    BY DEF IInv, TypeInv, Suffix
  <2>3. writer' \in {"post", "new", "done"}
    BY DEF IInv, TypeInv, Suffix
  <2>4. QED
    BY <2>1, <2>3, <2>2 DEF IInv, Suffix, scanner, counting, TypeInv
<1>4. ClockInv'
  BY DEF IInv, Suffix, ClockInv
<1>5. WriterInv'
  <2>1. CASE temp # None /\ data' = [data EXCEPT ![file] = temp] /\ temp' = None
    <3>1. file \in Files /\ Holders(file)' = {} /\ named[file] = 0
      BY <2>1 DEF IInv, WriterInv, Suffix, Holders
    <3>2. data'[file] # None
      BY <2>1, <3>1 DEF IInv, TypeInv
    <3>3. posted = 0 /\ (writer' = "post" \/ (writer' = goal /\ goal \in {"new", "done"}))
      BY DEF Suffix, IInv, TypeInv
    <3>4. QED
      BY <2>1, <3>1, <3>2, <3>3 DEF IInv, Suffix, WriterInv, Posting
  <2>2. CASE UNCHANGED <<data, temp, toPost>> /\ writer' = goal
    BY <2>2 DEF IInv, Suffix, WriterInv, Posting, Holders, TypeInv
  <2>3. QED
    BY <2>1, <2>2 DEF Suffix
<1>6. NoEarlyRemoval'
  BY DEF IInv, Suffix, NoEarlyRemoval, WriterInv, Holders, TypeInv
<1>7. QED
  BY <1>2, <1>3, <1>4, <1>5, <1>6 DEF IInv

LEMMA PostKeeps ==
  ASSUME IInv, NEW r \in Readers, Post(r)
  PROVE  IInv'
<1>1. MaxFiles \in Nat /\ TimeOut \in Nat /\ Files = 1 .. MaxFiles /\ Cardinality({}) = 0
  BY Constants
<1> USE <1>1
<1>2. /\ writer = "post" /\ Posting /\ file \in Files /\ temp = None
      /\ data[file] # None /\ named[file] = 0
      /\ Cardinality(Holders(file)) <= posted
  BY DEF IInv, Post, Posting, WriterInv
<1>3. \A q \in Readers : reader[q] \in {"idle", "scan"}
  BY <1>2, NobodyArchives DEF Stopped
<1>4. TypeInv'
  <2>1. toPost' \subseteq Readers
    BY DEF IInv, TypeInv, Post
  <2>2. inbox' \in [Readers -> SUBSET Files]
    <3>1. CASE inbox' = [inbox EXCEPT ![r] = @ \cup {file}]
      BY <1>2, <3>1 DEF IInv, TypeInv
    <3>2. CASE inbox' = inbox
      BY <3>2 DEF IInv, TypeInv
    <3>3. QED
      BY <3>1, <3>2 DEF Post
  <2>3. posted' \in Nat
    BY DEF IInv, TypeInv, Post
  <2>4. writer' \in {"post", "lock", "new", "done"}
    BY DEF IInv, TypeInv, Post
  <2>5. QED
    BY <2>1, <2>3, <2>4, <2>2 DEF IInv, Post, scanner, counting, TypeInv
<1>5. ClockInv'
  BY DEF IInv, Post, ClockInv
<1>6. \A q \in Readers : inbox[q] \subseteq inbox'[q] /\ inbox'[q] \subseteq inbox[q] \cup {file}
  BY DEF IInv, Post, TypeInv
<1>7. ReaderInv'
  BY <1>3, <1>6 DEF IInv, Post, ReaderInv, InHand, scanner, counting
<1>8. /\ Holders(file)' \subseteq Holders(file) \cup {r}
      /\ posted' = posted + 1 \/ (posted' = posted /\ Holders(file)' = Holders(file))
  <2>1. file' = file
    BY DEF Post
  <2>2. CASE inbox' = [inbox EXCEPT ![r] = @ \cup {file}] /\ posted' = posted + 1
    BY <2>1, <2>2 DEF Holders, IInv, TypeInv
  <2>3. CASE UNCHANGED <<inbox, posted>>
    BY <2>1, <2>3 DEF Holders
  <2>4. QED
    BY <2>2, <2>3 DEF Post
<1>9. Cardinality(Holders(file)) \in Nat /\ Cardinality(Holders(file)') \in Nat
  BY Fewer DEF Holders
<1>10. Cardinality(Holders(file)') <= posted'
  <2>1. Cardinality(Holders(file)') <= Cardinality(Holders(file)) + 1
    BY <1>8, OneMore DEF Holders
  <2>2. QED
    <3>1. CASE posted' = posted + 1
      BY <1>2, <1>9, <2>1, <3>1 DEF IInv, TypeInv
    <3>2. CASE posted' = posted /\ Holders(file)' = Holders(file)
      <4>1. Cardinality(Holders(file)') = Cardinality(Holders(file))
        BY <3>2
      <4>2. QED
        BY <1>2, <3>2, <4>1
    <3>3. QED
      BY <1>8, <3>1, <3>2
<1>11. WriterInv'
  <2>1. \A q \in Readers : \A f \in inbox'[q] : f <= file'
    <3>1. file \in Nat /\ file <= file /\ file' = file
      BY <1>2 DEF Post
    <3>2. \A q \in Readers : \A f \in inbox[q] : f <= file
      BY DEF IInv, WriterInv
    <3>3. QED
      BY <1>6, <3>1, <3>2
  <2>2. /\ writer' \in {"post", "lock"} \/ (writer' = goal /\ goal \in {"new", "done"})
        /\ UNCHANGED <<file, temp, size, goal, data, locks, named>>
    BY DEF IInv, TypeInv, Post
  <2>3. goal = "new" => size = MaxSize
    BY <1>2 DEF IInv, WriterInv
  <2>4. \A f \in Files : (f > file => named[f] = 0) /\ named[f] \in {0, Len(locks[f])}
    BY DEF IInv, WriterInv
  <2>5. QED
    BY <1>2, <1>10, <2>1, <2>2, <2>3, <2>4 DEF WriterInv, Posting
<1>12. NoEarlyRemoval'
  BY <1>2, <1>6 DEF IInv, Post, NoEarlyRemoval
<1>13. \A f \in Files : f # file => Needing(f)' = Needing(f)
  BY <1>6 DEF Post, Needing, counting
<1>14. CountInv'
  BY <1>2, <1>3, <1>13 DEF IInv, Post, CountInv, Covers, Counts, Content, counting
<1>15. QED
  BY <1>4, <1>5, <1>7, <1>11, <1>12, <1>14 DEF IInv

LEMMA OpenLockKeeps ==
  ASSUME IInv, OpenLock
  PROVE  IInv'
<1>1. /\ file \in Files /\ temp = None /\ data[file] # None
      /\ Cardinality(Holders(file)) <= posted
      /\ named[file] = 0
  BY DEF IInv, OpenLock, Posting, WriterInv
<1>2. \A q \in Readers : reader[q] \in {"idle", "scan"}
  BY NobodyArchives DEF OpenLock, Stopped
<1>3. /\ locks' \in [Files -> Seq(Int)] /\ named' \in [Files -> Nat]
      /\ named'[file] # 0 /\ named'[file] = Len(locks'[file])
      /\ \A g \in Files : g # file => locks'[g] = locks[g] /\ named'[g] = named[g]
  BY <1>1, MadeLocks DEF IInv, OpenLock
<1>4. TypeInv'
  BY <1>3 DEF IInv, OpenLock, scanner, counting, TypeInv
<1>5. ClockInv'
  BY DEF IInv, OpenLock, ClockInv
<1>6. ReaderInv'
  BY <1>2 DEF IInv, OpenLock, ReaderInv, InHand, scanner, counting
<1>7. WriterInv'
  <2>1. \A f \in Files : (f > file => named'[f] = 0) /\ named'[f] \in {0, Len(locks'[f])}
    BY <1>1, <1>3 DEF IInv, WriterInv, Files
  <2>2. goal = "new" => size = MaxSize
    BY DEF IInv, WriterInv, OpenLock
  <2>3. \A q \in Readers : \A f \in inbox[q] : f <= file
    BY DEF IInv, WriterInv
  <2>4. QED
    BY <1>1, <1>3, <2>1, <2>2, <2>3 DEF OpenLock, WriterInv, Posting, Holders
<1>8. NoEarlyRemoval'
  BY DEF IInv, OpenLock, NoEarlyRemoval
<1>9. CountInv'
  BY <1>2, <1>3 DEF IInv, OpenLock, CountInv, Covers, Counts, Content, Needing, counting
<1>10. QED
  BY <1>4, <1>5, <1>6, <1>7, <1>8, <1>9 DEF IInv

LEMMA FlushLockKeeps ==
  ASSUME IInv, FlushLock
  PROVE  IInv'
<1>1. /\ file \in Files /\ temp = None /\ data[file] # None
      /\ Cardinality(Holders(file)) <= posted
      /\ named[file] = Len(locks[file]) /\ named[file] # 0 /\ named[file] \in Nat
  BY DEF IInv, TypeInv, FlushLock, Posting, WriterInv
<1>2. /\ \A q \in Readers : reader[q] \in {"idle", "scan"}
      /\ \A f \in Files : Needing(f) = Holders(f)
  BY NobodyArchives DEF FlushLock, Stopped
<1>3. /\ locks' \in [Files -> Seq(Int)]
      /\ \A g \in Files : Len(locks'[g]) = Len(locks[g])
      /\ locks'[file][named[file]] = posted
      /\ \A g \in Files : g # file => locks'[g] = locks[g]
  <2>1. Len(locks[file]) \in 1 .. Len(locks[file]) /\ posted \in Int
    BY <1>1 DEF IInv, TypeInv
  <2>2. locks' = [locks EXCEPT ![file][Len(locks[file])] = posted]
    BY DEF FlushLock
  <2>3. /\ locks' \in [Files -> Seq(Int)]
        /\ \A g \in Files : Len(locks'[g]) = Len(locks[g])
        /\ locks'[file][Len(locks[file])] = posted
        /\ \A g \in Files : g # file => locks'[g] = locks[g]
    BY <1>1, <2>1, <2>2, WrittenLocks DEF IInv
  <2>4. QED
    BY <1>1, <2>3
<1>4. TypeInv'
  BY <1>3 DEF IInv, FlushLock, scanner, counting, TypeInv
<1>5. ClockInv'
  BY DEF IInv, FlushLock, ClockInv
<1>6. ReaderInv'
  BY <1>2 DEF IInv, FlushLock, ReaderInv, InHand, scanner, counting
<1>7. WriterInv'
  <2>1. \A f \in Files : (f > file => named[f] = 0) /\ named[f] \in {0, Len(locks'[f])}
    BY <1>3 DEF IInv, WriterInv
  <2>2. goal = "new" => size = MaxSize
    BY DEF IInv, WriterInv, FlushLock
  <2>3. \A q \in Readers : \A f \in inbox[q] : f <= file
    BY DEF IInv, WriterInv
  <2>4. writer' = goal /\ goal \in {"new", "done"}
    BY DEF FlushLock, IInv, TypeInv
  <2>5. QED
    BY <1>1, <2>1, <2>2, <2>3, <2>4 DEF FlushLock, WriterInv, Posting
<1>8. NoEarlyRemoval'
  BY DEF IInv, FlushLock, NoEarlyRemoval
<1>9. CountInv'
  <2>1. \A f \in Files : Needing(f)' = Needing(f)
    BY DEF FlushLock, Needing, counting
  <2>2. \A f \in Files : named[f] # 0 => Content(f)' >= Cardinality(Needing(f))
    <3>1. CASE posted >= Cardinality(Holders(file))
      BY <1>2, <1>3, <3>1 DEF IInv, CountInv, Covers, Counts, Content, FlushLock
    <3>2. Cardinality(Holders(file)) \in Nat /\ posted \in Nat
      BY Fewer DEF Holders, IInv, TypeInv
    <3>3. QED
      BY <1>1, <3>1, <3>2
  <2>3. QED
    BY <1>2, <2>1, <2>2 DEF FlushLock, CountInv, Covers, Counts, counting
<1>10. QED
  BY <1>4, <1>5, <1>6, <1>7, <1>8, <1>9 DEF IInv

LEMMA WriterDiesKeeps ==
  ASSUME IInv, "flush" \notin CrashPoints, WriterDies
  PROVE  IInv'
<1>1. writer # "flush" /\ writer' = "dead" /\ writer \in {"idle", "post", "lock", "new"}
  BY CommandFilesAssumption DEF WriterDies, CommandFilesAssumption
<1>2. ReaderInv' /\ CountInv'
  BY <1>1, WriterMoves DEF WriterDies, disk, Stopped
<1>3. TypeInv'
  BY DEF IInv, WriterDies, disk, scanner, counting, TypeInv
<1>4. ClockInv' /\ NoEarlyRemoval'
  BY DEF WriterDies, disk, ClockInv, NoEarlyRemoval, IInv
<1>5. WriterInv'
  BY <1>1 DEF IInv, WriterDies, disk, WriterInv, Posting, Holders
<1>6. QED
  BY <1>2, <1>3, <1>4, <1>5 DEF IInv

LEMMA TickKeeps ==
  ASSUME IInv, Tick
  PROVE  IInv'
<1>1. TypeInv'
  BY DEF IInv, Tick, disk, output, scanner, counting, TypeInv
<1>2. ClockInv'
  <2>1. now \in Nat /\ opened \in Nat /\ TimeOut \in Nat
    BY Constants DEF IInv, TypeInv
  <2>2. QED
    BY <2>1 DEF Tick, output, ClockInv
<1>3. ReaderInv' /\ WriterInv' /\ NoEarlyRemoval'
  BY DEF IInv, Tick, disk, output, scanner, counting, ReaderInv, InHand, WriterInv,
         NoEarlyRemoval, Stopped, Posting, Holders
<1>4. CountInv'
  BY DEF IInv, Tick, disk, output, counting, CountInv, Covers, Counts, Content, Needing
<1>5. QED
  BY <1>1, <1>2, <1>3, <1>4 DEF IInv

------------------------------------------------------------------------------
\* The readers' steps: they only take out of a directory, and need less.

LEMMA OutputStays ==
  ASSUME IInv, UNCHANGED <<now, output>>,
         \A q \in Readers : inbox'[q] \subseteq inbox[q],
         \A f \in Files : /\ named'[f] \in {0, named[f]}
                          /\ Len(locks'[f]) = Len(locks[f]),
         Stopped \/ UNCHANGED <<data, named, inbox>>
  PROVE  ClockInv' /\ WriterInv'
<1>1. ClockInv'
  BY DEF IInv, ClockInv, output
<1>2. Posting => UNCHANGED <<data, named, inbox>>
  BY DEF Posting, Stopped
<1>3. \A f \in Files : (f > file => named'[f] = 0) /\ named'[f] \in {0, Len(locks'[f])}
  BY DEF IInv, WriterInv
<1>4. WriterInv'
  BY <1>2, <1>3 DEF IInv, WriterInv, Posting, Holders, output
<1>5. QED
  BY <1>1, <1>4

LEMMA OthersRead ==
  ASSUME IInv, NEW r \in Readers, UNCHANGED output,
         \A q \in Readers \ {r} :
           UNCHANGED <<inbox[q], scanned[q], ready[q], reader[q], cmd[q]>>,
         InHand(r)'
  PROVE  ReaderInv'
  BY DEF IInv, ReaderInv, InHand, Stopped, output

LEMMA OthersCount ==
  ASSUME IInv, NEW r \in Readers, UNCHANGED <<locks, named, output>>,
         \A f \in Files : Needing(f)' \subseteq Needing(f),
         \A q \in Readers \ {r} : UNCHANGED <<reader[q], cmd[q], handle[q], delta[q]>>,
         Counts(r)'
  PROVE  CountInv'
<1>1. \A f \in Files : /\ Needing(f)' \subseteq Readers
                       /\ Cardinality(Needing(f)') \in Nat
                       /\ Cardinality(Needing(f)) \in Nat
                       /\ Cardinality(Needing(f)') <= Cardinality(Needing(f))
  BY Fewer DEF Needing
<1>2. ASSUME NEW f \in Files  PROVE Covers(f)'
  <2>1. Content(f)' = Content(f)
    BY DEF Content
  <2>2. named[f] # 0 => Content(f) \in Int
    <3>1. named[f] # 0 => named[f] \in 1 .. Len(locks[f])
      BY DEF IInv, TypeInv, WriterInv
    <3>2. locks[f] \in Seq(Int)
      BY DEF IInv, TypeInv
    <3>3. QED
      BY <3>1, <3>2, ElementOfSeq DEF Content
  <2>3. QED
    BY <1>1, <2>1, <2>2 DEF IInv, CountInv, Covers, output
<1>3. ASSUME NEW q \in Readers, q # r  PROVE Counts(q)'
  <2>1. cmd[q] \in 0 .. MaxFiles /\ (reader[q] \in Archiving => cmd[q] \in Files)
        /\ delta[q] \in Int
    BY DEF IInv, TypeInv, ReaderInv, InHand
  <2>2. CASE reader[q] = "flush"
    BY <1>1, <1>3, <2>1, <2>2 DEF IInv, CountInv, Counts, Archiving
  <2>3. CASE reader[q] \in {"data", "lock"}
    <3>1. Needing(cmd[q]) = {} /\ cmd[q] \in Files
      BY <2>1, <2>3 DEF IInv, CountInv, Counts, Archiving
    <3>2. Needing(cmd[q])' = {}
      BY <1>3, <3>1
    <3>3. QED
      BY <1>3, <2>3, <3>2 DEF Counts
  <2>4. CASE reader[q] \notin {"flush", "data", "lock"}
    BY <1>3, <2>4 DEF IInv, CountInv, Counts
  <2>5. QED
    BY <2>2, <2>3, <2>4
<1>4. QED
  BY <1>2, <1>3 DEF CountInv

LEMMA StartScanKeeps ==
  ASSUME IInv, NEW r \in Readers, StartScan(r)
  PROVE  IInv'
<1>1. TypeInv'
  BY DEF IInv, TypeInv, Archiving, StartScan, disk, output, scanner, counting, Goes
<1>2. ClockInv' /\ WriterInv'
  BY OutputStays DEF StartScan, disk
<1>3. ReaderInv'
  <2>1. InHand(r)'
    BY DEF IInv, TypeInv, ReaderInv, InHand, Archiving, Stopped, StartScan, disk, output, scanner, counting, Goes
  <2>2. \A q \in Readers \ {r} :
           UNCHANGED <<inbox[q], scanned[q], ready[q], reader[q], cmd[q]>>
    BY DEF IInv, TypeInv, StartScan, disk, scanner, counting, Goes
  <2>3. UNCHANGED output
    BY DEF StartScan
  <2>4. QED
    BY <2>1, <2>2, <2>3, OthersRead
<1>4. NoEarlyRemoval'
  BY DEF IInv, NoEarlyRemoval, StartScan, disk
<1>5. CountInv'
  <2>1. \A f \in Files : Needing(f)' \subseteq Needing(f)
    BY DEF IInv, TypeInv, StartScan, Needing, disk, counting, Goes
  <2>2. \A q \in Readers \ {r} : UNCHANGED <<reader[q], cmd[q], handle[q], delta[q]>>
    BY DEF IInv, TypeInv, StartScan, counting, Goes
  <2>3. Counts(r)'
    BY DEF IInv, TypeInv, StartScan, Counts, counting, Goes
  <2>4. UNCHANGED <<locks, named, output>>
    BY DEF StartScan, disk
  <2>5. QED
    BY <2>1, <2>2, <2>3, <2>4, OthersCount
<1>6. QED
  BY <1>1, <1>2, <1>3, <1>4, <1>5 DEF IInv

LEMMA LoadKeeps ==
  ASSUME IInv, NEW r \in Readers, NEW f \in Files, Load(r, f)
  PROVE  IInv'
<1>1. TypeInv'
  <2>1. scanned' \in [Readers -> SUBSET Files]
    <3>1. CASE scanned' = [scanned EXCEPT ![r] = @ \cup {f}]
      BY <3>1 DEF IInv, TypeInv
    <3>2. CASE scanned' = scanned
      BY <3>2 DEF IInv, TypeInv
    <3>3. QED
      BY <3>1, <3>2 DEF Load
  <2>2. QED
    BY <2>1 DEF IInv, TypeInv, Load, disk, output, counting
<1>2. ClockInv' /\ WriterInv'
  BY OutputStays DEF Load, disk
<1>3. ReaderInv'
  <2>1. InHand(r)'
    BY DEF IInv, TypeInv, ReaderInv, InHand, Archiving, Stopped, Load, disk, output, scanner, counting, Goes
  <2>2. \A q \in Readers \ {r} :
           UNCHANGED <<inbox[q], scanned[q], ready[q], reader[q], cmd[q]>>
    BY DEF IInv, TypeInv, Load, disk, scanner, counting, Goes
  <2>3. UNCHANGED output
    BY DEF Load
  <2>4. QED
    BY <2>1, <2>2, <2>3, OthersRead
<1>4. NoEarlyRemoval'
  BY DEF IInv, NoEarlyRemoval, Load, disk
<1>5. CountInv'
  <2>1. \A g \in Files : Needing(g)' \subseteq Needing(g)
    BY DEF IInv, TypeInv, Load, Needing, disk, counting, Goes
  <2>2. \A q \in Readers \ {r} : UNCHANGED <<reader[q], cmd[q], handle[q], delta[q]>>
    BY DEF IInv, TypeInv, Load, counting, Goes
  <2>3. Counts(r)'
    BY DEF IInv, TypeInv, Load, Counts, counting, Goes
  <2>4. UNCHANGED <<locks, named, output>>
    BY DEF Load, disk
  <2>5. QED
    BY <2>1, <2>2, <2>3, <2>4, OthersCount
<1>6. QED
  BY <1>1, <1>2, <1>3, <1>4, <1>5 DEF IInv

LEMMA CloseBatchKeeps ==
  ASSUME IInv, NEW r \in Readers, CloseBatch(r)
  PROVE  IInv'
<1>1. TypeInv'
  BY DEF IInv, TypeInv, Archiving, CloseBatch, disk, output, scanner, counting, Goes
<1>2. ClockInv' /\ WriterInv'
  BY OutputStays DEF CloseBatch, disk
<1>3. ReaderInv'
  <2>1. InHand(r)'
    BY DEF IInv, TypeInv, ReaderInv, InHand, Archiving, Stopped, CloseBatch, disk, output, scanner, counting, Goes
  <2>2. \A q \in Readers \ {r} :
           UNCHANGED <<inbox[q], scanned[q], ready[q], reader[q], cmd[q]>>
    BY DEF IInv, TypeInv, CloseBatch, disk, scanner, counting, Goes
  <2>3. UNCHANGED output
    BY DEF CloseBatch
  <2>4. QED
    BY <2>1, <2>2, <2>3, OthersRead
<1>4. NoEarlyRemoval'
  BY DEF IInv, NoEarlyRemoval, CloseBatch, disk
<1>5. CountInv'
  <2>1. \A f \in Files : Needing(f)' \subseteq Needing(f)
    BY DEF IInv, TypeInv, CloseBatch, Needing, disk, counting, Goes
  <2>2. \A q \in Readers \ {r} : UNCHANGED <<reader[q], cmd[q], handle[q], delta[q]>>
    BY DEF IInv, TypeInv, CloseBatch, counting, Goes
  <2>3. Counts(r)'
    BY DEF IInv, TypeInv, CloseBatch, Counts, counting, Goes
  <2>4. UNCHANGED <<locks, named, output>>
    BY DEF CloseBatch, disk
  <2>5. QED
    BY <2>1, <2>2, <2>3, <2>4, OthersCount
<1>6. QED
  BY <1>1, <1>2, <1>3, <1>4, <1>5 DEF IInv

LEMMA ReaderDiesKeeps ==
  ASSUME IInv, NEW r \in Readers, ReaderDies(r)
  PROVE  IInv'
<1>1. TypeInv'
  <2>1. /\ scanned' \in [Readers -> SUBSET Files] /\ ready' \in [Readers -> SUBSET Files]
        /\ reader' \in [Readers -> {"idle", "scan", "batch"} \cup Archiving]
    BY DEF IInv, TypeInv, ReaderDies, Goes
  <2>2. /\ cmd' \in [Readers -> 0 .. MaxFiles]
        /\ handle' \in [Readers -> Nat] /\ delta' \in [Readers -> Int]
    BY Constants DEF IInv, TypeInv, ReaderDies
  <2>3. QED
    BY <2>1, <2>2 DEF IInv, TypeInv, ReaderDies, disk, output
<1>2. ClockInv' /\ WriterInv'
  BY OutputStays DEF ReaderDies, disk
<1>3. ReaderInv'
  <2>1. InHand(r)'
    BY DEF IInv, TypeInv, ReaderInv, InHand, Archiving, Stopped, ReaderDies, disk, output, scanner, counting, Goes
  <2>2. \A q \in Readers \ {r} :
           UNCHANGED <<inbox[q], scanned[q], ready[q], reader[q], cmd[q]>>
    BY DEF IInv, TypeInv, ReaderDies, disk, scanner, counting, Goes
  <2>3. UNCHANGED output
    BY DEF ReaderDies
  <2>4. QED
    BY <2>1, <2>2, <2>3, OthersRead
<1>4. NoEarlyRemoval'
  BY DEF IInv, NoEarlyRemoval, ReaderDies, disk
<1>5. CountInv'
  <2>1. \A f \in Files : Needing(f)' \subseteq Needing(f)
    BY DEF IInv, TypeInv, ReaderDies, Needing, disk, counting, Goes
  <2>2. \A q \in Readers \ {r} : UNCHANGED <<reader[q], cmd[q], handle[q], delta[q]>>
    BY DEF IInv, TypeInv, ReaderDies, counting, Goes
  <2>3. Counts(r)'
    BY DEF IInv, TypeInv, ReaderDies, Counts, counting, Goes
  <2>4. UNCHANGED <<locks, named, output>>
    BY DEF ReaderDies, disk
  <2>5. QED
    BY <2>1, <2>2, <2>3, <2>4, OthersCount
<1>6. QED
  BY <1>1, <1>2, <1>3, <1>4, <1>5 DEF IInv

\* A batch is handed out when the clock has passed the time-out, and by then
\* the writer has stopped.
LEMMA EndScanKeeps ==
  ASSUME IInv, NEW r \in Readers, EndScan(r)
  PROVE  IInv'
<1>1. reader[r] = "scan" /\ ready[r] = {} /\ scanned[r] \subseteq inbox[r]
  BY DEF IInv, ReaderInv, InHand, EndScan
<1>2. TypeInv'
  <2>1. /\ scanned' \in [Readers -> SUBSET Files] /\ ready' \in [Readers -> SUBSET Files]
        /\ reader' \in [Readers -> {"idle", "scan", "batch"} \cup Archiving]
    BY DEF IInv, TypeInv, EndScan, Goes
  <2>2. QED
    BY <2>1 DEF IInv, TypeInv, EndScan, disk, output
<1>3. ClockInv' /\ WriterInv'
  BY OutputStays DEF EndScan, disk
<1>4. ReaderInv'
  <2>1. IsReady /\ scanned[r] # {} => Stopped
    <3>1. now \in Nat /\ opened \in Nat /\ TimeOut \in Nat
      BY Constants DEF IInv, TypeInv
    <3>2. IsReady => writer \in {"closed", "done", "dead"}
      BY <3>1 DEF IInv, ClockInv, IsReady
    <3>3. writer = "closed" => inbox[r] = {}
      BY DEF IInv, WriterInv
    <3>4. QED
      BY <1>1, <3>2, <3>3 DEF Stopped
  <2>2. InHand(r)'
    <3>1. CASE IsReady /\ scanned[r] # {}
      BY <1>1, <2>1, <3>1 DEF IInv, TypeInv, InHand, Archiving, Stopped, EndScan, disk, output, Goes
    <3>2. CASE ~(IsReady /\ scanned[r] # {})
      BY <1>1, <3>2 DEF IInv, TypeInv, InHand, Archiving, EndScan, disk, Goes
    <3>3. QED
      BY <3>1, <3>2
  <2>3. \A q \in Readers \ {r} :
           UNCHANGED <<inbox[q], scanned[q], ready[q], reader[q], cmd[q]>>
    BY DEF IInv, TypeInv, EndScan, disk, Goes
  <2>4. UNCHANGED output
    BY DEF EndScan
  <2>5. QED
    BY <2>2, <2>3, <2>4, OthersRead
<1>5. NoEarlyRemoval'
  BY DEF IInv, NoEarlyRemoval, EndScan, disk
<1>6. CountInv'
  <2>1. reader' \in {[reader EXCEPT ![r] = "batch"], [reader EXCEPT ![r] = "idle"]}
    BY DEF EndScan, Goes
  <2>2. \A f \in Files : Needing(f)' \subseteq Needing(f)
    BY <2>1 DEF IInv, TypeInv, EndScan, Needing, disk
  <2>3. \A q \in Readers \ {r} : UNCHANGED <<reader[q], cmd[q], handle[q], delta[q]>>
    BY <2>1 DEF IInv, TypeInv, EndScan
  <2>4. Counts(r)'
    BY <2>1 DEF IInv, TypeInv, Counts
  <2>5. UNCHANGED <<locks, named, output>>
    BY DEF EndScan, disk
  <2>6. QED
    BY <2>2, <2>3, <2>4, <2>5, OthersCount
<1>7. QED
  BY <1>2, <1>3, <1>4, <1>5, <1>6 DEF IInv

LEMMA RenameKeeps ==
  ASSUME IInv, NEW r \in Readers, NEW f \in Files, Rename(r, f)
  PROVE  IInv'
<1>1. /\ reader[r] = "batch" /\ ready[r] \subseteq inbox[r] /\ f \in ready[r]
      /\ Stopped /\ scanned[r] = {}
  BY DEF IInv, ReaderInv, InHand, Rename
<1>2. TypeInv'
  <2>1. inbox' \in [Readers -> SUBSET Files]
    BY DEF IInv, TypeInv, Rename
  <2>2. reader' \in [Readers -> {"idle", "scan", "batch"} \cup Archiving]
    BY DEF IInv, TypeInv, Rename, Goes, Archiving
  <2>3. cmd' \in [Readers -> 0 .. MaxFiles]
    BY Constants DEF IInv, TypeInv, Rename
  <2>4. QED
    BY <2>1, <2>2, <2>3 DEF IInv, TypeInv, Rename, output, scanner
<1>3. \A q \in Readers : inbox'[q] \subseteq inbox[q]
  BY DEF IInv, TypeInv, Rename
<1>4. ClockInv' /\ WriterInv'
  <2>1. \A g \in Files : named'[g] \in {0, named[g]} /\ Len(locks'[g]) = Len(locks[g])
    BY DEF Rename
  <2>2. QED
    BY <1>1, <1>3, <2>1, OutputStays DEF Rename
<1>5. ReaderInv'
  <2>1. InHand(r)'
    BY <1>1 DEF IInv, TypeInv, InHand, Archiving, Stopped, Rename, output, scanner, Goes
  <2>2. \A q \in Readers \ {r} :
           UNCHANGED <<inbox[q], scanned[q], ready[q], reader[q], cmd[q]>>
    BY DEF IInv, TypeInv, Rename, scanner, Goes
  <2>3. UNCHANGED output
    BY DEF Rename
  <2>4. QED
    BY <2>1, <2>2, <2>3, OthersRead
<1>6. NoEarlyRemoval'
  BY <1>3 DEF IInv, NoEarlyRemoval, Rename
<1>7. CountInv'
  <2>1. \A g \in Files : Needing(g)' \subseteq Needing(g)
    BY <1>1 DEF IInv, TypeInv, Rename, Needing, Goes
  <2>2. \A q \in Readers \ {r} : UNCHANGED <<reader[q], cmd[q], handle[q], delta[q]>>
    BY DEF IInv, TypeInv, Rename, Goes
  <2>3. Counts(r)'
    BY DEF IInv, TypeInv, Rename, Counts, Goes
  <2>4. UNCHANGED <<locks, named, output>>
    BY DEF Rename
  <2>5. QED
    BY <2>1, <2>2, <2>3, <2>4, OthersCount
<1>8. QED
  BY <1>2, <1>4, <1>5, <1>6, <1>7 DEF IInv

\* What the end of archive() leaves of the command and of the batch.
LEMMA ArchivedEnds ==
  ASSUME IInv, NEW r \in Readers, reader[r] \in Archiving, Archived(r),
         UNCHANGED <<inbox, output>>
  PROVE  /\ ready' \in [Readers -> SUBSET Files] /\ UNCHANGED scanned
         /\ reader' \in [Readers -> {"idle", "scan", "batch"} \cup Archiving]
         /\ cmd' \in [Readers -> 0 .. MaxFiles]
         /\ handle' \in [Readers -> Nat] /\ delta' \in [Readers -> Int]
         /\ ReaderInv' /\ Counts(r)'
         /\ \A f \in Files : Needing(f)' \subseteq Needing(f)
         /\ \A q \in Readers \ {r} : UNCHANGED <<reader[q], cmd[q], handle[q], delta[q]>>
<1>1. /\ cmd[r] \in ready[r] /\ cmd[r] \notin inbox[r] /\ scanned[r] = {}
      /\ ready[r] \ {cmd[r]} \subseteq inbox[r] /\ Stopped
  BY DEF IInv, ReaderInv, InHand, Archiving
<1>2. /\ ready' \in [Readers -> SUBSET Files] /\ UNCHANGED scanned
      /\ reader' \in [Readers -> {"idle", "scan", "batch"} \cup Archiving]
  BY DEF IInv, TypeInv, Archived, Goes
<1>3. /\ cmd' \in [Readers -> 0 .. MaxFiles]
      /\ handle' \in [Readers -> Nat] /\ delta' \in [Readers -> Int]
  BY Constants DEF IInv, TypeInv, Archived
<1>4. reader'[r] \in {"idle", "batch"} /\ (reader'[r] = "idle" => ready[r] = {cmd[r]})
  BY DEF IInv, TypeInv, Archived, Goes
<1>5. InHand(r)'
  BY <1>1, <1>4 DEF IInv, TypeInv, InHand, Archiving, Stopped, Archived, output
<1>6. \A q \in Readers \ {r} :
         UNCHANGED <<inbox[q], scanned[q], ready[q], reader[q], cmd[q], handle[q], delta[q]>>
  BY DEF IInv, TypeInv, Archived, Goes
<1>7. ReaderInv'
  BY <1>5, <1>6, OthersRead
<1>8. Counts(r)'
  BY <1>4 DEF Counts
<1>9. \A f \in Files : Needing(f)' \subseteq Needing(f)
  BY <1>4, <1>6 DEF Needing
<1>10. QED
  BY <1>2, <1>3, <1>6, <1>7, <1>8, <1>9

LEMMA ExistsKeeps ==
  ASSUME IInv, NEW r \in Readers, Exists(r)
  PROVE  IInv'
<1>1. reader[r] \in Archiving /\ UNCHANGED <<now, disk, output>>
  BY DEF Exists, Archiving
<1>2. ClockInv' /\ WriterInv'
  BY <1>1, OutputStays DEF disk
<1>3. NoEarlyRemoval'
  BY <1>1 DEF IInv, NoEarlyRemoval, disk
<1>4. CASE Archived(r)
  <2>1. TypeInv'
    BY <1>1, <1>4, ArchivedEnds DEF IInv, TypeInv, disk, output
  <2>2. ReaderInv' /\ CountInv'
    BY <1>1, <1>4, ArchivedEnds, OthersCount DEF disk
  <2>3. QED
    BY <1>2, <1>3, <2>1, <2>2 DEF IInv
<1>5. CASE named[cmd[r]] # 0 /\ Goes(r, "open") /\ UNCHANGED <<scanner, cmd, handle, delta>>
  <2>1. TypeInv'
    BY <1>1, <1>5 DEF IInv, TypeInv, Goes, Archiving, disk, output, scanner
  <2>2. \A q \in Readers \ {r} :
           UNCHANGED <<inbox[q], scanned[q], ready[q], reader[q], cmd[q], handle[q], delta[q]>>
    BY <1>1, <1>5 DEF IInv, TypeInv, Goes, disk, scanner
  <2>3. InHand(r)'
    BY <1>1, <1>5 DEF IInv, TypeInv, ReaderInv, InHand, Archiving, Stopped, Goes, disk, output, scanner
  <2>4. ReaderInv'
    BY <1>1, <2>2, <2>3, OthersRead
  <2>5. \A f \in Files : Needing(f)' \subseteq Needing(f)
    BY <1>1, <1>5 DEF IInv, TypeInv, Needing, Goes, disk, Exists
  <2>6. Counts(r)'
    BY <1>1, <1>5 DEF IInv, TypeInv, Counts, Goes, disk
  <2>7. CountInv'
    BY <1>1, <2>2, <2>5, <2>6, OthersCount DEF disk
  <2>8. QED
    BY <1>2, <1>3, <2>1, <2>4, <2>7 DEF IInv
<1>6. QED
  BY <1>4, <1>5 DEF Exists

LEMMA OpenCounterKeeps ==
  ASSUME IInv, NEW r \in Readers, OpenCounter(r)
  PROVE  IInv'
<1>1. /\ named[cmd[r]] # 0 /\ cmd[r] \in Files
      /\ UNCHANGED <<now, data, inbox, output, scanner, cmd, delta>>
  BY DEF IInv, TypeInv, ReaderInv, InHand, CountInv, Counts, OpenCounter, Archiving
<1>2. UNCHANGED <<locks, named>>
  BY <1>1 DEF OpenCounter, Incarnate
<1>3. /\ reader' = [reader EXCEPT ![r] = "count"]
      /\ handle' = [handle EXCEPT ![r] = named[cmd[r]]]
  BY <1>2 DEF OpenCounter, Goes
<1>4. TypeInv'
  BY <1>1, <1>2, <1>3 DEF IInv, TypeInv, Archiving, output, scanner
<1>5. ClockInv' /\ WriterInv'
  BY <1>1, <1>2, OutputStays
<1>6. \A q \in Readers \ {r} :
         UNCHANGED <<inbox[q], scanned[q], ready[q], reader[q], cmd[q], handle[q], delta[q]>>
  BY <1>1, <1>3 DEF IInv, TypeInv, scanner
<1>7. InHand(r)'
  BY <1>1, <1>3 DEF IInv, TypeInv, ReaderInv, InHand, Archiving, Stopped, OpenCounter, output, scanner
<1>8. ReaderInv'
  BY <1>1, <1>6, <1>7, OthersRead
<1>9. NoEarlyRemoval'
  BY <1>1 DEF IInv, NoEarlyRemoval
<1>10. \A f \in Files : Needing(f)' \subseteq Needing(f)
  BY <1>1, <1>3 DEF IInv, TypeInv, Needing, OpenCounter
<1>11. Counts(r)'
  BY <1>1, <1>2, <1>3 DEF IInv, TypeInv, Counts
<1>12. CountInv'
  BY <1>1, <1>2, <1>6, <1>10, <1>11, OthersCount
<1>13. QED
  BY <1>4, <1>5, <1>8, <1>9, <1>12 DEF IInv

\* Whoever counts has the counter with the name, and is one of those it covers.
LEMMA CountKeeps ==
  ASSUME IInv, NEW r \in Readers, Count(r)
  PROVE  IInv'
<1> DEFINE f == cmd[r]
<1>1. /\ f \in Files /\ named[f] # 0 /\ handle[r] = named[f]
      /\ reader[r] = "count" /\ Stopped
      /\ UNCHANGED <<now, disk, output, scanner, cmd, handle>>
  BY DEF IInv, TypeInv, ReaderInv, InHand, CountInv, Counts, Count, Archiving
<1>2. /\ Content(f) \in Int /\ Cardinality(Needing(f)) \in Nat
      /\ Content(f) >= Cardinality(Needing(f)) /\ named[f] \in 1 .. Len(locks[f])
  <2>1. named[f] \in 1 .. Len(locks[f]) /\ locks[f] \in Seq(Int)
    BY <1>1 DEF IInv, TypeInv, WriterInv
  <2>2. Content(f) \in Int
    BY <2>1, ElementOfSeq DEF Content
  <2>3. Content(f) >= Cardinality(Needing(f))
    BY <1>1 DEF IInv, CountInv, Covers, Stopped
  <2>4. QED
    BY <2>1, <2>2, <2>3, Fewer DEF Needing
<1>3. r \in Needing(f) /\ Needing(f) \subseteq Readers
  BY <1>1 DEF Needing
<1>4. Content(f) >= 1
  <2>1. Needing(f) # {}
    BY <1>3
  <2>2. QED
    BY <1>2, <1>3, <2>1, NobodyLeft
<1>5. /\ delta' = [delta EXCEPT ![r] = Content(f) - 1]
      /\ reader' = [reader EXCEPT ![r] = "flush"]
  <2>1. locks[cmd[r]][handle[r]] = Content(f) /\ Content(f) # Blank
    BY <1>1, <1>2, <1>4 DEF Content, Blank
  <2>2. QED
    BY <1>1, <2>1 DEF Count, Goes
<1>6. TypeInv'
  <2>1. /\ delta' \in [Readers -> Int]
        /\ reader' \in [Readers -> {"idle", "scan", "batch"} \cup Archiving]
    <3>1. Content(f) - 1 \in Int
      BY <1>2
    <3>2. QED
      BY <1>5, <3>1 DEF IInv, TypeInv, Archiving
  <2>2. QED
    BY <1>1, <2>1 DEF IInv, TypeInv, disk, output, scanner
<1>7. ClockInv' /\ WriterInv'
  BY <1>1, OutputStays DEF disk
<1>8. \A q \in Readers \ {r} :
         UNCHANGED <<inbox[q], scanned[q], ready[q], reader[q], cmd[q], handle[q], delta[q]>>
  BY <1>1, <1>5 DEF IInv, TypeInv, disk, scanner
<1>9. InHand(r)'
  BY <1>1, <1>5 DEF IInv, TypeInv, ReaderInv, InHand, Archiving, Stopped, disk, output, scanner
<1>10. ReaderInv'
  BY <1>1, <1>8, <1>9, OthersRead
<1>11. NoEarlyRemoval'
  BY <1>1 DEF IInv, NoEarlyRemoval, disk
<1>12. /\ \A g \in Files : Needing(g)' \subseteq Needing(g)
       /\ Needing(f)' \subseteq Needing(f) \ {r}
  BY <1>1, <1>5 DEF IInv, TypeInv, ReaderInv, InHand, Archiving, Needing, disk
<1>13. Counts(r)'
  <2>1. Cardinality(Needing(f)') <= Cardinality(Needing(f)) - 1
    BY <1>3, <1>12, OneFewer
  <2>2. Cardinality(Needing(f)') \in Nat
    BY <1>3, <1>12, Fewer
  <2>3. delta'[r] >= Cardinality(Needing(f)') /\ cmd'[r] = f
    BY <1>1, <1>2, <1>5, <2>1, <2>2 DEF IInv, TypeInv
  <2>4. reader'[r] = "flush" /\ handle'[r] = named[f] /\ UNCHANGED <<locks, named>>
    BY <1>1, <1>5 DEF IInv, TypeInv, disk
  <2>5. QED
    BY <1>1, <1>2, <2>3, <2>4 DEF Counts
<1>14. CountInv'
  BY <1>1, <1>8, <1>12, <1>13, OthersCount DEF disk
<1>15. QED
  BY <1>6, <1>7, <1>10, <1>11, <1>14 DEF IInv

\* What Counts says of the others survives a step in which less is needed and
\* a counter that has lost its name does not get it back.
LEMMA OthersKeepCounts ==
  ASSUME IInv, NEW r \in Readers,
         \A f \in Files : /\ Needing(f)' \subseteq Needing(f)
                          /\ Len(locks'[f]) = Len(locks[f])
                          /\ named'[f] = named[f] \/ (named'[f] = 0 /\ Needing(f)' = {}),
         NEW q \in Readers, q # r,
         UNCHANGED <<reader[q], cmd[q], handle[q], delta[q]>>
  PROVE  Counts(q)'
<1>1. /\ reader[q] \in Archiving => cmd[q] \in Files
      /\ delta[q] \in Int
  BY DEF IInv, TypeInv, ReaderInv, InHand
<1>2. CASE reader[q] \in {"open", "count"}
  <2>1. q \in Needing(cmd[q])'
    BY <1>2 DEF Needing
  <2>2. QED
    BY <1>1, <1>2, <2>1 DEF IInv, CountInv, Counts, Archiving
<1>3. CASE reader[q] = "flush"
  <2>1. cmd[q] \in Files
    BY <1>1, <1>3 DEF Archiving
  <2>2. /\ Cardinality(Needing(cmd[q])') \in Nat /\ Cardinality(Needing(cmd[q])) \in Nat
        /\ Cardinality(Needing(cmd[q])') <= Cardinality(Needing(cmd[q]))
    <3>1. Needing(cmd[q]) \subseteq Readers /\ Needing(cmd[q])' \subseteq Needing(cmd[q])
      BY <2>1 DEF Needing
    <3>2. QED
      BY <3>1, Fewer
  <2>3. QED
    BY <1>1, <1>3, <2>1, <2>2 DEF IInv, CountInv, Counts
<1>4. CASE reader[q] \in {"data", "lock"}
  <2>1. cmd[q] \in Files /\ Needing(cmd[q]) = {}
    BY <1>1, <1>4 DEF IInv, CountInv, Counts, Archiving
  <2>2. Needing(cmd[q])' = {}
    BY <2>1
  <2>3. QED
    BY <1>4, <2>2 DEF Counts
<1>5. CASE reader[q] \notin {"open", "count", "flush", "data", "lock"}
  BY <1>5 DEF Counts
<1>6. QED
  BY <1>2, <1>3, <1>4, <1>5

LEMMA FlushCountKeeps ==
  ASSUME IInv, NEW r \in Readers, FlushCount(r)
  PROVE  IInv'
<1> DEFINE f == cmd[r]
<1>1. /\ f \in Files /\ reader[r] = "flush" /\ Stopped /\ delta[r] \in Int
      /\ handle[r] \in 1 .. Len(locks[f]) /\ named[f] \in {0, handle[r]}
      /\ delta[r] >= Cardinality(Needing(f))
      /\ UNCHANGED <<now, data, named, inbox, output>>
  BY DEF IInv, TypeInv, ReaderInv, InHand, CountInv, Counts, FlushCount, Archiving
<1>2. /\ locks' \in [Files -> Seq(Int)]
      /\ \A g \in Files : Len(locks'[g]) = Len(locks[g])
      /\ locks'[f][handle[r]] = delta[r]
      /\ \A g \in Files : g # f => locks'[g] = locks[g]
  <2>1. locks' = [locks EXCEPT ![f][handle[r]] = delta[r]]
    BY DEF FlushCount
  <2>2. QED
    BY <1>1, <2>1, WrittenLocks DEF IInv
<1>3. ClockInv' /\ WriterInv'
  BY <1>1, <1>2, OutputStays
<1>4. NoEarlyRemoval'
  BY <1>1 DEF IInv, NoEarlyRemoval
<1>5. /\ TypeInv' /\ ReaderInv' /\ Counts(r)'
      /\ \A g \in Files : Needing(g)' \subseteq Needing(g)
      /\ \A q \in Readers \ {r} : UNCHANGED <<reader[q], cmd[q], handle[q], delta[q]>>
  <2>1. CASE Archived(r)
    <3>1. reader[r] \in Archiving
      BY <1>1 DEF Archiving
    <3>2. QED
      BY <1>1, <1>2, <2>1, <3>1, ArchivedEnds DEF IInv, TypeInv, output
  <2>2. CASE delta[r] < 1 /\ Goes(r, "data") /\ UNCHANGED <<scanner, cmd, handle, delta>>
    <3>1. TypeInv'
      BY <1>1, <1>2, <2>2 DEF IInv, TypeInv, Goes, Archiving, output, scanner
    <3>2. \A q \in Readers \ {r} :
             UNCHANGED <<inbox[q], scanned[q], ready[q], reader[q], cmd[q], handle[q], delta[q]>>
      BY <1>1, <2>2 DEF IInv, TypeInv, Goes, scanner
    <3>3. InHand(r)'
      BY <1>1, <2>2 DEF IInv, TypeInv, ReaderInv, InHand, Archiving, Stopped, Goes, output, scanner
    <3>4. ReaderInv'
      BY <1>1, <3>2, <3>3, OthersRead
    <3>5. \A g \in Files : Needing(g)' \subseteq Needing(g)
      BY <1>1, <2>2 DEF IInv, TypeInv, Goes, Needing
    <3>6. Needing(f) = {}
      <4>1. Needing(f) \subseteq Readers /\ Cardinality(Needing(f)) \in Nat
        BY Fewer DEF Needing
      <4>2. QED
        BY <1>1, <2>2, <4>1, NobodyLeft
    <3>7. cmd'[r] = f /\ Needing(f)' = {} /\ reader'[r] = "data"
      BY <1>1, <2>2, <3>5, <3>6 DEF IInv, TypeInv, Goes
    <3>8. Counts(r)'
      BY <3>7 DEF Counts
    <3>9. QED
      BY <3>1, <3>2, <3>4, <3>5, <3>8
  <2>3. QED
    BY <2>1, <2>2 DEF FlushCount
<1>6. CountInv'
  <2>1. ASSUME NEW q \in Readers, q # r  PROVE Counts(q)'
    BY <1>1, <1>2, <1>5, <2>1, OthersKeepCounts
  <2>2. ASSUME NEW g \in Files  PROVE Covers(g)'
    <3>1. /\ Cardinality(Needing(g)') \in Nat /\ Cardinality(Needing(g)) \in Nat
          /\ Cardinality(Needing(g)') <= Cardinality(Needing(g))
      <4>1. Needing(g) \subseteq Readers /\ Needing(g)' \subseteq Needing(g)
        BY <1>5 DEF Needing
      <4>2. QED
        BY <4>1, Fewer
    <3>2. CASE g = f
      BY <1>1, <1>2, <3>1, <3>2 DEF Covers, Content
    <3>3. CASE g # f
      <4>1. Content(g)' = Content(g) /\ named'[g] = named[g]
        BY <1>1, <1>2, <3>3 DEF Content
      <4>2. named[g] # 0 => Content(g) \in Int
        <5>1. named[g] # 0 => named[g] \in 1 .. Len(locks[g])
          BY DEF IInv, TypeInv, WriterInv
        <5>2. locks[g] \in Seq(Int)
          BY DEF IInv, TypeInv
        <5>3. QED
          BY <5>1, <5>2, ElementOfSeq DEF Content
      <4>3. writer # "flush"
        BY <1>1 DEF Stopped
      <4>4. QED
        BY <3>1, <4>1, <4>2, <4>3 DEF IInv, CountInv, Covers
    <3>4. QED
      BY <3>2, <3>3
  <2>3. QED
    BY <1>5, <2>1, <2>2 DEF CountInv
<1>7. QED
  BY <1>3, <1>4, <1>5, <1>6 DEF IInv

LEMMA RemoveDataKeeps ==
  ASSUME IInv, NEW r \in Readers, RemoveData(r)
  PROVE  IInv'
<1>1. /\ cmd[r] \in Files /\ reader[r] = "data" /\ Stopped /\ Needing(cmd[r]) = {}
      /\ UNCHANGED <<now, locks, named, inbox, output, scanner, cmd, handle, delta>>
      /\ reader' = [reader EXCEPT ![r] = "lock"]
      /\ data' = [data EXCEPT ![cmd[r]] = None]
  BY DEF IInv, TypeInv, ReaderInv, InHand, CountInv, Counts, RemoveData, Archiving, Goes
<1>2. TypeInv'
  BY <1>1, SmallSeqs DEF IInv, TypeInv, None, Archiving, output, scanner
<1>3. ClockInv' /\ WriterInv'
  BY <1>1, OutputStays
<1>4. \A q \in Readers \ {r} :
         UNCHANGED <<inbox[q], scanned[q], ready[q], reader[q], cmd[q], handle[q], delta[q]>>
  BY <1>1 DEF IInv, TypeInv, scanner
<1>5. InHand(r)'
  BY <1>1 DEF IInv, TypeInv, ReaderInv, InHand, Archiving, Stopped, output, scanner
<1>6. ReaderInv'
  BY <1>1, <1>4, <1>5, OthersRead
<1>7. NoEarlyRemoval'
  <2>1. \A q \in Readers : cmd[r] \notin inbox[q]
    BY <1>1 DEF Needing
  <2>2. QED
    BY <1>1, <2>1 DEF IInv, TypeInv, NoEarlyRemoval
<1>8. \A f \in Files : Needing(f)' \subseteq Needing(f)
  BY <1>1 DEF IInv, TypeInv, Needing
<1>9. Counts(r)'
  <2>1. Needing(cmd[r])' = {} /\ reader'[r] = "lock" /\ cmd'[r] = cmd[r]
    BY <1>1, <1>8 DEF IInv, TypeInv
  <2>2. QED
    BY <2>1 DEF Counts
<1>10. CountInv'
  BY <1>1, <1>4, <1>8, <1>9, OthersCount
<1>11. QED
  BY <1>2, <1>3, <1>6, <1>7, <1>10 DEF IInv

LEMMA RemoveLockKeeps ==
  ASSUME IInv, NEW r \in Readers, RemoveLock(r)
  PROVE  IInv'
<1>1. /\ cmd[r] \in Files /\ reader[r] = "lock" /\ reader[r] \in Archiving /\ Stopped
      /\ Needing(cmd[r]) = {} /\ Archived(r)
      /\ UNCHANGED <<now, data, locks, inbox, output>>
      /\ named' = [named EXCEPT ![cmd[r]] = 0]
  BY DEF IInv, TypeInv, ReaderInv, InHand, CountInv, Counts, RemoveLock, Archiving
<1>2. named' \in [Files -> Nat] /\ \A f \in Files : named'[f] = IF f = cmd[r] THEN 0 ELSE named[f]
  BY <1>1 DEF IInv, TypeInv
<1>3. TypeInv'
  BY <1>1, <1>2, ArchivedEnds DEF IInv, TypeInv, output
<1>4. ClockInv' /\ WriterInv'
  BY <1>1, <1>2, OutputStays
<1>5. NoEarlyRemoval'
  BY <1>1 DEF IInv, NoEarlyRemoval
<1>6. /\ ReaderInv' /\ Counts(r)'
      /\ \A f \in Files : Needing(f)' \subseteq Needing(f)
      /\ \A q \in Readers \ {r} : UNCHANGED <<reader[q], cmd[q], handle[q], delta[q]>>
  BY <1>1, ArchivedEnds
<1>7. CountInv'
  <2>1. \A f \in Files : f = cmd[r] => Needing(f)' = {}
    BY <1>1, <1>6
  <2>2. ASSUME NEW q \in Readers, q # r  PROVE Counts(q)'
    <3>1. \A f \in Files : Len(locks'[f]) = Len(locks[f])
      BY <1>1
    <3>2. \A f \in Files : named'[f] = named[f] \/ (named'[f] = 0 /\ Needing(f)' = {})
      <4>1. ASSUME NEW f \in Files, f = cmd[r]  PROVE named'[f] = 0 /\ Needing(f)' = {}
        BY <1>2, <2>1, <4>1
      <4>2. QED
        BY <1>2, <4>1
    <3>3. QED
      BY <1>6, <2>2, <3>1, <3>2, OthersKeepCounts
  <2>3. ASSUME NEW g \in Files  PROVE Covers(g)'
    <3>1. CASE named'[g] # 0
      <4>1. named'[g] = named[g] /\ Content(g)' = Content(g) /\ writer # "flush"
        BY <1>1, <1>2, <3>1 DEF Content, Stopped
      <4>2. /\ Cardinality(Needing(g)') \in Nat /\ Cardinality(Needing(g)) \in Nat
            /\ Cardinality(Needing(g)') <= Cardinality(Needing(g))
        <5>1. Needing(g) \subseteq Readers /\ Needing(g)' \subseteq Needing(g)
          BY <1>6 DEF Needing
        <5>2. QED
          BY <5>1, Fewer
      <4>3. Content(g) \in Int
        <5>1. named[g] \in 1 .. Len(locks[g]) /\ locks[g] \in Seq(Int)
          BY <3>1, <4>1 DEF IInv, TypeInv, WriterInv
        <5>2. QED
          BY <5>1, ElementOfSeq DEF Content
      <4>4. QED
        BY <3>1, <4>1, <4>2, <4>3 DEF IInv, CountInv, Covers
    <3>2. CASE named'[g] = 0
      BY <3>2 DEF Covers
    <3>3. QED
      BY <3>1, <3>2
  <2>4. QED
    BY <1>6, <2>2, <2>3 DEF CountInv
<1>8. QED
  BY <1>3, <1>4, <1>5, <1>6, <1>7 DEF IInv

------------------------------------------------------------------------------
LEMMA IInvInit ==
  ASSUME Init
  PROVE  IInv
<1>1. TypeInv
  BY Constants, SmallSeqs DEF Init, TypeInv, None
<1>2. ClockInv /\ ReaderInv /\ NoEarlyRemoval
  BY DEF Init, ClockInv, ReaderInv, InHand, Archiving, NoEarlyRemoval
<1>3. WriterInv
  BY DEF Init, WriterInv, Posting, Holders, None
<1>4. CountInv
  BY DEF Init, CountInv, Covers, Counts
<1>5. QED
  BY <1>1, <1>2, <1>3, <1>4 DEF IInv

LEMMA IInvNext ==
  ASSUME IInv, "flush" \notin CrashPoints, [Next]_vars
  PROVE  IInv'
<1>1. CASE WriterStep
  BY <1>1, OpenKeeps, WriteKeeps, NewFileKeeps, SuffixKeeps, OpenLockKeeps,
     FlushLockKeeps, FinishKeeps, PostKeeps DEF WriterStep
<1>2. CASE WriterDies
  BY <1>2, WriterDiesKeeps
<1>3. CASE Tick
  BY <1>3, TickKeeps
<1>4. ASSUME NEW r \in Readers, ReaderStep(r)  PROVE IInv'
  <2>1. CASE Archive(r)
    BY <2>1, RenameKeeps, ExistsKeeps, OpenCounterKeeps, CountKeeps,
       FlushCountKeeps, RemoveDataKeeps, RemoveLockKeeps DEF Archive
  <2>2. QED
    BY <1>4, <2>1, StartScanKeeps, EndScanKeeps, LoadKeeps DEF ReaderStep
<1>5. ASSUME NEW r \in Readers, CloseBatch(r) \/ ReaderDies(r)  PROVE IInv'
  BY <1>5, CloseBatchKeeps, ReaderDiesKeeps
<1>6. CASE UNCHANGED vars
  <2>1. UNCHANGED <<now, data, locks, named, inbox, output, scanner, counting>>
    BY <1>6 DEF vars, disk
  <2>2. TypeInv' /\ ClockInv' /\ ReaderInv' /\ NoEarlyRemoval'
    BY <2>1 DEF IInv, TypeInv, ClockInv, ReaderInv, InHand, NoEarlyRemoval, Stopped,
       output, scanner, counting
  <2>3. WriterInv' /\ CountInv'
    BY <2>1 DEF IInv, WriterInv, Posting, Holders, CountInv, Covers, Counts, Content,
       Needing, output, counting
  <2>4. QED
    BY <2>2, <2>3 DEF IInv
<1>7. QED
  BY <1>1, <1>2, <1>3, <1>4, <1>5, <1>6 DEF Next

\* The inductive invariant, in every run in which the writer does not die
\* between fopen("w+") of a counter and its fclose().
THEOREM IInvHolds ==
  ASSUME "flush" \notin CrashPoints
  PROVE  Spec => []IInv
<1>1. Init => IInv
  BY IInvInit
<1>2. IInv /\ [Next]_vars => IInv'
  BY IInvNext
<1>3. QED
  BY <1>1, <1>2, PTL DEF Spec

\* A command in a reader's directory never refers to a data file that another
\* reader has removed (CmdFileReader::archive()).
THEOREM NoEarlyRemovalHolds ==
  ASSUME "flush" \notin CrashPoints
  PROVE  Spec => []NoEarlyRemoval
<1>1. IInv => NoEarlyRemoval
  BY DEF IInv
<1>2. QED
  BY <1>1, IInvHolds, PTL

\* The counter of a file is never below the number of readers that need it,
\* in spite of the updates it loses (file_lock_counter::counting()).
THEOREM CounterCoversHolds ==
  ASSUME "flush" \notin CrashPoints
  PROVE  Spec => []CounterCovers
<1>1. IInv => CounterCovers
  BY DEF IInv, CountInv, Covers, Counts, CounterCovers
<1>2. QED
  BY <1>1, IInvHolds, PTL

------------------------------------------------------------------------------
(* FilesInv, wherever the writer may die.                                   *)

\* A file that has a number has been opened, and there is an event to come
\* for whoever opens one; posting and what is still to post are readers.
WriterOk ==
  /\ now \in 0 .. MaxTime /\ opened \in 0 .. now
  /\ writer \in {"closed", "idle", "new", "post", "lock", "flush", "done", "dead"}
  /\ goal \in {"new", "done"}
  /\ file \in 0 .. MaxFiles /\ written \in 0 .. MaxEvents /\ size \in 0 .. MaxSize
  /\ temp \in Seq(1 .. MaxEvents) /\ data \in [Files -> Seq(1 .. MaxEvents)]
  /\ ClockInv
  /\ writer = "closed" => file = 0 /\ written = 0
  /\ written > 0 \/ temp # None \/ toPost # {} \/ writer \in {"lock", "flush"} =>
       file # 0
  /\ writer = "new" \/ (writer \in {"post", "lock", "flush"} /\ goal = "new") =>
       written < MaxEvents

PostsOk ==
  toPost \subseteq Readers /\ posted \in Nat
  /\ posted + Cardinality(toPost) <= Cardinality(Readers)

\* Readers archive when the writer has stopped; what is still to be read in a
\* scan is not loaded.
ReaderOk(r) ==
  /\ inbox[r] \cup todo[r] \cup loaded[r] \subseteq 1 .. file
  /\ scanned[r] \cup ready[r] \subseteq loaded[r] /\ scanned[r] \cap ready[r] = {}
  /\ todo[r] \cap loaded[r] = {}
  /\ reader[r] \notin {"idle", "scan"} => Stopped
  /\ reader[r] \in Archiving => cmd[r] \in ready[r] \ inbox[r]

MemoryType ==
  /\ inbox \in [Readers -> SUBSET Nat] /\ todo \in [Readers -> SUBSET Nat]
  /\ loaded \in [Readers -> SUBSET Nat] /\ scanned \in [Readers -> SUBSET Nat]
  /\ ready \in [Readers -> SUBSET Nat] /\ cmd \in [Readers -> Nat]
  /\ reader \in [Readers -> {"idle", "scan", "batch"} \cup Archiving]

ReadersOk == MemoryType /\ \A r \in Readers : ReaderOk(r)

\* Counters: a handle is of an incarnation there is.
LocksOk ==
  /\ locks \in [Files -> Seq(Int)] /\ named \in [Files -> Nat]
  /\ \A f \in Files : named[f] <= Len(locks[f])
  /\ handle \in [Readers -> Nat] /\ delta \in [Readers -> Int]
  /\ \A r \in Readers :
       reader[r] \in {"count", "flush"} => handle[r] \in 1 .. Len(locks[cmd[r]])

FilesIInv == WriterOk /\ PostsOk /\ ReadersOk /\ LocksOk

LEMMA Bounds ==
  /\ MaxFiles \in Nat /\ MaxEvents \in Nat /\ MaxTime \in Nat /\ TimeOut \in Nat
  /\ WindowEnd \in Nat /\ MaxSize \in Nat /\ MaxSize > 0 /\ Files = 1 .. MaxFiles
  /\ CrashPoints \subseteq {"idle", "post", "lock", "flush", "new"}
  BY CommandFilesAssumption DEF CommandFilesAssumption, Files

LEMMA EventSeqs ==
  /\ None \in Seq(1 .. MaxEvents)
  /\ \A n \in Nat : n < MaxEvents =>
       /\ <<n + 1>> \in Seq(1 .. MaxEvents)
       /\ \A s \in Seq(1 .. MaxEvents) : Append(s, n + 1) \in Seq(1 .. MaxEvents)
<1>1. None \in Seq(1 .. MaxEvents)
  BY EmptySeq DEF None
<1>2. ASSUME NEW n \in Nat, n < MaxEvents, NEW s \in Seq(1 .. MaxEvents)
      PROVE  Append(s, n + 1) \in Seq(1 .. MaxEvents)
  <2>1. n + 1 \in 1 .. MaxEvents
    BY <1>2, Bounds
  <2>2. QED
    BY <2>1, AppendProperties
<1>3. ASSUME NEW n \in Nat, n < MaxEvents  PROVE <<n + 1>> \in Seq(1 .. MaxEvents)
  <2>1. <<n + 1>> = Append(<<>>, n + 1)
    OBVIOUS
  <2>2. QED
    BY <1>1, <1>2, <1>3, <2>1 DEF None
<1>4. QED
  BY <1>1, <1>2, <1>3

\* The output: its data files and its clock.
LEMMA WriterOkNext ==
  ASSUME FilesIInv, Next
  PROVE  WriterOk'
<1> USE DEF FilesIInv
<1>1. CASE Open
  BY <1>1, Bounds DEF Open, WriterOk, ClockInv, disk
<1>2. CASE Write
  <2>1. temp' \in Seq(1 .. MaxEvents) /\ written' \in 0 .. MaxEvents /\ size' \in 0 .. MaxSize
    BY <1>2, Bounds, EventSeqs DEF Write, WriterOk
  <2>2. QED
    BY <1>2, <2>1 DEF Write, WriterOk, ClockInv, disk
<1>3. CASE NewFile
  <2>1. /\ temp' \in Seq(1 .. MaxEvents) /\ written' \in 0 .. MaxEvents
        /\ size' \in 0 .. MaxSize /\ file' \in 0 .. MaxFiles
        /\ written' > 0 \/ temp' # None => file' # 0
    <3>1. written \in Nat /\ written < MaxEvents /\ file < MaxFiles
      BY <1>3 DEF NewFile, WriterOk
    <3>2. <<written + 1>> \in Seq(1 .. MaxEvents) /\ None \in Seq(1 .. MaxEvents)
      BY <3>1, EventSeqs
    <3>3. CASE /\ temp' = <<written + 1>> /\ size' = 1 /\ written' = written + 1
               /\ file' = file + 1
      BY <3>1, <3>2, <3>3, Bounds DEF WriterOk
    <3>4. CASE temp' = None /\ UNCHANGED <<file, size, written>>
      BY <3>2, <3>4 DEF WriterOk
    <3>5. QED
      BY <1>3, <3>3, <3>4 DEF NewFile
  <2>2. toPost' # {} => file' # 0
    BY <1>3, Bounds DEF NewFile, WriterOk
  <2>3. QED
    BY <1>3, <2>1, <2>2 DEF NewFile, WriterOk, ClockInv, disk
<1>4. CASE Suffix
  <2>1. data' \in [Files -> Seq(1 .. MaxEvents)] /\ temp' \in Seq(1 .. MaxEvents)
    BY <1>4, EventSeqs DEF Suffix, WriterOk
  <2>2. temp' # None \/ toPost' # {} => file # 0
    BY <1>4 DEF Suffix, WriterOk
  <2>3. writer' = "post" \/ writer' = goal
    BY <1>4 DEF Suffix
  <2>4. QED
    BY <1>4, <2>1, <2>2, <2>3 DEF Suffix, WriterOk, ClockInv
<1>5. CASE OpenLock
  BY <1>5 DEF OpenLock, WriterOk, ClockInv
<1>6. CASE FlushLock
  BY <1>6 DEF FlushLock, WriterOk, ClockInv
<1>7. ASSUME NEW next \in {"new", "done"}, Finish(next)  PROVE WriterOk'
  BY <1>7 DEF Finish, WriterOk, ClockInv, disk
<1>8. ASSUME NEW r \in Readers, Post(r)  PROVE WriterOk'
  <2>1. writer' \in {"post", "lock", goal} /\ file # 0
    BY <1>8 DEF Post, WriterOk
  <2>2. QED
    BY <1>8, <2>1 DEF Post, WriterOk, ClockInv
<1>9. CASE WriterDies
  BY <1>9, Bounds DEF WriterDies, WriterOk, ClockInv, disk
<1>10. CASE Tick
  BY <1>10, Bounds DEF Tick, WriterOk, ClockInv, disk, output
<1>11. ASSUME NEW r \in Readers, RemoveData(r)  PROVE WriterOk'
  <2>1. data' \in [Files -> Seq(1 .. MaxEvents)]
    BY <1>11, EventSeqs DEF RemoveData, WriterOk
  <2>2. QED
    BY <1>11, <2>1 DEF RemoveData, WriterOk, ClockInv, output
<1>12. CASE UNCHANGED <<now, data, output>>
  BY <1>12 DEF WriterOk, ClockInv, output
<1>13. ASSUME NEW r \in Readers, ReaderStep(r) \/ CloseBatch(r) \/ ReaderDies(r)
       PROVE  RemoveData(r) \/ UNCHANGED <<now, data, output>>
  BY <1>13 DEF ReaderStep, Archive, StartScan, EndScan, Load, Rename, Exists, OpenCounter,
     Count, FlushCount, RemoveLock, CloseBatch, ReaderDies, disk
<1>14. QED
  BY <1>1, <1>2, <1>3, <1>4, <1>5, <1>6, <1>7, <1>8, <1>9, <1>10, <1>11, <1>12, <1>13
     DEF Next, WriterStep

\* The commands still to be written and those written are the readers'.
LEMMA PostsOkNext ==
  ASSUME FilesIInv, Next
  PROVE  PostsOk'
<1>1. IsFiniteSet(Readers) /\ Cardinality(Readers) \in Nat /\ Cardinality({}) = 0
  BY CommandFilesAssumption, FS_CardinalityType, FS_EmptySet DEF CommandFilesAssumption
<1>2. CASE Suffix
  BY <1>1, <1>2 DEF FilesIInv, PostsOk, Suffix
<1>3. ASSUME NEW next \in {"new", "done"}, Finish(next)  PROVE PostsOk'
  BY <1>1, <1>3 DEF PostsOk, Finish
<1>4. ASSUME NEW r \in Readers, Post(r)  PROVE PostsOk'
  <2>1. IsFiniteSet(toPost)
    BY <1>1, FS_Subset DEF FilesIInv, PostsOk
  <2>2. toPost' = toPost \ {r} /\ r \in toPost /\ posted' \in {posted, posted + 1}
    BY <1>4 DEF Post
  <2>3. Cardinality(toPost \ {r}) = Cardinality(toPost) - 1 /\ Cardinality(toPost) \in Nat
    BY <2>1, <2>2, FS_RemoveElement, FS_CardinalityType
  <2>4. Cardinality(toPost') = Cardinality(toPost) - 1
    BY <2>2, <2>3, Zenon
  <2>5. posted' \in Nat /\ posted' + Cardinality(toPost') <= Cardinality(Readers)
    BY <1>1, <2>2, <2>3, <2>4 DEF FilesIInv, PostsOk
  <2>6. QED
    BY <2>2, <2>5 DEF FilesIInv, PostsOk
<1>5. CASE UNCHANGED <<toPost, posted>>
  BY <1>5 DEF FilesIInv, PostsOk
<1>6. ASSUME NEW r \in Readers, ReaderStep(r) \/ CloseBatch(r) \/ ReaderDies(r)
      PROVE  UNCHANGED <<toPost, posted>>
  BY <1>6 DEF ReaderStep, Archive, StartScan, EndScan, Load, Rename, Exists, OpenCounter,
     Count, FlushCount, RemoveData, RemoveLock, CloseBatch, ReaderDies, output
<1>7. Open \/ Write \/ NewFile \/ OpenLock \/ FlushLock \/ WriterDies \/ Tick =>
        UNCHANGED <<toPost, posted>>
  BY DEF Open, Write, NewFile, OpenLock, FlushLock, WriterDies, Tick, output
<1>8. QED
  BY <1>2, <1>3, <1>4, <1>5, <1>6, <1>7 DEF Next, WriterStep

\* What a step keeps of a reader when nothing is taken from the disk or put
\* there for it, and the writer, once stopped, stays so.
LEMMA ReaderKept ==
  ASSUME NEW r \in Readers, ReaderOk(r), file \in Nat, file' \in Nat, file <= file',
         UNCHANGED <<inbox[r], todo[r], loaded[r], scanned[r], ready[r], reader[r], cmd[r]>>,
         Stopped => Stopped'
  PROVE  ReaderOk(r)'
  BY DEF ReaderOk

LEMMA ReadersKept ==
  ASSUME FilesIInv, file' \in Nat, file <= file',
         UNCHANGED <<inbox, scanner, reader, cmd>>, Stopped => Stopped'
  PROVE  ReadersOk'
<1>1. MemoryType'
  BY DEF FilesIInv, ReadersOk, MemoryType, scanner
<1>2. ASSUME NEW r \in Readers  PROVE ReaderOk(r)'
  <2>1. UNCHANGED <<inbox[r], todo[r], loaded[r], scanned[r], ready[r], reader[r], cmd[r]>>
    BY DEF scanner
  <2>2. ReaderOk(r) /\ file \in Nat
    BY DEF FilesIInv, ReadersOk, WriterOk
  <2>3. QED
    BY <2>1, <2>2, ReaderKept
<1>3. QED
  BY <1>1, <1>2 DEF ReadersOk

\* A step of one reader leaves the others alone.
LEMMA OneReads ==
  ASSUME FilesIInv, NEW r \in Readers, MemoryType', UNCHANGED output, ReaderOk(r)',
         \A q \in Readers \ {r} :
           UNCHANGED <<inbox[q], todo[q], loaded[q], scanned[q], ready[q], reader[q], cmd[q]>>
  PROVE  ReadersOk'
<1>1. file \in Nat /\ file' = file /\ (Stopped => Stopped')
  BY DEF FilesIInv, WriterOk, output, Stopped
<1>2. ASSUME NEW q \in Readers, q # r  PROVE ReaderOk(q)'
  <2>1. UNCHANGED <<inbox[q], todo[q], loaded[q], scanned[q], ready[q], reader[q], cmd[q]>>
    BY <1>2
  <2>2. ReaderOk(q)
    BY DEF FilesIInv, ReadersOk
  <2>3. QED
    BY <1>1, <2>1, <2>2, ReaderKept
<1>3. QED
  BY <1>2 DEF ReadersOk

LEMMA WriterReadersOk ==
  ASSUME FilesIInv, WriterStep \/ WriterDies \/ Tick
  PROVE  ReadersOk'
<1>1. file \in Nat
  BY DEF FilesIInv, WriterOk
<1>2. CASE Open \/ Write \/ NewFile \/ Suffix \/ OpenLock \/ FlushLock
           \/ (\E next \in {"new", "done"} : Finish(next)) \/ WriterDies \/ Tick
  <2>1. /\ UNCHANGED <<inbox, scanner, reader, cmd>> /\ (Stopped => Stopped')
        /\ file' \in {file, file + 1}
    BY <1>2, Bounds DEF Open, Write, NewFile, Suffix, OpenLock, FlushLock, Finish, WriterDies,
       Tick, disk, output, counting, Stopped
  <2>2. QED
    BY <1>1, <2>1, ReadersKept
<1>3. ASSUME NEW r \in Readers, Post(r)  PROVE ReadersOk'
  <2>1. /\ ~Stopped /\ file # 0 /\ UNCHANGED <<file, scanner, reader, cmd>>
        /\ inbox' = inbox \/ inbox' = [inbox EXCEPT ![r] = @ \cup {file}]
    BY <1>3 DEF Post, Stopped, FilesIInv, WriterOk, counting
  <2>2. inbox' \in [Readers -> SUBSET Nat]
    BY <1>1, <2>1 DEF FilesIInv, ReadersOk, MemoryType
  <2>3. MemoryType'
    BY <2>1, <2>2 DEF FilesIInv, ReadersOk, MemoryType, scanner
  <2>4. ASSUME NEW q \in Readers  PROVE ReaderOk(q)'
    <3>1. ReaderOk(q) /\ inbox'[q] \subseteq inbox[q] \cup {file}
      BY <2>1 DEF FilesIInv, ReadersOk, MemoryType
    <3>2. reader[q] \notin Archiving
      BY <2>1, <3>1 DEF ReaderOk, Archiving
    <3>3. QED
      BY <1>1, <2>1, <3>1, <3>2 DEF ReaderOk, scanner
  <2>5. QED
    BY <2>3, <2>4 DEF ReadersOk
<1>4. QED
  BY <1>2, <1>3 DEF WriterStep

LEMMA ScanReadersOk ==
  ASSUME FilesIInv, NEW r \in Readers,
         StartScan(r) \/ EndScan(r) \/ (\E f \in Files : Load(r, f))
  PROVE  ReadersOk'
<1>1. ReaderOk(r) /\ MemoryType
  BY DEF FilesIInv, ReadersOk
<1>2. CASE StartScan(r)
  <2>1. MemoryType'
    BY <1>1, <1>2 DEF StartScan, MemoryType, disk, Goes
  <2>2. ReaderOk(r)'
    BY <1>1, <1>2 DEF StartScan, MemoryType, ReaderOk, disk, output, Goes, Stopped, Archiving
  <2>3. QED
    BY <1>1, <1>2, <2>1, <2>2, OneReads DEF StartScan, MemoryType, disk, Goes
<1>3. CASE EndScan(r)
  <2>1. MemoryType'
    BY <1>1, <1>3 DEF EndScan, MemoryType, disk, Goes
  <2>2. UNCHANGED <<inbox, todo, loaded, cmd, output>> /\ todo[r] = {}
    BY <1>3 DEF EndScan, disk
  <2>3. ASSUME IsReady, scanned[r] # {}  PROVE ReaderOk(r)'
    <3>1. Stopped
      <4>1. writer # "closed"
        <5>1. file # 0
          BY <1>1, <2>3 DEF ReaderOk
        <5>2. QED
          BY <5>1 DEF FilesIInv, WriterOk
      <4>2. writer \in {"closed", "done", "dead"}
        BY <2>3, Bounds DEF IsReady, FilesIInv, WriterOk, ClockInv
      <4>3. QED
        BY <4>1, <4>2 DEF Stopped
    <3>2. ready'[r] = scanned[r] /\ scanned'[r] = {} /\ reader'[r] = "batch" /\ Stopped'
      BY <1>1, <1>3, <2>3, <3>1 DEF EndScan, MemoryType, Goes, output, Stopped
    <3>3. file' = file /\ inbox' = inbox /\ todo' = todo /\ loaded' = loaded /\ cmd' = cmd
      BY <2>2 DEF output
    <3>4. /\ inbox'[r] \cup todo'[r] \cup loaded'[r] \subseteq 1 .. file'
          /\ todo'[r] \cap loaded'[r] = {}
      BY <1>1, <3>3 DEF ReaderOk
    <3>5. scanned'[r] \cup ready'[r] \subseteq loaded'[r] /\ scanned'[r] \cap ready'[r] = {}
      BY <1>1, <3>2, <3>3 DEF ReaderOk
    <3>6. reader'[r] \notin Archiving
      BY <3>2 DEF Archiving
    <3>7. QED
      BY <3>2, <3>4, <3>5, <3>6 DEF ReaderOk, Stopped
  <2>4. ASSUME ~(IsReady /\ scanned[r] # {})  PROVE ReaderOk(r)'
    <3>1. UNCHANGED <<ready, scanned>> /\ reader'[r] = "idle"
      BY <1>1, <1>3, <2>4 DEF EndScan, MemoryType, Goes
    <3>2. QED
      BY <1>1, <2>2, <3>1 DEF ReaderOk, Archiving, output
  <2>5. \A q \in Readers \ {r} :
          UNCHANGED <<inbox[q], todo[q], loaded[q], scanned[q], ready[q], reader[q], cmd[q]>>
    BY <1>1, <1>3, <2>2 DEF EndScan, MemoryType, Goes
  <2>6. QED
    BY <1>1, <2>1, <2>2, <2>3, <2>4, <2>5, OneReads
<1>4. ASSUME NEW f \in Files, Load(r, f)  PROVE ReadersOk'
  <2>1. MemoryType'
    <3>1. f \in Nat /\ UNCHANGED <<inbox, ready, cmd, reader>>
      BY <1>4, Bounds DEF Load, disk, counting
    <3>2. todo' \in [Readers -> SUBSET Nat]
      BY <1>1, <1>4 DEF Load, MemoryType
    <3>3. loaded' \in [Readers -> SUBSET Nat] /\ scanned' \in [Readers -> SUBSET Nat]
      BY <1>1, <1>4, <3>1 DEF Load, MemoryType
    <3>4. QED
      BY <1>1, <3>1, <3>2, <3>3 DEF MemoryType
  <2>2. UNCHANGED <<inbox, ready, reader, cmd, output>> /\ f \in todo[r] /\ reader[r] = "scan"
    BY <1>4 DEF Load, disk, counting
  <2>3. todo'[r] = todo[r] \ {f}
    BY <1>1, <1>4 DEF Load, MemoryType
  <2>4. \/ loaded'[r] = loaded[r] \cup {f} /\ scanned'[r] = scanned[r] \cup {f}
        \/ loaded'[r] = loaded[r] /\ scanned'[r] = scanned[r]
    BY <1>1, <1>4 DEF Load, MemoryType
  <2>5. ReaderOk(r)'
    BY <1>1, <2>2, <2>3, <2>4 DEF ReaderOk, Archiving, output
  <2>6. \A q \in Readers \ {r} :
          UNCHANGED <<inbox[q], todo[q], loaded[q], scanned[q], ready[q], reader[q], cmd[q]>>
    BY <1>1, <1>4 DEF Load, MemoryType, disk, counting
  <2>7. QED
    BY <2>1, <2>2, <2>5, <2>6, OneReads
<1>5. QED
  BY <1>2, <1>3, <1>4

LEMMA ArchiveReadersOk ==
  ASSUME FilesIInv, NEW r \in Readers, Archive(r) \/ CloseBatch(r) \/ ReaderDies(r)
  PROVE  ReadersOk'
<1>1. ReaderOk(r) /\ MemoryType
  BY DEF FilesIInv, ReadersOk
<1>2. UNCHANGED output
  BY DEF Archive, Rename, Exists, OpenCounter, Count, FlushCount, RemoveData, RemoveLock,
     CloseBatch, ReaderDies
<1>3. \A q \in Readers \ {r} :
        UNCHANGED <<inbox[q], todo[q], loaded[q], scanned[q], ready[q], reader[q], cmd[q]>>
  BY <1>1 DEF MemoryType, Archive, Rename, Exists, OpenCounter, Count, FlushCount, RemoveData,
     RemoveLock, CloseBatch, ReaderDies, Archived, Goes, disk, scanner
<1>4. ASSUME NEW f \in Files, Rename(r, f)  PROVE MemoryType' /\ ReaderOk(r)'
  <2>1. MemoryType'
    BY <1>1, <1>4, Bounds DEF Rename, MemoryType, scanner, Goes, Archiving
  <2>2. QED
    BY <1>1, <1>4, <2>1 DEF Rename, MemoryType, ReaderOk, scanner, Goes, Archiving, Stopped, output
<1>5. ASSUME Archived(r), UNCHANGED inbox, reader[r] \in Archiving
      PROVE  MemoryType' /\ ReaderOk(r)'
  <2>1. MemoryType'
    BY <1>1, <1>5 DEF Archived, MemoryType, Goes
  <2>2. /\ loaded'[r] = loaded[r] \ {cmd[r]} /\ ready'[r] = ready[r] \ {cmd[r]}
        /\ UNCHANGED <<scanned, todo>> /\ reader'[r] \in {"idle", "batch"}
    BY <1>1, <1>5 DEF Archived, MemoryType, Goes
  <2>3. ReaderOk(r)'
    BY <1>1, <1>2, <1>5, <2>2 DEF ReaderOk, Archiving, Stopped, output
  <2>4. QED
    BY <2>1, <2>3
<1>6. ASSUME UNCHANGED <<inbox, scanner, cmd>>, reader[r] \in Archiving,
             NEW stand \in Archiving, Goes(r, stand)
      PROVE  MemoryType' /\ ReaderOk(r)'
  <2>1. MemoryType' /\ reader'[r] \in Archiving
    BY <1>1, <1>6 DEF MemoryType, Goes, scanner
  <2>2. QED
    BY <1>1, <1>2, <1>6, <2>1 DEF ReaderOk, Archiving, Stopped, output, scanner
<1>7. ASSUME Exists(r) \/ OpenCounter(r) \/ Count(r) \/ FlushCount(r) \/ RemoveData(r)
             \/ RemoveLock(r)
      PROVE  MemoryType' /\ ReaderOk(r)'
  BY <1>5, <1>6, <1>7 DEF Exists, OpenCounter, Count, FlushCount, RemoveData, RemoveLock,
     Archiving, disk
<1>8. ASSUME CloseBatch(r)  PROVE MemoryType' /\ ReaderOk(r)'
  <2>1. MemoryType'
    BY <1>1, <1>8 DEF CloseBatch, MemoryType, Goes, disk
  <2>2. QED
    BY <1>1, <1>8, <2>1 DEF CloseBatch, MemoryType, ReaderOk, Goes, disk, Archiving, output
<1>9. ASSUME ReaderDies(r)  PROVE MemoryType' /\ ReaderOk(r)'
  <2>1. MemoryType'
    BY <1>1, <1>9 DEF ReaderDies, MemoryType, Goes, disk
  <2>2. QED
    BY <1>1, <1>9, <2>1 DEF ReaderDies, MemoryType, ReaderOk, Goes, disk, Archiving, output
<1>10. MemoryType' /\ ReaderOk(r)'
  BY <1>4, <1>7, <1>8, <1>9 DEF Archive
<1>11. QED
  BY <1>2, <1>3, <1>10, OneReads

\* Whatever is written to a counter, it stays a sequence of numbers, of the
\* same length.
LEMMA OverwrittenLocks ==
  ASSUME locks \in [Files -> Seq(Int)], NEW f, NEW i, NEW v \in Int,
         locks' = [locks EXCEPT ![f][i] = v]
  PROVE  locks' \in [Files -> Seq(Int)] /\ \A g \in Files : Len(locks'[g]) = Len(locks[g])
<1>1. CASE f \in Files
  <2> DEFINE s == [locks[f] EXCEPT ![i] = v]
  <2>1. locks[f] \in Seq(Int)
    BY <1>1
  <2>2. s \in Seq(Int) /\ Len(s) = Len(locks[f])
    <3>1. CASE i \in 1 .. Len(locks[f])
      BY <2>1, <3>1, ExceptSeq
    <3>2. CASE i \notin 1 .. Len(locks[f])
      <4>1. s = locks[f]
        BY <2>1, <3>2
      <4>2. QED
        BY <2>1, <4>1
    <3>3. QED
      BY <3>1, <3>2
  <2>3. locks' = [locks EXCEPT ![f] = s]
    OBVIOUS
  <2> HIDE DEF s
  <2>4. QED
    BY <1>1, <2>2, <2>3
<1>2. CASE f \notin Files
  BY <1>2
<1>3. QED
  BY <1>1, <1>2

LEMMA CmdIsFile ==
  ASSUME FilesIInv, NEW r \in Readers, reader[r] \in Archiving
  PROVE  cmd[r] \in Files
<1>1. cmd[r] \in ready[r] /\ ready[r] \subseteq loaded[r] /\ loaded[r] \subseteq 1 .. file
  BY DEF FilesIInv, ReadersOk, ReaderOk
<1>2. file \in 0 .. MaxFiles
  BY DEF FilesIInv, WriterOk
<1>3. QED
  BY <1>1, <1>2, Bounds

\* What a step that does not shorten a counter keeps.
LEMMA LocksKept ==
  ASSUME FilesIInv, UNCHANGED <<reader, cmd, handle, delta>>,
         locks' \in [Files -> Seq(Int)], named' \in [Files -> Nat],
         \A f \in Files : named'[f] <= Len(locks'[f]) /\ Len(locks[f]) <= Len(locks'[f])
  PROVE  LocksOk'
<1>1. \A r \in Readers : reader[r] \in {"count", "flush"} => cmd[r] \in Files
  BY CmdIsFile DEF Archiving
<1>2. ASSUME NEW r \in Readers, reader[r] \in {"count", "flush"}
      PROVE  handle[r] \in 1 .. Len(locks'[cmd[r]])
  <2>1. cmd[r] \in Files /\ handle[r] \in 1 .. Len(locks[cmd[r]])
    BY <1>1, <1>2 DEF FilesIInv, LocksOk
  <2>2. Len(locks[cmd[r]]) \in Nat /\ Len(locks'[cmd[r]]) \in Nat
    BY <2>1, LenProperties DEF FilesIInv, LocksOk
  <2>3. QED
    BY <2>1, <2>2
<1>3. QED
  BY <1>2 DEF FilesIInv, LocksOk

\* A counter that is made has one incarnation more, and that has the name.
LEMMA MadeOk ==
  ASSUME LocksOk, NEW f \in Files, Incarnate(f)
  PROVE  /\ locks' \in [Files -> Seq(Int)] /\ named' \in [Files -> Nat]
         /\ \A g \in Files : named'[g] <= Len(locks'[g]) /\ Len(locks[g]) <= Len(locks'[g])
         /\ named'[f] # 0
<1>1. \A g \in Files : Len(locks[g]) \in Nat
  BY LenProperties DEF LocksOk
<1>2. CASE named[f] # 0
  BY <1>1, <1>2 DEF Incarnate, LocksOk
<1>3. CASE named[f] = 0
  <2>1. Append(locks[f], Blank) \in Seq(Int) /\ Len(Append(locks[f], Blank)) = Len(locks[f]) + 1
    BY DEF LocksOk, Blank
  <2>2. locks' = [locks EXCEPT ![f] = Append(locks[f], Blank)]
        /\ named' = [named EXCEPT ![f] = Len(locks[f]) + 1]
    BY <1>3 DEF Incarnate
  <2>3. locks' \in [Files -> Seq(Int)] /\ named' \in [Files -> Nat]
    BY <1>1, <2>1, <2>2 DEF LocksOk
  <2>4. \A g \in Files : named'[g] <= Len(locks'[g]) /\ Len(locks[g]) <= Len(locks'[g])
    BY <1>1, <2>1, <2>2 DEF LocksOk
  <2>5. named'[f] # 0
    BY <1>1, <2>2 DEF LocksOk
  <2>6. QED
    BY <2>3, <2>4, <2>5
<1>4. QED
  BY <1>2, <1>3

LEMMA WriterLocksOk ==
  ASSUME FilesIInv, WriterStep \/ WriterDies \/ Tick
  PROVE  LocksOk'
<1>1. CASE OpenLock
  <2>1. file \in Files
    BY <1>1, Bounds DEF OpenLock, FilesIInv, WriterOk
  <2>2. QED
    BY <1>1, <2>1, MadeOk, LocksKept DEF OpenLock, FilesIInv, counting
<1>2. CASE FlushLock
  <2>1. posted \in Int /\ locks \in [Files -> Seq(Int)] /\ named \in [Files -> Nat]
        /\ \A g \in Files : named[g] <= Len(locks[g])
    BY DEF FilesIInv, PostsOk, LocksOk
  <2>2. locks' = [locks EXCEPT ![file][Len(locks[file])] = posted]
        /\ UNCHANGED <<named, reader, cmd, handle, delta>>
    BY <1>2 DEF FlushLock, counting
  <2>3. locks' \in [Files -> Seq(Int)] /\ \A g \in Files : Len(locks'[g]) = Len(locks[g])
    BY <2>1, <2>2, OverwrittenLocks
  <2>4. \A g \in Files : Len(locks[g]) <= Len(locks'[g])
    BY <2>1, <2>3, LenProperties
  <2>5. QED
    BY <2>1, <2>2, <2>3, <2>4, LocksKept
<1>3. CASE UNCHANGED <<locks, named, counting>>
  BY <1>3 DEF FilesIInv, LocksOk, counting
<1>4. \/ OpenLock \/ FlushLock \/ UNCHANGED <<locks, named, counting>>
  BY DEF WriterStep, Open, Write, NewFile, Suffix, Finish, Post, WriterDies, Tick, disk
<1>5. QED
  BY <1>1, <1>2, <1>3, <1>4

\* A step of reader r that leaves the counters alone, or removes a name.
LEMMA ReaderLocksKept ==
  ASSUME FilesIInv, NEW r \in Readers, UNCHANGED locks,
         named' \in [Files -> Nat], \A f \in Files : named'[f] <= named[f],
         reader' \in [Readers -> {"idle", "scan", "batch"} \cup Archiving],
         handle' \in [Readers -> Nat], delta' \in [Readers -> Int],
         reader'[r] \in {"count", "flush"} => handle'[r] \in 1 .. Len(locks[cmd'[r]]),
         \A q \in Readers \ {r} : UNCHANGED <<reader[q], cmd[q], handle[q]>>
  PROVE  LocksOk'
<1>1. \A f \in Files : named'[f] <= Len(locks[f])
  BY LenProperties DEF FilesIInv, LocksOk
<1>2. ASSUME NEW q \in Readers, reader'[q] \in {"count", "flush"}, q # r
      PROVE  handle'[q] \in 1 .. Len(locks[cmd'[q]])
  <2>1. UNCHANGED <<reader[q], cmd[q], handle[q]>>
    BY <1>2
  <2>2. handle[q] \in 1 .. Len(locks[cmd[q]])
    BY <1>2, <2>1 DEF FilesIInv, LocksOk
  <2>3. QED
    BY <2>1, <2>2
<1>3. \A q \in Readers : reader'[q] \in {"count", "flush"} => handle'[q] \in 1 .. Len(locks[cmd'[q]])
  BY <1>2
<1>4. QED
  BY <1>1, <1>3 DEF FilesIInv, LocksOk

LEMMA ReaderLocksOk ==
  ASSUME FilesIInv, NEW r \in Readers, ReaderStep(r) \/ CloseBatch(r) \/ ReaderDies(r)
  PROVE  LocksOk'
<1>1. /\ ReaderOk(r) /\ MemoryType /\ LocksOk
      /\ reader[r] \in Archiving => cmd[r] \in Files
  BY Bounds DEF FilesIInv, ReadersOk, ReaderOk, WriterOk
<1>2. CASE OpenCounter(r)
  <2>1. /\ cmd[r] \in Files /\ reader' = [reader EXCEPT ![r] = "count"]
        /\ handle' = [handle EXCEPT ![r] = named'[cmd[r]]] /\ UNCHANGED <<cmd, delta>>
    BY <1>1, <1>2 DEF OpenCounter, Goes, Archiving
  <2>2. /\ locks' \in [Files -> Seq(Int)] /\ named' \in [Files -> Nat]
        /\ \A g \in Files : named'[g] <= Len(locks'[g]) /\ Len(locks[g]) <= Len(locks'[g])
        /\ named'[cmd[r]] # 0
    BY <1>1, <1>2, <2>1, MadeOk DEF OpenCounter
  <2>3. handle' \in [Readers -> Nat] /\ handle'[r] \in 1 .. Len(locks'[cmd[r]])
    <3>1. Len(locks'[cmd[r]]) \in Nat
      BY <2>1, <2>2, LenProperties
    <3>2. QED
      BY <1>1, <2>1, <2>2, <3>1 DEF LocksOk
  <2>4. ASSUME NEW q \in Readers, reader'[q] \in {"count", "flush"}
        PROVE  handle'[q] \in 1 .. Len(locks'[cmd'[q]])
    <3>1. CASE q = r
      BY <2>1, <2>3, <3>1
    <3>2. CASE q # r
      <4>1. reader[q] \in {"count", "flush"} /\ handle'[q] = handle[q]
        BY <1>1, <2>1, <2>4, <3>2 DEF MemoryType, LocksOk
      <4>2. cmd[q] \in Files /\ handle[q] \in 1 .. Len(locks[cmd[q]])
        BY <4>1, CmdIsFile DEF FilesIInv, LocksOk, Archiving
      <4>3. Len(locks[cmd[q]]) \in Nat /\ Len(locks'[cmd[q]]) \in Nat
        BY <1>1, <2>2, <4>2, LenProperties DEF LocksOk
      <4>4. QED
        BY <2>1, <2>2, <4>1, <4>2, <4>3
    <3>3. QED
      BY <3>1, <3>2
  <2>5. QED
    BY <1>1, <2>1, <2>2, <2>3, <2>4 DEF LocksOk
<1>3. CASE FlushCount(r)
  <2>1. delta[r] \in Int /\ locks' = [locks EXCEPT ![cmd[r]][handle[r]] = delta[r]]
        /\ named' = named
    BY <1>1, <1>3 DEF FlushCount, LocksOk
  <2>2. locks' \in [Files -> Seq(Int)] /\ \A g \in Files : Len(locks'[g]) = Len(locks[g])
    BY <1>1, <2>1, OverwrittenLocks DEF LocksOk
  <2>3. /\ handle' \in [Readers -> Nat] /\ delta' \in [Readers -> Int]
        /\ reader'[r] \notin {"count", "flush"}
        /\ \A q \in Readers \ {r} : UNCHANGED <<reader[q], cmd[q], handle[q]>>
    BY <1>1, <1>3 DEF FlushCount, Archived, Goes, MemoryType, LocksOk
  <2>4. \A q \in Readers : reader'[q] \in {"count", "flush"} =>
          q # r /\ cmd[q] \in Files /\ handle[q] \in 1 .. Len(locks[cmd[q]])
    <3>1. ASSUME NEW q \in Readers, reader'[q] \in {"count", "flush"}
          PROVE  q # r /\ reader[q] \in {"count", "flush"}
      BY <2>3, <3>1
    <3>2. \A q \in Readers : reader[q] \in {"count", "flush"} => cmd[q] \in Files
      BY CmdIsFile DEF Archiving
    <3>3. QED
      BY <1>1, <3>1, <3>2 DEF LocksOk
  <2>5. QED
    BY <1>1, <2>1, <2>2, <2>3, <2>4 DEF LocksOk
<1>4. CASE Count(r)
  <2>1. cmd[r] \in Files /\ handle[r] \in 1 .. Len(locks[cmd[r]])
    BY <1>1, <1>4 DEF Count, LocksOk, Archiving
  <2>2. locks[cmd[r]][handle[r]] \in Int
    BY <1>1, <2>1, ElementOfSeq DEF LocksOk
  <2>3. delta' \in [Readers -> Int]
    BY <1>1, <1>4, <2>2 DEF Count, LocksOk
  <2>4. /\ UNCHANGED <<locks, named, cmd, handle>>
        /\ reader' \in [Readers -> {"idle", "scan", "batch"} \cup Archiving]
        /\ \A q \in Readers \ {r} : reader'[q] = reader[q]
    BY <1>1, <1>4 DEF Count, disk, Goes, MemoryType, Archiving
  <2>5. QED
    BY <1>1, <2>1, <2>3, <2>4 DEF LocksOk
<1>5. CASE RemoveLock(r)
  <2>1. named' \in [Files -> Nat] /\ \A f \in Files : named'[f] <= named[f]
    <3>1. named' = [named EXCEPT ![cmd[r]] = 0] /\ named \in [Files -> Nat]
      BY <1>1, <1>5 DEF RemoveLock, LocksOk
    <3>2. named' \in [Files -> Nat]
      BY <3>1
    <3>3. ASSUME NEW f \in Files  PROVE named'[f] <= named[f]
      <4>1. named[f] \in Nat /\ (named'[f] = 0 \/ named'[f] = named[f])
        BY <3>1
      <4>2. QED
        BY <4>1
    <3>4. QED
      BY <3>2, <3>3
  <2>2. /\ locks' = locks /\ handle' \in [Readers -> Nat] /\ delta' \in [Readers -> Int]
        /\ reader' \in [Readers -> {"idle", "scan", "batch"} \cup Archiving]
        /\ reader'[r] \notin {"count", "flush"}
        /\ \A q \in Readers \ {r} : UNCHANGED <<reader[q], cmd[q], handle[q]>>
    BY <1>1, <1>5 DEF RemoveLock, Archived, Goes, MemoryType, LocksOk
  <2>3. QED
    BY <2>1, <2>2, ReaderLocksKept
<1>6. ASSUME StartScan(r) \/ EndScan(r) \/ (\E f \in Files : Load(r, f) \/ Rename(r, f))
             \/ Exists(r) \/ RemoveData(r) \/ CloseBatch(r) \/ ReaderDies(r)
      PROVE  LocksOk'
  <2>1. UNCHANGED <<locks, named>>
    BY <1>6 DEF StartScan, EndScan, Load, Rename, Exists, RemoveData, CloseBatch, ReaderDies, disk
  <2>2. handle' \in [Readers -> Nat] /\ delta' \in [Readers -> Int]
    <3>1. /\ handle' = handle \/ handle' = [handle EXCEPT ![r] = 0]
          /\ delta' = delta \/ delta' = [delta EXCEPT ![r] = 0]
      BY <1>6 DEF StartScan, EndScan, Load, Rename, Exists, RemoveData, CloseBatch,
         ReaderDies, Archived, counting
    <3>2. QED
      BY <1>1, <3>1 DEF LocksOk
  <2>3. /\ reader' \in [Readers -> {"idle", "scan", "batch"} \cup Archiving]
        /\ reader'[r] \notin {"count", "flush"}
    BY <1>1, <1>6 DEF StartScan, EndScan, Load, Rename, Exists, RemoveData, CloseBatch,
       ReaderDies, Archived, MemoryType, counting, Goes, Archiving
  <2>4. \A q \in Readers \ {r} : UNCHANGED <<reader[q], cmd[q], handle[q]>>
    BY <1>1, <1>6 DEF StartScan, EndScan, Load, Rename, Exists, RemoveData, CloseBatch,
       ReaderDies, Archived, MemoryType, LocksOk, counting, Goes
  <2>5. \A f \in Files : named'[f] <= named[f]
    BY <1>1, <2>1 DEF LocksOk
  <2>6. QED
    BY <1>1, <2>1, <2>2, <2>3, <2>4, <2>5, ReaderLocksKept DEF LocksOk
<1>7. QED
  BY <1>2, <1>3, <1>4, <1>5, <1>6 DEF ReaderStep, Archive

LEMMA FilesIInvInit ==
  ASSUME Init
  PROVE  FilesIInv
<1>1. WriterOk
  BY Bounds, EventSeqs DEF Init, WriterOk, ClockInv
<1>2. PostsOk
  <2>1. Cardinality(Readers) \in Nat /\ Cardinality({}) = 0
    BY CommandFilesAssumption, FS_CardinalityType, FS_EmptySet DEF CommandFilesAssumption
  <2>2. QED
    BY <2>1 DEF Init, PostsOk
<1>3. ReadersOk
  BY DEF Init, ReadersOk, MemoryType, ReaderOk, Archiving
<1>4. LocksOk
  <2>1. <<>> \in Seq(Int) /\ Len(<<>>) = 0
    BY EmptySeq
  <2>2. QED
    BY <2>1 DEF Init, LocksOk
<1>5. QED
  BY <1>1, <1>2, <1>3, <1>4 DEF FilesIInv

LEMMA FilesIInvNext ==
  ASSUME FilesIInv, [Next]_vars
  PROVE  FilesIInv'
<1>1. CASE Next
  <2>1. WriterOk' /\ PostsOk'
    BY <1>1, WriterOkNext, PostsOkNext
  <2>2. CASE WriterStep \/ WriterDies \/ Tick
    BY <2>1, <2>2, WriterReadersOk, WriterLocksOk DEF FilesIInv
  <2>3. ASSUME NEW r \in Readers, ReaderStep(r) \/ CloseBatch(r) \/ ReaderDies(r)
        PROVE  ReadersOk' /\ LocksOk'
    BY <2>3, ScanReadersOk, ArchiveReadersOk, ReaderLocksOk DEF ReaderStep
  <2>4. QED
    BY <1>1, <2>1, <2>2, <2>3 DEF Next, FilesIInv
<1>2. CASE UNCHANGED vars
  <2>1. UNCHANGED <<now, data, locks, named, inbox, output, scanner, counting>>
    BY <1>2 DEF vars, disk
  <2>2. WriterOk' /\ PostsOk'
    BY <2>1 DEF FilesIInv, WriterOk, ClockInv, PostsOk, output
  <2>3. ReadersOk'
    BY <2>1 DEF FilesIInv, ReadersOk, MemoryType, ReaderOk, Stopped, output, scanner, counting
  <2>4. LocksOk'
    BY <2>1 DEF FilesIInv, LocksOk, counting
  <2>5. QED
    BY <2>2, <2>3, <2>4 DEF FilesIInv
<1>3. QED
  BY <1>1, <1>2

\* Types, and where a command is: in one place of its reader's memory, and in
\* its directory or in its hands (scanedCmdMap_, loadedCmds_, archive()).  This
\* holds wherever the writer dies.
THEOREM FilesInvHolds == Spec => []FilesInv
<1>1. Init => FilesIInv
  BY FilesIInvInit
<1>2. FilesIInv /\ [Next]_vars => FilesIInv'
  BY FilesIInvNext
<1>3. FilesIInv => FilesInv
  <2> SUFFICES ASSUME FilesIInv  PROVE FilesInv
    OBVIOUS
  <2>1. posted \in 0 .. Cardinality(Readers)
    <3>1. IsFiniteSet(Readers)
      BY CommandFilesAssumption DEF CommandFilesAssumption
    <3>2. Cardinality(Readers) \in Nat /\ Cardinality(toPost) \in Nat
      BY <3>1, FS_Subset, FS_CardinalityType DEF FilesIInv, PostsOk
    <3>3. QED
      BY <3>2 DEF FilesIInv, PostsOk
  <2>2. \A f \in Files : named[f] \in 0 .. Len(locks[f])
    BY LenProperties DEF FilesIInv, LocksOk
  <2>3. ASSUME NEW r \in Readers
        PROVE  /\ inbox[r] \cup todo[r] \cup loaded[r] \subseteq 1 .. file
               /\ scanned[r] \cup ready[r] \subseteq loaded[r]
               /\ scanned[r] \cap ready[r] = {}
               /\ reader[r] \notin {"idle", "scan", "batch"} => cmd[r] \in ready[r] \ inbox[r]
    BY DEF FilesIInv, ReadersOk, MemoryType, ReaderOk
  <2>4. QED
    BY <2>1, <2>2, <2>3 DEF FilesIInv, WriterOk, PostsOk, FilesInv
<1>4. QED
  BY <1>1, <1>2, <1>3, PTL DEF Spec

------------------------------------------------------------------------------
(* The batch for a window is all of the window.                             *)

\* What is loaded is scanned or handed over.  Once the commands are old a scan
\* overlooks none: each is loaded or among those it has still to visit.
Seen(r) ==
  /\ loaded[r] = scanned[r] \cup ready[r]
  /\ reader[r] = "scan" /\ opened + TimeOut < now => inbox[r] \subseteq loaded[r] \cup todo[r]

WindowIInv ==
  /\ IInv
  /\ loaded \in [Readers -> SUBSET Files] /\ todo \in [Readers -> SUBSET Files]
  /\ \A r \in Readers : Seen(r)

LEMMA SeenKept ==
  ASSUME NEW r \in Readers, Seen(r),
         UNCHANGED <<loaded[r], scanned[r], ready[r], todo[r]>>,
         reader'[r] = "scan" /\ opened' + TimeOut < now' =>
           reader[r] = "scan" /\ opened + TimeOut < now /\ inbox'[r] = inbox[r]
  PROVE  Seen(r)'
  BY DEF Seen

\* While commands are written they are not yet old, and a scan takes no time.
LEMMA WriterSeen ==
  ASSUME WindowIInv, WriterStep \/ WriterDies \/ Tick
  PROVE  /\ loaded' \in [Readers -> SUBSET Files] /\ todo' \in [Readers -> SUBSET Files]
         /\ \A r \in Readers : Seen(r)'
<1>1. UNCHANGED scanner /\ UNCHANGED counting
  BY DEF WriterStep, Open, Write, NewFile, Suffix, OpenLock, FlushLock, Finish, Post,
     WriterDies, Tick
<1>2. now \in Nat /\ opened \in Nat /\ TimeOut \in Nat /\ ClockInv
  BY Constants DEF WindowIInv, IInv, TypeInv
<1>3. ASSUME NEW r \in Readers  PROVE Seen(r)'
  <2>1. Seen(r) /\ UNCHANGED <<loaded[r], scanned[r], ready[r], todo[r], reader[r]>>
    BY <1>1 DEF WindowIInv, scanner, counting
  <2>2. CASE Open
    <3>1. ~(opened' + TimeOut < now')
      BY <1>2, <2>2 DEF Open
    <3>2. QED
      BY <2>1, <3>1, SeenKept
  <2>3. CASE Tick
    <3>1. reader'[r] # "scan"
      BY <2>1, <2>3 DEF Tick
    <3>2. QED
      BY <2>1, <3>1, SeenKept
  <2>4. ASSUME NEW q \in Readers, Post(q)  PROVE Seen(r)'
    <3>1. ~(opened' + TimeOut < now')
      BY <1>2, <2>4 DEF Post, ClockInv
    <3>2. QED
      BY <2>1, <3>1, SeenKept
  <2>5. CASE UNCHANGED <<now, opened, inbox>>
    BY <2>1, <2>5, SeenKept
  <2>6. Open \/ Tick \/ (\E q \in Readers : Post(q)) \/ UNCHANGED <<now, opened, inbox>>
    BY DEF WriterStep, Write, NewFile, Suffix, OpenLock, FlushLock, Finish, WriterDies, disk
  <2>7. QED
    BY <2>2, <2>3, <2>4, <2>5, <2>6
<1>4. QED
  BY <1>1, <1>3 DEF WindowIInv, scanner

\* What the others do leaves the memory and the directory of a reader alone.
LEMMA OthersSeen ==
  ASSUME WindowIInv, NEW r \in Readers, ReaderStep(r) \/ CloseBatch(r) \/ ReaderDies(r),
         NEW q \in Readers, q # r
  PROVE  Seen(q)'
<1>1. /\ UNCHANGED <<loaded[q], scanned[q], ready[q], todo[q], reader[q], inbox[q]>>
  BY DEF WindowIInv, IInv, TypeInv, ReaderStep, Archive, StartScan, EndScan, Load, Rename,
     Exists, OpenCounter, Count, FlushCount, RemoveData, RemoveLock, CloseBatch, ReaderDies,
     Archived, Goes, disk, scanner, counting
<1>2. UNCHANGED <<now, opened>>
  BY DEF ReaderStep, Archive, StartScan, EndScan, Load, Rename, Exists, OpenCounter, Count,
     FlushCount, RemoveData, RemoveLock, CloseBatch, ReaderDies, output
<1>3. QED
  BY <1>1, <1>2, SeenKept DEF WindowIInv

LEMMA ReaderSeen ==
  ASSUME WindowIInv, NEW r \in Readers, ReaderStep(r) \/ CloseBatch(r) \/ ReaderDies(r)
  PROVE  /\ loaded' \in [Readers -> SUBSET Files] /\ todo' \in [Readers -> SUBSET Files]
         /\ Seen(r)'
<1> DEFINE Fine == /\ loaded' \in [Readers -> SUBSET Files]
                   /\ todo' \in [Readers -> SUBSET Files]
                   /\ Seen(r)'
<1>1. /\ TypeInv /\ Seen(r) /\ InHand(r)
      /\ loaded \in [Readers -> SUBSET Files] /\ todo \in [Readers -> SUBSET Files]
      /\ \A f \in inbox[r] : data[f] # None
  BY DEF WindowIInv, IInv, ReaderInv, NoEarlyRemoval
<1>2. CASE StartScan(r)
  <2>1. todo' = [todo EXCEPT ![r] = inbox[r] \ loaded[r]] /\ UNCHANGED <<loaded, scanned, ready, inbox>>
    BY <1>2 DEF StartScan, disk
  <2>2. todo'[r] = inbox[r] \ loaded[r] /\ todo' \in [Readers -> SUBSET Files]
    BY <1>1, <2>1 DEF TypeInv
  <2>3. QED
    BY <1>1, <2>1, <2>2 DEF Seen
<1>3. ASSUME NEW f \in Files, Load(r, f)  PROVE Fine
  <2>1. /\ UNCHANGED <<inbox, ready, reader, now, opened>> /\ f \in todo[r]
        /\ todo' = [todo EXCEPT ![r] = @ \ {f}]
    BY <1>3 DEF Load, disk, counting, output
  <2>2. todo'[r] = todo[r] \ {f} /\ todo' \in [Readers -> SUBSET Files]
    BY <1>1, <2>1
  <2>3. CASE f \in inbox[r]
    <3>1. /\ loaded' = [loaded EXCEPT ![r] = @ \cup {f}]
          /\ scanned' = [scanned EXCEPT ![r] = @ \cup {f}]
      BY <1>1, <1>3, <2>3 DEF Load
    <3>2. /\ loaded'[r] = loaded[r] \cup {f} /\ scanned'[r] = scanned[r] \cup {f}
          /\ loaded' \in [Readers -> SUBSET Files]
      BY <1>1, <3>1 DEF TypeInv
    <3>3. Seen(r)'
      BY <1>1, <2>1, <2>2, <3>2 DEF Seen
    <3>4. QED
      BY <2>2, <3>2, <3>3
  <2>4. CASE f \notin inbox[r]
    <3>1. UNCHANGED <<loaded, scanned>>
      BY <1>3, <2>4 DEF Load
    <3>2. Seen(r)'
      BY <1>1, <2>1, <2>2, <2>4, <3>1 DEF Seen
    <3>3. QED
      BY <1>1, <2>2, <3>1, <3>2
  <2>5. QED
    BY <2>3, <2>4
<1>4. CASE EndScan(r)
  <2>1. UNCHANGED <<loaded, todo>> /\ reader'[r] # "scan" /\ ready[r] = {}
    BY <1>1, <1>4 DEF EndScan, Goes, TypeInv, InHand
  <2>2. \/ ready'[r] = scanned[r] /\ scanned'[r] = {}
        \/ ready'[r] = ready[r] /\ scanned'[r] = scanned[r]
    BY <1>1, <1>4 DEF EndScan, TypeInv
  <2>3. Seen(r)'
    BY <1>1, <2>1, <2>2 DEF Seen
  <2>4. QED
    BY <1>1, <2>1, <2>3
<1>5. ASSUME UNCHANGED scanner, reader'[r] # "scan"  PROVE Fine
  <2>1. UNCHANGED <<loaded, scanned, ready, todo>>
    BY <1>5 DEF scanner
  <2>2. Seen(r)'
    BY <1>1, <1>5, <2>1 DEF Seen
  <2>3. QED
    BY <1>1, <2>1, <2>2
<1>6. ASSUME Archived(r), reader[r] \in Archiving  PROVE Fine
  <2>1. /\ loaded' = [loaded EXCEPT ![r] = @ \ {cmd[r]}] /\ UNCHANGED <<scanned, todo>>
        /\ ready'[r] = ready[r] \ {cmd[r]} /\ reader'[r] # "scan" /\ scanned[r] = {}
    BY <1>1, <1>6 DEF Archived, Goes, TypeInv, InHand, Archiving
  <2>2. loaded'[r] = loaded[r] \ {cmd[r]} /\ loaded' \in [Readers -> SUBSET Files]
    BY <1>1, <2>1
  <2>3. Seen(r)'
    BY <1>1, <2>1, <2>2 DEF Seen
  <2>4. QED
    BY <1>1, <2>1, <2>2, <2>3
<1>7. CASE Archive(r)
  <2>1. \/ Archived(r) /\ reader[r] \in Archiving
        \/ UNCHANGED scanner /\ reader'[r] # "scan"
    BY <1>1, <1>7 DEF Archive, Rename, Exists, OpenCounter, Count, FlushCount, RemoveData,
       RemoveLock, Goes, TypeInv, Archiving, scanner
  <2>2. QED
    BY <1>5, <1>6, <2>1
<1>8. CASE CloseBatch(r)
  <2>1. /\ loaded' = [loaded EXCEPT ![r] = @ \ ready[r]] /\ UNCHANGED <<scanned, todo>>
        /\ ready'[r] = {} /\ reader'[r] # "scan" /\ scanned[r] = {}
    BY <1>1, <1>8 DEF CloseBatch, Goes, TypeInv, InHand, disk
  <2>2. loaded'[r] = loaded[r] \ ready[r] /\ loaded' \in [Readers -> SUBSET Files]
    BY <1>1, <2>1
  <2>3. Seen(r)'
    BY <1>1, <2>1, <2>2 DEF Seen
  <2>4. QED
    BY <1>1, <2>1, <2>2, <2>3
<1>9. CASE ReaderDies(r)
  <2>1. /\ loaded' = [loaded EXCEPT ![r] = {}] /\ todo' = [todo EXCEPT ![r] = {}]
        /\ scanned'[r] = {} /\ ready'[r] = {} /\ reader'[r] # "scan"
    BY <1>1, <1>9 DEF ReaderDies, Goes, TypeInv
  <2>2. /\ loaded'[r] = {} /\ loaded' \in [Readers -> SUBSET Files]
        /\ todo' \in [Readers -> SUBSET Files]
    BY <1>1, <2>1
  <2>3. Seen(r)'
    BY <2>1, <2>2 DEF Seen
  <2>4. QED
    BY <2>2, <2>3
<1>10. QED
  BY <1>2, <1>3, <1>4, <1>7, <1>8, <1>9 DEF ReaderStep

LEMMA WindowIInvNext ==
  ASSUME WindowIInv, "flush" \notin CrashPoints, [Next]_vars
  PROVE  WindowIInv'
<1>1. IInv'
  BY IInvNext DEF WindowIInv
<1>2. CASE WriterStep \/ WriterDies \/ Tick
  BY <1>1, <1>2, WriterSeen DEF WindowIInv
<1>3. ASSUME NEW r \in Readers, ReaderStep(r) \/ CloseBatch(r) \/ ReaderDies(r)
      PROVE  WindowIInv'
  <2>1. \A q \in Readers : Seen(q)'
    BY <1>3, ReaderSeen, OthersSeen
  <2>2. QED
    BY <1>1, <1>3, <2>1, ReaderSeen DEF WindowIInv
<1>4. CASE UNCHANGED vars
  BY <1>1, <1>4 DEF WindowIInv, Seen, vars, disk, output, scanner, counting
<1>5. QED
  BY <1>2, <1>3, <1>4 DEF Next

\* A step that hands over a batch is the end of a scan.
LEMMA HandedOver ==
  ASSUME WindowIInv, Next, NEW r \in Readers, ready[r] = {}, ready'[r] # {}
  PROVE  ready'[r] = inbox[r] /\ writer \in {"closed", "done", "dead"}
<1>1. TypeInv /\ InHand(r) /\ Seen(r) /\ ClockInv /\ TimeOut \in Nat /\ WindowEnd \in Nat
  BY Bounds DEF WindowIInv, IInv, ReaderInv
<1>2. EndScan(r)
  <2>1. ASSUME NEW q \in Readers, ReaderStep(q) \/ CloseBatch(q) \/ ReaderDies(q)
        PROVE  EndScan(q) \/ ready'[r] \subseteq ready[r]
    BY <1>1, <2>1 DEF TypeInv, ReaderStep, Archive, StartScan, Load, Rename, Exists, OpenCounter,
       Count, FlushCount, RemoveData, RemoveLock, CloseBatch, ReaderDies, Archived, scanner
  <2>2. ASSUME NEW q \in Readers, EndScan(q), q # r  PROVE ready'[r] = ready[r]
    BY <1>1, <2>2 DEF EndScan, TypeInv
  <2>3. WriterStep \/ WriterDies \/ Tick => ready' = ready
    BY DEF WriterStep, Open, Write, NewFile, Suffix, OpenLock, FlushLock, Finish, Post,
       WriterDies, Tick, scanner
  <2>4. ~(ready'[r] \subseteq ready[r])
    OBVIOUS
  <2>5. QED
    BY <2>1, <2>2, <2>3, <2>4 DEF Next
<1>3. IsReady /\ ready'[r] = scanned[r] /\ reader[r] = "scan" /\ todo[r] = {}
  BY <1>1, <1>2 DEF EndScan, TypeInv
<1>4. opened + TimeOut < now /\ writer \in {"closed", "done", "dead"}
  BY <1>1, <1>3 DEF IsReady, TypeInv, ClockInv
<1>5. inbox[r] = scanned[r]
  BY <1>1, <1>3, <1>4 DEF Seen, InHand
<1>6. QED
  BY <1>3, <1>4, <1>5

\* The batch an application gets is every command of its directory, and the
\* writer will add none (GetReadyCmds(): the window and the time-out).
THEOREM WindowWholeHolds ==
  ASSUME "flush" \notin CrashPoints
  PROVE  Spec => WindowWhole
<1>1. Init => WindowIInv
  BY IInvInit DEF WindowIInv, Init, Seen
<1>2. WindowIInv /\ [Next]_vars => WindowIInv'
  BY WindowIInvNext
<1>3. WindowIInv /\ [Next]_vars =>
        [\A r \in Readers :
           ready[r] = {} /\ ready'[r] # {} =>
             ready'[r] = inbox[r] /\ writer \in {"closed", "done", "dead"}]_vars
  BY HandedOver
<1>4. QED
  BY <1>1, <1>2, <1>3, PTL DEF Spec, WindowWhole
=============================================================================
