------------------------ MODULE ProcessingNodeProofs ------------------------
(* Proofs about ProcessingNode: for any PEs and any configurations, the     *)
(* routing table is sound at every step of its construction, a lookup that  *)
(* comes in between reaches exactly the PEs of the routes set so far, and   *)
(* no PE is deleted while it is started.  About Distribution: for any       *)
(* number of PEs, threads and addresses, a thread owns the event it         *)
(* distributes as long as it will touch it, and no event is left without    *)
(* somebody who deletes it.  About SparseMatrix: for any set of node ids,   *)
(* the rows and the columns of the orthogonal lists hold the same cells in  *)
(* order, and the lists implement a set of pairs.                           *)
EXTENDS ProcessingNode, Distribution, SparseMatrix, FiniteSetTheorems, FunctionTheorems,
        SequenceTheorems, WellFoundedInduction, TLAPS

Calm == Routing \cup {"nodes", "ready", "starting"}

\* The table is that of the present configuration.
Built == Calm \cup {"failed"}

ShapeInv ==
  /\ localCount \in Nat /\ remoteCount \in Nat
  /\ Registered \subseteq PeIds
  /\ DOMAIN bits = Kinds
  /\ step \in Steps /\ k \in Nat \ {0}
  /\ loaded \subseteq PeIds
  /\ started \subseteq PeIds
  /\ reloads \in 0 .. MaxReloads

ConfigInv == config \in Configs \/ config = NoConfig

RunningInv == running \in BOOLEAN

TypeInv ==
  /\ ShapeInv /\ ConfigInv /\ RunningInv
  /\ IsFiniteSet(Registered) /\ IsFiniteSet(loaded)

\* The table, and the arrays' sizes.
SlotInv ==
  /\ TableInv
  /\ \A p \in Registered : unif[p] \in Nat
  /\ DOMAIN localPes = 0 .. localCount - 1
  /\ DOMAIN remotePes = 0 .. remoteCount - 1

CountInv ==
  /\ step \in Built \cup {"tables"} =>
       /\ Registered \subseteq loaded
       /\ localCount = Cardinality(LocalPes)
       /\ remoteCount = Cardinality(RemotePes)
  /\ step = "tables" => unif = <<>> /\ \A kind \in Kinds : bits[kind] = {}

Known(r)   == Knows(r[1]) /\ r[2] \in Registered
Address(r) == MatrixIdx(RowOf(r[1]), unif[r[2]])

\* The first n routes of a kind have been set, and no others.
SetUpTo(kind, n) ==
  /\ n \in 0 .. Len(config[kind])
  /\ \A i \in 1 .. n : Known(config[kind][i])
  /\ bits[kind] = {Address(config[kind][i]) : i \in 1 .. n}

\* How many that are when no step of reload() has failed.
Done(kind) ==
  IF step \in RouteSteps(kind) THEN k - 1
  ELSE IF kind = "processed" /\ step \in RouteSteps("received") THEN 0
  ELSE Len(config[kind])

BitsInv ==
  /\ step \in Calm => \A kind \in Kinds : SetUpTo(kind, Done(kind))
  /\ step = "failed" => \A kind \in Kinds : \E n \in 0 .. Len(config[kind]) : SetUpTo(kind, n)

\* Between the three steps that set a route its ends do not change.
RouteInv ==
  \A kind \in Kinds :
    /\ step \in {EndOf[kind], BitOf[kind]} =>
         k \in 1 .. Len(config[kind]) /\ ~BadRoute(Route(kind)) /\ Knows(Route(kind)[1])
    /\ step = BitOf[kind] => Route(kind)[2] \in Registered

\* Which PEs are started where the main thread stands.
LifeInv ==
  /\ step # "exited" => started \subseteq LocalPes
  /\ step \in Routing \cup {"idle", "load", "unloaded", "tables", "nodes"} => started = {}
  /\ step = "idle" => loaded = {}
  /\ step \in {"ready", "starting"} => loaded \subseteq Registered
  /\ step = "ready" /\ ~running => started = {}
  /\ running => step = "ready" /\ started = LocalPes

IInv ==
  /\ TypeInv /\ (step # "tables" => SlotInv) /\ CountInv /\ BitsInv /\ RouteInv
  /\ LifeInv

------------------------------------------------------------------------------
\* Addresses in a matrix of n columns: one row never reaches into another.

LEMMA RowsApart ==
  ASSUME NEW n \in Nat, NEW a \in Int, NEW b \in Int, a < b,
         NEW c \in 0 .. n - 1, NEW d \in 0 .. n - 1
  PROVE  n * a + c < n * b + d
<1>1. b = a + 1 + (b - a - 1) /\ b - a - 1 \in Nat
  OBVIOUS
<1>2. n * (b - a - 1) >= 0
  BY <1>1
<1>3. n * b = n * a + n + n * (b - a - 1)
  BY <1>1
<1>4. n * a \in Int /\ n * b \in Int /\ n * (b - a - 1) \in Int
  OBVIOUS
<1> HIDE <1>1
<1>5. QED
  BY <1>2, <1>3, <1>4

LEMMA AddressApart ==
  ASSUME NEW n \in Nat, NEW a \in Int, NEW b \in Int,
         NEW c \in 0 .. n - 1, NEW d \in 0 .. n - 1, n * a + c = n * b + d
  PROVE  a = b /\ c = d
<1>1. ~(a < b) /\ ~(b < a)
  <2>1. n * a + c \in Int /\ n * b + d \in Int
    OBVIOUS
  <2>2. QED
    BY <2>1, RowsApart
<1>2. a = b
  BY <1>1
<1>3. n * a \in Int
  OBVIOUS
<1>4. QED
  BY <1>2, <1>3

LEMMA AddressInRange ==
  ASSUME NEW n \in Nat, NEW a \in 0 .. n, NEW c \in 0 .. n - 1
  PROVE  n * a + c \in 0 .. n * (n + 1) - 1
<1>1. n * a >= 0 /\ n * a \in Int
  OBVIOUS
<1>2. n * (n + 1) = n * a + n + n * (n - a)
  OBVIOUS
<1>3. n * (n - a) >= 0 /\ n * (n - a) \in Int /\ n * (n + 1) \in Int
  OBVIOUS
<1>4. QED
  BY <1>1, <1>2, <1>3

\* Two parts of a finite set.
LEMMA Parts ==
  ASSUME NEW S, IsFiniteSet(S), NEW A, NEW B, A \cup B = S, A \cap B = {}
  PROVE  /\ IsFiniteSet(A) /\ IsFiniteSet(B)
         /\ Cardinality(A) \in Nat /\ Cardinality(B) \in Nat
         /\ Cardinality(S) = Cardinality(A) + Cardinality(B)
<1>1. A \subseteq S /\ B \subseteq S
  OBVIOUS
<1>2. IsFiniteSet(A) /\ IsFiniteSet(B)
  BY <1>1, FS_Subset
<1>3. Cardinality(A) \in Nat /\ Cardinality(B) \in Nat
  BY <1>2, FS_CardinalityType
<1>4. Cardinality(S) = Cardinality(A) + Cardinality(B) - Cardinality({})
  <2>1. Cardinality(A \cup B) = Cardinality(A) + Cardinality(B) - Cardinality(A \cap B)
    BY <1>2, FS_Union
  <2>2. QED
    BY <2>1, Zenon
<1>5. Cardinality({}) = 0
  BY FS_EmptySet
<1>6. QED
  BY <1>2, <1>3, <1>4, <1>5

LEMMA FewerOf ==
  ASSUME NEW S, NEW T, IsFiniteSet(T), S \subseteq T, NEW x \in T \ S
  PROVE  Cardinality(S) < Cardinality(T)
<1>1. IsFiniteSet(T \ {x}) /\ Cardinality(T \ {x}) = Cardinality(T) - 1
  BY FS_RemoveElement
<1>2. S \subseteq T \ {x}
  OBVIOUS
<1>3. Cardinality(S) <= Cardinality(T \ {x}) /\ IsFiniteSet(S)
  BY <1>1, <1>2, FS_Subset
<1>4. Cardinality(S) \in Nat /\ Cardinality(T) \in Nat
  BY <1>3, FS_CardinalityType
<1>5. QED
  BY <1>1, <1>3, <1>4

\* rebuild() sized the arrays so that there is room for every PE.
LEMMA RoomForAll ==
  ASSUME TypeInv, CountInv, step \in Built, NEW p \in loaded
  PROVE  ~Refuses(p)
<1> SUFFICES ASSUME p \notin Registered  PROVE HasRoom(p)
  BY DEF Refuses
<1>1. IsFiniteSet(loaded) /\ IsFiniteSet(Registered) /\ Registered \subseteq loaded
      /\ localCount = Cardinality(LocalPes) /\ remoteCount = Cardinality(RemotePes)
  BY DEF TypeInv, ShapeInv, CountInv
<1>2. IsFiniteSet(LocalPes) /\ IsFiniteSet(RemotePes)
      /\ Cardinality(loaded) = Cardinality(LocalPes) + Cardinality(RemotePes)
  <2>1. LocalPes \cup RemotePes = loaded /\ LocalPes \cap RemotePes = {}
    BY DEF LocalPes, RemotePes
  <2>2. QED
    BY <1>1, <2>1, Parts
<1>3. Cardinality(Registered) < peCount
  BY <1>1, <1>2, FewerOf DEF peCount
<1>4. CASE p \in LocalIds
  <2>1. Registered \cap LocalIds \subseteq LocalPes /\ p \in LocalPes \ (Registered \cap LocalIds)
    BY <1>1, <1>4 DEF LocalPes
  <2>2. LocalUsed < localCount
    BY <1>1, <1>2, <2>1, FewerOf DEF LocalUsed
  <2>3. QED
    BY <1>3, <1>4, <2>2 DEF HasRoom
<1>5. CASE p \notin LocalIds
  <2>1. Registered \ LocalIds \subseteq RemotePes /\ p \in RemotePes \ (Registered \ LocalIds)
    BY <1>1, <1>5 DEF RemotePes
  <2>2. RemoteUsed < remoteCount
    BY <1>1, <1>2, <2>1, FewerOf DEF RemoteUsed
  <2>3. QED
    BY <1>3, <1>5, <2>2 DEF HasRoom
<1>6. QED
  BY <1>4, <1>5

------------------------------------------------------------------------------
\* The table: registered PEs have slots and indices of their own.

LEMMA UsedType ==
  ASSUME TypeInv
  PROVE  /\ LocalUsed \in Nat /\ RemoteUsed \in Nat
         /\ peCount \in Nat /\ peCount = localCount + remoteCount
<1>1. (Registered \cap LocalIds) \cup (Registered \ LocalIds) = Registered
  OBVIOUS
<1>2. (Registered \cap LocalIds) \cap (Registered \ LocalIds) = {}
  OBVIOUS
<1>3. LocalUsed \in Nat /\ RemoteUsed \in Nat
  BY <1>1, <1>2, Parts DEF TypeInv, ShapeInv, LocalUsed, RemoteUsed
<1>4. QED
  BY <1>3 DEF TypeInv, ShapeInv, peCount

LEMMA IndexesApart ==
  ASSUME TypeInv, SlotInv
  PROVE  /\ \A p \in Registered :
              /\ unif[p] \in 0 .. peCount - 1
              /\ p \in LocalIds => unif[p] < localCount /\ localPes[unif[p]] = p
              /\ p \notin LocalIds => unif[p] >= localCount /\ remotePes[unif[p] - localCount] = p
         /\ \A p, q \in Registered : unif[p] = unif[q] => p = q
<1>1. \A p \in Registered :
        IF p \in LocalIds THEN unif[p] \in 0 .. localCount - 1 /\ localPes[unif[p]] = p
        ELSE /\ unif[p] - localCount \in 0 .. remoteCount - 1
             /\ remotePes[unif[p] - localCount] = p
  BY UsedType DEF SlotInv, TableInv, TypeInv, ShapeInv
<1>2. localCount \in Nat /\ remoteCount \in Nat /\ peCount = localCount + remoteCount
  BY DEF TypeInv, ShapeInv, peCount
<1>3. ASSUME NEW p \in Registered
      PROVE  /\ unif[p] \in 0 .. peCount - 1
             /\ p \in LocalIds => unif[p] < localCount /\ localPes[unif[p]] = p
             /\ p \notin LocalIds => unif[p] >= localCount /\ remotePes[unif[p] - localCount] = p
  <2>1. CASE p \in LocalIds
    BY <1>1, <1>2, <2>1
  <2>2. CASE p \notin LocalIds
    <3>1. unif[p] - localCount \in 0 .. remoteCount - 1
      BY <1>1, <2>2
    <3>2. unif[p] \in Int
      BY DEF SlotInv
    <3>3. QED
      BY <1>1, <1>2, <2>2, <3>1, <3>2
  <2>3. QED
    BY <2>1, <2>2
<1>4. ASSUME NEW p \in Registered, NEW q \in Registered, unif[p] = unif[q]
      PROVE  p = q
  BY <1>2, <1>3, <1>4
<1>5. QED
  BY <1>3, <1>4

\* One more PE registered, the others where they were.
LEMMA UsedGrows ==
  ASSUME TypeInv, NEW p, p \notin Registered, Registered' = Registered \cup {p}
  PROVE  /\ p \in LocalIds => LocalUsed' = LocalUsed + 1 /\ RemoteUsed' = RemoteUsed
         /\ p \notin LocalIds => LocalUsed' = LocalUsed /\ RemoteUsed' = RemoteUsed + 1
<1>1. IsFiniteSet(Registered \cap LocalIds) /\ IsFiniteSet(Registered \ LocalIds)
  BY FS_Subset DEF TypeInv, ShapeInv
<1>2. CASE p \in LocalIds
  <2>1. LocalUsed' = Cardinality((Registered \cap LocalIds) \cup {p})
    <3>1. Registered' \cap LocalIds = (Registered \cap LocalIds) \cup {p}
      BY <1>2
    <3>2. QED
      BY <3>1, Zenon DEF LocalUsed
  <2>2. RemoteUsed' = RemoteUsed
    <3>1. Registered' \ LocalIds = Registered \ LocalIds
      BY <1>2
    <3>2. QED
      BY <3>1, Zenon DEF RemoteUsed
  <2>3. Cardinality((Registered \cap LocalIds) \cup {p}) = Cardinality(Registered \cap LocalIds) + 1
    BY <1>1, FS_AddElement
  <2>4. QED
    BY <1>2, <2>1, <2>2, <2>3, Zenon DEF LocalUsed
<1>3. CASE p \notin LocalIds
  <2>1. RemoteUsed' = Cardinality((Registered \ LocalIds) \cup {p})
    <3>1. Registered' \ LocalIds = (Registered \ LocalIds) \cup {p}
      BY <1>3
    <3>2. QED
      BY <3>1, Zenon DEF RemoteUsed
  <2>2. LocalUsed' = LocalUsed
    <3>1. Registered' \cap LocalIds = Registered \cap LocalIds
      BY <1>3
    <3>2. QED
      BY <3>1, Zenon DEF LocalUsed
  <2>3. Cardinality((Registered \ LocalIds) \cup {p}) = Cardinality(Registered \ LocalIds) + 1
    BY <1>1, FS_AddElement
  <2>4. QED
    BY <1>3, <2>1, <2>2, <2>3, Zenon DEF RemoteUsed
<1>4. QED
  BY <1>2, <1>3

LEMMA EnrolKeeps ==
  ASSUME TypeInv, SlotInv, NEW p \in PeIds, Enrol(p)
  PROVE  /\ Registered' = Registered \cup {p}
         /\ Registered' \subseteq PeIds /\ IsFiniteSet(Registered')
         /\ \A q \in Registered : unif'[q] = unif[q]
         /\ UNCHANGED <<localCount, remoteCount, bits>>
         /\ SlotInv'
<1>1. CASE p \in Registered
  <2>1. UNCHANGED routerVars
    BY <1>1 DEF Enrol, routerVars
  <2>2. SlotInv'
    BY <2>1 DEF SlotInv, TableInv, Registered, LocalUsed, RemoteUsed, peCount, routerVars
  <2>3. QED
    BY <1>1, <2>1, <2>2 DEF TypeInv, ShapeInv, Registered, routerVars
<1>2. CASE p \notin Registered
  <2>1. HasRoom(p) /\ Register(p) /\ UNCHANGED <<localCount, remoteCount, bits>>
    BY <1>2 DEF Enrol
  <2>2. Registered' = Registered \cup {p} /\ \A q \in Registered : unif'[q] = unif[q]
    BY <1>2, <2>1 DEF Register, Registered
  <2>3. IsFiniteSet(Registered') /\ Registered' \subseteq PeIds
    BY <2>2, FS_AddElement DEF TypeInv, ShapeInv
  <2>4. /\ p \in LocalIds => LocalUsed' = LocalUsed + 1 /\ RemoteUsed' = RemoteUsed
        /\ p \notin LocalIds => LocalUsed' = LocalUsed /\ RemoteUsed' = RemoteUsed + 1
    BY <1>2, <2>2, UsedGrows
  <2>5. unif'[p] = UnifIdx(p)
    BY <2>1 DEF Register
  <2>6. LocalUsed \in Nat /\ RemoteUsed \in Nat /\ localCount \in Nat /\ remoteCount \in Nat
    BY UsedType DEF TypeInv, ShapeInv
  <2>6a. \A q \in Registered' : unif'[q] \in Nat
    BY <2>2, <2>5, <2>6 DEF SlotInv, UnifIdx
  <2>7. CASE p \in LocalIds
    <3>1. LocalUsed < localCount /\ unif'[p] = LocalUsed
      BY <2>1, <2>5, <2>7 DEF HasRoom, UnifIdx
    <3>2. localPes' = [localPes EXCEPT ![LocalUsed] = p] /\ remotePes' = remotePes
      BY <2>1, <2>7 DEF Register, Slot
    <3>3. \A i \in 0 .. LocalUsed - 1 : localPes'[i] = localPes[i]
      BY <3>1, <3>2, <2>6 DEF SlotInv
    <3>4. localPes'[LocalUsed] = p /\ DOMAIN localPes' = DOMAIN localPes
      BY <3>1, <3>2, <2>6 DEF SlotInv
    <3>5. ASSUME NEW q \in Registered'
          PROVE  IF q \in LocalIds
                   THEN unif'[q] \in 0 .. LocalUsed' - 1 /\ localPes'[unif'[q]] = q
                   ELSE /\ unif'[q] - localCount \in 0 .. RemoteUsed' - 1
                        /\ remotePes'[unif'[q] - localCount] = q
      <4>1. CASE q = p
        BY <4>1, <2>4, <2>6, <2>7, <3>1, <3>4
      <4>2. CASE q # p
        <5>1. q \in Registered /\ unif'[q] = unif[q]
          BY <2>2, <4>2, <3>5
        <5>2. QED
          BY <5>1, <2>4, <2>6, <2>7, <3>2, <3>3 DEF SlotInv, TableInv
      <4>3. QED
        BY <4>1, <4>2
    <3>6. LocalUsed' <= localCount' /\ RemoteUsed' <= remoteCount'
      BY <2>1, <2>4, <2>6, <2>7, <3>1 DEF SlotInv, TableInv
    <3>7. QED
      BY <1>2, <2>1, <2>2, <2>3, <3>2, <3>4, <3>5, <3>6, <2>6a DEF SlotInv, TableInv, peCount
  <2>8. CASE p \notin LocalIds
    <3>1. RemoteUsed < remoteCount /\ unif'[p] = localCount + RemoteUsed
      BY <2>1, <2>5, <2>8 DEF HasRoom, UnifIdx
    <3>2. remotePes' = [remotePes EXCEPT ![RemoteUsed] = p] /\ localPes' = localPes
      BY <2>1, <2>8 DEF Register, Slot
    <3>3. \A i \in 0 .. RemoteUsed - 1 : remotePes'[i] = remotePes[i]
      BY <3>1, <3>2, <2>6 DEF SlotInv
    <3>4. remotePes'[RemoteUsed] = p /\ DOMAIN remotePes' = DOMAIN remotePes
      BY <3>1, <3>2, <2>6 DEF SlotInv
    <3>5. ASSUME NEW q \in Registered'
          PROVE  IF q \in LocalIds
                   THEN unif'[q] \in 0 .. LocalUsed' - 1 /\ localPes'[unif'[q]] = q
                   ELSE /\ unif'[q] - localCount \in 0 .. RemoteUsed' - 1
                        /\ remotePes'[unif'[q] - localCount] = q
      <4>1. CASE q = p
        BY <4>1, <2>4, <2>6, <2>8, <3>1, <3>4
      <4>2. CASE q # p
        <5>1. q \in Registered /\ unif'[q] = unif[q]
          BY <2>2, <4>2, <3>5
        <5>2. QED
          BY <5>1, <2>4, <2>6, <2>8, <3>2, <3>3 DEF SlotInv, TableInv
      <4>3. QED
        BY <4>1, <4>2
    <3>6. LocalUsed' <= localCount' /\ RemoteUsed' <= remoteCount'
      BY <2>1, <2>4, <2>6, <2>8, <3>1 DEF SlotInv, TableInv
    <3>7. QED
      BY <1>2, <2>1, <2>2, <2>3, <3>2, <3>4, <3>5, <3>6, <2>6a DEF SlotInv, TableInv, peCount
  <2>9. QED
    BY <2>7, <2>8
<1>3. QED
  BY <1>1, <1>2

------------------------------------------------------------------------------
\* The bits.

LEMMA ConfigType ==
  ASSUME TypeInv, NEW kind \in Kinds
  PROVE  /\ config[kind] \in Seq(Nat \X Nat) /\ Len(config[kind]) \in Nat
         /\ \A i \in 1 .. Len(config[kind]) :
              /\ config[kind][i] \in Nat \X Nat
              /\ config[kind][i][1] \in Nat /\ config[kind][i][2] \in Nat
              /\ config[kind][i] = <<config[kind][i][1], config[kind][i][2]>>
<1>1. config[kind] \in Seq(Nat \X Nat)
  <2>1. CASE config \in Configs
    BY <2>1, NodeAssumption DEF NodeAssumption
  <2>2. CASE config = NoConfig
    <3>1. config[kind] = <<>>
      BY <2>2 DEF NoConfig, Kinds
    <3>2. QED
      BY <3>1
  <2>3. QED
    BY <2>1, <2>2 DEF TypeInv, ConfigInv
<1>2. QED
  BY <1>1

\* The address of a route whose ends are registered is in the matrix, and
\* of this route alone.
LEMMA AddressOk ==
  ASSUME TypeInv, SlotInv, NEW s, Knows(s), NEW d \in Registered
  PROVE  /\ RowOf(s) \in -1 .. peCount - 1 /\ unif[d] \in 0 .. peCount - 1
         /\ MatrixIdx(RowOf(s), unif[d]) \in 0 .. peCount * (peCount + 1) - 1
<1>1. peCount \in Nat
  BY UsedType
<1>2. RowOf(s) \in -1 .. peCount - 1 /\ unif[d] \in 0 .. peCount - 1
  BY <1>1, IndexesApart DEF RowOf, Knows
<1>3. QED
  BY <1>1, <1>2, AddressInRange DEF MatrixIdx

LEMMA RowsDiffer ==
  ASSUME TypeInv, SlotInv, NEW s, Knows(s), NEW t, Knows(t), RowOf(s) = RowOf(t)
  PROVE  s = t
<1>1. \A p \in Registered : unif[p] \in Nat
  BY DEF SlotInv
<1>2. CASE s = INIT_PE_ID
  BY <1>1, <1>2 DEF RowOf, Knows
<1>3. CASE s # INIT_PE_ID
  <2>1. t # INIT_PE_ID
    BY <1>1, <1>3 DEF RowOf, Knows
  <2>2. s \in Registered /\ t \in Registered /\ unif[s] = unif[t]
    BY <1>3, <2>1 DEF RowOf, Knows
  <2>3. QED
    BY <2>2, IndexesApart
<1>4. QED
  BY <1>2, <1>3

\* Registering more PEs moves no bit.
LEMMA SetKeeps ==
  ASSUME NEW kind \in Kinds, NEW n, SetUpTo(kind, n),
         Registered \subseteq Registered', \A q \in Registered : unif'[q] = unif[q],
         UNCHANGED <<config, localCount, remoteCount, bits>>
  PROVE  SetUpTo(kind, n)'
<1>1. ASSUME NEW i \in 1 .. n
      PROVE  Known(config[kind][i])' /\ Address(config[kind][i])' = Address(config[kind][i])
  <2>1. Known(config[kind][i])
    BY DEF SetUpTo
  <2>2. QED
    BY <2>1 DEF Known, Knows, Address, MatrixIdx, RowOf, peCount
<1>2. QED
  BY <1>1 DEF SetUpTo

LEMMA SetBitKeeps ==
  ASSUME TypeInv, SlotInv, NEW kind \in Kinds, NEW n \in Nat, n < Len(config[kind]),
         SetUpTo(kind, n), Known(config[kind][n + 1]), UNCHANGED config,
         SetBit(kind, config[kind][n + 1][1], config[kind][n + 1][2])
  PROVE  /\ SetUpTo(kind, n + 1)' /\ SlotInv' /\ DOMAIN bits' = Kinds
         /\ \A other \in Kinds \ {kind} : bits'[other] = bits[other]
<1> DEFINE r == config[kind][n + 1]
<1>1. UNCHANGED <<localCount, remoteCount, unif, localPes, remotePes>>
  BY DEF SetBit
<1>2. bits' = [bits EXCEPT ![kind] = bits[kind] \cup {Address(r)}]
  BY DEF SetBit, Address
<1>3. /\ DOMAIN bits' = Kinds /\ bits'[kind] = bits[kind] \cup {Address(r)}
      /\ \A other \in Kinds \ {kind} : bits'[other] = bits[other]
  BY <1>2 DEF TypeInv, ShapeInv
<1>4. /\ Address(r) \in 0 .. peCount * (peCount + 1) - 1
      /\ Knows(r[1]) /\ r[2] \in Registered
  BY AddressOk DEF Known, Address
<1>5. SlotInv'
  <2>1. \A m \in Kinds : bits'[m] \subseteq 0 .. peCount * (peCount + 1) - 1
    BY <1>3, <1>4 DEF SlotInv, TableInv
  <2>2. /\ peCount' = peCount /\ Registered' = Registered
        /\ LocalUsed' = LocalUsed /\ RemoteUsed' = RemoteUsed
    BY <1>1 DEF peCount, Registered, LocalUsed, RemoteUsed
  <2>3. QED
    BY <1>1, <2>1, <2>2 DEF SlotInv, TableInv
<1>6. SetUpTo(kind, n + 1)'
  <2>1. \A i \in 1 .. n + 1 : Known(config[kind][i])
    BY DEF SetUpTo
  <2>2. ASSUME NEW i \in 1 .. n + 1
        PROVE  Known(config[kind][i])' /\ Address(config[kind][i])' = Address(config[kind][i])
    BY <1>1, <2>1 DEF Known, Knows, Address, MatrixIdx, RowOf, peCount, Registered
  <2>3. bits'[kind] = {Address(config[kind][i]) : i \in 1 .. n + 1}
    <3>1. bits[kind] = {Address(config[kind][i]) : i \in 1 .. n}
      BY DEF SetUpTo
    <3> HIDE DEF Address
    <3>2. QED
      BY <1>3, <3>1
  <2>4. n + 1 \in 0 .. Len(config[kind])'
    BY ConfigType
  <2>5. QED
    BY <2>2, <2>3, <2>4 DEF SetUpTo
<1>7. QED
  BY <1>3, <1>5, <1>6

\* What a lookup finds when the first n routes of a kind are set.
LEMMA LookupExact ==
  ASSUME TypeInv, SlotInv, NEW kind \in Kinds, NEW n, SetUpTo(kind, n), NEW source
  PROVE  Recipients(kind, source)
           = {config[kind][i][2] : i \in {j \in 1 .. n : config[kind][j][1] = source}}
<1> DEFINE Found == {config[kind][i][2] : i \in {j \in 1 .. n : config[kind][j][1] = source}}
<1>1. \A i \in 1 .. n : Knows(config[kind][i][1]) /\ config[kind][i][2] \in Registered
  BY DEF SetUpTo, Known
<1>2. CASE ~Knows(source)
  BY <1>1, <1>2 DEF Recipients
<1>3. CASE Knows(source)
  <2>1. /\ peCount \in Nat /\ peCount = localCount + remoteCount
        /\ localCount \in Nat /\ remoteCount \in Nat
    BY UsedType DEF TypeInv, ShapeInv
  <2>2. ASSUME NEW c \in 0 .. peCount - 1
        PROVE  MatrixIdx(RowOf(source), c) \in bits[kind] <=>
                 \E i \in 1 .. n : config[kind][i][1] = source /\ unif[config[kind][i][2]] = c
    <3>1. RowOf(source) \in Int
      BY <1>3, <2>1, IndexesApart DEF RowOf, Knows
    <3>2. ASSUME NEW i \in 1 .. n, MatrixIdx(RowOf(source), c) = Address(config[kind][i])
          PROVE  config[kind][i][1] = source /\ unif[config[kind][i][2]] = c
      <4> DEFINE t == config[kind][i][1]
                 d == unif[config[kind][i][2]]
      <4>1. RowOf(t) \in Int /\ d \in 0 .. peCount - 1 /\ Knows(t)
        BY <1>1, <2>1, AddressOk
      <4>2. peCount * (RowOf(source) + 1) + c = peCount * (RowOf(t) + 1) + d
        BY <3>2 DEF Address, MatrixIdx
      <4> HIDE DEF t, d
      <4>3. RowOf(source) + 1 = RowOf(t) + 1 /\ c = d
        BY <2>1, <3>1, <4>1, <4>2, AddressApart
      <4>4. RowOf(source) = RowOf(t)
        BY <3>1, <4>1, <4>3
      <4>5. source = t
        BY <1>3, <4>1, <4>4, RowsDiffer
      <4>6. QED
        BY <4>3, <4>5 DEF t, d
    <3>3. MatrixIdx(RowOf(source), c) \in bits[kind] <=>
            \E i \in 1 .. n : MatrixIdx(RowOf(source), c) = Address(config[kind][i])
      BY DEF SetUpTo
    <3>4. QED
      BY <3>2, <3>3 DEF Address
  <2>3. Recipients(kind, source) =
          {localPes[i] : i \in LocalHits(kind, source)}
            \cup {remotePes[i] : i \in RemoteHits(kind, source)}
    BY <1>3 DEF Recipients
  <2>4. ASSUME NEW i \in LocalHits(kind, source)  PROVE localPes[i] \in Found
    <3>1. i \in 0 .. localCount - 1 /\ i \in 0 .. peCount - 1
          /\ MatrixIdx(RowOf(source), i) \in bits[kind]
      BY <2>1 DEF LocalHits
    <3>2. PICK j \in 1 .. n : config[kind][j][1] = source /\ unif[config[kind][j][2]] = i
      BY <2>2, <3>1
    <3>3. localPes[i] = config[kind][j][2]
      BY <1>1, <2>1, <3>1, <3>2, IndexesApart
    <3>4. QED
      BY <3>2, <3>3
  <2>5. ASSUME NEW i \in RemoteHits(kind, source)  PROVE remotePes[i] \in Found
    <3>1. i \in 0 .. remoteCount - 1 /\ localCount + i \in 0 .. peCount - 1
          /\ MatrixIdx(RowOf(source), localCount + i) \in bits[kind]
      BY <2>1 DEF RemoteHits
    <3>2. PICK j \in 1 .. n :
             config[kind][j][1] = source /\ unif[config[kind][j][2]] = localCount + i
      BY <2>2, <3>1
    <3>3. remotePes[i] = config[kind][j][2]
      BY <1>1, <2>1, <3>1, <3>2, IndexesApart
    <3>4. QED
      BY <3>2, <3>3
  <2>6. ASSUME NEW j \in 1 .. n, config[kind][j][1] = source
        PROVE  config[kind][j][2] \in Recipients(kind, source)
    <3> DEFINE p == config[kind][j][2]
    <3>1. p \in Registered /\ unif[p] \in 0 .. peCount - 1
          /\ MatrixIdx(RowOf(source), unif[p]) \in bits[kind]
      BY <1>1, <2>2, <2>6, IndexesApart
    <3> HIDE DEF p
    <3>2. CASE p \in LocalIds
      <4>1. unif[p] \in LocalHits(kind, source) /\ localPes[unif[p]] = p
        BY <2>1, <3>1, <3>2, IndexesApart DEF LocalHits
      <4>2. QED
        BY <2>3, <4>1 DEF p
    <3>3. CASE p \notin LocalIds
      <4>1. unif[p] - localCount \in 0 .. remoteCount - 1 /\ remotePes[unif[p] - localCount] = p
            /\ localCount + (unif[p] - localCount) = unif[p]
        BY <2>1, <3>1, <3>3, IndexesApart
      <4>2. unif[p] - localCount \in RemoteHits(kind, source)
        BY <3>1, <4>1 DEF RemoteHits
      <4>3. QED
        BY <2>3, <4>1, <4>2 DEF p
    <3>4. QED
      BY <3>2, <3>3
  <2>7. Recipients(kind, source) \subseteq Found
    BY <2>3, <2>4, <2>5
  <2>8. Found \subseteq Recipients(kind, source)
    BY <2>6
  <2>9. QED
    BY <2>7, <2>8
<1>4. QED
  BY <1>2, <1>3

------------------------------------------------------------------------------
\* The steps of the main thread.

LEMMA StepNames ==
  /\ EndOf["received"] = "received_end" /\ EndOf["processed"] = "processed_end"
  /\ BitOf["received"] = "received_bit" /\ BitOf["processed"] = "processed_bit"
  /\ RouteSteps("received") = {"received", "received_end", "received_bit"}
  /\ RouteSteps("processed") = {"processed", "processed_end", "processed_bit"}
  /\ Routing = {"received", "received_end", "received_bit",
                "processed", "processed_end", "processed_bit"}
<1>1. /\ EndOf["received"] = "received_end" /\ EndOf["processed"] = "processed_end"
      /\ BitOf["received"] = "received_bit" /\ BitOf["processed"] = "processed_bit"
  BY DEF EndOf, BitOf
<1>2. /\ RouteSteps("received") = {"received", "received_end", "received_bit"}
      /\ RouteSteps("processed") = {"processed", "processed_end", "processed_bit"}
  BY <1>1 DEF RouteSteps
<1>3. Routing = RouteSteps("received") \cup RouteSteps("processed")
  BY DEF Routing, Kinds
<1>4. QED
  BY <1>1, <1>2, <1>3

LEMMA EmptyTable ==
  ASSUME unif = <<>>
  PROVE  Registered = {} /\ LocalUsed = 0 /\ RemoteUsed = 0 /\ IsFiniteSet(Registered)
<1>1. Registered = {}
  BY DEF Registered
<1>2. Registered \cap LocalIds = {} /\ Registered \ LocalIds = {}
  BY <1>1
<1>3. LocalUsed = 0 /\ RemoteUsed = 0
  BY <1>2, FS_EmptySet, Zenon DEF LocalUsed, RemoteUsed
<1>4. QED
  BY <1>1, <1>3, FS_EmptySet

LEMMA InitKeeps ==
  ASSUME Init
  PROVE  IInv
<1>1. Registered = {} /\ LocalUsed = 0 /\ RemoteUsed = 0 /\ IsFiniteSet(Registered)
  BY EmptyTable DEF Init, RouterInit
<1>2. step = "idle" /\ step \notin Built \cup {"tables"}
  BY StepNames DEF Init, Built, Calm
<1>3. TypeInv
  <2>1. IsFiniteSet(loaded)
    BY FS_EmptySet, Zenon DEF Init
  <2>2. ShapeInv
    BY <1>1, <1>2, NodeAssumption DEF Init, RouterInit, ShapeInv, Steps, NodeAssumption
  <2>3. ConfigInv /\ RunningInv
    BY DEF Init, ConfigInv, RunningInv
  <2>4. QED
    BY <1>1, <2>1, <2>2, <2>3 DEF TypeInv
<1>4. SlotInv
  BY <1>1 DEF Init, RouterInit, SlotInv, TableInv
<1>5. CountInv /\ BitsInv /\ RouteInv /\ LifeInv
  BY <1>2, StepNames DEF Init, CountInv, BitsInv, RouteInv, LifeInv, Built, Kinds
<1>6. QED
  BY <1>3, <1>4, <1>5 DEF IInv

LEMMA LoadedStays ==
  ASSUME UNCHANGED loaded
  PROVE  /\ LocalPes' = LocalPes /\ RemotePes' = RemotePes
         /\ Cardinality(LocalPes)' = Cardinality(LocalPes)
         /\ Cardinality(RemotePes)' = Cardinality(RemotePes)
         /\ IsFiniteSet(loaded) => IsFiniteSet(loaded)'
<1>1. LocalPes' = LocalPes /\ RemotePes' = RemotePes
  BY DEF LocalPes, RemotePes
<1>2. QED
  BY <1>1, Zenon

\* A step that leaves the table and the configuration alone.
LEMMA TableStays ==
  ASSUME UNCHANGED routerVars
  PROVE  /\ Registered' = Registered /\ LocalUsed' = LocalUsed /\ RemoteUsed' = RemoteUsed
         /\ peCount' = peCount
         /\ SlotInv => SlotInv'
         /\ IsFiniteSet(Registered) => IsFiniteSet(Registered)'
         /\ UNCHANGED <<localCount, remoteCount, unif, localPes, remotePes, bits>>
<1>1. UNCHANGED <<localCount, remoteCount, unif, localPes, remotePes, bits>>
  BY DEF routerVars
<1>2. /\ Registered' = Registered /\ LocalUsed' = LocalUsed /\ RemoteUsed' = RemoteUsed
      /\ peCount' = peCount
  BY <1>1 DEF Registered, LocalUsed, RemoteUsed, peCount
<1>3. IsFiniteSet(Registered) => IsFiniteSet(Registered)'
  BY <1>2, Zenon
<1>4. QED
  BY <1>1, <1>2, <1>3 DEF SlotInv, TableInv

\* A step at which the table may only get more registered PEs.
LEMMA TableKept ==
  ASSUME IInv, step \in Calm, UNCHANGED <<config, loaded>>, SlotInv',
         Registered \subseteq Registered', Registered' \subseteq loaded,
         \A q \in Registered : unif'[q] = unif[q],
         UNCHANGED <<localCount, remoteCount, bits>>,
         \/ step' \in Calm /\ \A kind \in Kinds : Done(kind)' = Done(kind)
         \/ step' = "failed"
  PROVE  CountInv' /\ BitsInv'
<1>1. step' # "tables" /\ step \in Built
  BY StepNames DEF Calm, Built
<1>2. CountInv'
  BY <1>1 DEF IInv, CountInv, LocalPes, RemotePes
<1>3. ASSUME NEW kind \in Kinds, NEW n, n = Done(kind)
      PROVE  SetUpTo(kind, n)' /\ n \in 0 .. Len(config[kind])
  <2>1. SetUpTo(kind, n)
    BY <1>3 DEF IInv, BitsInv
  <2>2. SetUpTo(kind, n)'
    BY <2>1, SetKeeps
  <2>3. QED
    BY <2>1, <2>2 DEF SetUpTo
<1>4. CASE step' = "failed"
  <2>1. step' \notin Calm
    BY <1>4, StepNames DEF Calm
  <2>2. QED
    BY <1>2, <1>3, <2>1 DEF BitsInv
<1>5. CASE step' \in Calm /\ \A kind \in Kinds : Done(kind)' = Done(kind)
  <2>1. step' # "failed"
    BY <1>5, StepNames DEF Calm
  <2>2. ASSUME NEW kind \in Kinds
        PROVE  SetUpTo(kind, Done(kind))'
    <3>1. PICK n : n = Done(kind)
      OBVIOUS
    <3>2. SetUpTo(kind, n)' /\ n = Done(kind)'
      BY <1>3, <1>5, <3>1
    <3>3. QED
      BY <3>2 DEF SetUpTo
  <2>3. QED
    BY <1>2, <2>1, <2>2 DEF BitsInv
<1>6. QED
  BY <1>4, <1>5

\* A step to a place where the table belongs to no configuration.
LEMMA Away ==
  ASSUME step' \in {"idle", "load", "unloaded", "exited"}
  PROVE  CountInv' /\ BitsInv' /\ RouteInv'
<1>1. step' \notin Built \cup {"tables"}
  BY StepNames DEF Built, Calm
<1>2. \A kind \in Kinds : step' \notin {EndOf[kind], BitOf[kind]}
  BY StepNames DEF Kinds
<1>3. QED
  BY <1>1, <1>2 DEF CountInv, BitsInv, RouteInv, Built

LEMMA DestroyKeeps ==
  ASSUME IInv, Reload \/ Shutdown \/ Exit
  PROVE  IInv'
<1>1. /\ Destroy /\ UNCHANGED routerVars
      /\ step \in {"idle", "ready", "unloaded", "failed"}
      /\ step' \in {"idle", "load", "exited"} /\ k' = 1
      /\ reloads' \in 0 .. MaxReloads
  BY NodeAssumption DEF Reload, Shutdown, Exit, Goto, IInv, TypeInv, ShapeInv, NodeAssumption
<1>2. /\ loaded' = {} /\ running' = FALSE /\ started' \subseteq started
      /\ step # "failed" /\ step # "unloaded" => started' = {}
  BY <1>1 DEF Destroy, StopPes, IInv, LifeInv
<1>3. step \in {"unloaded", "failed"} => step' = "exited"
  BY DEF Reload, Shutdown, Exit, Goto
<1>4. TypeInv'
  <2>1. IsFiniteSet(loaded')
    BY <1>2, FS_EmptySet, Zenon
  <2>2. step' \in Steps
    BY <1>1 DEF Steps
  <2>3. Registered' = Registered /\ UNCHANGED <<localCount, remoteCount, bits>>
    BY <1>1, TableStays
  <2>4. ShapeInv'
    BY <1>1, <1>2, <2>2, <2>3 DEF IInv, TypeInv, ShapeInv
  <2>5. IsFiniteSet(Registered)'
    BY <1>1, TableStays DEF IInv, TypeInv
  <2>6. ConfigInv' /\ RunningInv'
    BY <1>2 DEF Reload, Shutdown, Exit, IInv, TypeInv, ConfigInv, RunningInv
  <2>7. QED
    BY <2>1, <2>4, <2>5, <2>6 DEF TypeInv
<1>5. SlotInv'
  BY <1>1, TableStays DEF IInv
<1>6. CountInv' /\ BitsInv' /\ RouteInv'
  BY <1>1, Away
<1>7. LifeInv'
  BY <1>1, <1>2, <1>3, StepNames DEF LifeInv, LocalPes
<1>8. QED
  BY <1>4, <1>5, <1>6, <1>7 DEF IInv

LEMMA LoadKeeps ==
  ASSUME IInv, LoadFails \/ LoadPe
  PROVE  IInv'
<1>1. /\ UNCHANGED <<routerVars, config, started, running, reloads>>
      /\ step = "load" /\ step' \in {"load", "unloaded"} /\ k' \in Nat \ {0}
      /\ \/ loaded' = loaded
         \/ /\ k <= Len(config.pes) /\ loaded' = loaded \cup {config.pes[k]}
  BY DEF LoadFails, LoadPe, Goto, IInv, TypeInv, ShapeInv
<1>2. config.pes \in Seq(PeIds)
  <2>1. CASE config \in Configs
    BY <2>1, NodeAssumption DEF NodeAssumption
  <2>2. CASE config = NoConfig
    BY <2>2 DEF NoConfig
  <2>3. QED
    BY <2>1, <2>2 DEF IInv, TypeInv, ConfigInv
<1>3. loaded' \subseteq PeIds /\ loaded \subseteq loaded'
  BY <1>1, <1>2 DEF IInv, TypeInv, ShapeInv
<1>4. TypeInv'
  <2>1. step' \in Steps
    BY <1>1 DEF Steps
  <2>2. Registered' = Registered /\ UNCHANGED <<localCount, remoteCount, bits>>
    BY <1>1, TableStays
  <2>3. ShapeInv'
    BY <1>1, <1>3, <2>1, <2>2 DEF IInv, TypeInv, ShapeInv
  <2>4. IsFiniteSet(Registered)'
    BY <1>1, TableStays DEF IInv, TypeInv
  <2>5. IsFiniteSet(loaded)'
    <3>1. IsFiniteSet(loaded) /\ IsFiniteSet(loaded \cup {config.pes[k]})
      BY FS_AddElement DEF IInv, TypeInv
    <3>2. QED
      BY <1>1, <3>1, Zenon
  <2>6. ConfigInv' /\ RunningInv'
    BY <1>1 DEF IInv, TypeInv, ConfigInv, RunningInv
  <2>7. QED
    BY <2>3, <2>4, <2>5, <2>6 DEF TypeInv
<1>5. SlotInv'
  BY <1>1, TableStays DEF IInv
<1>6. CountInv' /\ BitsInv' /\ RouteInv'
  BY <1>1, Away
<1>7. LifeInv'
  BY <1>1, <1>3, StepNames DEF IInv, LifeInv, LocalPes
<1>8. QED
  BY <1>4, <1>5, <1>6, <1>7 DEF IInv

LEMMA StartRebuildKeeps ==
  ASSUME IInv, StartRebuild
  PROVE  IInv'
<1>1. /\ step = "load" /\ step' = "tables" /\ k' = 1
      /\ localCount' = Cardinality(LocalPes) /\ remoteCount' = Cardinality(RemotePes)
      /\ unif' = <<>> /\ bits' = [m \in Kinds |-> {}]
      /\ UNCHANGED <<config, loaded, started, running, reloads>>
  BY DEF StartRebuild, Goto, Counts, RebuildCounts
<1>2. Registered' = {} /\ IsFiniteSet(Registered')
  <2>1. Registered' = {}
    BY <1>1 DEF Registered
  <2>2. QED
    BY <2>1, FS_EmptySet, Zenon
<1>3. localCount' \in Nat /\ remoteCount' \in Nat
  <2>1. LocalPes \cup RemotePes = loaded /\ LocalPes \cap RemotePes = {}
    BY DEF LocalPes, RemotePes
  <2>2. QED
    BY <1>1, <2>1, Parts DEF IInv, TypeInv, ShapeInv
<1>4. TypeInv'
  <2>1. ShapeInv'
    BY <1>1, <1>2, <1>3 DEF IInv, TypeInv, ShapeInv, Steps
  <2>2. IsFiniteSet(loaded)'
    BY <1>1, LoadedStays DEF IInv, TypeInv
  <2>3. ConfigInv' /\ RunningInv'
    BY <1>1 DEF IInv, TypeInv, ConfigInv, RunningInv
  <2>4. QED
    BY <1>2, <2>1, <2>2, <2>3 DEF TypeInv
<1>5. LocalPes' = LocalPes /\ RemotePes' = RemotePes
  BY <1>1 DEF LocalPes, RemotePes
<1>6. CountInv'
  BY <1>1, <1>2, <1>5 DEF CountInv
<1>7. BitsInv' /\ RouteInv'
  BY <1>1, StepNames DEF BitsInv, RouteInv, Calm, Kinds
<1>8. LifeInv'
  BY <1>1, <1>5, StepNames DEF IInv, LifeInv
<1>9. QED
  BY <1>1, <1>4, <1>6, <1>7, <1>8 DEF IInv

LEMMA FinishRebuildKeeps ==
  ASSUME IInv, FinishRebuild
  PROVE  IInv'
<1>1. /\ step = "tables" /\ step' = "received" /\ k' = 1
      /\ localPes' = [i \in 0 .. localCount - 1 |-> Wild]
      /\ remotePes' = [i \in 0 .. remoteCount - 1 |-> Wild]
      /\ UNCHANGED <<localCount, remoteCount, unif, bits>>
      /\ UNCHANGED <<config, loaded, started, running, reloads>>
  BY DEF FinishRebuild, Goto, RebuildTables
<1>2. unif = <<>> /\ \A kind \in Kinds : bits[kind] = {}
  BY <1>1 DEF IInv, CountInv
<1>3. Registered' = {} /\ LocalUsed' = 0 /\ RemoteUsed' = 0 /\ IsFiniteSet(Registered)
      /\ Registered' = Registered
  <2>1. Registered' = Registered /\ LocalUsed' = LocalUsed /\ RemoteUsed' = RemoteUsed
    BY <1>1 DEF Registered, LocalUsed, RemoteUsed
  <2>2. QED
    BY <1>2, <2>1, EmptyTable
<1>4. TypeInv'
  <2>1. ShapeInv'
    BY <1>1, <1>3, StepNames DEF IInv, TypeInv, ShapeInv, Steps
  <2>2. IsFiniteSet(loaded)'
    BY <1>1, LoadedStays DEF IInv, TypeInv
  <2>3. IsFiniteSet(Registered)'
    BY <1>3, Zenon
  <2>4. ConfigInv' /\ RunningInv'
    BY <1>1 DEF IInv, TypeInv, ConfigInv, RunningInv
  <2>5. QED
    BY <2>1, <2>2, <2>3, <2>4 DEF TypeInv
<1>5. SlotInv'
  BY <1>1, <1>2, <1>3 DEF SlotInv, TableInv, IInv, TypeInv, ShapeInv
<1>6. CountInv'
  <2>1. step' # "tables"
    BY <1>1
  <2>2. QED
    BY <1>1, <1>3, <2>1, LoadedStays DEF IInv, CountInv
<1>7. BitsInv'
  <2>1. step' # "failed" /\ step' \in Calm
    BY <1>1, StepNames DEF Calm
  <2>2. ASSUME NEW kind \in Kinds  PROVE Done(kind)' = 0
    BY <1>1, StepNames DEF Done, Kinds
  <2>3. ASSUME NEW kind \in Kinds  PROVE SetUpTo(kind, Done(kind))'
    <3>1. Len(config[kind]) \in Nat
      BY ConfigType DEF IInv
    <3>2. QED
      BY <1>1, <1>2, <2>2, <3>1 DEF SetUpTo
  <2>4. QED
    BY <2>1, <2>3 DEF BitsInv
<1>8. RouteInv'
  BY <1>1, StepNames DEF RouteInv, Kinds
<1>9. LifeInv'
  BY <1>1, StepNames DEF IInv, LifeInv, LocalPes
<1>10. QED
  BY <1>4, <1>5, <1>6, <1>7, <1>8, <1>9 DEF IInv

\* A step of reload() after rebuild(), or of startup(), that registers at
\* most one PE more.
LEMMA CalmKeeps ==
  ASSUME IInv, step \in Calm, UNCHANGED <<config, loaded, reloads>>,
         step' \in Steps, k' \in Nat \ {0}, RunningInv', started' \subseteq PeIds,
         \/ UNCHANGED routerVars
         \/ \E p \in loaded : Enrol(p),
         \/ step' \in Calm /\ \A kind \in Kinds : Done(kind)' = Done(kind)
         \/ step' = "failed"
  PROVE  TypeInv' /\ SlotInv' /\ CountInv' /\ BitsInv'
<1>1. /\ Registered \subseteq Registered' /\ Registered' \subseteq loaded
      /\ \A q \in Registered : unif'[q] = unif[q]
      /\ UNCHANGED <<localCount, remoteCount, bits>>
      /\ SlotInv' /\ IsFiniteSet(Registered)'
  <2>1. /\ Registered \subseteq loaded /\ SlotInv /\ TypeInv /\ loaded \subseteq PeIds
        /\ IsFiniteSet(Registered)
    BY StepNames DEF IInv, CountInv, TypeInv, ShapeInv, Calm, Built
  <2>2. CASE UNCHANGED routerVars
    BY <2>1, <2>2, TableStays
  <2>3. CASE \E p \in loaded : Enrol(p)
    BY <2>1, <2>3, EnrolKeeps
  <2>4. QED
    BY <2>2, <2>3
<1>2. TypeInv'
  <2>1. ShapeInv'
    BY <1>1 DEF IInv, TypeInv, ShapeInv
  <2>2. IsFiniteSet(loaded)'
    BY LoadedStays DEF IInv, TypeInv
  <2>3. ConfigInv'
    BY DEF IInv, TypeInv, ConfigInv
  <2>4. QED
    BY <1>1, <2>1, <2>2, <2>3 DEF TypeInv
<1>3. CountInv' /\ BitsInv'
  BY <1>1, TableKept
<1>4. QED
  BY <1>1, <1>2, <1>3

\* No PE of the configuration is ever refused.
LEMMA NeverRefused ==
  ASSUME IInv, step \in Calm, NEW p \in loaded, NEW next, EnrolOrFail(p, next)
  PROVE  Enrol(p) /\ step' = next /\ k' = k
<1>1. ~Refuses(p)
  BY RoomForAll DEF IInv, Built
<1>2. QED
  BY <1>1 DEF EnrolOrFail

\* What the steps of a kind are called.
LEMMA KindSteps ==
  ASSUME NEW kind \in Kinds
  PROVE  /\ RouteSteps(kind) = {kind, EndOf[kind], BitOf[kind]}
         /\ RouteSteps(kind) \subseteq Calm /\ RouteSteps(kind) \subseteq Steps
         /\ \A other \in Kinds : /\ EndOf[kind] \notin {other, BitOf[other]}
                                 /\ BitOf[kind] \notin {other, EndOf[other]}
                                 /\ kind \notin {EndOf[other], BitOf[other]}
                                 /\ EndOf[kind] = EndOf[other] => kind = other
                                 /\ BitOf[kind] = BitOf[other] => kind = other
         /\ "failed" \notin Calm /\ "tables" \notin Calm
         /\ \A other \in Kinds : "failed" \notin {EndOf[other], BitOf[other]}
         /\ \A other \in Kinds : "nodes" \notin {EndOf[other], BitOf[other]}
<1>1. CASE kind = "received"
  BY <1>1, StepNames DEF Kinds, Calm, Steps, RouteSteps
<1>2. CASE kind = "processed"
  BY <1>2, StepNames DEF Kinds, Calm, Steps, RouteSteps
<1>3. QED
  BY <1>1, <1>2 DEF Kinds

\* Going on within a route leaves the number of routes that are set.
LEMMA SameDone ==
  ASSUME NEW kind \in Kinds, step \in RouteSteps(kind), step' \in RouteSteps(kind),
         k' = k, UNCHANGED config
  PROVE  \A other \in Kinds : Done(other)' = Done(other)
<1>1. CASE kind = "received"
  BY <1>1, StepNames DEF Done, Kinds
<1>2. CASE kind = "processed"
  BY <1>2, StepNames DEF Done, Kinds
<1>3. QED
  BY <1>1, <1>2 DEF Kinds

LEMMA FailKeeps ==
  ASSUME IInv, step \in Calm, step' = "failed", k' = k,
         UNCHANGED <<routerVars, config, loaded, started, running, reloads>>, running = FALSE
  PROVE  IInv'
<1>1. TypeInv' /\ SlotInv' /\ CountInv' /\ BitsInv'
  BY CalmKeeps DEF IInv, TypeInv, ShapeInv, RunningInv, Steps
<1>2. RouteInv'
  BY StepNames DEF RouteInv, Kinds
<1>3. LifeInv'
  BY StepNames DEF IInv, LifeInv, LocalPes, Calm
<1>4. QED
  BY <1>1, <1>2, <1>3 DEF IInv

\* While routes are set nothing runs and nothing is started.
LEMMA RoutingLife ==
  ASSUME IInv, step \in Routing \cup {"nodes"}, UNCHANGED <<loaded, started, running>>,
         step' \in Routing \cup {"nodes", "failed"}
  PROVE  LifeInv' /\ running = FALSE
<1>1. started = {} /\ step \notin {"ready", "exited", "idle", "starting"}
  BY StepNames DEF IInv, LifeInv
<1>2. running = FALSE
  BY <1>1 DEF IInv, LifeInv, TypeInv, RunningInv
<1>3. LifeInv'
  BY <1>1, <1>2, StepNames DEF LifeInv, LocalPes
<1>4. QED
  BY <1>2, <1>3

LEMMA RouteFailsKeeps ==
  ASSUME IInv, NEW kind \in Kinds, RouteFails(kind)
  PROVE  IInv'
<1>1. /\ step = kind /\ step' = "failed" /\ k' = k
      /\ UNCHANGED <<routerVars, config, loaded, started, running, reloads>>
  BY DEF RouteFails, MoreRoutes, Fail
<1>2. step \in Calm /\ step \in Routing
  BY <1>1, StepNames DEF Calm, Kinds
<1>3. running = FALSE
  BY <1>1, <1>2, RoutingLife
<1>4. QED
  BY <1>1, <1>2, <1>3, FailKeeps

LEMMA RouteSourceKeeps ==
  ASSUME IInv, NEW kind \in Kinds, RouteSource(kind)
  PROVE  IInv'
<1> DEFINE r == Route(kind)
<1>1. /\ step = kind /\ k <= Len(config[kind]) /\ ~BadRoute(r)
      /\ UNCHANGED <<config, loaded, started, running, reloads>>
  BY DEF RouteSource, MoreRoutes
<1>2. kind \in RouteSteps(kind) /\ EndOf[kind] \in RouteSteps(kind) /\ step \in Calm /\ step \in Routing
  BY <1>1, KindSteps DEF Routing
<1>3. /\ step' = EndOf[kind] /\ k' = k /\ Knows(r[1])'
      /\ UNCHANGED routerVars \/ \E p \in loaded : Enrol(p)
  <2>1. CASE r[1] = INIT_PE_ID
    <3>1. step' = EndOf[kind] /\ k' = k /\ UNCHANGED routerVars
      BY <2>1 DEF RouteSource
    <3>2. Knows(r[1])'
      BY <1>1, <2>1, <3>1 DEF Knows, Route
    <3>3. QED
      BY <3>1, <3>2
  <2>2. CASE r[1] # INIT_PE_ID
    <3>1. r[1] \in loaded
      BY <1>1, <2>2 DEF BadRoute
    <3>2. EnrolOrFail(r[1], EndOf[kind])
      BY <2>2 DEF RouteSource
    <3>3. Enrol(r[1]) /\ step' = EndOf[kind] /\ k' = k
      BY <1>2, <3>1, <3>2, NeverRefused
    <3>4. r[1] \in PeIds /\ TypeInv /\ SlotInv
      BY <1>2, <3>1, KindSteps DEF IInv, TypeInv, ShapeInv
    <3>5. r[1] \in Registered'
      BY <3>3, <3>4, EnrolKeeps
    <3>6. Knows(r[1])'
      BY <1>1, <3>3, <3>5 DEF Knows, Route
    <3>7. QED
      BY <3>1, <3>3, <3>6
  <2>3. QED
    BY <2>1, <2>2
<1>4. TypeInv' /\ SlotInv' /\ CountInv' /\ BitsInv'
  <2>1. \A other \in Kinds : Done(other)' = Done(other)
    BY <1>1, <1>2, <1>3, SameDone
  <2>2. step' \in Calm /\ step' \in Steps
    BY <1>2, <1>3, KindSteps
  <2>3. RunningInv' /\ started' \subseteq PeIds /\ k' \in Nat \ {0}
    BY <1>1, <1>3 DEF IInv, TypeInv, ShapeInv, RunningInv
  <2>4. QED
    BY <1>1, <1>2, <1>3, <2>1, <2>2, <2>3, CalmKeeps
<1>5. RouteInv'
  <2>1. k' \in 1 .. Len(config'[kind]) /\ ~BadRoute(r)'
    BY <1>1, <1>3, ConfigType DEF IInv, TypeInv, ShapeInv, BadRoute, Route
  <2>2. QED
    BY <1>3, <2>1, KindSteps DEF RouteInv
<1>6. LifeInv'
  BY <1>1, <1>2, <1>3, RoutingLife DEF Routing
<1>7. QED
  BY <1>4, <1>5, <1>6 DEF IInv

LEMMA RouteEndKeeps ==
  ASSUME IInv, NEW kind \in Kinds, RouteEnd(kind)
  PROVE  IInv'
<1> DEFINE r == Route(kind)
<1>1. /\ step = EndOf[kind] /\ EnrolOrFail(r[2], BitOf[kind])
      /\ UNCHANGED <<config, loaded, started, running, reloads>>
  BY DEF RouteEnd
<1>2. /\ EndOf[kind] \in RouteSteps(kind) /\ BitOf[kind] \in RouteSteps(kind)
      /\ step \in Calm /\ step \in Routing
  BY <1>1, KindSteps DEF Routing
<1>3. k \in 1 .. Len(config[kind]) /\ ~BadRoute(r) /\ Knows(r[1])
  BY <1>1 DEF IInv, RouteInv
<1>4. r[2] \in loaded
  BY <1>3 DEF BadRoute
<1>5. Enrol(r[2]) /\ step' = BitOf[kind] /\ k' = k
  BY <1>1, <1>2, <1>4, NeverRefused
<1>6. Registered' = Registered \cup {r[2]}
  <2>1. r[2] \in PeIds /\ TypeInv /\ SlotInv
    BY <1>2, <1>4, KindSteps DEF IInv, TypeInv, ShapeInv
  <2>2. QED
    BY <1>5, <2>1, EnrolKeeps
<1>7. TypeInv' /\ SlotInv' /\ CountInv' /\ BitsInv'
  <2>1. \A other \in Kinds : Done(other)' = Done(other)
    BY <1>1, <1>2, <1>5, SameDone
  <2>2. step' \in Calm /\ step' \in Steps
    BY <1>2, <1>5, KindSteps
  <2>3. RunningInv' /\ started' \subseteq PeIds /\ k' \in Nat \ {0}
    BY <1>1, <1>5 DEF IInv, TypeInv, ShapeInv, RunningInv
  <2>4. QED
    BY <1>1, <1>2, <1>4, <1>5, <2>1, <2>2, <2>3, CalmKeeps
<1>8. RouteInv'
  <2>1. k' \in 1 .. Len(config'[kind]) /\ ~BadRoute(r)' /\ Knows(r[1])' /\ r[2]' \in Registered'
    BY <1>1, <1>3, <1>5, <1>6 DEF BadRoute, Route, Knows
  <2>2. QED
    BY <1>5, <2>1, KindSteps DEF RouteInv
<1>9. LifeInv'
  BY <1>1, <1>2, <1>5, RoutingLife DEF Routing
<1>10. QED
  BY <1>7, <1>8, <1>9 DEF IInv

LEMMA RouteBitKeeps ==
  ASSUME IInv, NEW kind \in Kinds, RouteBit(kind)
  PROVE  IInv'
<1> DEFINE r == Route(kind)
<1>1. /\ step = BitOf[kind] /\ step' = kind /\ k' = k + 1 /\ SetBit(kind, r[1], r[2])
      /\ UNCHANGED <<config, loaded, started, running, reloads>>
  BY DEF RouteBit, Goto
<1>2. /\ BitOf[kind] \in RouteSteps(kind) /\ kind \in RouteSteps(kind)
      /\ step \in Calm /\ step \in Routing /\ step' \in Calm /\ step' \in Routing
      /\ step' \in Steps
  BY <1>1, KindSteps DEF Routing
<1>3. k \in 1 .. Len(config[kind]) /\ Known(r) /\ k - 1 \in Nat /\ Len(config[kind]) \in Nat
  BY <1>1, ConfigType DEF IInv, RouteInv, Known
<1>4. TypeInv /\ SlotInv
  BY <1>2, KindSteps DEF IInv
<1>5. \A other \in Kinds : SetUpTo(other, Done(other))
  BY <1>2 DEF IInv, BitsInv
<1>6. Done(kind) = k - 1
  BY <1>1, <1>2 DEF Done
<1>7. PICK n : n = k - 1
  OBVIOUS
<1>8. /\ SetUpTo(kind, n + 1)' /\ SlotInv' /\ DOMAIN bits' = Kinds
      /\ \A other \in Kinds \ {kind} : bits'[other] = bits[other]
  <2>1. n \in Nat /\ n < Len(config[kind]) /\ SetUpTo(kind, n) /\ n + 1 = k
    BY <1>3, <1>5, <1>6, <1>7
  <2>2. Known(config[kind][n + 1]) /\ SetBit(kind, config[kind][n + 1][1], config[kind][n + 1][2])
    BY <1>1, <1>3, <2>1 DEF Route
  <2>3. QED
    BY <1>1, <1>4, <2>1, <2>2, SetBitKeeps
<1>9. UNCHANGED <<localCount, remoteCount, unif, localPes, remotePes>> /\ Registered' = Registered
  BY <1>1 DEF SetBit, Registered
<1>10. TypeInv'
  <2>1. ShapeInv'
    BY <1>1, <1>2, <1>3, <1>8, <1>9 DEF IInv, TypeInv, ShapeInv
  <2>2. IsFiniteSet(loaded)' /\ IsFiniteSet(Registered)'
    BY <1>1, <1>9, LoadedStays, Zenon DEF IInv, TypeInv
  <2>3. ConfigInv' /\ RunningInv'
    BY <1>1 DEF IInv, TypeInv, ConfigInv, RunningInv
  <2>4. QED
    BY <2>1, <2>2, <2>3 DEF TypeInv
<1>11. CountInv'
  <2>1. step \in Built /\ step' # "tables"
    BY <1>2, KindSteps DEF Built
  <2>2. QED
    BY <1>1, <1>9, <2>1, LoadedStays DEF IInv, CountInv
<1>12. BitsInv'
  <2>1. ASSUME NEW other \in Kinds \ {kind}  PROVE SetUpTo(other, Done(other))'
    <3>1. Done(other)' = Done(other)
      <4>1. CASE kind = "received"
        BY <1>1, <2>1, <4>1, StepNames DEF Done, Kinds
      <4>2. CASE kind = "processed"
        BY <1>1, <2>1, <4>2, StepNames DEF Done, Kinds
      <4>3. QED
        BY <4>1, <4>2 DEF Kinds
    <3>2. bits'[other] = bits[other] /\ SetUpTo(other, Done(other))
      BY <1>5, <1>8
    <3>3. QED
      BY <1>1, <1>9, <3>1, <3>2
      DEF SetUpTo, Known, Knows, Address, MatrixIdx, RowOf, peCount
  <2>2. SetUpTo(kind, Done(kind))'
    <3>1. Done(kind)' = n + 1
      BY <1>1, <1>2, <1>3, <1>7 DEF Done
    <3>2. QED
      BY <1>8, <3>1 DEF SetUpTo
  <2>3. step' # "failed"
    BY <1>2, KindSteps
  <2>4. QED
    BY <2>1, <2>2, <2>3 DEF BitsInv
<1>13. RouteInv'
  BY <1>1, KindSteps DEF RouteInv
<1>14. LifeInv'
  BY <1>1, <1>2, RoutingLife
<1>15. QED
  BY <1>8, <1>10, <1>11, <1>12, <1>13, <1>14 DEF IInv

LEMMA RoutesDoneKeeps ==
  ASSUME IInv, NEW kind \in Kinds, RoutesDone(kind)
  PROVE  IInv'
<1>1. /\ step = kind /\ k > Len(config[kind]) /\ k' = 1
      /\ step' = (IF kind = "received" THEN "processed" ELSE "nodes")
      /\ UNCHANGED <<routerVars, config, loaded, started, running, reloads>>
  BY DEF RoutesDone, Goto
<1>2. /\ step \in Calm /\ step \in Routing /\ step' \in Calm /\ step' \in Steps
      /\ step' \in Routing \cup {"nodes"}
  BY <1>1, StepNames DEF Calm, Kinds, Steps
<1>3. k - 1 = Len(config[kind])
  <2>1. SetUpTo(kind, Done(kind)) /\ Done(kind) = k - 1
    BY <1>1, <1>2, KindSteps DEF IInv, BitsInv, Done
  <2>2. QED
    BY <1>1, <2>1, ConfigType DEF SetUpTo, IInv, TypeInv, ShapeInv
<1>4. \A other \in Kinds : Done(other)' = Done(other)
  <2>1. CASE kind = "received"
    BY <1>1, <1>3, <2>1, StepNames DEF Done, Kinds
  <2>2. CASE kind = "processed"
    BY <1>1, <1>3, <2>2, StepNames DEF Done, Kinds
  <2>3. QED
    BY <2>1, <2>2 DEF Kinds
<1>5. TypeInv' /\ SlotInv' /\ CountInv' /\ BitsInv'
  <2>1. RunningInv' /\ started' \subseteq PeIds /\ k' \in Nat \ {0}
    BY <1>1 DEF IInv, TypeInv, ShapeInv, RunningInv
  <2>2. QED
    BY <1>1, <1>2, <1>4, <2>1, CalmKeeps
<1>6. RouteInv'
  BY <1>1, StepNames DEF RouteInv, Kinds
<1>7. LifeInv'
  BY <1>1, <1>2, RoutingLife
<1>8. QED
  BY <1>5, <1>6, <1>7 DEF IInv

\* Behind the routes all of them stay set.
LEMMA LateDone ==
  ASSUME step \in {"nodes", "ready", "starting"}, step' \in {"nodes", "ready", "starting"},
         UNCHANGED config
  PROVE  /\ step \in Calm /\ step' \in Calm /\ step' \in Steps
         /\ \A kind \in Kinds : Done(kind)' = Done(kind)
         /\ RouteInv'
<1>1. step \in Calm /\ step' \in Calm /\ step' \in Steps
  BY DEF Calm, Steps
<1>2. \A kind \in Kinds : Done(kind)' = Done(kind)
  BY StepNames DEF Done, Kinds
<1>3. RouteInv'
  BY StepNames DEF RouteInv, Kinds
<1>4. QED
  BY <1>1, <1>2, <1>3

LEMMA SetNodeKeeps ==
  ASSUME IInv, SetNode
  PROVE  IInv'
<1>1. step = "nodes" /\ UNCHANGED <<config, loaded, started, running, reloads>>
  BY DEF SetNode
<1>2. PICK p \in loaded : EnrolOrFail(p, "nodes")
  BY DEF SetNode
<1>3. step \in Calm
  BY <1>1 DEF Calm
<1>4. Enrol(p) /\ step' = "nodes" /\ k' = k
  BY <1>2, <1>3, NeverRefused
<1>5. step' \in Steps /\ (\A kind \in Kinds : Done(kind)' = Done(kind)) /\ RouteInv'
  BY <1>1, <1>4, LateDone
<1>6. TypeInv' /\ SlotInv' /\ CountInv' /\ BitsInv'
  <2>1. RunningInv' /\ started' \subseteq PeIds /\ k' \in Nat \ {0} /\ step' \in Calm
    BY <1>1, <1>3, <1>4 DEF IInv, TypeInv, ShapeInv, RunningInv
  <2>2. QED
    BY <1>1, <1>3, <1>4, <1>5, <2>1, CalmKeeps
<1>7. LifeInv'
  BY <1>1, <1>4, RoutingLife
<1>8. QED
  BY <1>5, <1>6, <1>7 DEF IInv

LEMMA PeReloadFailsKeeps ==
  ASSUME IInv, PeReloadFails
  PROVE  IInv'
<1>1. /\ step = "nodes" /\ step' = "failed" /\ k' = k
      /\ UNCHANGED <<routerVars, config, loaded, started, running, reloads>>
  BY DEF PeReloadFails, Fail
<1>2. step \in Calm /\ running = FALSE
  BY <1>1, RoutingLife DEF Calm
<1>3. QED
  BY <1>1, <1>2, FailKeeps

LEMMA ReloadDoneKeeps ==
  ASSUME IInv, ReloadDone
  PROVE  IInv'
<1>1. /\ step = "nodes" /\ step' = "ready" /\ k' = 1 /\ loaded \subseteq Registered
      /\ UNCHANGED <<routerVars, config, loaded, started, running, reloads>>
  BY DEF ReloadDone, Goto
<1>2. /\ step \in Calm /\ step' \in Calm /\ step' \in Steps
      /\ (\A kind \in Kinds : Done(kind)' = Done(kind)) /\ RouteInv'
  BY <1>1, LateDone
<1>3. TypeInv' /\ SlotInv' /\ CountInv' /\ BitsInv'
  <2>1. RunningInv' /\ started' \subseteq PeIds /\ k' \in Nat \ {0}
    BY <1>1 DEF IInv, TypeInv, ShapeInv, RunningInv
  <2>2. QED
    BY <1>1, <1>2, <2>1, CalmKeeps
<1>4. LifeInv'
  <2>1. started = {} /\ running = FALSE
    BY <1>1 DEF IInv, LifeInv, TypeInv, RunningInv
  <2>2. Registered' = Registered
    BY <1>1, TableStays
  <2>3. QED
    BY <1>1, <2>1, <2>2, StepNames DEF LifeInv, LocalPes
<1>5. QED
  BY <1>2, <1>3, <1>4 DEF IInv

\* startup().
LEMMA StartupKeeps ==
  ASSUME IInv, Startup \/ StartPe \/ Running
  PROVE  IInv'
<1>1. /\ step \in {"ready", "starting"} /\ step' \in {"ready", "starting"}
      /\ UNCHANGED <<routerVars, config, loaded, reloads>>
      /\ k' = k \/ k' = 1
  BY DEF Startup, StartPe, Running, Goto
<1>2. /\ step \in Calm /\ step' \in Calm /\ step' \in Steps
      /\ (\A kind \in Kinds : Done(kind)' = Done(kind)) /\ RouteInv'
  BY <1>1, LateDone
<1>3. started \subseteq LocalPes /\ loaded \subseteq Registered /\ LocalPes \subseteq PeIds
  BY <1>1 DEF IInv, LifeInv, TypeInv, ShapeInv, LocalPes
<1>4. /\ started' \subseteq LocalPes
      /\ step = "ready" => step' = "starting" /\ running = FALSE /\ running' = running
      /\ step' = "ready" => running' = TRUE /\ started' = LocalPes
  BY <1>3 DEF Startup, StartPe, Running, Goto, IInv, TypeInv, RunningInv
<1>5. step = "starting" => running = FALSE
  BY DEF IInv, LifeInv, TypeInv, RunningInv
<1>6. step' = "starting" => running' = FALSE
  BY <1>1, <1>4, <1>5 DEF Startup, StartPe, Running, Goto
<1>7. TypeInv' /\ SlotInv' /\ CountInv' /\ BitsInv'
  <2>1. running' = TRUE \/ running' = FALSE
    BY <1>1, <1>4, <1>6
  <2>2. RunningInv'
    BY <2>1 DEF RunningInv
  <2>3. started' \subseteq PeIds /\ k' \in Nat \ {0}
    BY <1>1, <1>3, <1>4 DEF IInv, TypeInv, ShapeInv
  <2>4. QED
    BY <1>1, <1>2, <2>2, <2>3, CalmKeeps
<1>8. LifeInv'
  <2>1. Registered' = Registered /\ LocalPes' = LocalPes
    BY <1>1, TableStays, LoadedStays
  <2>2. QED
    BY <1>1, <1>3, <1>4, <1>6, <2>1, StepNames DEF LifeInv
<1>9. QED
  BY <1>2, <1>7, <1>8 DEF IInv

LEMMA StartFailsKeeps ==
  ASSUME IInv, StartFails
  PROVE  IInv'
<1>1. /\ step = "starting" /\ step' = "failed" /\ k' = k
      /\ UNCHANGED <<routerVars, config, loaded, started, running, reloads>>
  BY DEF StartFails, Fail
<1>2. step \in Calm /\ running = FALSE
  BY <1>1 DEF Calm, IInv, LifeInv, TypeInv, RunningInv
<1>3. QED
  BY <1>1, <1>2, FailKeeps

LEMMA StutterKeeps ==
  ASSUME IInv, UNCHANGED vars
  PROVE  IInv'
<1>1. UNCHANGED routerVars /\ UNCHANGED <<config, step, k, loaded, started, running, reloads>>
  BY DEF vars, pnVars
<1>2. /\ Registered' = Registered /\ LocalPes' = LocalPes /\ (SlotInv => SlotInv')
      /\ UNCHANGED <<localCount, remoteCount, unif, bits>>
  BY <1>1, TableStays, LoadedStays
<1>3. TypeInv'
  <2>1. ShapeInv'
    BY <1>1, <1>2 DEF IInv, TypeInv, ShapeInv
  <2>2. IsFiniteSet(loaded)' /\ IsFiniteSet(Registered)'
    BY <1>1, <1>2, LoadedStays, Zenon DEF IInv, TypeInv
  <2>3. ConfigInv' /\ RunningInv'
    BY <1>1 DEF IInv, TypeInv, ConfigInv, RunningInv
  <2>4. QED
    BY <2>1, <2>2, <2>3 DEF TypeInv
<1>4. CountInv'
  BY <1>1, <1>2, LoadedStays DEF IInv, CountInv
<1>5. BitsInv'
  BY <1>1, <1>2
  DEF IInv, BitsInv, SetUpTo, Done, Known, Knows, Address, MatrixIdx, RowOf, peCount
<1>6. RouteInv' /\ LifeInv'
  BY <1>1, <1>2 DEF IInv, RouteInv, BadRoute, Route, Knows, LifeInv
<1>7. QED
  BY <1>1, <1>2, <1>3, <1>4, <1>5, <1>6 DEF IInv

LEMMA IInvNext == IInv /\ [Next]_vars => IInv'
<1> SUFFICES ASSUME IInv, [Next]_vars  PROVE IInv'
  OBVIOUS
<1>1. ASSUME NEW kind \in Kinds,
             RouteFails(kind) \/ RouteSource(kind) \/ RouteEnd(kind) \/ RouteBit(kind) \/ RoutesDone(kind)
      PROVE  IInv'
  BY <1>1, RouteFailsKeeps, RouteSourceKeeps, RouteEndKeeps, RouteBitKeeps, RoutesDoneKeeps
<1>2. CASE Reload \/ Shutdown \/ Exit \/ LoadFails \/ LoadPe \/ StartRebuild \/ FinishRebuild
  BY <1>2, DestroyKeeps, LoadKeeps, StartRebuildKeeps, FinishRebuildKeeps
<1>3. CASE SetNode \/ PeReloadFails \/ ReloadDone \/ Startup \/ StartPe \/ StartFails \/ Running
  BY <1>3, SetNodeKeeps, PeReloadFailsKeeps, ReloadDoneKeeps, StartupKeeps, StartFailsKeeps
<1>4. CASE UNCHANGED vars
  BY <1>4, StutterKeeps
<1>5. QED
  BY <1>1, <1>2, <1>3, <1>4 DEF Next

------------------------------------------------------------------------------
\* The inductive invariant: where the main thread stands says which routes
\* are in the table and which PEs are registered, loaded and started.
THEOREM NodeIInvHolds == Spec => []IInv
<1>1. Init => IInv
  BY InitKeeps
<1>2. QED
  BY <1>1, IInvNext, PTL DEF Spec

\* At every step of reload() but the one in which rebuild() has its counts and
\* not yet its arrays, indices, arrays and map agree (router.cpp).
THEOREM NodeInvHolds == Spec => []NodeInv
<1>1. IInv => NodeInv
  <2> SUFFICES ASSUME IInv  PROVE NodeInv
    OBVIOUS
  <2>1. TypeOK
    <3>1. config \in Configs \cup {NoConfig}
      BY Zenon DEF IInv, TypeInv, ConfigInv
    <3>2. running \in BOOLEAN
      BY Zenon DEF IInv, TypeInv, RunningInv
    <3>3. ShapeInv
      BY DEF IInv, TypeInv
    <3>4. QED
      BY <3>1, <3>2, <3>3, Zenon DEF ShapeInv, TypeOK
  <2>2. step # "tables" => TableInv
    BY DEF IInv, SlotInv
  <2>3. QED
    BY <2>1, <2>2 DEF NodeInv, IInv, CountInv, Built, Calm
<1>2. QED
  BY <1>1, NodeIInvHolds, PTL

\* A lookup in the middle of reload() reaches exactly the PEs of the routes
\* set so far, and no PE of the configuration is refused (router.cpp).
THEOREM LookupInvHolds == Spec => []LookupInv
<1>1. IInv => LookupInv
  <2> SUFFICES ASSUME IInv  PROVE LookupInv
    OBVIOUS
  <2>1. ASSUME step \in Built, NEW p \in loaded  PROVE ~Refuses(p)
    BY <2>1, RoomForAll DEF IInv
  <2>2. ASSUME NEW kind \in Kinds, NEW source, step \in Calm
        PROVE  Recipients(kind, source) = {r[2] : r \in {q \in RoutesSet(kind) : q[1] = source}}
    <3>1. SetUpTo(kind, Done(kind)) /\ TypeInv /\ SlotInv
      BY <2>2, KindSteps DEF IInv, BitsInv
    <3>2. Recipients(kind, source)
            = {config[kind][i][2] : i \in {j \in 1 .. Done(kind) : config[kind][j][1] = source}}
      BY <3>1, LookupExact
    <3>3. RoutesSet(kind) = {config[kind][i] : i \in 1 .. Done(kind)}
      BY DEF RoutesSet, Done
    <3>4. QED
      BY <3>2, <3>3
  <2>3. ASSUME NEW kind \in Kinds, NEW source, step = "failed", NEW p \in Recipients(kind, source)
        PROVE  \E i \in 1 .. Len(config[kind]) : config[kind][i] = <<source, p>>
    <3>1. PICK n \in 0 .. Len(config[kind]) : SetUpTo(kind, n)
      BY <2>3 DEF IInv, BitsInv
    <3>2. TypeInv /\ SlotInv
      BY <2>3 DEF IInv
    <3>3. p \in {config[kind][i][2] : i \in {j \in 1 .. n : config[kind][j][1] = source}}
      BY <2>3, <3>1, <3>2, LookupExact
    <3>4. PICK i \in 1 .. n : config[kind][i][1] = source /\ config[kind][i][2] = p
      BY <3>3
    <3>5. i \in 1 .. Len(config[kind]) /\ config[kind][i] = <<config[kind][i][1], config[kind][i][2]>>
      BY <3>1, <3>2, ConfigType
    <3>6. QED
      BY <3>4, <3>5
  <2>4. QED
    BY <2>1, <2>2, <2>3 DEF LookupInv, Built, Calm
<1>2. QED
  BY <1>1, NodeIInvHolds, PTL

\* No PE is deleted between its startup() and its shutdown(), and a node that
\* runs has every local PE started and every PE registered (pn.cpp).
THEOREM StartedInvHolds == Spec => []StartedInv
<1>1. IInv => StartedInv
  BY DEF IInv, LifeInv, StartedInv
<1>2. QED
  BY <1>1, NodeIInvHolds, PTL

------------------------------------------------------------------------------
\* Distribution: who owns an event.

\* What a lookup of the routing table returns is a list of its PEs.
LEMMA LookupsAreSeqs ==
  ASSUME NEW S, IsFiniteSet(S)
  PROVE  Lookups(S) \subseteq Seq(S)
<1>1. Cardinality(S) \in Nat
  BY FS_CardinalityType
<1>2. \A n \in 0 .. Cardinality(S) : [1 .. n -> S] \subseteq Seq(S)
  BY <1>1, IsASeq
<1>3. QED
  BY <1>2 DEF Lookups

\* What push() and the distribute operations start with.
LEMMA BeginOwns ==
  ASSUME OwnershipInv,
         NEW t \in Threads, Idle(t),
         NEW a \in Addresses, owner[a] \notin Threads,
         NEW rs \in Seq(RemotePEs), NEW ls \in Seq(LocalPEs),
         Begin(t, a, rs, ls)
  PROVE  OwnershipInv'
<1> USE DEF OwnershipInv, DistributionTypeOK, StillUses, Idle
<1>1. a # NoEvent
  BY DistributionAssumption
<1>2. DistributionTypeOK'
  BY DEF Begin
<1>3. \A u \in Threads : StillUses(u)' => owner'[evt'[u]] = u
  <2>1. ASSUME NEW u \in Threads, StillUses(u)', u # t  PROVE owner'[evt'[u]] = u
    <3>1. StillUses(u) /\ evt'[u] = evt[u]
      BY <2>1 DEF Begin
    <3>2. evt[u] # a
      BY <3>1
    <3>3. QED
      BY <3>1, <3>2 DEF Begin
  <2>2. owner'[evt'[t]] = t
    BY DEF Begin
  <2>3. QED
    BY <2>1, <2>2
<1>4. \A u \in Threads, b \in Addresses :
        owner'[b] = u => StillUses(u)' /\ evt'[u] = b
  <2>1. StillUses(t)' /\ evt'[t] = a /\ owner'[a] = t
    BY <1>1 DEF Begin
  <2>2. ASSUME NEW u \in Threads, NEW b \in Addresses, owner'[b] = u, b # a
        PROVE  StillUses(u)' /\ evt'[u] = b
    <3>1. owner[b] = u /\ u # t
      BY <2>2 DEF Begin
    <3>2. QED
      BY <3>1 DEF Begin
  <2>3. QED
    BY <2>1, <2>2
<1>5. \A u \in Threads :
        /\ Idle(u)' => remote'[u] = <<>> /\ local'[u] = <<>>
        /\ local'[u] # <<>> => anyLocal'[u]
        /\ remote'[u] # <<>> /\ local'[u] = <<>> => ~anyLocal'[u]
  BY <1>1 DEF Begin
<1>6. QED
  BY <1>2, <1>3, <1>4, <1>5

\* Nobody owns anything at first.
LEMMA InitOwnership == DistributionInit => OwnershipInv
<1> SUFFICES ASSUME DistributionInit PROVE OwnershipInv
  OBVIOUS
<1>1. DistributionTypeOK
  BY DEF DistributionInit, DistributionTypeOK
<1>2. QED
  BY <1>1, DistributionAssumption DEF DistributionInit, OwnershipInv, StillUses, Idle

\* Every step of distribution hands each event to one owner.
LEMMA NextOwnership == OwnershipInv /\ [DistributionNext]_distributionVars => OwnershipInv'
<1> SUFFICES ASSUME OwnershipInv, [DistributionNext]_distributionVars PROVE OwnershipInv'
  OBVIOUS
<1> USE DEF OwnershipInv, DistributionTypeOK, StillUses, Idle
<1>1. ASSUME NEW t \in Network, Push(t) PROVE OwnershipInv'
  <2>1. PICK a \in Addresses, rp \in Lookups(RemotePEs), rr \in Lookups(RemotePEs),
             lp \in Lookups(LocalPEs), lr \in Lookups(LocalPEs) :
          Unused(a) /\ Begin(t, a, rp \o rr, lp \o lr)
    BY <1>1 DEF Push
  <2>2. rp \o rr \in Seq(RemotePEs) /\ lp \o lr \in Seq(LocalPEs)
    BY LookupsAreSeqs, DistributionAssumption, ConcatProperties
  <2>3. t \in Threads /\ Idle(t) /\ owner[a] \notin Threads
    BY <1>1, <2>1, DistributionAssumption DEF Push, Unused, Threads
  <2>4. QED
    BY <2>1, <2>2, <2>3, BeginOwns
<1>2. ASSUME NEW t \in Workers, Distribute(t) PROVE OwnershipInv'
  <2>1. PICK a \in Addresses, rs \in Lookups(RemotePEs), ls \in Lookups(LocalPEs) :
          owner[a] \in LocalPEs /\ Begin(t, a, rs, ls)
    BY <1>2 DEF Distribute
  <2>2. rs \in Seq(RemotePEs) /\ ls \in Seq(LocalPEs)
    BY LookupsAreSeqs, DistributionAssumption
  <2>3. t \in Threads /\ Idle(t) /\ owner[a] \notin Threads
    BY <1>2, <2>1, DistributionAssumption DEF Distribute, Threads
  <2>4. QED
    BY <2>1, <2>2, <2>3, BeginOwns
<1>3. ASSUME NEW t \in Threads, Dispatch(t) PROVE OwnershipInv'
  <2>1. Tail(remote[t]) \in Seq(RemotePEs)
    BY <1>3, HeadTailProperties DEF Dispatch
  <2>2. DistributionTypeOK'
    BY <1>3, <2>1 DEF Dispatch
  <2>3. \A u \in Threads : StillUses(u)' <=> StillUses(u)
    BY <1>3 DEF Dispatch
  <2>4. QED
    BY <1>3, <2>2, <2>3 DEF Dispatch
<1>4. ASSUME NEW t \in Threads, Give(t) PROVE OwnershipInv'
  <2>1. PICK a \in Addresses :
          /\ IF IsLast(t) THEN a = evt[t] ELSE Unused(a)
          /\ owner' = [owner EXCEPT ![a] = Head(local[t])]
    BY <1>4 DEF Give
  <2>2. /\ Head(local[t]) \in LocalPEs /\ Tail(local[t]) \in Seq(LocalPEs)
        /\ Len(Tail(local[t])) = Len(local[t]) - 1 /\ Len(local[t]) \in Nat
    BY <1>4, HeadTailProperties, LenProperties DEF Give
  <2>3. Head(local[t]) \notin Threads
    BY <2>2, DistributionAssumption
  <2>4. DistributionTypeOK'
    BY <1>4, <2>1, <2>2 DEF Give
  <2>5. ~Idle(t) /\ anyLocal[t] /\ owner[evt[t]] = t /\ remote[t] = <<>>
    BY <1>4 DEF Give
  <2>6. IsLast(t) <=> Tail(local[t]) = <<>>
    <3>1. Tail(local[t]) = <<>> <=> Len(Tail(local[t])) = 0
      BY <2>2, EmptySeq
    <3>2. QED
      BY <2>2, <3>1 DEF IsLast
  <2>7. StillUses(t)' <=> ~IsLast(t)
    BY <1>4, <2>5, <2>6 DEF Give
  <2>8. owner[a] \notin Threads \/ (owner[a] = t /\ IsLast(t))
    BY <2>1, <2>5, DistributionAssumption DEF Unused
  <2>9. \A u \in Threads : u # t => (StillUses(u)' <=> StillUses(u)) /\ evt'[u] = evt[u]
    BY <1>4 DEF Give
  <2>10. \A u \in Threads : StillUses(u)' => owner'[evt'[u]] = u
    <3>1. ASSUME NEW u \in Threads, StillUses(u)' PROVE evt[u] # a /\ owner[evt[u]] = u
      <4>1. owner[evt[u]] = u
        BY <3>1, <2>5, <2>9
      <4>2. QED
        BY <3>1, <4>1, <2>7, <2>8
    <3>2. QED
      BY <1>4, <2>1, <3>1 DEF Give
  <2>11. \A u \in Threads, b \in Addresses :
           owner'[b] = u => StillUses(u)' /\ evt'[u] = b
    <3>1. ASSUME NEW u \in Threads, NEW b \in Addresses, owner'[b] = u
          PROVE  StillUses(u)' /\ evt'[u] = b
      <4>1. b # a /\ owner[b] = u
        BY <3>1, <2>1, <2>3
      <4>2. StillUses(u) /\ evt[u] = b /\ evt'[u] = evt[u]
        BY <4>1, <1>4 DEF Give
      <4>3. u = t => ~IsLast(t)
        BY <4>1, <4>2, <2>1
      <4>4. QED
        BY <4>2, <4>3, <2>7, <2>9
    <3>2. QED
      BY <3>1
  <2>12. \A u \in Threads :
           /\ Idle(u)' => remote'[u] = <<>> /\ local'[u] = <<>>
           /\ local'[u] # <<>> => anyLocal'[u]
           /\ remote'[u] # <<>> /\ local'[u] = <<>> => ~anyLocal'[u]
    BY <1>4, <2>5 DEF Give
  <2>13. QED
    BY <2>4, <2>10, <2>11, <2>12
<1>5. ASSUME NEW t \in Threads, Return(t) PROVE OwnershipInv'
  <2>1. DistributionTypeOK'
    BY <1>5 DEF Return
  <2>2. \A u \in Threads : u # t => (StillUses(u)' <=> StillUses(u)) /\ evt'[u] = evt[u]
    BY <1>5 DEF Return
  <2>3. ~StillUses(t)' /\ evt'[t] = NoEvent
    BY <1>5 DEF Return
  <2>4. CASE anyLocal[t]
    <3>1. owner' = owner /\ ~StillUses(t)
      BY <1>5, <2>4 DEF Return
    <3>2. QED
      BY <1>5, <2>1, <2>2, <2>3, <3>1 DEF Return
  <2>5. CASE ~anyLocal[t]
    <3>1. owner' = [owner EXCEPT ![evt[t]] = Free] /\ owner[evt[t]] = t
      BY <1>5, <2>5 DEF Return
    <3>2. \A u \in Threads : u # t /\ StillUses(u) => evt[u] # evt[t]
      BY <3>1
    <3>3. \A u \in Threads : StillUses(u)' => owner'[evt'[u]] = u
      <4>1. ASSUME NEW u \in Threads, StillUses(u)'  PROVE owner'[evt'[u]] = u
        <5>1. u # t /\ StillUses(u) /\ evt'[u] = evt[u] /\ evt[u] \in Addresses
          BY <4>1, <2>2, <2>3
        <5>2. QED
          BY <3>1, <3>2, <5>1
      <4>2. QED
        BY <4>1
    <3>4. \A u \in Threads, b \in Addresses : owner'[b] = u => owner[b] = u /\ u # t
      BY <3>1, DistributionAssumption
    <3>5. \A u \in Threads, b \in Addresses :
            owner'[b] = u => StillUses(u)' /\ evt'[u] = b
      BY <3>4, <2>2
    <3>6. QED
      BY <1>5, <2>1, <3>3, <3>5 DEF Return
  <2>6. QED
    BY <2>4, <2>5
<1>6. ASSUME NEW a \in Addresses, Consume(a) PROVE OwnershipInv'
  <2>1. \A u \in Threads : StillUses(u)' <=> StillUses(u)
    BY <1>6 DEF Consume
  <2>2. DistributionTypeOK'
    BY <1>6 DEF Consume
  <2>3. \A u \in Threads : StillUses(u) => evt[u] # a
    BY <1>6, DistributionAssumption DEF Consume
  <2>4. QED
    BY <1>6, <2>1, <2>2, <2>3, DistributionAssumption DEF Consume
<1>7. CASE UNCHANGED distributionVars
  BY <1>7 DEF distributionVars
<1>8. QED
  BY <1>1, <1>2, <1>3, <1>4, <1>5, <1>6, <1>7 DEF DistributionNext

\* Exactly one owner: a thread touches only an event that is its own, and an
\* event a thread owns will be handed over or deleted by it.
THEOREM Ownership == DistributionSpec => []OwnershipInv
<1>1. QED
  BY InitOwnership, NextOwnership, PTL DEF DistributionSpec

------------------------------------------------------------------------------
\* SparseMatrix: the lists of who serves whom.

\* The walk along a list ends, at a place where the key belongs.
LEMMA PlaceExists ==
  ASSUME NEW list \in Seq(Ids), NEW key \in Ids
  PROVE  /\ Place(list, key) \in 1 .. Len(list) + 1
         /\ \A i \in 1 .. Place(list, key) - 1 : list[i] < key
         /\ Place(list, key) <= Len(list) => list[Place(list, key)] >= key
<1> DEFINE T == {p \in 1 .. Len(list) + 1 : p <= Len(list) => list[p] >= key}
<1>1. Len(list) \in Nat /\ key \in Nat /\ \A i \in 1 .. Len(list) : list[i] \in Nat
  <2>1. Ids \subseteq Nat
    BY SparseMatrixAssumption
  <2>2. \A i \in 1 .. Len(list) : list[i] \in Ids
    BY ElementOfSeq
  <2>3. QED
    BY <2>1, <2>2, LenProperties
<1>2. Len(list) + 1 \in T /\ T \subseteq Nat
  BY <1>1
<1>3. PICK p \in T : \A q \in T : <<q, p>> \notin OpToRel(<, Nat)
  <2> HIDE DEF T
  <2>1. T # {}
    BY <1>2
  <2>2. QED
    BY <1>2, <2>1, WFMin, NatLessThanWellFounded
<1>4. \A q \in T : ~(q < p)
  BY <1>2, <1>3 DEF OpToRel
<1>5. \A i \in 1 .. p - 1 : list[i] < key
  <2>1. ASSUME NEW i \in 1 .. p - 1, ~(list[i] < key)  PROVE FALSE
    <3>1. i \in 1 .. Len(list) + 1 /\ i <= Len(list) /\ i < p
      BY <1>1, <1>2
    <3>2. list[i] >= key
      BY <1>1, <2>1, <3>1
    <3>3. QED
      BY <1>4, <3>1, <3>2
  <2>2. QED
    BY <2>1
<1>6. QED
  BY <1>5 DEF Place

\* What a list looks like with the new node in it.
LEMMA LinkedShape ==
  ASSUME NEW list \in Seq(Ids), NEW key \in Ids
  PROVE  /\ Linked(list, key) \in Seq(Ids)
         /\ Len(Linked(list, key)) = Len(list) + 1
         /\ \A i \in 1 .. Len(list) + 1 :
              Linked(list, key)[i] = IF i < Place(list, key) THEN list[i]
                                     ELSE IF i = Place(list, key) THEN key
                                     ELSE list[i - 1]
<1> DEFINE p == Place(list, key)
           a == SubSeq(list, 1, p - 1)
           b == SubSeq(list, p, Len(list))
<1>1. Len(list) \in Nat /\ p \in 1 .. Len(list) + 1
  BY PlaceExists
<1> HIDE DEF p
<1>2. /\ a \in Seq(Ids) /\ Len(a) = p - 1
      /\ \A i \in 1 .. p - 1 : a[i] = list[i]
  BY <1>1, SubSeqProperties
<1>3. /\ b \in Seq(Ids) /\ Len(b) = Len(list) - p + 1
      /\ \A i \in 1 .. Len(list) - p + 1 : b[i] = list[p + i - 1]
  BY <1>1, SubSeqProperties
<1>4. Linked(list, key) = a \o <<key>> \o b
  BY DEF Linked, InsertAt, p
<1> HIDE DEF a, b
<1>5. /\ a \o <<key>> \in Seq(Ids) /\ Len(a \o <<key>>) = p
      /\ \A i \in 1 .. p : (a \o <<key>>)[i] = IF i < p THEN list[i] ELSE key
  BY <1>1, <1>2
<1>6. /\ Linked(list, key) \in Seq(Ids)
      /\ Len(Linked(list, key)) = Len(list) + 1
      /\ \A i \in 1 .. Len(list) + 1 :
           Linked(list, key)[i] = IF i <= p THEN (a \o <<key>>)[i] ELSE b[i - p]
  <2>1. /\ (a \o <<key>>) \o b \in Seq(Ids)
        /\ Len((a \o <<key>>) \o b) = p + (Len(list) - p + 1)
        /\ \A i \in 1 .. p + (Len(list) - p + 1) :
             ((a \o <<key>>) \o b)[i] = IF i <= p THEN (a \o <<key>>)[i] ELSE b[i - p]
    BY <1>3, <1>5, ConcatProperties
  <2>2. p + (Len(list) - p + 1) = Len(list) + 1
    BY <1>1
  <2>3. QED
    BY <1>4, <2>1, <2>2
<1>7. \A i \in 1 .. Len(list) + 1 : i > p => b[i - p] = list[i - 1]
  <2>1. ASSUME NEW i \in 1 .. Len(list) + 1, i > p  PROVE b[i - p] = list[i - 1]
    <3>1. i - p \in 1 .. Len(list) - p + 1 /\ p + (i - p) - 1 = i - 1
      BY <1>1, <2>1
    <3>2. QED
      BY <1>3, <3>1
  <2>2. QED
    BY <2>1
<1>8. ASSUME NEW i \in 1 .. Len(list) + 1
      PROVE  Linked(list, key)[i] = IF i < p THEN list[i] ELSE IF i = p THEN key ELSE list[i - 1]
  <2>1. CASE i < p
    BY <1>1, <1>5, <1>6, <2>1
  <2>2. CASE i = p
    BY <1>1, <1>5, <1>6, <2>2
  <2>3. CASE i > p
    BY <1>1, <1>6, <1>7, <2>3
  <2>4. QED
    BY <1>1, <2>1, <2>2, <2>3
<1>9. QED
  BY <1>6, <1>8 DEF p

\* The keys of a list are those that it had, and the new one.
LEMMA LinkedKeys ==
  ASSUME NEW list \in Seq(Ids), NEW key \in Ids
  PROVE  ToSet(Linked(list, key)) = ToSet(list) \cup {key}
<1> DEFINE p == Place(list, key)
           new == Linked(list, key)
<1>1. /\ Len(list) \in Nat /\ p \in 1 .. Len(list) + 1
      /\ DOMAIN list = 1 .. Len(list) /\ DOMAIN new = 1 .. Len(list) + 1
      /\ \A i \in 1 .. Len(list) + 1 :
           new[i] = IF i < p THEN list[i] ELSE IF i = p THEN key ELSE list[i - 1]
  BY PlaceExists, LinkedShape, LenProperties
<1> HIDE DEF p, new
<1>2. ASSUME NEW id \in ToSet(new)  PROVE id \in ToSet(list) \cup {key}
  <2>1. PICK i \in 1 .. Len(list) + 1 : id = new[i]
    BY <1>1, <1>2 DEF ToSet
  <2>2. CASE i < p
    <3>1. i \in 1 .. Len(list) /\ id = list[i]
      BY <1>1, <2>1, <2>2
    <3>2. QED
      BY <1>1, <3>1 DEF ToSet
  <2>3. CASE i > p
    <3>1. i - 1 \in 1 .. Len(list) /\ id = list[i - 1]
      BY <1>1, <2>1, <2>3
    <3>2. QED
      BY <1>1, <3>1 DEF ToSet
  <2>4. CASE i = p
    BY <1>1, <2>1, <2>4
  <2>5. QED
    BY <1>1, <2>2, <2>3, <2>4
<1>3. ASSUME NEW id \in ToSet(list)  PROVE id \in ToSet(new)
  <2>1. PICK i \in 1 .. Len(list) : id = list[i]
    BY <1>1, <1>3 DEF ToSet
  <2>2. CASE i < p
    <3>1. i \in 1 .. Len(list) + 1 /\ new[i] = id
      BY <1>1, <2>1, <2>2
    <3>2. QED
      BY <1>1, <3>1 DEF ToSet
  <2>3. CASE i >= p
    <3>1. i + 1 \in 1 .. Len(list) + 1 /\ i + 1 > p /\ (i + 1) - 1 = i
      BY <1>1, <2>1, <2>3
    <3>2. new[i + 1] = id
      BY <1>1, <2>1, <3>1
    <3>3. QED
      BY <1>1, <3>1, <3>2 DEF ToSet
  <2>4. QED
    BY <1>1, <2>2, <2>3
<1>4. key \in ToSet(new)
  <2>1. p \in 1 .. Len(list) + 1 /\ new[p] = key
    BY <1>1
  <2>2. QED
    BY <1>1, <2>1 DEF ToSet
<1>5. QED
  BY <1>2, <1>3, <1>4 DEF new

\* A list stays in order.
LEMMA LinkedSorted ==
  ASSUME NEW list \in Seq(Ids), NEW key \in Ids, Sorted(list)
  PROVE  Sorted(Linked(list, key))
<1> DEFINE p == Place(list, key)
           new == Linked(list, key)
<1>1. /\ Len(list) \in Nat /\ p \in 1 .. Len(list) + 1
      /\ DOMAIN list = 1 .. Len(list) /\ DOMAIN new = 1 .. Len(list) + 1
      /\ \A i \in 1 .. Len(list) + 1 :
           new[i] = IF i < p THEN list[i] ELSE IF i = p THEN key ELSE list[i - 1]
  BY PlaceExists, LinkedShape, LenProperties
<1>2. /\ \A i \in 1 .. p - 1 : list[i] < key
      /\ p <= Len(list) => list[p] >= key
  BY PlaceExists
<1>3. key \in Nat /\ \A i \in 1 .. Len(list) : list[i] \in Nat
  BY SparseMatrixAssumption, ElementOfSeq
<1>4. \A i, j \in 1 .. Len(list) : i <= j => list[i] <= list[j]
  <2>1. ASSUME NEW i \in 1 .. Len(list), NEW j \in 1 .. Len(list), i <= j
        PROVE  list[i] <= list[j]
    <3>1. CASE i = j
      BY <1>3, <3>1
    <3>2. CASE i < j
      BY <1>1, <3>2 DEF Sorted
    <3>3. QED
      BY <1>1, <2>1, <3>1, <3>2
  <2>2. QED
    BY <2>1
<1> HIDE DEF p, new
<1>5. \A i \in 1 .. Len(list) : i >= p => list[i] >= key
  <2>1. ASSUME NEW i \in 1 .. Len(list), i >= p  PROVE list[i] >= key
    <3>1. p \in 1 .. Len(list) /\ list[p] >= key /\ list[p] <= list[i]
      BY <1>1, <1>4, <1>2, <2>1
    <3>2. QED
      BY <1>3, <3>1
  <2>2. QED
    BY <2>1
<1>6. ASSUME NEW i \in 1 .. Len(list) + 1, NEW j \in 1 .. Len(list) + 1, i < j
      PROVE  new[i] <= new[j]
  <2>1. CASE j < p
    <3>1. i \in 1 .. Len(list) /\ j \in 1 .. Len(list) /\ new[i] = list[i] /\ new[j] = list[j]
      BY <1>1, <1>6, <2>1
    <3>2. QED
      BY <1>4, <1>6, <3>1
  <2>2. CASE j = p
    <3>1. i \in 1 .. p - 1 /\ i \in 1 .. Len(list) /\ new[i] = list[i] /\ new[j] = key
      BY <1>1, <1>6, <2>2
    <3>2. QED
      BY <1>3, <1>2, <3>1
  <2>3. CASE j > p
    <3>1. j - 1 \in 1 .. Len(list) /\ j - 1 >= p /\ new[j] = list[j - 1]
      BY <1>1, <2>3
    <3>2. CASE i < p
      <4>1. i \in 1 .. Len(list) /\ i <= j - 1 /\ new[i] = list[i]
        BY <1>1, <1>6, <3>1, <3>2
      <4>2. QED
        BY <1>4, <3>1, <4>1
    <3>3. CASE i = p
      <4>1. new[i] = key
        BY <1>1, <3>3
      <4>2. QED
        BY <1>3, <1>5, <3>1, <4>1
    <3>4. CASE i > p
      <4>1. i - 1 \in 1 .. Len(list) /\ i - 1 <= j - 1 /\ new[i] = list[i - 1]
        BY <1>1, <1>6, <3>1, <3>4
      <4>2. QED
        BY <1>4, <3>1, <4>1
    <3>5. QED
      BY <1>1, <3>2, <3>3, <3>4
  <2>4. QED
    BY <1>1, <2>1, <2>2, <2>3
<1>7. QED
  BY <1>1, <1>6 DEF Sorted, new

\* The new key is found once more than before, the others as often.
LEMMA LinkedFound ==
  ASSUME NEW list \in Seq(Ids), NEW key \in Ids, NEW id \in Ids
  PROVE  /\ Occurrences(list, id) \in Nat
         /\ Occurrences(Linked(list, key), id) = IF id = key THEN Occurrences(list, id) + 1 ELSE Occurrences(list, id)
<1> DEFINE p == Place(list, key)
           new == Linked(list, key)
           S == {i \in DOMAIN list : list[i] = id}
           T == {i \in DOMAIN new : new[i] = id /\ i # p}
           f == [i \in S |-> IF i < p THEN i ELSE i + 1]
<1>1. /\ Len(list) \in Nat /\ p \in 1 .. Len(list) + 1
      /\ DOMAIN list = 1 .. Len(list) /\ DOMAIN new = 1 .. Len(list) + 1
      /\ \A i \in 1 .. Len(list) + 1 :
           new[i] = IF i < p THEN list[i] ELSE IF i = p THEN key ELSE list[i - 1]
  BY PlaceExists, LinkedShape, LenProperties
<1> HIDE DEF p, new
<1>2. IsFiniteSet(S)
  <2>1. IsFiniteSet(1 .. Len(list))
    BY <1>1, FS_Interval
  <2>2. QED
    BY <1>1, <2>1, FS_Subset
<1>3. f \in [S -> T]
  <2>1. ASSUME NEW i \in S  PROVE f[i] \in T
    <3>1. i \in 1 .. Len(list) /\ list[i] = id
      BY <1>1
    <3>2. CASE i < p
      <4>1. f[i] = i /\ i \in 1 .. Len(list) + 1 /\ i # p
        BY <1>1, <3>1, <3>2
      <4>2. new[i] = id
        BY <1>1, <3>1, <3>2, <4>1
      <4>3. QED
        BY <1>1, <4>1, <4>2
    <3>3. CASE ~(i < p)
      <4>1. f[i] = i + 1 /\ i + 1 \in 1 .. Len(list) + 1 /\ i + 1 > p /\ (i + 1) - 1 = i
        BY <1>1, <3>1, <3>3
      <4>2. new[i + 1] = id
        BY <1>1, <3>1, <4>1
      <4>3. QED
        BY <1>1, <4>1, <4>2
    <3>4. QED
      BY <3>2, <3>3
  <2>2. QED
    BY <2>1
<1>4. \A i, j \in S : f[i] = f[j] => i = j
  BY <1>1
<1>5. \A j \in T : \E i \in S : f[i] = j
  <2>1. ASSUME NEW j \in T  PROVE \E i \in S : f[i] = j
    <3>1. j \in 1 .. Len(list) + 1 /\ j # p /\ new[j] = id
      BY <1>1
    <3>2. CASE j < p
      <4>1. j \in 1 .. Len(list) /\ list[j] = id
        BY <1>1, <3>1, <3>2
      <4>2. j \in S /\ f[j] = j
        BY <1>1, <3>2, <4>1
      <4>3. QED
        BY <4>2
    <3>3. CASE j > p
      <4>1. j - 1 \in 1 .. Len(list) /\ list[j - 1] = id /\ ~(j - 1 < p)
        BY <1>1, <3>1, <3>3
      <4>2. j - 1 \in S /\ f[j - 1] = j
        BY <1>1, <3>1, <4>1
      <4>3. QED
        BY <4>2
    <3>4. QED
      BY <1>1, <3>1, <3>2, <3>3
  <2>2. QED
    BY <2>1
<1>6. IsFiniteSet(T) /\ Cardinality(T) = Cardinality(S)
  <2>1. f \in Bijection(S, T)
    <3> HIDE DEF f, S, T
    <3>1. QED
      BY <1>3, <1>4, <1>5, Fun_IsBij
  <2>2. ExistsBijection(S, T)
    BY <2>1 DEF ExistsBijection
  <2>3. QED
    <3> HIDE DEF f, S, T
    <3>1. QED
      BY <1>2, <2>2, FS_Bijection
<1>7. Occurrences(list, id) = Cardinality(S) /\ Cardinality(S) \in Nat
  BY <1>2, FS_CardinalityType DEF Occurrences
<1>8. p \in 1 .. Len(list) + 1 /\ new[p] = key
  BY <1>1
<1>9. CASE id = key
  <2>1. {i \in DOMAIN new : new[i] = id} = T \cup {p} /\ p \notin T
    BY <1>1, <1>8, <1>9
  <2>2. Cardinality(T \cup {p}) = Cardinality(T) + 1
    BY <1>6, <2>1, FS_AddElement
  <2>3. QED
    BY <1>6, <1>7, <1>9, <2>1, <2>2 DEF Occurrences, new
<1>10. CASE id # key
  <2>1. {i \in DOMAIN new : new[i] = id} = T
    BY <1>1, <1>8, <1>10
  <2>2. QED
    BY <1>6, <1>7, <1>10, <2>1 DEF Occurrences, new
<1>11. QED
  BY <1>9, <1>10

------------------------------------------------------------------------------
\* insert() that links a node into its row and its column.
LEMMA InsertNewKeeps ==
  ASSUME MatrixInv, NEW r \in Ids, NEW c \in Ids, InsertNew(r, c)
  PROVE  MatrixInv'
<1>1. MatrixTypeOK /\ ~aborted /\ ~aborted'
  BY DEF MatrixInv, InsertNew
<1>2. row[r] \in Seq(Ids) /\ col[c] \in Seq(Ids)
  BY <1>1 DEF MatrixTypeOK
<1>3. /\ row' \in [Ids -> Seq(Ids)] /\ col' \in [Ids -> Seq(Ids)]
      /\ \A i \in Ids : row'[i] = IF i = r THEN Linked(row[r], c) ELSE row[i]
      /\ \A i \in Ids : col'[i] = IF i = c THEN Linked(col[c], r) ELSE col[i]
  <2>1. Linked(row[r], c) \in Seq(Ids) /\ Linked(col[c], r) \in Seq(Ids)
    BY <1>2, LinkedShape
  <2>2. QED
    BY <1>1, <2>1 DEF InsertNew, MatrixTypeOK
<1>4. \A i \in Ids : Sorted(row'[i]) /\ Sorted(col'[i])
  <2>1. \A i \in Ids : Sorted(row[i]) /\ Sorted(col[i])
    BY DEF MatrixInv
  <2>2. Sorted(Linked(row[r], c)) /\ Sorted(Linked(col[c], r))
    BY <1>2, <2>1, LinkedSorted
  <2>3. QED
    BY <1>3, <2>1, <2>2
<1>5. ASSUME NEW x \in Ids, NEW y \in Ids  PROVE Occurrences(row'[x], y) = Occurrences(col'[y], x)
  <2>1. Occurrences(row[x], y) = Occurrences(col[y], x)
    BY <1>1 DEF MatrixInv
  <2>2. Occurrences(row'[x], y) = IF x = r /\ y = c THEN Occurrences(row[x], y) + 1 ELSE Occurrences(row[x], y)
    <3>1. Occurrences(Linked(row[r], c), y) = IF y = c THEN Occurrences(row[r], y) + 1 ELSE Occurrences(row[r], y)
      BY <1>2, LinkedFound
    <3>2. row'[x] = IF x = r THEN Linked(row[r], c) ELSE row[x]
      BY <1>3
    <3>3. CASE x = r
      BY <3>1, <3>2, <3>3
    <3>4. CASE x # r
      BY <3>2, <3>4
    <3>5. QED
      BY <3>3, <3>4
  <2>3. Occurrences(col'[y], x) = IF x = r /\ y = c THEN Occurrences(col[y], x) + 1 ELSE Occurrences(col[y], x)
    <3>1. Occurrences(Linked(col[c], r), x) = IF x = r THEN Occurrences(col[c], x) + 1 ELSE Occurrences(col[c], x)
      BY <1>2, LinkedFound
    <3>2. col'[y] = IF y = c THEN Linked(col[c], r) ELSE col[y]
      BY <1>3
    <3>3. CASE y = c
      BY <3>1, <3>2, <3>3
    <3>4. CASE y # c
      BY <3>2, <3>4
    <3>5. QED
      BY <3>3, <3>4
  <2>4. QED
    BY <2>1, <2>2, <2>3
<1>6. MatrixTypeOK'
  BY <1>1, <1>3 DEF MatrixTypeOK, InsertNew
<1>7. QED
  BY <1>4, <1>5, <1>6 DEF MatrixInv

\* insert() that fails at its column: the row has the node, nobody walks it.
LEMMA InsertAbortsKeeps ==
  ASSUME MatrixInv, NEW r \in Ids, NEW c \in Ids, InsertAborts(r, c)
  PROVE  MatrixInv'
<1>1. MatrixTypeOK /\ aborted' /\ col' = col
  BY DEF MatrixInv, InsertAborts
<1>2. row[r] \in Seq(Ids)
  BY <1>1 DEF MatrixTypeOK
<1>3. Linked(row[r], c) \in Seq(Ids) /\ Sorted(Linked(row[r], c))
  BY <1>2, LinkedShape, LinkedSorted DEF MatrixInv
<1>4. /\ row' \in [Ids -> Seq(Ids)]
      /\ \A i \in Ids : row'[i] = IF i = r THEN Linked(row[r], c) ELSE row[i]
  BY <1>1, <1>3 DEF InsertAborts, MatrixTypeOK
<1>5. QED
  BY <1>1, <1>3, <1>4 DEF MatrixInv, MatrixTypeOK, InsertAborts

\* A key is found exactly if it is there.
LEMMA FoundInDomain ==
  ASSUME NEW list \in Seq(Ids), NEW id \in Ids
  PROVE  Occurrences(list, id) # 0 <=> \E i \in DOMAIN list : list[i] = id
<1> DEFINE S == {i \in DOMAIN list : list[i] = id}
<1>1. IsFiniteSet(S)
  <2>1. IsFiniteSet(1 .. Len(list)) /\ DOMAIN list = 1 .. Len(list)
    BY FS_Interval, LenProperties
  <2>2. QED
    BY <2>1, FS_Subset
<1>2. Cardinality(S) = 0 <=> S = {}
  <2> HIDE DEF S
  <2>1. QED
    BY <1>1, FS_EmptySet
<1>3. QED
  BY <1>2 DEF Occurrences

\* In a cleared matrix every list is empty.
LEMMA EmptyMatrix ==
  ASSUME NEW i \in Ids
  PROVE  /\ Sorted(<<>>) /\ ToSet(<<>>) = {}
         /\ Occurrences(<<>>, i) = 0
  BY FS_EmptySet DEF Sorted, Occurrences, ToSet

\* As long as the process lives, rows and columns hold the same cells, each
\* as often and in order: the master never notifies a client it would not
\* also tell of the server, nor the reverse.
THEOREM MatrixInvariant == MatrixSpec => []MatrixInv
<1>1. MatrixInit => MatrixInv
  <2> SUFFICES ASSUME MatrixInit  PROVE MatrixInv
    OBVIOUS
  <2>1. MatrixTypeOK
    BY EmptySeq DEF MatrixInit, MatrixTypeOK
  <2>2. \A i \in Ids : row[i] = <<>> /\ col[i] = <<>>
    BY DEF MatrixInit
  <2>3. \A i \in Ids : Sorted(row[i]) /\ Sorted(col[i])
    BY <2>2, EmptyMatrix
  <2>4. \A x, y \in Ids : Occurrences(row[x], y) = 0 /\ Occurrences(col[y], x) = 0
    BY <2>2, EmptyMatrix
  <2>5. QED
    BY <2>1, <2>3, <2>4 DEF MatrixInv
<1>2. MatrixInv /\ [MatrixNext]_matrixVars => MatrixInv'
  <2> SUFFICES ASSUME MatrixInv, [MatrixNext]_matrixVars  PROVE MatrixInv'
    OBVIOUS
  <2>1. ASSUME NEW r \in Ids, NEW c \in Ids, InsertNew(r, c)  PROVE MatrixInv'
    BY <2>1, InsertNewKeeps
  <2>2. ASSUME NEW r \in Ids, NEW c \in Ids, InsertAborts(r, c)  PROVE MatrixInv'
    BY <2>2, InsertAbortsKeeps
  <2>3. CASE Clear
    BY <2>3, EmptyMatrix DEF Clear, MatrixInv, MatrixTypeOK
  <2>4. CASE UNCHANGED matrixVars
    BY <2>4 DEF matrixVars, MatrixInv, MatrixTypeOK
  <2>5. ASSUME NEW r \in Ids, NEW c \in Ids, InsertFound(r, c)  PROVE MatrixInv'
    BY <2>4, <2>5 DEF InsertFound
  <2>6. QED
    BY <2>1, <2>2, <2>3, <2>4, <2>5 DEF MatrixNext
<1>3. QED
  BY <1>1, <1>2, PTL DEF MatrixSpec

\* The lists implement a set of pairs: an insert adds its pair and no other,
\* a repeated one nothing (or it ends the process), and clear() leaves none.
THEOREM MatrixRefinement == MatrixSpec => IsPairSet
<1>1. MatrixInit => Abstract!Init
  <2>1. ASSUME MatrixInit  PROVE Cells = {}
    BY <2>1, EmptyMatrix DEF MatrixInit, Cells
  <2>2. QED
    BY <2>1 DEF MatrixInit, Abstract!Init
<1>2. MatrixInv /\ [MatrixNext]_matrixVars => [Abstract!Next]_<<Cells, aborted>>
  <2> SUFFICES ASSUME MatrixInv, [MatrixNext]_matrixVars
               PROVE  [Abstract!Next]_<<Cells, aborted>>
    OBVIOUS
  <2>1. MatrixTypeOK
    BY DEF MatrixInv
  <2>2. ASSUME NEW r \in Ids, NEW c \in Ids, row' = [row EXCEPT ![r] = Linked(@, c)]
        PROVE  Cells' = Cells \cup {<<r, c>>}
    <3>1. row[r] \in Seq(Ids)
      BY <2>1 DEF MatrixTypeOK
    <3>2. ToSet(Linked(row[r], c)) = ToSet(row[r]) \cup {c}
      BY <3>1, LinkedKeys
    <3>3. \A i \in Ids : ToSet(row'[i]) = IF i = r THEN ToSet(row[r]) \cup {c} ELSE ToSet(row[i])
      BY <2>1, <2>2, <3>2 DEF MatrixTypeOK
    <3>4. QED
      BY <3>3 DEF Cells
  <2>3. ASSUME NEW r \in Ids, NEW c \in Ids, InsertNew(r, c)  PROVE Abstract!Add
    BY <2>2, <2>3 DEF InsertNew, Abstract!Add
  <2>4. ASSUME NEW r \in Ids, NEW c \in Ids, InsertAborts(r, c)  PROVE Abstract!End
    <3>1. row[r] \in Seq(Ids) /\ col[c] \in Seq(Ids)
      BY <2>1 DEF MatrixTypeOK
    <3>2. 1 \in DOMAIN col[c] /\ col[c][1] = r
      BY <2>4, <3>1 DEF InsertAborts, IsFirst
    <3>3. Occurrences(col[c], r) # 0
      BY <3>1, <3>2, FoundInDomain
    <3>4. Occurrences(row[r], c) # 0
      BY <2>4, <3>3 DEF MatrixInv, InsertAborts
    <3>5. c \in ToSet(row[r])
      BY <3>1, <3>4, FoundInDomain DEF ToSet
    <3>6. Cells' = Cells
      <4>1. Cells' = Cells \cup {<<r, c>>}
        BY <2>2, <2>4 DEF InsertAborts
      <4>2. QED
        BY <3>5, <4>1 DEF Cells
    <3>7. QED
      BY <2>4, <3>6 DEF InsertAborts, Abstract!End
  <2>5. CASE Clear
    <3>1. Cells' = {}
      BY <2>5, EmptyMatrix DEF Clear, Cells
    <3>2. QED
      BY <2>5, <3>1 DEF Clear, Abstract!Next, Abstract!Empty
  <2>6. CASE UNCHANGED matrixVars
    BY <2>6 DEF matrixVars, Cells
  <2>7. ASSUME NEW r \in Ids, NEW c \in Ids, InsertFound(r, c)
        PROVE  UNCHANGED <<Cells, aborted>>
    BY <2>6, <2>7 DEF InsertFound, matrixVars, Cells
  <2>8. QED
    BY <2>3, <2>4, <2>5, <2>6, <2>7 DEF MatrixNext, Abstract!Next
<1>3. QED
  BY <1>1, <1>2, MatrixInvariant, PTL DEF MatrixSpec, IsPairSet, Abstract!Spec
=============================================================================
