------------------------------- MODULE Router -------------------------------
(***************************************************************************)
(* The routing table of a processing node: cep::router (processing/        *)
(* router.cpp).  Two bit matrices of pe_count * (pe_count + 1) bits, one    *)
(* per kind of route, are addressed by flat indices; row 0 is for events   *)
(* that enter the node, row u + 1 for the PE with unified index u.  Local   *)
(* PEs have the unified indices below local_pe_count_, remote ones those    *)
(* from there on, and each side has an array of PE pointers that new        *)
(* memory leaves uninitialised.                                             *)
(*                                                                         *)
(* The table has no lock: the main thread builds it while the network      *)
(* threads, started before, may already look events up.  So every state    *)
(* below is one that a lookup can meet.                                    *)
(***************************************************************************)
EXTENDS Integers, FiniteSets

CONSTANTS
  PeIds,       \* ids of the PEs that a configuration may name
  LocalIds,    \* those whose pn_id is this node
  Wild         \* what an array slot holds before it is assigned

INIT_PE_ID == 0

ASSUME RouterAssumption ==
  /\ PeIds \subseteq Nat
  /\ LocalIds \subseteq PeIds
  /\ Wild \notin PeIds

Kinds == {"received", "processed"}

VARIABLES
  localCount, remoteCount,  \* local_pe_count_, remote_pe_count_
  unif,                     \* pe_id2_unif_idx_, a function on the registered ids
  localPes, remotePes,      \* local_pes_, remote_pes_: slot -> PE
  bits                      \* received_matrix_, processed_matrix_: the set bits

routerVars == <<localCount, remoteCount, unif, localPes, remotePes, bits>>

RouterInit ==
  /\ localCount = 0 /\ remoteCount = 0
  /\ unif = <<>>
  /\ localPes = <<>> /\ remotePes = <<>>
  /\ bits = [k \in Kinds |-> {}]

peCount    == localCount + remoteCount
Registered == DOMAIN unif
LocalUsed  == Cardinality(Registered \cap LocalIds)
RemoteUsed == Cardinality(Registered \ LocalIds)

\* rebuild, first half: forget everything, then publish the new counts.
RebuildCounts(l, r) ==
  /\ localCount' = l /\ remoteCount' = r
  /\ unif' = <<>>
  /\ localPes' = <<>> /\ remotePes' = <<>>
  /\ bits' = [k \in Kinds |-> {}]

\* rebuild, second half: the cleared matrices and the uninitialised arrays.
RebuildTables ==
  /\ localPes'  = [i \in 0 .. localCount - 1 |-> Wild]
  /\ remotePes' = [i \in 0 .. remoteCount - 1 |-> Wild]
  /\ UNCHANGED <<localCount, remoteCount, unif, bits>>

\* The next free array slot of p's side, and its unified index.
Slot(p) == IF p \in LocalIds THEN LocalUsed ELSE RemoteUsed

\* Mutant: the unified index of a remote PE is its array index.
UnifIdx_ArrayIndex(p) == Slot(p)

UnifIdx(p) == IF p \in LocalIds THEN LocalUsed ELSE localCount + RemoteUsed

HasRoom(p) ==
  /\ Cardinality(Registered) < peCount
  /\ IF p \in LocalIds THEN LocalUsed < localCount ELSE RemoteUsed < remoteCount

\* Registering a PE that has no index yet.
Register(p) ==
  /\ unif' = [q \in Registered \cup {p} |-> IF q = p THEN UnifIdx(p) ELSE unif[q]]
  /\ localPes'  = IF p \in LocalIds THEN [localPes EXCEPT ![Slot(p)] = p] ELSE localPes
  /\ remotePes' = IF p \in LocalIds THEN remotePes ELSE [remotePes EXCEPT ![Slot(p)] = p]

\* What set_routing_() and set_node() do for one PE: nothing if it has an
\* index, registration if there is room; otherwise they refuse.
Enrol(p) ==
  /\ IF p \in Registered THEN UNCHANGED <<unif, localPes, remotePes>>
                         ELSE HasRoom(p) /\ Register(p)
  /\ UNCHANGED <<localCount, remoteCount, bits>>

Refuses(p) == p \notin Registered /\ ~HasRoom(p)

\* Mutant: the row of the node's own input is not set apart.
MatrixIdx_NoInitRow(s, d) == peCount * (IF s < 0 THEN 0 ELSE s) + d

\* matrix_idx_(): s = -1 addresses the row of events new to the node.
MatrixIdx(s, d) == peCount * (s + 1) + d

RowOf(source) == IF source = INIT_PE_ID THEN -1 ELSE unif[source]

SetBit(kind, source, destination) ==
  /\ bits' = [bits EXCEPT ![kind] = @ \cup {MatrixIdx(RowOf(source), unif[destination])}]
  /\ UNCHANGED <<localCount, remoteCount, unif, localPes, remotePes>>

------------------------------------------------------------------------------
(* Lookups: routing4received() and routing4processed(), local and remote.  *)
(* partition(), a PE's own filter, can only remove PEs from the result.    *)

\* An event of a PE that was never registered goes nowhere.
Knows(source) == source = INIT_PE_ID \/ source \in Registered

\* The scan of the first local_pe_count_ bits of the row.
LocalHits(kind, source) ==
  {i \in 0 .. localCount - 1 : MatrixIdx(RowOf(source), i) \in bits[kind]}

\* The scan of the remaining remote_pe_count_ bits of the row.
RemoteHits(kind, source) ==
  {i \in 0 .. remoteCount - 1 : MatrixIdx(RowOf(source), localCount + i) \in bits[kind]}

\* The PEs a lookup reaches.
Recipients(kind, source) ==
  IF Knows(source)
    THEN {localPes[i] : i \in LocalHits(kind, source)}
           \cup {remotePes[i] : i \in RemoteHits(kind, source)}
    ELSE {}

------------------------------------------------------------------------------
\* Indices, arrays and map agree: every registered PE is in its own slot,
\* the slots of each side fill from 0, the rest is still uninitialised.
TableInv ==
  /\ \A p \in Registered :
       IF p \in LocalIds
         THEN unif[p] \in 0 .. LocalUsed - 1 /\ localPes[unif[p]] = p
         ELSE /\ unif[p] - localCount \in 0 .. RemoteUsed - 1
              /\ remotePes[unif[p] - localCount] = p
  /\ LocalUsed <= localCount /\ RemoteUsed <= remoteCount
  /\ \A k \in Kinds : bits[k] \subseteq 0 .. peCount * (peCount + 1) - 1
=============================================================================
