------------------------------- MODULE Dataset ------------------------------
(***************************************************************************)
(* The data that events carry besides their buffer: an event owns a        *)
(* ref_dataset, this its recordsets, these their records, and each record  *)
(* points back to its recordset.  Events are copied for every processing   *)
(* element and deleted by it, so a copy must not share any of these.       *)
(*                                                                         *)
(* The heap holds what is alive of each kind, by address; addresses are    *)
(* used again.  Columns are the types of the fields of the recordsets, by  *)
(* position: ref_dataset::metadata.  NULL is the null pointer.  Operators  *)
(* take a heap h and give the heap after the call.                         *)
(*                                                                         *)
(* Below the heap: the tables of const_dataset with their rows, its        *)
(* register of indexes and ref_dataset::metadata.  They are filled while a *)
(* node starts, one call after the other, so they are folds over calls.    *)
(***************************************************************************)
EXTENDS Integers, FiniteSets, Sequences, SequencesExt, Functions, TLC

CONSTANTS Columns, MaxObjects, MaxEvents

VARIABLE heap

NULL == 0
Empty == 0  \* an empty slice

EmptyHeap == [events |-> <<>>, datasets |-> <<>>, recordsets |-> <<>>, records |-> <<>>,
              twice |-> FALSE]

Unused(objects) ==
    CHOOSE a \in 1 .. MaxObjects :
        a \notin DOMAIN objects /\ \A b \in 1 .. a - 1 : b \in DOMAIN objects

HasRoom(objects, n) == Cardinality(DOMAIN objects) + n <= MaxObjects

\* delete of what is not alive is recorded.
Delete(h, kind, a) ==
    IF a \notin DOMAIN h[kind] THEN [h EXCEPT !.twice = TRUE]
    ELSE [h EXCEPT ![kind] = Restrict(@, DOMAIN @ \ {a})]

-----------------------------------------------------------------------------
(* record and recordset.                                                   *)

NewRecord(h, s) ==
    [h EXCEPT !.records = Unused(@) :>
        [set |-> s, cells |-> [c \in DOMAIN h.recordsets[s].metadata |-> Empty]] @@ @]

\* recordset::insert(): a record is taken if its own recordset has the same metadata;
\* otherwise the caller keeps it, here to delete it.
InsertRecord(h, s, r) ==
    IF h.recordsets[h.records[r].set].metadata = h.recordsets[s].metadata
    THEN [h EXCEPT !.recordsets[s].rows = Append(@, r)]
    ELSE Delete(h, "records", r)

\* record::set(): only a value of the type of the column.
SetCell(h, r, col, type, value) ==
    LET metadata == h.recordsets[h.records[r].set].metadata IN
    IF col \in DOMAIN metadata /\ metadata[col] = type
    THEN [h EXCEPT !.records[r].cells[col] = value]
    ELSE h

DeleteRecordset(h, s) ==
    Delete(FoldRight(LAMBDA r, g : Delete(g, "records", r), h.recordsets[s].rows, h),
           "recordsets", s)

\* Mutant: the copies still belong to the recordset they were copied from.
CopyRow_NotMoved(h, r, s) ==
    [h EXCEPT !.recordsets[s].rows = Append(@, Unused(h.records)),
              !.records = Unused(@) :> @[r] @@ @]

\* One row of recordset(const recordset&).
CopyRow(h, r, s) ==
    [h EXCEPT !.recordsets[s].rows = Append(@, Unused(h.records)),
              !.records = Unused(@) :> [@[r] EXCEPT !.set = s] @@ @]

CopyRecordset(h, from) ==
    LET s == Unused(h.recordsets)
    IN FoldLeft(LAMBDA g, r : CopyRow(g, r, s),
                [h EXCEPT !.recordsets =
                    s :> [metadata |-> h.recordsets[from].metadata, rows |-> <<>>] @@ @],
                h.recordsets[from].rows)

-----------------------------------------------------------------------------
(* ref_dataset.                                                            *)

\* recordsets_[i] = a new recordset, for the next i.
NextRecordset(h, d, columns) ==
    [h EXCEPT !.datasets[d] = Append(@, Unused(h.recordsets)),
              !.recordsets = Unused(@) :> [metadata |-> columns, rows |-> <<>>] @@ @]

NewDataset(h) ==
    LET d == Unused(h.datasets)
    IN FoldLeft(LAMBDA g, columns : NextRecordset(g, d, columns),
                [h EXCEPT !.datasets = d :> <<>> @@ @], Columns)

\* clear().
ClearDataset(h, d) ==
    [FoldRight(LAMBDA s, g : DeleteRecordset(g, s), h.datasets[d], h)
        EXCEPT !.datasets[d] = <<>>]

DeleteDataset(h, d) == Delete(ClearDataset(h, d), "datasets", d)

CopyRecordsets(h, d, from) ==
    FoldLeft(LAMBDA g, s :
                [CopyRecordset(g, s) EXCEPT !.datasets[d] = Append(@, Unused(g.recordsets))],
             h, from)

CopyDataset(h, from) ==
    LET d == Unused(h.datasets)
    IN CopyRecordsets([h EXCEPT !.datasets = d :> <<>> @@ @], d, h.datasets[from])

\* operator=.
AssignDataset(h, d, from) ==
    IF d = from THEN h ELSE CopyRecordsets(ClearDataset(h, d), d, h.datasets[from])

-----------------------------------------------------------------------------
(* event.                                                                  *)

NewEvent(h) == [h EXCEPT !.events = Unused(@) :> NULL @@ @]

set_dataset(h, e, d) ==
    IF h.events[e] = d THEN h
    ELSE [IF h.events[e] = NULL THEN h ELSE DeleteDataset(h, h.events[e]) EXCEPT !.events[e] = d]

release_dataset(h, e) == [h EXCEPT !.events[e] = NULL]

CopyEvent(h, e) ==
    LET copy == Unused(h.events)
        new  == [h EXCEPT !.events = copy :> NULL @@ @]
    IN IF h.events[e] = NULL THEN new
       ELSE set_dataset(CopyDataset(new, h.events[e]), copy, Unused(h.datasets))

DeleteEvent(h, e) ==
    Delete(IF h.events[e] = NULL THEN h ELSE DeleteDataset(h, h.events[e]), "events", e)

-----------------------------------------------------------------------------
(* What processing elements do with the events they have, one call or the  *)
(* calls that belong together at a time.                                   *)

Datasets == DOMAIN heap.datasets
Events == DOMAIN heap.events
HasRoomFor(sets, rows) ==
    HasRoom(heap.recordsets, sets) /\ HasRoom(heap.records, rows)

Create ==
    /\ Cardinality(Events) < MaxEvents
    /\ heap' = NewEvent(heap)

Copy(e) ==
    /\ Cardinality(Events) < MaxEvents
    /\ HasRoomFor(Len(Columns), Cardinality(DOMAIN heap.records))
    /\ heap' = CopyEvent(heap, e)

Attach(e) ==
    /\ HasRoomFor(Len(Columns), 0)
    /\ heap' = set_dataset(NewDataset(heap), e, Unused(heap.datasets))

\* The dataset of an event goes on with another one (or the same).
Move(e, f) ==
    /\ heap.events[e] # NULL
    /\ heap' = set_dataset(release_dataset(heap, e), f, heap.events[e])

Assign(e, f) ==
    /\ heap.events[e] # NULL /\ heap.events[f] # NULL
    /\ HasRoomFor(0, Cardinality(DOMAIN heap.records))
    /\ heap' = AssignDataset(heap, heap.events[e], heap.events[f])

\* A record made for one recordset of a dataset goes into another, or into its own.
Add(d, i, j) ==
    /\ HasRoomFor(0, 1)
    /\ heap' = InsertRecord(NewRecord(heap, heap.datasets[d][i]), heap.datasets[d][j],
                            Unused(heap.records))

Set(r, col, type) == heap' = SetCell(heap, r, col, type, 1)

Dispose(e) == heap' = DeleteEvent(heap, e)

Init == heap = EmptyHeap

Next ==
    \/ Create
    \/ \E e \in Events : Copy(e) \/ Attach(e) \/ Dispose(e)
    \/ \E e, f \in Events : Move(e, f) \/ Assign(e, f)
    \/ \E d \in Datasets, i, j \in DOMAIN Columns : Add(d, i, j)
    \/ \E r \in DOMAIN heap.records, col \in DOMAIN Columns, type \in {"INT", "STR"} :
         Set(r, col, type)

Spec == Init /\ [][Next]_heap

-----------------------------------------------------------------------------
(* A reference: every object alive has one owner, and records point to the *)
(* recordset that has them.                                                *)

OwnedOnce(owned, objects) ==
    /\ \A a \in DOMAIN objects : \E o \in DOMAIN owned : a \in Range(owned[o])
    /\ \A o, p \in DOMAIN owned, i, j \in 1 .. MaxObjects :
         /\ i \in DOMAIN owned[o] /\ j \in DOMAIN owned[p]
         /\ owned[o][i] = owned[p][j]
         => o = p /\ i = j

Sound ==
    LET h == heap IN
    /\ ~h.twice
    /\ OwnedOnce([e \in DOMAIN h.events |->
                    IF h.events[e] = NULL THEN <<>> ELSE <<h.events[e]>>], h.datasets)
    /\ OwnedOnce(h.datasets, h.recordsets)
    /\ OwnedOnce([s \in DOMAIN h.recordsets |-> h.recordsets[s].rows], h.records)
    /\ \A s \in DOMAIN h.recordsets : \A r \in Range(h.recordsets[s].rows) :
         r \in DOMAIN h.records /\ h.records[r].set = s
    /\ \A d \in DOMAIN h.datasets :
         [i \in DOMAIN h.datasets[d] |-> h.recordsets[h.datasets[d][i]].metadata] = Columns

-----------------------------------------------------------------------------
(* const_dataset: tables of rows and the indexes over them, each known by  *)
(* name and by position, which counts from 0.  Objects have addresses in   *)
(* the order they were made, which are not used again; deleted has them in *)
(* the order they were deleted.  The metadata of a table are its codes.    *)

NoTables == [objects |-> <<>>, deleted |-> <<>>, undefined |-> FALSE,
             tables |-> <<>>, id_map_table |-> <<>>, indexes |-> <<>>, id_map_index |-> <<>>]

Object(kind, id, metadata) ==
    [kind |-> kind, id |-> id, metadata |-> metadata, rows |-> <<>>, table |-> NULL, keys |-> <<>>]

\* new; its address is Len(objects) of what it gives.
Made(d, object) == [d EXCEPT !.objects = Append(@, object)]

\* delete of an index without keys deletes a pointer that was never set.
Disposed(d, a) ==
    [d EXCEPT !.deleted = Append(@, a),
              !.undefined = @ \/ (d.objects[a].kind = "index" /\ d.objects[a].keys = <<>>)]

get_table_at(d, i) == IF i < Len(d.tables) THEN d.tables[i + 1] ELSE NULL
get_table(d, id) ==
    IF id \in DOMAIN d.id_map_table THEN get_table_at(d, d.id_map_table[id]) ELSE NULL

get_index_at(d, i) == IF i < Len(d.indexes) THEN d.indexes[i + 1] ELSE NULL
get_index(d, id) ==
    IF id \in DOMAIN d.id_map_index THEN get_index_at(d, d.id_map_index[id]) ELSE NULL

\* insert(table_id, metadata): the table there is, whatever its metadata.
InsertTable(d, id, metadata) ==
    IF get_table(d, id) # NULL THEN d
    ELSE [Made(d, Object("table", id, metadata))
            EXCEPT !.id_map_table = id :> Len(d.tables) @@ @,
                   !.tables = Append(@, Len(d.objects) + 1)]

\* index(): the position of each key, -1 for a code the table does not have.
NewIndex(d, id, keys, t) ==
    LET metadata == d.objects[t].metadata
        Position(code) == SelectInSeq(metadata, LAMBDA c : c = code) - 1
    IN Made(d, [Object("index", id, metadata) EXCEPT
                  !.table = t, !.keys = [k \in DOMAIN keys |-> Position(keys[k])]])

\* insert(index): one of a name that is known stays the caller's, here to
\* dispose of.
InsertIndex(d, x) ==
    LET id == d.objects[x].id IN
    IF get_index(d, id) # NULL THEN Disposed(d, x)
    ELSE [d EXCEPT !.id_map_index = id :> Len(d.indexes) @@ @, !.indexes = Append(@, x)]

\* table::insert(): a row of other metadata stays the caller's as well.
InsertRow(d, t, metadata, data) ==
    LET new == Made(d, Object("row", data, metadata))
    IN IF metadata = d.objects[t].metadata
       THEN [new EXCEPT !.objects[t].rows = Append(@, Len(new.objects))]
       ELSE Disposed(new, Len(new.objects))

\* table::get() and table::exists().
RowAt(d, t, i) == IF i < Len(d.objects[t].rows) THEN d.objects[t].rows[i + 1] ELSE NULL
Exists(d, t, data) ==
    \E i \in DOMAIN d.objects[t].rows : d.objects[d.objects[t].rows[i]].id = data

\* table::clear() and its destructor.
ClearTable(d, t) == [FoldRight(LAMBDA r, e : Disposed(e, r), d.objects[t].rows, d)
                       EXCEPT !.objects[t].rows = <<>>]
DisposeTable(d, t) == Disposed(ClearTable(d, t), t)

\* clear(): the indexes before the tables they look at.
ClearTables(d) ==
    [FoldRight(LAMBDA t, e : DisposeTable(e, t), d.tables,
               FoldRight(LAMBDA x, e : Disposed(e, x), d.indexes, d))
       EXCEPT !.tables = <<>>, !.id_map_table = <<>>, !.indexes = <<>>, !.id_map_index = <<>>]

\* A call; rows and indexes are made for a table that is there.
Call(d, c) ==
    LET t == get_table(d, c.table) IN
    CASE c.op = "table" -> InsertTable(d, c.table, c.metadata)
      [] c.op = "row" /\ t # NULL -> InsertRow(d, t, c.metadata, c.data)
      [] c.op = "index" /\ t # NULL ->
           InsertIndex(NewIndex(d, c.data, c.metadata, t), Len(d.objects) + 1)
      [] c.op = "clear" -> ClearTables(d)
      [] OTHER -> d

\* However tables and indexes are made, filled and cleared: the first of a name
\* has it, and the position it was given; a table has the rows of its metadata
\* in order; what a table or an index has is alive, and everything else was
\* deleted once.
KeepsTables(calls) ==
    LET d == FoldLeft(Call, NoTables, calls)
        start == Max({0} \cup {i \in DOMAIN calls : calls[i].op = "clear"})
        Since(op) == {i \in start + 1 .. Len(calls) : calls[i].op = op}
        First(t) == Min({i \in Since("table") : calls[i].table = t})
        OfTable(t) == SelectSeq(SubSeq(calls, First(t), Len(calls)),
            LAMBDA c : c.op = "row" /\ c.table = t /\ c.metadata = calls[First(t)].metadata)
        Indexes(id) == {i \in Since("index") : calls[i].data = id
                          /\ \E j \in Since("table") : j < i /\ calls[j].table = calls[i].table}
        named == {calls[i].table : i \in Since("table")}
        alive == DOMAIN d.objects \ Range(d.deleted)
    IN /\ DOMAIN d.id_map_table = named
       /\ \A id \in named : LET t == get_table(d, id) IN
            /\ d.objects[t].metadata = calls[First(id)].metadata
            /\ d.id_map_table[id] = Cardinality({n \in named : First(n) < First(id)})
            /\ [i \in DOMAIN d.objects[t].rows |-> d.objects[RowAt(d, t, i - 1)].id]
               = [i \in DOMAIN OfTable(id) |-> OfTable(id)[i].data]
            /\ \A i \in DOMAIN calls : calls[i].op = "row" =>
                 (Exists(d, t, calls[i].data)
                  = \E j \in DOMAIN OfTable(id) : OfTable(id)[j].data = calls[i].data)
       /\ \A id \in {calls[i].data : i \in Since("index")} :
            (get_index(d, id) = NULL) = (Indexes(id) = {})
       /\ \A i \in DOMAIN d.indexes : LET x == d.objects[d.indexes[i]] IN
            /\ get_index(d, x.id) = d.indexes[i] /\ d.id_map_index[x.id] = i - 1
            /\ x.table \in Range(d.tables)
            /\ LET keys == calls[Min(Indexes(x.id))].metadata IN
               \A k \in DOMAIN keys :
                 IF keys[k] \in Range(x.metadata) THEN x.metadata[x.keys[k] + 1] = keys[k]
                 ELSE x.keys[k] = -1
       /\ IsInjective(d.deleted)
       /\ alive = Range(d.tables) \cup Range(d.indexes)
                   \cup UNION {Range(d.objects[t].rows) : t \in Range(d.tables)}
       /\ d.undefined => \E i \in DOMAIN calls : calls[i].op = "index" /\ calls[i].metadata = <<>>

-----------------------------------------------------------------------------
(* ref_dataset::metadata: the columns of recordsets, by name.  Metadata    *)
(* are objects 1, 2 ... of the caller until one is taken.                  *)

NoMetadata == [fields |-> [m \in 1 .. 2 |-> <<>>], metadatas |-> <<>>, id_map_idx |-> <<>>,
               deleted |-> <<>>]

\* impl_t::add_entry(): the first field of a code.
add_entry(r, m, code, type) ==
    IF \E i \in DOMAIN r.fields[m] : r.fields[m][i].code = code THEN r
    ELSE [r EXCEPT !.fields[m] = Append(@, [code |-> code, type |-> type])]

\* impl_t::entry(), by code and by position; NULL if there is none.
EntryOf(r, m, code) == SelectInSeq(r.fields[m], LAMBDA f : f.code = code)
EntryAt(r, m, i) == IF i < Len(r.fields[m]) THEN i + 1 ELSE NULL

get_metadata_idx(r, id) == IF id \in DOMAIN r.id_map_idx THEN r.id_map_idx[id] ELSE -1
get_metadata_at(r, i) == IF i \in 0 .. Len(r.metadatas) - 1 THEN r.metadatas[i + 1] ELSE NULL

\* insert(): NULL and a name that is known change nothing.
InsertMetadata(r, id, m) ==
    IF m = NULL \/ get_metadata_idx(r, id) >= 0 THEN r
    ELSE [r EXCEPT !.id_map_idx = id :> Len(r.metadatas) @@ @, !.metadatas = Append(@, m)]

\* clear() deletes by position.
ClearMetadata(r) ==
    [r EXCEPT !.deleted = @ \o Reverse(r.metadatas), !.metadatas = <<>>, !.id_map_idx = <<>>]

Describe(r, c) ==
    CASE c.op = "insert" -> InsertMetadata(r, c.id, c.m)
      [] c.op = "field"  -> add_entry(r, c.m, c.id, c.type)

\* record::get() and record::set() by the name of a column.
GetByName(r, m, cells, code, default) ==
    IF EntryOf(r, m, code) = NULL THEN default
    ELSE [type |-> r.fields[m][EntryOf(r, m, code)].type, data |-> cells[EntryOf(r, m, code)]]
SetByName(r, m, cells, code, type, data) ==
    IF EntryOf(r, m, code) = NULL \/ r.fields[m][EntryOf(r, m, code)].type # type THEN cells
    ELSE [cells EXCEPT ![EntryOf(r, m, code)] = data]

\* The recordsets of a dataset, by position, and get() by name.
Recordsets(r) == [i \in DOMAIN r.metadatas |-> get_metadata_at(r, i - 1)]
GetRecordset(r, id) ==
    IF get_metadata_idx(r, id) \in 0 .. Len(Recordsets(r)) - 1
    THEN Recordsets(r)[get_metadata_idx(r, id) + 1] ELSE NULL

\* A dataset has a recordset for every name, with the columns that were first
\* inserted under it; a column keeps what is set by its name, of its type; and
\* clear() deletes what was taken, once if it was taken under one name.
KeepsMetadata(calls) ==
    LET r == FoldLeft(Describe, NoMetadata, calls)
        Under(id) == SelectSeq(calls, LAMBDA c : c.op = "insert" /\ c.id = id /\ c.m # NULL)
        ids == {calls[i].id : i \in DOMAIN calls}
        taken == [id \in {n \in ids : Under(n) # <<>>} |-> Head(Under(id)).m]
    IN /\ \A id \in ids :
            GetRecordset(r, id) = IF id \in DOMAIN taken THEN taken[id] ELSE NULL
       /\ Len(Recordsets(r)) = Cardinality(DOMAIN taken)
       /\ \A m \in 1 .. 2, code \in ids, type \in {"INT", "STR"} :
            LET empty == [c \in DOMAIN r.fields[m] |-> Empty]
                cells == SetByName(r, m, empty, code, type, 1)
                entry == EntryOf(r, m, code)
            IN /\ entry # NULL => entry = EntryAt(r, m, entry - 1)
               /\ (\E c \in DOMAIN cells : cells[c] = 1)
                  = (GetByName(r, m, cells, code, [type |-> "none", data |-> Empty])
                     = [type |-> type, data |-> 1])
               /\ \A other \in ids \ {code} :
                    LET none == [type |-> "none", data |-> Empty] IN
                    GetByName(r, m, cells, other, none) = GetByName(r, m, empty, other, none)
       /\ Range(ClearMetadata(r).deleted) = Range(taken)
       /\ IsInjective(taken) => IsInjective(ClearMetadata(r).deleted)
=============================================================================
