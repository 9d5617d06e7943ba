---------------------------- MODULE EventBuffer -----------------------------
(***************************************************************************)
(* An event in memory: buffer_metadata lays its fields out in a block of   *)
(* bytes, dynamic_struct writes and reads them, logic_function compares    *)
(* them.  A field is a record of the members of field_cfg_entry; a value   *)
(* is the sequence of its bytes, a block the sequence of all bytes.        *)
(***************************************************************************)
EXTENDS Naturals, Sequences, SequencesExt

\* Bytes of a value of a type; those of a text are its field's own.
SizeOf ==
  [CHAR |-> 1, UCHAR |-> 1, SHORT |-> 2, USHORT |-> 2, INT |-> 4, UINT |-> 4,
   FLOAT |-> 4, IP |-> 4, LONG |-> 8, ULONG |-> 8, DOUBLE |-> 8,
   DATETIME |-> 8, MONTHTIME |-> 8]

get_size_by_type_id(type, default_size) ==
  IF type \in DOMAIN SizeOf THEN SizeOf[type] ELSE default_size

\* The bytes that bring a length to a multiple of the type's size.
padding_length(current_len, type) ==
  IF type \in DOMAIN SizeOf
  THEN (SizeOf[type] - (current_len % SizeOf[type])) % SizeOf[type]
  ELSE 0

\* The flag __CEP_VIRTUAL_MASK__: a field that lies over the bytes of others.
IsVirtual(field) == field.flag = 1

sort_pred(left, right) ==
  \/ left.idx < right.idx
  \/ left.idx = right.idx /\ left.flag < right.flag

-----------------------------------------------------------------------------
\* buffer_metadata

\* A code may be added once.
add_cfg_entry(entries, field) ==
  IF \E i \in DOMAIN entries : entries[i].code = field.code
  THEN [added |-> FALSE, entries |-> entries]
  ELSE [added |-> TRUE, entries |-> Append(entries, field)]

\* Mutant: the padding is put behind the field, not before it.
Place_PadBehind(layout, field) ==
  LET size == get_size_by_type_id(field.type, field.length)
  IN IF IsVirtual(field)
     THEN [layout EXCEPT !.fields = Append(@, [field EXCEPT !.length = size])]
     ELSE [length |-> layout.length + size + padding_length(layout.length, field.type),
           fields |-> Append(layout.fields,
                             [field EXCEPT !.length = size, !.offset = layout.length])]

\* A persistent field comes behind those before it, aligned; a virtual one
\* stays where its offset says.
Place(layout, field) ==
  LET size   == get_size_by_type_id(field.type, field.length)
      offset == layout.length + padding_length(layout.length, field.type)
  IN IF IsVirtual(field)
     THEN [layout EXCEPT !.fields = Append(@, [field EXCEPT !.length = size])]
     ELSE [length |-> offset + size,
           fields |-> Append(layout.fields,
                             [field EXCEPT !.length = size, !.offset = offset])]

\* The orders std::sort() may leave fields in: of equal ones any.
Orders(entries) ==
  {[i \in DOMAIN entries |-> entries[p[i]]] :
     p \in {q \in [DOMAIN entries -> DOMAIN entries] :
              \A i, j \in DOMAIN entries :
                i < j => q[i] # q[j] /\ ~sort_pred(entries[q[j]], entries[q[i]])}}

\* A virtual field that ends behind the block, or a type nobody knows.
IsWrong(layout, field) ==
  \/ IsVirtual(field) /\ field.offset + field.length > layout.length
  \/ field.type \notin DOMAIN SizeOf \cup {"STR"}

\* What rebuild() may make of the fields; it numbers them if nothing is wrong.
rebuild_metadata(entries) ==
  {LET layout == FoldLeft(Place, [length |-> 0, fields |-> <<>>], s) IN
   IF \E i \in DOMAIN s : IsWrong(layout, layout.fields[i])
   THEN [ok |-> FALSE, length |-> layout.length, fields |-> layout.fields]
   ELSE [ok |-> TRUE, length |-> layout.length,
         fields |-> [i \in DOMAIN s |-> [layout.fields[i] EXCEPT !.idx = i - 1]]]
   : s \in Orders(entries)}

-----------------------------------------------------------------------------
\* dynamic_struct

NewBlock(layout) == [b \in 1 .. layout.length |-> 0]

\* The bytes of the block that a field has.
BytesOf(field) == field.offset + 1 .. field.offset + field.length

\* set_value() of a text: the field is cleared, what fits is copied.  A number
\* has the bytes of its type, so the same is written.
set_field(block, field, value) ==
  [b \in DOMAIN block |->
     IF b \notin BytesOf(field) THEN block[b]
     ELSE IF b - field.offset <= Len(value) THEN value[b - field.offset] ELSE 0]

\* value()
field_value(block, field) == SubSeq(block, field.offset + 1, field.offset + field.length)

-----------------------------------------------------------------------------
\* logic_function, for texts

\* What strlen() leaves of a text.
BeforeNul(text) ==
  LET end == SelectInSeq(text, LAMBDA b : b = 0)
  IN IF end = 0 THEN text ELSE SubSeq(text, 1, end - 1)

\* memcmp() < 0
FirstLess(x, y) ==
  \E i \in DOMAIN x : x[i] < y[i] /\ \A j \in 1 .. i - 1 : x[j] = y[j]

equal_to(x, y) == BeforeNul(x) = BeforeNul(y)

not_equal_to(x, y) == BeforeNul(x) # BeforeNul(y)

\* Mutant: the first bytes decide before the sizes, and a prefix is not less.
less_text_FirstBytes(x, y) ==
  \E i \in DOMAIN x \cap DOMAIN y : x[i] < y[i] /\ \A j \in 1 .. i - 1 : x[j] = y[j]

\* Sizes come first.
less_text(x, y) == Len(x) < Len(y) \/ (Len(x) = Len(y) /\ FirstLess(x, y))

greater_text(x, y) == Len(x) > Len(y) \/ (Len(x) = Len(y) /\ FirstLess(y, x))

greater_equal_text(x, y) == ~less_text(x, y)

less_equal_text(x, y) == ~greater_text(x, y)

-----------------------------------------------------------------------------
(* What they are for.                                                      *)

Persistent(layout) == {i \in DOMAIN layout.fields : ~IsVirtual(layout.fields[i])}

\* Persistent fields are aligned, apart from each other and in the block, the
\* virtual ones in the block; every code is there; to rebuild changes nothing.
IsLayout(entries, layout) ==
  LET field(i) == layout.fields[i] IN
  /\ \A i \in DOMAIN layout.fields : BytesOf(field(i)) \subseteq 1 .. layout.length
  /\ \A i \in Persistent(layout) :
       /\ field(i).type \in DOMAIN SizeOf => (field(i).offset % SizeOf[field(i).type]) = 0
       /\ \A j \in Persistent(layout) \ {i} : BytesOf(field(i)) \cap BytesOf(field(j)) = {}
  /\ {field(i).code : i \in DOMAIN layout.fields} = {entries[i].code : i \in DOMAIN entries}
  /\ rebuild_metadata(layout.fields) = {layout}

\* A value of a field as it is read again.
Padded(value, size) == [b \in 1 .. size |-> IF b <= Len(value) THEN value[b] ELSE 0]

\* Every persistent field has the value that was written to it, in whichever
\* order they were written and whatever was there before.
KeepsValues(layout, values) ==
  \A order \in SetToSeqs(Persistent(layout)) :
    LET Written(block, i) == set_field(block, layout.fields[i], values[i])
        block == FoldLeft(Written, FoldLeft(Written, NewBlock(layout), Reverse(order)), order)
    IN \A i \in Persistent(layout) :
         field_value(block, layout.fields[i]) = Padded(values[i], layout.fields[i].length)

\* Texts in fields of one size have an order that agrees with their equality:
\* an index that is sorted by less finds what equal_to calls the same.
IsOrder(x, y, z) ==
  /\ equal_to(x, y) \/ less_text(x, y) \/ less_text(y, x)
  /\ less_text(x, y) => ~equal_to(x, y) /\ ~less_text(y, x)
  /\ less_text(x, y) /\ less_text(y, z) => less_text(x, z)
  /\ not_equal_to(x, y) = ~equal_to(x, y)
  /\ greater_text(x, y) = less_text(y, x)
  /\ greater_equal_text(x, y) = (greater_text(x, y) \/ equal_to(x, y))
  /\ less_equal_text(x, y) = (less_text(x, y) \/ equal_to(x, y))
=============================================================================
