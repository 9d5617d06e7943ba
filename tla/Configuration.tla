--------------------------- MODULE Configuration ----------------------------
(***************************************************************************)
(* How a configuration is read.  An XML document is searched for an        *)
(* element (utils_xml.cpp); a file of keys is read line by line            *)
(* (system_config.cpp); and config_metadata.cpp makes the metadata of      *)
(* event types of the elements named event.                                *)
(***************************************************************************)
EXTENDS EventBuffer, Integers, FiniteSets, Functions, TLC

-----------------------------------------------------------------------------
(* An XML document is its elements in document order: the name of each and *)
(* how deep it lies.                                                       *)

\* The elements inside of one.
Inside(doc, e) ==
  {n \in DOMAIN doc : n > e /\ \A m \in e + 1 .. n : doc[m].depth > doc[e].depth}

\* NULL is 0.
first_child(doc, e) ==
  IF e + 1 \in DOMAIN doc /\ doc[e + 1].depth > doc[e].depth THEN e + 1 ELSE 0

next_sibling(doc, e) ==
  LET next == e + Cardinality(Inside(doc, e)) + 1
  IN IF next \in DOMAIN doc /\ doc[next].depth = doc[e].depth THEN next ELSE 0

\* Mutant: the sibling of an element with children is not kept for later.
Descend_Forgets(doc, e, stack) == [ele |-> first_child(doc, e), stack |-> stack]

\* On the way into an element its next sibling is kept on the stack.
Descend(doc, e, stack) ==
  [ele   |-> first_child(doc, e),
   stack |-> IF next_sibling(doc, e) = 0 THEN stack ELSE Append(stack, next_sibling(doc, e))]

\* The two loops of found_element() behind its test of the element itself.
RECURSIVE SearchFrom(_, _, _, _)
SearchFrom(doc, e, stack, name) ==
  IF e = 0
  THEN IF stack = <<>> THEN 0 ELSE SearchFrom(doc, Last(stack), Front(stack), name)
  ELSE IF doc[e].name = name THEN e
  ELSE IF first_child(doc, e) = 0 THEN SearchFrom(doc, next_sibling(doc, e), stack, name)
  ELSE LET d == Descend(doc, e, stack) IN SearchFrom(doc, d.ele, d.stack, name)

found_element(doc, e, name) ==
  IF doc[e].name = name THEN e ELSE SearchFrom(doc, first_child(doc, e), <<>>, name)

\* It finds the first element of that name in the element, and none outside.
FindsFirst(doc, e, name) ==
  LET hits == {n \in Inside(doc, e) \cup {e} : doc[n].name = name}
      found == found_element(doc, e, name)
  IN IF hits = {} THEN found = 0
     ELSE found \in hits /\ \A n \in hits : found <= n

-----------------------------------------------------------------------------
(* A line of a file of keys is blank, nothing but a comment, a key with    *)
(* the first line of its value, or text without the delimiter.             *)

\* Mutant: a blank line does not end a value.
Continues_PastBlank(line) == line.kind # "key"

\* The lines that go on with a value: all up to a blank one or the next key.
Continues(line) == line.kind \in {"text", "comment"}

\* operator>>: a line at a time, the value being read and what is known.
ReadLine(s, line) ==
  CASE line.kind = "key" ->
         [open |-> {line.key},
          contents |-> [k \in DOMAIN s.contents \cup {line.key} |->
                          IF k = line.key THEN <<line.text>> ELSE s.contents[k]]]
    [] Continues(line) ->
         IF line.kind # "text" THEN s
         ELSE [s EXCEPT !.contents =
                 [k \in DOMAIN @ |-> IF k \in s.open THEN Append(@[k], line.text) ELSE @[k]]]
    [] OTHER -> [s EXCEPT !.open = {}]

ReadFile(lines) == FoldLeft(ReadLine, [open |-> {}, contents |-> <<>>], lines).contents

\* operator<<: a key, the delimiter and the value, whose lines end where it
\* says.  (A std::map is in the order of its keys, which does not matter.)
Written(contents) ==
  FlattenSeq([i \in 1 .. Cardinality(DOMAIN contents) |->
    LET key == SetToSeq(DOMAIN contents)[i] IN
    [l \in DOMAIN contents[key] |->
       [kind |-> IF l = 1 THEN "key" ELSE "text", key |-> key, text |-> contents[key][l]]]])

\* What was read from a file of keys and written is read again as it was.
RereadsKeys(lines) == ReadFile(Written(ReadFile(lines))) = ReadFile(lines)

\* A key has the text of its last line with the key and of the text lines
\* behind it, up to the first blank line or key.
ReadsKeys(lines) ==
  LET contents == ReadFile(lines)
      keys     == {i \in DOMAIN lines : lines[i].kind = "key"}
      Ends(i)  == {j \in i + 1 .. Len(lines) + 1 :
                     j = Len(lines) + 1 \/ lines[j].kind \in {"blank", "key"}}
  IN /\ DOMAIN contents = {lines[i].key : i \in keys}
     /\ \A i \in keys : (\A j \in keys : lines[j].key = lines[i].key => j <= i) =>
          LET end == CHOOSE j \in Ends(i) : \A k \in Ends(i) : j <= k
              own == SelectSeq(SubSeq(lines, i, end - 1), LAMBDA l : l.kind \in {"key", "text"})
          IN contents[lines[i].key] = [j \in DOMAIN own |-> own[j].text]

-----------------------------------------------------------------------------
(* config_metadata: the elements from the first named event to its last    *)
(* sibling, each with its name, the numbers of its attribute id ("bad" for *)
(* one that is none), its code and its attr elements.  Metadata are        *)
(* objects of a heap: what was added to each, and what rebuild() made.     *)

Missing == -1 \* an attribute that is not there

\* What locals start with is left open: garbage.
NewConfig(garbage) ==
  [heap |-> <<>>, deleted |-> {}, m |-> <<>>, code_map |-> <<>>,
   current |-> 0, length |-> garbage, offset |-> garbage, result |-> "loading"]

Insert(map, key, object) ==
  [k \in DOMAIN map \cup {key} |-> IF k \in DOMAIN map THEN map[k] ELSE object]

\* Mutant: a type that is known already gets the new metadata.
insert_metadata_Replaces(s, type, code, object) ==
  [s EXCEPT !.m = [t \in DOMAIN @ \cup {type} |-> IF t = type THEN object ELSE @[t]],
            !.code_map = Insert(@, code, object)]

\* insert_metadata(): the first one of a type, and of a code, stays.
insert_metadata(s, type, code, object) ==
  IF type \in DOMAIN s.m THEN s
  ELSE [s EXCEPT !.m = Insert(@, type, object), !.code_map = Insert(@, code, object)]

Types(element) == SelectSeq(element.types, LAMBDA t : t # "bad")

\* The head of an element named event: one without types is skipped, and one
\* all of whose types are known is made and deleted again.
EventHead(s, element) ==
  IF element.name # "event" THEN [s |-> s, skipped |-> FALSE]
  ELSE IF Types(element) = <<>> THEN [s |-> s, skipped |-> TRUE]
  ELSE LET object == Len(s.heap) + 1
           made == [s EXCEPT !.heap = Append(@, [fields |-> <<>>, length |-> 0]),
                             !.current = object]
           filled == FoldLeft(LAMBDA c, t : insert_metadata(c, t, element.code, object),
                              made, Types(element))
       IN IF \E i \in DOMAIN Types(element) : Types(element)[i] \notin DOMAIN s.m
          THEN [s |-> filled, skipped |-> FALSE]
          ELSE [s |-> [made EXCEPT !.deleted = @ \cup {object}], skipped |-> TRUE]

\* One attr element.  A length is read for texts and virtual fields only, an
\* offset for virtual fields; otherwise the field has what the locals hold.
ReadAttr(s, attr) ==
  LET needsLength == attr.type = "STR" \/ attr.flag = 1
      length == IF needsLength THEN attr.length ELSE s.length
      offset == IF attr.flag = 1 THEN attr.offset ELSE s.offset
  IN IF s.result # "loading" THEN s
     ELSE IF Missing \in {attr.pos, length, offset}
     THEN [s EXCEPT !.result = "failed"]
     ELSE IF s.current = 0 \/ s.current \in s.deleted
     THEN [s EXCEPT !.result = "undefined"]
     ELSE LET added == add_cfg_entry(s.heap[s.current].fields,
                         [code |-> attr.code, idx |-> attr.pos, type |-> attr.type,
                          length |-> length, flag |-> attr.flag, offset |-> offset])
          IN IF ~added.added THEN [s EXCEPT !.result = "failed"]
             ELSE [s EXCEPT !.length = length, !.offset = offset,
                            !.heap[s.current].fields = added.entries]

\* rebuild() at the end of an element, in one of the orders sort() may leave.
Rebuilt(s) ==
  IF s.result # "loading" THEN {s}
  ELSE IF s.current = 0 \/ s.current \in s.deleted THEN {[s EXCEPT !.result = "undefined"]}
  ELSE {[s EXCEPT !.heap[s.current] = [fields |-> layout.fields, length |-> layout.length],
                  !.result = IF layout.ok THEN "loading" ELSE "failed"]
        : layout \in rebuild_metadata(s.heap[s.current].fields)}

\* An element of another name goes on with the metadata of the one before.
ReadElement(s, element) ==
  LET head == EventHead(s, element) IN
  IF s.result # "loading" THEN {s}
  ELSE IF head.skipped THEN {head.s}
  ELSE Rebuilt(FoldLeft(ReadAttr, head.s, element.attrs))

reload_elements(elements, garbage) ==
  {IF s.result = "loading" THEN [s EXCEPT !.result = "ok"] ELSE s :
     s \in FoldLeft(LAMBDA all, element : UNION {ReadElement(s, element) : s \in all},
                    {NewConfig(garbage)}, elements)}

\* The objects free() deletes: each once, however many types it has.
Owned(s) == Range(s.m)

\* Every object is deleted once, by free() or before, and a code leads to an
\* object that a type leads to as well.
OwnsAll(s) ==
  /\ Owned(s) \cap s.deleted = {} /\ Owned(s) \cup s.deleted = DOMAIN s.heap
  /\ Range(s.code_map) \subseteq Owned(s)

\* A type has the fields of the first element that names it, laid out.
HasFirst(elements, s) ==
  /\ DOMAIN s.m = UNION {ToSet(Types(elements[i])) : i \in DOMAIN elements}
  /\ \A t \in DOMAIN s.m :
       LET first == CHOOSE i \in DOMAIN elements :
                      /\ t \in ToSet(Types(elements[i]))
                      /\ \A j \in 1 .. i - 1 : t \notin ToSet(Types(elements[j]))
           object == s.heap[s.m[t]]
       IN /\ IsLayout(elements[first].attrs, object @@ [ok |-> TRUE])
          /\ \A i \in DOMAIN object.fields : \E j \in DOMAIN elements[first].attrs :
               LET a == elements[first].attrs[j] f == object.fields[i] IN
               /\ a.code = f.code /\ a.type = f.type /\ a.flag = f.flag
               /\ a.type = "STR" => a.length = f.length
               /\ a.flag = 1 => a.offset = f.offset

\* What is loaded is right, belongs to somebody, and depends on nothing that
\* was not written; only an element of another name can meet metadata that
\* is not there.
LoadsMetadata(elements) ==
  LET results == reload_elements(elements, 0) IN
  /\ \A s \in results :
       /\ OwnsAll(s)
       /\ s.result = "undefined" => \E i \in DOMAIN elements : elements[i].name # "event"
       /\ s.result = "ok" /\ (\A i \in DOMAIN elements : elements[i].name = "event")
          => HasFirst(elements, s)
  /\ {s.heap : s \in {r \in results : r.result = "ok"}}
     = {s.heap : s \in {r \in reload_elements(elements, 99) : r.result = "ok"}}
=============================================================================
