------------------------------ MODULE Indexes -------------------------------
(***************************************************************************)
(* The indexes of a table.  Over two columns that hold the ends of a range *)
(* (processing/idx_range.cpp): which rows' ranges contain a value.  Over   *)
(* columns of text (idx_rbtree.cpp, idx_trie_tree.cpp, trie_map_tree.cpp,  *)
(* forest_map.cpp and encoding() of utils.hpp): a multimap of encoded      *)
(* keys, a trie for patterns that end in a star, and a forest for patterns *)
(* with stars anywhere.                                                    *)
(*                                                                         *)
(* A text is a sequence of characters, among them Star, Dot, Colon and     *)
(* Blank, which stands for all that trie and forest take for invisible.  A *)
(* node of either tree is the path that leads to it, its rows are idxs.    *)
(***************************************************************************)
EXTENDS Integers, Sequences, SequencesExt

CONSTANTS
  Star,  \* '*', ALL_MATCH_CHAR
  Dot,   \* '.', EXT_SUFFIX_CHAR
  Colon, \* ':', the splitter
  Blank  \* characters up to 0x20

ASSUME IndexesAssumption == Cardinality({Star, Dot, Colon, Blank}) = 4

------------------------------------------------------------------------------
\* idx_range: its set of elements, range_element_set_, maps every end of a
\* range to the rows whose range contains it, self, and to those that contain
\* the gap before it, iset4prev.  Rows are pairs of numbers.

\* Rows whose first value exceeds the second are left out with a warning.
Ranges(rows) == {i \in DOMAIN rows : rows[i][1] <= rows[i][2]}

Ends(rows) == UNION {{rows[i][1], rows[i][2]} : i \in Ranges(rows)}

\* A row is entered at every element from the lower_bound() of its first
\* value to before the upper_bound() of its second.
self(rows, end) ==
  {i \in Ranges(rows) : rows[i][1] <= end /\ end <= rows[i][2]}

\* The elements before one; the first has none and its iset4prev stays empty.
Before(rows, end) == {other \in Ends(rows) : other < end}

iset4prev(rows, end) ==
  IF Before(rows, end) = {} THEN {}
  ELSE self(rows, end) \cap self(rows, Max(Before(rows, end)))

\* rebuild() of an index that has not been built before.
rebuild(rows) ==
  [end \in Ends(rows) |-> [self |-> self(rows, end), iset4prev |-> iset4prev(rows, end)]]

\* select(): the first element that is not less than the value.
select(index, value) ==
  LET from == {end \in DOMAIN index : value <= end} IN
  IF from = {} THEN {}
  ELSE IF Min(from) = value THEN index[value].self
  ELSE index[Min(from)].iset4prev

\* What the index is for: select() visits the rows whose range contains the
\* value, whether it is an end of some range, lies between two ends, before
\* the first or behind the last.
RangeRight(rows, value) ==
  select(rebuild(rows), value) =
    {i \in DOMAIN rows : rows[i][1] <= value /\ value <= rows[i][2]}

------------------------------------------------------------------------------
\* Texts.

Without(text) == SelectSeq(text, LAMBDA c : c # Blank)

------------------------------------------------------------------------------
\* idx_rbtree.

\* encoding(): every column is followed by the splitter.
encoding(keys) == FlattenSeq([j \in DOMAIN keys |-> Append(keys[j], Colon)])

\* rebuild() enters every row, also one with empty columns: its length of at
\* least one, the splitter, is never less than 1.
RbtreeSelect(rows, where) == {i \in DOMAIN rows : encoding(rows[i]) = encoding(where)}

------------------------------------------------------------------------------
\* TrieMapTree.

TrieBuild(patterns) ==
  LET path == [i \in DOMAIN patterns |-> Without(patterns[i])]
  IN [nodes |-> {<<>>} \cup UNION {Prefixes(path[i]) : i \in DOMAIN path},
      path  |-> path]

\* idxs of a node
Rows(tree, node) == {i \in DOMAIN tree.path : tree.path[i] = node}

\* Both traverse(): the rows of a node and of the stars behind it.
RECURSIVE StarRows(_, _)
StarRows(tree, node) ==
  Rows(tree, node) \cup
    (IF Append(node, Star) \in tree.nodes THEN StarRows(tree, Append(node, Star)) ELSE {})

\* traverse() with the extended suffix: a domain without its leading part.
TrieTraverse(tree, node) == StarRows(tree, node) \cup Rows(tree, node \o <<Dot, Star>>)

\* Mutant: a star is looked for only when the character has no node.
RECURSIVE TrieWalk_StarLast(_, _, _, _)
TrieWalk_StarLast(tree, node, text, i) ==
  IF i > Len(text) THEN {}
  ELSE IF text[i] = Blank THEN TrieWalk_StarLast(tree, node, text, i + 1)
  ELSE LET next == Append(node, text[i]) IN
       IF next \in tree.nodes
       THEN (IF i = Len(text) THEN TrieTraverse(tree, next) ELSE {})
            \cup TrieWalk_StarLast(tree, next, text, i + 1)
       ELSE IF Append(node, Star) \in tree.nodes THEN StarRows(tree, Append(node, Star))
       ELSE {}

\* match(): a star on the way matches the rest, and the node of the last
\* character whatever ends there.
RECURSIVE TrieWalk(_, _, _, _)
TrieWalk(tree, node, text, i) ==
  IF i > Len(text) THEN {}
  ELSE IF text[i] = Blank THEN TrieWalk(tree, node, text, i + 1)
  ELSE LET star == Append(node, Star)
           next == Append(node, text[i])
       IN (IF star \in tree.nodes THEN StarRows(tree, star) ELSE {}) \cup
          (IF next \notin tree.nodes THEN {}
           ELSE (IF i = Len(text) THEN TrieTraverse(tree, next) ELSE {})
                \cup TrieWalk(tree, next, text, i + 1))

\* idx_trie_tree::select(); an empty pattern is not an index value.
Indexed(patterns) == {i \in DOMAIN patterns : patterns[i] # <<>>}

TrieSelect(patterns, text, reverse) ==
  LET Turned(s) == IF reverse THEN Reverse(s) ELSE s
      tree == TrieBuild([i \in Indexed(patterns) |-> Turned(patterns[i])])
  IN TrieWalk(tree, <<>>, Turned(text), 1)

------------------------------------------------------------------------------
\* ForestMap.

\* buildForest(): stars in a row are one.
ForestPath(data) ==
  LET kept == {j \in DOMAIN data :
                 /\ data[j] # Blank
                 /\ ~(data[j] = Star /\ j > 1 /\ data[j - 1] = Star)}
  IN [k \in 1 .. Cardinality(kept) |->
        data[CHOOSE j \in kept : Cardinality({n \in kept : n <= j}) = k]]

ForestBuild(patterns) ==
  LET path == [i \in DOMAIN patterns |-> ForestPath(patterns[i])]
  IN [nodes |-> {<<>>} \cup UNION {Prefixes(path[i]) : i \in DOMAIN path},
      path  |-> path]

push_back_diff(queue, node) ==
  IF Contains(queue, node) THEN queue ELSE Append(queue, node)

\* A node whose character is a star stays in the queue.  (The root's is never
\* set; it is taken for none.)
Stays(node) == node # <<>> /\ Last(node) = Star

\* One character, from the k-th node of the queue on: nodes it leads to are
\* put behind, and the first of those (or a star that is there already) is
\* the guard (of a set of at most one) at which the round ends.
RECURSIVE ForestRound(_, _, _, _, _)
ForestRound(tree, c, queue, k, guard) ==
  IF k > Len(queue) THEN queue
  ELSE IF guard # {} /\ queue[k] \in guard THEN queue
  ELSE LET node    == queue[k]
           star    == Append(node, Star)
           hasStar == star \in tree.nodes
           beyond  == Append(star, c)
           next    == Append(node, c)
           queue1  == IF hasStar THEN push_back_diff(queue, star) ELSE queue
           queue2  == IF hasStar /\ beyond \in tree.nodes THEN Append(queue1, beyond) ELSE queue1
           queue3  == IF next \in tree.nodes THEN push_back_diff(queue2, next) ELSE queue2
           guard1  == IF guard = {} /\ hasStar THEN {star} ELSE guard
           guard2  == IF guard1 = {} /\ queue3 # queue2 THEN {next} ELSE guard1
       IN IF Stays(node) THEN ForestRound(tree, c, queue3, k + 1, guard2)
          ELSE ForestRound(tree, c, RemoveAt(queue3, k), k, guard2)

RECURSIVE ForestWalk(_, _, _, _)
ForestWalk(tree, text, i, queue) ==
  IF i > Len(text) THEN UNION {StarRows(tree, queue[k]) : k \in DOMAIN queue}
  ELSE ForestWalk(tree, text, i + 1,
         IF text[i] = Blank THEN queue ELSE ForestRound(tree, text[i], queue, 1, {}))

\* match()
ForestSelect(patterns, text) ==
  ForestWalk(ForestBuild([i \in Indexed(patterns) |-> patterns[i]]), text, 1, << <<>> >>)

------------------------------------------------------------------------------
\* References.

\* A star stands for any text.
RECURSIVE Glob(_, _)
Glob(pattern, text) ==
  IF pattern = <<>> THEN text = <<>>
  ELSE IF Head(pattern) = Star
  THEN Glob(Tail(pattern), text) \/ (text # <<>> /\ Glob(pattern, Tail(text)))
  ELSE text # <<>> /\ Head(pattern) = Head(text) /\ Glob(Tail(pattern), Tail(text))

\* The pattern is a text and then stars only.
StarsLast(pattern) ==
  \A j \in 1 .. Len(pattern) - 1 : pattern[j] = Star => pattern[j + 1] = Star
=============================================================================
