---------------------------- MODULE MCReference -----------------------------
(* Instance: the sequential code.  Pure algorithms are each asked one      *)
(* question per behaviour, against what they are to compute: the calendar  *)
(* and the slices of a statistic by months, the indexes, the layout and    *)
(* the order of fields, numbers as text, the configuration and start of a  *)
(* node, plug-ins, tables, packages and records on a connection, data      *)
(* compressed in parts, XML documents as text.  The behaviours that ask    *)
(* nothing let processing elements copy and dispose of events with their   *)
(* datasets, edit the nodes of XML documents, or fill and send the blocks  *)
(* of a connection.                                                        *)
(*                                                                         *)
(* The years reach from the epoch past the first century that is no leap   *)
(* year; the scans happen around the turn of years and of February; tables *)
(* have two rows (three ranges), patterns up to four characters; records   *)
(* go into packages that hold two small ones or a third of a large one.    *)
EXTENDS MonthScan, Indexes, Receiver

\* Of Frames, LzoMem, Dataset, XmlTree and Numbers.
CONSTANTS KeyLen, BlockSize, Columns, MaxObjects, MaxEvents, MaxNodes, AttrNames, AttrValues,
          MaxText, CharBits, ShortBits, IntBits, LongBits, OctetMax

VARIABLES input, \* the question; its kind says of which algorithm
          heap,  \* what the processing elements have
          tree,  \* nodes of documents
          cache  \* the blocks of a connection

Bytes == INSTANCE EventBuffer
Nbr   == INSTANCE Numbers
Conf  == INSTANCE Configuration
Setup == INSTANCE NodeConfig
Link  == INSTANCE Frames
Lzo   == INSTANCE LzoMem
Data  == INSTANCE Dataset
Xml   == INSTANCE XmlText
Dom   == INSTANCE XmlTree
Files == INSTANCE FileCache WITH
           MaxMem <- 6, MaxFile <- 12, ProperSize <- 2, MaxCount <- 1, BlockStep <- 1,
           PutLengths <- {1, 6}, MaxPuts <- 5

OneColumnEach == <<<<"INT">>, <<"STR">>>>

Texts(chars, n) == UNION {[1 .. k -> chars] : k \in 0 .. n}

\* Fields of an event: virtual ones at offset 0 or 4 of the buffer.
FieldTypes == {"STR", "CHAR", "SHORT", "INT", "LONG"}
Fields ==
  [type : FieldTypes, idx : 1 .. 2, flag : {0}, offset : {0}]
  \cup [type : FieldTypes, idx : 1 .. 2, flag : {1}, offset : {0, 4}]
TextBytes == <<<<1>>, <<2, 2, 2, 2, 2>>, <<3, 3, 3, 3, 3, 3, 3, 3>>>>
ValueOf(field) ==
  IF field.type = "STR" THEN TextBytes[field.code]
  ELSE [b \in 1 .. Bytes!SizeOf[field.type] |-> field.code]

\* Attributes and elements of a file of metadata.
Attr(code, pos, type, flag, length, offset) ==
  [code |-> code, pos |-> pos, type |-> type, flag |-> flag, length |-> length, offset |-> offset]
Missing == Conf!Missing
AttrLists ==
  {<<Attr("a", 1, "STR", 0, 3, Missing), Attr("b", 1, "INT", 0, Missing, Missing)>>,
   <<Attr("a", 2, "CHAR", 0, Missing, Missing), Attr("b", 1, "LONG", 0, Missing, Missing),
     Attr("c", 2, "STR", 1, 2, 7)>>,
   <<Attr("b", 1, "STR", 1, 5, 1), Attr("a", 1, "STR", 0, Missing, Missing)>>}
Elements ==
  [name : {"event"}, types : {<<>>, <<"1">>, <<"2", "1">>, <<"2", "bad", "2">>},
   code : {"p", "q"}, attrs : AttrLists]
  \cup [name : {"other"}, types : {<<>>}, code : {"p"}, attrs : AttrLists]

\* Documents of a node's connections: settings one at a time, or all of them.
Ztp == {"bufmode", "propersize", "maxmembufsize", "maxfilesize", "pkgsize", "encrypt", "compress",
        "compresslevel"}
ConfTexts ==
  {Setup!EmptyText, Setup!Word("true"), Setup!Word("x")}
  \cup {Setup!Number(n, "") : n \in {0, 1, 70000}}
  \cup {Setup!Number(6, "M"), Setup!Number(130, "K"), Setup!Number(1, "G")}
ZtpAttrs == {<<>>} \cup {a :> t : a \in Ztp, t \in ConfTexts} \cup {[a \in Ztp |-> t] : t \in ConfTexts}
Master == {<<>>, "master" :> [port |-> Setup!Number(1, ""), ip |-> Setup!Word("h")]}
Connectors ==
  {<<>>} \cup {<<[name |-> name, serverpn |-> server,
                  inside |-> {[name |-> "clientpn", id |-> Setup!Number(2, "")],
                              [name |-> "other", id |-> Setup!Number(3, "")]}]>>
               : name \in {"connector", "other"}, server \in {Setup!EmptyText, Setup!Number(1, "")}}
NodeDocs == {[elements |-> ("ztpattr" :> z) @@ m, connectors |-> c]
             : z \in ZtpAttrs, m \in Master, c \in Connectors}
FullDoc ==
  [elements |-> ("ztpattr" :> [a \in Ztp |-> Setup!Number(6, "M")])
                @@ ("master" :> [port |-> Setup!Number(9, "")]),
   connectors |-> <<[name |-> "connector", serverpn |-> Setup!Number(9, ""),
                     inside |-> {[name |-> "clientpn", id |-> Setup!Number(9, "")]}]>>]

\* Calls of plug-ins, of tables and their indexes, of metadata, and of strings.
PluginCalls ==
  [op : {"open", "add", "func"}, id : {"a", "b"}, value : {0, 1}]
  \cup [op : {"func"}, id : {"a"}, value : {2}] \cup [op : {"close", "clear"}, id : {"a"}, value : {0}]
TableCalls ==
  [op : {"table"}, table : {"a", "b"}, metadata : {<<"x">>, <<"x", "y">>}, data : {"-"}]
  \cup [op : {"row"}, table : {"a"}, metadata : {<<"x">>, <<"x", "y">>}, data : {"1"}]
  \cup [op : {"row"}, table : {"a"}, metadata : {<<"x">>}, data : {"2"}]
  \cup [op : {"index"}, table : {"a"}, metadata : {<<"x", "y">>, <<>>}, data : {"i", "j"}]
  \cup [op : {"clear"}, table : {"a"}, metadata : {<<>>}, data : {"-"}]
MetadataCalls ==
  [op : {"insert"}, id : {"a", "b"}, m : 0 .. 2, type : {"-"}]
  \cup [op : {"field"}, id : {"a", "b"}, m : {1}, type : {"INT", "STR"}]
  \cup [op : {"field"}, id : {"a"}, m : {2}, type : {"INT"}]
StringCalls ==
  [op : {"assign", "append", "reserve"}, text : {<<>>, <<1>>, <<2, 1>>, [i \in 1 .. 30 |-> 1]}]
  \cup [op : {"clear"}, text : {<<>>}]

\* What main() may find.
Documents == {"missing", "file", "root", "found", "ok"}
Worlds == [argc : {2, 3}, ini : BOOLEAN, http : BOOLEAN, event_type : Documents, comm_u : Documents,
           cep_config : Documents, listens : BOOLEAN, opens : BOOLEAN]

\* Two packages of up to three bytes of data.
Package(i, cmd, n) ==
  [cmd |-> cmd, data |-> [b \in 1 .. n |-> Link!Plain(<<"data", 10 * i + b>>)]]

\* Documents: an element with attributes and up to two children, one of which
\* may be an element with one more inside, with or without a declaration.
XmlTextsOf == {<<"a">>, <<"\"", "'">>, <<"<", "&", "\n">>, <<" ", "a", " ", " ">>, <<"&", "#x", "a">>}
XmlLeaves ==
  {Xml!Leaf("text", v) : v \in XmlTextsOf}
  \cup {Xml!Leaf("cdata", <<"<", "b", "\n">>), Xml!Leaf("cdata", <<>>),
        Xml!Leaf("comment", <<"&", "\n">>), Xml!Leaf("unknown", <<"!", "a", " ">>),
        Xml!Element(<<"b">>, <<>>, <<>>)}
XmlAttrs ==
  {<<>>} \cup {<<[name |-> <<"a">>, value |-> v]>> : v \in XmlTextsOf \cup {<<>>}}
  \cup {<<[name |-> <<"a">>, value |-> <<"b">>], [name |-> <<"b">>, value |-> <<"<">>]>>}
XmlInner == {Xml!Element(<<"b">>, attrs, nodes) : attrs \in XmlAttrs, nodes \in Texts(XmlLeaves, 1)}
XmlRoots ==
  {Xml!Element(<<"a">>, attrs, nodes) : attrs \in XmlAttrs, nodes \in Texts(XmlLeaves, 2)}
  \cup {Xml!Element(<<"a">>, <<>>, <<leaf, inner>>) : leaf \in XmlLeaves, inner \in XmlInner}
XmlHeads == {<<>>, <<Xml!Declaration(<<"a">>, <<>>, <<>>)>>,
             <<Xml!Declaration(<<>>, <<"a", "b">>, <<"a">>)>>}

\* Texts of any three symbols, alone, in an element, in a tag, in a declaration.
XmlSymbols == {"<", ">", "/", "a", " ", "=", "\"", "!--", "--", "![CDATA[", "]]", "&", "#x",
               "&#x61;", "&lt;", "?xml", "version", "?", "!"}
XmlFrames == {<<<<>>, <<>>>>, <<<<"<", "a", ">">>, <<"<", "/", "a", ">">>>>,
              <<<<"<", "a", " ">>, <<"/", ">">>>>, <<<<"<", "?xml", " ">>, <<>>>>}

Init ==
  /\ input \in [kind : {"none"}, about : {"code", "documents", "blocks"}]
  /\ Data!Init /\ Dom!Init /\ Files!Init
  /\ input.about # "blocks" => cache.file

Questions ==
  \/ \E y \in 1970 .. 2105 : input' = [kind |-> "year", year |-> y]
  \/ \E y \in {1999, 2011, 2012, 2100} :
     \E t \in DaysOf(y), cycle \in {1, 3, 5}, frequency \in {1, 7, 30} :
       input' = [kind |-> "day", day |-> t, cycle |-> cycle, frequency |-> frequency]
  \/ \E y \in {2012, 2100}, d \in {-1, 1, 30, 60} :
     LET now == NewYear[y] + d IN
     \E a, b \in [window : {now - 32, now - 2, now - 1, now}, opened : {now - 2, now - 1}],
        cycle \in {1, 3}, frequency \in {1, 7} :
       input' = [kind |-> "scan", now |-> now, scanned |-> {a, b},
                 cycle |-> cycle, frequency |-> frequency]
  \/ \E rows \in [1 .. 3 -> (1 .. 4) \X (1 .. 4)] :
       input' = [kind |-> "range", rows |-> rows]
  \/ \E row, where \in [1 .. 2 -> Texts({"a", Star}, 2)] :
       input' = [kind |-> "keys", row |-> row, where |-> where]
  \/ \E p \in Texts({"a", "b", Star, Dot}, 3), q \in Texts({"a", Star, Blank}, 2),
        text \in Texts({"a", Dot, Blank}, 3), reverse \in BOOLEAN :
       input' = [kind |-> "trie", patterns |-> <<p, q>>, text |-> text, reverse |-> reverse]
  \/ \E p \in Texts({"a", "b", Star}, 4), q \in Texts({"a", Star, Blank}, 2),
        text \in Texts({"a", "b"}, 4) :
       input' = [kind |-> "forest", patterns |-> <<p, q>>, text |-> text]
  \/ \E lengths \in [1 .. 3 -> {0, 1, 2, 3, 14, 15, 28, 31}], server, slow \in BOOLEAN :
       input' = [kind |-> "receive", server |-> server, slow |-> slow,
                 records |-> [i \in 1 .. 3 |-> [k \in 1 .. lengths[i] |-> <<i, k>>]]]
  \/ \E lengths \in [1 .. 2 -> 0 .. 3], cmd \in {"record", "resp"},
        compress, encrypt, server \in BOOLEAN, size \in {1, 2, 5, 20}, signal \in 0 .. 1,
        n \in 0 .. 14, end \in {"EOF", "error"} :
     LET packages == <<Package(1, cmd, lengths[1]), Package(2, "record", lengths[2])>> IN
       /\ n <= Len(Link!Written(packages, compress, FALSE))
       /\ input' = [kind |-> "link", packages |-> packages, compress |-> compress,
                    encrypt |-> encrypt, size |-> size, signal |-> signal, n |-> n,
                    end |-> end, server |-> server]
  \/ \E n \in 0 .. 9, part \in 1 .. 6, fragment \in 1 .. 9, calls \in 0 .. 4 :
       input' = [kind |-> "lzo", data |-> [i \in 1 .. n |-> i], part |-> part,
                 fragment |-> fragment, calls |-> calls]
  \/ \E fields \in [1 .. 3 -> Fields] :
       input' = [kind |-> "fields",
                 fields |-> [i \in 1 .. 3 |-> [code |-> i, length |-> 3] @@ fields[i]]]
  \/ \E x, y, z \in Texts({1, 2}, 3) : input' = [kind |-> "order", texts |-> <<x, y, z>>]
  \/ \E t \in Texts({"1", "9", "-", "+", " ", "x"}, 5) : input' = [kind |-> "number", text |-> t]
  \/ \E t \in Texts({"1", "9", " ", "."}, 6) : input' = [kind |-> "address", text |-> t]
  \/ \E t \in Nbr!ComparedTypes : input' = [kind |-> "type", type |-> t]
  \/ \E ip \in [1 .. 4 -> 0 .. OctetMax] : input' = [kind |-> "ip", ip |-> ip]
  \/ \E elements \in [1 .. 3 -> Elements] : input' = [kind |-> "metadata", elements |-> elements]
  \/ \E depth \in [1 .. 5 -> 0 .. 4], names \in [1 .. 5 -> {"a", "b"}] :
       /\ depth[1] = 0 /\ \A i \in 2 .. 5 : depth[i] \in 1 .. depth[i - 1] + 1
       /\ input' = [kind |-> "xml", doc |-> [i \in 1 .. 5 |->
                                               [name |-> names[i], depth |-> depth[i]]]]
  \/ \E kinds \in Texts({"blank", "comment", "k", "l", "text"}, 5) :
       input' = [kind |-> "lines", lines |-> [i \in DOMAIN kinds |->
         [kind |-> IF kinds[i] \in {"k", "l"} THEN "key" ELSE kinds[i],
          key |-> kinds[i], text |-> i]]]
  \/ \E doc \in NodeDocs, before \in {<<>>, <<FullDoc>>} :
       input' = [kind |-> "node", docs |-> Append(before, doc)]
  \/ \E world \in Worlds : input' = [kind |-> "start", world |-> world]
  \/ \E calls \in Texts(PluginCalls, 3) : input' = [kind |-> "plugins", calls |-> calls]
  \/ \E calls \in Texts(TableCalls, 4) : input' = [kind |-> "tables", calls |-> calls]
  \/ \E calls \in Texts(MetadataCalls, 3) : input' = [kind |-> "columns", calls |-> calls]

AboutDocuments ==
  \/ \E head \in XmlHeads, root \in XmlRoots, condense \in BOOLEAN :
       input' = [kind |-> "document", nodes |-> Append(head, root), condense |-> condense]
  \/ \E root \in XmlRoots : input' = [kind |-> "cut", root |-> root]
  \/ \E text \in Texts(XmlSymbols, 3), frame \in XmlFrames :
       input' = [kind |-> "text", text |-> frame[1] \o text \o frame[2]]
  \/ \E n \in 1 .. 3 : \E units \in [1 .. n -> Xml!Units], tabsize \in {1, 4} :
       input' = [kind |-> "stamp", units |-> units, tabsize |-> tabsize]
  \/ \E limit \in {128, 2048, 4096, 65536, 262144, 1114112}, d \in -3 .. 3 :
       limit + d < 1114112 /\ input' = [kind |-> "character", ucs |-> limit + d]
  \/ \E calls \in Texts(StringCalls, 3) : input' = [kind |-> "string", calls |-> calls]

Next ==
  /\ input.kind = "none"
  /\ \/ input.about = "code" /\ heap = Data!EmptyHeap /\ Questions
        /\ UNCHANGED <<heap, tree, cache>>
     \/ input.about = "documents" /\ tree = Dom!EmptyTree /\ AboutDocuments
        /\ UNCHANGED <<heap, tree, cache>>
     \/ input.about = "code" /\ Data!Next /\ UNCHANGED <<input, tree, cache>>
     \/ input.about = "documents" /\ Dom!Next /\ UNCHANGED <<input, heap, cache>>
     \/ input.about = "blocks" /\ Files!Next /\ UNCHANGED <<input, heap, tree>>

Spec == Init /\ [][Next]_<<input, heap, tree, cache>>

\* mktime() and localtime_r() agree with a calendar counted year by year, so
\* that times are read as they were written, and the slices of days that
\* GetReadyCmdsForMonth() works with tile time; a monthly scan hands over
\* slices that are over, all of them, and returns.
MonthsRight ==
  /\ input.kind = "year" => IsCalendar(input.year)
  /\ input.kind = "day" => /\ InItsSlices(input.day, input.cycle, input.frequency)
                           /\ input.cycle = 1 /\ input.frequency = 1 => ReadsTimes(input.day)
  /\ input.kind = "scan" =>
       ScansWhole(input.scanned, input.cycle, input.frequency, input.now)

\* idx_trie_tree answers with the patterns that match, where stars stand at
\* the end only (at the beginning, when it reverses), or that add a dot and a
\* star to the text.  (A text that ends in a blank is never found whole.)
TrieRight(patterns, asked, reverse) ==
  \A i \in Indexed(patterns) :
    LET Turned(s) == IF reverse THEN Reverse(s) ELSE s
        pattern == Without(Turned(patterns[i]))
        text    == Without(Turned(asked))
    IN StarsLast(pattern) /\ pattern # <<>> /\ text # <<>>
       /\ Last(Turned(asked)) # Blank =>
         (i \in TrieSelect(patterns, asked, reverse))
         = (Glob(pattern, text) \/ pattern = text \o <<Dot, Star>>)

\* The forest answers only with patterns that match, and with all of them
\* when no character of the text repeats the one before it.
ForestRight(patterns, text) ==
  LET answer == ForestSelect(patterns, text) IN
  \A i \in Indexed(patterns) :
    /\ i \in answer => Glob(Without(patterns[i]), text)
    /\ Glob(Without(patterns[i]), text)
       /\ (\A j \in 2 .. Len(text) : text[j] # text[j - 1]) => i \in answer

\* idx_range answers with the rows whose range contains the value, idx_rbtree
\* with those whose columns are the ones asked for (without the splitter), and
\* the indexes over patterns, idx_trie_tree and forest_map, with the patterns
\* that match the text, by the rules above.
IndexesRight ==
  /\ input.kind = "range" => \A value \in 0 .. 5 : RangeRight(input.rows, value)
  /\ input.kind = "keys" =>
       (RbtreeSelect(<<input.row>>, input.where) # {}) = (input.row = input.where)
  /\ input.kind = "trie" => TrieRight(input.patterns, input.text, input.reverse)
  /\ input.kind = "forest" => ForestRight(input.patterns, input.text)

\* However recv() cuts what doSend() wrote, and wherever the connection ends,
\* OnRead() and doRead() give on the packages that arrived, in order and as
\* they were sent (one more at most, if EOF comes in the middle of its body);
\* and records packed and cut as doSendRecord() expects them are given on
\* each whole, once and in order, by the server and by the client.
ReceiveRight ==
  /\ input.kind = "link" =>
       Link!GivesPackages(input.packages, input.compress, input.encrypt, input.size,
                          input.signal, input.n, input.end, input.server)
  /\ input.kind = "receive" =>
       LET packages == Packages(input.records) IN
       Shown(packages) => Receive(packages, input.server, input.slow) = input.records

\* Data that CLzoMem compresses in parts of one size, and decompresses in parts
\* of another, comes out as it went in, whoever takes the output; and the blocks
\* of a connection, in memory or in mapped files, hold in their bytes what
\* SendBuffer says, and are counted and owned, as long as they grow when asked.
PartsRight ==
  /\ input.kind = "none" => Files!BlocksSound
  /\ input.kind = "lzo" =>
       /\ Lzo!StreamsWhole(input.data, input.part, input.fragment, input.calls)
       /\ Lzo!PullsWhole(input.data, input.part, input.fragment)

\* rebuild_metadata() places fields so that none overlaps another it should
\* not, aligned as the compiler does, and each keeps what is set; the
\* comparisons of text fields are an order.
FieldsRight ==
  /\ input.kind = "fields" =>
       \A layout \in Bytes!rebuild_metadata(input.fields) : layout.ok =>
         /\ Bytes!IsLayout(input.fields, layout)
         /\ Bytes!KeepsValues(layout,
              [i \in DOMAIN layout.fields |-> ValueOf(layout.fields[i])])
  /\ input.kind = "order" =>
       \A n \in 1 .. 3 : Bytes!IsOrder(Bytes!Padded(input.texts[1], n),
                                       Bytes!Padded(input.texts[2], n),
                                       Bytes!Padded(input.texts[3], n))

\* cstr2nbr() and str2ip() read what a text says, of every width, and refuse
\* what does not fit; what nbr2str() and ip2str() write they read back; and
\* fields compare as the numbers that were put into them.
NumbersRight ==
  /\ input.kind = "number" =>
       \A type \in DOMAIN Nbr!Type, old \in {0, 1, 3} :
         Nbr!ReadsNumber(type, input.text, old) /\ Nbr!ComparesWithText(type, input.text)
  /\ input.kind = "type" =>
       /\ input.type \in DOMAIN Nbr!Type => Nbr!ReadsWhatItWrites(input.type)
       /\ Nbr!ComparesNumbers(input.type)
  /\ input.kind = "address" => Nbr!ReadsAddress(input.text, <<1, 2, 3, 0>>)
  /\ input.kind = "ip" => Nbr!str2ip(Nbr!ip2str(input.ip), <<>>) = input.ip

\* Loading gives each event type the metadata of its first element and owns
\* every object once; found_element() finds the first element of a path; a file
\* of keys gives each key the lines that belong to it, and again when what was
\* read is written.  The settings of a node are those of its last document, a
\* node that starts starts whole, and plug-ins are open as long as something has
\* them.
ConfigurationRight ==
  /\ input.kind = "metadata" => Conf!LoadsMetadata(input.elements)
  /\ input.kind = "xml" =>
       \A e \in DOMAIN input.doc : Conf!FindsFirst(input.doc, e, "a")
  /\ input.kind = "lines" => Conf!ReadsKeys(input.lines) /\ Conf!RereadsKeys(input.lines)
  /\ input.kind = "node" => Setup!Configures(input.docs, 1)
  /\ input.kind = "start" => Setup!StartsWhole(input.world)
  /\ input.kind = "plugins" => Setup!KeepsPlugins(input.calls)

\* What Print() and TiXmlPrinter write of a document is read again as it was,
\* and what is read without an error can be written and read again; a file that
\* ends in the middle of its root is not loaded; stamps count lines and columns,
\* characters beyond ASCII are written to be read, and strings hold their text.
\* However nodes are edited, their lists stay sound, and lookups find what is
\* meant.
XmlRight ==
  /\ input.kind = "none" => Dom!TreeSound
  /\ input.kind = "document" => Xml!ReadsWhatItPrints(input.nodes, input.condense)
  /\ input.kind = "cut" => Xml!NoticesCut(input.root)
  /\ input.kind = "text" => Xml!Rereads(input.text)
  /\ input.kind = "stamp" => Xml!Locates(input.units, input.tabsize)
  /\ input.kind = "character" => Xml!WritesCharacter(input.ucs)
  /\ input.kind = "string" => Xml!HoldsText(input.calls)

\* Editing the nodes of a document, with copies of whole trees, is editing a
\* forest: every operation does to it what it says, and nothing else.
ImplementsForest == Dom!ImplementsForest

\* However events are copied, given datasets and disposed of: no object is
\* deleted twice or forgotten, none is shared, and each record belongs to the
\* recordset that holds it.  Tables, indexes and metadata are known by the first
\* of their name, and keep what they were given.
DatasetsSound ==
  /\ Data!Sound
  /\ input.kind = "tables" => Data!KeepsTables(input.calls)
  /\ input.kind = "columns" => Data!KeepsMetadata(input.calls)
=============================================================================
