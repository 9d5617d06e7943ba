------------------------------- MODULE XmlText --------------------------------
(***************************************************************************)
(* XML documents as texts: the parser (tinyxmlparser.cpp) that reads the   *)
(* configuration, and both ways to print a document (tinyxml.cpp).         *)
(*                                                                         *)
(* A text is a sequence of symbols, strings of one character or of several *)
(* that the code looks for together ("!--").  A pointer into it is a       *)
(* position; the one behind the last symbol points to the end ('\0').      *)
(* Characters are ASCII, where pointers are concerned; the bytes of others *)
(* and the rows and columns in reports have a section of their own.        *)
(***************************************************************************)
EXTENDS Integers, Sequences, SequencesExt, TLC

Null == 0

White    == {" ", "\n"}
Letters  == {"a", "b", "version", "encoding", "standalone"}
DQ == "\""
SQ == "'"

\* Entities and hexadecimal references, and what they stand for.
HexRef == ("&#x61;" :> "a") @@ ("&#x0A;" :> "\n") @@ ("&#x20;" :> " ")
entity ==
  ("&amp;" :> "&") @@ ("&lt;" :> "<") @@ ("&gt;" :> ">") @@ ("&quot;" :> DQ) @@ ("&apos;" :> SQ)

\* Nodes of a document.
Element(name, attrs, children) ==
  [kind |-> "element", value |-> name, attrs |-> attrs, children |-> children]
Leaf(kind, value) == [kind |-> kind, value |-> value, attrs |-> <<>>, children |-> <<>>]
Declaration(version, enc, alone) == Leaf("declaration", <<version, enc, alone>>)

-----------------------------------------------------------------------------
(* Reading.  A function of the parser returns the pointer p it goes on at, *)
(* what it read, and the error it reported.                                *)

AtEnd(t, p) == p = Null \/ p > Len(t)

At(t, p) == IF p \in DOMAIN t THEN t[p] ELSE "end"

\* The first position from p on with one of these symbols, or the end.
Stop(t, p, symbols) ==
  CHOOSE q \in p .. Len(t) + 1 :
    At(t, q) \in symbols \cup {"end"} /\ \A r \in p .. q - 1 : t[r] \notin symbols

\* The first position from p on with none of them.
Behind(t, p, symbols) ==
  CHOOSE q \in p .. Len(t) + 1 :
    At(t, q) \notin symbols /\ \A r \in p .. q - 1 : t[r] \in symbols

SkipWhiteSpace(t, p) == IF AtEnd(t, p) THEN Null ELSE Behind(t, p, White)

StringEqual(t, p, tag) ==
  p + Len(tag) - 1 <= Len(t) /\ SubSeq(t, p, p + Len(tag) - 1) = tag

ReadName(t, p) ==
  LET To(q) == [name |-> SubSeq(t, p, q - 1), p |-> q]
  IN IF At(t, p) \in Letters THEN To(Behind(t, p, Letters)) ELSE [name |-> <<>>, p |-> Null]

\* GetChar() and GetEntity(): a lone & is no character; a reference that
\* is not one ends the reading, unless the search backward from the next
\* semicolon meets the x of another.
GetChar(t, p) ==
  LET Reads(text, next) == [text |-> text, p |-> next]
      Reference(q) == IF At(t, q) \in DOMAIN HexRef THEN Reads(<<HexRef[t[q]]>>, q + 1)
                      ELSE Reads(<<>>, Null)
  IN IF t[p] \in DOMAIN HexRef THEN Reads(<<HexRef[t[p]]>>, p + 1)
     ELSE IF t[p] \in DOMAIN entity THEN Reads(<<entity[t[p]]>>, p + 1)
     ELSE IF t[p] # "&" THEN Reads(<<t[p]>>, p + 1)
     ELSE IF At(t, p + 1) # "#x" THEN Reads(<<>>, p + 1)
     ELSE Reference(Stop(t, p, DOMAIN HexRef \cup DOMAIN entity))

\* The loops of ReadText(): whitespace is kept, or becomes one blank before
\* the character that follows.
RECURSIVE ReadChars(_, _, _, _, _, _)
ReadChars(t, p, end, condense, blank, text) ==
  LET Add(c) == ReadChars(t, c.p, end, condense, FALSE,
                          text \o (IF blank THEN <<" ">> ELSE <<>>) \o c.text)
  IN IF AtEnd(t, p) \/ StringEqual(t, p, end) THEN [text |-> text, p |-> p]
     ELSE IF condense /\ t[p] \in White THEN ReadChars(t, p + 1, end, condense, TRUE, text)
     ELSE Add(GetChar(t, p))

\* Behind the end of a text, if anything follows.
Past(t, p, end) == IF AtEnd(t, p) \/ AtEnd(t, p + Len(end)) THEN Null ELSE p + Len(end)

ReadText(t, p, condense, end) ==
  LET Ended(r) == [text |-> r.text, p |-> Past(t, r.p, end)]
  IN Ended(ReadChars(t, IF condense THEN SkipWhiteSpace(t, p) ELSE p, end, condense, FALSE, <<>>))

\* Where an end is, or the text.
Find(t, p, end) ==
  CHOOSE q \in p .. Len(t) + 1 :
    /\ q > Len(t) \/ StringEqual(t, q, end)
    /\ \A r \in p .. q - 1 : ~StringEqual(t, r, end)

\* SetError(): the first error stays.  An assertion that fails ends the program.
SetError(err, new) == IF new = "abort" \/ err = "none" THEN new ELSE err

\* TiXmlAttribute::Parse()
ParseAttribute(t, at) ==
  LET Fails(err) == [p |-> Null, name |-> <<>>, value |-> <<>>, err |-> err]
      Reads(name, text, p) == [p |-> p, name |-> name, value |-> text, err |-> "none"]
      Quoted(name, r) == Reads(name, r.text, r.p)
      Bare(name, v, q) == IF At(t, q) \in {SQ, DQ} THEN Fails("attributes")
                          ELSE Reads(name, SubSeq(t, v, q - 1), q)
      Value(name, v) ==
        IF AtEnd(t, v) THEN Fails("attributes")
        ELSE IF t[v] \in {SQ, DQ} THEN Quoted(name, ReadText(t, v + 1, FALSE, <<t[v]>>))
        ELSE Bare(name, v, Stop(t, v, White \cup {"/", ">", SQ, DQ}))
      Assigned(name, p) == IF At(t, p) # "=" THEN Fails("attributes")
                           ELSE Value(name, SkipWhiteSpace(t, p + 1))
      Named(n) == IF AtEnd(t, n.p) THEN Fails("attributes")
                  ELSE Assigned(n.name, SkipWhiteSpace(t, n.p))
      From(p) == IF AtEnd(t, p) THEN Fails("none") ELSE Named(ReadName(t, p))
  IN From(SkipWhiteSpace(t, at))

IsBlank(value) == \A i \in DOMAIN value : value[i] \in White

\* A node that was read up to p.
Node(node, p) == [p |-> p, node |-> node, err |-> "none"]

\* Mutant: the "<" behind a text is taken with it.
ParseText_TakesTag(t, at, condense) ==
  LET Read(r) == Node(Leaf("text", r.text), r.p)
  IN Read(ReadText(t, at, condense, <<"<">>))

\* TiXmlText::Parse(), of text, and of CDATA.
ParseText(t, at, condense) ==
  LET Read(r) == Node(Leaf("text", r.text), IF r.p = Null THEN Null ELSE r.p - 1)
  IN Read(ReadText(t, at, condense, <<"<">>))

ParseCData(t, at) ==
  LET To(q) == Node(Leaf("cdata", SubSeq(t, at + 2, q - 1)), Past(t, q, <<"]]", ">">>))
  IN To(Find(t, at + 2, <<"]]", ">">>))

\* A comment or an unknown node that does not end is no error.
ParseComment(t, at) ==
  LET To(q) == Node(Leaf("comment", SubSeq(t, at + 2, q - 1)), IF AtEnd(t, q) THEN q ELSE q + 2)
  IN To(Find(t, at + 2, <<"--", ">">>))

ParseUnknown(t, at) ==
  LET To(q) == Node(Leaf("unknown", SubSeq(t, at + 1, q - 1)), IF AtEnd(t, q) THEN q ELSE q + 1)
  IN To(Stop(t, at + 1, {">"}))

\* The loop of TiXmlDeclaration::Parse(); values are version, encoding and
\* standalone.  The attributes it reads have no document to report to, and at
\* the end of the text the comparison is asserted to have something to compare.
Pseudo == <<"version", "encoding", "standalone">>

RECURSIVE ParseDeclaration(_, _, _)
ParseDeclaration(t, at, values) ==
  LET Set(i, a) == ParseDeclaration(t, a.p, [values EXCEPT ![i] = a.value])
      Go(p) == IF t[p] \in ToSet(Pseudo)
               THEN Set(CHOOSE i \in 1 .. 3 : Pseudo[i] = t[p], ParseAttribute(t, p))
               ELSE ParseDeclaration(t, Stop(t, p, White \cup {">"}), values)
      From(p) == IF AtEnd(t, p) THEN [Node(Leaf("declaration", values), Null) EXCEPT !.err = "abort"]
                 ELSE Go(p)
  IN IF AtEnd(t, at) THEN Node(Leaf("declaration", values), Null)
     ELSE IF t[at] = ">" THEN Node(Leaf("declaration", values), at + 1)
     ELSE From(SkipWhiteSpace(t, at))

RECURSIVE ParseElement(_, _, _), ParseTag(_, _, _, _), ReadValue(_, _, _, _, _)

\* Identify(), and Parse() of what it is; p is at a "<".
ParseNode(t, p, condense) ==
  LET n == At(t, p + 1) IN
  CASE n = "?xml" -> ParseDeclaration(t, p + 2, <<<<>>, <<>>, <<>>>>)
    [] n = "!--" -> ParseComment(t, p)
    [] n = "![CDATA[" -> ParseCData(t, p)
    [] n \in Letters -> ParseElement(t, p, condense)
    [] OTHER -> ParseUnknown(t, p)

\* TiXmlElement::ReadValue()
ReadValue(t, at, children, condense, err) ==
  LET Stopped(p, new) == [p |-> p, children |-> children, err |-> SetError(err, new)]
      Goes(n) == ReadValue(t, n.p,
                   IF n.node.kind = "text" /\ IsBlank(n.node.value) THEN children
                   ELSE Append(children, n.node), condense, SetError(err, n.err))
      From(p) ==
        IF AtEnd(t, p) THEN Stopped(p, IF p = Null THEN "value" ELSE "none")
        ELSE IF t[p] # "<" THEN Goes(ParseText(t, IF condense THEN p ELSE at, condense))
        ELSE IF At(t, p + 1) = "/" THEN Stopped(p, "none")
        ELSE Goes(ParseNode(t, p, condense))
  IN From(SkipWhiteSpace(t, at))

\* The loop of TiXmlElement::Parse() over attributes, and what comes behind.
ParseTag(t, at, el, condense) ==
  LET Fails(node, err) == [p |-> Null, node |-> node, err |-> err]
      Closed(full, p, err) == IF At(t, p) = ">" THEN [p |-> p + 1, node |-> full, err |-> err]
                              ELSE Fails(full, SetError(err, "end tag"))
      Close(v, end) ==
        Closed([el EXCEPT !.children = v.children],
               IF ~AtEnd(t, v.p) /\ StringEqual(t, v.p, end)
               THEN SkipWhiteSpace(t, v.p + Len(end)) ELSE Null, v.err)
      Attr(a) ==
        IF AtEnd(t, a.p) \/ \E i \in DOMAIN el.attrs : el.attrs[i].name = a.name
        THEN Fails(el, SetError(a.err, "element"))
        ELSE ParseTag(t, a.p, [el EXCEPT !.attrs =
               Append(@, [name |-> a.name, value |-> a.value])], condense)
      From(p) ==
        IF AtEnd(t, p) THEN Fails(el, "attributes")
        ELSE IF t[p] = "/" THEN IF At(t, p + 1) = ">" THEN Node(el, p + 2) ELSE Fails(el, "empty")
        ELSE IF t[p] = ">"
        THEN Close(ReadValue(t, p + 1, <<>>, condense, "none"), <<"<", "/">> \o el.value)
        ELSE Attr(ParseAttribute(t, p))
  IN From(SkipWhiteSpace(t, at))

\* TiXmlElement::Parse()
ParseElement(t, p, condense) ==
  LET Named(n) == IF AtEnd(t, n.p) THEN [Node(Element(n.name, <<>>, <<>>), Null) EXCEPT !.err = "name"]
                  ELSE ParseTag(t, n.p, Element(n.name, <<>>, <<>>), condense)
  IN Named(ReadName(t, p + 1))

\* The loop of TiXmlDocument::Parse(); what follows and is no node is ignored.
RECURSIVE ParseNodes(_, _, _, _, _)
ParseNodes(t, at, condense, children, err) ==
  LET Goes(n) == ParseNodes(t, n.p, condense, Append(children, n.node), SetError(err, n.err))
      From(p) == IF At(t, p) = "<" THEN Goes(ParseNode(t, p, condense))
                 ELSE [children |-> children,
                       err |-> IF children = <<>> THEN "document empty" ELSE err]
  IN From(SkipWhiteSpace(t, at))

Parse(t, condense) == ParseNodes(t, 1, condense, <<>>, "none")

\* LoadFile(): line ends of all kinds become "\n".
Normalized(bytes) ==
  LET Kept(i) == ~(bytes[i] = "\n" /\ i > 1 /\ bytes[i - 1] = "\r")
      kept == SelectSeq([i \in DOMAIN bytes |-> i], Kept)
  IN [i \in DOMAIN kept |-> IF bytes[kept[i]] = "\r" THEN "\n" ELSE bytes[kept[i]]]

LoadFile(bytes, condense) == Parse(Normalized(bytes), condense)

\* TiXmlDocument::RootElement(): 0, or the place of the first element.
RootElement(doc) == SelectInSeq(doc.children, LAMBDA node : node.kind = "element")

\* load_xmlfile() and parse_xmlstr(), which keep whitespace; only the first
\* looks at the error.
load_xmlfile(bytes) ==
  LET Checked(doc) == IF doc.err = "none" THEN <<doc>> ELSE <<>>
  IN Checked(LoadFile(bytes, FALSE))

parse_xmlstr(t) == Parse(t, FALSE)

-----------------------------------------------------------------------------
(* Writing.                                                                *)

CodeOf == [c \in {"&", "<", ">", DQ, SQ, "\n"} |->
             IF c = "\n" THEN "&#x0A;" ELSE CHOOSE e \in DOMAIN entity : entity[e] = c]

Encoded(value) == [i \in DOMAIN value |-> IF value[i] \in DOMAIN CodeOf THEN CodeOf[value[i]] ELSE value[i]]

\* Where a hexadecimal reference seems to begin.
RefAt(value, i) == value[i] = "&" /\ i < Len(value) /\ value[i + 1] = "#x"

\* EncodeString(): from such a place up to the last character nothing is encoded.
EncodeString(value) ==
  LET n == Len(value)
      From(i) == IF i = 0 THEN Encoded(value)
                 ELSE Encoded(SubSeq(value, 1, i - 1)) \o SubSeq(value, i, n - 1)
                      \o Encoded(<<value[n]>>)
  IN From(SelectInSeq([i \in DOMAIN value |-> RefAt(value, i)], LAMBDA b : b))

Assignment(name, value, quote) == name \o <<"=", quote>> \o value \o <<quote>>

PrintAttribute(a) ==
  Assignment(a.name, EncodeString(a.value), IF DQ \in ToSet(a.value) THEN SQ ELSE DQ)

PrintDeclaration(values) ==
  <<"<", "?xml", " ">>
  \o FlattenSeq([i \in 1 .. 3 |-> IF values[i] = <<>> THEN <<>>
                                     ELSE Assignment(<<Pseudo[i]>>, values[i], DQ) \o <<" ">>])
     \o <<"?", ">">>

\* One blank for a level.
Indent(depth) == [i \in 1 .. depth |-> " "]

PrintTag(el) ==
  <<"<">> \o el.value
  \o FlattenSeq([i \in DOMAIN el.attrs |-> <<" ">> \o PrintAttribute(el.attrs[i])])

EndTag(el) == <<"<", "/">> \o el.value \o <<">">>

\* A leaf that is no plain text, without its layout.
PrintLeaf(node) ==
  CASE node.kind = "cdata" -> <<"<", "![CDATA[">> \o node.value \o <<"]]", ">">>
    [] node.kind = "comment" -> <<"<", "!--">> \o node.value \o <<"--", ">">>
    [] node.kind = "unknown" -> <<"<">> \o node.value \o <<">">>
    [] node.kind = "declaration" -> PrintDeclaration(node.value)

IsText(node) == node.kind \in {"text", "cdata"}

PrintText(node, depth) ==
  IF node.kind = "text" THEN EncodeString(node.value)
  ELSE <<"\n">> \o Indent(depth) \o PrintLeaf(node) \o <<"\n">>

\* Print() to a file.
RECURSIVE PrintNode(_, _)
PrintNode(node, depth) ==
  CASE IsText(node) -> PrintText(node, depth)
    [] node.kind = "declaration" -> PrintLeaf(node)
    [] node.kind \in {"comment", "unknown"} -> Indent(depth) \o PrintLeaf(node)
    [] node.kind = "element" ->
         LET inside == FlattenSeq([i \in DOMAIN node.children |->
               (IF IsText(node.children[i]) THEN <<>> ELSE <<"\n">>)
               \o PrintNode(node.children[i], depth + 1)])
         IN Indent(depth) \o PrintTag(node)
            \o IF node.children = <<>> THEN <<" ", "/", ">">>
               ELSE IF Len(node.children) = 1 /\ IsText(node.children[1])
               THEN <<">">> \o inside \o EndTag(node)
               ELSE <<">">> \o inside \o <<"\n">> \o Indent(depth) \o EndTag(node)

PrintDocument(nodes) ==
  FlattenSeq([i \in DOMAIN nodes |-> PrintNode(nodes[i], 0) \o <<"\n">>])

\* TiXmlPrinter, as Accept() of a document leads it.
RECURSIVE Visit(_, _)
Visit(node, depth) ==
  Indent(depth)
  \o (IF node.kind = "text" THEN EncodeString(node.value)
      ELSE IF node.kind # "element" THEN PrintLeaf(node)
      ELSE PrintTag(node)
           \o IF node.children = <<>> THEN <<" ", "/", ">">>
              ELSE IF Len(node.children) = 1 /\ node.children[1].kind = "text"
              THEN <<">">> \o EncodeString(node.children[1].value) \o EndTag(node)
              ELSE <<">", "\n">>
                   \o FlattenSeq([i \in DOMAIN node.children |-> Visit(node.children[i], depth + 1)])
                   \o Indent(depth) \o EndTag(node))
  \o <<"\n">>

Printer(nodes) == FlattenSeq([i \in DOMAIN nodes |-> Visit(nodes[i], 0)])

-----------------------------------------------------------------------------
(* A text as bytes, and where in it a pointer is.                          *)

\* The bytes of the character that begins with this one; 1 if none does.
utf8ByteTable(byte) ==
  CASE byte \in 194 .. 223 -> 2
    [] byte \in 224 .. 239 -> 3
    [] byte \in 240 .. 244 -> 4
    [] OTHER -> 1

\* The bytes of a character; none of one that is too large.
ConvertUTF32ToUTF8(ucs) ==
  LET length == IF ucs >= 2097152 THEN 0
                ELSE CHOOSE n \in 1 .. 4 : /\ ucs < <<128, 2048, 65536, 2097152>>[n]
                                           /\ n = 1 \/ ucs >= <<128, 2048, 65536>>[n - 1]
  IN [i \in 1 .. length |->
        IF i = 1 THEN <<0, 192, 224, 240>>[length] + (ucs \div 64^(length - 1))
        ELSE 128 + ((ucs \div 64^(length - i)) % 64)]

\* Beyond ASCII everything is a letter.
IsAlpha(byte)    == byte \in 65 .. 90 \cup 97 .. 122 \cup 127 .. 255
IsAlphaNum(byte) == byte \in 48 .. 57 \/ IsAlpha(byte)

\* Characters without a width.
Marks == {<<239, 187, 191>>, <<239, 191, 190>>, <<239, 191, 191>>}

ByteAt(t, p) == IF p \in DOMAIN t THEN t[p] ELSE 0

\* What a document starts with: before its first byte.
ParsingData(row, col) == [p |-> 1, row |-> row, col |-> col]

\* The bytes of one character, and where the next is.  (In the code the loop
\* does not end at a byte 239 that has less than two others behind it.)
Advance(t, c, utf8, tabsize) ==
  LET Line(other) == [p   |-> c.p + (IF ByteAt(t, c.p + 1) = other THEN 2 ELSE 1),
                      row |-> c.row + 1, col |-> 0]
  IN CASE t[c.p] = 13 -> Line(10)
       [] t[c.p] = 10 -> Line(13)
       [] t[c.p] = 9  -> [c EXCEPT !.p = @ + 1, !.col = ((@ \div tabsize) + 1) * tabsize]
       [] utf8 /\ <<t[c.p], ByteAt(t, c.p + 1), ByteAt(t, c.p + 2)>> \in Marks -> [c EXCEPT !.p = @ + 3]
       [] OTHER -> [c EXCEPT !.p = @ + (IF utf8 THEN utf8ByteTable(t[c.p]) ELSE 1), !.col = @ + 1]

RECURSIVE StampFrom(_, _, _, _, _)
StampFrom(t, c, now, utf8, tabsize) ==
  IF c.p >= now \/ ByteAt(t, c.p) = 0 THEN c
  ELSE StampFrom(t, Advance(t, c, utf8, tabsize), now, utf8, tabsize)

\* TiXmlParsingData::Stamp(): the cursor goes on to now, unless the text ends before.
Stamp(t, c, now, utf8, tabsize) ==
  LET Stamped(end) == IF end.p < now THEN c ELSE end
  IN IF tabsize < 1 THEN c ELSE Stamped(StampFrom(t, c, now, utf8, tabsize))

-----------------------------------------------------------------------------
(* TiXmlString (tinystr.h, tinystr.cpp): what holds every name and value.  *)
(* A string has its text and the capacity of its buffer; nullrep_, that    *)
(* all empty strings share, has none.  Bytes are characters, 0 the NUL.    *)

nullrep_ == [text |-> <<>>, capacity |-> 0]

init(text, cap) == IF cap = 0 THEN nullrep_ ELSE [text |-> text, capacity |-> cap]

reserve(s, cap) == IF cap > s.capacity THEN init(s.text, cap) ELSE s

\* A buffer that is much too large is given up as well.
assign(s, text) ==
  IF Len(text) > s.capacity \/ s.capacity > 3 * (Len(text) + 8) THEN init(text, Len(text))
  ELSE [s EXCEPT !.text = text]

\* The text is not the string's own, whose buffer may go.
append(s, text) ==
  LET newsize == Len(s.text) + Len(text)
  IN [(IF newsize > s.capacity THEN reserve(s, newsize + s.capacity) ELSE s)
        EXCEPT !.text = @ \o text]

\* clear(): quit() and init(0, 0).
Cleared(s) == init(<<>>, 0)

\* operator+: one buffer for both.
Plus(a, b) == append(append(reserve(nullrep_, Len(a.text) + Len(b.text)), a.text), b.text)

\* What strcmp() sees; find() looks no further, either.
CStr(s) == LET nul == SelectInSeq(s.text, LAMBDA c : c = 0)
           IN IF nul = 0 THEN s.text ELSE SubSeq(s.text, 1, nul - 1)
find(s, c, offset) ==
  LET rest == [s EXCEPT !.text = SubSeq(@, offset + 1, Len(@))]
      at   == SelectInSeq(CStr(rest), LAMBDA x : x = c)
  IN IF at = 0 THEN -1 ELSE offset + at - 1
Equal(a, b) == Len(a.text) = Len(b.text) /\ CStr(a) = CStr(b)

Apply(s, c) ==
  CASE c.op = "assign"  -> assign(s, c.text)
    [] c.op = "append"  -> append(s, c.text)
    [] c.op = "reserve" -> reserve(s, Len(c.text))
    [] c.op = "clear"   -> Cleared(s)

-----------------------------------------------------------------------------
(* What they are for.                                                      *)

\* Values that EncodeString() lets through are left out, and values without
\* quotes, where the parser leaves an entity as it is written.
Encodable(value) ==
  \A i \in DOMAIN value :
    ~RefAt(value, i) /\ value[i] \notin DOMAIN HexRef \cup DOMAIN entity

\* Plain text that keeps its blanks: condensed, or all there is in its element.
KeepsBlanks(value, condense) ==
  /\ ~IsBlank(value)
  /\ condense => /\ Head(value) # " " /\ Last(value) # " "
                 /\ \A i \in 2 .. Len(value) : value[i - 1] # " " \/ value[i] # " "

\* A declaration is written as it is; texts side by side become one.
RECURSIVE Writable(_, _)
Writable(node, condense) ==
  /\ node.kind = "text" => Encodable(node.value) /\ KeepsBlanks(node.value, condense)
  /\ node.kind = "declaration" =>
       \A i \in 1 .. 3 : Encodable(node.value[i]) /\ ToSet(node.value[i]) \cap {DQ, "&"} = {}
  /\ \A i \in DOMAIN node.attrs : Encodable(node.attrs[i].value)
  /\ \A i \in DOMAIN node.children :
       /\ Writable(node.children[i], condense)
       /\ node.children[i].kind = "text" => condense \/ Len(node.children) = 1
       /\ i = 1 \/ node.children[i].kind # "text" \/ node.children[i - 1].kind # "text"

WithCR(text) ==
  FlattenSeq([i \in DOMAIN text |-> IF text[i] = "\n" THEN <<"\r", "\n">> ELSE <<text[i]>>])

\* What is printed, in both ways, is read again as it was, also from a file
\* with other line ends.
ReadsWhatItPrints(nodes, condense) ==
  (\A i \in DOMAIN nodes : Writable(nodes[i], condense)) =>
    \A text \in {PrintDocument(nodes), Printer(nodes)} :
    \A read \in {text, Normalized(WithCR(text))} :
      Parse(read, condense) = [children |-> nodes, err |-> "none"]

\* A text that is read without an error is a document that can be written.
Rereads(t) ==
  LET Again(doc) == doc.err = "none" => ReadsWhatItPrints(doc.children, TRUE)
  IN Again(Parse(t, TRUE))

\* A file that ends in the middle of its root element is not taken for a whole one.
NoticesCut(root) ==
  LET text == PrintNode(root, 0) IN
  \A n \in 0 .. Len(text) - 1 :
    load_xmlfile(SubSeq(text, 1, n)) = <<>>
    \/ RootElement(parse_xmlstr(SubSeq(text, 1, n))) = 0

\* A character beyond ASCII is written as the bytes its first one announces,
\* none of which is taken for markup or ends a name, and it can be read again.
WritesCharacter(ucs) ==
  LET bytes == ConvertUTF32ToUTF8(ucs) IN
  /\ Len(bytes) = utf8ByteTable(bytes[1])
  /\ FoldLeft(LAMBDA n, b : 64 * n + (b % 64), bytes[1] % <<128, 32, 16, 8>>[Len(bytes)], Tail(bytes))
     = ucs
  /\ ucs >= 128 => \A i \in DOMAIN bytes : IsAlpha(bytes[i]) /\ IsAlphaNum(bytes[i])

\* Whatever is done to a string, it has the text it should have, in a buffer that
\* holds it and is not much too large, and it is found there.
HoldsText(calls) ==
  LET Does(text, c) == CASE c.op = "assign"  -> c.text
                         [] c.op = "append"  -> text \o c.text
                         [] c.op = "reserve" -> text
                         [] c.op = "clear"   -> <<>>
      s    == FoldLeft(Apply, nullrep_, calls)
      text == FoldLeft(Does, <<>>, calls)
      most == Max({0} \cup {Len(FoldLeft(Does, <<>>, SubSeq(calls, 1, n))) : n \in DOMAIN calls}
                  \cup {Len(calls[n].text) : n \in {i \in DOMAIN calls : calls[i].op = "reserve"}})
  IN /\ s.text = text /\ Len(text) <= s.capacity /\ s.capacity <= 2 * most
     /\ Plus(s, s).text = text \o text /\ Plus(s, s).capacity = 2 * Len(text)
     /\ Equal(s, init(text, 99))
     /\ 0 \notin ToSet(text) =>
          \A offset \in 0 .. Len(text), c \in {1, 2} : LET found == find(s, c, offset) IN
            IF found = -1 THEN c \notin ToSet(SubSeq(text, offset + 1, Len(text)))
            ELSE text[found + 1] = c /\ c \notin ToSet(SubSeq(text, offset + 1, found))

\* Ends of lines, a tab, and characters of every length.
Lines == {<<13>>, <<10>>, <<13, 10>>, <<10, 13>>}
Units == Lines \cup Marks
  \cup {<<9>>, <<97>>, <<195, 169>>, <<226, 130, 172>>, <<239, 188, 161>>, <<240, 159, 152, 128>>}

\* Stamps count lines, whichever way they end, and the columns behind the last
\* one, whether a stamp is made behind each character or once at the end.
Locates(units, tabsize) ==
  LET text == FlattenSeq(units)
      last == Max({0} \cup {i \in DOMAIN units : units[i] \in Lines})
      Width(col, unit) == IF unit = <<9>> THEN (col \div tabsize + 1) * tabsize
                          ELSE IF unit \in Marks THEN col ELSE col + 1
      All(c)   == Stamp(text, c, Len(text) + 1, TRUE, tabsize)
      Ends(i)  == Len(FlattenSeq(SubSeq(units, 1, i))) + 1
      Each    == FoldLeft(LAMBDA c, i : Stamp(text, c, Ends(i), TRUE, tabsize),
                           ParsingData(0, 0), [i \in DOMAIN units |-> i])
      Together(i) == <<Last(units[i]), units[i + 1][1]>> \in {<<13, 10>>, <<10, 13>>}
                     /\ Len(units[i]) = 1
  IN (\A i \in 1 .. Len(units) - 1 : ~Together(i)) =>
       /\ All(ParsingData(0, 0)) =
            [p   |-> Len(text) + 1,
             row |-> Cardinality({i \in DOMAIN units : units[i] \in Lines}),
             col |-> FoldLeft(Width, 0, SubSeq(units, last + 1, Len(units)))]
       /\ Each = All(ParsingData(0, 0))
       /\ 9 \notin ToSet(text) =>
            Stamp(text, ParsingData(0, 0), Len(text) + 1, FALSE, tabsize).col
            = Len(FlattenSeq(SubSeq(units, last + 1, Len(units))))
=============================================================================
