----------------------------- MODULE EventFile ------------------------------
(***************************************************************************)
(* A file of events from its first event to the last that is read          *)
(* (FileOutputter::write() and close(), FilepathScanner::CmdFileReader of  *)
(* processing/event_file_handler.cpp): blocks of bytes, text, or text that *)
(* was made by hand.  Who may read a file that is not finished, and when   *)
(* it goes away, is the module CommandFiles.  A call that fails is left    *)
(* out here, and so are files of more blocks than the table holds.         *)
(***************************************************************************)
EXTENDS LzoFile, CsvText

CONSTANTS
  Sizes,     \* lengths of an event in bytes: len()
  Values,    \* values of a field
  Plain,     \* the values that are written by hand, without quotes
  FieldCount,\* persistent_field_count()
  BufSizes,  \* buffersize_
  MaxEvents, \* bound: events in a file of blocks
  MaxLines   \* bound: events in a text

ASSUME EventFileAssumption ==
  /\ Sizes \subseteq Nat \ {0} /\ BufSizes \subseteq Nat \ {0}
  /\ FieldCount \in Nat \ {0}
  /\ Values \cup Plain \subseteq Seq(Nat)
  /\ \A v \in Plain : \A i \in DOMAIN v : v[i] \notin {Quote, Comma, LF, CR}

VARIABLES
  format,  \* cmdType_: "lzo", "csv", or "hand" for text made by hand
  bufSize, \* buffersize_ of the reader of text
  log,     \* the events that were accepted
  writer,  \* lzofile_ of the outputter
  file,    \* the finished file of blocks, or the text
  reader,  \* lzofile_ or txtfile_ of the CmdFileReader
  offset,  \* offset4read_
  got,     \* what was read
  phase

vars == <<format, bufSize, log, writer, file, reader, offset, got, phase>>

\* The i-th event as bytes that tell it and their places, and the events of a
\* format: the contents of their fields, of one that holds all bytes for blocks.
Bytes(i, n) == << [j \in 1 .. n |-> 10 * i + j] >>
EventsOf(f) ==
  CASE f = "lzo"  -> {Bytes(i, n) : i \in 1 .. MaxEvents, n \in Sizes}
    [] f = "csv"  -> [1 .. FieldCount -> Values]
    [] f = "hand" -> [1 .. FieldCount -> Plain]

\* A line without quotes that ends in CR LF.
HandLine(event) ==
  FlattenSeq([i \in DOMAIN event |-> (IF i = 1 THEN <<>> ELSE <<Comma>>) \o event[i]])
  \o <<CR, LF>>

\* What an event of text is read as.
ShownAs(event) == [i \in DOMAIN event |-> Shown(event[i])]

------------------------------------------------------------------------------
Init ==
  /\ format \in {"lzo", "csv", "hand"} /\ bufSize \in BufSizes
  /\ format = "lzo" => bufSize = CHOOSE n \in BufSizes : TRUE
  /\ log = <<>> /\ writer = NewWriter /\ file = <<>>
  /\ reader = <<>> /\ offset = 0 /\ got = <<>>
  /\ phase = "writing"

\* FileOutputter::write(): an event the file refuses is lost.
WriteBlocks(e) ==
  /\ phase = "writing" /\ format = "lzo" /\ Len(log) < MaxEvents
  /\ \E n \in Sizes : e = Bytes(Len(log) + 1, n)
  /\ Fits(Written(writer, e[1]))
  /\ writer' = Written(writer, e[1])
  /\ log' = IF Refused(writer) THEN log ELSE Append(log, e)
  /\ UNCHANGED <<format, bufSize, file, reader, offset, got, phase>>

WriteText(e) ==
  /\ phase = "writing" /\ format # "lzo" /\ Len(log) < MaxLines
  /\ file' = file \o (IF format = "csv" THEN LineOf(e) ELSE HandLine(e))
  /\ log' = Append(log, e)
  /\ UNCHANGED <<format, bufSize, writer, reader, offset, got, phase>>

\* close() of the outputter and open() of the reader.
Open ==
  /\ phase = "writing" /\ phase' = "reading"
  /\ IF format = "lzo" THEN file' = Closed(writer) /\ reader' = NewReader
                       ELSE file' = file /\ reader' = Opened(file)
  /\ UNCHANGED <<format, bufSize, log, writer, offset, got>>

\* CmdFileReader::read() of blocks, of an event as long as the next one.
ReadBlocks ==
  /\ phase = "reading" /\ format = "lzo"
  /\ \E n \in IF Len(got) < Len(log) THEN {Len(log[Len(got) + 1][1])} ELSE Sizes :
       LET result == Read(file, Seek(file, reader, offset), n) IN
       /\ reader' = result.reader
       /\ offset' = offset + Len(result.bytes)
       /\ IF Len(result.bytes) = n
          THEN got' = Append(got, <<result.bytes>>) /\ UNCHANGED phase
          ELSE phase' = "over" /\ UNCHANGED got
  /\ UNCHANGED <<format, bufSize, log, writer, file>>

\* CmdFileReader::read() of text: false also when the number of fields is not
\* the one of the event's metadata.
ReadText ==
  /\ phase = "reading" /\ format # "lzo"
  /\ LET result == readfields_csv(reader, bufSize) IN
     IF is_end(reader)
     THEN phase' = "over" /\ UNCHANGED <<reader, got>>
     ELSE /\ reader' = result.file
          /\ IF Len(result.fields) = FieldCount
             THEN got' = Append(got, result.fields) /\ UNCHANGED phase
             ELSE phase' = "over" /\ UNCHANGED got
  /\ UNCHANGED <<format, bufSize, log, writer, file, offset>>

Next ==
  \/ \E e \in EventsOf(format) : WriteBlocks(e) \/ WriteText(e)
  \/ Open \/ ReadBlocks \/ ReadText

Spec == Init /\ [][Next]_vars

------------------------------------------------------------------------------
\* Every block of the file is found under the number of bytes before it, the
\* table ends with the end of the file, and no byte is missing.
TableRight ==
  format = "lzo" /\ phase # "writing" =>
    /\ FlattenSeq(file.blocks) = FlattenSeq(FlattenSeq(log))
    /\ Len(file.table) = Len(file.blocks) + 1
    /\ \A k \in 1 .. Len(file.table) :
         file.table[k] = <<k, Len(FlattenSeq(SubSeq(file.blocks, 1, k - 1)))>>
    /\ \A k \in 1 .. Len(file.blocks) : Len(file.blocks[k]) \in 1 .. BlockSize

\* The file, in any of its formats, is a log of events.
Log == INSTANCE EventLog WITH
         log <- [i \in DOMAIN log |-> IF format = "lzo" THEN log[i] ELSE ShownAs(log[i])]
ImplementsLog == Log!Spec
=============================================================================
