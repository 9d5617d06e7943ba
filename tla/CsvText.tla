------------------------------ MODULE CsvText -------------------------------
(***************************************************************************)
(* Files of text (event2text.cpp): a line per event, its persistent fields *)
(* in quotes and separated by a delimiter.  The reader takes the file in   *)
(* pieces of a buffer, and a line of a file made by hand may do without    *)
(* quotes and end in CR LF.  A text is a sequence of characters; the file  *)
(* that is read is its rest, the buffer and the cursor in the buffer.      *)
(***************************************************************************)
EXTENDS Integers, Sequences, SequencesExt

CONSTANTS
  Quote, \* csv_escape_
  Comma, \* csv_delimiter_
  LF, CR,
  Slash, EnChar \* '\\' and 'n', the two characters that stand for an LF

\* The codes of six characters.
ASSUME CsvTextAssumption ==
  LET special == <<Quote, Comma, LF, CR, Slash, EnChar>>
  IN special \in Seq(Nat) /\ IsInjective(special)

------------------------------------------------------------------------------
\* write()

\* Mutant: a quote in a value is written as it is.
get_value_str_raw(value) ==
  FlattenSeq([i \in DOMAIN value |-> IF value[i] = LF THEN <<Slash, EnChar>> ELSE <<value[i]>>])

\* get_value_str()
get_value_str(value) ==
  FlattenSeq([i \in DOMAIN value |->
                CASE value[i] = LF    -> <<Slash, EnChar>>
                  [] value[i] = Quote -> <<Quote, Quote>>
                  [] OTHER            -> <<value[i]>>])

\* The line of an event whose first field is persistent.
LineOf(event) ==
  FlattenSeq([i \in DOMAIN event |->
                (IF i = 1 THEN <<>> ELSE <<Comma>>)
                \o <<Quote>> \o get_value_str(event[i]) \o <<Quote>>])
  \o <<LF>>

\* What a value is read as: nothing turns the two characters into an LF again.
Shown(value) ==
  FlattenSeq([i \in DOMAIN value |-> IF value[i] = LF THEN <<Slash, EnChar>> ELSE <<value[i]>>])

------------------------------------------------------------------------------
\* read()

Opened(text) == [rest |-> text, buf |-> <<>>, cur |-> 0]

\* read2buf()
read2buf(f, size) ==
  LET n == IF Len(f.rest) < size THEN Len(f.rest) ELSE size
  IN [rest |-> SubSeq(f.rest, n + 1, Len(f.rest)),
      buf  |-> SubSeq(f.rest, 1, n),
      cur  |-> 0]

is_end(f) == f.rest = <<>> /\ f.cur >= Len(f.buf)

\* Mutant: the character behind a CR at the end of the buffer is not skipped.
AfterCR_kept(f, size) ==
  LET next == f.cur + 1
  IN [f EXCEPT !.cur = IF next < Len(f.buf) /\ f.buf[next + 1] = LF THEN next + 1 ELSE next]

\* A CR ends the line, with the LF behind it.  At the end of the buffer, the
\* character that comes first in the next one is passed over unseen.
AfterCR(f, size) ==
  LET g    == IF f.cur >= Len(f.buf) - 1 THEN read2buf(f, size) ELSE f
      next == g.cur + 1
  IN [g EXCEPT !.cur = IF next < Len(g.buf) /\ g.buf[next + 1] = LF THEN next + 1 ELSE next]

\* The loop of readfields_csv() is outside of quotes (state 0), inside (1), or
\* behind a quote that ends the value or is the first of two (2).  What it does
\* with the next character of the buffer:
NextChar(s, size) ==
  LET c      == s.file.buf[s.file.cur + 1]
      beyond == [s.file EXCEPT !.cur = @ + 1]
      Ends   == c = LF \/ c = CR
  IN CASE s.state # 1 /\ c = Comma ->
            [s EXCEPT !.file = beyond, !.state = 0, !.line = <<>>, !.fields = Append(@, s.line)]
       [] s.state # 1 /\ Ends ->
            [s EXCEPT !.file = IF c = CR THEN AfterCR(s.file, size) ELSE beyond,
                      !.fields = Append(@, s.line), !.over = TRUE]
       [] s.state = 0 /\ c = Quote -> [s EXCEPT !.file = beyond, !.state = 1]
       [] s.state = 1 /\ c = Quote -> [s EXCEPT !.file = beyond, !.state = 2]
       [] s.state = 2 /\ c = Quote ->
            [s EXCEPT !.file = beyond, !.state = 1, !.line = Append(@, c)]
       [] OTHER -> [s EXCEPT !.file = beyond, !.line = Append(@, c)]

\* At the end of the buffer it goes on with the next piece of the file, or ends
\* with it; a value whose quotes are open is dropped with all fields.
NextPiece(s, size) ==
  LET g == read2buf(s.file, size)
  IN IF g.buf # <<>> THEN [s EXCEPT !.file = g]
     ELSE [s EXCEPT !.file = g, !.over = TRUE,
                    !.fields = IF s.state = 1 THEN <<>> ELSE Append(@, s.line)]

Turn(s, size) ==
  IF s.over THEN s
  ELSE IF s.file.cur >= Len(s.file.buf) THEN NextPiece(s, size)
  ELSE NextChar(s, size)

\* readfields_csv(): a turn takes a character, or is followed by one that does.
readfields_csv(f, size) ==
  LET turns == 2 * (Len(f.buf) + Len(f.rest)) + 2
      loop[k \in 0 .. turns] ==
        IF k = 0 THEN [file |-> f, state |-> 0, line |-> <<>>, fields |-> <<>>, over |-> FALSE]
        ELSE Turn(loop[k - 1], size)
  IN loop[turns]
=============================================================================
