------------------------------ MODULE Numbers -------------------------------
(***************************************************************************)
(* Numbers as text and back: utils_cstr2nbr.cpp, utils_nbr2str.cpp and the *)
(* conversions of event2text.cpp.  A text is a sequence of characters.     *)
(* Integers have the widths of the types, scaled down with the length up   *)
(* to which a text is looked at: as in the code, the longest such text has *)
(* more digits than a long long.                                           *)
(***************************************************************************)
EXTENDS Integers, FiniteSets, Sequences, SequencesExt

CONSTANTS
  MaxText,                                \* 20
  CharBits, ShortBits, IntBits, LongBits, \* 8, 16, 32, 64
  OctetMax                                \* 255

Type ==
  [CHAR  |-> [bits |-> CharBits,  signed |-> TRUE], UCHAR  |-> [bits |-> CharBits,  signed |-> FALSE],
   SHORT |-> [bits |-> ShortBits, signed |-> TRUE], USHORT |-> [bits |-> ShortBits, signed |-> FALSE],
   INT   |-> [bits |-> IntBits,   signed |-> TRUE], UINT   |-> [bits |-> IntBits,   signed |-> FALSE],
   LONG  |-> [bits |-> LongBits,  signed |-> TRUE], ULONG  |-> [bits |-> LongBits,  signed |-> FALSE]]

\* The values a variable of the type can have.
ValuesOf(type) ==
  LET t == Type[type]
  IN IF t.signed THEN -2^(t.bits - 1) .. 2^(t.bits - 1) - 1 ELSE 0 .. 2^t.bits - 1

\* What a number becomes in a variable of the type.
Cast(type, n) ==
  LET m == n % 2^Type[type].bits
  IN IF m \in ValuesOf(type) THEN m ELSE m - 2^Type[type].bits

DigitsInOrder == <<"0", "1", "2", "3", "4", "5", "6", "7", "8", "9">>

Digit == [c \in ToSet(DigitsInOrder) |-> (CHOOSE i \in 1 .. 10 : DigitsInOrder[i] = c) - 1]

AllDigits(text) == ToSet(text) \subseteq DOMAIN Digit

-----------------------------------------------------------------------------
\* cstr2nbr(), cstrtonbr()

\* What is left of a text behind leading blanks.
isspace_(text) ==
  LET from == SelectInSeq(text, LAMBDA c : c # " ")
  IN IF from = 0 THEN <<>> ELSE SubSeq(text, from, Len(text))

\* The sign that is saved and the text behind it.
Signed(text) ==
  LET rest == isspace_(text)
  IN IF rest # <<>> /\ Head(rest) \in {"-", "+"}
     THEN [negative |-> Head(rest) = "-", rest |-> Tail(rest)]
     ELSE [negative |-> FALSE, rest |-> rest]

\* Digits accumulate in a long long.
Accumulate(digits) ==
  FoldLeft(LAMBDA total, c : Cast("LONG", 10 * total + Digit[c]), 0, digits)

Negated(negative, total) == IF negative THEN Cast("LONG", -total) ELSE total

\* A text that is too long gives the default, one with other characters the
\* default too, but with the sign of the text.
ReadOr(s, default_value) ==
  Negated(s.negative, IF AllDigits(s.rest) THEN Accumulate(s.rest) ELSE default_value)

cstr2nbr_(text, default_value) ==
  IF Len(text) > MaxText THEN default_value ELSE ReadOr(Signed(text), default_value)

Refused == [ok |-> FALSE, value |-> 0]

ReadOrRefuse(s) ==
  IF AllDigits(s.rest) THEN [ok |-> TRUE, value |-> Negated(s.negative, Accumulate(s.rest))]
  ELSE Refused

cstrtonbr_(text) == IF Len(text) > MaxText THEN Refused ELSE ReadOrRefuse(Signed(text))

\* Mutant: what does not fit is cut off, not refused.
InRange_Always(type, value) == TRUE

\* The types as wide as a long long have no test.
InRange(type, value) == type \in {"LONG", "ULONG"} \/ value \in ValuesOf(type)

\* The target keeps its value when the text is refused.
Fitted(type, r, target) ==
  IF r.ok /\ InRange(type, r.value)
  THEN [ok |-> TRUE, value |-> Cast(type, r.value)]
  ELSE [ok |-> FALSE, value |-> target]

cstrtonbr(type, text, target) == Fitted(type, cstrtonbr_(text), target)

FittedOr(type, result, default_value) ==
  IF InRange(type, result) THEN Cast(type, result) ELSE default_value

cstr2nbr(type, text, default_value) ==
  FittedOr(type, cstr2nbr_(text, Cast("LONG", default_value)), default_value)

\* A double as a number and the power of ten it is divided by; no limit on
\* the length, one point, and any of the digits may be missing.
cstrtonbr_double(text) ==
  LET s      == Signed(text)
      point  == SelectInSeq(s.rest, LAMBDA c : c = ".")
      before == IF point = 0 THEN s.rest ELSE SubSeq(s.rest, 1, point - 1)
      behind == IF point = 0 THEN <<>> ELSE SubSeq(s.rest, point + 1, Len(s.rest))
      val    == FoldLeft(LAMBDA n, c : 10 * n + Digit[c], 0, before \o behind)
  IN IF ~AllDigits(before) \/ ~AllDigits(behind) THEN [ok |-> FALSE]
     ELSE [ok |-> TRUE, val |-> (IF s.negative THEN -val ELSE val), power |-> 10^Len(behind)]

-----------------------------------------------------------------------------
\* nbr2str(), and the tables get_value and set_value of event2text

nbr2str(n) ==
  LET size  == IF n < 0 THEN -n ELSE n
      count == CHOOSE k \in 1 .. 20 : size < 10^k /\ (k = 1 \/ size >= 10^(k - 1))
      text  == [i \in 1 .. count |-> DigitsInOrder[((size \div 10^(count - i)) % 10) + 1]]
  IN IF n < 0 THEN <<"-">> \o text ELSE text

\* Numbers in a file of text.  (A char is written as it is, not as a number.)
get_value(type, n) == nbr2str(n)
set_value(type, text) == cstr2nbr(type, text, 0)

-----------------------------------------------------------------------------
\* ip2str(), str2ip(): an address is its four octets, the highest first.

ip2str(ip) ==
  FlattenSeq([i \in 1 .. 4 |-> (IF i = 1 THEN <<>> ELSE <<".">>) \o nbr2str(ip[i])])

\* Mutant: an octet is not tested.
Octet_Any(temp_val) == [ok |-> TRUE, value |-> cstr2nbr("INT", temp_val, 0) % (OctetMax + 1)]

\* An octet is an int, 0 when it does not fit one, and refused beyond 255.
Octet(temp_val) ==
  LET n == cstr2nbr("INT", temp_val, 0) IN [ok |-> n \in 0 .. OctetMax, value |-> n]

\* A point ends an octet; there is none behind the fourth.
Ended(s, octet) ==
  IF ~octet.ok \/ Len(s.ip) = 3 THEN [s EXCEPT !.failed = TRUE]
  ELSE [s EXCEPT !.ip = Append(@, octet.value), !.temp_val = <<>>]

\* Digits are collected, all but points is skipped.
NextChar(s, c) ==
  IF s.failed THEN s
  ELSE IF c \in DOMAIN Digit THEN [s EXCEPT !.temp_val = Append(@, c)]
  ELSE IF c # "." THEN s
  ELSE Ended(s, Octet(s.temp_val))

\* The octets up to the last point and the one behind it.
Address(s, octet, default_val) ==
  IF s.failed \/ Len(s.ip) # 3 \/ ~octet.ok THEN default_val ELSE Append(s.ip, octet.value)

AddressOf(s, default_val) == Address(s, Octet(s.temp_val), default_val)

str2ip(text, default_val) ==
  IF text = <<>> THEN <<0, 0, 0, 0>>
  ELSE AddressOf(FoldLeft(NextChar, [ip |-> <<>>, temp_val |-> <<>>, failed |-> FALSE], text),
                 default_val)

-----------------------------------------------------------------------------
\* logic_function: fields that hold numbers are compared as they lie in the
\* buffer.  (Floats and doubles are left out.)

\* The types without one of their own in the tables of comparisons.
ComparedAs(type) ==
  CASE type = "IP" -> "UINT"
    [] type \in {"DATETIME", "MONTHTIME"} -> "ULONG"
    [] OTHER -> type

ComparedTypes == DOMAIN Type \cup {"IP", "DATETIME", "MONTHTIME"}

\* What the bytes of a field may be, those of a number, and the number again.
Fields(type)    == 0 .. 2^Type[ComparedAs(type)].bits - 1
Stored(type, n) == n % 2^Type[ComparedAs(type)].bits
Value(type, x)  == Cast(ComparedAs(type), x)

equal_to(type, x, y)      == Value(type, x) = Value(type, y)
not_equal_to(type, x, y)  == Value(type, x) # Value(type, y)
greater(type, x, y)       == Value(type, x) > Value(type, y)
less(type, x, y)          == Value(type, x) < Value(type, y)
greater_equal(type, x, y) == Value(type, x) >= Value(type, y)
less_equal(type, x, y)    == Value(type, x) <= Value(type, y)

\* Its table takes a month's time for an unsigned int, the lower half.
TestedAs(type) == IF type = "MONTHTIME" THEN "UINT" ELSE ComparedAs(type)

BitsOf(type, x) == {k \in 0 .. Type[TestedAs(type)].bits - 1 : (x \div 2^k) % 2 = 1}

bitwise_and(type, x, y) == BitsOf(type, x) \cap BitsOf(type, y) # {}

LogicFuncs == {"EQUAL_TO", "NOT_EQUAL_TO", "GREATER", "LESS", "GREATER_EQUAL", "LESS_EQUAL",
               "BITWISE_AND"}

call(logic_func, type, x, y) ==
  CASE logic_func = "EQUAL_TO"      -> equal_to(type, x, y)
    [] logic_func = "NOT_EQUAL_TO"  -> not_equal_to(type, x, y)
    [] logic_func = "GREATER"       -> greater(type, x, y)
    [] logic_func = "LESS"          -> less(type, x, y)
    [] logic_func = "GREATER_EQUAL" -> greater_equal(type, x, y)
    [] logic_func = "LESS_EQUAL"    -> less_equal(type, x, y)
    [] logic_func = "BITWISE_AND"   -> bitwise_and(type, x, y)

\* utils_function: the text of a configuration becomes bytes of a type that
\* has a conversion; there is none for texts, times and addresses.
to_bytes(type, text) ==
  IF type \notin DOMAIN Type THEN [size |-> 0]
  ELSE [size |-> Type[type].bits, bytes |-> Stored(type, cstr2nbr(type, text, 0))]

Bytes(type, r) ==
  IF r.ok THEN [ok |-> TRUE, size |-> Type[type].bits, bytes |-> Stored(type, r.value)]
  ELSE [ok |-> FALSE]

try_to_bytes(type, text) ==
  IF type \in DOMAIN Type THEN Bytes(type, cstrtonbr(type, text, 0)) ELSE [ok |-> FALSE]

-----------------------------------------------------------------------------
(* What they are for.                                                      *)

\* The number that digits write.
Exact(digits) ==
  LET terms == [i \in DOMAIN digits |-> Digit[digits[i]] * 10^(Len(digits) - i)]
  IN FoldLeft(+, 0, terms)

\* The ways to write a number: blanks, a sign, digits.
Readings(text) ==
  {r \in [blanks : 0 .. Len(text), sign : 0 .. 1] :
     /\ r.blanks + r.sign <= Len(text)
     /\ \A i \in 1 .. r.blanks : text[i] = " "
     /\ r.sign = 1 => text[r.blanks + 1] \in {"-", "+"}
     /\ AllDigits(SubSeq(text, r.blanks + r.sign + 1, Len(text)))}

NumberOf(text, r) ==
  LET n == Exact(SubSeq(text, r.blanks + r.sign + 1, Len(text)))
  IN IF r.sign = 1 /\ text[r.blanks + 1] = "-" THEN -n ELSE n

\* A text whose number a long long can hold is a value of the type, or it is
\* refused and the target or the default stays.
ReadsNumber(type, text, old) ==
  \A r \in {cstrtonbr(type, text, old)}, n \in {cstr2nbr(type, text, old)} :
     IF Readings(text) = {} \/ Len(text) > MaxText
     THEN r = [ok |-> FALSE, value |-> old] /\ (old = 0 \/ ToSet(text) \cap {"-"} = {} => n = old)
     ELSE \A way \in Readings(text) :
            NumberOf(text, way) \in ValuesOf("LONG") =>
              /\ n = r.value
              /\ IF type = "ULONG" \/ NumberOf(text, way) \in ValuesOf(type)
                 THEN r = [ok |-> TRUE, value |-> Cast(type, NumberOf(text, way))]
                 ELSE r = [ok |-> FALSE, value |-> old]

\* What is written of a number, its sign and every digit, is read again.
ReadsWhatItWrites(type) ==
  \A n \in ValuesOf(type) :
    /\ set_value(type, get_value(type, n)) = n
    /\ cstrtonbr(type, nbr2str(n), 0) = [ok |-> TRUE, value |-> n]
    /\ cstrtonbr_double(nbr2str(n)) = [ok |-> TRUE, val |-> n, power |-> 1]

\* Fields compare as the numbers that were put into them: one of any two is
\* less unless they are equal, and an order of the bytes as unsigned numbers,
\* with the sign turned, is the same.  A test of bits finds a common one, in a
\* month's time only of the lower half.
ComparesNumbers(type) ==
  LET t     == Type[ComparedAs(type)]
      Turned(x) == IF t.signed THEN (x + 2^(t.bits - 1)) % 2^t.bits ELSE x
      Holds(x, y) == {f \in LogicFuncs \ {"BITWISE_AND"} : call(f, type, x, y)}
      some  == {0, 1, 2, 2^(t.bits - 1) - 1, 2^(t.bits - 1), 2^t.bits - 1}
  IN \A x \in Fields(type), y \in some :
       /\ Stored(type, Value(type, x)) = x
       /\ Holds(x, y) =
            CASE x = y -> {"EQUAL_TO", "GREATER_EQUAL", "LESS_EQUAL"}
              [] Turned(x) < Turned(y) -> {"NOT_EQUAL_TO", "LESS", "LESS_EQUAL"}
              [] Turned(x) > Turned(y) -> {"NOT_EQUAL_TO", "GREATER", "GREATER_EQUAL"}
       /\ type # "MONTHTIME" =>
            (call("BITWISE_AND", type, x, y) = \E k \in 0 .. t.bits - 1 :
               2^k <= x % 2^(k + 1) /\ 2^k <= y % 2^(k + 1))
       /\ call("BITWISE_AND", type, x, y) => x # 0 /\ y # 0

\* What a configuration compares a field with is what the field may hold.
ComparesWithText(type, text) ==
  \A r \in {try_to_bytes(type, text)}, read \in {cstrtonbr(type, text, 0)} :
    r.ok => /\ r.bytes \in Fields(type)
            /\ to_bytes(type, text) = [size |-> r.size, bytes |-> r.bytes]
            /\ \A n \in {Value(type, 0), Value(type, 2^(Type[type].bits - 1))},
                  f \in {"EQUAL_TO", "LESS"} :
                 call(f, type, Stored(type, n), r.bytes)
                 = IF f = "LESS" THEN n < read.value ELSE n = read.value

\* Addresses of digits and points are four octets, none of them beyond 255
\* (and none beyond an int); a missing one is 0.
ReadsAddress(text, default_val) ==
  LET points  == {i \in DOMAIN text : text[i] = "."}
      ends    == {0} \cup points \cup {Len(text) + 1}
      starts  == ends \ {Len(text) + 1}
      group(i) == SubSeq(text, i + 1,
                         (CHOOSE j \in ends : j > i /\ \A k \in ends : k > i => j <= k) - 1)
      octets  == [k \in 1 .. Cardinality(starts) |->
                    Exact(group(CHOOSE i \in starts : Cardinality({j \in starts : j < i}) = k - 1))]
  IN ToSet(text) \subseteq DOMAIN Digit \cup {"."} /\ ToSet(octets) \subseteq ValuesOf("INT")
     => str2ip(text, default_val) =
          IF text = <<>> THEN <<0, 0, 0, 0>>
          ELSE IF Len(octets) = 4 /\ ToSet(octets) \subseteq 0 .. OctetMax THEN octets
          ELSE default_val
=============================================================================
