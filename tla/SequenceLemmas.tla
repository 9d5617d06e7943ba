--------------------------- MODULE SequenceLemmas ---------------------------
(***************************************************************************)
(* Facts about sequences that several proofs need: concatenation, parts of *)
(* sequences, and FlattenSeq(), of which the library says nothing.         *)
(***************************************************************************)
EXTENDS Integers, SequencesExt, SequenceTheorems, WellFoundedInduction, TLAPS

\* Concatenation.
LEMMA Associative ==
  ASSUME NEW S, NEW a \in Seq(S), NEW b \in Seq(S), NEW c \in Seq(S)
  PROVE  (a \o b) \o c = a \o (b \o c)
  OBVIOUS

\* What is appended to the second sequence is appended to both.
LEMMA AppendToConcat ==
  ASSUME NEW S, NEW a \in Seq(S), NEW b \in Seq(S), NEW e \in S
  PROVE  a \o Append(b, e) = Append(a \o b, e)
  OBVIOUS

\* A set of numbers has a smallest one.
LEMMA Smallest ==
  ASSUME NEW T \in SUBSET Nat, T # {}
  PROVE  \E n \in T : \A k \in T : n <= k
<1>1. PICK n \in T : \A k \in T : ~(<<k, n>> \in OpToRel(<, Nat))
  BY WFMin, NatLessThanWellFounded
<1>2. \A k \in T : ~(k < n)
  BY <1>1 DEF OpToRel
<1> QED
  BY <1>2

\* FlattenSeq() is defined by a recursive function: f is that function, on the
\* first m sequences of ss.
Flattens(f, ss, m) == f = [i \in 1 .. m |-> IF i = 1 THEN ss[i] ELSE f[i - 1] \o ss[i]]

\* The value of the recursive function at one place.
LEMMA FlattensAt ==
  ASSUME NEW f, NEW ss, NEW m, Flattens(f, ss, m), NEW i \in 1 .. m
  PROVE  f[i] = IF i = 1 THEN ss[i] ELSE f[i - 1] \o ss[i]
<1> DEFINE Value(j) == IF j = 1 THEN ss[j] ELSE f[j - 1] \o ss[j]
<1>1. f = [j \in 1 .. m |-> Value(j)]
  BY DEF Flattens
<1> HIDE DEF Value
<1>2. f[i] = Value(i)
  BY <1>1
<1> QED
  BY <1>2 DEF Value

\* There is such a function for every m.
LEMMA FlattensExists ==
  ASSUME NEW ss, NEW m \in Nat
  PROVE  \E f : Flattens(f, ss, m)
<1> DEFINE T == {k \in Nat : ~\E f : Flattens(f, ss, k)}
<1> SUFFICES ASSUME T # {} PROVE FALSE
  OBVIOUS
<1>1. PICK n \in T : \A k \in T : n <= k
  <2> HIDE DEF T
  <2>1. T \in SUBSET Nat
    BY DEF T
  <2> QED
    BY <2>1, Smallest
<1>2. CASE n = 0
  <2>1. Flattens(<<>>, ss, 0)
    BY DEF Flattens
  <2> QED
    BY <1>2, <2>1
<1>3. CASE n # 0
  <2>1. n - 1 \in Nat /\ n - 1 \notin T
    BY <1>1, <1>3
  <2>2. PICK f : Flattens(f, ss, n - 1)
    BY <2>1
  <2> DEFINE g == [i \in 1 .. n |-> IF i = 1 THEN ss[i] ELSE f[i - 1] \o ss[i]]
  <2>3. \A i \in 1 .. n - 1 : f[i] = g[i]
    <3> SUFFICES ASSUME NEW i \in 1 .. n - 1 PROVE f[i] = g[i]
      OBVIOUS
    <3>1. f[i] = IF i = 1 THEN ss[i] ELSE f[i - 1] \o ss[i]
      BY <2>2, FlattensAt
    <3>2. i \in 1 .. n
      BY <2>1
    <3> QED
      BY <3>1, <3>2
  <2>4. g = [i \in 1 .. n |-> IF i = 1 THEN ss[i] ELSE g[i - 1] \o ss[i]]
    <3>1. \A i \in 1 .. n : i # 1 => f[i - 1] = g[i - 1]
      <4>1. \A i \in 1 .. n : i # 1 => i - 1 \in 1 .. n - 1
        BY <2>1
      <4> HIDE DEF g
      <4> QED
        BY <4>1, <2>3
    <3> HIDE DEF g
    <3>2. g = [i \in 1 .. n |-> IF i = 1 THEN ss[i] ELSE f[i - 1] \o ss[i]]
      BY DEF g
    <3> QED
      BY <3>1, <3>2
  <2> QED
    BY <2>4 DEF Flattens
<1> QED
  BY <1>2, <1>3

\* Its values are sequences of the elements.
LEMMA FlattensType ==
  ASSUME NEW S, NEW ss \in Seq(Seq(S)), NEW m \in 0 .. Len(ss), NEW f, Flattens(f, ss, m)
  PROVE  \A i \in 1 .. m : f[i] \in Seq(S)
<1> DEFINE T == {k \in 1 .. m : f[k] \notin Seq(S)}
<1> SUFFICES ASSUME T # {} PROVE FALSE
  OBVIOUS
<1>1. PICK n \in T : \A k \in T : n <= k
  <2> HIDE DEF T
  <2>1. T \in SUBSET Nat
    BY DEF T
  <2> QED
    BY <2>1, Smallest
<1>2. ss[n] \in Seq(S) /\ f[n] = IF n = 1 THEN ss[n] ELSE f[n - 1] \o ss[n]
  <2>1. n \in 1 .. m /\ n \in 1 .. Len(ss)
    OBVIOUS
  <2>2. f[n] = IF n = 1 THEN ss[n] ELSE f[n - 1] \o ss[n]
    BY <2>1, FlattensAt
  <2>3. ss[n] \in Seq(S)
    BY <2>1
  <2> QED
    BY <2>2, <2>3
<1>3. n # 1 => f[n - 1] \in Seq(S)
  BY <1>1
<1> QED
  BY <1>2, <1>3, ConcatProperties

\* Two sequences are the same on their first m places.
Agree(a, b, m) == \A i \in 1 .. m : a[i] = b[i]

\* It depends on the sequences it has reached, not on those that follow.
LEMMA FlattensSame ==
  ASSUME NEW ss, NEW tt, NEW m \in Nat, NEW k \in Nat, m <= k, NEW f, NEW g,
         Flattens(f, ss, m), Flattens(g, tt, k), Agree(ss, tt, m)
  PROVE  Agree(f, g, m)
<1> USE DEF Agree
<1> DEFINE T == {i \in 1 .. m : f[i] # g[i]}
<1> SUFFICES ASSUME T # {} PROVE FALSE
  OBVIOUS
<1>1. PICK n \in T : \A i \in T : n <= i
  <2> HIDE DEF T
  <2>1. T \in SUBSET Nat
    BY DEF T
  <2> QED
    BY <2>1, Smallest
<1>2. /\ f[n] = IF n = 1 THEN ss[n] ELSE f[n - 1] \o ss[n]
      /\ g[n] = IF n = 1 THEN tt[n] ELSE g[n - 1] \o tt[n]
      /\ ss[n] = tt[n]
  <2>1. n \in 1 .. m /\ n \in 1 .. k
    OBVIOUS
  <2> QED
    BY <2>1, FlattensAt
<1>3. n # 1 => f[n - 1] = g[n - 1]
  BY <1>1
<1> QED
  BY <1>2, <1>3

\* What FlattenSeq() returns is its last value.
LEMMA FlattenIs ==
  ASSUME NEW ss, Len(ss) \in Nat, Len(ss) # 0
  PROVE  \E f : Flattens(f, ss, Len(ss)) /\ FlattenSeq(ss) = f[Len(ss)]
<1>1. \E f : Flattens(f, ss, Len(ss))
  BY FlattensExists
<1> DEFINE F == CHOOSE f : f = [i \in 1 .. Len(ss) |-> IF i = 1 THEN ss[i] ELSE f[i - 1] \o ss[i]]
<1>2. FlattenSeq(ss) = F[Len(ss)]
  BY Zenon DEF FlattenSeq
<1>3. F = [i \in 1 .. Len(ss) |-> IF i = 1 THEN ss[i] ELSE F[i - 1] \o ss[i]]
  BY <1>1, Zenon DEF Flattens
<1> QED
  BY <1>2, <1>3 DEF Flattens

\* Flattened sequences are sequences of the elements.
LEMMA FlattenType ==
  ASSUME NEW S, NEW ss \in Seq(Seq(S))
  PROVE  FlattenSeq(ss) \in Seq(S)
<1>1. CASE Len(ss) = 0
  BY <1>1 DEF FlattenSeq
<1>2. CASE Len(ss) # 0
  <2>1. Len(ss) \in Nat /\ Len(ss) \in 1 .. Len(ss)
    BY <1>2
  <2>2. PICK f : Flattens(f, ss, Len(ss)) /\ FlattenSeq(ss) = f[Len(ss)]
    BY <1>2, <2>1, FlattenIs
  <2> QED
    BY <2>1, <2>2, FlattensType
<1> QED
  BY <1>1, <1>2

\* Nothing flattened is nothing.
LEMMA FlattenEmpty == FlattenSeq(<<>>) = <<>>
  BY DEF FlattenSeq

\* One more sequence comes behind the others.
LEMMA FlattenAppend ==
  ASSUME NEW S, NEW ss \in Seq(Seq(S)), NEW x \in Seq(S)
  PROVE  FlattenSeq(Append(ss, x)) = FlattenSeq(ss) \o x
<1> DEFINE tt == Append(ss, x)
           n == Len(ss)
<1>1. /\ tt \in Seq(Seq(S)) /\ Len(tt) = n + 1 /\ tt[n + 1] = x
      /\ n \in Nat /\ \A i \in 1 .. n : ss[i] = tt[i]
  BY AppendProperties
<1> HIDE DEF tt
<1>2. PICK k \in Nat : k = n + 1
  BY <1>1
<1>3. PICK g : Flattens(g, tt, k) /\ FlattenSeq(tt) = g[k]
  BY <1>1, <1>2, FlattenIs
<1>4. g[k] = IF n = 0 THEN x ELSE g[n] \o x
  <2>1. k \in 1 .. k /\ k - 1 = n /\ (k = 1 <=> n = 0)
    BY <1>1, <1>2
  <2> HIDE DEF n
  <2> QED
    BY <1>1, <1>2, <1>3, <2>1, FlattensAt
<1>5. CASE n = 0
  BY <1>3, <1>4, <1>5, FlattenEmpty, ConcatEmptySeq DEF tt
<1>6. CASE n # 0
  <2>1. PICK f : Flattens(f, ss, n) /\ FlattenSeq(ss) = f[n]
    BY <1>1, <1>6, FlattenIs
  <2>2. f[n] = g[n]
    <3>1. n \in 1 .. n /\ n \in Nat /\ n <= k
      BY <1>1, <1>2, <1>6
    <3> HIDE DEF n
    <3>2. Flattens(f, ss, n) /\ Flattens(g, tt, k) /\ \A i \in 1 .. n : ss[i] = tt[i]
      BY <1>1, <1>3, <2>1
    <3>3. Agree(ss, tt, n)
      BY <3>2 DEF Agree
    <3>4. Agree(f, g, n)
      BY <1>2, <3>1, <3>2, <3>3, FlattensSame
    <3> QED
      BY <3>1, <3>4 DEF Agree
  <2> QED
    BY <1>3, <1>4, <1>6, <2>1, <2>2 DEF tt
<1> QED
  BY <1>5, <1>6

\* The step of the lemma that follows.
LEMMA FlattenConcatAppend ==
  ASSUME NEW S, NEW ss \in Seq(Seq(S)), NEW p \in Seq(Seq(S)), NEW x \in Seq(S),
         FlattenSeq(ss \o p) = FlattenSeq(ss) \o FlattenSeq(p)
  PROVE  FlattenSeq(ss \o Append(p, x)) = FlattenSeq(ss) \o FlattenSeq(Append(p, x))
<1>1. ss \o p \in Seq(Seq(S))
  OBVIOUS
<1>2. ss \o Append(p, x) = Append(ss \o p, x)
  <2>1. \A T : \A a, b \in Seq(T), e \in T : a \o Append(b, e) = Append(a \o b, e)
    BY AppendToConcat
  <2> QED
    BY <2>1
<1>3. FlattenSeq(ss \o Append(p, x)) = FlattenSeq(ss \o p) \o x
  BY <1>1, <1>2, FlattenAppend
<1>4. FlattenSeq(Append(p, x)) = FlattenSeq(p) \o x
  BY FlattenAppend
<1>5. FlattenSeq(ss) \in Seq(S) /\ FlattenSeq(p) \in Seq(S)
  BY FlattenType
<1>6. (FlattenSeq(ss) \o FlattenSeq(p)) \o x = FlattenSeq(ss) \o (FlattenSeq(p) \o x)
  BY <1>5, Associative
<1> QED
  BY <1>3, <1>4, <1>6

\* Flattening goes through concatenation: packages of blocks, and records of
\* packages, may be counted on either side of a border.
LEMMA FlattenConcat ==
  ASSUME NEW S, NEW ss \in Seq(Seq(S)), NEW tt \in Seq(Seq(S))
  PROVE  FlattenSeq(ss \o tt) = FlattenSeq(ss) \o FlattenSeq(tt)
<1> DEFINE Right(q) == FlattenSeq(ss \o q) = FlattenSeq(ss) \o FlattenSeq(q)
           T == {n \in Nat : \E q \in Seq(Seq(S)) : Len(q) = n /\ ~Right(q)}
<1> SUFFICES ASSUME T # {} PROVE FALSE
  <2>1. Len(tt) \in Nat
    OBVIOUS
  <2> HIDE DEF Right
  <2>2. T = {} => Right(tt)
    BY <2>1
  <2> QED
    BY <2>2 DEF Right
<1> HIDE DEF Right
<1>1. PICK n \in T : \A k \in T : n <= k
  <2> HIDE DEF T
  <2>1. T \in SUBSET Nat
    BY DEF T
  <2> QED
    BY <2>1, Smallest
<1>2. PICK q \in Seq(Seq(S)) : Len(q) = n /\ ~Right(q)
  BY <1>1
<1>3. CASE q = <<>>
  <2>1. ss \o q = ss /\ FlattenSeq(ss) \o <<>> = FlattenSeq(ss)
    BY <1>3, FlattenType, ConcatEmptySeq
  <2> QED
    BY <1>2, <1>3, <2>1, FlattenEmpty DEF Right
<1>4. CASE q # <<>>
  <2>1. PICK p \in Seq(Seq(S)), x \in Seq(S) : q = Append(p, x)
    BY <1>4, SequenceEmptyOrAppend
  <2>2. n \in Nat /\ Len(p) \in Nat /\ n = Len(p) + 1
    BY <1>2, <2>1, AppendProperties
  <2>3. Right(p)
    <3>1. Len(p) \notin T
      <4> HIDE DEF T
      <4> QED
        BY <1>1, <2>2
    <3> QED
      BY <2>2, <3>1
  <2> QED
    BY <1>2, <2>1, <2>3, FlattenConcatAppend DEF Right
<1> QED
  BY <1>3, <1>4

\* A function on 1 .. n is a sequence.
LEMMA AsSequence ==
  ASSUME NEW S, NEW n \in Nat, NEW f, f = [i \in 1 .. n |-> f[i]], \A i \in 1 .. n : f[i] \in S
  PROVE  f \in Seq(S) /\ Len(f) = n
<1>1. f \in [1 .. n -> S]
  OBVIOUS
<1> QED
  BY <1>1

\* What has the elements of two sequences, one after the other.
LEMMA AsConcat ==
  ASSUME NEW S, NEW a \in Seq(S), NEW b \in Seq(S), NEW c \in Seq(S), Len(c) = Len(a) + Len(b),
         \A i \in 1 .. Len(c) : c[i] = IF i <= Len(a) THEN a[i] ELSE b[i - Len(a)]
  PROVE  c = a \o b
<1>1. /\ a \o b \in Seq(S) /\ Len(a \o b) = Len(c)
      /\ \A i \in 1 .. Len(c) : (a \o b)[i] = IF i <= Len(a) THEN a[i] ELSE b[i - Len(a)]
  BY ConcatProperties
<1>2. \A i \in 1 .. Len(c) : c[i] = (a \o b)[i]
  BY <1>1
<1> QED
  BY <1>1, <1>2, SeqEqual

\* What is behind the first m elements.
LEMMA Behind ==
  ASSUME NEW S, NEW s \in Seq(S), NEW b \in Seq(S), NEW m \in Nat, Len(s) = m + Len(b),
         \A i \in 1 .. Len(b) : b[i] = s[m + i]
  PROVE  b = SubSeq(s, m + 1, Len(s))
<1> DEFINE c == SubSeq(s, m + 1, Len(s))
<1>1. PICK k \in Nat : k = Len(b)
  OBVIOUS
<1>2. \A i \in m + 1 .. Len(s) : s[i] \in S
  OBVIOUS
<1>3. c \in Seq(S)
  BY <1>1, <1>2
<1>4. Len(c) = k
  BY <1>1
<1>5. ASSUME NEW i \in 1 .. k PROVE c[i] = s[m + i]
  BY <1>1, <1>5
<1> HIDE DEF c
<1>6. b = c
  BY <1>1, <1>3, <1>4, <1>5
<1> QED
  BY <1>6 DEF c

\* The packages of a block that are still to be sent.
LEMMA Suffix ==
  ASSUME NEW S, NEW s \in Seq(S), NEW k \in 1 .. Len(s) + 1
  PROVE  /\ SubSeq(s, k, Len(s)) \in Seq(S)
         /\ SubSeq(s, 1, Len(s)) = s
         /\ k = Len(s) + 1 => SubSeq(s, k, Len(s)) = <<>>
<1>1. Len(s) \in Nat /\ \A i \in k .. Len(s) : s[i] \in S
  OBVIOUS
<1>2. SubSeq(s, k, Len(s)) \in Seq(S)
  BY <1>1
<1>3. SubSeq(s, 1, Len(s)) = s
  BY <1>1
<1>4. k = Len(s) + 1 => SubSeq(s, k, Len(s)) = <<>>
  BY <1>1
<1> QED
  BY <1>2, <1>3, <1>4

\* The first of them and the others.
LEMMA OneMore ==
  ASSUME NEW S, NEW s \in Seq(S), NEW k \in 1 .. Len(s)
  PROVE  s[k] \in S /\ SubSeq(s, k, Len(s)) = <<s[k]>> \o SubSeq(s, k + 1, Len(s))
<1>1. PICK n \in Nat : n = Len(s)
  OBVIOUS
<1>2. s[k] \in S /\ k \in Nat /\ k >= 1 /\ k <= n
  BY <1>1
<1> DEFINE a == SubSeq(s, k, n)
           b == SubSeq(s, k + 1, n)
<1>3. a \in Seq(S) /\ Len(a) = n - k + 1 /\ \A i \in 1 .. n - k + 1 : a[i] = s[k + i - 1]
  BY <1>1, <1>2
<1>4. b \in Seq(S) /\ Len(b) = n - k /\ \A i \in 1 .. n - k : b[i] = s[k + i]
  BY <1>1, <1>2
<1> HIDE DEF a, b
<1>5. <<s[k]>> \in Seq(S) /\ Len(<<s[k]>>) = 1
  BY <1>2
<1>6. ASSUME NEW i \in 1 .. Len(a)
      PROVE  a[i] = IF i <= Len(<<s[k]>>) THEN <<s[k]>>[i] ELSE b[i - Len(<<s[k]>>)]
  <2>1. CASE i = 1
    BY <1>2, <1>3, <2>1
  <2>2. CASE i > 1
    <3>1. i - 1 \in 1 .. n - k /\ k + (i - 1) = k + i - 1
      BY <1>2, <1>3, <2>2
    <3>2. b[i - 1] = s[k + (i - 1)]
      BY <1>4, <3>1
    <3> QED
      BY <1>3, <2>2, <3>1, <3>2
  <2> QED
    BY <1>3, <2>1, <2>2
<1>7. Len(a) = Len(<<s[k]>>) + Len(b)
  BY <1>2, <1>3, <1>4, <1>5
<1>8. a = <<s[k]>> \o b
  BY <1>3, <1>4, <1>5, <1>6, <1>7, AsConcat
<1> QED
  BY <1>1, <1>2, <1>8 DEF a, b

\* A concatenation has one way to be cut at a length.
LEMMA Cancel ==
  ASSUME NEW S, NEW a \in Seq(S), NEW b \in Seq(S), NEW c \in Seq(S), NEW d \in Seq(S),
         a \o b = c \o d, Len(a) = Len(c)
  PROVE  a = c /\ b = d
<1>1. Len(b) = Len(d)
  <2>1. Len(a \o b) = Len(a) + Len(b) /\ Len(c \o d) = Len(c) + Len(d)
    OBVIOUS
  <2> QED
    BY <2>1
<1>2. \A i \in 1 .. Len(a) : a[i] = c[i]
  <2> SUFFICES ASSUME NEW i \in 1 .. Len(a) PROVE a[i] = c[i]
    OBVIOUS
  <2>1. (a \o b)[i] = a[i] /\ (c \o d)[i] = c[i]
    OBVIOUS
  <2> QED
    BY <2>1
<1>3. \A i \in 1 .. Len(b) : b[i] = d[i]
  <2> SUFFICES ASSUME NEW i \in 1 .. Len(b) PROVE b[i] = d[i]
    OBVIOUS
  <2>1. (a \o b)[Len(a) + i] = b[i]
    OBVIOUS
  <2>2. (c \o d)[Len(c) + i] = d[i]
    BY <1>1
  <2> QED
    BY <2>1, <2>2
<1> QED
  BY <1>1, <1>2, <1>3, SeqEqual

\* A sequence is its front and what is behind it.
LEMMA CutAt ==
  ASSUME NEW S, NEW s \in Seq(S), NEW n \in 0 .. Len(s)
  PROVE  /\ SubSeq(s, 1, n) \in Seq(S) /\ Len(SubSeq(s, 1, n)) = n
         /\ SubSeq(s, n + 1, Len(s)) \in Seq(S) /\ Len(SubSeq(s, n + 1, Len(s))) = Len(s) - n
         /\ s = SubSeq(s, 1, n) \o SubSeq(s, n + 1, Len(s))
<1>1. PICK m \in Nat : m = Len(s)
  OBVIOUS
<1> DEFINE a == SubSeq(s, 1, n)
           b == SubSeq(s, n + 1, m)
<1>2. a \in Seq(S) /\ Len(a) = n /\ \A i \in 1 .. n : a[i] = s[i]
  BY <1>1
<1>3. b \in Seq(S) /\ Len(b) = m - n /\ \A i \in 1 .. m - n : b[i] = s[n + i]
  BY <1>1
<1> HIDE DEF a, b
<1>4. ASSUME NEW i \in 1 .. Len(s) PROVE s[i] = IF i <= Len(a) THEN a[i] ELSE b[i - Len(a)]
  <2>1. CASE i <= n
    BY <1>2, <2>1
  <2>2. CASE i > n
    <3>1. i - n \in 1 .. m - n /\ n + (i - n) = i
      BY <1>1, <2>2
    <3> QED
      BY <1>2, <1>3, <2>2, <3>1
  <2> QED
    BY <2>1, <2>2
<1>5. Len(s) = Len(a) + Len(b)
  BY <1>1, <1>2, <1>3
<1>6. s = a \o b
  BY <1>2, <1>3, <1>4, <1>5, AsConcat
<1> QED
  BY <1>1, <1>2, <1>3, <1>6 DEF a, b

\* The front of a concatenation and the rest.
LEMMA FrontOf ==
  ASSUME NEW S, NEW a \in Seq(S), NEW b \in Seq(S)
  PROVE  SubSeq(a \o b, 1, Len(a)) = a /\ SubSeq(a \o b, Len(a) + 1, Len(a \o b)) = b
<1>1. PICK s \in Seq(S) : s = a \o b
  BY ConcatProperties
<1>2. PICK n \in Nat : n = Len(a)
  OBVIOUS
<1>3. n \in 0 .. Len(s)
  <2>1. Len(a \o b) = Len(a) + Len(b) /\ Len(b) \in Nat
    OBVIOUS
  <2> QED
    BY <1>1, <1>2, <2>1
<1>4. PICK c \in Seq(S) : c = SubSeq(s, 1, n)
  BY <1>3, CutAt
<1>5. PICK d \in Seq(S) : d = SubSeq(s, n + 1, Len(s))
  BY <1>3, CutAt
<1>6. s = c \o d /\ Len(c) = n
  BY <1>3, <1>4, <1>5, CutAt
<1>7. c = a /\ d = b
  BY <1>1, <1>2, <1>6, Cancel
<1> QED
  BY <1>1, <1>2, <1>4, <1>5, <1>7

\* A front that is one longer.
LEMMA FrontLonger ==
  ASSUME NEW S, NEW s \in Seq(S), NEW k \in 1 .. Len(s)
  PROVE  /\ s[k] \in S
         /\ SubSeq(s, 1, k) = Append(SubSeq(s, 1, k - 1), s[k])
         /\ SubSeq(s, 1, k - 1) \in Seq(S)
<1>1. PICK n \in Nat : n = Len(s)
  OBVIOUS
<1>2. s[k] \in S /\ k \in Nat /\ k >= 1 /\ k <= n
  BY <1>1
<1> DEFINE a == SubSeq(s, 1, k)
           b == SubSeq(s, 1, k - 1)
<1>3. a \in Seq(S) /\ Len(a) = k /\ \A i \in 1 .. k : a[i] = s[i]
  BY <1>1, <1>2
<1>4. b \in Seq(S) /\ Len(b) = k - 1 /\ \A i \in 1 .. k - 1 : b[i] = s[i]
  BY <1>1, <1>2
<1> HIDE DEF a, b
<1>5. a = Append(b, s[k])
  <2>1. /\ Append(b, s[k]) \in Seq(S) /\ Len(Append(b, s[k])) = k
        /\ \A i \in 1 .. k : Append(b, s[k])[i] = IF i = k THEN s[k] ELSE b[i]
    BY <1>2, <1>4, AppendProperties
  <2>2. \A i \in 1 .. k : a[i] = Append(b, s[k])[i]
    <3> SUFFICES ASSUME NEW i \in 1 .. k PROVE a[i] = Append(b, s[k])[i]
      OBVIOUS
    <3>1. i # k => i \in 1 .. k - 1
      BY <1>2
    <3> QED
      BY <1>3, <1>4, <2>1, <3>1
  <2> QED
    BY <1>3, <2>1, <2>2, SeqEqual
<1> QED
  BY <1>2, <1>4, <1>5 DEF a, b

\* The front that is nothing, and the front that is everything.
LEMMA Fronts ==
  ASSUME NEW S, NEW s \in Seq(S)
  PROVE  SubSeq(s, 1, 0) = <<>> /\ SubSeq(s, 1, Len(s)) = s
         /\ SubSeq(s, Len(s) + 1, Len(s)) = <<>>
  BY Suffix

\* A front of a sequence to which something is appended is the same.
LEMMA FrontKept ==
  ASSUME NEW S, NEW s \in Seq(S), NEW x \in S, NEW k \in 0 .. Len(s)
  PROVE  SubSeq(Append(s, x), 1, k) = SubSeq(s, 1, k)
<1>1. PICK t \in Seq(S) : t = Append(s, x)
  BY AppendProperties
<1>2. Len(t) = Len(s) + 1 /\ \A i \in 1 .. Len(s) : t[i] = s[i]
  BY <1>1
<1>3. k \in 0 .. Len(t)
  BY <1>2
<1>4. SubSeq(t, 1, k) \in Seq(S) /\ Len(SubSeq(t, 1, k)) = k /\ \A i \in 1 .. k : SubSeq(t, 1, k)[i] = t[i]
  BY <1>3
<1>5. SubSeq(s, 1, k) \in Seq(S) /\ Len(SubSeq(s, 1, k)) = k /\ \A i \in 1 .. k : SubSeq(s, 1, k)[i] = s[i]
  OBVIOUS
<1>6. \A i \in 1 .. k : SubSeq(t, 1, k)[i] = SubSeq(s, 1, k)[i]
  BY <1>2, <1>4, <1>5
<1>7. SubSeq(t, 1, k) = SubSeq(s, 1, k)
  BY <1>4, <1>5, <1>6, SeqEqual
<1> QED
  BY <1>1, <1>7

\* One sequence flattened, and one in front of others.
LEMMA FlattenOne ==
  ASSUME NEW S, NEW x \in Seq(S)
  PROVE  FlattenSeq(<<x>>) = x
<1>1. <<x>> = Append(<<>>, x) /\ <<>> \in Seq(Seq(S))
  OBVIOUS
<1>2. FlattenSeq(Append(<<>>, x)) = FlattenSeq(<<>>) \o x
  BY <1>1, FlattenAppend
<1> QED
  BY <1>1, <1>2, FlattenEmpty, ConcatEmptySeq

\* One in front of others.
LEMMA FlattenCons ==
  ASSUME NEW S, NEW x \in Seq(S), NEW ss \in Seq(Seq(S))
  PROVE  FlattenSeq(<<x>> \o ss) = x \o FlattenSeq(ss)
<1>1. <<x>> \in Seq(Seq(S))
  OBVIOUS
<1>2. FlattenSeq(<<x>> \o ss) = FlattenSeq(<<x>>) \o FlattenSeq(ss)
  BY <1>1, FlattenConcat
<1> QED
  BY <1>2, FlattenOne

\* The first k of several sequences flattened, and the others.
LEMMA FlattenFront ==
  ASSUME NEW S, NEW ss \in Seq(Seq(S)), NEW k \in 1 .. Len(ss)
  PROVE  /\ ss[k] \in Seq(S)
         /\ FlattenSeq(SubSeq(ss, 1, k - 1)) \in Seq(S)
         /\ FlattenSeq(SubSeq(ss, 1, k)) = FlattenSeq(SubSeq(ss, 1, k - 1)) \o ss[k]
<1>1. ss[k] \in Seq(S)
  OBVIOUS
<1>2. PICK t \in Seq(Seq(S)) : t = SubSeq(ss, 1, k - 1)
  BY FrontLonger
<1>3. SubSeq(ss, 1, k) = Append(t, ss[k])
  BY <1>2, FrontLonger
<1>4. FlattenSeq(Append(t, ss[k])) = FlattenSeq(t) \o ss[k] /\ FlattenSeq(t) \in Seq(S)
  BY <1>1, FlattenAppend, FlattenType
<1> QED
  BY <1>1, <1>2, <1>3, <1>4

\* The others, from the k-th one.
LEMMA FlattenBehind ==
  ASSUME NEW S, NEW ss \in Seq(Seq(S)), NEW k \in 1 .. Len(ss)
  PROVE  /\ FlattenSeq(SubSeq(ss, k + 1, Len(ss))) \in Seq(S)
         /\ FlattenSeq(SubSeq(ss, k, Len(ss))) = ss[k] \o FlattenSeq(SubSeq(ss, k + 1, Len(ss)))
<1>1. ss[k] \in Seq(S)
  OBVIOUS
<1>2. k \in 0 .. Len(ss)
  OBVIOUS
<1>3. PICK t \in Seq(Seq(S)) : t = SubSeq(ss, k + 1, Len(ss))
  BY <1>2, CutAt
<1>4. SubSeq(ss, k, Len(ss)) = <<ss[k]>> \o t
  BY <1>3, OneMore
<1>5. FlattenSeq(<<ss[k]>> \o t) = ss[k] \o FlattenSeq(t) /\ FlattenSeq(t) \in Seq(S)
  BY <1>1, FlattenCons, FlattenType
<1> QED
  BY <1>3, <1>4, <1>5

\* What several flattened sequences are cut into.
LEMMA FlattenCut ==
  ASSUME NEW S, NEW ss \in Seq(Seq(S)), NEW k \in 0 .. Len(ss)
  PROVE  /\ FlattenSeq(SubSeq(ss, 1, k)) \in Seq(S)
         /\ FlattenSeq(SubSeq(ss, k + 1, Len(ss))) \in Seq(S)
         /\ FlattenSeq(ss) = FlattenSeq(SubSeq(ss, 1, k)) \o FlattenSeq(SubSeq(ss, k + 1, Len(ss)))
<1>1. PICK a \in Seq(Seq(S)) : a = SubSeq(ss, 1, k)
  BY CutAt
<1>2. PICK b \in Seq(Seq(S)) : b = SubSeq(ss, k + 1, Len(ss))
  BY CutAt
<1>3. ss = a \o b
  <2>1. \A T : \A s \in Seq(T) : \A n \in 0 .. Len(s) : s = SubSeq(s, 1, n) \o SubSeq(s, n + 1, Len(s))
    BY CutAt
  <2> QED
    BY <1>1, <1>2, <2>1
<1>4. FlattenSeq(a \o b) = FlattenSeq(a) \o FlattenSeq(b) /\ FlattenSeq(a) \in Seq(S) /\ FlattenSeq(b) \in Seq(S)
  BY FlattenConcat, FlattenType
<1> QED
  BY <1>1, <1>2, <1>3, <1>4

\* The greatest of the numbers up to n for which something holds.
LEMMA Greatest ==
  ASSUME NEW n \in Nat, NEW T \in SUBSET (0 .. n), T # {}
  PROVE  \E m \in T : \A k \in T : k <= m
<1> DEFINE U == {j \in Nat : n - j \in T}
<1>1. U # {}
  <2>1. PICK m \in T : TRUE
    OBVIOUS
  <2>2. n - m \in Nat /\ n - (n - m) = m
    BY <2>1
  <2>3. n - m \in U
    BY <2>1, <2>2
  <2> QED
    BY <2>3
<1>2. PICK j \in U : \A i \in U : j <= i
  <2>1. U \in SUBSET Nat
    OBVIOUS
  <2> HIDE DEF U
  <2> QED
    BY <1>1, <2>1, Smallest
<1>3. n - j \in T
  BY <1>2
<1>4. ASSUME NEW k \in T PROVE k <= n - j
  <2>1. n - k \in Nat /\ n - (n - k) = k /\ j \in Nat
    BY <1>2
  <2>2. n - k \in U
    BY <2>1
  <2>3. j <= n - k /\ k \in Nat
    BY <1>2, <2>2
  <2> QED
    BY <2>1, <2>3
<1> QED
  BY <1>3, <1>4

\* Concatenation under a name that the provers do not look into: what is known
\* of it is said here.
Cat(a, b) == a \o b

\* The laws of concatenation, for an operator the provers need not look into.
LEMMA CatAssociative ==
  ASSUME NEW S, NEW a \in Seq(S), NEW b \in Seq(S), NEW c \in Seq(S)
  PROVE  /\ Cat(Cat(a, b), c) = Cat(a, Cat(b, c))
         /\ Cat(a, b) \in Seq(S) /\ Cat(b, c) \in Seq(S)
  BY Associative DEF Cat

\* The type and the length.
LEMMA CatType ==
  ASSUME NEW S, NEW a \in Seq(S), NEW b \in Seq(S)
  PROVE  Cat(a, b) \in Seq(S) /\ Len(Cat(a, b)) = Len(a) + Len(b)
  BY ConcatProperties DEF Cat

\* Two that are equal and cut at the same length.
LEMMA CatCancel ==
  ASSUME NEW S, NEW a \in Seq(S), NEW b \in Seq(S), NEW c \in Seq(S), NEW d \in Seq(S),
         Cat(a, b) = Cat(c, d), Len(a) = Len(c)
  PROVE  a = c /\ b = d
  BY Cancel DEF Cat

\* The empty sequence is neutral.
LEMMA CatEmpty ==
  ASSUME NEW S, NEW a \in Seq(S)
  PROVE  Cat(a, <<>>) = a /\ Cat(<<>>, a) = a
<1>1. PICK e : e = <<>>
  OBVIOUS
<1>2. e \in Seq(S) /\ Len(e) = 0
  BY <1>1
<1>3. a \o <<>> = a /\ <<>> \o a = a
  BY ConcatEmptySeq
<1> QED
  BY <1>3 DEF Cat

\* The front is the first of the two.
LEMMA CatFront ==
  ASSUME NEW S, NEW a \in Seq(S), NEW b \in Seq(S)
  PROVE  SubSeq(Cat(a, b), 1, Len(a)) = a
  BY FrontOf DEF Cat
=============================================================================
