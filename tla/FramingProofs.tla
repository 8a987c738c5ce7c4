--------------------------- MODULE FramingProofs ---------------------------
(***************************************************************************)
(* Proofs about packets on a byte stream, for all packets and wherever the *)
(* chunks of bytes end: they arrive whole and in order, none is held back, *)
(* and the stream implements PacketChannel.                                *)
(***************************************************************************)
EXTENDS Framing, SequenceTheorems, WellFoundedInduction, TLAPS

-----------------------------------------------------------------------------
(* Induction, as a fact about sets of numbers. *)

Less == {p \in Nat \X Nat : p[1] < p[2]}

\* There is no endless descent in the numbers.
LEMMA LessWellFounded == IsWellFoundedOn(Less, Nat)
<1>1. OpToRel(<, Nat) = Less
  BY DEF OpToRel, Less
<1> QED BY <1>1, NatLessThanWellFounded

\* A set with 0 and each number's successor has all of them.
LEMMA AllNumbers ==
    ASSUME NEW T \in SUBSET Nat, 0 \in T, \A n \in T : n + 1 \in T
    PROVE  T = Nat
<1> SUFFICES ASSUME Nat \ T # {} PROVE FALSE
  OBVIOUS
<1>1. PICK x \in Nat \ T : \A y \in Nat \ T : <<y, x>> \notin Less
  BY LessWellFounded, WFMin
<1>2. x # 0 /\ x - 1 \in Nat /\ (x - 1) + 1 = x
  OBVIOUS
<1>3. <<x - 1, x>> \in Less
  <2>1. <<x - 1, x>> \in Nat \X Nat /\ <<x - 1, x>>[1] = x - 1 /\ <<x - 1, x>>[2] = x
    BY <1>2
  <2> QED BY <1>2, <2>1 DEF Less
<1>4. x - 1 \in T
  BY <1>1, <1>2, <1>3
<1> QED BY <1>2, <1>4

-----------------------------------------------------------------------------
(* Sequences that begin with an element. *)

\* A sequence is its first element and the rest.
LEMMA HeadRest ==
    ASSUME NEW S, NEW s \in Seq(S), s # <<>>
    PROVE  Head(s) \in S /\ Tail(s) \in Seq(S) /\ s = <<Head(s)>> \o Tail(s)
<1>1. Head(s) \in S /\ Tail(s) \in Seq(S)
  BY HeadTailProperties
<1>2. PICK x, r : x = Head(s) /\ r = Tail(s)
  OBVIOUS
<1>3. /\ Len(s) \in Nat \ {0} /\ Len(r) = Len(s) - 1 /\ x = s[1]
      /\ \A i \in 1..Len(r) : r[i] = s[i + 1]
  BY <1>2, HeadTailProperties, EmptySeq
<1>4. /\ x \in S /\ <<x>> \in Seq(S) /\ Len(<<x>>) = 1 /\ <<x>>[1] = x
  BY <1>1, <1>2
<1>5. PICK t : t = <<x>> \o r
  OBVIOUS
<1>6. /\ t \in Seq(S) /\ Len(t) = 1 + Len(r)
      /\ \A i \in 1..1 + Len(r) : t[i] = IF i <= 1 THEN <<x>>[i] ELSE r[i - 1]
  BY <1>1, <1>2, <1>4, <1>5, ConcatProperties
<1>7. ASSUME NEW i \in 1..Len(s) PROVE s[i] = t[i]
  <2>1. CASE i = 1
    BY <1>3, <1>4, <1>6, <2>1
  <2>2. CASE i # 1
    <3>1. i - 1 \in 1..Len(r) /\ (i - 1) + 1 = i
      BY <1>3, <2>2
    <3> QED BY <1>3, <1>6, <2>2, <3>1
  <2> QED BY <2>1, <2>2
<1>8. s = t
  BY <1>3, <1>6, <1>7, SeqEqual
<1> QED BY <1>1, <1>2, <1>5, <1>8

\* Two such sequences are equal only if their first elements and the rests are.
LEMMA ConsEqual ==
    ASSUME NEW S, NEW x \in S, NEW y \in S, NEW s \in Seq(S), NEW t \in Seq(S),
           <<x>> \o s = <<y>> \o t
    PROVE  x = y /\ s = t
<1>1. <<x>> \in Seq(S) /\ <<y>> \in Seq(S) /\ Len(<<x>>) = 1 /\ <<x>>[1] = x
      /\ Len(<<y>>) = 1 /\ <<y>>[1] = y
  OBVIOUS
<1>2. /\ (<<x>> \o s)[1] = x /\ (<<y>> \o t)[1] = y
  BY <1>1
<1>3. <<x>> \o s = <<x>> \o t
  BY <1>2
<1> QED BY <1>1, <1>2, <1>3, ConcatSimplifications

\* An element between two sequences belongs to either.
LEMMA Between ==
    ASSUME NEW S, NEW s \in Seq(S), NEW x \in S, NEW t \in Seq(S)
    PROVE  Append(s, x) \o t = s \o (<<x>> \o t)
<1>1. <<x>> \in Seq(S) /\ Append(s, x) = s \o <<x>>
  BY AppendIsConcat
<1> QED BY <1>1, ConcatAssociative

\* The elements from i on are the i-th and those behind it.
LEMMA SubSeqBegins ==
    ASSUME NEW S, NEW s \in Seq(S), NEW i \in 1..Len(s)
    PROVE  /\ SubSeq(s, i + 1, Len(s)) \in Seq(S)
           /\ SubSeq(s, i, Len(s)) = <<s[i]>> \o SubSeq(s, i + 1, Len(s))
<1>1. Len(s) \in Nat /\ i \in Nat /\ Len(s) \in i..Len(s) /\ i + 1 \in Int
  BY LenProperties
<1>2. \A j \in i + 1..Len(s) : s[j] \in S
  BY <1>1, ElementOfSeq
<1>3. SubSeq(s, i + 1, Len(s)) \in Seq(S)
  BY <1>1, <1>2, SubSeqProperties
<1> QED BY <1>1, <1>3, SubSeqRecursiveFirst

\* The front and the back of a sequence that was put together.
LEMMA FrontAndBack ==
    ASSUME NEW S, NEW s \in Seq(S), NEW t \in Seq(S), NEW v, v = s \o t
    PROVE  /\ SubSeq(v, 1, Len(s)) = s
           /\ SubSeq(v, Len(s) + 1, Len(v)) = t
<1>1. /\ v \in Seq(S) /\ Len(v) = Len(s) + Len(t)
      /\ \A i \in 1..Len(s) + Len(t) : v[i] = IF i <= Len(s) THEN s[i] ELSE t[i - Len(s)]
  BY ConcatProperties
<1>2. Len(s) \in Nat /\ Len(t) \in Nat
  BY LenProperties
<1>3. \A i \in 1..Len(v) : v[i] \in S
  BY <1>1, ElementOfSeq
<1>4. SubSeq(v, 1, Len(s)) = s
  <2>1. PICK a, n : a = SubSeq(v, 1, n) /\ n = Len(s)
    OBVIOUS
  <2>2. /\ a \in Seq(S) /\ Len(a) = n
        /\ \A i \in 1..n : a[i] = v[i]
    <3>1. n \in Int /\ 1 \in Int /\ \A i \in 1..n : v[i] \in S
      BY <1>1, <1>2, <1>3, <2>1
    <3>2. /\ a \in Seq(S) /\ Len(a) = (IF 1 <= n THEN n - 1 + 1 ELSE 0)
          /\ \A i \in 1..n - 1 + 1 : a[i] = v[1 + i - 1]
      BY <2>1, <3>1, SubSeqProperties
    <3> QED BY <1>2, <2>1, <3>2
  <2>3. \A i \in 1..n : a[i] = s[i]
    BY <1>1, <1>2, <2>1, <2>2
  <2>4. a = s
    BY <2>1, <2>2, <2>3, SeqEqual
  <2> QED BY <2>1, <2>4
<1>5. SubSeq(v, Len(s) + 1, Len(v)) = t
  <2>1. PICK b, n, l : b = SubSeq(v, n + 1, l) /\ n = Len(s) /\ l = Len(v)
    OBVIOUS
  <2>2. /\ b \in Seq(S) /\ Len(b) = Len(t)
        /\ \A i \in 1..Len(t) : b[i] = v[n + i]
    <3>1. n + 1 \in Int /\ l \in Int /\ \A i \in n + 1..l : v[i] \in S
      BY <1>1, <1>2, <1>3, <2>1
    <3>2. /\ b \in Seq(S) /\ Len(b) = (IF n + 1 <= l THEN l - (n + 1) + 1 ELSE 0)
          /\ \A i \in 1..l - (n + 1) + 1 : b[i] = v[n + 1 + i - 1]
      BY <2>1, <3>1, SubSeqProperties
    <3>3. n \in Nat /\ l = n + Len(t) /\ Len(t) \in Nat
      BY <1>1, <1>2, <2>1
    <3>4. l - (n + 1) + 1 = Len(t) /\ (Len(t) = 0 <=> ~(n + 1 <= l))
      BY <3>3
    <3>5. \A i \in 1..Len(t) : n + 1 + i - 1 = n + i
      BY <3>3
    <3> QED BY <3>2, <3>4, <3>5
  <2>3. \A i \in 1..Len(b) : b[i] = t[i]
    <3> SUFFICES ASSUME NEW i \in 1..Len(b) PROVE b[i] = t[i]
      OBVIOUS
    <3>1. n + i \in 1..Len(s) + Len(t) /\ ~(n + i <= Len(s)) /\ (n + i) - Len(s) = i
      BY <1>2, <2>1, <2>2
    <3> QED BY <1>1, <2>1, <2>2, <3>1
  <2>4. b = t
    BY <2>2, <2>3, SeqEqual
  <2> QED BY <2>1, <2>4
<1> QED BY <1>4, <1>5

-----------------------------------------------------------------------------
(* FlattenSeq of the community modules is defined by recursion over the     *)
(* sequence: f holds the first m of its values.                            *)

Flat(f, ss, m) ==
    f = [i \in 1..m |-> IF i = 1 THEN ss[i] ELSE f[i - 1] \o ss[i]]

\* There are such values.
LEMMA FlatExists == ASSUME NEW ss, NEW n \in Nat PROVE \E f : Flat(f, ss, n)
<1> DEFINE T == {m \in Nat : \E f : Flat(f, ss, m)}
<1>1. 0 \in T
  <2> DEFINE f == [i \in 1..0 |-> ss[i]]
  <2>1. Flat(f, ss, 0)
    BY DEF Flat
  <2> HIDE DEF f
  <2> QED BY <2>1
<1>2. ASSUME NEW m \in T PROVE m + 1 \in T
  <2>1. PICK f : Flat(f, ss, m)
    OBVIOUS
  <2>2. PICK v : v = IF m = 0 THEN ss[1] ELSE f[m] \o ss[m + 1]
    OBVIOUS
  <2> DEFINE g == [i \in 1..m + 1 |-> IF i = m + 1 THEN v ELSE f[i]]
  <2>3. \A i \in 1..m + 1 : g[i] = IF i = 1 THEN ss[i] ELSE g[i - 1] \o ss[i]
    <3> SUFFICES ASSUME NEW i \in 1..m + 1
                 PROVE  g[i] = IF i = 1 THEN ss[i] ELSE g[i - 1] \o ss[i]
      OBVIOUS
    <3>1. CASE i = m + 1
      <4>1. m # 0 => g[m] = f[m]
        OBVIOUS
      <4> QED BY <2>2, <3>1, <4>1
    <3>2. CASE i # m + 1
      <4>1. i \in 1..m /\ g[i] = f[i] /\ (i # 1 => i - 1 \in 1..m /\ g[i - 1] = f[i - 1])
        BY <3>2
      <4>2. f[i] = IF i = 1 THEN ss[i] ELSE f[i - 1] \o ss[i]
        BY <2>1, <4>1 DEF Flat
      <4> QED BY <4>1, <4>2
    <3> QED BY <3>1, <3>2
  <2>4. Flat(g, ss, m + 1)
    <3>1. g = [i \in 1..m + 1 |-> g[i]]
      OBVIOUS
    <3> HIDE DEF g
    <3> QED BY <2>3, <3>1 DEF Flat
  <2> HIDE DEF g
  <2> QED BY <2>4
<1> HIDE DEF T
<1>3. T \in SUBSET Nat
  BY DEF T
<1>4. n \in T
  BY <1>1, <1>2, <1>3, AllNumbers
<1> QED BY <1>4 DEF T

Alike(ss, tt, n, S) == \A i \in 1..n : ss[i] \in Seq(S) /\ ss[i] = tt[i]

\* They are sequences, and the same for sequences that begin alike.
LEMMA FlatValues ==
    ASSUME NEW S, NEW n \in Nat, NEW m \in Nat, n <= m, NEW ss, NEW tt,
           Alike(ss, tt, n, S),
           NEW f, Flat(f, ss, n), NEW g, Flat(g, tt, m)
    PROVE  Alike(f, g, n, S)
<1> USE DEF Alike
<1> DEFINE T == {j \in Nat : j \in 1..n => f[j] \in Seq(S) /\ f[j] = g[j]}
<1>1. 0 \in T
  OBVIOUS
<1>2. ASSUME NEW j \in T PROVE j + 1 \in T
  <2> SUFFICES ASSUME j + 1 \in 1..n PROVE f[j + 1] \in Seq(S) /\ f[j + 1] = g[j + 1]
    OBVIOUS
  <2>1. PICK k : k = j + 1
    OBVIOUS
  <2>2. k \in 1..n /\ k \in 1..m /\ k - 1 = j /\ ss[k] = tt[k] /\ ss[k] \in Seq(S)
    BY <2>1
  <2>3. /\ f[k] = IF k = 1 THEN ss[k] ELSE f[k - 1] \o ss[k]
        /\ g[k] = IF k = 1 THEN tt[k] ELSE g[k - 1] \o tt[k]
    BY <2>2 DEF Flat
  <2>4. CASE k = 1
    BY <2>1, <2>2, <2>3, <2>4
  <2>5. CASE k # 1
    <3>1. j \in 1..n
      BY <2>2, <2>5
    <3>2. f[j] \in Seq(S) /\ f[j] = g[j]
      BY <3>1
    <3>3. f[j] \o ss[k] \in Seq(S)
      BY <2>2, <3>2, ConcatProperties
    <3> QED BY <2>1, <2>2, <2>3, <2>5, <3>2, <3>3
  <2> QED BY <2>4, <2>5
<1> HIDE DEF T
<1>3. T \in SUBSET Nat
  BY DEF T
<1>4. T = Nat
  BY <1>1, <1>2, <1>3, AllNumbers
<1>5. ASSUME NEW i \in 1..n PROVE f[i] \in Seq(S) /\ f[i] = g[i]
  <2>1. i \in T
    BY <1>4
  <2> QED BY <2>1 DEF T
<1> QED BY <1>5

\* The last of them is what FlattenSeq stands for.
LEMMA FlattenValue ==
    ASSUME NEW ss, Len(ss) \in Nat, Len(ss) # 0
    PROVE  \E f : Flat(f, ss, Len(ss)) /\ FlattenSeq(ss) = f[Len(ss)]
<1> DEFINE f == CHOOSE f : Flat(f, ss, Len(ss))
<1>1. Flat(f, ss, Len(ss))
  <2>1. \E g : Flat(g, ss, Len(ss))
    BY FlatExists
  <2> QED BY <2>1, Zenon
<1>2. FlattenSeq(ss) = f[Len(ss)]
  BY Zenon DEF FlattenSeq, Flat
<1> QED BY <1>1, <1>2, Zenon

\* A sequence more is written behind the others.
LEMMA FlattenAppend ==
    ASSUME NEW S, NEW ss \in Seq(Seq(S)), NEW e \in Seq(S)
    PROVE  /\ FlattenSeq(ss) \in Seq(S)
           /\ FlattenSeq(Append(ss, e)) = FlattenSeq(ss) \o e
           /\ FlattenSeq(<<>>) = <<>>
<1>1. PICK tt, n : tt = Append(ss, e) /\ n = Len(ss)
  OBVIOUS
<1>2. /\ n \in Nat /\ Len(tt) = n + 1 /\ tt[n + 1] = e /\ \A i \in 1..n : ss[i] = tt[i]
  BY <1>1, AppendProperties, LenProperties
<1>3. PICK g : Flat(g, tt, n + 1) /\ FlattenSeq(tt) = g[n + 1]
  BY <1>2, FlattenValue
<1>4. g[n + 1] = IF n = 0 THEN e ELSE g[n] \o e
  <2>1. PICK k : k = n + 1
    OBVIOUS
  <2>2. k \in 1..k /\ k - 1 = n /\ (k = 1 <=> n = 0)
    BY <1>2, <2>1
  <2>3. g[k] = IF k = 1 THEN tt[k] ELSE g[k - 1] \o tt[k]
    BY <1>3, <2>1, <2>2 DEF Flat
  <2> QED BY <1>2, <2>1, <2>2, <2>3
<1>5. FlattenSeq(<<>>) = <<>>
  BY DEF FlattenSeq
<1>6. CASE n = 0
  <2>1. ss = <<>>
    BY <1>1, <1>6, EmptySeq
  <2>2. FlattenSeq(tt) = e
    BY <1>2, <1>3, <1>4, <1>6
  <2> QED BY <1>1, <1>5, <2>1, <2>2, ConcatEmptySeq, EmptySeq
<1>7. CASE n # 0
  <2>1. PICK f : Flat(f, ss, n) /\ FlattenSeq(ss) = f[n]
    BY <1>1, <1>2, <1>7, FlattenValue
  <2>2. n \in 1..n /\ n <= n + 1 /\ n + 1 \in Nat
    BY <1>2, <1>7
  <2>3. Alike(ss, tt, n, S)
    BY <1>1, <1>2, ElementOfSeq DEF Alike
  <2>4. Alike(f, g, n, S)
    BY <1>2, <1>3, <2>1, <2>2, <2>3, FlatValues
  <2>5. f[n] \in Seq(S) /\ g[n + 1] = f[n] \o e
    BY <1>4, <1>7, <2>2, <2>4 DEF Alike
  <2> QED BY <1>1, <1>2, <1>3, <1>5, <2>1, <2>5
<1> QED BY <1>6, <1>7

\* A sequence in front of the others is written before them.
LEMMA FlattenFront ==
    ASSUME NEW S, NEW ss \in Seq(Seq(S)), NEW e \in Seq(S)
    PROVE  FlattenSeq(<<e>> \o ss) = e \o FlattenSeq(ss)
<1> DEFINE T == {n \in Nat : \A s \in Seq(Seq(S)) : Len(s) = n =>
                     FlattenSeq(<<e>> \o s) = e \o FlattenSeq(s)}
<1>e. <<e>> \in Seq(Seq(S)) /\ <<>> \in Seq(Seq(S)) /\ Append(<<>>, e) = <<e>>
  OBVIOUS
<1>a. ASSUME NEW a \in Seq(S), NEW b \in Seq(S), NEW c \in Seq(S)
      PROVE  (a \o b) \o c = a \o (b \o c)
  BY ConcatAssociative
<1>1. 0 \in T
  <2> SUFFICES ASSUME NEW s \in Seq(Seq(S)), Len(s) = 0
               PROVE  FlattenSeq(<<e>> \o s) = e \o FlattenSeq(s)
    OBVIOUS
  <2>1. s = <<>>
    BY EmptySeq
  <2>2. <<e>> \o <<>> = <<e>> /\ e \o <<>> = e /\ <<>> \o e = e
    BY <1>e, ConcatEmptySeq
  <2>3. FlattenSeq(<<>>) = <<>> /\ FlattenSeq(Append(<<>>, e)) = FlattenSeq(<<>>) \o e
    BY <1>e, FlattenAppend
  <2> QED BY <1>e, <2>1, <2>2, <2>3
<1>2. ASSUME NEW n \in T PROVE n + 1 \in T
  <2>1. ASSUME NEW s \in Seq(Seq(S)), Len(s) = n + 1
        PROVE  FlattenSeq(<<e>> \o s) = e \o FlattenSeq(s)
    <3>1. s # <<>>
      BY <2>1, EmptySeq
    <3>2. PICK t \in Seq(Seq(S)), x \in Seq(S) : s = Append(t, x)
      BY <3>1, SequenceEmptyOrAppend
    <3>3. Len(t) = n
      <4>1. Len(Append(t, x)) = Len(t) + 1 /\ Len(t) \in Nat
        BY AppendProperties, LenProperties
      <4> QED BY <2>1, <3>2, <4>1
    <3>4. PICK u, v : u = <<e>> \o t /\ v = FlattenSeq(t)
      OBVIOUS
    <3>5. FlattenSeq(u) = e \o v
      BY <3>3, <3>4
    <3>6. u \in Seq(Seq(S)) /\ <<e>> \o s = Append(u, x)
      <4>1. Append(t, x) = t \o <<x>> /\ <<x>> \in Seq(Seq(S))
        BY AppendIsConcat
      <4>2. u \in Seq(Seq(S))
        BY <1>e, <3>4, ConcatProperties
      <4>3. Append(u, x) = u \o <<x>>
        BY <4>2, AppendIsConcat
      <4>4. (<<e>> \o t) \o <<x>> = <<e>> \o (t \o <<x>>)
        BY <1>e, <4>1, ConcatAssociative
      <4> QED BY <3>2, <3>4, <4>1, <4>2, <4>3, <4>4
    <3>7. FlattenSeq(Append(u, x)) = FlattenSeq(u) \o x
      BY <3>6, FlattenAppend
    <3>8. v \in Seq(S) /\ FlattenSeq(s) = v \o x
      BY <3>2, <3>4, FlattenAppend
    <3>9. v \in Seq(S)
      BY <3>8
    <3>10. (e \o v) \o x = e \o (v \o x)
      BY <1>a, <3>9
    <3> QED BY <3>5, <3>6, <3>7, <3>8, <3>10
  <2>2. n + 1 \in Nat
    OBVIOUS
  <2> QED BY <2>1, <2>2, Zenon
<1> HIDE DEF T
<1>3. T \in SUBSET Nat
  BY DEF T
<1>4. T = Nat
  BY <1>1, <1>2, <1>3, AllNumbers
<1>5. Len(ss) \in T
  BY <1>4, LenProperties
<1> QED BY <1>5 DEF T

-----------------------------------------------------------------------------
(* What packets look like on the wire. *)

Byte == 0..255

\* Bytes and packets that follow each other need no brackets.
LEMMA Regroup ==
    /\ \A a, b, c \in Seq(Byte) : (a \o b) \o c = a \o (b \o c)
    /\ \A a, b, c \in Seq(Packet) : (a \o b) \o c = a \o (b \o c)
<1>1. \A a, b, c \in Seq(Byte) : (a \o b) \o c = a \o (b \o c)
  BY ConcatAssociative
<1>2. \A a, b, c \in Seq(Packet) : (a \o b) \o c = a \o (b \o c)
  BY ConcatAssociative
<1> QED BY <1>1, <1>2

EscapedBytes(b) == [i \in DOMAIN b |-> Escaped(b[i])]
Encoded(b) == FlattenSeq(EscapedBytes(b))

Encapsulated(q) == [i \in DOMAIN q |-> encapsulate(q[i])]
Stream(q) == FlattenSeq(Encapsulated(q))

\* The bytes that end a frame with the bytes b yet to come, and packets t behind.
Ends(b, t) == Encoded(b) \o (<<DELIMITER>> \o Stream(t))

\* A byte is written as one byte that is neither special, or as two of which the
\* second tells which of the two it was.
LEMMA EscapedByte ==
    ASSUME NEW x \in Byte
    PROVE  /\ Escaped(x) \in Seq(Byte) /\ DELIMITER \in Byte /\ ESCAPE \in Byte
           /\ \/ x \notin {DELIMITER, ESCAPE} /\ Escaped(x) = <<x>>
              \/ \E c \in Byte : /\ c \notin {DELIMITER, ESCAPE} /\ Unescaped(c) = <<x>>
                                 /\ Escaped(x) = <<ESCAPE>> \o <<c>>
<1>1. /\ {DELIMITER, ESCAPE, ESCAPED_DELIMITER, ESCAPED_ESCAPE} \subseteq Byte
      /\ DELIMITER # ESCAPE /\ ESCAPED_DELIMITER # ESCAPED_ESCAPE
      /\ {ESCAPED_DELIMITER, ESCAPED_ESCAPE} \cap {DELIMITER, ESCAPE} = {}
  BY DEF Byte, DELIMITER, ESCAPE, ESCAPED_DELIMITER, ESCAPED_ESCAPE
<1>2. ASSUME NEW c \in Byte, Escaped(x) = <<ESCAPE, c>>
      PROVE  Escaped(x) \in Seq(Byte) /\ Escaped(x) = <<ESCAPE>> \o <<c>>
  BY <1>1, <1>2
<1>3. CASE x = DELIMITER
  <2>1. Escaped(x) = <<ESCAPE, ESCAPED_DELIMITER>>
    BY <1>1, <1>3 DEF Escaped
  <2>2. Unescaped(ESCAPED_DELIMITER) = <<x>>
    BY <1>1, <1>3 DEF Unescaped
  <2> QED BY <1>1, <1>2, <2>1, <2>2
<1>4. CASE x = ESCAPE
  <2>1. Escaped(x) = <<ESCAPE, ESCAPED_ESCAPE>>
    BY <1>1, <1>4 DEF Escaped
  <2>2. Unescaped(ESCAPED_ESCAPE) = <<x>>
    BY <1>1, <1>4 DEF Unescaped
  <2> QED BY <1>1, <1>2, <2>1, <2>2
<1>5. CASE x \notin {DELIMITER, ESCAPE}
  <2>1. Escaped(x) = <<x>>
    BY <1>5 DEF Escaped
  <2> QED BY <1>1, <1>5, <2>1
<1> QED BY <1>3, <1>4, <1>5

\* The bytes of a packet are escaped one by one.
LEMMA EncodedBytes ==
    /\ Encoded(<<>>) = <<>>
    /\ \A b \in Seq(Byte) : Encoded(b) \in Seq(Byte)
    /\ \A b \in Seq(Byte), x \in Byte : Encoded(<<x>> \o b) = Escaped(x) \o Encoded(b)
<1>1. Encoded(<<>>) = <<>>
  <2>1. EscapedBytes(<<>>) = <<>>
    BY DEF EscapedBytes
  <2> QED BY <2>1, FlattenAppend, EmptySeq DEF Encoded
<1>2. ASSUME NEW b \in Seq(Byte)
      PROVE  /\ EscapedBytes(b) \in Seq(Seq(Byte)) /\ Len(EscapedBytes(b)) = Len(b)
             /\ \A i \in 1..Len(b) : EscapedBytes(b)[i] = Escaped(b[i])
  <2>1. /\ Len(b) \in Nat /\ DOMAIN b = 1..Len(b)
        /\ \A i \in 1..Len(b) : Escaped(b[i]) \in Seq(Byte)
    BY LenProperties, ElementOfSeq, EscapedByte
  <2>2. EscapedBytes(b) = [i \in 1..Len(b) |-> Escaped(b[i])]
    BY <2>1 DEF EscapedBytes
  <2> QED BY <2>1, <2>2
<1>3. ASSUME NEW b \in Seq(Byte), NEW x \in Byte
      PROVE  Encoded(<<x>> \o b) = Escaped(x) \o Encoded(b)
  <2>1. PICK c, s, t, y : /\ c = <<x>> \o b /\ s = EscapedBytes(b) /\ y = Escaped(x)
                          /\ t = <<y>> \o s
    OBVIOUS
  <2>2. /\ <<x>> \in Seq(Byte) /\ Len(<<x>>) = 1 /\ <<x>>[1] = x /\ y \in Seq(Byte)
        /\ <<y>> \in Seq(Seq(Byte)) /\ Len(<<y>>) = 1 /\ <<y>>[1] = y
    BY <2>1, EscapedByte
  <2>3. /\ s \in Seq(Seq(Byte)) /\ Len(s) = Len(b) /\ Len(b) \in Nat
        /\ \A i \in 1..Len(b) : s[i] = Escaped(b[i])
    BY <1>2, <2>1, LenProperties
  <2>4. /\ c \in Seq(Byte) /\ Len(c) = 1 + Len(b)
        /\ \A i \in 1..1 + Len(b) : c[i] = IF i <= 1 THEN <<x>>[i] ELSE b[i - 1]
    BY <2>1, <2>2, ConcatProperties
  <2>5. /\ t \in Seq(Seq(Byte)) /\ Len(t) = 1 + Len(s)
        /\ \A i \in 1..1 + Len(s) : t[i] = IF i <= 1 THEN <<y>>[i] ELSE s[i - 1]
    BY <2>1, <2>2, <2>3, ConcatProperties
  <2>6. ASSUME NEW i \in 1..1 + Len(b) PROVE t[i] = Escaped(c[i])
    <3>1. CASE i = 1
      BY <2>1, <2>2, <2>3, <2>4, <2>5, <3>1
    <3>2. CASE i # 1
      <4>1. i - 1 \in 1..Len(b) /\ ~(i <= 1)
        BY <2>3, <3>2
      <4> QED BY <2>3, <2>4, <2>5, <4>1
    <3> QED BY <3>1, <3>2
  <2>7. PICK e : e = EscapedBytes(c)
    OBVIOUS
  <2>8. /\ e \in Seq(Seq(Byte)) /\ Len(e) = Len(c)
        /\ \A i \in 1..Len(c) : e[i] = Escaped(c[i])
    BY <1>2, <2>4, <2>7
  <2>9. e = t
    <3>1. Len(e) = Len(t) /\ Len(e) = 1 + Len(b)
      BY <2>3, <2>4, <2>5, <2>8
    <3>2. \A i \in 1..Len(e) : e[i] = t[i]
      BY <2>4, <2>6, <2>8, <3>1
    <3> QED BY <2>5, <2>8, <3>1, <3>2, SeqEqual
  <2>10. FlattenSeq(t) = y \o FlattenSeq(s)
    BY <2>1, <2>2, <2>3, FlattenFront
  <2> QED BY <2>1, <2>7, <2>9, <2>10 DEF Encoded
<1>4. \A b \in Seq(Byte) : Encoded(b) \in Seq(Byte)
  BY <1>2, FlattenAppend, EmptySeq DEF Encoded
<1> QED BY <1>1, <1>3, <1>4

\* An encapsulated packet is its bytes, escaped, and the delimiter.
LEMMA Capsule ==
    ASSUME NEW p \in Packet
    PROVE  /\ p \in Seq(Byte) /\ p # <<>> /\ encapsulate(p) \in Seq(Byte)
           /\ encapsulate(p) = Append(Encoded(p), DELIMITER)
<1>1. p \in Seq(Byte) /\ p # <<>> /\ DELIMITER \in Byte
  BY FramingAssumption DEF Byte, DELIMITER
<1>2. encapsulate(p) = Append(Encoded(p), DELIMITER)
  BY DEF encapsulate, Encoded, EscapedBytes
<1> QED BY <1>1, <1>2, EncodedBytes, AppendProperties

\* Packets follow each other on the wire.
LEMMA StreamOfPackets ==
    /\ Stream(<<>>) = <<>>
    /\ \A q \in Seq(Packet) : Stream(q) \in Seq(Byte)
    /\ \A q \in Seq(Packet), p \in Packet : /\ Stream(Append(q, p)) = Stream(q) \o encapsulate(p)
                                            /\ Stream(<<p>> \o q) = Ends(p, q)
<1>1. Stream(<<>>) = <<>>
  <2>1. Encapsulated(<<>>) = <<>>
    BY DEF Encapsulated
  <2> QED BY <2>1, FlattenAppend, EmptySeq DEF Stream
<1>2. ASSUME NEW q \in Seq(Packet)
      PROVE  /\ Encapsulated(q) \in Seq(Seq(Byte)) /\ Len(Encapsulated(q)) = Len(q)
             /\ \A i \in 1..Len(q) : Encapsulated(q)[i] = encapsulate(q[i])
  <2>1. /\ Len(q) \in Nat /\ DOMAIN q = 1..Len(q)
        /\ \A i \in 1..Len(q) : encapsulate(q[i]) \in Seq(Byte)
    BY LenProperties, ElementOfSeq, Capsule
  <2>2. Encapsulated(q) = [i \in 1..Len(q) |-> encapsulate(q[i])]
    BY <2>1 DEF Encapsulated
  <2> QED BY <2>1, <2>2
<1>3. \A q \in Seq(Packet) : Stream(q) \in Seq(Byte)
  BY <1>2, FlattenAppend, EmptySeq DEF Stream
<1>4. ASSUME NEW q \in Seq(Packet), NEW p \in Packet
      PROVE  Stream(Append(q, p)) = Stream(q) \o encapsulate(p)
  <2>1. PICK c, s, y, t : /\ c = Append(q, p) /\ s = Encapsulated(q) /\ y = encapsulate(p)
                          /\ t = Append(s, y)
    OBVIOUS
  <2>2. /\ y \in Seq(Byte) /\ s \in Seq(Seq(Byte)) /\ Len(s) = Len(q) /\ Len(q) \in Nat
        /\ \A i \in 1..Len(q) : s[i] = encapsulate(q[i])
    BY <1>2, <2>1, Capsule, LenProperties
  <2>3. /\ c \in Seq(Packet) /\ Len(c) = Len(q) + 1 /\ c[Len(q) + 1] = p
        /\ \A i \in 1..Len(q) : c[i] = q[i]
    BY <2>1, AppendProperties
  <2>4. /\ t \in Seq(Seq(Byte)) /\ Len(t) = Len(s) + 1 /\ t[Len(s) + 1] = y
        /\ \A i \in 1..Len(s) : t[i] = s[i]
    BY <2>1, <2>2, AppendProperties
  <2>5. PICK e : e = Encapsulated(c)
    OBVIOUS
  <2>6. /\ e \in Seq(Seq(Byte)) /\ Len(e) = Len(c)
        /\ \A i \in 1..Len(c) : e[i] = encapsulate(c[i])
    BY <1>2, <2>3, <2>5
  <2>7. ASSUME NEW i \in 1..Len(e) PROVE e[i] = t[i]
    <3>1. i \in 1..Len(q) \/ i = Len(q) + 1
      BY <2>2, <2>3, <2>6
    <3> QED BY <2>1, <2>2, <2>3, <2>4, <2>6, <3>1
  <2>8. e = t
    BY <2>2, <2>3, <2>4, <2>6, <2>7, SeqEqual
  <2>9. FlattenSeq(t) = FlattenSeq(s) \o y
    BY <2>1, <2>2, FlattenAppend
  <2> QED BY <2>1, <2>5, <2>8, <2>9 DEF Stream
<1>5. ASSUME NEW q \in Seq(Packet), NEW p \in Packet
      PROVE  Stream(<<p>> \o q) = Ends(p, q)
  <2>1. PICK c, s, y, t : /\ c = <<p>> \o q /\ s = Encapsulated(q) /\ y = encapsulate(p)
                          /\ t = <<y>> \o s
    OBVIOUS
  <2>2. /\ <<p>> \in Seq(Packet) /\ Len(<<p>>) = 1 /\ <<p>>[1] = p /\ y \in Seq(Byte)
        /\ <<y>> \in Seq(Seq(Byte)) /\ Len(<<y>>) = 1 /\ <<y>>[1] = y
    BY <2>1, Capsule
  <2>3. /\ s \in Seq(Seq(Byte)) /\ Len(s) = Len(q) /\ Len(q) \in Nat
        /\ \A i \in 1..Len(q) : s[i] = encapsulate(q[i])
    BY <1>2, <2>1, LenProperties
  <2>4. /\ c \in Seq(Packet) /\ Len(c) = 1 + Len(q)
        /\ \A i \in 1..1 + Len(q) : c[i] = IF i <= 1 THEN <<p>>[i] ELSE q[i - 1]
    BY <2>1, <2>2, ConcatProperties
  <2>5. /\ t \in Seq(Seq(Byte)) /\ Len(t) = 1 + Len(s)
        /\ \A i \in 1..1 + Len(s) : t[i] = IF i <= 1 THEN <<y>>[i] ELSE s[i - 1]
    BY <2>1, <2>2, <2>3, ConcatProperties
  <2>6. ASSUME NEW i \in 1..1 + Len(q) PROVE t[i] = encapsulate(c[i])
    <3>1. CASE i = 1
      BY <2>1, <2>2, <2>3, <2>4, <2>5, <3>1
    <3>2. CASE i # 1
      <4>1. i - 1 \in 1..Len(q) /\ ~(i <= 1)
        BY <2>3, <3>2
      <4> QED BY <2>3, <2>4, <2>5, <4>1
    <3> QED BY <3>1, <3>2
  <2>7. PICK e : e = Encapsulated(c)
    OBVIOUS
  <2>8. /\ e \in Seq(Seq(Byte)) /\ Len(e) = Len(c)
        /\ \A i \in 1..Len(c) : e[i] = encapsulate(c[i])
    BY <1>2, <2>4, <2>7
  <2>9. e = t
    <3>1. Len(e) = Len(t) /\ Len(e) = 1 + Len(q)
      BY <2>3, <2>4, <2>5, <2>8
    <3>2. \A i \in 1..Len(e) : e[i] = t[i]
      BY <2>4, <2>6, <2>8, <3>1
    <3> QED BY <2>5, <2>8, <3>1, <3>2, SeqEqual
  <2>10. FlattenSeq(t) = y \o FlattenSeq(s)
    BY <2>1, <2>2, <2>3, FlattenFront
  <2>11. Stream(c) = y \o Stream(q)
    BY <2>1, <2>7, <2>9, <2>10 DEF Stream
  <2>12. Append(Encoded(p), DELIMITER) \o Stream(q) = Ends(p, q)
    <3>1. DELIMITER \in Byte
      BY DEF Byte, DELIMITER
    <3>2. Encoded(p) \in Seq(Byte) /\ Stream(q) \in Seq(Byte)
      BY <1>3, Capsule, EncodedBytes
    <3> QED BY <3>1, <3>2, Between DEF Ends
  <2> QED BY <2>1, <2>11, <2>12, Capsule
<1> QED BY <1>1, <1>3, <1>4, <1>5

-----------------------------------------------------------------------------
(* The loop of parseStream on a part of such a stream. *)

ScanState == [messages : Seq(Packet), frame : Seq(Byte), escaped : BOOLEAN, rest : Seq(Byte)]

NoDelimiter(b) == \A i \in 1..Len(b) : b[i] # DELIMITER

\* The bytes w ahead of the loop are those of the packets q, or what is left of
\* them: of a frame, or of a frame from within an escaped byte.
Outside(s, w, q) == ~s.escaped /\ s.frame = <<>> /\ q = <<>> /\ w = <<>>

Inside(s, w, q) == \E b \in Seq(Byte), t \in Seq(Packet) :
    /\ ~s.escaped
    /\ s.frame \o b \in Packet
    /\ q = <<s.frame \o b>> \o t
    /\ w = Ends(b, t)

Halfway(s, w, q) == \E b \in Seq(Byte), t \in Seq(Packet), c \in Byte, x \in Byte :
    /\ s.escaped
    /\ c # DELIMITER /\ Unescaped(c) = <<x>>
    /\ (s.frame \o <<x>>) \o b \in Packet
    /\ q = <<(s.frame \o <<x>>) \o b>> \o t
    /\ w = <<c>> \o Ends(b, t)

Ahead(s, w, q) == Outside(s, w, q) \/ Inside(s, w, q) \/ Halfway(s, w, q)

Begins(v, x, b) == v = <<x>> \o b
BeginsWithTwo(v, x, y, b) == v = (<<x>> \o <<y>>) \o b

\* The first byte of bytes can be told from the rest.
LEMMA FirstByte ==
    ASSUME NEW x \in Byte, NEW y \in Byte, NEW b \in Seq(Byte), NEW c \in Seq(Byte),
           NEW v, Begins(v, x, b), Begins(v, y, c)
    PROVE  x = y /\ b = c
<1>1. <<x>> \o b = <<y>> \o c
  BY DEF Begins
<1> QED BY <1>1, ConsEqual, Zenon

\* So can the first two.
LEMMA FirstOfTwo ==
    ASSUME NEW x \in Byte, NEW y \in Byte, NEW z \in Byte, NEW b \in Seq(Byte), NEW c \in Seq(Byte),
           NEW v, Begins(v, x, b), BeginsWithTwo(v, y, z, c)
    PROVE  x = y /\ b = <<z>> \o c
<1>1. PICK g, h : g = <<y>> /\ h = <<z>>
  OBVIOUS
<1>2. g \in Seq(Byte) /\ h \in Seq(Byte)
  BY <1>1
<1>3. (g \o h) \o c = g \o (h \o c)
  BY <1>2, Regroup
<1>4. PICK u : u = h \o c
  OBVIOUS
<1>5. u \in Seq(Byte)
  BY <1>2, <1>4, ConcatProperties
<1>6. Begins(v, y, u)
  BY <1>1, <1>3, <1>4 DEF Begins, BeginsWithTwo
<1>7. x = y /\ b = u
  BY <1>5, <1>6, FirstByte
<1> QED BY <1>1, <1>4, <1>7

\* The end of a frame, byte by byte.
LEMMA EndOfFrame ==
    ASSUME NEW t \in Seq(Packet)
    PROVE  /\ Ends(<<>>, t) = <<DELIMITER>> \o Stream(t)
           /\ \A b \in Seq(Byte) : Ends(b, t) \in Seq(Byte)
           /\ \A b \in Seq(Byte), x \in Byte : Ends(<<x>> \o b, t) = Escaped(x) \o Ends(b, t)
<1>1. PICK u : u = <<DELIMITER>> \o Stream(t)
  OBVIOUS
<1>2. u \in Seq(Byte)
  <2>1. <<DELIMITER>> \in Seq(Byte)
    BY DEF Byte, DELIMITER
  <2>2. Stream(t) \in Seq(Byte)
    BY StreamOfPackets
  <2> QED BY <1>1, <2>1, <2>2, ConcatProperties
<1>3. \A b : Ends(b, t) = Encoded(b) \o u
  BY <1>1 DEF Ends
<1>4. Ends(<<>>, t) = u
  BY <1>2, <1>3, EncodedBytes, ConcatEmptySeq
<1>5. \A b \in Seq(Byte) : Ends(b, t) \in Seq(Byte)
  <2> SUFFICES ASSUME NEW b \in Seq(Byte) PROVE Ends(b, t) \in Seq(Byte)
    OBVIOUS
  <2>1. PICK e : e = Encoded(b)
    OBVIOUS
  <2>2. e \in Seq(Byte)
    BY <2>1, EncodedBytes
  <2>3. e \o u \in Seq(Byte)
    BY <1>2, <2>2, ConcatProperties
  <2> QED BY <1>3, <2>1, <2>3
<1>6. ASSUME NEW b \in Seq(Byte), NEW x \in Byte
      PROVE  Ends(<<x>> \o b, t) = Escaped(x) \o Ends(b, t)
  <2>1. PICK e, y : e = Encoded(b) /\ y = Escaped(x)
    OBVIOUS
  <2>2. e \in Seq(Byte) /\ y \in Seq(Byte) /\ Encoded(<<x>> \o b) = y \o e
    BY <2>1, EncodedBytes, EscapedByte
  <2>3. y \in Seq(Byte) /\ e \in Seq(Byte)
    BY <2>2
  <2>4. (y \o e) \o u = y \o (e \o u)
    BY <1>2, <2>3, Regroup
  <2> QED BY <1>3, <2>1, <2>2, <2>4
<1> QED BY <1>1, <1>4, <1>5, <1>6

\* Between two frames, what is ahead are packets.
LEMMA AheadOfPackets ==
    ASSUME NEW s, ~s.escaped, s.frame = <<>>, NEW q \in Seq(Packet)
    PROVE  Ahead(s, Stream(q), q)
<1>1. CASE q = <<>>
  BY <1>1, StreamOfPackets DEF Ahead, Outside
<1>2. CASE q # <<>>
  <2>1. PICK p \in Packet, t \in Seq(Packet) : q = <<p>> \o t
    BY <1>2, HeadRest
  <2>2. p \in Seq(Byte) /\ s.frame \o p = p
    BY <2>1, Capsule, ConcatEmptySeq
  <2>3. Stream(q) = Ends(p, t)
    BY <2>1, StreamOfPackets
  <2> QED BY <2>1, <2>2, <2>3 DEF Ahead, Inside
<1> QED BY <1>1, <1>2

\* The delimiter of a packet is read: it is taken out.
TakenOut(s, w, q) == \E p \in Packet, t \in Seq(Packet) :
    /\ ScanByte(s, DELIMITER) = StartOfFrame(Append(s.messages, p))
    /\ q = <<p>> \o t
    /\ w = Stream(t)

\* Any other byte is read: it is kept.
Kept(s, y, w, q) ==
    /\ y # DELIMITER
    /\ ScanByte(s, y) \in ScanState
    /\ ScanByte(s, y).messages = s.messages
    /\ ScanByte(s, y).rest = Append(s.rest, y)
    /\ Ahead(ScanByte(s, y), w, q)

\* Within a frame the loop reads its next byte, the first half of an escaped
\* one, or the delimiter behind the last.
LEMMA InsideReads ==
    ASSUME NEW s \in ScanState, NEW y \in Byte, NEW w \in Seq(Byte), NEW q,
           Inside(s, <<y>> \o w, q)
    PROVE  (TakenOut(s, w, q) /\ y = DELIMITER) \/ Kept(s, y, w, q)
<1>1. PICK b \in Seq(Byte), t \in Seq(Packet) :
        /\ ~s.escaped /\ s.frame \o b \in Packet /\ q = <<s.frame \o b>> \o t
        /\ <<y>> \o w = Ends(b, t)
  BY DEF Inside
<1>2. /\ s.messages \in Seq(Packet) /\ s.frame \in Seq(Byte) /\ s.rest \in Seq(Byte)
      /\ Append(s.rest, y) \in Seq(Byte)
  BY AppendProperties DEF ScanState
<1>3. /\ DELIMITER \in Byte /\ ESCAPE \in Byte /\ DELIMITER # ESCAPE
  BY DEF Byte, DELIMITER, ESCAPE
<1>4. CASE b = <<>>
  <2>1. s.frame \o <<>> = s.frame /\ s.frame # <<>>
    BY <1>1, <1>2, <1>4, ConcatEmptySeq, Capsule
  <2>2. y = DELIMITER /\ w = Stream(t)
    <3>1. PICK v, c : v = <<y>> \o w /\ c = Stream(t)
      OBVIOUS
    <3>2. Begins(v, y, w) /\ Begins(v, DELIMITER, c) /\ c \in Seq(Byte)
      BY <1>1, <1>4, <3>1, EndOfFrame, StreamOfPackets DEF Begins
    <3>3. y = DELIMITER /\ w = c
      BY <1>3, <3>2, FirstByte
    <3> QED BY <3>1, <3>3
  <2>3. ScanByte(s, DELIMITER) = StartOfFrame(Append(s.messages, s.frame))
    BY <1>1, <1>3, <2>1 DEF ScanByte
  <2> QED BY <1>1, <1>4, <2>1, <2>2, <2>3 DEF TakenOut
<1>5. CASE b # <<>>
  <2>1. PICK x \in Byte, d \in Seq(Byte) : b = <<x>> \o d
    BY <1>5, HeadRest
  <2>2. PICK e : e = Ends(d, t)
    OBVIOUS
  <2>3. PICK v : v = <<y>> \o w
    OBVIOUS
  <2>7. e \in Seq(Byte) /\ v = Escaped(x) \o e /\ Begins(v, y, w)
    BY <1>1, <2>1, <2>2, <2>3, EndOfFrame DEF Begins
  <2>4. s.frame \o b = (s.frame \o <<x>>) \o d
    <3>1. PICK f, g : f = s.frame /\ g = <<x>>
      OBVIOUS
    <3>2. f \in Seq(Byte) /\ g \in Seq(Byte) /\ d \in Seq(Byte)
      BY <1>2, <2>1, <3>1
    <3>3. (f \o g) \o d = f \o (g \o d)
      BY <3>2, Regroup
    <3> QED BY <2>1, <3>1, <3>3
  <2>5. CASE x \notin {DELIMITER, ESCAPE} /\ Escaped(x) = <<x>>
    <3>1. y = x /\ w = e
      <4>1. Begins(v, x, e)
        BY <2>5, <2>7 DEF Begins
      <4> QED BY <2>7, <4>1, FirstByte
    <3>2. ScanByte(s, y) = [s EXCEPT !.rest = Append(s.rest, y), !.frame = Append(s.frame, y)]
      BY <1>1, <1>3, <2>5, <3>1 DEF ScanByte, ScanState
    <3>3. Append(s.frame, y) \in Seq(Byte) /\ Append(s.frame, y) = s.frame \o <<y>>
      BY <1>2, AppendProperties, AppendIsConcat
    <3>4. PICK r : r = ScanByte(s, y)
      OBVIOUS
    <3>5. /\ r \in ScanState /\ r.messages = s.messages /\ r.rest = Append(s.rest, y)
          /\ ~r.escaped /\ r.frame = s.frame \o <<x>>
      BY <1>1, <1>2, <3>1, <3>2, <3>3, <3>4 DEF ScanState
    <3>6. Inside(r, w, q)
      BY <1>1, <2>2, <2>4, <3>1, <3>5 DEF Inside
    <3> QED BY <2>5, <3>1, <3>4, <3>5, <3>6 DEF Kept, Ahead
  <2>6. ASSUME NEW c \in Byte, c \notin {DELIMITER, ESCAPE}, Unescaped(c) = <<x>>,
               Escaped(x) = <<ESCAPE>> \o <<c>>
        PROVE  Kept(s, y, w, q)
    <3>1. y = ESCAPE /\ w = <<c>> \o e
      <4>1. BeginsWithTwo(v, ESCAPE, c, e)
        BY <2>6, <2>7 DEF BeginsWithTwo
      <4> QED BY <1>3, <2>7, <4>1, FirstOfTwo
    <3>2. ScanByte(s, y) = [s EXCEPT !.rest = Append(s.rest, y), !.escaped = TRUE]
      BY <1>1, <1>3, <3>1 DEF ScanByte, ScanState
    <3>3. PICK r : r = ScanByte(s, y)
      OBVIOUS
    <3>4. /\ r \in ScanState /\ r.messages = s.messages /\ r.rest = Append(s.rest, y)
          /\ r.escaped /\ r.frame = s.frame
      BY <1>2, <3>2, <3>3 DEF ScanState
    <3>5. Halfway(r, w, q)
      BY <1>1, <2>2, <2>4, <2>6, <3>1, <3>4 DEF Halfway
    <3> QED BY <1>3, <3>1, <3>3, <3>4, <3>5 DEF Kept, Ahead
  <2> QED BY <2>5, <2>6, EscapedByte
<1> QED BY <1>4, <1>5

\* Behind an ESCAPE it reads the other half.
LEMMA HalfwayReads ==
    ASSUME NEW s \in ScanState, NEW y \in Byte, NEW w \in Seq(Byte), NEW q,
           Halfway(s, <<y>> \o w, q)
    PROVE  Kept(s, y, w, q)
<1>1. PICK b \in Seq(Byte), t \in Seq(Packet), c \in Byte, x \in Byte :
        /\ s.escaped /\ c # DELIMITER /\ Unescaped(c) = <<x>>
        /\ (s.frame \o <<x>>) \o b \in Packet /\ q = <<(s.frame \o <<x>>) \o b>> \o t
        /\ <<y>> \o w = <<c>> \o Ends(b, t)
  BY DEF Halfway
<1>2. y = c /\ w = Ends(b, t)
  <2>1. PICK e : e = Ends(b, t)
    OBVIOUS
  <2>2. PICK v : v = <<y>> \o w
    OBVIOUS
  <2>3. e \in Seq(Byte) /\ Begins(v, y, w) /\ Begins(v, c, e)
    BY <1>1, <2>1, <2>2, EndOfFrame DEF Begins
  <2>4. y = c /\ w = e
    BY <2>3, FirstByte
  <2> QED BY <2>1, <2>4
<1>3. /\ s.frame \in Seq(Byte) /\ s.frame \o <<x>> \in Seq(Byte)
      /\ Append(s.rest, y) \in Seq(Byte)
  <2>1. s.frame \in Seq(Byte) /\ s.rest \in Seq(Byte) /\ <<x>> \in Seq(Byte)
    BY DEF ScanState
  <2> QED BY <2>1, ConcatProperties, AppendProperties
<1>4. ScanByte(s, y) = [s EXCEPT !.rest = Append(s.rest, y), !.frame = s.frame \o <<x>>,
                                 !.escaped = FALSE]
  BY <1>1, <1>2 DEF ScanByte, ScanState
<1>5. PICK r : r = ScanByte(s, y)
  OBVIOUS
<1>6. /\ r \in ScanState /\ r.messages = s.messages /\ r.rest = Append(s.rest, y)
      /\ ~r.escaped /\ r.frame = s.frame \o <<x>>
  BY <1>3, <1>4, <1>5 DEF ScanState
<1>7. Inside(r, w, q)
  BY <1>1, <1>2, <1>6 DEF Inside
<1> QED BY <1>1, <1>2, <1>5, <1>6, <1>7 DEF Kept, Ahead

-----------------------------------------------------------------------------
(* The loop of parseStream on all bytes of such a stream: f holds the states *)
(* after the first m of them.                                              *)

Scan(f, bytes, m) ==
    f = [n \in 0..m |-> IF n = 0 THEN StartOfFrame(<<>>) ELSE ScanByte(f[n - 1], bytes[n])]

\* There are such states.
LEMMA ScanExists == ASSUME NEW bytes, NEW n \in Nat PROVE \E f : Scan(f, bytes, n)
<1> DEFINE T == {m \in Nat : \E f : Scan(f, bytes, m)}
<1>1. 0 \in T
  <2> DEFINE f == [i \in 0..0 |-> StartOfFrame(<<>>)]
  <2>1. Scan(f, bytes, 0)
    BY DEF Scan
  <2> HIDE DEF f
  <2> QED BY <2>1
<1>2. ASSUME NEW m \in T PROVE m + 1 \in T
  <2>1. PICK f : Scan(f, bytes, m)
    OBVIOUS
  <2>2. PICK v : v = ScanByte(f[m], bytes[m + 1])
    OBVIOUS
  <2> DEFINE g == [i \in 0..m + 1 |-> IF i = m + 1 THEN v ELSE f[i]]
  <2>3. \A i \in 0..m + 1 :
            g[i] = IF i = 0 THEN StartOfFrame(<<>>) ELSE ScanByte(g[i - 1], bytes[i])
    <3> SUFFICES ASSUME NEW i \in 0..m + 1
                 PROVE  g[i] = IF i = 0 THEN StartOfFrame(<<>>) ELSE ScanByte(g[i - 1], bytes[i])
      OBVIOUS
    <3>1. CASE i = m + 1
      <4>1. g[i] = v /\ i - 1 = m /\ g[m] = f[m] /\ i # 0
        BY <3>1
      <4> QED BY <2>2, <3>1, <4>1
    <3>2. CASE i # m + 1
      <4>1. i \in 0..m /\ g[i] = f[i] /\ (i # 0 => i - 1 \in 0..m /\ g[i - 1] = f[i - 1])
        BY <3>2
      <4>2. f[i] = IF i = 0 THEN StartOfFrame(<<>>) ELSE ScanByte(f[i - 1], bytes[i])
        BY <2>1, <4>1 DEF Scan
      <4> QED BY <4>1, <4>2
    <3> QED BY <3>1, <3>2
  <2>4. Scan(g, bytes, m + 1)
    <3>1. g = [i \in 0..m + 1 |-> g[i]]
      OBVIOUS
    <3> HIDE DEF g
    <3> QED BY <2>3, <3>1 DEF Scan
  <2> HIDE DEF g
  <2> QED BY <2>4
<1> HIDE DEF T
<1>3. T \in SUBSET Nat
  BY DEF T
<1>4. n \in T
  BY <1>1, <1>2, <1>3, AllNumbers
<1> QED BY <1>4 DEF T

\* The last of them is what Scanned stands for.
LEMMA ScanValue ==
    ASSUME NEW bytes, Len(bytes) \in Nat
    PROVE  \E f : Scan(f, bytes, Len(bytes)) /\ Scanned(bytes) = f[Len(bytes)]
<1> DEFINE f == CHOOSE f : Scan(f, bytes, Len(bytes))
<1>1. Scan(f, bytes, Len(bytes))
  <2>1. \E g : Scan(g, bytes, Len(bytes))
    BY ScanExists
  <2> QED BY <2>1, Zenon
<1>2. Scanned(bytes) = f[Len(bytes)]
  BY Zenon DEF Scanned, Scan
<1> QED BY <1>1, <1>2, Zenon

\* The loop has state s, w is ahead of it, and in the end it will have found Q.
Scans(s, w, Q) ==
    /\ s \in ScanState /\ NoDelimiter(s.rest)
    /\ \E q \in Seq(Packet) : /\ s.messages \o q = Q
                              /\ s.rest \o w = Stream(q)
                              /\ Ahead(s, w, q)

\* One more byte.
LEMMA ScanStep ==
    ASSUME NEW s, NEW y \in Byte, NEW w \in Seq(Byte), NEW Q, Scans(s, <<y>> \o w, Q)
    PROVE  Scans(ScanByte(s, y), w, Q)
<1>1. s \in ScanState /\ NoDelimiter(s.rest)
  BY DEF Scans
<1>2. PICK q \in Seq(Packet) : /\ s.messages \o q = Q
                               /\ s.rest \o (<<y>> \o w) = Stream(q)
                               /\ Ahead(s, <<y>> \o w, q)
  BY DEF Scans
<1>3. s.messages \in Seq(Packet) /\ s.rest \in Seq(Byte)
  BY <1>1 DEF ScanState
<1>4. PICK r : r = ScanByte(s, y)
  OBVIOUS
<1>5. ASSUME Kept(s, y, w, q) PROVE Scans(r, w, Q)
  <2>1. /\ y # DELIMITER /\ r \in ScanState /\ r.messages = s.messages
        /\ r.rest = Append(s.rest, y) /\ Ahead(r, w, q)
    BY <1>4, <1>5 DEF Kept
  <2>2. Append(s.rest, y) \o w = Stream(q)
    <3>1. PICK b : b = s.rest
      OBVIOUS
    <3>2. b \in Seq(Byte)
      BY <1>3, <3>1
    <3>3. Append(b, y) \o w = b \o (<<y>> \o w)
      BY <3>2, Between
    <3> QED BY <1>2, <3>1, <3>3
  <2>3. NoDelimiter(Append(s.rest, y))
    <3>1. PICK b, c : b = s.rest /\ c = Append(b, y)
      OBVIOUS
    <3>2. /\ b \in Seq(Byte) /\ Len(b) \in Nat /\ Len(c) = Len(b) + 1 /\ c[Len(b) + 1] = y
          /\ \A i \in 1..Len(b) : c[i] = b[i]
      BY <1>3, <3>1, AppendProperties, LenProperties
    <3>3. \A i \in 1..Len(b) : b[i] # DELIMITER
      BY <1>1, <3>1 DEF NoDelimiter
    <3>4. \A i \in 1..Len(c) : i \in 1..Len(b) \/ i = Len(b) + 1
      BY <3>2
    <3>5. \A i \in 1..Len(c) : c[i] # DELIMITER
      BY <2>1, <3>2, <3>3, <3>4
    <3> QED BY <3>1, <3>5 DEF NoDelimiter
  <2> QED BY <1>2, <2>1, <2>2, <2>3 DEF Scans
<1>6. ASSUME TakenOut(s, w, q), y = DELIMITER PROVE Scans(r, w, Q)
  <2>1. PICK p \in Packet, t \in Seq(Packet) :
          r = StartOfFrame(Append(s.messages, p)) /\ q = <<p>> \o t /\ w = Stream(t)
    BY <1>4, <1>6 DEF TakenOut
  <2>2. PICK m : m = Append(s.messages, p)
    OBVIOUS
  <2>3. m \in Seq(Packet) /\ m \o t = Q
    <3>1. PICK l : l = s.messages
      OBVIOUS
    <3>2. l \in Seq(Packet) /\ m = Append(l, p) /\ l \o (<<p>> \o t) = Q
      BY <1>2, <1>3, <2>1, <2>2, <3>1
    <3>3. Append(l, p) \o t = l \o (<<p>> \o t)
      BY <3>2, Between
    <3> QED BY <3>2, <3>3, AppendProperties
  <2>4. /\ r.messages = m /\ r.frame = <<>> /\ ~r.escaped /\ r.rest = <<>>
        /\ r \in ScanState
    <3>1. r = [messages |-> m, frame |-> <<>>, escaped |-> FALSE, rest |-> <<>>]
      BY <2>1, <2>2 DEF StartOfFrame
    <3>2. <<>> \in Seq(Byte)
      OBVIOUS
    <3> QED BY <2>3, <3>1, <3>2 DEF ScanState
  <2>5. Ahead(r, w, t)
    BY <2>1, <2>4, AheadOfPackets
  <2>6. <<>> \o w = Stream(t)
    BY <2>1, ConcatEmptySeq
  <2>7. NoDelimiter(<<>>)
    BY EmptySeq DEF NoDelimiter
  <2> QED BY <2>3, <2>4, <2>5, <2>6, <2>7 DEF Scans
<1>7. ~Outside(s, <<y>> \o w, q)
  <2>1. PICK g : g = <<y>>
    OBVIOUS
  <2>2. g \in Seq(Byte) /\ g # <<>>
    BY <2>1
  <2>3. g \o w # <<>>
    BY <2>2, ConcatSimplifications
  <2> QED BY <2>1, <2>3 DEF Outside
<1>8. CASE Inside(s, <<y>> \o w, q)
  <2>1. (TakenOut(s, w, q) /\ y = DELIMITER) \/ Kept(s, y, w, q)
    BY <1>1, <1>8, InsideReads
  <2> QED BY <1>4, <1>5, <1>6, <2>1
<1>9. CASE Halfway(s, <<y>> \o w, q)
  <2>1. Kept(s, y, w, q)
    BY <1>1, <1>9, HalfwayReads
  <2> QED BY <1>4, <1>5, <2>1
<1> QED BY <1>2, <1>7, <1>8, <1>9 DEF Ahead

\* All bytes of a part of the stream.
LEMMA ScanAll ==
    ASSUME NEW bytes \in Seq(Byte), NEW w \in Seq(Byte), NEW Q \in Seq(Packet),
           bytes \o w = Stream(Q)
    PROVE  Scans(Scanned(bytes), w, Q)
<1>1. PICK l : l = Len(bytes)
  OBVIOUS
<1>2. l \in Nat
  BY <1>1, LenProperties
<1>3. PICK f : Scan(f, bytes, l) /\ Scanned(bytes) = f[l]
  BY <1>1, <1>2, ScanValue
<1> DEFINE T == {n \in Nat : n <= l => Scans(f[n], SubSeq(bytes, n + 1, l) \o w, Q)}
<1>4. 0 \in T
  <2>1. f[0] = StartOfFrame(<<>>)
    <3>1. 0 \in 0..l
      BY <1>2
    <3> QED BY <1>3, <3>1 DEF Scan
  <2>2. SubSeq(bytes, 1, l) = bytes
    BY <1>1, SubSeqFull
  <2>3. Scans(f[0], bytes \o w, Q)
    <3>1. PICK s : s = StartOfFrame(<<>>)
      OBVIOUS
    <3>2. <<>> \in Seq(Byte) /\ <<>> \in Seq(Packet)
      OBVIOUS
    <3>3. /\ s.messages = <<>> /\ s.frame = <<>> /\ ~s.escaped /\ s.rest = <<>>
          /\ s \in ScanState
      BY <3>1, <3>2 DEF StartOfFrame, ScanState
    <3>4. Ahead(s, Stream(Q), Q)
      BY <3>3, AheadOfPackets
    <3>5. <<>> \o Q = Q /\ <<>> \o Stream(Q) = Stream(Q)
      BY ConcatEmptySeq, StreamOfPackets
    <3>6. NoDelimiter(<<>>)
      BY EmptySeq DEF NoDelimiter
    <3>7. Scans(s, Stream(Q), Q)
      BY <3>3, <3>4, <3>5, <3>6 DEF Scans
    <3> QED BY <2>1, <3>1, <3>7
  <2>4. Scans(f[0], SubSeq(bytes, 0 + 1, l) \o w, Q)
    <3>1. 0 + 1 = 1
      OBVIOUS
    <3> QED BY <2>2, <2>3, <3>1, Zenon
  <2>5. 0 \in Nat
    OBVIOUS
  <2> QED BY <2>4, <2>5, Zenon
<1>5. ASSUME NEW n \in T PROVE n + 1 \in T
  <2> SUFFICES ASSUME n + 1 <= l
               PROVE  Scans(f[n + 1], SubSeq(bytes, (n + 1) + 1, l) \o w, Q)
    OBVIOUS
  <2>1. n \in Nat /\ n <= l /\ n + 1 \in 1..l /\ n + 1 \in 0..l /\ n + 1 # 0 /\ (n + 1) - 1 = n
    BY <1>2
  <2>2. Scans(f[n], SubSeq(bytes, n + 1, l) \o w, Q)
    BY <2>1
  <2>3. f[n + 1] = ScanByte(f[n], bytes[n + 1])
    BY <1>3, <2>1 DEF Scan
  <2>4. PICK y, d : y = bytes[n + 1] /\ d = SubSeq(bytes, (n + 1) + 1, l)
    OBVIOUS
  <2>5. y \in Byte
    BY <1>1, <2>1, <2>4, ElementOfSeq
  <2>6. d \in Seq(Byte) /\ SubSeq(bytes, n + 1, l) = <<y>> \o d
    BY <1>1, <2>1, <2>4, SubSeqBegins
  <2>7. PICK v : v = d \o w
    OBVIOUS
  <2>8. v \in Seq(Byte) /\ (<<y>> \o d) \o w = <<y>> \o v
    <3>1. <<y>> \in Seq(Byte)
      BY <2>5
    <3> QED BY <2>6, <2>7, <3>1, ConcatProperties, Regroup
  <2>9. Scans(f[n], <<y>> \o v, Q)
    BY <2>2, <2>6, <2>8
  <2>10. Scans(ScanByte(f[n], y), v, Q)
    BY <2>5, <2>8, <2>9, ScanStep
  <2> QED BY <2>3, <2>4, <2>7, <2>10
<1> HIDE DEF T
<1>6. T \in SUBSET Nat
  BY DEF T
<1>7. l \in T
  BY <1>2, <1>4, <1>5, <1>6, AllNumbers
<1>8. Scans(f[l], SubSeq(bytes, l + 1, l) \o w, Q)
  BY <1>2, <1>7 DEF T
<1>9. SubSeq(bytes, l + 1, l) \o w = w
  BY <1>1, <1>2, SubSeqEmpty, ConcatEmptySeq
<1> QED BY <1>3, <1>8, <1>9

-----------------------------------------------------------------------------
(* The two sides.  What was sent and not received is what the bytes behind  *)
(* the last packet stand for, those in the buffer and those on the wire.    *)

Pending == SubSeq(sent, Len(received) + 1, Len(sent))

OnTheWay(q) ==
    /\ q \in Seq(Packet)
    /\ received \o q = sent
    /\ buffer \o wire = Stream(q)

FramingInv ==
    /\ sent \in Seq(Packet) /\ received \in Seq(Packet)
    /\ wire \in Seq(Byte) /\ buffer \in Seq(Byte)
    /\ NoDelimiter(buffer)
    /\ OnTheWay(Pending)

\* There is one such sequence of packets.
LEMMA PendingIs ==
    ASSUME NEW q \in Seq(Packet), received \in Seq(Packet), received \o q = sent
    PROVE  Pending = q
  BY FrontAndBack DEF Pending

\* Bytes without a delimiter are no packets.
LEMMA NoPacketYet ==
    ASSUME NEW q \in Seq(Packet), NoDelimiter(Stream(q))
    PROVE  q = <<>>
<1> SUFFICES ASSUME q # <<>> PROVE FALSE
  OBVIOUS
<1>1. PICK t \in Seq(Packet), p \in Packet : q = Append(t, p)
  BY SequenceEmptyOrAppend
<1>2. PICK a, b, d : a = Stream(t) /\ b = Encoded(p) /\ d = <<DELIMITER>>
  OBVIOUS
<1>3. DELIMITER \in Byte
  BY DEF Byte, DELIMITER
<1>4. a \in Seq(Byte) /\ b \in Seq(Byte) /\ d \in Seq(Byte)
  <2>1. a \in Seq(Byte)
    BY <1>2, StreamOfPackets
  <2>2. b \in Seq(Byte)
    BY <1>2, Capsule, EncodedBytes
  <2> QED BY <1>2, <1>3, <2>1, <2>2
<1>5. Stream(q) = a \o Append(b, DELIMITER)
  <2>1. Stream(q) = Stream(t) \o encapsulate(p)
    BY <1>1, StreamOfPackets
  <2>2. encapsulate(p) = Append(Encoded(p), DELIMITER)
    BY Capsule
  <2> QED BY <1>2, <2>1, <2>2
<1>6. Append(b, DELIMITER) = b \o d
  BY <1>2, <1>3, <1>4, AppendIsConcat
<1>7. PICK c : c = a \o b
  OBVIOUS
<1>8. c \in Seq(Byte) /\ a \o (b \o d) = c \o d
  <2>1. (a \o b) \o d = a \o (b \o d)
    BY <1>4, Regroup
  <2> QED BY <1>4, <1>7, <2>1, ConcatProperties
<1>9. c \o d = Append(c, DELIMITER)
  BY <1>2, <1>3, <1>8, AppendIsConcat
<1>10. PICK v : v = Append(c, DELIMITER)
  OBVIOUS
<1>11. Stream(q) = v
  BY <1>5, <1>6, <1>8, <1>9, <1>10
<1>12. Len(c) \in Nat /\ Len(v) = Len(c) + 1 /\ v[Len(c) + 1] = DELIMITER
  BY <1>3, <1>8, <1>10, AppendProperties, LenProperties
<1>13. Len(v) \in 1..Len(v) /\ v[Len(v)] = DELIMITER
  BY <1>12
<1> QED BY <1>11, <1>13 DEF NoDelimiter

\* A packet is sent.
LEMMA SendMoves ==
    ASSUME FramingInv, NEW p \in Packet, sendPacket(p)
    PROVE  FramingInv' /\ Pending' = Append(Pending, p) /\ received' = received
<1>1. PICK q, u : q = Pending /\ u = encapsulate(p)
  OBVIOUS
<1>2. /\ sent \in Seq(Packet) /\ received \in Seq(Packet) /\ wire \in Seq(Byte)
      /\ buffer \in Seq(Byte) /\ NoDelimiter(buffer)
      /\ q \in Seq(Packet) /\ received \o q = sent /\ buffer \o wire = Stream(q)
  BY <1>1 DEF FramingInv, OnTheWay
<1>3. /\ sent' = Append(sent, p) /\ wire' = wire \o u /\ buffer' = buffer /\ received' = received
  BY <1>1 DEF sendPacket
<1>4. u \in Seq(Byte)
  BY <1>1, Capsule
<1>t. /\ received \in Seq(Packet) /\ q \in Seq(Packet)
      /\ wire \in Seq(Byte) /\ buffer \in Seq(Byte)
  BY <1>2
<1>5. sent' \in Seq(Packet) /\ wire' \in Seq(Byte) /\ Append(q, p) \in Seq(Packet)
  BY <1>2, <1>3, <1>4, AppendProperties, ConcatProperties
<1>6. received' \o Append(q, p) = sent'
  <2>1. PICK o : o = <<p>>
    OBVIOUS
  <2>2. o \in Seq(Packet)
    BY <2>1
  <2>3. Append(q, p) = q \o o /\ Append(sent, p) = sent \o o
    BY <1>2, <2>1, AppendIsConcat
  <2>4. (received \o q) \o o = received \o (q \o o)
    BY <1>t, <2>2, Regroup
  <2> QED BY <1>2, <1>3, <2>3, <2>4
<1>7. buffer' \o wire' = Stream(Append(q, p))
  <2>1. (buffer \o wire) \o u = buffer \o (wire \o u)
    BY <1>t, <1>4, Regroup
  <2>2. Stream(Append(q, p)) = Stream(q) \o u
    BY <1>1, <1>2, StreamOfPackets
  <2> QED BY <1>2, <1>3, <2>1, <2>2
<1>8. Pending' = Append(q, p)
  <2>1. PICK r, v, x : r = received' /\ v = sent' /\ x = Append(q, p)
    OBVIOUS
  <2>2. r \in Seq(Packet) /\ x \in Seq(Packet) /\ v = r \o x
    BY <1>2, <1>3, <1>5, <1>6, <2>1
  <2>3. SubSeq(v, Len(r) + 1, Len(v)) = x
    BY <2>2, FrontAndBack
  <2> QED BY <2>1, <2>3 DEF Pending
<1> QED BY <1>1, <1>2, <1>3, <1>5, <1>6, <1>7, <1>8 DEF FramingInv, OnTheWay

\* Bytes are read.
LEMMA ReadMoves ==
    ASSUME FramingInv, NEW n \in 1..Len(wire), processBytes(n)
    PROVE  /\ FramingInv'
           /\ \E m \in Seq(Packet) : m \o Pending' = Pending /\ received' = received \o m
<1>1. PICK q : q = Pending
  OBVIOUS
<1>2. /\ sent \in Seq(Packet) /\ received \in Seq(Packet) /\ wire \in Seq(Byte)
      /\ buffer \in Seq(Byte) /\ NoDelimiter(buffer)
      /\ q \in Seq(Packet) /\ received \o q = sent /\ buffer \o wire = Stream(q)
  BY <1>1 DEF FramingInv, OnTheWay
<1>3. PICK c, d : c = SubSeq(wire, 1, n) /\ d = SubSeq(wire, n + 1, Len(wire))
  OBVIOUS
<1>4. c \in Seq(Byte) /\ d \in Seq(Byte) /\ c \o d = wire
  <2>1. PICK l : l = Len(wire)
    OBVIOUS
  <2>2. l \in Nat /\ n \in 1..l /\ n \in Int /\ n + 1 \in Int /\ 1 \in Int
        /\ \A i \in 1..l : wire[i] \in Byte
    BY <1>2, <2>1, LenProperties, ElementOfSeq
  <2>3. (\A i \in 1..n : wire[i] \in Byte) /\ \A i \in n + 1..l : wire[i] \in Byte
    BY <2>2
  <2>4. SubSeq(wire, 1, n) \in Seq(Byte) /\ SubSeq(wire, n + 1, l) \in Seq(Byte)
    BY <2>2, <2>3, SubSeqProperties
  <2>5. 1 \in 1..l + 1 /\ n \in 1 - 1..l /\ l \in n..l
    BY <2>2
  <2>6. SubSeq(wire, 1, n) \o SubSeq(wire, n + 1, l) = SubSeq(wire, 1, l)
    BY <1>2, <2>1, <2>5, ConcatAdjacentSubSeq
  <2>7. SubSeq(wire, 1, l) = wire
    BY <1>2, <2>1, SubSeqFull
  <2> QED BY <1>3, <2>1, <2>4, <2>6, <2>7
<1>5. PICK b : b = buffer \o c
  OBVIOUS
<1>6. b \in Seq(Byte) /\ b \o d = Stream(q)
  <2>1. buffer \in Seq(Byte) /\ c \in Seq(Byte) /\ d \in Seq(Byte)
    BY <1>2, <1>4
  <2>2. (buffer \o c) \o d = buffer \o (c \o d)
    BY <2>1, Regroup
  <2> QED BY <1>2, <1>4, <1>5, <2>2, ConcatProperties
<1>7. PICK s : s = Scanned(b)
  OBVIOUS
<1>8. Scans(s, d, q)
  BY <1>2, <1>4, <1>6, <1>7, ScanAll
<1>9. s \in ScanState /\ NoDelimiter(s.rest)
  BY <1>8 DEF Scans
<1>10. PICK t \in Seq(Packet) : s.messages \o t = q /\ s.rest \o d = Stream(t)
  BY <1>8 DEF Scans
<1>11. PICK m : m = s.messages
  OBVIOUS
<1>12. m \in Seq(Packet) /\ s.rest \in Seq(Byte)
  BY <1>9, <1>11 DEF ScanState
<1>13. wire' = d /\ buffer' = s.rest /\ received' = received \o m /\ sent' = sent
  BY <1>3, <1>5, <1>7, <1>11 DEF processBytes, parseStream
<1>14. received' \in Seq(Packet) /\ received' \o t = sent'
  <2>1. received \o m \in Seq(Packet)
    BY <1>2, <1>12, ConcatProperties
  <2>2. received \in Seq(Packet)
    BY <1>2
  <2>3. (received \o m) \o t = received \o (m \o t)
    BY <1>12, <2>2, Regroup
  <2> QED BY <1>2, <1>10, <1>11, <1>13, <2>1, <2>3
<1>15. Pending' = t
  BY <1>14, FrontAndBack DEF Pending
<1>16. OnTheWay(t)'
  BY <1>10, <1>13, <1>14 DEF OnTheWay
<1>17. FramingInv'
  <2>1. /\ sent' \in Seq(Packet) /\ received' \in Seq(Packet) /\ wire' \in Seq(Byte)
        /\ buffer' \in Seq(Byte) /\ NoDelimiter(buffer')
    BY <1>2, <1>4, <1>9, <1>12, <1>13, <1>14
  <2> QED BY <1>15, <1>16, <2>1 DEF FramingInv, OnTheWay
<1> QED BY <1>1, <1>10, <1>11, <1>12, <1>13, <1>15, <1>17

\* A connection has nothing on it.
LEMMA NothingOnIt ==
    ASSUME sent = <<>>, received = <<>>, wire = <<>>, buffer = <<>>
    PROVE  FramingInv /\ Pending = <<>>
<1>1. <<>> \in Seq(Packet) /\ <<>> \in Seq(Byte) /\ <<>> \o <<>> = <<>>
  OBVIOUS
<1>2. Pending = <<>>
  BY <1>1, PendingIs
<1>3. NoDelimiter(<<>>)
  BY EmptySeq DEF NoDelimiter
<1> QED BY <1>1, <1>2, <1>3, StreamOfPackets DEF FramingInv, OnTheWay

\* A new connection, for which the buffer is a new one.
LEMMA ReconnectMoves ==
    ASSUME BufferPerSocket, reconnect
    PROVE  FramingInv' /\ Pending' = <<>> /\ received' = <<>>
<1>1. sent' = <<>> /\ wire' = <<>> /\ received' = <<>> /\ buffer' = <<>>
  BY DEF reconnect
<1>2. <<>> \in Seq(Packet) /\ <<>> \in Seq(Byte) /\ <<>> \o <<>> = <<>>
  OBVIOUS
<1>3. Pending' = <<>>
  BY <1>1, <1>2, FrontAndBack DEF Pending
<1>4. NoDelimiter(<<>>)
  BY EmptySeq DEF NoDelimiter
<1> QED BY <1>1, <1>2, <1>3, <1>4, StreamOfPackets DEF FramingInv, OnTheWay

\* A step of the byte stream is one of the channel, or not seen there.
LEMMA StepOfChannel ==
    ASSUME BufferPerSocket, FramingInv, [FramingNext]_vars
    PROVE  /\ FramingInv'
           /\ \/ \E p \in Packet : Pending' = Append(Pending, p) /\ received' = received
              \/ \E m \in Seq(Packet) : m \o Pending' = Pending /\ received' = received \o m
              \/ Pending' = <<>> /\ received' = <<>>
              \/ Pending' = Pending /\ received' = received
<1>1. ASSUME NEW p \in Packet, sendPacket(p)
      PROVE  FramingInv' /\ Pending' = Append(Pending, p) /\ received' = received
  BY <1>1, SendMoves
<1>2. ASSUME NEW n \in 1..Len(wire), processBytes(n)
      PROVE  /\ FramingInv'
             /\ \E m \in Seq(Packet) : m \o Pending' = Pending /\ received' = received \o m
  BY <1>2, ReadMoves
<1>3. CASE reconnect
  BY <1>3, ReconnectMoves
<1>4. CASE UNCHANGED vars
  BY <1>4 DEF vars, FramingInv, OnTheWay, Pending
<1> QED BY <1>1, <1>2, <1>3, <1>4 DEF FramingNext

\* The invariant holds throughout, if each connection has a buffer of its own.
LEMMA FramingInvariant == BufferPerSocket => (FramingSpec => []FramingInv)
<1> SUFFICES ASSUME BufferPerSocket PROVE FramingSpec => []FramingInv
  OBVIOUS
<1>1. FramingInit => FramingInv
  BY NothingOnIt DEF FramingInit
<1>2. FramingInv /\ [FramingNext]_vars => FramingInv'
  BY StepOfChannel
<1> QED BY <1>1, <1>2, PTL DEF FramingSpec

\* What processBytes hands on are the packets of the other side, whole and in
\* order, wherever the chunks of bytes end (parseStream, util.cpp).
THEOREM ReceivedInOrder == BufferPerSocket => (FramingSpec => []ReceivedIsSent)
<1> SUFFICES ASSUME BufferPerSocket PROVE FramingSpec => []ReceivedIsSent
  OBVIOUS
<1>1. FramingInv => ReceivedIsSent
  <2> SUFFICES ASSUME FramingInv PROVE ReceivedIsSent
    OBVIOUS
  <2>1. PICK q \in Seq(Packet) : received \o q = sent /\ received \in Seq(Packet)
    BY DEF FramingInv, OnTheWay
  <2>2. SubSeq(sent, 1, Len(received)) = received
    BY <2>1, FrontAndBack
  <2>3. SubSeq(received, 1, Len(received)) = received
    BY <2>1, SubSeqFull
  <2>4. Len(sent) = Len(received) + Len(q) /\ Len(received) \in Nat /\ Len(q) \in Nat
    BY <2>1, ConcatProperties, LenProperties
  <2> QED BY <2>2, <2>3, <2>4 DEF ReceivedIsSent, IsPrefix
<1> QED BY <1>1, FramingInvariant, PTL

\* When all bytes are read, all packets are: none waits in the buffer for later
\* bytes (parseStream, util.cpp).
THEOREM AllIsHandedOn == BufferPerSocket => (FramingSpec => []NothingHeldBack)
<1> SUFFICES ASSUME BufferPerSocket PROVE FramingSpec => []NothingHeldBack
  OBVIOUS
<1>1. FramingInv => NothingHeldBack
  <2> SUFFICES ASSUME FramingInv, wire = <<>> PROVE received = sent /\ buffer = <<>>
    BY DEF NothingHeldBack
  <2>1. PICK q \in Seq(Packet) :
          /\ received \o q = sent /\ received \in Seq(Packet)
          /\ buffer \o wire = Stream(q) /\ buffer \in Seq(Byte) /\ NoDelimiter(buffer)
    BY DEF FramingInv, OnTheWay
  <2>2. buffer = Stream(q)
    BY <2>1, ConcatEmptySeq
  <2>3. q = <<>>
    BY <2>1, <2>2, NoPacketYet
  <2> QED BY <2>1, <2>2, <2>3, StreamOfPackets, ConcatEmptySeq
<1> QED BY <1>1, FramingInvariant, PTL

\* The byte stream of util.cpp implements the channel of packets the other
\* modules build on.
THEOREM StreamImplementsChannel == BufferPerSocket => (FramingSpec => ImplementsChannel)
<1> SUFFICES ASSUME BufferPerSocket PROVE FramingSpec => ImplementsChannel
  OBVIOUS
<1>1. FramingInit => Channel!ChannelInit
  <2> SUFFICES ASSUME FramingInit PROVE Pending = <<>> /\ received = <<>>
    BY DEF Channel!ChannelInit, Pending
  <2> QED BY NothingOnIt DEF FramingInit
<1>2. FramingInv /\ [FramingNext]_vars
      => [Channel!ChannelNext]_<<SubSeq(sent, Len(received) + 1, Len(sent)), received>>
  <2> SUFFICES ASSUME FramingInv, [FramingNext]_vars
               PROVE  \/ Channel!ChannelNext
                      \/ Pending' = Pending /\ received' = received
    BY DEF Pending
  <2>1. ASSUME NEW p \in Packet, Pending' = Append(Pending, p), received' = received
        PROVE  Channel!ChannelNext
    BY <2>1 DEF Channel!ChannelNext, Channel!Send, Pending
  <2>2. ASSUME NEW m \in Seq(Packet), m \o Pending' = Pending, received' = received \o m
        PROVE  \/ Channel!ChannelNext
               \/ Pending' = Pending /\ received' = received
    <3>1. Pending' \in Seq(Packet) /\ received \in Seq(Packet)
      BY StepOfChannel DEF FramingInv, OnTheWay
    <3>2. CASE m = <<>>
      BY <2>2, <3>1, <3>2, ConcatEmptySeq
    <3>3. CASE m # <<>>
      <4>1. PICK q, t, n : q = Pending /\ t = Pending' /\ n = Len(m)
        OBVIOUS
      <4>2. q = m \o t /\ t \in Seq(Packet)
        BY <2>2, <3>1, <4>1
      <4>3. SubSeq(q, 1, n) = m /\ SubSeq(q, n + 1, Len(q)) = t
        BY <4>1, <4>2, FrontAndBack
      <4>4. n \in 1..Len(q)
        <5>1. Len(q) = n + Len(t) /\ n \in Nat \ {0} /\ Len(t) \in Nat
          BY <3>3, <4>1, <4>2, ConcatProperties, LenProperties, EmptySeq
        <5> QED BY <5>1
      <4>5. Channel!Receive(n)
        BY <2>2, <4>1, <4>3 DEF Channel!Receive, Pending
      <4>6. n \in 1..Len(Pending)
        BY <4>1, <4>4
      <4> QED BY <4>5, <4>6 DEF Channel!ChannelNext, Pending
    <3> QED BY <3>2, <3>3
  <2>3. ASSUME Pending' = <<>>, received' = <<>> PROVE Channel!ChannelNext
    BY <2>3 DEF Channel!ChannelNext, Channel!Reconnect, Pending
  <2> QED BY <2>1, <2>2, <2>3, StepOfChannel
<1> QED BY <1>1, <1>2, FramingInvariant, PTL DEF FramingSpec, ImplementsChannel, Channel!ChannelSpec
=============================================================================
