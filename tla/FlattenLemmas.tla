--------------------------- MODULE FlattenLemmas ---------------------------
(***************************************************************************)
(* What FlattenSeq of the community modules, which is defined by           *)
(* recursion, makes of a sequence of sequences; proved by induction over a *)
(* set of numbers.  The chain of cbufs of EspTcpBuffer and the packets of  *)
(* PacketParser are such sequences.                                        *)
(***************************************************************************)
EXTENDS Integers, Sequences, SequencesExt, SequenceTheorems, WellFoundedInduction, TLAPS

-----------------------------------------------------------------------------
(* Induction, without an operator as parameter.                             *)

LEMMA Least ==
  ASSUME NEW T, T \subseteq Nat, T # {}
  PROVE  \E m \in T : \A n \in T : m <= n
<1> DEFINE R == OpToRel(<, Nat)
<1>1. IsWellFoundedOn(R, Nat)
  BY NatLessThanWellFounded
<1>2. \A x, y \in Nat : <<y, x>> \in R <=> y < x
  BY DEF OpToRel
<1> HIDE DEF R
<1>3. PICK m \in T : \A n \in T : ~(<<n, m>> \in R)
  BY <1>1, WFMin
<1>4. ASSUME NEW n \in T PROVE m <= n
  <2>1. m \in Nat /\ n \in Nat /\ ~(n < m)
    BY <1>2, <1>3
  <2> QED
    BY <2>1
<1> QED
  BY <1>4

LEMMA Induction ==
  ASSUME NEW P, 0 \in P, \A n \in Nat : n \in P => n + 1 \in P
  PROVE  \A n \in Nat : n \in P
<1> SUFFICES ASSUME NEW k \in Nat, k \notin P PROVE FALSE
  OBVIOUS
<1> DEFINE T == {n \in Nat : n \notin P}
<1>1. PICK m \in T : \A n \in T : m <= n
  BY Least
<1>2. m # 0 /\ m - 1 \in Nat
  BY <1>1
<1>3. m - 1 \in P
  BY <1>1, <1>2
<1> QED
  BY <1>1, <1>2, <1>3

-----------------------------------------------------------------------------
(* The contents of a sequence of sequences, one after the other.            *)

Cat(s, t) == s \o t

Joined(T) ==
  /\ \A a, b \in T : Cat(a, b) \in T
  /\ \A a, b, c \in T : Cat(Cat(a, b), c) = Cat(a, Cat(b, c))

\* f[i] is what the first i of q hold, for each i up to n.
Joins(f, q, n) ==
  f = [i \in 1..n |-> IF i = 1 THEN q[i] ELSE Cat(f[i - 1], q[i])]

LEMMA JoinsExist ==
  ASSUME NEW q
  PROVE  \A n \in Nat : \E f : Joins(f, q, n)
<1> DEFINE P == {n \in Nat : \E f : Joins(f, q, n)}
<1>1. 0 \in P
  <2> DEFINE f == [i \in 1..0 |-> q]
  <2>1. Joins(f, q, 0)
    BY DEF Joins
  <2> QED
    BY <2>1
<1>2. ASSUME NEW n \in Nat, n \in P PROVE n + 1 \in P
  <2>1. PICK f : Joins(f, q, n)
    BY <1>2
  <2> DEFINE g == [i \in 1..(n + 1) |-> IF i = n + 1 THEN IF n = 0 THEN q[1] ELSE Cat(f[n], q[n + 1])
                                        ELSE f[i]]
  <2>2. \A i \in 1..(n + 1) : g[i] = IF i = 1 THEN q[i] ELSE Cat(g[i - 1], q[i])
    <3> SUFFICES ASSUME NEW i \in 1..(n + 1)
                 PROVE  g[i] = IF i = 1 THEN q[i] ELSE Cat(g[i - 1], q[i])
      OBVIOUS
    <3>1. CASE i = n + 1
      <4>1. n # 0 => i - 1 = n /\ i - 1 \in 1..(n + 1) /\ i - 1 # n + 1 /\ i # 1
        BY <3>1
      <4>2. n # 0 => g[i - 1] = f[n]
        BY <4>1
      <4> QED
        BY <3>1, <4>1, <4>2
    <3>2. CASE i # n + 1
      <4>1. i \in 1..n /\ (i # 1 => i - 1 \in 1..(n + 1) /\ i - 1 # n + 1)
        BY <3>2
      <4>2. f[i] = IF i = 1 THEN q[i] ELSE Cat(f[i - 1], q[i])
        BY <2>1, <4>1 DEF Joins
      <4>3. g[i] = f[i] /\ (i # 1 => g[i - 1] = f[i - 1])
        BY <3>2, <4>1
      <4> QED
        BY <4>2, <4>3
    <3> QED
      BY <3>1, <3>2
  <2>3. g = [i \in 1..(n + 1) |-> g[i]]
    OBVIOUS
  <2>4. Joins(g, q, n + 1)
    <3> HIDE DEF g
    <3> QED
      BY <2>2, <2>3 DEF Joins
  <2> QED
    BY <2>4
<1> HIDE DEF P
<1>3. \A n \in Nat : n \in P
  BY <1>1, <1>2, Induction
<1> QED
  BY <1>3 DEF P

\* f[i] is what the first i sequences of q hold.
Contents(f, q, T) ==
  /\ f \in [1..Len(q) -> T]
  /\ f[1] = q[1] /\ FlattenSeq(q) = f[Len(q)]
  /\ \A i \in 1..(Len(q) - 1) : f[i + 1] = Cat(f[i], q[i + 1])

LEMMA FlattenBy ==
  ASSUME NEW T, Joined(T), NEW q \in Seq(T), q # <<>>
  PROVE  \E f : Contents(f, q, T)
<1> DEFINE f == CHOOSE f : Joins(f, q, Len(q))
<1>1. Len(q) \in Nat /\ Len(q) # 0
  OBVIOUS
<1>2. Joins(f, q, Len(q))
  <2>1. \E g : Joins(g, q, Len(q))
    BY <1>1, JoinsExist
  <2> QED
    BY <2>1
<1>3. FlattenSeq(q) = f[Len(q)]
  BY <1>1 DEF FlattenSeq, Joins, Cat
<1> HIDE DEF f
<1> DEFINE P == {i \in Nat : i \in 1..Len(q) => f[i] \in T}
<1>4. 0 \in P
  OBVIOUS
<1>5. ASSUME NEW i \in Nat, i \in P PROVE i + 1 \in P
  <2> SUFFICES ASSUME i + 1 \in 1..Len(q) PROVE f[i + 1] \in T
    OBVIOUS
  <2>1. f[i + 1] = IF i + 1 = 1 THEN q[i + 1] ELSE Cat(f[(i + 1) - 1], q[i + 1])
    BY <1>2 DEF Joins
  <2>2. (i + 1) - 1 = i /\ (i + 1 # 1 => i \in 1..Len(q)) /\ q[i + 1] \in T
    OBVIOUS
  <2>3. \A a, b \in T : Cat(a, b) \in T
    BY DEF Joined
  <2>4. CASE i + 1 = 1
    BY <2>1, <2>2, <2>4
  <2>5. CASE i + 1 # 1
    <3>1. f[i] \in T
      BY <1>5, <2>2, <2>5
    <3>2. Cat(f[i], q[i + 1]) \in T
      BY <2>2, <2>3, <3>1
    <3> QED
      BY <2>1, <2>2, <2>5, <3>2
  <2> QED
    BY <2>4, <2>5
<1> HIDE DEF P
<1>6. \A i \in Nat : i \in P
  BY <1>4, <1>5, Induction
<1>7. \A i \in 1..Len(q) : f[i] \in T
  BY <1>6 DEF P
<1>8. f \in [1..Len(q) -> T]
  BY <1>2, <1>7 DEF Joins
<1>9. f[1] = q[1]
  BY <1>1, <1>2 DEF Joins
<1>10. ASSUME NEW i \in 1..(Len(q) - 1) PROVE f[i + 1] = Cat(f[i], q[i + 1])
  <2>1. i + 1 \in 1..Len(q) /\ i + 1 # 1 /\ (i + 1) - 1 = i
    BY <1>1
  <2>2. f[i + 1] = IF i + 1 = 1 THEN q[i + 1] ELSE Cat(f[(i + 1) - 1], q[i + 1])
    BY <1>2, <2>1 DEF Joins
  <2> QED
    BY <2>1, <2>2
<1> QED
  BY <1>3, <1>8, <1>9, <1>10 DEF Contents

LEMMA FlattenType ==
  ASSUME NEW T, Joined(T), NEW q \in Seq(T), q # <<>>
  PROVE  FlattenSeq(q) \in T
<1>1. PICK f \in [1..Len(q) -> T] : Contents(f, q, T)
  <2>1. \E f : Contents(f, q, T)
    BY FlattenBy
  <2> QED
    BY <2>1 DEF Contents
<1>2. Len(q) \in 1..Len(q)
  OBVIOUS
<1> QED
  BY <1>1, <1>2 DEF Contents

LEMMA FlattenOne ==
  ASSUME NEW T, Joined(T), NEW q \in Seq(T), Len(q) = 1
  PROVE  FlattenSeq(q) = q[1]
<1>1. q # <<>>
  OBVIOUS
<1>2. PICK f : Contents(f, q, T)
  BY <1>1, FlattenBy
<1> QED
  BY <1>2 DEF Contents

\* Two sequences that begin alike.
LEMMA FlattenAlike ==
  ASSUME NEW T, NEW q \in Seq(T), NEW r \in Seq(T), NEW f \in [1..Len(q) -> T], Contents(f, q, T),
         NEW g \in [1..Len(r) -> T], Contents(g, r, T), NEW k \in Nat, k <= Len(q), k <= Len(r), \A i \in 1..k : q[i] = r[i]
  PROVE  \A i \in 1..k : f[i] = g[i]
<1> DEFINE P == {i \in Nat : i \in 1..k => f[i] = g[i]}
<1>1. 0 \in P
  OBVIOUS
<1>2. ASSUME NEW i \in Nat, i \in P PROVE i + 1 \in P
  <2> SUFFICES ASSUME i + 1 \in 1..k PROVE f[i + 1] = g[i + 1]
    OBVIOUS
  <2>1. CASE i = 0
    BY <2>1 DEF Contents
  <2>2. CASE i # 0
    <3>1. f[i] = g[i] /\ q[i + 1] = r[i + 1]
      BY <1>2, <2>2
    <3>2. f[i + 1] = Cat(f[i], q[i + 1]) /\ g[i + 1] = Cat(g[i], r[i + 1])
      BY <2>2 DEF Contents
    <3> QED
      BY <3>1, <3>2
  <2> QED
    BY <2>1, <2>2
<1> HIDE DEF P
<1>3. \A i \in Nat : i \in P
  BY <1>1, <1>2, Induction
<1> QED
  BY <1>3 DEF P

\* Elements are added to the last sequence.
LEMMA FlattenLast ==
  ASSUME NEW T, Joined(T), NEW q \in Seq(T), q # <<>>, NEW r \in Seq(T), Len(r) = Len(q),
         \A i \in 1..(Len(q) - 1) : r[i] = q[i],
         NEW x \in T, r[Len(q)] = Cat(q[Len(q)], x)
  PROVE  FlattenSeq(r) = Cat(FlattenSeq(q), x)
<1>1. PICK f \in [1..Len(q) -> T] : Contents(f, q, T)
  <2>1. \E f : Contents(f, q, T)
    BY FlattenBy
  <2> QED
    BY <2>1 DEF Contents
<1>2. r # <<>> /\ Len(q) \in Nat /\ Len(q) # 0
  OBVIOUS
<1>3. PICK g \in [1..Len(r) -> T] : Contents(g, r, T)
  <2>1. \E g : Contents(g, r, T)
    BY <1>2, FlattenBy
  <2> QED
    BY <2>1 DEF Contents
<1>4. CASE Len(q) = 1
  BY <1>1, <1>3, <1>4 DEF Contents
<1>5. CASE Len(q) # 1
  <2> DEFINE k == Len(q) - 1
  <2>1. k \in Nat /\ k <= Len(q) /\ k \in 1..(Len(q) - 1) /\ k \in 1..k /\ k + 1 = Len(q)
        /\ k \in 1..Len(q) /\ Len(q) \in 1..Len(q)
    BY <1>2, <1>5
  <2>2. \A i \in 1..k : q[i] = r[i]
    OBVIOUS
  <2> HIDE DEF k
  <2>3. \A i \in 1..k : f[i] = g[i]
    BY <1>1, <1>2, <1>3, <2>1, <2>2, FlattenAlike
  <2>4. f[k] = g[k] /\ f[k + 1] = Cat(f[k], q[k + 1]) /\ g[k + 1] = Cat(g[k], r[k + 1])
    BY <1>1, <1>3, <2>1, <2>3 DEF Contents
  <2>5. f[k] \in T /\ q[k + 1] \in T
    BY <2>1
  <2>6. Cat(Cat(f[k], q[k + 1]), x) = Cat(f[k], Cat(q[k + 1], x))
    BY <2>5 DEF Joined
  <2> QED
    BY <1>1, <1>3, <2>1, <2>4, <2>6 DEF Contents
<1> QED
  BY <1>4, <1>5

LEMMA FlattenAppend ==
  ASSUME NEW T, Joined(T), NEW q \in Seq(T), q # <<>>, NEW x \in T
  PROVE  FlattenSeq(Append(q, x)) = Cat(FlattenSeq(q), x)
<1>1. PICK f \in [1..Len(q) -> T] : Contents(f, q, T)
  <2>1. \E f : Contents(f, q, T)
    BY FlattenBy
  <2> QED
    BY <2>1 DEF Contents
<1>2. PICK r \in Seq(T) : r = Append(q, x)
  BY AppendProperties
<1>3. r # <<>> /\ Len(r) = Len(q) + 1 /\ r[Len(q) + 1] = x /\ \A i \in 1..Len(q) : q[i] = r[i]
  BY <1>2, AppendProperties
<1>4. PICK g \in [1..Len(r) -> T] : Contents(g, r, T)
  <2>1. \E g : Contents(g, r, T)
    BY <1>3, FlattenBy
  <2> QED
    BY <2>1 DEF Contents
<1>5. Len(q) \in Nat /\ Len(r) \in Nat /\ Len(q) <= Len(r) /\ Len(q) <= Len(q)
      /\ Len(q) \in 1..Len(q) /\ Len(q) \in 1..(Len(r) - 1)
  BY <1>3
<1>6. \A i \in 1..Len(q) : f[i] = g[i]
  BY <1>1, <1>3, <1>4, <1>5, FlattenAlike
<1>7. g[Len(q) + 1] = Cat(g[Len(q)], r[Len(q) + 1])
  BY <1>4, <1>5 DEF Contents
<1> QED
  BY <1>1, <1>2, <1>3, <1>4, <1>5, <1>6, <1>7 DEF Contents

LEMMA FlattenCons ==
  ASSUME NEW T, Joined(T), NEW x \in T, NEW q \in Seq(T), q # <<>>,
         NEW r \in Seq(T), Len(r) = Len(q) + 1, r[1] = x, \A i \in 1..Len(q) : r[i + 1] = q[i]
  PROVE  FlattenSeq(r) = Cat(x, FlattenSeq(q))
<1>1. PICK f \in [1..Len(q) -> T] : Contents(f, q, T)
  <2>1. \E f : Contents(f, q, T)
    BY FlattenBy
  <2> QED
    BY <2>1 DEF Contents
<1>2. r # <<>> /\ Len(q) \in Nat /\ Len(q) # 0
  OBVIOUS
<1>4. PICK g \in [1..Len(r) -> T] : Contents(g, r, T)
  <2>1. \E g : Contents(g, r, T)
    BY <1>2, FlattenBy
  <2> QED
    BY <2>1 DEF Contents
<1> DEFINE P == {i \in Nat : i \in 1..Len(q) => g[i + 1] = Cat(x, f[i])}
<1>5. 0 \in P
  OBVIOUS
<1>6. ASSUME NEW i \in Nat, i \in P PROVE i + 1 \in P
  <2> SUFFICES ASSUME i + 1 \in 1..Len(q) PROVE g[(i + 1) + 1] = Cat(x, f[i + 1])
    OBVIOUS
  <2>1. g[(i + 1) + 1] = Cat(g[i + 1], r[(i + 1) + 1]) /\ r[(i + 1) + 1] = q[i + 1]
    BY <1>4 DEF Contents
  <2>2. CASE i = 0
    BY <1>1, <1>4, <2>1, <2>2 DEF Contents
  <2>3. CASE i # 0
    <3> HIDE DEF P
    <3>1. f[i] \in T
      <4>1. i \in 1..Len(q)
        BY <1>2, <2>3
      <4> QED
        BY <4>1
    <3>2. q[i + 1] \in T
      OBVIOUS
    <3>3. Cat(Cat(x, f[i]), q[i + 1]) = Cat(x, Cat(f[i], q[i + 1]))
      <4>1. \A a, b, c \in T : Cat(Cat(a, b), c) = Cat(a, Cat(b, c))
        BY DEF Joined
      <4> QED
        BY <3>1, <3>2, <4>1
    <3>4. g[i + 1] = Cat(x, f[i]) /\ f[i + 1] = Cat(f[i], q[i + 1])
      BY <1>1, <1>6, <2>3 DEF Contents, P
    <3> QED
      BY <2>1, <3>3, <3>4
  <2> QED
    BY <2>2, <2>3
<1> HIDE DEF P
<1>7. \A i \in Nat : i \in P
  BY <1>5, <1>6, Induction
<1>8. Len(q) \in Nat /\ Len(q) \in 1..Len(q) /\ Len(r) = Len(q) + 1
  BY <1>2
<1>9. g[Len(q) + 1] = Cat(x, f[Len(q)])
  BY <1>7, <1>8 DEF P
<1> QED
  BY <1>1, <1>4, <1>8, <1>9 DEF Contents

LEMMA SeqJoined ==
  ASSUME NEW S
  PROVE  Joined(Seq(S))
<1>1. ASSUME NEW a \in Seq(S), NEW b \in Seq(S) PROVE Cat(a, b) \in Seq(S)
  BY ConcatProperties DEF Cat
<1>2. ASSUME NEW a \in Seq(S), NEW b \in Seq(S), NEW c \in Seq(S)
      PROVE  Cat(Cat(a, b), c) = Cat(a, Cat(b, c))
  BY ConcatAssociative DEF Cat
<1> QED
  BY <1>1, <1>2 DEF Joined

\* v is t behind s.
Follows(v, s, t) ==
  /\ Len(v) = Len(s) + Len(t)
  /\ \A i \in 1..Len(s) : v[i] = s[i]
  /\ \A i \in 1..Len(t) : v[Len(s) + i] = t[i]

LEMMA CatIndexed ==
  ASSUME NEW S, NEW s \in Seq(S), NEW t \in Seq(S)
  PROVE  Cat(s, t) \in Seq(S) /\ Follows(Cat(s, t), s, t)
<1>1. /\ Cat(s, t) \in Seq(S) /\ Len(Cat(s, t)) = Len(s) + Len(t)
      /\ \A i \in 1..(Len(s) + Len(t)) :
           Cat(s, t)[i] = IF i <= Len(s) THEN s[i] ELSE t[i - Len(s)]
  BY ConcatProperties DEF Cat
<1>2. ASSUME NEW i \in 1..Len(s) PROVE Cat(s, t)[i] = s[i]
  <2>1. i \in 1..(Len(s) + Len(t)) /\ i <= Len(s)
    OBVIOUS
  <2> QED
    BY <1>1, <2>1
<1>3. ASSUME NEW i \in 1..Len(t) PROVE Cat(s, t)[Len(s) + i] = t[i]
  <2>1. Len(s) + i \in 1..(Len(s) + Len(t)) /\ ~(Len(s) + i <= Len(s)) /\ (Len(s) + i) - Len(s) = i
    OBVIOUS
  <2> QED
    BY <1>1, <2>1
<1> QED
  BY <1>1, <1>2, <1>3 DEF Follows

\* What the first n sequences of f hold.
Prefix(f, n) == FlattenSeq([i \in 1..n |-> f[i]])

LEMMA PrefixNone ==
  ASSUME NEW f
  PROVE  Prefix(f, 0) = <<>>
<1> DEFINE q == [i \in 1..0 |-> f[i]]
<1>1. q \in Seq({}) /\ Len(q) = 0
  OBVIOUS
<1>2. q = <<>>
  BY <1>1
<1>3. Prefix(f, 0) = FlattenSeq(q)
  BY DEF Prefix
<1> HIDE DEF q
<1> QED
  BY <1>1, <1>2, <1>3 DEF FlattenSeq

LEMMA PrefixNext ==
  ASSUME NEW S, NEW N \in Nat, NEW f \in [1..N -> Seq(S)], NEW n \in 0..(N - 1),
         Prefix(f, n) \in Seq(S)
  PROVE  Prefix(f, n + 1) = Cat(Prefix(f, n), f[n + 1]) /\ Prefix(f, n + 1) \in Seq(S)
<1> DEFINE T == Seq(S)
<1>1. Joined(T) /\ <<>> \in T /\ f \in [1..N -> T] /\ Prefix(f, n) \in T
  BY SeqJoined
<1>2. Prefix(f, n + 1) = Cat(Prefix(f, n), f[n + 1])
  <2>1. CASE n = 0
    <3>1. Cat(<<>>, f[1]) = f[1]
      <4>1. f[1] \in Seq(S)
        BY <2>1
      <4> QED
        BY <4>1, ConcatEmptySeq DEF Cat
    <3> DEFINE q == [i \in 1..1 |-> f[i]]
    <3>2. q \in Seq(Seq(S)) /\ Len(q) = 1 /\ q[1] = f[1]
      <4>1. \A i \in 1..1 : f[i] \in Seq(S)
        BY <2>1
      <4> QED
        BY <4>1
    <3> HIDE DEF q
    <3>3. FlattenSeq(q) = q[1]
      BY <3>2, SeqJoined, FlattenOne
    <3>4. Prefix(f, 1) = FlattenSeq(q) /\ Prefix(f, 0) = <<>>
      BY PrefixNone DEF Prefix, q
    <3> QED
      BY <2>1, <3>1, <3>2, <3>3, <3>4
  <2>2. CASE n # 0
    <3> HIDE DEF T
    <3> DEFINE q == [i \in 1..n |-> f[i]]
    <3> DEFINE r == [i \in 1..(n + 1) |-> f[i]]
    <3>1. n \in Nat /\ n + 1 \in 1..N /\ n \in 1..N /\ \A i \in 1..(n + 1) : f[i] \in T
      BY <1>1, <2>2
    <3>2. q \in Seq(T) /\ Len(q) = n /\ \A i \in 1..n : q[i] = f[i]
      BY <3>1
    <3>3. r \in Seq(T) /\ Len(r) = n + 1 /\ \A i \in 1..(n + 1) : r[i] = f[i]
      BY <3>1
    <3>4. Prefix(f, n) = FlattenSeq(q) /\ Prefix(f, n + 1) = FlattenSeq(r)
      BY DEF Prefix
    <3> HIDE DEF q, r
    <3>5. r = Append(q, f[n + 1])
      <4>1. f[n + 1] \in T
        BY <3>1
      <4>2. PICK a \in Seq(T) : /\ a = Append(q, f[n + 1]) /\ Len(a) = Len(q) + 1
                                /\ \A i \in 1..Len(q) : a[i] = q[i]
                                /\ a[Len(q) + 1] = f[n + 1]
        BY <3>2, <4>1, AppendProperties
      <4>3. \A i \in 1..(n + 1) : a[i] = r[i]
        <5> SUFFICES ASSUME NEW i \in 1..(n + 1) PROVE a[i] = r[i]
          OBVIOUS
        <5>1. CASE i = n + 1
          BY <3>2, <3>3, <4>2, <5>1
        <5>2. CASE i # n + 1
          <6>1. i \in 1..n
            BY <5>2
          <6> QED
            BY <3>2, <3>3, <4>2, <6>1
        <5> QED
          BY <5>1, <5>2
      <4>4. a = r
        BY <3>2, <3>3, <4>2, <4>3, SeqEqual
      <4> QED
        BY <4>2, <4>4
    <3>6. q # <<>> /\ f[n + 1] \in T
      BY <2>2, <3>1, <3>2
    <3>7. FlattenSeq(Append(q, f[n + 1])) = Cat(FlattenSeq(q), f[n + 1])
      BY <1>1, <3>2, <3>6, FlattenAppend
    <3> QED
      BY <3>4, <3>5, <3>7
  <2> QED
    BY <2>1, <2>2
<1>3. f[n + 1] \in T
  <2>1. n + 1 \in 1..N
    OBVIOUS
  <2> QED
    BY <1>1, <2>1
<1>4. Cat(Prefix(f, n), f[n + 1]) \in T
  <2> HIDE DEF T
  <2> QED
    BY <1>1, <1>3 DEF Joined
<1> QED
  BY <1>2, <1>4

LEMMA PrefixType ==
  ASSUME NEW S, NEW N \in Nat, NEW f \in [1..N -> Seq(S)]
  PROVE  \A n \in 0..N : Prefix(f, n) \in Seq(S)
<1> DEFINE P == {n \in Nat : n <= N => Prefix(f, n) \in Seq(S)}
<1>1. 0 \in P
  <2>1. Prefix(f, 0) = <<>> /\ <<>> \in Seq(S)
    BY PrefixNone
  <2> QED
    BY <2>1
<1>2. ASSUME NEW n \in Nat, n \in P PROVE n + 1 \in P
  <2> SUFFICES ASSUME n + 1 <= N PROVE Prefix(f, n + 1) \in Seq(S)
    OBVIOUS
  <2>1. n \in 0..(N - 1) /\ Prefix(f, n) \in Seq(S)
    BY <1>2
  <2> QED
    BY <2>1, PrefixNext
<1> HIDE DEF P
<1>3. \A n \in Nat : n \in P
  BY <1>1, <1>2, Induction
<1> QED
  BY <1>3 DEF P

\* s begins with t.
Begins(s, t) == Len(t) <= Len(s) /\ \A k \in 1..Len(t) : s[k] = t[k]

LEMMA PrefixBegins ==
  ASSUME NEW S, NEW N \in Nat, NEW f \in [1..N -> Seq(S)], NEW n \in 0..N
  PROVE  \A m \in n..N : Begins(Prefix(f, m), Prefix(f, n))
<1> DEFINE P == {m \in Nat : m \in n..N => Begins(Prefix(f, m), Prefix(f, n))}
<1>1. 0 \in P
  <2> SUFFICES ASSUME 0 \in n..N PROVE Begins(Prefix(f, 0), Prefix(f, n))
    OBVIOUS
  <2>1. n = 0 /\ Prefix(f, n) \in Seq(S)
    BY PrefixType
  <2> QED
    BY <2>1 DEF Begins
<1>2. ASSUME NEW m \in Nat, m \in P PROVE m + 1 \in P
  <2> SUFFICES ASSUME m + 1 \in n..N PROVE Begins(Prefix(f, m + 1), Prefix(f, n))
    OBVIOUS
  <2>1. PICK t \in Seq(S) : t = Prefix(f, n)
    BY PrefixType
  <2>2. CASE m + 1 = n
    BY <2>1, <2>2 DEF Begins
  <2>3. CASE m + 1 # n
    <3>1. m \in n..N /\ m \in 0..(N - 1) /\ m \in 0..N /\ m + 1 \in 1..N
      BY <2>3
    <3>2. PICK s \in Seq(S) : s = Prefix(f, m)
      BY <3>1, PrefixType
    <3>3. Begins(s, t)
      BY <1>2, <2>1, <3>1, <3>2
    <3>4. PICK x \in Seq(S) : x = f[m + 1]
      BY <3>1
    <3>5. PICK u \in Seq(S) : u = Prefix(f, m + 1) /\ u = Cat(s, x) /\ Follows(u, s, x)
      <4>1. Prefix(f, m + 1) = Cat(s, x)
        BY <3>1, <3>2, <3>4, PrefixNext
      <4>2. Cat(s, x) \in Seq(S) /\ Follows(Cat(s, x), s, x)
        BY CatIndexed
      <4> QED
        BY <4>1, <4>2
    <3>6. Len(t) <= Len(u)
      BY <3>3, <3>5 DEF Begins, Follows
    <3>7. ASSUME NEW k \in 1..Len(t) PROVE u[k] = t[k]
      <4>1. k \in 1..Len(s) /\ s[k] = t[k]
        BY <3>3 DEF Begins
      <4> QED
        BY <3>5, <4>1 DEF Follows
    <3> QED
      BY <2>1, <3>5, <3>6, <3>7 DEF Begins
  <2> QED
    BY <2>2, <2>3
<1> HIDE DEF P
<1>3. \A m \in Nat : m \in P
  BY <1>1, <1>2, Induction
<1> QED
  BY <1>3 DEF P

\* Sequence n lies in the first m behind those before it.
Lies(f, n, m) ==
  /\ Len(Prefix(f, n)) = Len(Prefix(f, n - 1)) + Len(f[n])
  /\ Len(Prefix(f, n)) <= Len(Prefix(f, m))
  /\ \A k \in 1..Len(f[n]) : Prefix(f, m)[Len(Prefix(f, n - 1)) + k] = f[n][k]

LEMMA PrefixPart ==
  ASSUME NEW S, NEW N \in Nat, NEW f \in [1..N -> Seq(S)], NEW n \in 1..N, NEW m \in n..N
  PROVE  Len(Prefix(f, n - 1)) \in Nat /\ Lies(f, n, m)
<1>1. n - 1 \in 0..(N - 1) /\ n - 1 \in 0..N /\ n \in 0..N /\ (n - 1) + 1 = n /\ m \in 0..N
  OBVIOUS
<1>2. PICK s \in Seq(S) : s = Prefix(f, n - 1)
  BY <1>1, PrefixType
<1>3. PICK x \in Seq(S) : x = f[n]
  OBVIOUS
<1>4. PICK u \in Seq(S) : u = Prefix(f, n) /\ Follows(u, s, x)
  <2>1. Prefix(f, n) = Cat(s, x)
    BY <1>1, <1>2, <1>3, PrefixNext
  <2>2. Cat(s, x) \in Seq(S) /\ Follows(Cat(s, x), s, x)
    BY CatIndexed
  <2> QED
    BY <2>1, <2>2
<1>5. PICK w \in Seq(S) : w = Prefix(f, m)
  BY <1>1, PrefixType
<1>6. Begins(w, u)
  BY <1>1, <1>4, <1>5, PrefixBegins
<1>7. ASSUME NEW k \in 1..Len(x) PROVE w[Len(s) + k] = x[k]
  <2>1. Len(s) + k \in 1..Len(u) /\ u[Len(s) + k] = x[k]
    BY <1>4 DEF Follows
  <2> QED
    BY <1>6, <2>1 DEF Begins
<1>8. Len(u) = Len(s) + Len(x) /\ Len(u) <= Len(w)
  BY <1>4, <1>6 DEF Follows, Begins
<1>9. Len(Prefix(f, n - 1)) \in Nat
  BY <1>2
<1>10. ASSUME NEW k \in 1..Len(f[n])
       PROVE  Prefix(f, m)[Len(Prefix(f, n - 1)) + k] = f[n][k]
  <2>1. w[Len(s) + k] = x[k]
    BY <1>3, <1>7
  <2> QED
    BY <1>2, <1>3, <1>5, <2>1
<1>11. /\ Len(Prefix(f, n)) = Len(Prefix(f, n - 1)) + Len(f[n])
       /\ Len(Prefix(f, n)) <= Len(Prefix(f, m))
  BY <1>2, <1>3, <1>4, <1>5, <1>8
<1> QED
  BY <1>9, <1>10, <1>11 DEF Lies
=============================================================================
