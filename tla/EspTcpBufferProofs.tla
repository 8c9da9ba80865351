------------------------- MODULE EspTcpBufferProofs -------------------------
(***************************************************************************)
(* Proofs about AsyncTCPbuffer, for every size of cbuf, room in lwIP and   *)
(* number of bytes: types; that the chain of cbufs and the wire are what   *)
(* was written; and that reads are answered with the right bytes.          *)
(*                                                                         *)
(* What a chain holds is FlattenSeq of it: see FlattenLemmas.              *)
(***************************************************************************)
EXTENDS EspTcpBuffer, FlattenLemmas

-----------------------------------------------------------------------------
(* Numbered bytes, and the set of a sequence's elements.                    *)

LEMMA NumbersAre ==
  ASSUME NEW from \in Nat, NEW n \in Nat
  PROVE  /\ Numbers(from, n) \in Seq(Nat) /\ Len(Numbers(from, n)) = n
         /\ \A i \in 1..n : Numbers(from, n)[i] = from + i
<1>1. \A i \in 1..n : from + i \in Nat
  OBVIOUS
<1> QED
  BY <1>1 DEF Numbers

LEMMA NumbersCat ==
  ASSUME NEW from \in Nat, NEW n \in Nat, NEW m \in Nat
  PROVE  Cat(Numbers(from, n), Numbers(from + n, m)) = Numbers(from, n + m)
<1>1. PICK s \in Seq(Nat) :
        s = Numbers(from, n) /\ Len(s) = n /\ \A i \in 1..n : s[i] = from + i
  BY NumbersAre
<1>2. PICK t \in Seq(Nat) :
        t = Numbers(from + n, m) /\ Len(t) = m /\ \A i \in 1..m : t[i] = (from + n) + i
  <2>1. from + n \in Nat
    OBVIOUS
  <2> QED
    BY <2>1, NumbersAre
<1>3. PICK u \in Seq(Nat) :
        u = Numbers(from, n + m) /\ Len(u) = n + m /\ \A i \in 1..(n + m) : u[i] = from + i
  <2>1. n + m \in Nat
    OBVIOUS
  <2> QED
    BY <2>1, NumbersAre
<1>4. PICK v \in Seq(Nat) :
        /\ v = Cat(s, t) /\ Len(v) = Len(s) + Len(t)
        /\ \A i \in 1..Len(s) : v[i] = s[i]
        /\ \A i \in 1..Len(t) : v[Len(s) + i] = t[i]
  <2>1. Cat(s, t) \in Seq(Nat) /\ Follows(Cat(s, t), s, t)
    BY CatIndexed
  <2>2. PICK v \in Seq(Nat) : v = Cat(s, t)
    BY <2>1
  <2>3. Follows(v, s, t)
    BY <2>1, <2>2
  <2> QED
    BY <2>2, <2>3 DEF Follows
<1>5. ASSUME NEW i \in 1..Len(v) PROVE v[i] = u[i]
  <2>0. i \in 1..(n + m)
    BY <1>1, <1>2, <1>4
  <2>1. CASE i <= n
    <3>1. i \in 1..n /\ i \in 1..(n + m) /\ Len(s) = n
      BY <1>1, <2>0, <2>1
    <3>2. v[i] = s[i]
      BY <1>4, <3>1
    <3>3. s[i] = from + i
      BY <1>1, <3>1
    <3>4. u[i] = from + i
      BY <1>3, <3>1
    <3> QED
      BY <3>2, <3>3, <3>4
  <2>2. CASE ~(i <= n)
    <3>1. i - n \in 1..m /\ n + (i - n) = i /\ (from + n) + (i - n) = from + i
      BY <2>0, <2>2
    <3>2. v[n + (i - n)] = t[i - n] /\ t[i - n] = (from + n) + (i - n)
      BY <1>1, <1>2, <1>4, <3>1
    <3> QED
      BY <1>3, <2>0, <3>1, <3>2
  <2> QED
    BY <2>1, <2>2
<1>6. Len(v) = Len(u)
  BY <1>1, <1>2, <1>3, <1>4
<1>7. v = u
  BY <1>5, <1>6, SeqEqual
<1> QED
  BY <1>1, <1>2, <1>3, <1>4, <1>7

LEMMA ToSetCat ==
  ASSUME NEW S, NEW s \in Seq(S), NEW t \in Seq(S)
  PROVE  ToSet(Cat(s, t)) = ToSet(s) \cup ToSet(t)
<1>1. PICK v \in Seq(S) :
        /\ v = Cat(s, t) /\ Len(v) = Len(s) + Len(t)
        /\ \A i \in 1..Len(s) : v[i] = s[i]
        /\ \A i \in 1..Len(t) : v[Len(s) + i] = t[i]
  <2>1. Cat(s, t) \in Seq(S) /\ Follows(Cat(s, t), s, t)
    BY CatIndexed
  <2>2. PICK v \in Seq(S) : v = Cat(s, t)
    BY <2>1
  <2>3. Follows(v, s, t)
    BY <2>1, <2>2
  <2> QED
    BY <2>2, <2>3 DEF Follows
<1>2. ASSUME NEW i \in 1..Len(v) PROVE v[i] \in ToSet(s) \cup ToSet(t)
  <2>1. CASE i <= Len(s)
    BY <1>1, <2>1 DEF ToSet
  <2>2. CASE ~(i <= Len(s))
    <3>1. i - Len(s) \in 1..Len(t) /\ Len(s) + (i - Len(s)) = i
      BY <1>1, <2>2
    <3>2. v[Len(s) + (i - Len(s))] = t[i - Len(s)]
      BY <1>1, <3>1
    <3> QED
      BY <3>1, <3>2 DEF ToSet
  <2> QED
    BY <2>1, <2>2
<1>3. ASSUME NEW i \in 1..Len(s) PROVE s[i] \in ToSet(v)
  <2>1. i \in 1..Len(v) /\ v[i] = s[i]
    BY <1>1
  <2> QED
    BY <2>1 DEF ToSet
<1>4. ASSUME NEW i \in 1..Len(t) PROVE t[i] \in ToSet(v)
  <2>1. Len(s) + i \in 1..Len(v) /\ v[Len(s) + i] = t[i]
    BY <1>1
  <2> QED
    BY <2>1 DEF ToSet
<1>5. ToSet(v) \subseteq ToSet(s) \cup ToSet(t)
  BY <1>2 DEF ToSet
<1>6. ToSet(s) \subseteq ToSet(v) /\ ToSet(t) \subseteq ToSet(v)
  <2>1. ToSet(s) \subseteq ToSet(v)
    <3> SUFFICES ASSUME NEW x \in ToSet(s) PROVE x \in ToSet(v)
      OBVIOUS
    <3>1. PICK i \in 1..Len(s) : x = s[i]
      BY DEF ToSet
    <3> QED
      BY <1>3, <3>1
  <2>2. ToSet(t) \subseteq ToSet(v)
    <3> SUFFICES ASSUME NEW x \in ToSet(t) PROVE x \in ToSet(v)
      OBVIOUS
    <3>1. PICK i \in 1..Len(t) : x = t[i]
      BY DEF ToSet
    <3> QED
      BY <1>4, <3>1
  <2> QED
    BY <2>1, <2>2
<1> QED
  BY <1>1, <1>5, <1>6

LEMMA ToSetNumbers ==
  ASSUME NEW from \in Nat, NEW n \in Nat
  PROVE  ToSet(Numbers(from, n)) = (from + 1)..(from + n)
<1>1. PICK s \in Seq(Nat) :
        s = Numbers(from, n) /\ Len(s) = n /\ \A i \in 1..n : s[i] = from + i
  BY NumbersAre
<1>2. ASSUME NEW k \in (from + 1)..(from + n) PROVE k \in ToSet(s)
  <2>1. k - from \in 1..n /\ from + (k - from) = k
    OBVIOUS
  <2>2. s[k - from] = from + (k - from)
    BY <1>1, <2>1
  <2> QED
    BY <1>1, <2>1, <2>2 DEF ToSet
<1>3. ASSUME NEW i \in 1..Len(s) PROVE s[i] \in (from + 1)..(from + n)
  BY <1>1
<1>4. ToSet(s) \subseteq (from + 1)..(from + n)
  BY <1>3 DEF ToSet
<1> QED
  BY <1>1, <1>2, <1>4

-----------------------------------------------------------------------------
(* What fill, grow and send do to the chain.                                *)

Bytes == Seq(Nat)

LEMMA BytesJoined == Joined(Bytes)
BY SeqJoined DEF Bytes

Filled(q, x) == [q EXCEPT ![Len(q)] = Cat(q[Len(q)], x)]

LEMMA ChainFilled ==
  ASSUME NEW q \in Seq(Bytes), q # <<>>, NEW x \in Bytes
  PROVE  /\ Filled(q, x) \in Seq(Bytes) /\ Len(Filled(q, x)) = Len(q)
         /\ \A i \in 1..(Len(q) - 1) : Filled(q, x)[i] = q[i]
         /\ Filled(q, x)[Len(q)] = Cat(q[Len(q)], x)
         /\ FlattenSeq(Filled(q, x)) = Cat(FlattenSeq(q), x)
<1> DEFINE r == Filled(q, x)
<1>1. Len(q) \in Nat /\ Len(q) \in 1..Len(q) /\ q[Len(q)] \in Bytes
  OBVIOUS
<1>2. Cat(q[Len(q)], x) \in Bytes
  BY <1>1, BytesJoined DEF Joined
<1>3. PICK y \in Bytes : y = Cat(q[Len(q)], x)
  BY <1>2
<1>4. /\ r \in Seq(Bytes) /\ Len(r) = Len(q)
      /\ \A j \in 1..Len(q) : r[j] = IF j = Len(q) THEN y ELSE q[j]
  <2>1. r = [q EXCEPT ![Len(q)] = y]
    BY <1>3 DEF Filled
  <2> HIDE DEF r
  <2> QED
    BY <1>1, <2>1, ExceptSeq
<1> HIDE DEF r
<1>5. ASSUME NEW i \in 1..(Len(q) - 1) PROVE r[i] = q[i]
  <2>1. i \in 1..Len(q) /\ i # Len(q)
    BY <1>1
  <2> QED
    BY <1>4, <2>1
<1>6. r[Len(q)] = Cat(q[Len(q)], x)
  BY <1>1, <1>3, <1>4
<1>7. FlattenSeq(r) = Cat(FlattenSeq(q), x)
  BY <1>4, <1>5, <1>6, BytesJoined, FlattenLast
<1> QED
  BY <1>4, <1>5, <1>6, <1>7 DEF r

Appended(r, q, x) ==
  /\ r # <<>> /\ Len(r) = Len(q) + 1
  /\ r[Len(q) + 1] = x /\ \A i \in 1..Len(q) : r[i] = q[i]

LEMMA AppendIs ==
  ASSUME NEW T, NEW q \in Seq(T), NEW x \in T
  PROVE  Append(q, x) \in Seq(T) /\ Appended(Append(q, x), q, x)
<1>1. PICK r \in Seq(T) : r = Append(q, x)
  BY AppendProperties
<1>2. r # <<>> /\ Len(r) = Len(q) + 1 /\ r[Len(q) + 1] = x /\ \A i \in 1..Len(q) : r[i] = q[i]
  BY <1>1, AppendProperties
<1>3. Appended(r, q, x)
  BY <1>2 DEF Appended
<1> QED
  BY <1>1, <1>3

LEMMA ChainGrown ==
  ASSUME NEW q \in Seq(Bytes), q # <<>>
  PROVE  FlattenSeq(Append(q, <<>>)) = FlattenSeq(q)
<1>1. <<>> \in Bytes
  BY EmptySeq DEF Bytes
<1>2. FlattenSeq(Append(q, <<>>)) = Cat(FlattenSeq(q), <<>>)
  BY <1>1, BytesJoined, FlattenAppend
<1>3. FlattenSeq(q) \in Bytes
  BY BytesJoined, FlattenType
<1>4. Cat(FlattenSeq(q), <<>>) = FlattenSeq(q)
  BY <1>3, ConcatEmptySeq DEF Cat, Bytes
<1> QED
  BY <1>2, <1>4

\* n bytes of the first cbuf, and what is left of it.
LEMMA Split ==
  ASSUME NEW S, NEW s \in Seq(S), NEW n \in 0..Len(s)
  PROVE  /\ SubSeq(s, 1, n) \in Seq(S) /\ Len(SubSeq(s, 1, n)) = n
         /\ SubSeq(s, n + 1, Len(s)) \in Seq(S) /\ Len(SubSeq(s, n + 1, Len(s))) = Len(s) - n
         /\ Cat(SubSeq(s, 1, n), SubSeq(s, n + 1, Len(s))) = s
<1>1. Len(s) \in Nat /\ n \in Int /\ 1 \in Int /\ n + 1 \in Int /\ Len(s) \in Int
  OBVIOUS
<1>2. \A i \in 1..n : s[i] \in S
  OBVIOUS
<1>3. \A i \in (n + 1)..Len(s) : s[i] \in S
  OBVIOUS
<1>4. SubSeq(s, 1, n) \in Seq(S) /\ Len(SubSeq(s, 1, n)) = IF 1 <= n THEN n - 1 + 1 ELSE 0
  BY <1>1, <1>2, SubSeqProperties
<1>5. SubSeq(s, n + 1, Len(s)) \in Seq(S)
      /\ Len(SubSeq(s, n + 1, Len(s))) = IF n + 1 <= Len(s) THEN Len(s) - (n + 1) + 1 ELSE 0
  BY <1>1, <1>3, SubSeqProperties
<1>6. SubSeq(s, 1, n) \o SubSeq(s, n + 1, Len(s)) = SubSeq(s, 1, Len(s))
  <2>1. 1 \in 1..(Len(s) + 1) /\ n \in (1 - 1)..Len(s) /\ Len(s) \in n..Len(s)
    BY <1>1
  <2> QED
    BY <2>1, ConcatAdjacentSubSeq
<1>7. SubSeq(s, 1, Len(s)) = s
  BY SubSeqFull
<1>8. /\ (IF 1 <= n THEN n - 1 + 1 ELSE 0) = n
      /\ (IF n + 1 <= Len(s) THEN Len(s) - (n + 1) + 1 ELSE 0) = Len(s) - n
  BY <1>1
<1>9. Cat(SubSeq(s, 1, n), SubSeq(s, n + 1, Len(s))) = s
  BY <1>6, <1>7 DEF Cat
<1>10. Len(SubSeq(s, 1, n)) = n
  BY <1>4, <1>8
<1>11. Len(SubSeq(s, n + 1, Len(s))) = Len(s) - n
  BY <1>5, <1>8
<1> QED
  BY <1>4, <1>5, <1>9, <1>10, <1>11

LEMMA TailIs ==
  ASSUME NEW T, NEW q \in Seq(T), q # <<>>
  PROVE  /\ Tail(q) \in Seq(T) /\ Len(q) = Len(Tail(q)) + 1
         /\ \A i \in 1..Len(Tail(q)) : q[i + 1] = Tail(q)[i]
         /\ Head(q) = q[1] /\ q[1] \in T
OBVIOUS

LEMMA ConsIs ==
  ASSUME NEW T, NEW x \in T, NEW u \in Seq(T)
  PROVE  /\ <<x>> \o u \in Seq(T) /\ Len(<<x>> \o u) = Len(u) + 1
         /\ (<<x>> \o u)[1] = x /\ \A i \in 1..Len(u) : (<<x>> \o u)[i + 1] = u[i]
<1>1. PICK s \in Seq(T) : s = <<x>> /\ Len(s) = 1 /\ s[1] = x
  <2>1. <<x>> \in Seq(T) /\ Len(<<x>>) = 1 /\ <<x>>[1] = x
    OBVIOUS
  <2> QED
    BY <2>1
<1>2. Cat(s, u) \in Seq(T) /\ Follows(Cat(s, u), s, u)
  BY CatIndexed
<1>3. PICK v \in Seq(T) : v = Cat(s, u)
  BY <1>2
<1>4. Follows(v, s, u)
  BY <1>2, <1>3
<1>5. Len(v) = Len(u) + 1 /\ v[1] = x /\ \A i \in 1..Len(u) : v[i + 1] = u[i]
  BY <1>1, <1>4 DEF Follows
<1>6. v = <<x>> \o u
  BY <1>1, <1>3 DEF Cat
<1> QED
  BY <1>5, <1>6

Left(q, rest) == IF rest = <<>> /\ Len(q) > 1 THEN Tail(q) ELSE <<rest>> \o Tail(q)

LEMMA ChainSent ==
  ASSUME NEW q \in Seq(Bytes), q # <<>>, NEW x \in Bytes, NEW rest \in Bytes,
         Cat(x, rest) = q[1]
  PROVE  /\ Left(q, rest) \in Seq(Bytes) /\ Left(q, rest) # <<>>
         /\ \A i \in 1..Len(Left(q, rest)) :
              \/ Left(q, rest)[i] = rest
              \/ \E j \in 1..Len(q) : Left(q, rest)[i] = q[j]
         /\ FlattenSeq(q) = Cat(x, FlattenSeq(Left(q, rest)))
<1> DEFINE r == Left(q, rest)
<1>d. r = IF rest = <<>> /\ Len(q) > 1 THEN Tail(q) ELSE <<rest>> \o Tail(q)
  BY DEF Left
<1> HIDE DEF r
<1>0. PICK u \in Seq(Bytes) :
        /\ u = Tail(q) /\ Len(q) = Len(u) + 1
        /\ \A i \in 1..Len(u) : q[i + 1] = u[i]
  <2>1. /\ Tail(q) \in Seq(Bytes) /\ Len(q) = Len(Tail(q)) + 1
        /\ \A i \in 1..Len(Tail(q)) : q[i + 1] = Tail(q)[i]
    BY TailIs
  <2> QED
    BY <2>1
<1>c. PICK c \in Seq(Bytes) :
        /\ c = <<rest>> \o u /\ Len(c) = Len(u) + 1
        /\ c[1] = rest /\ \A i \in 1..Len(u) : c[i + 1] = u[i]
  <2>1. /\ <<rest>> \o u \in Seq(Bytes) /\ Len(<<rest>> \o u) = Len(u) + 1
        /\ (<<rest>> \o u)[1] = rest /\ \A i \in 1..Len(u) : (<<rest>> \o u)[i + 1] = u[i]
    BY ConsIs
  <2> QED
    BY <2>1
<1>1. ASSUME Len(q) = 1
      PROVE  /\ r \in Seq(Bytes) /\ r # <<>>
             /\ \A i \in 1..Len(r) : r[i] = rest \/ \E j \in 1..Len(q) : r[i] = q[j]
             /\ FlattenSeq(q) = Cat(x, FlattenSeq(r))
  <2>1. r = c
    <3>1. ~(Len(q) > 1)
      BY <1>1
    <3> QED
      BY <3>1, <1>d, <1>0, <1>c
  <2>2. Len(c) = 1
    BY <1>0, <1>1, <1>c
  <2>5. FlattenSeq(c) = rest
    BY <1>c, <2>2, BytesJoined, FlattenOne
  <2>6. FlattenSeq(q) = q[1]
    BY <1>1, BytesJoined, FlattenOne
  <2>7. c # <<>> /\ \A i \in 1..Len(c) : c[i] = rest
    BY <1>c, <2>2
  <2> QED
    BY <2>1, <2>5, <2>6, <2>7
<1>2. ASSUME Len(q) > 1
      PROVE  /\ r \in Seq(Bytes) /\ r # <<>>
             /\ \A i \in 1..Len(r) : r[i] = rest \/ \E j \in 1..Len(q) : r[i] = q[j]
             /\ FlattenSeq(q) = Cat(x, FlattenSeq(r))
  <2>1. u # <<>>
    <3>1. Len(q) = Len(u) + 1 /\ Len(u) \in Nat
      BY <1>0
    <3>2. Len(u) # 0
      BY <1>2, <3>1
    <3> QED
      BY <3>2
  <2>2. q[1] \in Bytes
    BY <1>2
  <2>3. FlattenSeq(q) = Cat(q[1], FlattenSeq(u))
    BY <1>0, <2>1, <2>2, BytesJoined, FlattenCons
  <2>4. FlattenSeq(u) \in Bytes
    BY <2>1, BytesJoined, FlattenType
  <2>5. CASE rest = <<>>
    <3>1. r = u
      BY <1>d, <1>0, <1>2, <2>5
    <3>2. Cat(x, <<>>) = x
      BY ConcatEmptySeq DEF Cat, Bytes
    <3>3. q[1] = x
      BY <2>5, <3>2
    <3>4. ASSUME NEW i \in 1..Len(u) PROVE \E j \in 1..Len(q) : u[i] = q[j]
      <4>1. i + 1 \in 1..Len(q) /\ u[i] = q[i + 1]
        BY <1>0
      <4> QED
        BY <4>1
    <3> QED
      BY <2>1, <2>3, <3>1, <3>3, <3>4
  <2>6. CASE rest # <<>>
    <3>1. r = c
      BY <1>d, <1>0, <1>c, <2>6
    <3>2. c \in Seq(Bytes) /\ Len(c) = Len(u) + 1 /\ c[1] = rest /\ \A i \in 1..Len(u) : c[i + 1] = u[i]
      BY <1>c
    <3>3. FlattenSeq(c) = Cat(rest, FlattenSeq(u))
      BY <2>1, <3>2, BytesJoined, FlattenCons
    <3>4. Cat(Cat(x, rest), FlattenSeq(u)) = Cat(x, Cat(rest, FlattenSeq(u)))
      BY <2>4, BytesJoined DEF Joined
    <3>5. ASSUME NEW i \in 1..Len(c) PROVE c[i] = rest \/ \E j \in 1..Len(q) : c[i] = q[j]
      <4>1. CASE i = 1
        BY <3>2, <4>1
      <4>2. CASE i # 1
        <5>1. i - 1 \in 1..Len(u) /\ (i - 1) + 1 = i
          BY <3>2, <4>2
        <5>2. c[(i - 1) + 1] = u[i - 1] /\ q[(i - 1) + 1] = u[i - 1]
          BY <1>0, <3>2, <5>1
        <5>3. i \in 1..Len(q) /\ c[i] = q[i]
          BY <1>0, <3>2, <5>1, <5>2
        <5> QED
          BY <5>3
      <4> QED
        BY <4>1, <4>2
    <3>6. c # <<>>
      BY <3>2
    <3> QED
      BY <2>3, <3>1, <3>2, <3>3, <3>4, <3>5, <3>6
  <2> QED
    BY <2>5, <2>6
<1>3. Len(q) = 1 \/ Len(q) > 1
  <2>1. Len(q) = Len(u) + 1 /\ Len(u) \in Nat
    BY <1>0
  <2> QED
    BY <2>1
<1>4. /\ r \in Seq(Bytes) /\ r # <<>>
      /\ \A i \in 1..Len(r) : r[i] = rest \/ \E j \in 1..Len(q) : r[i] = q[j]
      /\ FlattenSeq(q) = Cat(x, FlattenSeq(r))
  BY <1>1, <1>2, <1>3
<1> QED
  BY <1>4 DEF r

-----------------------------------------------------------------------------
(* What was written is on the wire or in the chain.                         *)

Kept(w, s, n, fails) ==
  IF fails > 0 THEN ToSet(w) \cup ToSet(s) = 1..n ELSE Cat(w, s) = Numbers(0, n)

LEMMA KeptSet ==
  ASSUME NEW w \in Bytes, NEW s \in Bytes, NEW n \in Nat, NEW fails \in Nat, Kept(w, s, n, fails)
  PROVE  ToSet(w) \cup ToSet(s) = 1..n
<1>1. CASE fails > 0
  BY <1>1 DEF Kept
<1>2. CASE ~(fails > 0)
  <2>1. Cat(w, s) = Numbers(0, n)
    BY <1>2 DEF Kept
  <2>2. ToSet(Cat(w, s)) = ToSet(w) \cup ToSet(s)
    BY ToSetCat DEF Bytes
  <2>3. ToSet(Numbers(0, n)) = (0 + 1)..(0 + n)
    BY ToSetNumbers
  <2>4. 0 + 1 = 1 /\ 0 + n = n
    OBVIOUS
  <2> QED
    BY <2>1, <2>2, <2>3, <2>4
<1> QED
  BY <1>1, <1>2

LEMMA KeptFill ==
  ASSUME NEW w \in Bytes, NEW s \in Bytes, NEW n \in Nat, NEW m \in Nat, NEW fails \in Nat,
         Kept(w, s, n, fails)
  PROVE  Kept(w, Cat(s, Numbers(n, m)), n + m, fails)
<1>1. PICK x \in Bytes : x = Numbers(n, m)
  BY NumbersAre DEF Bytes
<1>2. CASE fails > 0
  <2>1. ToSet(Cat(s, x)) = ToSet(s) \cup ToSet(x)
    BY ToSetCat DEF Bytes
  <2>2. ToSet(x) = (n + 1)..(n + m)
    BY <1>1, ToSetNumbers
  <2>3. ToSet(w) \cup ToSet(s) = 1..n
    BY <1>2 DEF Kept
  <2>4. 1..(n + m) = (1..n) \cup ((n + 1)..(n + m))
    OBVIOUS
  <2>5. ToSet(w) \cup ToSet(Cat(s, x)) = 1..(n + m)
    BY <2>1, <2>2, <2>3, <2>4
  <2> QED
    BY <1>1, <1>2, <2>5 DEF Kept
<1>3. CASE ~(fails > 0)
  <2>1. Cat(w, s) = Numbers(0, n)
    BY <1>3 DEF Kept
  <2>2. Cat(Cat(w, s), x) = Cat(w, Cat(s, x))
    BY BytesJoined DEF Joined
  <2>3. Cat(Numbers(0, n), Numbers(0 + n, m)) = Numbers(0, n + m)
    BY NumbersCat
  <2>4. 0 + n = n
    OBVIOUS
  <2>5. Cat(w, Cat(s, x)) = Numbers(0, n + m)
    BY <1>1, <2>1, <2>2, <2>3, <2>4
  <2> QED
    BY <1>1, <1>3, <2>5 DEF Kept
<1> QED
  BY <1>2, <1>3

LEMMA KeptSend ==
  ASSUME NEW w \in Bytes, NEW x \in Bytes, NEW s \in Bytes, NEW n \in Nat, NEW fails \in Nat,
         Kept(w, Cat(x, s), n, fails)
  PROVE  /\ Kept(Cat(w, x), s, n, fails)
         /\ Kept(Cat(w, x), Cat(x, s), n, fails + 1)
<1>1. PICK t \in Bytes : t = Cat(x, s)
  BY BytesJoined DEF Joined
<1>2. Kept(w, t, n, fails)
  BY <1>1
<1>3. /\ ToSet(Cat(w, x)) = ToSet(w) \cup ToSet(x)
      /\ ToSet(Cat(x, s)) = ToSet(x) \cup ToSet(s)
  BY ToSetCat DEF Bytes
<1>4. ToSet(w) \cup ToSet(t) = 1..n
  BY <1>2, KeptSet
<1>5. ToSet(Cat(w, x)) \cup ToSet(s) = 1..n /\ ToSet(Cat(w, x)) \cup ToSet(t) = 1..n
  BY <1>1, <1>3, <1>4
<1>6. Cat(Cat(w, x), s) = Cat(w, Cat(x, s))
  BY BytesJoined DEF Joined
<1>7. Kept(Cat(w, x), s, n, fails)
  <2>1. CASE fails > 0
    BY <1>5, <2>1 DEF Kept
  <2>2. CASE ~(fails > 0)
    BY <1>1, <1>2, <1>6, <2>2 DEF Kept
  <2> QED
    BY <2>1, <2>2
<1>8. Kept(Cat(w, x), t, n, fails + 1)
  <2>1. fails + 1 > 0
    OBVIOUS
  <2> QED
    BY <1>5, <2>1 DEF Kept
<1> QED
  BY <1>1, <1>7, <1>8

-----------------------------------------------------------------------------
(* The writing side.                                                        *)

Clients == [busy : BOOLEAN, closing : BOOLEAN, unacked : 0..(Word - 1)]
Calls == [do : {"none", "fill", "grow", "flush", "crashed"}, left : Nat]
Fits(q) == \A i \in 1..Len(q) : Len(q[i]) <= Capacity

ChainTyped == chain \in Seq(Bytes) /\ chain # <<>> /\ Fits(chain)

WindowTyped ==
  /\ queued \in 0..SendRoom /\ client \in Clients
  /\ failed \in 0..MaxFails /\ (failed = 0 => client.unacked = queued)

WireKept ==
  /\ wire \in Bytes /\ written \in Nat
  /\ Kept(wire, FlattenSeq(chain), written, failed)

TxInv == ChainTyped /\ WindowTyped /\ WireKept /\ call \in Calls

LEMMA TxInit ==
  ASSUME Init
  PROVE  TxInv
<1>1. <<>> \in Bytes
  BY EmptySeq DEF Bytes
<1>2. PICK q \in Seq(Bytes) : q = << <<>> >> /\ Len(q) = 1 /\ q[1] = <<>>
  <2>1. << <<>> >> \in Seq(Bytes) /\ Len(<< <<>> >>) = 1 /\ << <<>> >>[1] = <<>>
    BY <1>1
  <2> QED
    BY <2>1
<1>3. chain = q
  BY <1>2 DEF Init
<1>4. FlattenSeq(q) = <<>>
  BY <1>2, BytesJoined, FlattenOne
<1>5. ChainTyped
  <2>1. q # <<>>
    BY <1>2
  <2>2. Fits(q)
    <3>1. Capacity \in Nat /\ Len(<<>>) = 0
      BY BufferAssumption
    <3> QED
      BY <1>2, <3>1 DEF Fits
  <2> QED
    BY <1>3, <2>1, <2>2 DEF ChainTyped
<1>6. WindowTyped
  BY BufferAssumption, BufferBoundAssumption DEF Init, WindowTyped, Clients, Word
<1>7. WireKept
  <2>1. Cat(<<>>, <<>>) = <<>>
    BY <1>1, ConcatEmptySeq DEF Cat, Bytes
  <2>2. Numbers(0, 0) = <<>>
    BY NumbersAre
  <2>3. Kept(<<>>, <<>>, 0, 0)
    BY <2>1, <2>2 DEF Kept
  <2>4. wire = <<>> /\ written = 0 /\ failed = 0
    BY DEF Init
  <2> QED
    BY <1>1, <1>3, <1>4, <2>3, <2>4 DEF WireKept
<1>8. call \in Calls
  BY DEF Init, NoCall, Calls
<1> QED
  BY <1>5, <1>6, <1>7, <1>8 DEF TxInv

LEMMA LastCbuf ==
  ASSUME TxInv
  PROVE  /\ Len(chain) \in Nat \ {0} /\ chain[Len(chain)] \in Bytes
         /\ Len(chain[Len(chain)]) \in Nat /\ Room \in Nat
         /\ Last(chain) = chain[Len(chain)] /\ Head(chain) = chain[1] /\ chain[1] \in Bytes
<1>1. Len(chain) \in Nat \ {0} /\ chain[Len(chain)] \in Bytes /\ chain[1] \in Bytes /\ Head(chain) = chain[1]
  BY DEF TxInv, ChainTyped
<1>2. Last(chain) = chain[Len(chain)]
  BY DEF Last
<1>3. Len(chain[Len(chain)]) \in Nat
  BY <1>1 DEF Bytes
<1>4. Len(chain[Len(chain)]) <= Capacity
  BY <1>1 DEF TxInv, ChainTyped, Fits
<1>5. Room \in Nat
  BY <1>2, <1>3, <1>4, BufferAssumption DEF Room
<1> QED
  BY <1>1, <1>2, <1>3, <1>5

LEMMA MinTwo ==
  ASSUME NEW a \in Nat, NEW b \in Nat
  PROVE  /\ Min({a, b}) = IF a <= b THEN a ELSE b
         /\ Min({a, b}) \in Nat /\ Min({a, b}) <= a /\ Min({a, b}) <= b
<1>1. \E x \in {a, b} : \A y \in {a, b} : x <= y
  <2>1. CASE a <= b
    BY <2>1
  <2>2. CASE b <= a
    BY <2>2
  <2> QED
    BY <2>1, <2>2
<1>2. Min({a, b}) \in {a, b} /\ \A y \in {a, b} : Min({a, b}) <= y
  BY <1>1 DEF Min
<1> QED
  BY <1>2

LEMMA TxFill ==
  ASSUME TxInv, Fill
  PROVE  TxInv'
<1> DEFINE n == Min({call.left, Room})
           x == Numbers(written, n)
           k == Len(chain)
<1>1. n \in Nat /\ n <= call.left /\ n <= Room
  <2>1. call.left \in Nat /\ Room \in Nat
    BY LastCbuf DEF TxInv, Calls
  <2> QED
    BY <2>1, MinTwo
<1>2. /\ chain' = [chain EXCEPT ![k] = chain[k] \o x]
      /\ written' = written + n /\ call' = [do |-> "grow", left |-> call.left - n]
      /\ UNCHANGED <<wire, queued, client, failed>>
  BY DEF Fill
<1> HIDE DEF n
<1>3. written \in Nat
  BY DEF TxInv, WireKept
<1>4. x \in Bytes /\ Len(x) = n
  BY <1>1, <1>3, NumbersAre DEF Bytes
<1> HIDE DEF x
<1>5. chain \in Seq(Bytes) /\ chain # <<>>
  BY DEF TxInv, ChainTyped
<1>6. /\ chain' \in Seq(Bytes) /\ Len(chain') = k
      /\ \A i \in 1..(k - 1) : chain'[i] = chain[i]
      /\ chain'[k] = Cat(chain[k], x)
      /\ FlattenSeq(chain') = Cat(FlattenSeq(chain), x)
  <2>1. chain' = Filled(chain, x)
    BY <1>2 DEF Cat, Filled
  <2> QED
    BY <1>4, <1>5, <2>1, ChainFilled
<1>7. ChainTyped'
  <2>1. Len(chain'[k]) = Len(chain[k]) + n
    <3>1. chain[k] \in Seq(Nat) /\ x \in Seq(Nat)
      BY <1>4, LastCbuf DEF Bytes
    <3>2. Len(Cat(chain[k], x)) = Len(chain[k]) + Len(x)
      BY <3>1, CatIndexed DEF Follows
    <3> QED
      BY <1>4, <1>6, <3>2
  <2>2. Len(chain[k]) + n <= Capacity
    BY <1>1, LastCbuf, BufferAssumption DEF Room
  <2>3. k \in Nat \ {0}
    BY LastCbuf
  <2>4. ASSUME NEW i \in 1..k PROVE Len(chain'[i]) <= Capacity
    <3>1. CASE i = k
      BY <2>1, <2>2, <3>1
    <3>2. CASE i # k
      <4>1. i \in 1..(k - 1)
        BY <2>3, <3>2
      <4> QED
        BY <1>6, <4>1 DEF TxInv, ChainTyped, Fits
    <3> QED
      BY <3>1, <3>2
  <2>5. chain' # <<>>
    BY <1>6, <2>3
  <2> QED
    BY <1>6, <2>4, <2>5 DEF ChainTyped, Fits
<1>8. WindowTyped'
  BY <1>2 DEF TxInv, WindowTyped
<1>9. WireKept'
  <2>1. FlattenSeq(chain) \in Bytes
    BY <1>5, BytesJoined, FlattenType
  <2>2. wire \in Bytes /\ failed \in Nat /\ Kept(wire, FlattenSeq(chain), written, failed)
    BY BufferBoundAssumption DEF TxInv, WireKept, WindowTyped
  <2>3. Kept(wire, Cat(FlattenSeq(chain), Numbers(written, n)), written + n, failed)
    BY <1>1, <1>3, <2>1, <2>2, KeptFill
  <2>4. Kept(wire, FlattenSeq(chain'), written + n, failed)
    BY <1>6, <2>3 DEF x
  <2>5. wire' = wire /\ written' = written + n /\ failed' = failed
    BY <1>2
  <2>6. written + n \in Nat
    BY <1>1, <1>3
  <2> QED
    BY <2>2, <2>4, <2>5, <2>6 DEF WireKept
<1>10. call' \in Calls
  <2>1. call.left \in Nat
    BY DEF TxInv, Calls
  <2>2. call.left - n \in Nat
    BY <1>1, <2>1
  <2> QED
    BY <1>2, <2>2 DEF Calls
<1> QED
  BY <1>7, <1>8, <1>9, <1>10 DEF TxInv

LEMMA TxGrow ==
  ASSUME TxInv, Grow
  PROVE  TxInv'
<1>1. UNCHANGED <<wire, queued, client, written, failed>>
  BY DEF Grow
<1>2. call' \in Calls
  BY DEF Grow, TxInv, Calls, NoCall
<1>3. WindowTyped'
  BY <1>1 DEF TxInv, WindowTyped
<1>4. CASE chain' = chain
  <2>1. ChainTyped'
    BY <1>4 DEF TxInv, ChainTyped, Fits
  <2>2. WireKept'
    BY <1>1, <1>4 DEF TxInv, WireKept
  <2> QED
    BY <1>2, <1>3, <2>1, <2>2 DEF TxInv
<1>5. CASE chain' = Append(chain, <<>>)
  <2>1. chain \in Seq(Bytes) /\ chain # <<>> /\ Fits(chain)
    BY DEF TxInv, ChainTyped
  <2>2. <<>> \in Bytes
    BY EmptySeq DEF Bytes
  <2>3. PICK r \in Seq(Bytes) :
          /\ r = Append(chain, <<>>) /\ r # <<>> /\ Len(r) = Len(chain) + 1
          /\ r[Len(chain) + 1] = <<>> /\ \A i \in 1..Len(chain) : r[i] = chain[i]
    <3>1. Append(chain, <<>>) \in Seq(Bytes) /\ Appended(Append(chain, <<>>), chain, <<>>)
      BY <2>1, <2>2, AppendIs
    <3>2. PICK r \in Seq(Bytes) : r = Append(chain, <<>>)
      BY <3>1
    <3>3. Appended(r, chain, <<>>)
      BY <3>1, <3>2
    <3> QED
      BY <3>2, <3>3 DEF Appended
  <2>4. Fits(r)
    <3> SUFFICES ASSUME NEW i \in 1..Len(r) PROVE Len(r[i]) <= Capacity
      BY DEF Fits
    <3>1. CASE i = Len(chain) + 1
      <4>1. Len(<<>>) = 0 /\ Capacity \in Nat
        BY BufferAssumption
      <4> QED
        BY <2>3, <3>1, <4>1
    <3>2. CASE i # Len(chain) + 1
      <4>1. i \in 1..Len(chain)
        BY <2>3, <3>2
      <4> QED
        BY <2>1, <2>3, <4>1 DEF Fits
    <3> QED
      BY <3>1, <3>2
  <2>5. ChainTyped'
    BY <1>5, <2>3, <2>4 DEF ChainTyped
  <2>6. FlattenSeq(chain') = FlattenSeq(chain)
    BY <1>5, <2>1, ChainGrown
  <2>7. WireKept'
    BY <1>1, <2>6 DEF TxInv, WireKept
  <2> QED
    BY <1>2, <1>3, <2>5, <2>7 DEF TxInv
<1>6. chain' = chain \/ chain' = Append(chain, <<>>)
  BY DEF Grow
<1> QED
  BY <1>4, <1>5, <1>6

LEMMA WordIs == Word \in Nat /\ Word > 0 /\ Word - 1 \in Nat /\ SendRoom <= Word - 1
BY BufferAssumption DEF Word

LEMMA Wraps ==
  ASSUME NEW a \in Int, NEW w \in Nat, w > 0
  PROVE  a % w \in 0..(w - 1) /\ (a \in 0..(w - 1) => a % w = a)
OBVIOUS

LEMMA TxSend ==
  ASSUME TxInv, SendSome
  PROVE  TxInv'
<1> DEFINE h == Head(chain)
           n == Min({Len(h), Space})
           x == SubSeq(h, 1, n)
           rest == SubSeq(h, n + 1, Len(h))
<1>1. h = chain[1] /\ h \in Bytes /\ h \in Seq(Nat) /\ Len(h) \in Nat /\ chain \in Seq(Bytes) /\ chain # <<>>
  <2>1. h = chain[1] /\ h \in Bytes
    BY LastCbuf
  <2> QED
    BY <2>1 DEF TxInv, ChainTyped, Bytes
<1>2. Space = SendRoom - queued /\ Space \in Nat
  BY BufferAssumption DEF SendSome, CanSend, Space, TxInv, WindowTyped
<1>3. n \in Nat /\ n <= Len(h) /\ n <= Space
  BY <1>1, <1>2, MinTwo
<1>4. /\ wire' = wire \o x /\ queued' = queued + n /\ UNCHANGED <<call, written>>
      /\ \/ /\ client' = [client EXCEPT !.busy = TRUE, !.unacked = (client.unacked + n) % Word]
            /\ chain' = Sent(n) /\ failed' = failed
         \/ failed < MaxFails /\ failed' = failed + 1 /\ client' = client /\ chain' = chain
  BY DEF SendSome
<1> HIDE DEF n
<1>5. x \in Bytes /\ rest \in Bytes /\ Len(rest) = Len(h) - n /\ Cat(x, rest) = h
  <2>1. n \in 0..Len(h)
    BY <1>1, <1>3
  <2> QED
    BY <1>1, <2>1, Split DEF Bytes
<1> DEFINE r == Left(chain, rest)
<1>6. Sent(n) = r
  BY DEF Sent, Left
<1> HIDE DEF x, rest, h
<1>8. Cat(x, rest) = chain[1]
  BY <1>1, <1>5
<1>9. /\ r \in Seq(Bytes) /\ r # <<>>
      /\ \A i \in 1..Len(r) : r[i] = rest \/ \E j \in 1..Len(chain) : r[i] = chain[j]
      /\ FlattenSeq(chain) = Cat(x, FlattenSeq(r))
  BY <1>1, <1>5, <1>8, ChainSent
<1> HIDE DEF r
<1>10. FlattenSeq(r) \in Bytes
  BY <1>9, BytesJoined, FlattenType
<1>11. /\ wire \in Bytes /\ written \in Nat /\ failed \in Nat
       /\ Kept(wire, FlattenSeq(chain), written, failed)
  BY BufferBoundAssumption DEF TxInv, WireKept, WindowTyped
<1>12. wire' = Cat(wire, x) /\ wire' \in Bytes
  <2>1. wire' = Cat(wire, x)
    BY <1>4 DEF Cat
  <2>2. Cat(wire, x) \in Bytes
    BY <1>5, <1>11, BytesJoined DEF Joined
  <2> QED
    BY <2>1, <2>2
<1>13. /\ Kept(Cat(wire, x), FlattenSeq(r), written, failed)
       /\ Kept(Cat(wire, x), Cat(x, FlattenSeq(r)), written, failed + 1)
  <2>1. Kept(wire, Cat(x, FlattenSeq(r)), written, failed)
    BY <1>9, <1>11
  <2> QED
    BY <1>5, <1>10, <1>11, <2>1, KeptSend
<1>14. queued \in 0..SendRoom /\ queued + n \in 0..SendRoom
  BY <1>2, <1>3, BufferAssumption DEF TxInv, WindowTyped
<1>15. call' \in Calls
  BY <1>4 DEF TxInv
<1>16. CASE /\ client' = [client EXCEPT !.busy = TRUE, !.unacked = (client.unacked + n) % Word]
            /\ chain' = Sent(n) /\ failed' = failed
  <2>1. chain' = r
    BY <1>6, <1>16
  <2>2. Fits(r)
    <3>1. Len(rest) <= Capacity
      <4>1. Len(chain[1]) <= Capacity
        BY <1>1 DEF TxInv, ChainTyped, Fits
      <4> QED
        BY <1>1, <1>3, <1>5, <4>1, BufferAssumption
    <3>2. ASSUME NEW i \in 1..Len(r) PROVE Len(r[i]) <= Capacity
      <4>1. r[i] = rest \/ \E j \in 1..Len(chain) : r[i] = chain[j]
        BY <1>9
      <4> QED
        BY <3>1, <4>1 DEF TxInv, ChainTyped, Fits
    <3> QED
      BY <3>2 DEF Fits
  <2>3. ChainTyped'
    BY <1>9, <2>1, <2>2 DEF ChainTyped
  <2>4. WireKept'
    BY <1>4, <1>11, <1>12, <1>13, <1>16, <2>1 DEF WireKept
  <2>5. client \in Clients /\ client.unacked \in Nat /\ failed \in 0..MaxFails
        /\ (failed = 0 => client.unacked = queued)
    <3>1. client \in Clients /\ failed \in 0..MaxFails /\ (failed = 0 => client.unacked = queued)
      BY DEF TxInv, WindowTyped
    <3>2. client.unacked \in 0..(Word - 1) /\ Word - 1 \in Nat
      BY <3>1, WordIs DEF Clients
    <3> QED
      BY <3>1, <3>2
  <2>6. (client.unacked + n) % Word \in 0..(Word - 1)
    <3>1. client.unacked + n \in Int
      BY <1>3, <2>5
    <3> QED
      BY <3>1, WordIs, Wraps
  <2>7. failed = 0 => (client.unacked + n) % Word = queued + n
    <3>1. SendRoom \in Nat /\ SendRoom <= Word - 1 /\ Word \in Nat
      BY WordIs, BufferAssumption
    <3>2. queued + n \in Int /\ queued + n \in 0..(Word - 1)
      BY <1>14, <3>1
    <3>3. (queued + n) % Word = queued + n
      BY <3>2, WordIs, Wraps
    <3> QED
      BY <2>5, <3>3
  <2>8. client' \in Clients /\ client'.unacked = (client.unacked + n) % Word
    BY <1>16, <2>5, <2>6 DEF Clients
  <2>9. WindowTyped'
    BY <1>4, <1>14, <1>16, <2>5, <2>7, <2>8 DEF WindowTyped
  <2> QED
    BY <1>15, <2>3, <2>4, <2>9 DEF TxInv
<1>17. CASE failed < MaxFails /\ failed' = failed + 1 /\ client' = client /\ chain' = chain
  <2>1. ChainTyped'
    BY <1>17 DEF TxInv, ChainTyped, Fits
  <2>2. WireKept'
    BY <1>4, <1>9, <1>11, <1>12, <1>13, <1>17 DEF WireKept
  <2>3. failed' \in 0..MaxFails /\ failed' # 0
    BY <1>11, <1>17, BufferBoundAssumption
  <2>4. WindowTyped'
    BY <1>4, <1>14, <1>17, <2>3 DEF TxInv, WindowTyped
  <2> QED
    BY <1>15, <2>1, <2>2, <2>4 DEF TxInv
<1> QED
  BY <1>4, <1>16, <1>17

LEMMA TxAck ==
  ASSUME TxInv, NEW n \in 1..SendRoom, Ack(n)
  PROVE  TxInv'
<1>1. n <= queued /\ queued' = queued - n /\ UNCHANGED <<call, wire, chain, written, failed>>
      /\ client' = [client EXCEPT !.unacked = (client.unacked - n) % Word,
                                  !.busy = client.busy /\ (client.unacked - n) % Word # 0]
  BY DEF Ack
<1>2. queued \in 0..SendRoom /\ client \in Clients /\ client.unacked \in 0..(Word - 1)
      /\ failed \in 0..MaxFails /\ (failed = 0 => client.unacked = queued)
  BY DEF TxInv, WindowTyped, Clients
<1>3. queued' \in 0..SendRoom
  BY <1>1, <1>2, BufferAssumption
<1>4. (client.unacked - n) % Word \in 0..(Word - 1)
  <2>1. client.unacked - n \in Int
    BY <1>2, WordIs
  <2> QED
    BY <2>1, WordIs, Wraps
<1>5. failed = 0 => (client.unacked - n) % Word = queued - n
  <2>1. SendRoom \in Nat /\ SendRoom <= Word - 1 /\ Word \in Nat
    BY WordIs, BufferAssumption
  <2>2. queued - n \in Int /\ queued - n \in 0..(Word - 1)
    BY <1>1, <1>2, <2>1
  <2>3. (queued - n) % Word = queued - n
    BY <2>2, WordIs, Wraps
  <2> QED
    BY <1>2, <2>3
<1>6. client' \in Clients /\ client'.unacked = (client.unacked - n) % Word
  BY <1>1, <1>2, <1>4 DEF Clients
<1>7. WindowTyped'
  BY <1>1, <1>2, <1>3, <1>5, <1>6 DEF WindowTyped
<1>8. ChainTyped' /\ WireKept'
  BY <1>1 DEF TxInv, ChainTyped, Fits, WireKept
<1> QED
  BY <1>1, <1>7, <1>8 DEF TxInv

\* Nothing is written, sent or acknowledged.
LEMMA TxSame ==
  ASSUME TxInv, UNCHANGED <<wire, queued, chain, written, failed>>,
         client' \in Clients, client'.unacked = client.unacked, call' \in Calls
  PROVE  TxInv'
BY DEF TxInv, ChainTyped, Fits, WindowTyped, WireKept

LEMMA TxDiscarded ==
  ASSUME TxInv, Discarded
  PROVE  TxInv'
<1>1. client' \in Clients /\ client'.unacked = client.unacked
  BY DEF Discarded, TxInv, WindowTyped, Clients
<1>2. call' \in Calls /\ UNCHANGED <<wire, queued, chain, written, failed>>
  BY DEF Discarded, TxInv
<1> QED
  BY <1>1, <1>2, TxSame

LEMMA TxAsks ==
  ASSUME TxInv, NEW b, NEW r, NEW w, Asks(b, r, w) \/ UNCHANGED client
  PROVE  client' \in Clients /\ client'.unacked = client.unacked
BY DEF Asks, TxInv, WindowTyped, Clients

\* A call of _handleRxBuffer.
LEMMA TxHandles ==
  ASSUME TxInv, Read \/ (\E r, w : GiveBuffer(r, w)) \/ (\E n : GiveData(n)) \/ UNCHANGED client
  PROVE  client' \in Clients /\ client'.unacked = client.unacked
<1>1. \E b, r, w : Asks(b, r, w) \/ UNCHANGED client
  BY DEF Read, GiveBuffer, GiveData
<1> QED
  BY <1>1, TxAsks

LEMMA TxNext ==
  ASSUME TxInv, [Next]_vars
  PROVE  TxInv'
<1>0. client \in Clients /\ call \in Calls
  BY DEF TxInv, WindowTyped
<1>1. CASE UNCHANGED vars
  BY <1>0, <1>1, TxSame DEF vars, tx, rxVars
<1>2. CASE User
  <2>1. CASE Connect
    BY <1>0, <2>1, TxSame DEF Connect, tx, rxVars
  <2>2. CASE Ask
    <3>1. client' \in Clients /\ client'.unacked = client.unacked
      BY <2>2, TxAsks DEF Ask
    <3> QED
      BY <1>0, <2>2, <3>1, TxSame DEF Ask
  <2>3. CASE Flush
    <3>1. call' \in Calls
      BY <2>3 DEF Flush, Calls
    <3> QED
      BY <1>0, <2>3, <3>1, TxSame DEF Flush, tx
  <2>4. ASSUME NEW n \in 1..MaxBytes, Write(n) PROVE TxInv'
    <3>1. call' \in Calls
      BY <2>4, BufferBoundAssumption DEF Write, Calls
    <3> QED
      BY <1>0, <2>4, <3>1, TxSame DEF Write, tx
  <2> QED
    BY <1>2, <2>1, <2>2, <2>3, <2>4 DEF User
<1>3. CASE Lwip
  <2>1. CASE Connected
    BY <1>0, <2>1, TxSame DEF Connected, tx
  <2>2. CASE Ended
    BY <2>2, TxDiscarded DEF Ended
  <2>3. CASE PollCloses
    BY <2>3, TxDiscarded DEF PollCloses
  <2>4. CASE PollTimeout
    <3>1. client' \in Clients /\ client'.unacked = client.unacked
      BY <1>0, <2>4 DEF PollTimeout, Clients
    <3> QED
      BY <1>0, <2>4, <3>1, TxSame DEF PollTimeout
  <2>5. CASE Poll
    BY <1>0, <2>5, TxSame DEF Poll, tx
  <2>6. ASSUME NEW n \in 1..SendRoom, Ack(n) PROVE TxInv'
    BY <2>6, TxAck
  <2>7. ASSUME NEW segment, Receive(segment) PROVE TxInv'
    BY <1>0, <2>7, TxSame DEF Receive, tx
  <2> QED
    BY <1>3, <2>1, <2>2, <2>3, <2>4, <2>5, <2>6, <2>7 DEF Lwip
<1>4. CASE Library
  <2>1. CASE Fill
    BY <2>1, TxFill
  <2>2. CASE Grow
    BY <2>2, TxGrow
  <2>3. CASE FlushRound
    <3>1. call' \in Calls
      BY <1>0, <2>3 DEF FlushRound, Calls, NoCall
    <3> QED
      BY <1>0, <2>3, <3>1, TxSame DEF FlushRound, tx
  <2>4. CASE SendSome
    BY <2>4, TxSend
  <2>5. CASE SendEnds
    BY <1>0, <2>5, TxSame DEF SendEnds, tx
  <2>6. CASE OfferFirst
    <3>1. client' \in Clients /\ client'.unacked = client.unacked
      BY <2>6, TxHandles DEF OfferFirst
    <3> QED
      BY <1>0, <2>6, <3>1, TxSame DEF OfferFirst, RxStep
  <2>7. CASE OfferSecond
    <3>1. client' \in Clients /\ client'.unacked = client.unacked
      BY <2>7, TxHandles DEF OfferSecond
    <3> QED
      BY <1>0, <2>7, <3>1, TxSame DEF OfferSecond, RxStep
  <2>8. CASE Store
    BY <1>0, <2>8, TxSame DEF Store, RxStep
  <2>9. CASE OfferBuffer
    <3>1. client' \in Clients /\ client'.unacked = client.unacked
      BY <2>9, TxHandles DEF OfferBuffer
    <3> QED
      BY <1>0, <2>9, <3>1, TxSame DEF OfferBuffer, RxStep
  <2> QED
    BY <1>4, <2>1, <2>2, <2>3, <2>4, <2>5, <2>6, <2>7, <2>8, <2>9 DEF Library
<1> QED
  BY <1>1, <1>2, <1>3, <1>4 DEF Next

LEMMA TxAlways == Spec => []TxInv
<1>1. Init => TxInv
  BY TxInit
<1>2. TxInv /\ [Next]_vars => TxInv'
  BY TxNext
<1> QED
  BY <1>1, <1>2, PTL DEF Spec

\* Each byte that write() took is given to TCP once and in order, over any
\* partial sends, full buffers and acknowledgements; none is left out when
\* tcp_output failed (lines 103-143 and 326-370).
THEOREM StreamIsKept == Spec => []StreamKept
<1>1. TxInv => StreamKept
  BY DEF TxInv, WireKept, Kept, Cat, StreamKept
<1> QED
  BY <1>1, TxAlways, PTL

-----------------------------------------------------------------------------
(* The reading side.                                                        *)

Modes == Reading \cup {"NONE", "FREE"}
Buffers == [exists : BOOLEAN, client : BOOLEAN, mode : Modes, size : 0..MaxRead, onData : BOOLEAN]
Inputs == [at : {"none", "first", "second", "rest", "buffer"}, left : Bytes]
Records == [at : Nat, asked : Nat, between : BOOLEAN, passed : Nat, bytes : Bytes]

RxTyped ==
  /\ pcb \in {"none", "opening", "open", "ended"} /\ buf \in Buffers
  /\ received \in Seq(Kinds) /\ given \in Bytes /\ rx \in Bytes
  /\ input \in Inputs /\ (input.at \in {"none", "buffer"} => input.left = <<>>)

\* s holds the n bytes after the first `from'.
Holds(s, from, n) == n \in Nat /\ s = Numbers(from, n)

InOrder(g, l, left, total) ==
  \E i, j, k \in Nat :
    Holds(g, 0, i) /\ Holds(l, i, j) /\ Holds(left, i + j, k) /\ i + j + k = total

\* The bytes of a read are those behind the first Start, to the one that is End.
Start(s) == s.at + s.passed
End(s) == Start(s) + Len(s.bytes)
Excused(s) == s.passed > 0 => s.between
Recorded(s) == s \in Records /\ Excused(s) /\ Holds(s.bytes, Start(s), Len(s.bytes))

\* n is how many bytes the user was given: the read that goes on.
ReadOf(b, s, n, kinds) ==
  /\ Recorded(s)
  /\ b.mode \in Reading => End(s) = n
  /\ b.mode = "READ_BYTES" => s.asked = b.size + Len(s.bytes)
  /\ b.mode = "TERMINATOR_STRING" => \A p \in (Start(s) + 1)..n : kinds[p] # "terminator"

Answered(a, kinds) ==
  /\ Recorded(a.read) /\ End(a.read) <= Len(kinds)
  /\ a.mode = "READ_BYTES" => Len(a.read.bytes) = a.read.asked
  /\ a.mode = "TERMINATOR_STRING" =>
       \A p \in (Start(a.read) + 1)..End(a.read) :
         kinds[p] = "terminator" <=> p = End(a.read)

\* onData's second call comes when the buffer is empty; a read that was asked for
\* in the first has no bytes yet.
Untouched(b, s) == b.mode = "FREE" \/ (s.between /\ s.bytes = <<>>)
SecondKept == input.at = "second" => rx = <<>> /\ Untouched(buf, read)

RxInv ==
  /\ RxTyped /\ InOrder(given, rx, input.left, Len(received))
  /\ ReadOf(buf, read, Len(given), received) /\ Answered(answers, received) /\ SecondKept

-----------------------------------------------------------------------------
(* Sequences of numbered bytes, cut and joined.                             *)

LEMMA SplitAt ==
  ASSUME NEW S, NEW s \in Seq(S), NEW n \in 0..Len(s)
  PROVE  /\ \A i \in 1..n : SubSeq(s, 1, n)[i] = s[i]
         /\ \A i \in 1..(Len(s) - n) : SubSeq(s, n + 1, Len(s))[i] = s[n + i]
<1>1. PICK x \in Seq(S) : x = SubSeq(s, 1, n) /\ Len(x) = n
  <2>1. SubSeq(s, 1, n) \in Seq(S) /\ Len(SubSeq(s, 1, n)) = n
    BY Split
  <2> QED
    BY <2>1
<1>2. PICK y \in Seq(S) : y = SubSeq(s, n + 1, Len(s)) /\ Len(y) = Len(s) - n
  <2>1. SubSeq(s, n + 1, Len(s)) \in Seq(S) /\ Len(SubSeq(s, n + 1, Len(s))) = Len(s) - n
    BY Split
  <2> QED
    BY <2>1
<1>3. Cat(x, y) = s
  BY <1>1, <1>2, Split
<1>4. Follows(s, x, y)
  BY <1>3, CatIndexed
<1>5. \A i \in 1..n : x[i] = s[i]
  BY <1>1, <1>4 DEF Follows
<1>6. \A i \in 1..(Len(s) - n) : y[i] = s[n + i]
  BY <1>1, <1>2, <1>4 DEF Follows
<1> QED
  BY <1>1, <1>2, <1>5, <1>6

LEMMA NumbersSub ==
  ASSUME NEW a \in Nat, NEW n \in Nat, NEW m \in 0..n
  PROVE  /\ SubSeq(Numbers(a, n), 1, m) = Numbers(a, m)
         /\ SubSeq(Numbers(a, n), m + 1, n) = Numbers(a + m, n - m)
<1>1. PICK s \in Seq(Nat) :
        s = Numbers(a, n) /\ Len(s) = n /\ \A i \in 1..n : s[i] = a + i
  BY NumbersAre
<1>2. m \in 0..Len(s) /\ m \in Nat /\ n - m \in Nat /\ a + m \in Nat
  BY <1>1
<1>3. PICK x \in Seq(Nat) : x = SubSeq(s, 1, m) /\ Len(x) = m
  <2>1. SubSeq(s, 1, m) \in Seq(Nat) /\ Len(SubSeq(s, 1, m)) = m
    BY <1>2, Split
  <2> QED
    BY <2>1
<1>4. PICK y \in Seq(Nat) : y = SubSeq(s, m + 1, n) /\ Len(y) = n - m
  <2>1. SubSeq(s, m + 1, Len(s)) \in Seq(Nat) /\ Len(SubSeq(s, m + 1, Len(s))) = Len(s) - m
    BY <1>2, Split
  <2> QED
    BY <1>1, <2>1
<1>5. \A i \in 1..m : x[i] = s[i]
  BY <1>2, <1>3, SplitAt
<1>6. \A i \in 1..(n - m) : y[i] = s[m + i]
  <2>1. \A i \in 1..(Len(s) - m) : SubSeq(s, m + 1, Len(s))[i] = s[m + i]
    BY <1>2, SplitAt
  <2>2. Len(s) = n
    BY <1>1
  <2> QED
    BY <1>4, <2>1, <2>2
<1>7. PICK u \in Seq(Nat) : u = Numbers(a, m) /\ Len(u) = m /\ \A i \in 1..m : u[i] = a + i
  BY <1>2, NumbersAre
<1>8. PICK v \in Seq(Nat) :
        v = Numbers(a + m, n - m) /\ Len(v) = n - m /\ \A i \in 1..(n - m) : v[i] = (a + m) + i
  BY <1>2, NumbersAre
<1>9. x = u
  <2>1. ASSUME NEW i \in 1..Len(x) PROVE x[i] = u[i]
    <3>1. i \in 1..m /\ i \in 1..n
      BY <1>3
    <3>2. x[i] = s[i]
      BY <1>5, <3>1
    <3>3. s[i] = a + i
      BY <1>1, <3>1
    <3>4. u[i] = a + i
      BY <1>7, <3>1
    <3> QED
      BY <3>2, <3>3, <3>4
  <2>2. Len(x) = Len(u)
    BY <1>3, <1>7
  <2> QED
    BY <2>1, <2>2, SeqEqual
<1>10. y = v
  <2>1. ASSUME NEW i \in 1..Len(y) PROVE y[i] = v[i]
    <3>1. i \in 1..(n - m) /\ m + i \in 1..n /\ a + (m + i) = (a + m) + i
      BY <1>4
    <3>2. y[i] = s[m + i]
      BY <1>6, <3>1
    <3>3. s[m + i] = a + (m + i)
      BY <1>1, <3>1
    <3>4. v[i] = (a + m) + i
      BY <1>8, <3>1
    <3> QED
      BY <3>1, <3>2, <3>3, <3>4
  <2>2. Len(y) = Len(v)
    BY <1>4, <1>8
  <2> QED
    BY <2>1, <2>2, SeqEqual
<1> QED
  BY <1>1, <1>3, <1>4, <1>7, <1>8, <1>9, <1>10

LEMMA HoldsIs ==
  ASSUME NEW s, NEW a \in Nat, NEW n, Holds(s, a, n)
  PROVE  s \in Bytes /\ n \in Nat /\ Len(s) = n /\ \A i \in 1..n : s[i] = a + i
BY NumbersAre DEF Holds, Bytes

LEMMA HoldsSub ==
  ASSUME NEW s, NEW a \in Nat, NEW n, Holds(s, a, n), NEW m \in 0..n
  PROVE  /\ Holds(SubSeq(s, 1, m), a, m)
         /\ Holds(SubSeq(s, m + 1, Len(s)), a + m, n - m)
<1>1. n \in Nat /\ s = Numbers(a, n) /\ Len(s) = n
  BY HoldsIs DEF Holds
<1>2. SubSeq(s, 1, m) = Numbers(a, m)
  BY <1>1, NumbersSub
<1>3. SubSeq(s, m + 1, Len(s)) = Numbers(a + m, n - m)
  <2>1. SubSeq(Numbers(a, n), m + 1, n) = Numbers(a + m, n - m)
    BY <1>1, NumbersSub
  <2> QED
    BY <1>1, <2>1
<1>4. m \in Nat /\ n - m \in Nat
  BY <1>1
<1> QED
  BY <1>2, <1>3, <1>4 DEF Holds

LEMMA HoldsCat ==
  ASSUME NEW s, NEW t, NEW a \in Nat, NEW n, NEW m, Holds(s, a, n), Holds(t, a + n, m)
  PROVE  Holds(s \o t, a, n + m)
<1>1. n \in Nat /\ m \in Nat /\ s = Numbers(a, n) /\ t = Numbers(a + n, m)
  BY DEF Holds
<1>2. Cat(Numbers(a, n), Numbers(a + n, m)) = Numbers(a, n + m)
  BY <1>1, NumbersCat
<1>3. n + m \in Nat
  BY <1>1
<1> QED
  BY <1>1, <1>2, <1>3 DEF Holds, Cat

LEMMA HoldsNone ==
  ASSUME NEW a \in Nat
  PROVE  Holds(<<>>, a, 0) /\ \A s : Holds(s, a, 0) => s = <<>>
<1>1. Numbers(a, 0) = <<>>
  BY NumbersAre
<1> QED
  BY <1>1 DEF Holds

-----------------------------------------------------------------------------
(* What one call of _handleRxBuffer takes.                                  *)

LEMMA MinOf ==
  ASSUME NEW T, T \subseteq Nat, T # {}
  PROVE  Min(T) \in T /\ \A y \in T : Min(T) <= y
<1>1. PICK m \in T : \A y \in T : m <= y
  BY Least
<1> QED
  BY <1>1 DEF Min

LEMMA ToTerminatorIs ==
  ASSUME NEW s \in Bytes
  PROVE  /\ ToTerminator(s) \in 0..Len(s)
         /\ \A i \in 1..ToTerminator(s) : received[s[i]] = "terminator" => i = ToTerminator(s)
         /\ ~Terminated(s, ToTerminator(s)) => ToTerminator(s) = Len(s)
<1> DEFINE ends == {i \in DOMAIN s : received[s[i]] = "terminator"}
<1>1. Len(s) \in Nat /\ DOMAIN s = 1..Len(s)
  BY DEF Bytes
<1>2. CASE ends = {}
  <2>1. ToTerminator(s) = Len(s)
    BY <1>2 DEF ToTerminator
  <2>2. \A i \in 1..Len(s) : received[s[i]] # "terminator"
    BY <1>1, <1>2
  <2>3. \A i \in 1..ToTerminator(s) : received[s[i]] # "terminator"
    BY <2>1, <2>2
  <2>4. ToTerminator(s) \in 0..Len(s)
    BY <1>1, <2>1
  <2> QED
    BY <2>1, <2>3, <2>4
<1>3. CASE ends # {}
  <2>1. ToTerminator(s) = Min(ends)
    BY <1>3 DEF ToTerminator
  <2>2. ends \subseteq Nat
    BY <1>1
  <2>3. Min(ends) \in ends /\ \A y \in ends : Min(ends) <= y
    <3> HIDE DEF ends
    <3> QED
      BY <1>3, <2>2, MinOf
  <2>4. ToTerminator(s) \in 1..Len(s) /\ received[s[ToTerminator(s)]] = "terminator"
    BY <1>1, <2>1, <2>3
  <2>5. Terminated(s, ToTerminator(s))
    BY <2>4 DEF Terminated
  <2>6. ASSUME NEW i \in 1..ToTerminator(s), received[s[i]] = "terminator"
        PROVE  i = ToTerminator(s)
    <3>1. i \in ends
      BY <1>1, <2>4, <2>6
    <3>2. ToTerminator(s) <= i
      BY <2>1, <2>3, <3>1
    <3> QED
      BY <2>4, <3>2
  <2> QED
    BY <2>4, <2>5, <2>6
<1> QED
  BY <1>2, <1>3

\* The data is only taken when nothing is left of the buffer.
LEMMA TakenAre ==
  ASSUME buf \in Buffers, buf.mode \in Reading, rx \in Bytes, input.left \in Bytes
  PROVE  /\ FromBuffer \in 0..Len(rx) /\ FromData \in 0..Len(input.left)
         /\ FromData > 0 => FromBuffer = Len(rx)
         /\ buf.mode = "READ_BYTES" => FromBuffer + FromData <= buf.size
         /\ buf.mode = "TERMINATOR_STRING" =>
              /\ FromBuffer = ToTerminator(rx)
              /\ FromData = IF Terminated(rx, FromBuffer) THEN 0 ELSE ToTerminator(input.left)
<1>1. Len(rx) \in Nat /\ Len(input.left) \in Nat /\ buf.size \in Nat
  BY BufferBoundAssumption DEF Buffers, Bytes
<1>2. CASE buf.mode = "READ_BYTES"
  <2>1. FromBuffer = Min({buf.size, Len(rx)})
    BY <1>2 DEF FromBuffer
  <2>2. FromBuffer \in Nat /\ FromBuffer <= buf.size /\ FromBuffer <= Len(rx)
    BY <1>1, <2>1, MinTwo
  <2>3. FromData =
          IF FromBuffer = Len(rx) THEN Min({buf.size - FromBuffer, Len(input.left)}) ELSE 0
    BY <1>2 DEF FromData
  <2> DEFINE r == FromBuffer
             n == FromData
             d == Len(input.left)
             m == Min({buf.size - r, d})
  <2>4. buf.size - r \in Nat
    BY <1>1, <2>2
  <2>5. m \in Nat /\ m <= buf.size - r /\ m <= d
    BY <1>1, <2>4, MinTwo
  <2>6. n = IF r = Len(rx) THEN m ELSE 0
    BY <2>3
  <2>7. r \in Nat /\ r <= buf.size /\ r <= Len(rx) /\ d \in Nat
    BY <1>1, <2>2
  <2> HIDE DEF r, n, m, d
  <2>8. n \in 0..d /\ n <= buf.size - r /\ (n > 0 => r = Len(rx))
    BY <2>4, <2>5, <2>6, <2>7
  <2>9. r \in 0..Len(rx) /\ r + n <= buf.size
    BY <1>1, <2>7, <2>8
  <2> QED
    BY <1>2, <2>8, <2>9 DEF r, n, d
<1>3. CASE buf.mode = "TERMINATOR_STRING"
  <2>1. FromBuffer = ToTerminator(rx)
    BY <1>3 DEF FromBuffer
  <2>2. FromData = IF Terminated(rx, FromBuffer) THEN 0 ELSE ToTerminator(input.left)
    BY <1>3 DEF FromData
  <2>3. ToTerminator(rx) \in 0..Len(rx)
        /\ (~Terminated(rx, ToTerminator(rx)) => ToTerminator(rx) = Len(rx))
    BY ToTerminatorIs
  <2>4. ToTerminator(input.left) \in 0..Len(input.left)
    BY ToTerminatorIs
  <2> DEFINE r == FromBuffer
             n == FromData
  <2>5. r \in 0..Len(rx) /\ n \in 0..Len(input.left) /\ (n > 0 => r = Len(rx))
    <3>1. r \in 0..Len(rx) /\ (~Terminated(rx, r) => r = Len(rx))
      BY <2>1, <2>3
    <3>2. n = IF Terminated(rx, r) THEN 0 ELSE ToTerminator(input.left)
      BY <2>2
    <3> HIDE DEF r, n
    <3> QED
      BY <1>1, <2>4, <3>1, <3>2
  <2> QED
    BY <1>3, <2>1, <2>2, <2>5
<1> QED
  BY <1>2, <1>3 DEF Reading

\* A read asked for starts behind what the user was given.
LEMMA AsksRead ==
  ASSUME NEW b \in Buffers, NEW s, NEW w \in BOOLEAN, Asks(b, s, w),
         NEW n \in Nat, Len(given') = n, NEW kinds, ReadOf(b, s, n, kinds)
  PROVE  /\ buf' \in Buffers /\ ReadOf(buf', read', n, kinds)
         /\ (buf' = b /\ read' = s) \/ (read'.between = w /\ read'.bytes = <<>>)
<1>1. buf' \in Buffers
  <2>1. \A m \in 1..MaxRead : m \in 0..MaxRead
    BY BufferBoundAssumption
  <2>2. Stopped(b) \in Buffers
    BY DEF Stopped, Buffers, Modes
  <2>3. [b EXCEPT !.mode = "NONE"] \in Buffers
    BY DEF Buffers, Modes
  <2>4. [b EXCEPT !.mode = "TERMINATOR_STRING", !.size = 0] \in Buffers
    <3>1. 0 \in 0..MaxRead
      BY BufferBoundAssumption
    <3>2. "TERMINATOR_STRING" \in Modes
      BY DEF Modes, Reading
    <3> QED
      BY <3>1, <3>2 DEF Buffers
  <2>5. [b EXCEPT !.mode = "FREE", !.onData = TRUE] \in Buffers
    BY DEF Buffers, Modes
  <2>6. \A m \in 1..MaxRead : [b EXCEPT !.mode = "READ_BYTES", !.size = m] \in Buffers
    BY <2>1 DEF Buffers, Modes, Reading
  <2>7. Asking(b) \subseteq Buffers
    BY <2>3, <2>4, <2>5, <2>6 DEF Asking
  <2> QED
    BY <2>2, <2>7 DEF Asks
<1>2. CASE buf' = b /\ read' = s
  BY <1>1, <1>2
<1>3. CASE read' = NewRead(n, buf'.size, w)
  <2>1. /\ read' \in Records /\ read'.at = n /\ read'.asked = buf'.size
        /\ read'.between = w /\ read'.passed = 0 /\ read'.bytes = <<>>
    <3>1. <<>> \in Bytes
      BY EmptySeq DEF Bytes
    <3>2. buf'.size \in Nat
      BY <1>1, BufferBoundAssumption DEF Buffers
    <3> QED
      BY <1>3, <3>1, <3>2 DEF NewRead, Records
  <2>2. Len(<<>>) = 0
    BY EmptySeq
  <2>3. Len(read'.bytes) = 0 /\ Start(read') = n /\ End(read') = n
    <3>1. Start(read') = n
      BY <2>1 DEF Start
    <3>2. Len(read'.bytes) = 0
      BY <2>1, <2>2
    <3> QED
      BY <3>1, <3>2 DEF End
  <2>4. Excused(read')
    BY <2>1 DEF Excused
  <2>5. Holds(read'.bytes, Start(read'), Len(read'.bytes))
    BY <2>1, <2>3, HoldsNone
  <2>6. Recorded(read')
    BY <2>1, <2>4, <2>5 DEF Recorded
  <2>7. read'.asked = buf'.size + Len(read'.bytes)
    <3>1. buf'.size \in Nat
      BY <1>1, BufferBoundAssumption DEF Buffers
    <3> QED
      BY <2>1, <2>3, <3>1
  <2>8. \A p \in (Start(read') + 1)..n : kinds[p] # "terminator"
    BY <2>3
  <2>9. ReadOf(buf', read', n, kinds)
    BY <2>3, <2>6, <2>7, <2>8 DEF ReadOf
  <2> QED
    BY <1>1, <2>1, <2>9
<1> QED
  BY <1>2, <1>3 DEF Asks

\* readStringUntil takes up to a terminator, which answers it, and none before.
LEMMA TakenKinds ==
  ASSUME buf \in Buffers, buf.mode = "TERMINATOR_STRING",
         NEW i \in Nat, NEW j \in Nat, NEW k \in Nat,
         Holds(rx, i, j), Holds(input.left, i + j, k),
         NEW p \in (i + 1)..(i + FromBuffer + FromData)
  PROVE  received[p] = "terminator" <=> p = i + FromBuffer + FromData /\ Answer
<1> DEFINE r == FromBuffer
           n == FromData
           data == input.left
<1>1. rx \in Bytes /\ Len(rx) = j /\ \A x \in 1..j : rx[x] = i + x
  BY HoldsIs
<1>2. data \in Bytes /\ Len(data) = k /\ \A x \in 1..k : data[x] = (i + j) + x
  <2>1. i + j \in Nat
    BY SMT
  <2> QED
    BY <2>1, HoldsIs
<1>3. /\ r \in 0..j /\ n \in 0..k /\ (n > 0 => r = j)
      /\ r = ToTerminator(rx) /\ n = IF Terminated(rx, r) THEN 0 ELSE ToTerminator(data)
  <2>1. buf.mode \in Reading
    BY DEF Reading
  <2> QED
    BY <1>1, <1>2, <2>1, TakenAre
<1>4. /\ \A x \in 1..r : received[rx[x]] = "terminator" => x = r
      /\ ~Terminated(rx, r) => r = j
  BY <1>1, <1>3, ToTerminatorIs
<1>5. ~Terminated(rx, r) =>
        /\ \A x \in 1..n : received[data[x]] = "terminator" => x = n
        /\ ~Terminated(data, n) => n = k
  BY <1>2, <1>3, ToTerminatorIs
<1>6. Answer <=> Terminated(rx, r) \/ Terminated(data, n)
  BY DEF Answer
<1>p. p \in (i + 1)..(i + r + n) /\ r \in Nat /\ n \in Nat
  BY <1>3
<1> HIDE DEF r, n, data
<1>7. CASE Terminated(rx, r)
  <2>1. n = 0 /\ r > 0 /\ received[rx[r]] = "terminator"
    BY <1>3, <1>7 DEF Terminated
  <2>2. p - i \in 1..r /\ i + (p - i) = p /\ p - i \in 1..j
    BY <1>3, <1>p, <2>1
  <2>3. rx[p - i] = p
    BY <1>1, <2>2
  <2>4. received[p] = "terminator" => p - i = r
    BY <1>4, <2>2, <2>3
  <2>5. p - i = r => received[p] = "terminator"
    BY <2>1, <2>3
  <2>6. p - i = r <=> p = i + r + n
    BY <1>p, <2>1
  <2> QED
    BY <1>6, <1>7, <2>4, <2>5, <2>6 DEF r, n, data
<1>8. CASE ~Terminated(rx, r)
  <2>1. r = j /\ (r > 0 => received[rx[r]] # "terminator")
    BY <1>4, <1>8 DEF Terminated
  <2>2. CASE p <= i + r
    <3>1. p - i \in 1..r /\ i + (p - i) = p /\ p - i \in 1..j
      BY <1>p, <2>1, <2>2
    <3>2. rx[p - i] = p
      BY <1>1, <3>1
    <3>3. received[p] # "terminator"
      BY <1>4, <2>1, <3>1, <3>2
    <3>4. n = 0 => ~Terminated(data, n)
      BY DEF Terminated
    <3>5. p = i + r + n => n = 0
      BY <1>p, <2>2
    <3> QED
      BY <1>6, <1>8, <3>3, <3>4, <3>5 DEF r, n, data
  <2>3. CASE ~(p <= i + r)
    <3>1. p - (i + j) \in 1..n /\ (i + j) + (p - (i + j)) = p /\ p - (i + j) \in 1..k
      BY <1>3, <1>p, <2>1, <2>3
    <3>2. data[p - (i + j)] = p
      BY <1>2, <3>1
    <3>3. p - (i + j) = n <=> p = i + r + n
      BY <1>p, <2>1
    <3>4. received[p] = "terminator" => p - (i + j) = n
      BY <1>5, <1>8, <3>1, <3>2
    <3>5. p - (i + j) = n => (received[p] = "terminator" <=> Terminated(data, n))
      <4>1. n > 0
        BY <1>p, <3>1
      <4> QED
        BY <3>2, <4>1 DEF Terminated
    <3> QED
      BY <1>6, <1>8, <3>3, <3>4, <3>5 DEF r, n, data
  <2> QED
    BY <2>2, <2>3
<1> QED
  BY <1>7, <1>8

-----------------------------------------------------------------------------
(* What the user is given, by a read or by onData's calls.                  *)

\* The first r bytes of the buffer and n of the data, which goes on where the
\* buffer ends, continue bytes that end where the buffer begins.
LEMMA Dealt ==
  ASSUME NEW i \in Nat, NEW j \in Nat, NEW k \in Nat,
         Holds(rx, i, j), Holds(input.left, i + j, k),
         NEW r \in 0..j, NEW n \in 0..k, n > 0 => r = j,
         NEW g, NEW from \in Nat, NEW l \in Nat, Holds(g, from, l), from + l = i
  PROVE  Holds((g \o SubSeq(rx, 1, r)) \o SubSeq(input.left, 1, n), from, (l + r) + n)
<1>1. i + j \in Nat /\ i + r \in Nat /\ l + r \in Nat /\ n \in Nat /\ from + (l + r) = i + r
  OBVIOUS
<1>2. Holds(g \o SubSeq(rx, 1, r), from, l + r)
  <2>1. Holds(SubSeq(rx, 1, r), i, r)
    BY HoldsSub
  <2> QED
    BY <2>1, HoldsCat
<1>3. Holds(SubSeq(input.left, 1, n), i + r, n)
  <2>1. CASE n = 0
    <3>1. Holds(SubSeq(input.left, 1, n), i + j, 0)
      BY <1>1, <2>1, HoldsSub
    <3>2. SubSeq(input.left, 1, n) = <<>>
      BY <1>1, <3>1, HoldsNone
    <3> QED
      BY <1>1, <2>1, <3>2, HoldsNone
  <2>2. CASE n # 0
    <3>1. r = j
      BY <1>1, <2>2
    <3> QED
      BY <1>1, <3>1, HoldsSub
  <2> QED
    BY <2>1, <2>2
<1>4. Holds(SubSeq(input.left, 1, n), from + (l + r), n)
  BY <1>1, <1>3
<1> QED
  BY <1>1, <1>2, <1>4, HoldsCat

LEMMA GiveInOrder ==
  ASSUME NEW i \in Nat, NEW j \in Nat, NEW k \in Nat,
         Holds(given, 0, i), Holds(rx, i, j), Holds(input.left, i + j, k),
         NEW r \in 0..j, NEW n \in 0..k, n > 0 => r = j, Give(r, n)
  PROVE  /\ Holds(given', 0, (i + r) + n) /\ Len(given') = (i + r) + n
         /\ Holds(rx', (i + r) + n, j - r)
<1>1. i + r \in Nat /\ n \in Nat /\ (i + r) + n \in Nat /\ j - r \in Nat /\ 0 + i = i
  OBVIOUS
<1>2. Holds(given', 0, (i + r) + n)
  <2>1. Holds((given \o SubSeq(rx, 1, r)) \o SubSeq(input.left, 1, n), 0, (i + r) + n)
    BY <1>1, Dealt
  <2> QED
    BY <2>1 DEF Give
<1>3. Holds(rx', (i + r) + n, j - r)
  <2>1. Holds(rx', i + r, j - r)
    <3>1. Holds(SubSeq(rx, r + 1, Len(rx)), i + r, j - r)
      BY HoldsSub
    <3> QED
      BY <3>1 DEF Give
  <2>2. CASE n = 0
    <3>1. (i + r) + n = i + r
      BY <1>1, <2>2
    <3> QED
      BY <2>1, <3>1
  <2>3. CASE n # 0
    <3>1. j - r = 0
      BY <1>1, <2>3
    <3>2. rx' = <<>>
      BY <1>1, <2>1, <3>1, HoldsNone
    <3> QED
      BY <1>1, <3>1, <3>2, HoldsNone
  <2> QED
    BY <2>2, <2>3
<1> QED
  BY <1>1, <1>2, <1>3, HoldsIs

\* A read that goes on has what came since it was asked for; when it is answered
\* it has what it asked for.
LEMMA ReadInOrder ==
  ASSUME buf \in Buffers, buf.mode \in Reading, Read,
         NEW i \in Nat, NEW j \in Nat, NEW k \in Nat,
         Holds(given, 0, i), Holds(rx, i, j), Holds(input.left, i + j, k),
         Len(received) \in Nat, i + j + k <= Len(received),
         ReadOf(buf, read, i, received), Answered(answers, received)
  PROVE  /\ FromBuffer \in 0..j /\ FromData \in 0..k /\ (FromData > 0 => FromBuffer = j)
         /\ Give(FromBuffer, FromData) /\ buf' \in Buffers
         /\ ReadOf(buf', read', (i + FromBuffer) + FromData, received)
         /\ Answered(answers', received)
<1> DEFINE r == FromBuffer
           n == FromData
           t == (i + r) + n
           b == [buf EXCEPT !.size = IF buf.mode = "READ_BYTES" THEN @ - r - n ELSE @]
           taken == (read.bytes \o SubSeq(rx, 1, r)) \o SubSeq(input.left, 1, n)
           c == [read EXCEPT !.bytes = taken]
           l == Len(read.bytes)
<1>1. rx \in Bytes /\ Len(rx) = j /\ input.left \in Bytes /\ Len(input.left) = k
  <2>1. i + j \in Nat
    OBVIOUS
  <2> QED
    BY <2>1, HoldsIs
<1>2. /\ r \in 0..j /\ n \in 0..k /\ (n > 0 => r = j)
      /\ buf.mode = "READ_BYTES" => r + n <= buf.size
  BY <1>1, TakenAre
<1>3. /\ Give(r, n)
      /\ Answer => /\ answers' = [mode |-> buf.mode, read |-> c]
                   /\ Asks([b EXCEPT !.mode = "NONE"], c, FALSE)
      /\ ~Answer => buf' = b /\ read' = c /\ UNCHANGED answers
  BY DEF Read
<1>4. \A p \in (i + 1)..t : buf.mode = "TERMINATOR_STRING" =>
        (received[p] = "terminator" <=> p = t /\ Answer)
  BY TakenKinds
<1>5. /\ read \in Records /\ Excused(read) /\ Holds(read.bytes, Start(read), l)
      /\ Start(read) \in Nat /\ l \in Nat /\ Start(read) + l = i
  <2>1. Recorded(read) /\ End(read) = i
    BY DEF ReadOf
  <2>2. read \in Records /\ Excused(read) /\ Holds(read.bytes, Start(read), l)
    BY <2>1 DEF Recorded
  <2>3. Start(read) \in Nat
    BY <2>2 DEF Records, Start
  <2>4. l \in Nat
    BY <2>2 DEF Holds
  <2> QED
    BY <2>1, <2>2, <2>3, <2>4 DEF End
<1>6. Holds(taken, Start(read), (l + r) + n)
  BY <1>2, <1>5, Dealt
<1>7. Len(given') = t
  BY <1>2, <1>3, GiveInOrder
<1>8. /\ b \in Buffers /\ b.mode = buf.mode
      /\ b.size = IF buf.mode = "READ_BYTES" THEN buf.size - r - n ELSE buf.size
  <2> HIDE DEF r, n
  <2>1. buf.size \in 0..MaxRead /\ MaxRead \in Nat
    BY BufferBoundAssumption DEF Buffers
  <2>2. r \in Nat /\ n \in Nat
    BY <1>2
  <2>3. (IF buf.mode = "READ_BYTES" THEN buf.size - r - n ELSE buf.size) \in 0..MaxRead
    BY <1>2, <2>1, <2>2
  <2> QED
    BY <2>3 DEF Buffers
<1>9. /\ c \in Records /\ c.bytes = taken /\ c.at = read.at /\ c.passed = read.passed
      /\ c.between = read.between /\ c.asked = read.asked
  <2>1. taken \in Bytes
    BY <1>5, <1>6, HoldsIs
  <2> HIDE DEF taken
  <2> QED
    BY <1>5, <2>1 DEF Records
<1> HIDE DEF r, n, b, taken, c, l
<1>10. /\ r \in Nat /\ n \in Nat /\ t \in Nat /\ t <= Len(received)
  BY <1>2
<1>11. /\ Recorded(c) /\ Start(c) = Start(read) /\ Len(c.bytes) = (l + r) + n
       /\ End(c) = t
  <2>1. Start(c) = Start(read)
    BY <1>9 DEF Start
  <2>2. Len(c.bytes) = (l + r) + n
    BY <1>5, <1>6, <1>9, HoldsIs
  <2>3. Start(read) + ((l + r) + n) = t
    BY <1>5, <1>10
  <2>4. End(c) = t
    BY <2>1, <2>2, <2>3 DEF End
  <2>5. Excused(c)
    BY <1>5, <1>9 DEF Excused
  <2>6. Holds(c.bytes, Start(c), Len(c.bytes))
    BY <1>6, <1>9, <2>1, <2>2
  <2> QED
    BY <1>9, <2>1, <2>2, <2>4, <2>5, <2>6 DEF Recorded
<1>12. buf.mode = "READ_BYTES" => c.asked = (buf.size - r - n) + Len(c.bytes)
  <2> SUFFICES ASSUME buf.mode = "READ_BYTES" PROVE c.asked = (buf.size - r - n) + Len(c.bytes)
    OBVIOUS
  <2>1. read.asked = buf.size + l
    BY DEF ReadOf, l
  <2>2. buf.size \in Nat
    BY BufferBoundAssumption DEF Buffers
  <2> QED
    BY <1>5, <1>9, <1>10, <1>11, <2>1, <2>2
<1>13. ASSUME buf.mode = "TERMINATOR_STRING", NEW p \in (Start(c) + 1)..t
       PROVE  received[p] = "terminator" <=> p = t /\ Answer
  <2>1. CASE p <= i
    <3>1. p \in (Start(read) + 1)..i
      BY <1>5, <1>10, <1>11, <1>13, <2>1
    <3>2. received[p] # "terminator"
      BY <1>13, <3>1 DEF ReadOf
    <3>3. Answer => r > 0 \/ n > 0
      BY <1>13 DEF Answer, Terminated, r, n
    <3>4. (r > 0 \/ n > 0) => p # t
      BY <1>10, <2>1
    <3> QED
      BY <3>2, <3>3, <3>4
  <2>2. CASE ~(p <= i)
    <3>1. p \in (i + 1)..t
      BY <1>5, <1>10, <1>11, <1>13, <2>2
    <3> QED
      BY <1>4, <1>13, <3>1
  <2> QED
    BY <2>1, <2>2
<1> HIDE DEF t
<1>14. CASE Answer
  <2> DEFINE d == [b EXCEPT !.mode = "NONE"]
  <2>1. d \in Buffers /\ d.mode = "NONE"
    BY <1>8 DEF Buffers, Modes
  <2>2. Asks(d, c, FALSE)
    BY <1>3, <1>14
  <2> HIDE DEF d
  <2>3. ReadOf(d, c, t, received)
    BY <1>11, <2>1 DEF ReadOf, Reading
  <2>4. buf' \in Buffers /\ ReadOf(buf', read', t, received)
    BY <1>7, <1>10, <2>1, <2>2, <2>3, AsksRead
  <2>5. answers'.mode = buf.mode /\ answers'.read = c
    BY <1>3, <1>14
  <2>6. buf.mode = "READ_BYTES" => Len(c.bytes) = c.asked
    <3> SUFFICES ASSUME buf.mode = "READ_BYTES" PROVE Len(c.bytes) = c.asked
      OBVIOUS
    <3>1. buf.size = r + n
      BY <1>14 DEF Answer, r, n
    <3>2. Len(c.bytes) \in Nat
      BY <1>5, <1>10, <1>11
    <3> QED
      BY <1>10, <1>12, <3>1, <3>2
  <2>7. buf.mode = "TERMINATOR_STRING" =>
          \A p \in (Start(c) + 1)..t : received[p] = "terminator" <=> p = t
    BY <1>13, <1>14
  <2>8. Answered(answers', received)
    BY <1>10, <1>11, <2>5, <2>6, <2>7 DEF Answered
  <2> QED
    BY <1>2, <1>3, <2>4, <2>8 DEF r, n, t
<1>15. CASE ~Answer
  <2>1. b.mode = "READ_BYTES" => c.asked = b.size + Len(c.bytes)
    BY <1>8, <1>12
  <2>2. b.mode = "TERMINATOR_STRING" =>
          \A p \in (Start(c) + 1)..t : received[p] # "terminator"
    BY <1>8, <1>13, <1>15
  <2>3. ReadOf(b, c, t, received)
    BY <1>11, <2>1, <2>2 DEF ReadOf
  <2>4. buf' = b /\ read' = c /\ answers' = answers
    BY <1>3, <1>15
  <2> QED
    BY <1>2, <1>3, <1>8, <2>3, <2>4 DEF r, n, t
<1> QED
  BY <1>14, <1>15

\* onData's call with the buffer.
LEMMA GiveBufferInOrder ==
  ASSUME buf \in Buffers, buf.mode = "FREE", NEW w \in BOOLEAN,
         NEW i \in Nat, NEW j \in Nat, NEW k \in Nat,
         Holds(given, 0, i), Holds(rx, i, j), Holds(input.left, i + j, k),
         NEW r \in 0..j, GiveBuffer(r, w),
         ReadOf(buf, read, i, received)
  PROVE  /\ buf' \in Buffers /\ ReadOf(buf', read', (i + r) + 0, received)
         /\ w => Untouched(buf', read')
<1>1. Give(r, 0) /\ Asks(buf, read, w)
  BY DEF GiveBuffer
<1>2. Len(given') = (i + r) + 0
  <2>1. 0 \in 0..k /\ ~(0 > 0)
    OBVIOUS
  <2> QED
    BY <1>1, <2>1, GiveInOrder
<1>3. (i + r) + 0 \in Nat
  OBVIOUS
<1>4. ReadOf(buf, read, (i + r) + 0, received)
  BY DEF ReadOf, Reading
<1>5. /\ buf' \in Buffers /\ ReadOf(buf', read', (i + r) + 0, received)
      /\ (buf' = buf /\ read' = read) \/ (read'.between = w /\ read'.bytes = <<>>)
  BY <1>1, <1>2, <1>3, <1>4, AsksRead
<1> QED
  BY <1>5 DEF Untouched

\* Its call with the data: bytes that a read misses were passed to onData.
LEMMA GiveDataInOrder ==
  ASSUME buf \in Buffers, Untouched(buf, read),
         NEW i \in Nat, NEW k \in Nat,
         Holds(given, 0, i), Holds(rx, i, 0), Holds(input.left, i + 0, k),
         NEW n \in 0..k, GiveData(n),
         ReadOf(buf, read, i, received)
  PROVE  buf' \in Buffers /\ ReadOf(buf', read', (i + 0) + n, received)
<1> DEFINE c == [read EXCEPT !.passed = @ + n]
<1>1. Give(0, n) /\ Asks(buf, IF buf.mode = "FREE" THEN read ELSE c, FALSE)
  BY DEF GiveData
<1>2. Len(given') = (i + 0) + n
  <2>1. 0 \in 0..0 /\ 0 \in Nat
    OBVIOUS
  <2> QED
    BY <1>1, <2>1, GiveInOrder
<1>3. (i + 0) + n \in Nat /\ n \in Nat /\ (i + 0) + n = i + n
  OBVIOUS
<1>4. CASE buf.mode = "FREE"
  <2>1. ReadOf(buf, read, (i + 0) + n, received)
    BY <1>4 DEF ReadOf, Reading
  <2>2. Asks(buf, read, FALSE)
    BY <1>1, <1>4
  <2> QED
    BY <1>2, <1>3, <2>1, <2>2, AsksRead
<1>5. CASE buf.mode # "FREE"
  <2>1. read.between /\ read.bytes = <<>> /\ Recorded(read)
    BY <1>5 DEF Untouched, ReadOf
  <2>2. read \in Records
    BY <2>1 DEF Recorded
  <2>3. read.at \in Nat /\ read.passed \in Nat /\ read.passed + n \in Nat
    BY <1>3, <2>2 DEF Records
  <2>4. /\ c \in Records /\ c.at = read.at /\ c.asked = read.asked /\ c.bytes = <<>>
        /\ c.passed = read.passed + n /\ c.between = read.between
    BY <2>1, <2>2, <2>3 DEF Records
  <2>5. Asks(buf, c, FALSE)
    BY <1>1, <1>5
  <2> HIDE DEF c
  <2>6. Len(<<>>) = 0
    BY EmptySeq
  <2>7. Start(read) \in Nat /\ Start(c) = Start(read) + n
    <3>1. Start(read) = read.at + read.passed /\ Start(c) = read.at + (read.passed + n)
      BY <2>4 DEF Start
    <3> QED
      BY <1>3, <2>3, <3>1
  <2>8. End(read) = Start(read) /\ End(c) = Start(c) /\ Len(c.bytes) = 0 /\ Len(read.bytes) = 0
    <3>1. Len(c.bytes) = 0 /\ Len(read.bytes) = 0
      BY <2>1, <2>4, <2>6
    <3>2. End(read) = Start(read) + 0 /\ End(c) = Start(c) + 0
      BY <3>1 DEF End
    <3> QED
      BY <1>3, <2>7, <3>1, <3>2
  <2>9. Excused(c)
    BY <2>1, <2>4 DEF Excused
  <2>10. Holds(c.bytes, Start(c), Len(c.bytes))
    <3>1. Start(c) \in Nat
      BY <1>3, <2>7
    <3> QED
      BY <2>4, <2>8, <3>1, HoldsNone
  <2>11. Recorded(c)
    BY <2>4, <2>9, <2>10 DEF Recorded
  <2>12. buf.mode \in Reading => End(c) = (i + 0) + n
    <3>1. buf.mode \in Reading => Start(read) = i
      BY <2>8 DEF ReadOf
    <3> QED
      BY <1>3, <2>7, <2>8, <3>1
  <2>13. buf.mode = "READ_BYTES" => c.asked = buf.size + Len(c.bytes)
    BY <2>4, <2>8 DEF ReadOf
  <2>14. buf.mode = "TERMINATOR_STRING" =>
           \A p \in (Start(c) + 1)..((i + 0) + n) : received[p] # "terminator"
    <3> SUFFICES ASSUME buf.mode = "TERMINATOR_STRING",
                        NEW p \in (Start(c) + 1)..((i + 0) + n)
                 PROVE  FALSE
      OBVIOUS
    <3>1. Start(read) = i
      BY <2>8 DEF ReadOf, Reading
    <3> QED
      BY <1>3, <2>7, <3>1
  <2>15. ReadOf(buf, c, (i + 0) + n, received)
    BY <2>11, <2>12, <2>13, <2>14 DEF ReadOf
  <2> QED
    BY <1>2, <1>3, <2>5, <2>15, AsksRead
<1> QED
  BY <1>4, <1>5

LEMMA RxInit ==
  ASSUME Init
  PROVE  RxInv
<1>1. pcb = "none" /\ rx = <<>> /\ input = [at |-> "none", left |-> <<>>] /\ received = <<>>
      /\ given = <<>> /\ answers.mode = "NONE" /\ answers.read = read
      /\ read = [at |-> 0, asked |-> 0, between |-> FALSE, passed |-> 0, bytes |-> <<>>]
      /\ buf = [exists |-> FALSE, client |-> FALSE, mode |-> "FREE", size |-> 0, onData |-> FALSE]
  BY DEF Init, NoInput, NewRead
<1>2. <<>> \in Bytes /\ <<>> \in Seq(Kinds) /\ Len(<<>>) = 0
  BY EmptySeq DEF Bytes
<1>3. RxTyped
  <2>1. 0 \in 0..MaxRead
    BY BufferBoundAssumption
  <2>2. buf \in Buffers
    BY <1>1, <2>1 DEF Buffers, Modes
  <2>3. input \in Inputs /\ input.left = <<>>
    BY <1>1, <1>2 DEF Inputs
  <2> QED
    BY <1>1, <1>2, <2>2, <2>3 DEF RxTyped
<1>4. InOrder(given, rx, input.left, Len(received))
  <2>1. Holds(<<>>, 0, 0) /\ 0 + 0 = 0 /\ 0 + 0 + 0 = 0 /\ 0 \in Nat
    BY HoldsNone
  <2> QED
    BY <1>1, <1>2, <2>1 DEF InOrder
<1>5. Recorded(read) /\ End(read) = 0
  <2>1. read \in Records /\ Excused(read)
    BY <1>1, <1>2 DEF Records, Excused
  <2>2. Start(read) = 0 /\ Len(read.bytes) = 0
    BY <1>1, <1>2 DEF Start
  <2>3. Holds(read.bytes, Start(read), Len(read.bytes))
    BY <1>1, <2>2, HoldsNone
  <2> QED
    BY <2>1, <2>2, <2>3 DEF Recorded, End
<1>6. ReadOf(buf, read, Len(given), received)
  BY <1>1, <1>5 DEF ReadOf, Reading
<1>7. Answered(answers, received)
  <2>1. Len(received) = 0
    BY <1>1, <1>2
  <2> QED
    BY <1>1, <1>5, <2>1 DEF Answered
<1>8. SecondKept
  BY <1>1 DEF SecondKept
<1> QED
  BY <1>3, <1>4, <1>6, <1>7, <1>8 DEF RxInv

\* Nothing is received or read.
LEMMA RxSame ==
  ASSUME RxInv, UNCHANGED <<rxVars, input>>, pcb' \in {"none", "opening", "open", "ended"},
         buf' \in Buffers, buf'.mode = buf.mode, buf'.size = buf.size
  PROVE  RxInv'
<1>1. UNCHANGED <<rx, received, given, read, answers, input>>
  BY DEF rxVars
<1>2. RxTyped' /\ InOrder(given, rx, input.left, Len(received))'
  BY <1>1 DEF RxInv, RxTyped, InOrder
<1>3. ReadOf(buf, read, Len(given), received)'
  BY <1>1 DEF RxInv, ReadOf
<1>4. Answered(answers, received)' /\ SecondKept'
  BY <1>1 DEF RxInv, SecondKept, Untouched
<1> QED
  BY <1>2, <1>3, <1>4 DEF RxInv

LEMMA RxAsk ==
  ASSUME RxInv, Ask
  PROVE  RxInv'
<1>1. /\ UNCHANGED <<pcb, rx, received, given, answers, input>> /\ Asks(buf, read, FALSE)
      /\ input.at = "none"
  BY DEF Ask, Free, NoInput
<1>2. Len(given) \in Nat /\ buf \in Buffers /\ ReadOf(buf, read, Len(given), received)
  BY DEF RxInv, RxTyped, Bytes
<1>3. buf' \in Buffers /\ ReadOf(buf', read', Len(given), received)
  <2>1. Len(given') = Len(given) /\ FALSE \in BOOLEAN
    BY <1>1
  <2> QED
    BY <1>1, <1>2, <2>1, AsksRead
<1>4. RxTyped'
  BY <1>1, <1>3 DEF RxInv, RxTyped
<1>5. InOrder(given, rx, input.left, Len(received))'
  BY <1>1 DEF RxInv, InOrder
<1>6. ReadOf(buf, read, Len(given), received)'
  BY <1>1, <1>3
<1>7. Answered(answers, received)' /\ SecondKept'
  BY <1>1 DEF RxInv, SecondKept
<1> QED
  BY <1>4, <1>5, <1>6, <1>7 DEF RxInv

\* More bytes come.
LEMMA MoreKinds ==
  ASSUME NEW kinds \in Seq(Kinds), NEW more \in Seq(Kinds), NEW a, Answered(a, kinds),
         NEW b, NEW s, NEW n \in 0..Len(kinds), ReadOf(b, s, n, kinds)
  PROVE  /\ kinds \o more \in Seq(Kinds) /\ Len(kinds \o more) = Len(kinds) + Len(more)
         /\ Answered(a, kinds \o more) /\ ReadOf(b, s, n, kinds \o more)
<1>1. Cat(kinds, more) \in Seq(Kinds) /\ Follows(Cat(kinds, more), kinds, more)
  BY CatIndexed
<1>2. PICK v \in Seq(Kinds) : v = Cat(kinds, more)
  BY <1>1
<1>3. Len(v) = Len(kinds) + Len(more) /\ \A i \in 1..Len(kinds) : v[i] = kinds[i]
  BY <1>1, <1>2 DEF Follows
<1>4. Len(kinds) \in Nat /\ Len(more) \in Nat
  OBVIOUS
<1>s. ASSUME NEW x, Recorded(x)
      PROVE  Start(x) \in Nat /\ End(x) \in Nat
  <2>1. x \in Records /\ Len(x.bytes) \in Nat
    BY <1>s DEF Recorded, Holds
  <2>2. Start(x) \in Nat
    BY <2>1 DEF Start, Records
  <2> QED
    BY <2>1, <2>2 DEF End
<1>5. Answered(a, v)
  <2>1. Recorded(a.read) /\ End(a.read) <= Len(kinds)
    BY DEF Answered
  <2>2. Start(a.read) \in Nat /\ End(a.read) \in Nat
    BY <1>s, <2>1
  <2>3. End(a.read) <= Len(v)
    BY <1>3, <1>4, <2>1, <2>2
  <2>4. \A p \in (Start(a.read) + 1)..End(a.read) : v[p] = kinds[p]
    BY <1>3, <1>4, <2>1, <2>2
  <2> QED
    BY <2>1, <2>3, <2>4 DEF Answered
<1>6. ReadOf(b, s, n, v)
  <2>1. Start(s) \in Nat
    BY <1>s DEF ReadOf
  <2>2. \A p \in (Start(s) + 1)..n : v[p] = kinds[p]
    BY <1>3, <1>4, <2>1
  <2> QED
    BY <2>2 DEF ReadOf
<1>7. v = kinds \o more
  BY <1>2 DEF Cat
<1> QED
  BY <1>3, <1>5, <1>6, <1>7

LEMMA RxReceive ==
  ASSUME RxInv, NEW segment \in Seq(Kinds), Receive(segment)
  PROVE  RxInv'
<1>1. UNCHANGED <<pcb, buf, rx, given, read, answers>> /\ input = NoInput
  BY DEF Receive, Yielding, Free
<1>2. CASE UNCHANGED <<received, input>>
  BY <1>1, <1>2, RxSame DEF RxInv, RxTyped, rxVars
<1>3. CASE /\ received' = received \o segment
           /\ input' = [at |-> "first", left |-> Numbers(Len(received), Len(segment))]
  <2>1. PICK i, j, k \in Nat : /\ Holds(given, 0, i) /\ Holds(rx, i, j) /\ Holds(input.left, i + j, k)
                               /\ i + j + k = Len(received)
    BY DEF RxInv, InOrder
  <2>2. k = 0 /\ Len(given) = i
    <3>1. i + j \in Nat
      BY <2>1
    <3>2. Len(input.left) = k /\ Len(given) = i
      BY <2>1, <3>1, HoldsIs
    <3>3. Len(<<>>) = 0 /\ input.left = <<>>
      BY <1>1 DEF NoInput
    <3> QED
      BY <3>2, <3>3
  <2>3. received \in Seq(Kinds) /\ Len(received) \in Nat /\ Len(segment) \in Nat
        /\ ReadOf(buf, read, Len(given), received) /\ Answered(answers, received)
    BY DEF RxInv, RxTyped
  <2>4. Len(given) \in 0..Len(received)
    BY <2>1, <2>2, <2>3
  <2>5. /\ received' \in Seq(Kinds) /\ Len(received') = Len(received) + Len(segment)
        /\ Answered(answers, received') /\ ReadOf(buf, read, Len(given), received')
    BY <1>3, <2>3, <2>4, MoreKinds
  <2>6. i + j = Len(received)
    BY <2>1, <2>2, <2>3
  <2>7. Holds(input'.left, i + j, Len(segment))
    BY <1>3, <2>3, <2>6 DEF Holds
  <2>8. i + j + Len(segment) = Len(received')
    BY <2>5, <2>6
  <2>9. InOrder(given', rx', input'.left, Len(received'))
    BY <1>1, <2>1, <2>3, <2>7, <2>8 DEF InOrder
  <2>10. input' \in Inputs /\ input'.at = "first"
    <3>1. Numbers(Len(received), Len(segment)) \in Bytes
      BY <2>3, NumbersAre DEF Bytes
    <3> QED
      BY <1>3, <3>1 DEF Inputs
  <2>11. RxTyped'
    BY <1>1, <2>5, <2>10 DEF RxInv, RxTyped
  <2>12. ReadOf(buf, read, Len(given), received)' /\ Answered(answers, received)' /\ SecondKept'
    BY <1>1, <2>5, <2>10 DEF SecondKept
  <2> QED
    BY <2>9, <2>11, <2>12 DEF RxInv
<1> QED
  BY <1>2, <1>3 DEF Receive, rxVars

LEMMA Shifted ==
  ASSUME NEW i \in Nat, NEW j \in Nat, NEW k \in Nat, NEW r \in 0..j, NEW n \in 0..k,
         NEW all, i + j + k = all
  PROVE  /\ i + j \in Nat /\ (i + r) + n \in Nat /\ j - r \in Nat /\ k - n \in Nat
         /\ (i + j) + n = ((i + r) + n) + (j - r) /\ ((i + r) + n) + (j - r) \in Nat
         /\ ((i + r) + n) + (j - r) + (k - n) = all
<1>1. r \in Nat /\ n \in Nat /\ r <= j /\ n <= k
  OBVIOUS
<1>2. PICK d \in Nat : d = j - r
  BY <1>1
<1>3. j = r + d
  BY <1>1, <1>2
<1>4. (i + j) + n = ((i + r) + n) + d /\ ((i + r) + n) + d \in Nat /\ k - n \in Nat
  BY <1>1, <1>3
<1>5. ((i + r) + n) + d + (k - n) = all
  BY <1>1, <1>3
<1>6. i + j \in Nat /\ (i + r) + n \in Nat
  BY <1>1
<1> QED
  BY <1>2, <1>4, <1>5, <1>6

\* The user is given r bytes of the buffer and n of the data, and the rest goes on.
LEMMA RxGives ==
  ASSUME RxInv, UNCHANGED <<pcb, received>>,
         NEW i \in Nat, NEW j \in Nat, NEW k \in Nat,
         Holds(given, 0, i), Holds(rx, i, j), Holds(input.left, i + j, k), i + j + k = Len(received),
         NEW r \in 0..j, NEW n \in 0..k, n > 0 => r = j, Give(r, n),
         buf' \in Buffers, ReadOf(buf', read', (i + r) + n, received), Answered(answers', received),
         input'.left = SubSeq(input.left, n + 1, Len(input.left)),
         input' = [at |-> input'.at, left |-> input'.left],
         input'.at \in {"none", "first", "second", "rest", "buffer"},
         input'.at \in {"none", "buffer"} => input'.left = <<>>,
         SecondKept'
  PROVE  RxInv'
<1>1. /\ Holds(given', 0, (i + r) + n) /\ Len(given') = (i + r) + n
      /\ Holds(rx', (i + r) + n, j - r)
  BY GiveInOrder
<1>2. /\ i + j \in Nat /\ (i + r) + n \in Nat /\ j - r \in Nat /\ k - n \in Nat
      /\ (i + j) + n = ((i + r) + n) + (j - r) /\ ((i + r) + n) + (j - r) \in Nat
      /\ ((i + r) + n) + (j - r) + (k - n) = Len(received)
  BY Shifted
<1>3. Holds(input'.left, ((i + r) + n) + (j - r), k - n)
  <2>1. Holds(input'.left, (i + j) + n, k - n)
    BY <1>2, HoldsSub
  <2> QED
    BY <1>2, <2>1
<1>4. InOrder(given', rx', input'.left, Len(received'))
  BY <1>1, <1>2, <1>3 DEF InOrder
<1>5. given' \in Bytes /\ rx' \in Bytes /\ input'.left \in Bytes
  BY <1>1, <1>2, <1>3, HoldsIs
<1>6. input' \in Inputs
  BY <1>5 DEF Inputs
<1>7. RxTyped'
  BY <1>5, <1>6 DEF RxInv, RxTyped
<1>8. ReadOf(buf, read, Len(given), received)' /\ Answered(answers, received)'
  BY <1>1
<1> QED
  BY <1>4, <1>7, <1>8 DEF RxInv

\* What RxInv says of a call of _handleRxBuffer.
LEMMA RxHas ==
  ASSUME RxInv
  PROVE  /\ buf \in Buffers /\ Len(received) \in Nat /\ input.left \in Bytes
         /\ \E i, j, k \in Nat :
              /\ Holds(given, 0, i) /\ Holds(rx, i, j) /\ Holds(input.left, i + j, k)
              /\ i + j + k = Len(received) /\ Len(rx) = j /\ Len(input.left) = k
              /\ ReadOf(buf, read, i, received)
         /\ Answered(answers, received)
<1>1. buf \in Buffers /\ received \in Seq(Kinds) /\ input.left \in Bytes
  BY DEF RxInv, RxTyped, Inputs
<1>2. PICK i, j, k \in Nat : /\ Holds(given, 0, i) /\ Holds(rx, i, j) /\ Holds(input.left, i + j, k)
                             /\ i + j + k = Len(received)
  BY DEF RxInv, InOrder
<1>3. i + j \in Nat
  OBVIOUS
<1>4. Len(given) = i /\ Len(rx) = j /\ Len(input.left) = k
  BY <1>2, <1>3, HoldsIs
<1>5. ReadOf(buf, read, i, received) /\ Answered(answers, received)
  BY <1>4 DEF RxInv
<1> QED
  BY <1>1, <1>2, <1>4, <1>5

LEMMA RxGoesOn ==
  ASSUME NEW n, GoesOn(n)
  PROVE  /\ input'.left = SubSeq(input.left, n + 1, Len(input.left))
         /\ input' = [at |-> input'.at, left |-> input'.left]
         /\ input'.at \in {"first", "rest"} /\ SecondKept'
<1> DEFINE left == SubSeq(input.left, n + 1, Len(input.left))
<1>1. input' = Step("first", left) \/ input' = Step("rest", left)
  BY DEF GoesOn
<1> HIDE DEF left
<1>2. input'.left = left /\ input'.at \in {"first", "rest"}
      /\ input' = [at |-> input'.at, left |-> input'.left]
  BY <1>1 DEF Step
<1> QED
  BY <1>2 DEF SecondKept, left

\* A read, in either of the calls.
LEMMA RxRead ==
  ASSUME RxInv, UNCHANGED <<pcb, received>>, buf.mode \in Reading, Read,
         input'.left = SubSeq(input.left, FromData + 1, Len(input.left)),
         input' = [at |-> input'.at, left |-> input'.left],
         input'.at \in {"none", "first", "rest"},
         input'.at = "none" => input'.left = <<>>, SecondKept'
  PROVE  RxInv'
<1>1. PICK i, j, k \in Nat :
        /\ Holds(given, 0, i) /\ Holds(rx, i, j) /\ Holds(input.left, i + j, k)
        /\ i + j + k = Len(received) /\ ReadOf(buf, read, i, received)
  BY RxHas
<1>2. buf \in Buffers /\ Len(received) \in Nat /\ Answered(answers, received)
  BY RxHas
<1>3. i + j + k <= Len(received)
  BY <1>1, <1>2
<1>4. /\ FromBuffer \in 0..j /\ FromData \in 0..k /\ (FromData > 0 => FromBuffer = j)
      /\ Give(FromBuffer, FromData) /\ buf' \in Buffers
      /\ ReadOf(buf', read', (i + FromBuffer) + FromData, received)
      /\ Answered(answers', received)
  BY <1>1, <1>2, <1>3, ReadInOrder
<1>5. input'.at \in {"none", "buffer"} => input'.left = <<>>
  OBVIOUS
<1> QED
  BY <1>1, <1>4, <1>5, RxGives

\* onData's call with the buffer.
LEMMA RxGiveBuffer ==
  ASSUME RxInv, UNCHANGED <<pcb, received>>, buf.mode = "FREE", NEW w \in BOOLEAN,
         NEW r \in 0..Len(rx), GiveBuffer(r, w),
         input'.left = input.left,
         input' = [at |-> input'.at, left |-> input'.left],
         input'.at \in {"none", "second", "rest"},
         input'.at = "none" => input'.left = <<>>,
         input'.at = "second" => w /\ r = Len(rx)
  PROVE  RxInv'
<1>1. PICK i, j, k \in Nat :
        /\ Holds(given, 0, i) /\ Holds(rx, i, j) /\ Holds(input.left, i + j, k)
        /\ i + j + k = Len(received) /\ Len(rx) = j /\ ReadOf(buf, read, i, received)
  BY RxHas
<1>2. buf \in Buffers /\ Answered(answers, received)
  BY RxHas
<1>3. r \in 0..j /\ Give(r, 0) /\ answers' = answers /\ 0 \in 0..k /\ ~(0 > 0)
  BY <1>1 DEF GiveBuffer
<1>4. /\ buf' \in Buffers /\ ReadOf(buf', read', (i + r) + 0, received)
      /\ w => Untouched(buf', read')
  BY <1>1, <1>2, <1>3, GiveBufferInOrder
<1>5. input.left = SubSeq(input.left, 0 + 1, Len(input.left))
  <2>1. i + j \in Nat /\ k - 0 = k /\ (i + j) + 0 = i + j
    BY <1>1
  <2>2. Holds(SubSeq(input.left, 0 + 1, Len(input.left)), (i + j) + 0, k - 0)
    BY <1>1, <1>3, <2>1, HoldsSub
  <2> QED
    BY <1>1, <2>1, <2>2 DEF Holds
<1>6. SecondKept'
  <2>1. r = Len(rx) => rx' = <<>>
    <3> SUFFICES ASSUME r = Len(rx) PROVE rx' = <<>>
      OBVIOUS
    <3>1. Holds(rx', (i + r) + 0, j - r)
      BY <1>1, <1>3, GiveInOrder
    <3>2. j - r = 0 /\ (i + r) + 0 \in Nat
      BY <1>1
    <3> QED
      BY <3>1, <3>2, HoldsNone
  <2> QED
    BY <1>4, <2>1 DEF SecondKept
<1>7. input'.at \in {"none", "buffer"} => input'.left = <<>>
  OBVIOUS
<1>8. Answered(answers', received)
  BY <1>2, <1>3
<1> QED
  BY <1>1, <1>3, <1>4, <1>5, <1>6, <1>7, <1>8, RxGives

\* Its call with the data.
LEMMA RxGiveData ==
  ASSUME RxInv, UNCHANGED <<pcb, received>>, rx = <<>>, Untouched(buf, read),
         NEW n \in 0..Len(input.left), GiveData(n), GoesOn(n)
  PROVE  RxInv'
<1>1. PICK i, j, k \in Nat :
        /\ Holds(given, 0, i) /\ Holds(rx, i, j) /\ Holds(input.left, i + j, k)
        /\ i + j + k = Len(received) /\ Len(rx) = j /\ Len(input.left) = k
        /\ ReadOf(buf, read, i, received)
  BY RxHas
<1>2. j = 0
  <2>1. Len(<<>>) = 0
    BY EmptySeq
  <2> QED
    BY <1>1, <2>1
<1>3. buf \in Buffers /\ Answered(answers, received)
  BY RxHas
<1>4. n \in 0..k /\ Give(0, n) /\ answers' = answers /\ 0 \in 0..0
  BY <1>1 DEF GiveData
<1>5. buf' \in Buffers /\ ReadOf(buf', read', (i + 0) + n, received)
  BY <1>1, <1>2, <1>3, <1>4, GiveDataInOrder
<1>6. /\ input'.left = SubSeq(input.left, n + 1, Len(input.left))
      /\ input' = [at |-> input'.at, left |-> input'.left]
      /\ input'.at \in {"first", "rest"} /\ SecondKept'
  BY RxGoesOn
<1>7. Answered(answers', received)
  BY <1>3, <1>4
<1> QED
  BY <1>1, <1>2, <1>4, <1>5, <1>6, <1>7, RxGives

LEMMA RxOfferFirst ==
  ASSUME RxInv, OfferFirst
  PROVE  RxInv'
<1>1. UNCHANGED <<pcb, received>> /\ input \in Inputs
  BY DEF OfferFirst, RxStep, RxInv, RxTyped
<1>2. CASE Reads /\ Read /\ GoesOn(FromData)
  <2>1. buf.mode \in Reading
    BY <1>2 DEF Reads
  <2> QED
    BY <1>1, <1>2, <2>1, RxGoesOn, RxRead
<1>3. ASSUME CallsUser, NEW r \in 0..Len(rx), GiveBuffer(r, r = Len(rx)),
             input' = Step(IF r = Len(rx) THEN "second" ELSE "rest", input.left)
      PROVE  RxInv'
  <2>1. buf.mode = "FREE"
    BY <1>3 DEF CallsUser
  <2>2. input'.left = input.left /\ input' = [at |-> input'.at, left |-> input'.left]
        /\ input'.at = IF r = Len(rx) THEN "second" ELSE "rest"
    BY <1>3 DEF Step
  <2>3. input'.at \in {"none", "second", "rest"} /\ input'.at # "none"
        /\ (input'.at = "second" => r = Len(rx))
    BY <2>2
  <2>4. (r = Len(rx)) \in BOOLEAN
    OBVIOUS
  <2> QED
    BY <1>1, <1>3, <2>1, <2>2, <2>3, <2>4, RxGiveBuffer
<1>4. ASSUME CallsUser, rx = <<>>, NEW n \in 0..Len(input.left), GiveData(n), GoesOn(n)
      PROVE  RxInv'
  <2>1. Untouched(buf, read)
    BY <1>4 DEF CallsUser, Untouched
  <2> QED
    BY <1>1, <1>4, <2>1, RxGiveData
<1>5. CASE input' = Step("rest", input.left) /\ UNCHANGED <<buf, rx, given, read, answers>>
  <2>1. input' \in Inputs /\ input'.left = input.left /\ input'.at = "rest"
    BY <1>1, <1>5 DEF Inputs, Step
  <2>2. RxTyped' /\ InOrder(given, rx, input.left, Len(received))'
    BY <1>1, <1>5, <2>1 DEF RxInv, RxTyped, InOrder
  <2>3. ReadOf(buf, read, Len(given), received)' /\ Answered(answers, received)' /\ SecondKept'
    BY <1>1, <1>5, <2>1 DEF RxInv, SecondKept
  <2> QED
    BY <2>2, <2>3 DEF RxInv
<1> QED
  BY <1>2, <1>3, <1>4, <1>5 DEF OfferFirst

LEMMA RxOfferSecond ==
  ASSUME RxInv, OfferSecond
  PROVE  RxInv'
<1>1. UNCHANGED <<pcb, received>> /\ rx = <<>> /\ Untouched(buf, read)
  BY DEF OfferSecond, RxStep, RxInv, SecondKept
<1>2. PICK n \in 0..Len(input.left) : GiveData(n) /\ GoesOn(n)
  BY DEF OfferSecond
<1> QED
  BY <1>1, <1>2, RxGiveData

LEMMA RxStore ==
  ASSUME RxInv, Store
  PROVE  RxInv'
<1>1. /\ UNCHANGED <<pcb, received, buf, given, read, answers>>
      /\ rx' = rx \o input.left /\ input' = [at |-> "buffer", left |-> <<>>]
  BY DEF Store, RxStep, Stored, Step
<1>2. PICK i, j, k \in Nat : /\ Holds(given, 0, i) /\ Holds(rx, i, j) /\ Holds(input.left, i + j, k)
                             /\ i + j + k = Len(received)
  BY DEF RxInv, InOrder
<1>3. Holds(rx', i, j + k)
  BY <1>1, <1>2, HoldsCat
<1>4. j + k \in Nat /\ i + (j + k) \in Nat /\ i + (j + k) + 0 = Len(received)
  BY <1>2
<1>5. Holds(<<>>, i + (j + k), 0)
  BY <1>4, HoldsNone
<1>6. InOrder(given', rx', input'.left, Len(received'))
  <2>1. 0 \in Nat /\ input'.left = <<>>
    BY <1>1
  <2> QED
    BY <1>1, <1>2, <1>3, <1>4, <1>5, <2>1 DEF InOrder
<1>7. rx' \in Bytes
  BY <1>3, HoldsIs
<1>8. input' \in Inputs /\ input'.left = <<>> /\ input'.at = "buffer"
  <2>1. <<>> \in Bytes
    BY EmptySeq DEF Bytes
  <2> QED
    BY <1>1, <2>1 DEF Inputs
<1>9. RxTyped'
  BY <1>1, <1>7, <1>8 DEF RxInv, RxTyped
<1>10. ReadOf(buf, read, Len(given), received)' /\ Answered(answers, received)' /\ SecondKept'
  BY <1>1, <1>8 DEF RxInv, SecondKept
<1> QED
  BY <1>6, <1>9, <1>10 DEF RxInv

LEMMA RxOfferBuffer ==
  ASSUME RxInv, OfferBuffer
  PROVE  RxInv'
<1>1. UNCHANGED <<pcb, received>> /\ input' = NoInput /\ input.at = "buffer" /\ input.left = <<>>
  BY DEF OfferBuffer, RxStep, RxInv, RxTyped
<1>2. /\ <<>> \in Bytes /\ input' \in Inputs /\ input'.left = <<>> /\ input'.at = "none"
      /\ input' = [at |-> input'.at, left |-> input'.left] /\ SecondKept' /\ Len(<<>>) = 0
  <2>1. <<>> \in Bytes /\ Len(<<>>) = 0
    BY EmptySeq DEF Bytes
  <2>2. input'.left = <<>> /\ input'.at = "none" /\ input' = [at |-> input'.at, left |-> input'.left]
    BY <1>1 DEF NoInput
  <2> QED
    BY <1>1, <2>1, <2>2 DEF Inputs, NoInput, SecondKept
<1>3. CASE Reads /\ Read
  <2>1. buf.mode \in Reading
    BY <1>3 DEF Reads
  <2>2. FromData = 0
    <3>1. rx \in Bytes /\ input.left \in Bytes /\ buf \in Buffers
      BY RxHas DEF RxInv, RxTyped
    <3>2. FromData \in 0..Len(input.left)
      BY <2>1, <3>1, TakenAre
    <3> QED
      BY <1>1, <1>2, <3>2
  <2>3. SubSeq(<<>>, 0 + 1, Len(<<>>)) = <<>>
    OBVIOUS
  <2> QED
    BY <1>1, <1>2, <1>3, <2>1, <2>2, <2>3, RxRead
<1>4. ASSUME CallsUser, NEW r \in 0..Len(rx), GiveBuffer(r, FALSE)
      PROVE  RxInv'
  <2>1. buf.mode = "FREE" /\ FALSE \in BOOLEAN /\ input'.left = input.left
    BY <1>1, <1>2, <1>4 DEF CallsUser
  <2> QED
    BY <1>1, <1>2, <1>4, <2>1, RxGiveBuffer
<1>5. CASE UNCHANGED <<buf, rx, given, read, answers>>
  <2>1. RxTyped' /\ InOrder(given, rx, input.left, Len(received))'
    BY <1>1, <1>2, <1>5 DEF RxInv, RxTyped, InOrder
  <2>2. ReadOf(buf, read, Len(given), received)' /\ Answered(answers, received)'
    BY <1>1, <1>5 DEF RxInv
  <2> QED
    BY <1>2, <2>1, <2>2 DEF RxInv
<1> QED
  BY <1>3, <1>4, <1>5 DEF OfferBuffer

LEMMA SegmentsAre ==
  ASSUME NEW segment \in SeqOf(Kinds, 2)
  PROVE  segment \in Seq(Kinds)
<1>1. PICK n \in 0..2 : segment \in [1..n -> Kinds]
  BY DEF SeqOf
<1>2. n \in Nat
  OBVIOUS
<1> QED
  BY <1>1, <1>2, SeqDef

LEMMA RxNext ==
  ASSUME RxInv, [Next]_vars
  PROVE  RxInv'
<1>0. buf \in Buffers /\ pcb \in {"none", "opening", "open", "ended"}
  BY DEF RxInv, RxTyped
<1>1. CASE UNCHANGED vars
  BY <1>0, <1>1, RxSame DEF vars
<1>2. CASE User
  <2>1. CASE Connect
    BY <1>0, <2>1, RxSame DEF Connect
  <2>2. CASE Ask
    BY <2>2, RxAsk
  <2>3. CASE Flush
    BY <1>0, <2>3, RxSame DEF Flush
  <2>4. ASSUME NEW n \in 1..MaxBytes, Write(n) PROVE RxInv'
    BY <1>0, <2>4, RxSame DEF Write
  <2> QED
    BY <1>2, <2>1, <2>2, <2>3, <2>4 DEF User
<1>3. CASE Lwip
  <2>1. CASE Connected
    <3>1. buf' \in Buffers /\ buf'.mode = buf.mode /\ buf'.size = buf.size
      BY <1>0, <2>1 DEF Connected, Buffers
    <3> QED
      BY <2>1, <3>1, RxSame DEF Connected
  <2>2. CASE Discarded
    <3>1. buf' \in Buffers /\ buf'.mode = buf.mode /\ buf'.size = buf.size
      BY <1>0, <2>2 DEF Discarded, Buffers
    <3> QED
      BY <2>2, <3>1, RxSame DEF Discarded
  <2>3. CASE PollTimeout
    BY <1>0, <2>3, RxSame DEF PollTimeout
  <2>4. CASE Poll
    BY <1>0, <2>4, RxSame DEF Poll
  <2>5. ASSUME NEW n \in 1..SendRoom, Ack(n) PROVE RxInv'
    BY <1>0, <2>5, RxSame DEF Ack
  <2>6. ASSUME NEW segment \in SeqOf(Kinds, 2), Receive(segment) PROVE RxInv'
    BY <2>6, SegmentsAre, RxReceive
  <2> QED
    BY <1>3, <2>1, <2>2, <2>3, <2>4, <2>5, <2>6 DEF Lwip, Ended, PollCloses
<1>4. CASE Library
  <2>1. CASE Fill
    BY <1>0, <2>1, RxSame DEF Fill
  <2>2. CASE Grow
    BY <1>0, <2>2, RxSame DEF Grow
  <2>3. CASE FlushRound
    BY <1>0, <2>3, RxSame DEF FlushRound
  <2>4. CASE SendSome
    BY <1>0, <2>4, RxSame DEF SendSome
  <2>5. CASE SendEnds
    BY <1>0, <2>5, RxSame DEF SendEnds
  <2>6. CASE OfferFirst
    BY <2>6, RxOfferFirst
  <2>7. CASE OfferSecond
    BY <2>7, RxOfferSecond
  <2>8. CASE Store
    BY <2>8, RxStore
  <2>9. CASE OfferBuffer
    BY <2>9, RxOfferBuffer
  <2> QED
    BY <1>4, <2>1, <2>2, <2>3, <2>4, <2>5, <2>6, <2>7, <2>8, <2>9 DEF Library
<1> QED
  BY <1>1, <1>2, <1>3, <1>4 DEF Next

LEMMA RxAlways == Spec => []RxInv
<1>1. Init => RxInv
  BY RxInit
<1>2. RxInv /\ [Next]_vars => RxInv'
  BY RxNext
<1> QED
  BY <1>1, <1>2, PTL DEF Spec

LEMMA ReadsFollow ==
  ASSUME RxInv
  PROVE  ReadsKept
<1>1. PICK i, j, k \in Nat : /\ Holds(given, 0, i) /\ Holds(rx, i, j) /\ Holds(input.left, i + j, k)
                             /\ i + j + k = Len(received)
  BY DEF RxInv, InOrder
<1>2. Holds(given \o rx, 0, i + j)
  <2>1. Holds(rx, 0 + i, j)
    BY <1>1
  <2> QED
    BY <1>1, <2>1, HoldsCat
<1>3. Holds((given \o rx) \o input.left, 0, (i + j) + k)
  <2>1. Holds(input.left, 0 + (i + j), k)
    BY <1>1
  <2> QED
    BY <1>2, <2>1, HoldsCat
<1>4. (given \o rx) \o input.left = Numbers(0, Len(received))
  BY <1>1, <1>3 DEF Holds
<1>5. Excused(read)
  BY DEF RxInv, ReadOf, Recorded
<1> DEFINE r == answers.read
<1>6. /\ r \in Records /\ Excused(r) /\ Holds(r.bytes, Start(r), Len(r.bytes))
      /\ answers.mode = "READ_BYTES" => Len(r.bytes) = r.asked
      /\ answers.mode = "TERMINATOR_STRING" =>
           \A p \in (Start(r) + 1)..End(r) : received[p] = "terminator" <=> p = End(r)
  BY DEF RxInv, Answered, Recorded
<1> HIDE DEF r
<1>7. Start(r) \in Nat /\ Len(r.bytes) \in Nat /\ End(r) = Start(r) + Len(r.bytes)
  BY <1>6 DEF Records, Start, End, Holds
<1>8. DOMAIN r.bytes = 1..Len(r.bytes) /\ \A x \in 1..Len(r.bytes) : r.bytes[x] = Start(r) + x
  <2>1. r.bytes \in Seq(Nat) /\ \A x \in 1..Len(r.bytes) : r.bytes[x] = Start(r) + x
    BY <1>6, <1>7, HoldsIs DEF Bytes
  <2> QED
    BY <2>1
<1>9. ASSUME answers.mode = "TERMINATOR_STRING", NEW x \in DOMAIN r.bytes
      PROVE  received[r.bytes[x]] = "terminator" <=> x = Len(r.bytes)
  <2>1. x \in 1..Len(r.bytes) /\ r.bytes[x] = Start(r) + x
    BY <1>8, <1>9
  <2>2. Start(r) + x \in (Start(r) + 1)..End(r) /\ (Start(r) + x = End(r) <=> x = Len(r.bytes))
    BY <1>7, <2>1
  <2> QED
    BY <1>6, <1>9, <2>1, <2>2
<1>10. r.bytes = Numbers(r.at + r.passed, Len(r.bytes)) /\ (r.passed > 0 => r.between)
  BY <1>6 DEF Holds, Start, Excused
<1>11. read.passed > 0 => read.between
  BY <1>5 DEF Excused
<1>12. answers.mode = "READ_BYTES" => Len(r.bytes) = r.asked
  BY <1>6
<1> QED
  BY <1>4, <1>9, <1>10, <1>11, <1>12 DEF ReadsKept, r

\* However segments are cut and reads are asked for, in callbacks too, each byte
\* that came is given to the user once and in order or waits in the buffer;
\* readBytes is answered with as many bytes as were asked for, readStringUntil
\* with those up to the first terminator: those that come next, unless onData
\* asks between its two calls and takes bytes in the second (lines 377-541).
THEOREM ReadsAreKept == Spec => []ReadsKept
<1>1. RxInv => ReadsKept
  BY ReadsFollow
<1> QED
  BY <1>1, RxAlways, PTL

\* Every variable has its type; lwIP's room and the cbufs are kept to, and what
\* tcp_output has not failed for is counted as unacknowledged exactly.
THEOREM BufferTypeCorrect == Spec => []TypeOK
<1>1. TxInv /\ RxInv => TypeOK
  <2> SUFFICES ASSUME TxInv, RxInv PROVE TypeOK
    OBVIOUS
  <2>1. pcb \in {"none", "opening", "open", "ended"} /\ input.at \in {"none", "first", "second", "rest", "buffer"}
    BY DEF RxInv, RxTyped, Inputs
  <2>2. buf.size \in 0..MaxRead /\ buf.mode \in Reading \cup {"NONE", "FREE"}
    BY DEF RxInv, RxTyped, Buffers, Modes
  <2>3. queued \in 0..SendRoom /\ client.unacked \in 0..(Word - 1) /\ failed \in 0..MaxFails
        /\ (failed = 0 => client.unacked = queued)
    BY DEF TxInv, WindowTyped, Clients
  <2>4. call.do \in {"none", "fill", "grow", "flush", "crashed"}
    BY DEF TxInv, Calls
  <2>5. chain # <<>> /\ \A i \in DOMAIN chain : Len(chain[i]) <= Capacity
    <3>1. chain \in Seq(Bytes) /\ chain # <<>> /\ \A i \in 1..Len(chain) : Len(chain[i]) <= Capacity
      BY DEF TxInv, ChainTyped, Fits
    <3>2. DOMAIN chain = 1..Len(chain)
      BY <3>1
    <3> QED
      BY <3>1, <3>2
  <2> QED
    BY <2>1, <2>2, <2>3, <2>4, <2>5 DEF TypeOK
<1> QED
  BY <1>1, TxAlways, RxAlways, PTL
=============================================================================
