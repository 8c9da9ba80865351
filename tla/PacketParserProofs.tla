-------------------------- MODULE PacketParserProofs --------------------------
(***************************************************************************)
(* Proofs about the parser of AsyncMqttClient, for every broker that keeps *)
(* to MQTT, every sequence of packets and every way to cut a connection    *)
(* into segments: types, that it never loses its place in the stream, what *)
(* it leaks, and that it implements PacketReader.                          *)
(***************************************************************************)
EXTENDS PacketParser, FlattenLemmas, FiniteSetTheorems

-----------------------------------------------------------------------------
(* Bytes of a packet.                                                       *)

LEMMA PlaceIs ==
  /\ Place[1] = 1 /\ Place[2] = 128 /\ Place[3] = 16384 /\ Place[4] = 2097152
  /\ Place[5] = 268435456
  BY SMT DEF Place

LEMMA DigitsAre ==
  ASSUME NEW n \in Nat, n < Place[5]
  PROVE  /\ Digits(n) \in 1..4 /\ n < Place[Digits(n) + 1]
         /\ \A k \in 1..4 : k < Digits(n) => n >= Place[k + 1]
<1> DEFINE S == {k \in 1..4 : n < Place[k + 1]}
<1>1. Place[1 + 1] \in Nat /\ Place[2 + 1] \in Nat /\ Place[3 + 1] \in Nat /\ Place[4 + 1] \in Nat
  BY PlaceIs, SMT
<1>2. PICK m \in S : \A k \in S : m <= k
  <2>1. CASE 1 \in S
    BY <2>1
  <2>2. CASE 1 \notin S /\ 2 \in S
    BY <2>2
  <2>3. CASE 1 \notin S /\ 2 \notin S /\ 3 \in S
    BY <2>3
  <2>4. CASE 1 \notin S /\ 2 \notin S /\ 3 \notin S
    <3>1. 4 \in S
      BY PlaceIs, SMT
    <3> QED
      BY <2>4, <3>1
  <2> QED
    BY <2>1, <2>2, <2>3, <2>4
<1>3. Digits(n) \in S /\ \A k \in S : Digits(n) <= k
  BY <1>2 DEF Digits, Min
<1>4. ASSUME NEW k \in 1..4, k < Digits(n) PROVE n >= Place[k + 1]
  <2>1. k \notin S
    BY <1>3, <1>4
  <2>2. ~(n < Place[k + 1]) /\ Place[k + 1] \in Nat
    BY <1>1, <2>1
  <2> QED
    BY <2>2
<1> QED
  BY <1>3, <1>4

\* The digits of n before the last are 128 and more, the last is less.
LEMMA LengthBytes ==
  ASSUME NEW n \in Nat, n < Place[5]
  PROVE  /\ RemainingLength(n) \in Seq(Nat) /\ Len(RemainingLength(n)) = Digits(n)
         /\ \A i \in 1..Digits(n) :
              /\ RemainingLength(n)[i] \in 0..255
              /\ RemainingLength(n)[i]
                   = ((n \div Place[i]) % 128) + (IF i < Digits(n) THEN 128 ELSE 0)
              /\ RemainingLength(n)[i] >= 128 <=> i < Digits(n)
<1>1. Digits(n) \in 1..4
  BY DigitsAre
<1> DEFINE r == RemainingLength(n)
<1>2. \A i \in 1..Digits(n) :
        r[i] = ((n \div Place[i]) % 128) + (IF i < Digits(n) THEN 128 ELSE 0)
  BY DEF RemainingLength
<1>3. ASSUME NEW i \in 1..Digits(n) PROVE (n \div Place[i]) % 128 \in 0..127
  <2>1. Place[i] \in Nat /\ Place[i] > 0
    BY <1>1, PlaceIs, SMT
  <2>2. n \div Place[i] \in Int
    BY <2>1, SMT
  <2>3. ASSUME NEW k \in Int PROVE k % 128 \in 0..127
    BY SMT
  <2> QED
    BY <2>2, <2>3, SMT
<1>4. ASSUME NEW i \in 1..Digits(n)
      PROVE  r[i] \in 0..255 /\ (r[i] >= 128 <=> i < Digits(n))
  <2>1. PICK q \in 0..127 : q = (n \div Place[i]) % 128
    BY <1>3
  <2>2. r[i] = q + (IF i < Digits(n) THEN 128 ELSE 0)
    BY <1>2, <2>1
  <2>3. q + 128 \in 0..255 /\ q + 128 >= 128 /\ q + 0 \in 0..255 /\ ~(q + 0 >= 128)
    OBVIOUS
  <2>4. CASE i < Digits(n)
    BY <2>2, <2>3, <2>4
  <2>5. CASE ~(i < Digits(n))
    BY <2>2, <2>3, <2>5
  <2> QED
    BY <2>4, <2>5
<1>5. r \in Seq(Nat) /\ Len(r) = Digits(n)
  <2>1. \A i \in 1..Digits(n) : r[i] \in Nat
    BY <1>4
  <2>2. r = [i \in 1..Digits(n) |-> r[i]]
    BY DEF RemainingLength
  <2> QED
    BY <1>1, <2>1, <2>2
<1> QED
  BY <1>2, <1>4, <1>5

LEMMA TwoBytesAre ==
  ASSUME NEW n \in Nat
  PROVE  /\ TwoBytes(n) \in Seq(Nat) /\ Len(TwoBytes(n)) = 2
         /\ TwoBytes(n)[1] = n \div 256 /\ TwoBytes(n)[2] = n % 256
         /\ n \div 256 \in Nat /\ n % 256 \in Nat /\ (n % 256) + 256 * (n \div 256) = n
<1>1. n \div 256 \in Nat /\ n % 256 \in Nat /\ (n % 256) + 256 * (n \div 256) = n
  BY SMT
<1> QED
  BY <1>1, SMT DEF TwoBytes

LEMMA BytesAre ==
  ASSUME NEW n \in Nat
  PROVE  Bytes(n) \in Seq(Nat) /\ Len(Bytes(n)) = n /\ \A i \in 1..n : Bytes(n)[i] = 84
  BY DEF Bytes

HeaderSize(p) == p.topic + (IF p.qos = 0 THEN 2 ELSE 4)
Ids == {"PUBACK", "PUBREC", "PUBREL", "PUBCOMP", "UNSUBACK"}
Types == {"CONNACK", "PINGRESP", "SUBACK", "PUBLISH"} \cup Ids

LEMMA TypesAre == DOMAIN TypeCode = Types
  BY DEF TypeCode, Types, Ids

LEMMA PacketIs ==
  ASSUME NEW p \in Packets
  PROVE  /\ p.type \in Types /\ p.id \in Nat /\ p.code \in Nat /\ p.qos \in 0..2
         /\ p.topic \in Nat /\ p.payload \in Nat
  BY TypesAre DEF Packets

LEMMA CatBytes ==
  ASSUME NEW s \in Seq(Nat), NEW t \in Seq(Nat)
  PROVE  /\ s \o t \in Seq(Nat) /\ Len(s \o t) = Len(s) + Len(t)
         /\ \A i \in 1..Len(s) : (s \o t)[i] = s[i]
         /\ \A i \in 1..Len(t) : (s \o t)[Len(s) + i] = t[i]
<1>1. Cat(s, t) \in Seq(Nat) /\ Follows(Cat(s, t), s, t)
  BY CatIndexed
<1> QED
  BY <1>1 DEF Cat, Follows

\* Four parts, of which all but the third have known lengths.
Parted(s, a, c, t, m) ==
  /\ Len(s) = t + 2 + Len(c) + m /\ s[1] = a[1] /\ s[2] = a[2]
  /\ Len(c) = 2 => s[t + 3] = c[1] /\ s[t + 4] = c[2]

LEMMA FourParts ==
  ASSUME NEW a \in Seq(Nat), NEW b \in Seq(Nat), NEW c \in Seq(Nat), NEW d \in Seq(Nat),
         NEW t \in Nat, NEW m \in Nat, Len(a) = 2, Len(b) = t, Len(d) = m
  PROVE  a \o b \o c \o d \in Seq(Nat) /\ Parted(a \o b \o c \o d, a, c, t, m)
<1>1. PICK ab \in Seq(Nat) : ab = a \o b /\ Follows(ab, a, b)
  BY CatIndexed DEF Cat
<1>2. PICK abc \in Seq(Nat) : abc = ab \o c /\ Follows(abc, ab, c)
  BY CatIndexed DEF Cat
<1>3. PICK all \in Seq(Nat) : all = abc \o d /\ Follows(all, abc, d)
  BY CatIndexed DEF Cat
<1>4. all[1] = a[1] /\ all[2] = a[2]
  <2>1. /\ 1 \in 1..Len(a) /\ 2 \in 1..Len(a) /\ 1 \in 1..Len(ab) /\ 2 \in 1..Len(ab)
        /\ 1 \in 1..Len(abc) /\ 2 \in 1..Len(abc)
    BY <1>1, <1>2 DEF Follows
  <2> QED
    BY <1>1, <1>2, <1>3, <2>1 DEF Follows
<1>5. ASSUME Len(c) = 2 PROVE all[t + 3] = c[1] /\ all[t + 4] = c[2]
  <2>1. /\ 1 \in 1..Len(c) /\ 2 \in 1..Len(c) /\ Len(ab) + 1 = t + 3 /\ Len(ab) + 2 = t + 4
        /\ t + 3 \in 1..Len(abc) /\ t + 4 \in 1..Len(abc)
    BY <1>1, <1>2, <1>5 DEF Follows
  <2> QED
    BY <1>2, <1>3, <2>1 DEF Follows
<1>6. Len(all) = t + 2 + Len(c) + m
  BY <1>1, <1>2, <1>3 DEF Follows
<1>7. all = a \o b \o c \o d
  BY <1>1, <1>2, <1>3
<1>8. Parted(all, a, c, t, m)
  BY <1>4, <1>5, <1>6 DEF Parted
<1> QED
  BY <1>7, <1>8

LEMMA BodyOfMessage ==
  ASSUME NEW p \in Packets, p.type = "PUBLISH"
  PROVE  /\ Body(p) \in Seq(Nat) /\ Len(Body(p)) = HeaderSize(p) + p.payload
         /\ Body(p)[1] = p.topic \div 256 /\ Body(p)[2] = p.topic % 256
         /\ p.qos # 0 => /\ Body(p)[p.topic + 3] = p.id \div 256
                         /\ Body(p)[p.topic + 4] = p.id % 256
<1> DEFINE idBytes == IF p.qos = 0 THEN <<>> ELSE TwoBytes(p.id)
<1>1. Body(p) = TwoBytes(p.topic) \o Bytes(p.topic) \o idBytes \o Bytes(p.payload)
  BY DEF Body
<1>2. PICK t \in Nat, m \in Nat, id \in Nat : t = p.topic /\ m = p.payload /\ id = p.id
  BY PacketIs
<1>3. PICK a \in Seq(Nat) : /\ a = TwoBytes(t) /\ Len(a) = 2
                            /\ a[1] = t \div 256 /\ a[2] = t % 256
  <2>1. /\ TwoBytes(t) \in Seq(Nat) /\ Len(TwoBytes(t)) = 2
        /\ TwoBytes(t)[1] = t \div 256 /\ TwoBytes(t)[2] = t % 256
    BY TwoBytesAre
  <2> QED
    BY <2>1
<1>4. PICK b \in Seq(Nat) : b = Bytes(t) /\ Len(b) = t
  BY BytesAre
<1>5. PICK d \in Seq(Nat) : d = Bytes(m) /\ Len(d) = m
  BY BytesAre
<1>6. PICK c \in Seq(Nat) : /\ c = idBytes /\ Len(c) = IF p.qos = 0 THEN 0 ELSE 2
                            /\ p.qos # 0 => c[1] = id \div 256 /\ c[2] = id % 256
  <2>1. CASE p.qos = 0
    <3>1. <<>> \in Seq(Nat) /\ Len(<<>>) = 0 /\ idBytes = <<>>
      BY <2>1
    <3> QED
      BY <2>1, <3>1
  <2>2. CASE p.qos # 0
    <3>1. /\ TwoBytes(id) \in Seq(Nat) /\ Len(TwoBytes(id)) = 2
          /\ TwoBytes(id)[1] = id \div 256 /\ TwoBytes(id)[2] = id % 256
      BY TwoBytesAre
    <3>2. idBytes = TwoBytes(id)
      BY <1>2, <2>2
    <3> QED
      BY <2>2, <3>1, <3>2
  <2> QED
    BY <2>1, <2>2
<1> HIDE DEF idBytes
<1>7. PICK s \in Seq(Nat) : s = a \o b \o c \o d /\ Parted(s, a, c, t, m)
  BY <1>3, <1>4, <1>5, FourParts
<1>8. Body(p) = s
  BY <1>1, <1>2, <1>3, <1>4, <1>5, <1>6, <1>7
<1>9. HeaderSize(p) = t + 2 + Len(c)
  BY <1>2, <1>6 DEF HeaderSize
<1>10. p.qos # 0 => s[t + 3] = id \div 256 /\ s[t + 4] = id % 256
  BY <1>6, <1>7 DEF Parted
<1>11. Len(s) = HeaderSize(p) + m /\ s[1] = t \div 256 /\ s[2] = t % 256
  BY <1>3, <1>7, <1>9 DEF Parted
<1> QED
  BY <1>2, <1>8, <1>10, <1>11

LEMMA BodyOfOthers ==
  ASSUME NEW p \in Packets, p.type # "PUBLISH"
  PROVE  /\ Body(p) \in Seq(Nat)
         /\ p.type = "CONNACK" => Len(Body(p)) = 2 /\ Body(p)[2] = p.code
         /\ p.type = "PINGRESP" => Len(Body(p)) = 0
         /\ p.type \in Ids \cup {"SUBACK"} =>
              Body(p)[1] = p.id \div 256 /\ Body(p)[2] = p.id % 256
         /\ p.type \in Ids => Len(Body(p)) = 2
         /\ p.type = "SUBACK" => Len(Body(p)) = 3 /\ Body(p)[3] = p.code
<1>1. p.id \in Nat /\ p.code \in Nat /\ p.type \in Types
  BY PacketIs
<1>2. PICK a \in Seq(Nat) : /\ a = TwoBytes(p.id) /\ Len(a) = 2
                            /\ a[1] = p.id \div 256 /\ a[2] = p.id % 256
  <2>1. /\ TwoBytes(p.id) \in Seq(Nat) /\ Len(TwoBytes(p.id)) = 2
        /\ TwoBytes(p.id)[1] = p.id \div 256 /\ TwoBytes(p.id)[2] = p.id % 256
    BY <1>1, TwoBytesAre
  <2> QED
    BY <2>1
<1>3. CASE p.type = "CONNACK"
  <2>1. Body(p) = <<0, p.code>>
    BY <1>3 DEF Body
  <2> QED
    BY <1>1, <1>3, <2>1 DEF Ids
<1>4. CASE p.type = "PINGRESP"
  <2>1. Body(p) = <<>>
    BY <1>4 DEF Body
  <2> QED
    BY <1>4, <2>1 DEF Ids
<1>5. CASE p.type = "SUBACK"
  <2>1. Body(p) = Append(a, p.code)
    BY <1>2, <1>5 DEF Body
  <2>2. /\ Append(a, p.code) \in Seq(Nat) /\ Len(Append(a, p.code)) = 3
        /\ Append(a, p.code)[1] = a[1] /\ Append(a, p.code)[2] = a[2]
        /\ Append(a, p.code)[3] = p.code
    <3>1. p.code \in Nat
      BY <1>1
    <3> QED
      BY <1>2, <3>1
  <2> QED
    BY <1>2, <1>5, <2>1, <2>2 DEF Ids
<1>6. CASE p.type \in Ids
  <2>1. Body(p) = a
    BY <1>2, <1>6 DEF Body, Ids
  <2> QED
    BY <1>2, <1>6, <2>1 DEF Ids
<1> QED
  BY <1>1, <1>3, <1>4, <1>5, <1>6 DEF Types

-----------------------------------------------------------------------------
(* Bytes of a connection.                                                   *)

LEMMA ConnectionIs ==
  ASSUME NEW c \in Connections
  PROVE  /\ c \in Seq(Packets) /\ Len(c) \in Nat
         /\ \A i \in 1..Len(c) :
              c[i] \in Packets /\ Allowed(c[i]) /\ (c[i].type = "CONNACK" <=> i = 1)
<1>1. c \in Seq(Packets) /\ \A i \in DOMAIN c : Allowed(c[i]) /\ (c[i].type = "CONNACK" <=> i = 1)
  BY BrokerAssumption
<1> QED
  BY <1>1

Size(p) == Len(Body(p))

LEMMA BodyIs ==
  ASSUME NEW p \in Packets
  PROVE  Body(p) \in Seq(Nat) /\ Size(p) \in Nat
<1>1. Body(p) \in Seq(Nat)
  BY BodyOfMessage, BodyOfOthers
<1> QED
  BY <1>1 DEF Size

Chunk(p) == Header(p) \o Body(p)
Code(p) == 16 * TypeCode[p.type] + 2 * p.qos

\* The first byte, the d bytes of the remaining length, the n bytes of the body.
Layout(s, p, d, n) ==
  /\ Len(s) = 1 + d + n /\ s[1] = Code(p)
  /\ \A k \in 1..d : s[1 + k] = RemainingLength(n)[k]
  /\ \A k \in 1..n : s[1 + d + k] = Body(p)[k]

LEMMA CodeIs ==
  ASSUME NEW p \in Packets
  PROVE  /\ Code(p) \in Nat /\ TypeCode[p.type] \in 1..13
         /\ Code(p) \div 16 = TypeCode[p.type] /\ Code(p) % 16 = 2 * p.qos
<1>1. p.type \in Types /\ p.qos \in 0..2
  BY PacketIs
<1>2. TypeCode[p.type] \in 1..13
  BY <1>1 DEF TypeCode, Types, Ids
<1>3. ASSUME NEW t \in 1..13, NEW q \in 0..2
      PROVE  (16 * t + 2 * q) \div 16 = t /\ (16 * t + 2 * q) % 16 = 2 * q /\ 16 * t + 2 * q \in Nat
  OBVIOUS
<1> QED
  BY <1>1, <1>2, <1>3 DEF Code

LEMMA ChunkIs ==
  ASSUME NEW p \in Packets, Allowed(p)
  PROVE  /\ Digits(Size(p)) \in 1..4 /\ Chunk(p) \in Seq(Nat)
         /\ Layout(Chunk(p), p, Digits(Size(p)), Size(p))
<1> DEFINE n == Size(p)
<1> DEFINE d == Digits(n)
<1>1. n \in Nat /\ n < Place[5] /\ Body(p) \in Seq(Nat)
  BY BodyIs DEF Allowed, Size
<1> HIDE DEF n
<1>2. d \in 1..4
  BY <1>1, DigitsAre
<1>3. RemainingLength(n) \in Seq(Nat) /\ Len(RemainingLength(n)) = d
  BY <1>1, LengthBytes
<1> HIDE DEF d
<1>4. PICK r \in Seq(Nat) : r = RemainingLength(n) /\ Len(r) = d
  BY <1>3
<1>5. PICK b \in Seq(Nat) : b = Body(p) /\ Len(b) = n
  BY <1>1 DEF n, Size
<1>6. PICK a \in Seq(Nat) : a = <<Code(p)>> /\ Len(a) = 1 /\ a[1] = Code(p)
  <2>1. <<Code(p)>> \in Seq(Nat) /\ Len(<<Code(p)>>) = 1 /\ <<Code(p)>>[1] = Code(p)
    BY CodeIs
  <2> QED
    BY <2>1
<1>7. PICK h \in Seq(Nat) : h = Cat(a, r) /\ Follows(h, a, r)
  BY CatIndexed
<1>8. PICK s \in Seq(Nat) : s = Cat(h, b) /\ Follows(s, h, b)
  BY CatIndexed
<1>9. Chunk(p) = s
  BY <1>4, <1>5, <1>6, <1>7, <1>8 DEF Chunk, Header, Code, n, Size, Cat
<1>10. Len(h) = 1 + d /\ Len(s) = 1 + d + n
  BY <1>2, <1>4, <1>5, <1>6, <1>7, <1>8 DEF Follows
<1>11. s[1] = Code(p)
  <2>1. 1 \in 1..Len(a) /\ 1 \in 1..Len(h)
    BY <1>2, <1>6, <1>10
  <2> QED
    BY <1>6, <1>7, <1>8, <2>1 DEF Follows
<1>12. ASSUME NEW k \in 1..d PROVE s[1 + k] = RemainingLength(n)[k]
  <2>1. k \in 1..Len(r) /\ 1 + k \in 1..Len(h)
    BY <1>2, <1>4, <1>10
  <2> QED
    BY <1>4, <1>6, <1>7, <1>8, <2>1 DEF Follows
<1>13. ASSUME NEW k \in 1..n PROVE s[1 + d + k] = Body(p)[k]
  BY <1>5, <1>8, <1>10 DEF Follows
<1>14. Layout(s, p, d, n)
  BY <1>10, <1>11, <1>12, <1>13 DEF Layout
<1> QED
  BY <1>2, <1>9, <1>14 DEF n, d

Chunks(c) == [i \in 1..Len(c) |-> Chunk(c[i])]

LEMMA ChunksAre ==
  ASSUME NEW c \in Connections
  PROVE  /\ Chunks(c) \in [1..Len(c) -> Seq(Nat)]
         /\ \A n \in 0..Len(c) : First(c, n) = Prefix(Chunks(c), n) /\ First(c, n) \in Seq(Nat)
<1>1. c \in Seq(Packets) /\ Len(c) \in Nat /\ \A i \in 1..Len(c) : c[i] \in Packets /\ Allowed(c[i])
  BY ConnectionIs
<1>2. \A i \in 1..Len(c) : Chunk(c[i]) \in Seq(Nat)
  BY <1>1, ChunkIs
<1>3. Chunks(c) \in [1..Len(c) -> Seq(Nat)]
  BY <1>2 DEF Chunks
<1>4. ASSUME NEW n \in 0..Len(c) PROVE First(c, n) = Prefix(Chunks(c), n) /\ First(c, n) \in Seq(Nat)
  <2>1. \A i \in 1..n : Chunks(c)[i] = Header(c[i]) \o Body(c[i])
    <3>1. \A i \in 1..n : i \in 1..Len(c)
      OBVIOUS
    <3> QED
      BY <3>1 DEF Chunks, Chunk
  <2>2. [i \in 1..n |-> Chunks(c)[i]] = [i \in 1..n |-> Header(c[i]) \o Body(c[i])]
    BY <2>1
  <2>3. First(c, n) = Prefix(Chunks(c), n)
    BY <2>2 DEF First, Prefix
  <2>4. Prefix(Chunks(c), n) \in Seq(Nat)
    BY <1>1, <1>3, PrefixType
  <2> QED
    BY <2>3, <2>4
<1> QED
  BY <1>3, <1>4

LEMMA EndsAre ==
  ASSUME NEW c \in Connections
  PROVE  /\ DOMAIN Ends[c] = 1..(Len(c) + 1)
         /\ \A i \in 1..(Len(c) + 1) : Ends[c][i] \in Nat /\ Ends[c][i] = Len(First(c, i - 1))
         /\ Ends[c][1] = 0 /\ Ends[c][Len(c) + 1] = Len(Wire[c]) /\ Len(Wire[c]) \in Nat
<1>1. Len(c) \in Nat
  BY ConnectionIs
<1>2. Ends[c] = [i \in 1..(Len(c) + 1) |-> Len(First(c, i - 1))] /\ Wire[c] = First(c, Len(c))
  BY DEF Ends, Wire
<1>3. ASSUME NEW i \in 1..(Len(c) + 1) PROVE Ends[c][i] \in Nat /\ Ends[c][i] = Len(First(c, i - 1))
  <2>1. First(c, i - 1) \in Seq(Nat)
    <3>1. i - 1 \in 0..Len(c)
      BY <1>1
    <3> QED
      BY <3>1, ChunksAre
  <2>2. Len(First(c, i - 1)) \in Nat
    BY <2>1
  <2> QED
    BY <1>2, <2>2
<1>4. Ends[c][1] = 0
  <2>1. First(c, 0) = Prefix(Chunks(c), 0)
    BY <1>1, ChunksAre
  <2>2. First(c, 0) = <<>>
    BY <2>1, PrefixNone
  <2>3. 1 \in 1..(Len(c) + 1) /\ 1 - 1 = 0
    BY <1>1
  <2> QED
    BY <1>3, <2>2, <2>3
<1>5. Ends[c][Len(c) + 1] = Len(Wire[c]) /\ Len(Wire[c]) \in Nat
  <2>1. Len(c) + 1 \in 1..(Len(c) + 1) /\ (Len(c) + 1) - 1 = Len(c)
    BY <1>1
  <2> QED
    BY <1>2, <1>3, <2>1
<1> QED
  BY <1>2, <1>3, <1>4, <1>5

\* Packet i in the bytes of c.
Within(c, i) ==
  LET e == Ends[c][i]  d == Digits(Size(c[i]))  n == Size(c[i]) IN
  /\ Ends[c][i + 1] = e + 1 + d + n
  /\ \A j \in (i + 1)..(Len(c) + 1) : Ends[c][i + 1] <= Ends[c][j]
  /\ Wire[c][e + 1] = Code(c[i])
  /\ \A k \in 1..d : Wire[c][e + 1 + k] = RemainingLength(n)[k]
  /\ \A k \in 1..n : Wire[c][e + 1 + d + k] = Body(c[i])[k]

LEMMA WireIs ==
  ASSUME NEW c \in Connections, NEW i \in 1..Len(c)
  PROVE  Within(c, i)
<1> DEFINE p == c[i]
<1> DEFINE e == Ends[c][i]
<1> DEFINE n == Size(p)
<1> DEFINE d == Digits(n)
<1> DEFINE N == Len(c)
<1>1. N \in Nat /\ i \in 1..N /\ i \in Nat /\ p \in Packets /\ Allowed(p)
  BY ConnectionIs
<1> DEFINE f == Chunks(c)
<1>2. f \in [1..N -> Seq(Nat)] /\ f[i] = Chunk(p)
  BY ChunksAre DEF Chunks
<1>3. d \in 1..4 /\ n \in Nat /\ Chunk(p) \in Seq(Nat) /\ Layout(Chunk(p), p, d, n)
  BY <1>1, ChunkIs, BodyIs
<1>4. /\ e = Len(Prefix(f, i - 1)) /\ Ends[c][i + 1] = Len(Prefix(f, i)) /\ e \in Nat
      /\ \A j \in (i + 1)..(N + 1) : Ends[c][j] = Len(Prefix(f, j - 1))
  <2>1. ASSUME NEW j \in i..(N + 1) PROVE Ends[c][j] = Len(Prefix(f, j - 1)) /\ Ends[c][j] \in Nat
    <3>1. j \in 1..(N + 1) /\ j - 1 \in 0..N
      BY <1>1
    <3>2. Ends[c][j] = Len(First(c, j - 1)) /\ First(c, j - 1) = Prefix(f, j - 1) /\ Ends[c][j] \in Nat
      BY <3>1, ChunksAre, EndsAre
    <3> QED
      BY <3>2
  <2>2. i \in i..(N + 1) /\ i + 1 \in i..(N + 1) /\ (i + 1) - 1 = i
        /\ \A j \in (i + 1)..(N + 1) : j \in i..(N + 1)
    BY <1>1
  <2> QED
    BY <2>1, <2>2
<1>5. Wire[c] = Prefix(f, N)
  <2>1. N \in 0..N /\ Wire[c] = First(c, N)
    BY <1>1 DEF Wire
  <2> QED
    BY <2>1, ChunksAre
<1> HIDE DEF e, n, d, N, f, p
<1>6. ASSUME NEW m \in i..N
      PROVE  Lies(f, i, m)
  BY <1>1, <1>2, PrefixPart
<1>7. /\ Ends[c][i + 1] = e + (1 + d + n) /\ Len(f[i]) = 1 + d + n
      /\ \A k \in 1..(1 + d + n) : Wire[c][e + k] = Chunk(p)[k]
  <2>1. N \in i..N /\ Len(Chunk(p)) = 1 + d + n
    BY <1>1, <1>3 DEF Layout
  <2>2. \A k \in 1..Len(f[i]) : Prefix(f, N)[Len(Prefix(f, i - 1)) + k] = f[i][k]
    BY <1>6, <2>1 DEF Lies
  <2>3. Ends[c][i + 1] = e + Len(f[i])
    BY <1>4, <1>6, <2>1 DEF Lies
  <2> QED
    BY <1>2, <1>4, <1>5, <2>1, <2>2, <2>3
<1>8. ASSUME NEW j \in (i + 1)..(N + 1) PROVE Ends[c][i + 1] <= Ends[c][j]
  <2>1. j - 1 \in i..N
    BY <1>1
  <2> QED
    BY <1>4, <1>6, <2>1 DEF Lies
<1>9. Wire[c][e + 1] = Code(p)
  <2>1. 1 \in 1..(1 + d + n)
    BY <1>3
  <2> QED
    BY <1>3, <1>7, <2>1 DEF Layout
<1>10. ASSUME NEW k \in 1..d PROVE Wire[c][e + 1 + k] = RemainingLength(n)[k]
  <2>1. 1 + k \in 1..(1 + d + n) /\ e + (1 + k) = e + 1 + k
    BY <1>3, <1>4
  <2>2. Chunk(p)[1 + k] = RemainingLength(n)[k]
    BY <1>3 DEF Layout
  <2>3. Wire[c][e + (1 + k)] = Chunk(p)[1 + k]
    BY <1>7, <2>1
  <2> QED
    BY <2>1, <2>2, <2>3
<1>11. ASSUME NEW k \in 1..n PROVE Wire[c][e + 1 + d + k] = Body(p)[k]
  <2>1. 1 + d + k \in 1..(1 + d + n) /\ e + (1 + d + k) = e + 1 + d + k
    BY <1>3, <1>4
  <2>2. Chunk(p)[1 + d + k] = Body(p)[k]
    BY <1>3 DEF Layout
  <2>3. Wire[c][e + (1 + d + k)] = Chunk(p)[1 + d + k]
    BY <1>7, <2>1
  <2> QED
    BY <2>1, <2>2, <2>3
<1>12. Ends[c][i + 1] = e + 1 + d + n
  BY <1>3, <1>4, <1>7
<1> QED
  BY <1>8, <1>9, <1>10, <1>11, <1>12 DEF Within, e, d, n, N, p

\* A packet has two bytes or more, so that packets end one behind the other.
LEMMA EndsGrow ==
  ASSUME NEW c \in Connections, NEW i \in 1..(Len(c) + 1), NEW j \in 1..(Len(c) + 1), i < j
  PROVE  Ends[c][i] < Ends[c][j]
<1>1. Len(c) \in Nat /\ i \in 1..Len(c) /\ j \in (i + 1)..(Len(c) + 1) /\ i + 1 \in 1..(Len(c) + 1)
  BY ConnectionIs
<1>2. Ends[c][i] \in Nat /\ Ends[c][j] \in Nat /\ Ends[c][i + 1] \in Nat
  BY <1>1, EndsAre
<1>3. Digits(Size(c[i])) \in 1..4 /\ Size(c[i]) \in Nat
  BY <1>1, ConnectionIs, ChunkIs, BodyIs
<1>4. /\ Ends[c][i + 1] = Ends[c][i] + 1 + Digits(Size(c[i])) + Size(c[i])
      /\ Ends[c][i + 1] <= Ends[c][j]
  BY <1>1, WireIs DEF Within
<1>5. Ends[c][i] < Ends[c][i + 1]
  <2>1. PICK d \in 1..4, n \in Nat : d = Digits(Size(c[i])) /\ n = Size(c[i])
    BY <1>3
  <2>2. Ends[c][i + 1] = Ends[c][i] + 1 + d + n
    BY <1>4, <2>1
  <2> QED
    BY <1>2, <2>2
<1>6. Ends[c][i + 1] <= Ends[c][j]
  BY <1>4
<1> QED
  BY <1>2, <1>5, <1>6

-----------------------------------------------------------------------------
(* The remaining length.                                                    *)

Digit(x, rest) == (x % 128) + (IF x >= 128 THEN 128 * rest ELSE 0)

LEMMA DecodedIs ==
  ASSUME NEW b
  PROVE  Decoded(b) = Digit(b[0], Digit(b[1], Digit(b[2], Digit(b[3], 0))))
<1> DEFINE R(f) == f = [i \in 0..4 |-> IF i > 3 THEN 0
                                       ELSE (b[i] % 128) + (IF b[i] >= 128 THEN 128 * f[i + 1] ELSE 0)]
<1> DEFINE d3 == Digit(b[3], 0)
<1> DEFINE d2 == Digit(b[2], d3)
<1> DEFINE d1 == Digit(b[1], d2)
<1> DEFINE d0 == Digit(b[0], d1)
<1> DEFINE g == [i \in 0..4 |-> IF i = 0 THEN d0 ELSE IF i = 1 THEN d1 ELSE IF i = 2 THEN d2
                                ELSE IF i = 3 THEN d3 ELSE 0]
<1>1. R(g)
  <2>1. g[0] = d0 /\ g[1] = d1 /\ g[2] = d2 /\ g[3] = d3 /\ g[4] = 0
    OBVIOUS
  <2>2. ASSUME NEW i \in 0..4
        PROVE  g[i] = IF i > 3 THEN 0
                      ELSE (b[i] % 128) + (IF b[i] >= 128 THEN 128 * g[i + 1] ELSE 0)
    <3> HIDE DEF g
    <3>1. CASE i = 0
      BY <2>1, <3>1 DEF d0, Digit
    <3>2. CASE i = 1
      BY <2>1, <3>2 DEF d1, Digit
    <3>3. CASE i = 2
      BY <2>1, <3>3 DEF d2, Digit
    <3>4. CASE i = 3
      BY <2>1, <3>4 DEF d3, Digit
    <3>5. CASE i = 4
      BY <2>1, <3>5
    <3> QED
      BY <3>1, <3>2, <3>3, <3>4, <3>5
  <2>3. g = [i \in 0..4 |-> g[i]]
    OBVIOUS
  <2> HIDE DEF g
  <2> QED
    BY <2>2, <2>3
<1> DEFINE f == CHOOSE f : R(f)
<1>2. R(f)
  <2> HIDE DEF R
  <2> QED
    BY <1>1
<1>3. Decoded(b) = f[0]
  BY DEF Decoded
<1> HIDE DEF f, g
<1>4. f[4] = 0 /\ f[3] = d3
  BY <1>2 DEF Digit
<1>5. f[2] = d2
  <2> HIDE DEF d3
  <2> QED
    BY <1>2, <1>4 DEF Digit
<1>6. f[1] = d1
  <2> HIDE DEF d2
  <2> QED
    BY <1>2, <1>5 DEF Digit
<1>7. f[0] = d0
  <2> HIDE DEF d1
  <2> QED
    BY <1>2, <1>6 DEF Digit
<1> QED
  BY <1>3, <1>7

\* One digit of q, with what the digits after it make.
LEMMA DigitLast ==
  ASSUME NEW q \in 0..127, NEW rest
  PROVE  Digit(q, rest) = q
  BY SMT DEF Digit

LEMMA DigitMore ==
  ASSUME NEW q \in Nat
  PROVE  Digit((q % 128) + 128, q \div 128) = q
<1>1. (q % 128) + 128 >= 128 /\ ((q % 128) + 128) % 128 = q % 128 /\ (q % 128) + 128 * (q \div 128) = q
  BY SMT
<1> QED
  BY <1>1, SMT DEF Digit

LEMMA Quotients ==
  ASSUME NEW n \in Nat
  PROVE  /\ n \div Place[1] = n
         /\ n \div Place[2] \in Nat /\ (n \div Place[1]) \div 128 = n \div Place[2]
         /\ n \div Place[3] \in Nat /\ (n \div Place[2]) \div 128 = n \div Place[3]
         /\ n \div Place[4] \in Nat /\ (n \div Place[3]) \div 128 = n \div Place[4]
         /\ n < Place[2] => n \div Place[1] \in 0..127
         /\ n < Place[3] => n \div Place[2] \in 0..127
         /\ n < Place[4] => n \div Place[3] \in 0..127
         /\ n < Place[5] => n \div Place[4] \in 0..127
<1>1. n \div 1 = n /\ n \div 128 \in Nat /\ n \div 16384 \in Nat /\ n \div 2097152 \in Nat
  BY SMT
<1>2. (n \div 128) \div 128 = n \div 16384
  BY SMT
<1>3. (n \div 16384) \div 128 = n \div 2097152
  BY SMT
<1>4. /\ n < 128 => n \in 0..127
      /\ n < 16384 => n \div 128 \in 0..127
      /\ n < 2097152 => n \div 16384 \in 0..127
      /\ n < 268435456 => n \div 2097152 \in 0..127
  BY SMT
<1> QED
  BY <1>1, <1>2, <1>3, <1>4, PlaceIs, SMT

\* decodeRemainingLength gives back what was encoded.
LEMMA RoundTrip ==
  ASSUME NEW n \in Nat, n < Place[5], NEW b,
         \A k \in 1..Digits(n) : b[k - 1] = RemainingLength(n)[k]
  PROVE  Decoded(b) = n
<1>1. /\ Digits(n) \in 1..4 /\ n < Place[Digits(n) + 1]
  BY DigitsAre
<1>2. \A k \in 1..Digits(n) :
        b[k - 1] = ((n \div Place[k]) % 128) + (IF k < Digits(n) THEN 128 ELSE 0)
  BY LengthBytes
<1> DEFINE d == Digits(n)
<1> DEFINE q2 == n \div Place[2]
<1> DEFINE q3 == n \div Place[3]
<1> DEFINE q4 == n \div Place[4]
<1>3. /\ n \div Place[1] = n /\ q2 \in Nat /\ q3 \in Nat /\ q4 \in Nat
      /\ n \div 128 = q2 /\ q2 \div 128 = q3 /\ q3 \div 128 = q4
      /\ n < Place[2] => n \in 0..127
      /\ n < Place[3] => q2 \in 0..127
      /\ n < Place[4] => q3 \in 0..127
      /\ n < Place[5] => q4 \in 0..127
  BY Quotients
<1>4. /\ 1 < d => b[0] = (n % 128) + 128
      /\ 2 < d => b[1] = (q2 % 128) + 128
      /\ 3 < d => b[2] = (q3 % 128) + 128
  <2>1. ASSUME 1 < d PROVE b[0] = (n % 128) + 128
    <3>1. 1 \in 1..d /\ 1 - 1 = 0
      BY <1>1
    <3> QED
      BY <1>2, <1>3, <2>1, <3>1
  <2>2. ASSUME 2 < d PROVE b[1] = (q2 % 128) + 128
    <3>1. 2 \in 1..d /\ 2 - 1 = 1
      BY <1>1, <2>2
    <3> QED
      BY <1>2, <2>2, <3>1
  <2>3. ASSUME 3 < d PROVE b[2] = (q3 % 128) + 128
    <3>1. 3 \in 1..d /\ 3 - 1 = 2
      BY <1>1, <2>3
    <3> QED
      BY <1>2, <2>3, <3>1
  <2> QED
    BY <2>1, <2>2, <2>3
<1>5. /\ d = 1 => b[0] = (n % 128) + 0
      /\ d = 2 => b[1] = (q2 % 128) + 0
      /\ d = 3 => b[2] = (q3 % 128) + 0
      /\ d = 4 => b[3] = (q4 % 128) + 0
  <2>1. d \in 1..d /\ ~(d < d)
    BY <1>1
  <2>2. b[d - 1] = ((n \div Place[d]) % 128) + 0
    BY <1>2, <2>1
  <2>3. 1 - 1 = 0 /\ 2 - 1 = 1 /\ 3 - 1 = 2 /\ 4 - 1 = 3
    OBVIOUS
  <2> HIDE DEF d
  <2> QED
    BY <1>3, <2>2, <2>3
<1>6. ASSUME NEW q \in 0..127 PROVE (q % 128) + 0 = q
  BY SMT
<1>7. Decoded(b) = Digit(b[0], Digit(b[1], Digit(b[2], Digit(b[3], 0))))
  BY DecodedIs
<1>8. d = 1 \/ d = 2 \/ d = 3 \/ d = 4
  BY <1>1
<1>9. n < Place[d + 1]
  BY <1>1
<1> HIDE DEF d, q2, q3, q4
<1>10. CASE d = 1
  <2>1. b[0] = n /\ n \in 0..127
    BY <1>3, <1>5, <1>6, <1>9, <1>10
  <2> QED
    BY <1>7, <2>1, DigitLast
<1>11. CASE d = 2
  <2>1. b[1] = q2 /\ q2 \in 0..127
    BY <1>3, <1>5, <1>6, <1>9, <1>11
  <2>2. Digit(b[1], Digit(b[2], Digit(b[3], 0))) = q2
    BY <2>1, DigitLast
  <2>3. b[0] = (n % 128) + 128
    BY <1>4, <1>11
  <2> QED
    BY <1>3, <1>7, <2>2, <2>3, DigitMore
<1>12. CASE d = 3
  <2>1. b[2] = q3 /\ q3 \in 0..127
    BY <1>3, <1>5, <1>6, <1>9, <1>12
  <2>2. Digit(b[2], Digit(b[3], 0)) = q3
    BY <2>1, DigitLast
  <2>3. b[0] = (n % 128) + 128 /\ b[1] = (q2 % 128) + 128
    BY <1>4, <1>12
  <2>4. Digit(b[1], q3) = q2
    BY <1>3, <2>3, DigitMore
  <2>5. Digit(b[0], q2) = n
    BY <1>3, <2>3, DigitMore
  <2> QED
    BY <1>7, <2>2, <2>4, <2>5
<1>13. CASE d = 4
  <2>1. b[3] = q4 /\ q4 \in 0..127
    BY <1>3, <1>5, <1>6, <1>9, <1>13
  <2>2. Digit(b[3], 0) = q4
    BY <2>1, DigitLast
  <2>3. b[0] = (n % 128) + 128 /\ b[1] = (q2 % 128) + 128 /\ b[2] = (q3 % 128) + 128
    BY <1>4, <1>13
  <2>4. Digit(b[2], q4) = q3
    BY <1>3, <2>3, DigitMore
  <2>5. Digit(b[1], q3) = q2
    BY <1>3, <2>3, DigitMore
  <2>6. Digit(b[0], q2) = n
    BY <1>3, <2>3, DigitMore
  <2> QED
    BY <1>7, <2>2, <2>4, <2>5, <2>6
<1> QED
  BY <1>8, <1>10, <1>11, <1>12, <1>13

\* A stale part of lengthBuffer, of a connection that was lost, is not taken for
\* the length 0 of a PINGRESP.
LEMMA DecodedPositive ==
  ASSUME NEW b \in [0..3 -> 0..255], NEW m \in 0..3, \A k \in 0..3 : k < m => b[k] >= 128,
         b[m] \in 1..127
  PROVE  Decoded(b) \in Nat /\ Decoded(b) > 0
<1>1. b[0] \in 0..255 /\ b[1] \in 0..255 /\ b[2] \in 0..255 /\ b[3] \in 0..255
  OBVIOUS
<1>2. ASSUME NEW x \in 0..255, NEW rest \in Nat
      PROVE  /\ Digit(x, rest) \in Nat /\ (x \in 1..127 => Digit(x, rest) > 0)
             /\ (x >= 128 /\ rest > 0 => Digit(x, rest) > 0)
  <2>1. x % 128 \in Nat /\ (x \in 1..127 => x % 128 = x)
    BY SMT
  <2> QED
    BY <2>1, SMT DEF Digit
<1> DEFINE d3 == Digit(b[3], 0)
<1> DEFINE d2 == Digit(b[2], d3)
<1> DEFINE d1 == Digit(b[1], d2)
<1> DEFINE d0 == Digit(b[0], d1)
<1>3. d3 \in Nat /\ (m = 3 => d3 > 0)
  BY <1>1, <1>2
<1>4. d2 \in Nat /\ (m = 2 => d2 > 0) /\ (m > 2 => d2 > 0)
  <2> HIDE DEF d3
  <2>1. m > 2 => m = 3 /\ b[2] >= 128
    OBVIOUS
  <2> QED
    BY <1>1, <1>2, <1>3, <2>1
<1>5. d1 \in Nat /\ (m = 1 => d1 > 0) /\ (m > 1 => d1 > 0)
  <2> HIDE DEF d2
  <2>1. m > 1 => (m = 2 \/ m > 2) /\ b[1] >= 128
    OBVIOUS
  <2> QED
    BY <1>1, <1>2, <1>4, <2>1
<1>6. d0 \in Nat /\ d0 > 0
  <2> HIDE DEF d1
  <2>1. m = 0 \/ ((m = 1 \/ m > 1) /\ b[0] >= 128)
    OBVIOUS
  <2> QED
    BY <1>1, <1>2, <1>5, <2>1
<1>7. Decoded(b) = d0
  BY DecodedIs
<1> QED
  BY <1>6, <1>7

-----------------------------------------------------------------------------
(* The calls due to a connection.                                           *)

CallsOf(c) == {CallFor(c, i) : i \in 1..Len(c)}
Heard(c) == [i \in 1..Len(c) |-> IF TooLong(c[i]) THEN <<>> ELSE <<CallFor(c, i)>>]

LEMMA HeardIs ==
  ASSUME NEW c \in Connections
  PROVE  /\ Heard(c) \in [1..Len(c) -> Seq(CallsOf(c))]
         /\ \A k \in 0..Len(c) : /\ Due[c][k] = Prefix(Heard(c), k)
                                 /\ Due[c][k] \in Seq(CallsOf(c))
<1>1. Len(c) \in Nat
  BY ConnectionIs
<1>2. \A i \in 1..Len(c) : Heard(c)[i] \in Seq(CallsOf(c))
  <2> SUFFICES ASSUME NEW i \in 1..Len(c) PROVE Heard(c)[i] \in Seq(CallsOf(c))
    OBVIOUS
  <2>1. CallFor(c, i) \in CallsOf(c)
    BY DEF CallsOf
  <2>2. <<>> \in Seq(CallsOf(c)) /\ <<CallFor(c, i)>> \in Seq(CallsOf(c))
    BY <2>1
  <2>3. Heard(c)[i] = IF TooLong(c[i]) THEN <<>> ELSE <<CallFor(c, i)>>
    BY DEF Heard
  <2> QED
    BY <2>2, <2>3
<1>3. Heard(c) \in [1..Len(c) -> Seq(CallsOf(c))]
  BY <1>2 DEF Heard
<1>4. ASSUME NEW k \in 0..Len(c)
      PROVE  Due[c][k] = Prefix(Heard(c), k) /\ Due[c][k] \in Seq(CallsOf(c))
  <2>1. \A i \in 1..k : Heard(c)[i] = IF TooLong(c[i]) THEN <<>> ELSE <<CallFor(c, i)>>
    <3>1. \A i \in 1..k : i \in 1..Len(c)
      BY <1>1
    <3> QED
      BY <3>1 DEF Heard
  <2>2. [i \in 1..k |-> Heard(c)[i]]
        = [i \in 1..k |-> IF TooLong(c[i]) THEN <<>> ELSE <<CallFor(c, i)>>]
    BY <2>1
  <2>3. Due[c][k] = FlattenSeq([i \in 1..k |-> IF TooLong(c[i]) THEN <<>> ELSE <<CallFor(c, i)>>])
    BY DEF Due
  <2>4. Due[c][k] = Prefix(Heard(c), k)
    BY <2>2, <2>3 DEF Prefix
  <2>5. Prefix(Heard(c), k) \in Seq(CallsOf(c))
    BY <1>1, <1>3, PrefixType
  <2> QED
    BY <2>4, <2>5
<1> QED
  BY <1>3, <1>4

LEMMA DueNone ==
  ASSUME NEW c \in Connections
  PROVE  Due[c][0] = <<>>
<1>1. 0 \in 0..Len(c)
  BY ConnectionIs
<1> QED
  BY <1>1, HeardIs, PrefixNone

LEMMA DueNext ==
  ASSUME NEW c \in Connections, NEW i \in 1..Len(c)
  PROVE  Due[c][i] = IF TooLong(c[i]) THEN Due[c][i - 1] ELSE Append(Due[c][i - 1], CallFor(c, i))
<1> DEFINE S == CallsOf(c)
<1> DEFINE f == Heard(c)
<1>1. Len(c) \in Nat /\ i - 1 \in 0..(Len(c) - 1) /\ i - 1 \in 0..Len(c) /\ i \in 0..Len(c)
      /\ (i - 1) + 1 = i
  BY ConnectionIs
<1>2. f \in [1..Len(c) -> Seq(S)] /\ f[i] = IF TooLong(c[i]) THEN <<>> ELSE <<CallFor(c, i)>>
  BY HeardIs DEF Heard
<1>3. Due[c][i] = Prefix(f, i) /\ Due[c][i - 1] = Prefix(f, i - 1) /\ Prefix(f, i - 1) \in Seq(S)
  BY <1>1, HeardIs
<1>4. CallFor(c, i) \in S
  BY DEF CallsOf
<1> HIDE DEF S, f
<1>5. Prefix(f, i) = Cat(Prefix(f, i - 1), f[i])
  <2>1. Prefix(f, (i - 1) + 1) = Cat(Prefix(f, i - 1), f[(i - 1) + 1])
    BY <1>1, <1>2, <1>3, PrefixNext
  <2> QED
    BY <1>1, <2>1
<1>6. PICK s \in Seq(S) : s = Due[c][i - 1] /\ Due[c][i] = Cat(s, f[i])
  BY <1>3, <1>5
<1>7. CASE TooLong(c[i])
  <2>1. Cat(s, <<>>) = s
    BY ConcatEmptySeq DEF Cat
  <2> QED
    BY <1>2, <1>6, <1>7, <2>1
<1>8. CASE ~TooLong(c[i])
  <2>1. Cat(s, <<CallFor(c, i)>>) = Append(s, CallFor(c, i))
    BY <1>4, AppendIsConcat DEF Cat
  <2> QED
    BY <1>2, <1>6, <1>8, <2>1
<1> QED
  BY <1>7, <1>8

-----------------------------------------------------------------------------
(* Packets that are lost.                                                   *)

Long(c, k) == {j \in 1..k : TooLong(c[j])}
Lost(c, k) == Cardinality(Long(c, k))

LEMMA LostIs ==
  ASSUME NEW c, NEW k \in Int
  PROVE  /\ IsFiniteSet(Long(c, k)) /\ Lost(c, k) \in Nat
         /\ Lost(c, k + 1) = IF k >= 0 /\ TooLong(c[k + 1]) THEN Lost(c, k) + 1 ELSE Lost(c, k)
<1>1. IsFiniteSet(1..k)
  BY FS_Interval
<1>2. IsFiniteSet(Long(c, k)) /\ Lost(c, k) \in Nat
  <2>1. Long(c, k) \subseteq 1..k
    BY DEF Long
  <2> QED
    BY <1>1, <2>1, FS_Subset, FS_CardinalityType DEF Lost
<1>3. CASE k >= 0 /\ TooLong(c[k + 1])
  <2>1. Long(c, k + 1) = Long(c, k) \cup {k + 1} /\ k + 1 \notin Long(c, k)
    BY <1>3 DEF Long
  <2>2. Cardinality(Long(c, k) \cup {k + 1}) = Cardinality(Long(c, k)) + 1
    BY <1>2, <2>1, FS_AddElement
  <2> QED
    BY <1>2, <1>3, <2>1, <2>2 DEF Lost
<1>4. CASE ~(k >= 0 /\ TooLong(c[k + 1]))
  <2>1. Long(c, k + 1) = Long(c, k)
    BY <1>4 DEF Long
  <2> QED
    BY <1>2, <1>4, <2>1 DEF Lost
<1> QED
  BY <1>3, <1>4

-----------------------------------------------------------------------------
(* The inductive invariant: where in which packet the parser is.            *)

\* _bytePosition can count the bytes of the topic and of what is around it.
Countable == \A c \in Connections : \A i \in DOMAIN c :
  c[i].type = "PUBLISH" => HeaderSize(c[i]) <= 256

BodyAt(i) == Ends[connection][i] + 1 + Digits(Size(connection[i]))

PacketStates ==
  [type : Types, qos : Nat, at : Nat, msb : Nat, topicLength : Nat, ignore : BOOLEAN,
   id : Nat, payloadLength : Nat, read : Nat]

Placed ==
  /\ connection \in Connections
  /\ segment \in 0..Len(Wire[connection]) /\ pos \in 0..segment

\* The first lengthPosition bytes of lengthBuffer were read as those with more to come.
LengthKept ==
  /\ lengthBuffer \in [0..3 -> 0..255] /\ lengthPosition \in 0..3
  /\ \A k \in 0..3 : k < lengthPosition => lengthBuffer[k] >= 128

Typed ==
  /\ Placed /\ LengthKept
  /\ packet \in PacketStates \cup {NoPacket} /\ remainingLength \in Nat
  /\ topicBuffer \in [0..MaxTopicLength -> Nat]
  /\ losses \in 0..MaxLosses

\* Between packets i - 1 and i.
Between(i) ==
  /\ i \in 1..(Len(connection) + 1) /\ bufferState = "NONE" /\ pos = Ends[connection][i]
  /\ calls = Due[connection][i - 1] /\ leaked = Lost(connection, i - 2)
  /\ packet # NoPacket <=> i > 1 /\ TooLong(connection[i - 1])
  /\ i > 1 => lengthPosition = 0

InLength(i) ==
  /\ bufferState = "REMAINING_LENGTH"
  /\ packet = New(connection[i].type, 2 * connection[i].qos)
  /\ \E m \in 0..(Digits(Size(connection[i])) - 1) :
       /\ pos = Ends[connection][i] + 1 + m /\ (i > 1 => lengthPosition = m)
       /\ \A k \in 1..m : lengthBuffer[k - 1] = RemainingLength(Size(connection[i]))[k]

\* All but messages: nothing or the first of two bytes is read.
InFixed(i, p) ==
  /\ bufferState = "VARIABLE_HEADER" /\ p.type \notin {"PUBLISH", "PINGRESP"}
  /\ packet.at \in {0, 1} /\ pos = BodyAt(i) + packet.at
  /\ packet.at = 1 => packet.msb = Body(p)[1]

InStatus(i, p) ==
  /\ bufferState = "PAYLOAD" /\ p.type = "SUBACK"
  /\ pos = BodyAt(i) + 2 /\ packet.id = p.id

\* n bytes of the topic are in the buffer, and its end is marked.
TopicRead(i, p, n) ==
  /\ topicBuffer[p.topic] = 0
  /\ \A k \in 0..(p.topic - 1) : k < n => topicBuffer[k] = BodyAt(i) + 2 + k + 1

InHeader(i, p) ==
  /\ bufferState = "VARIABLE_HEADER" /\ p.type = "PUBLISH" /\ remainingLength = Size(p)
  /\ packet.qos = p.qos /\ packet.id = 0 /\ packet.read = 0
  /\ packet.at < HeaderSize(p) /\ pos = BodyAt(i) + packet.at
  /\ packet.at < 2 => ~packet.ignore
  /\ packet.at = 1 => packet.msb = p.topic \div 256
  /\ packet.at = p.topic + 3 => packet.msb = p.id \div 256
  /\ packet.at >= 2 => /\ packet.topicLength = p.topic /\ (packet.ignore <=> TooLong(p))
                       /\ ~TooLong(p) => TopicRead(i, p, packet.at - 2)

InPayload(i, p) ==
  /\ bufferState = "PAYLOAD" /\ p.type = "PUBLISH"
  /\ packet.qos = p.qos /\ packet.id = (IF p.qos = 0 THEN 0 ELSE p.id)
  /\ packet.payloadLength = p.payload /\ packet.read < p.payload
  /\ pos = BodyAt(i) + HeaderSize(p) + packet.read
  /\ packet.ignore <=> TooLong(p)
  /\ ~TooLong(p) => TopicRead(i, p, p.topic)

Inside(i) ==
  /\ i \in 1..Len(connection)
  /\ calls = Due[connection][i - 1] /\ leaked = Lost(connection, i - 1)
  /\ packet.type = connection[i].type
  /\ \/ InLength(i)
     \/ /\ lengthPosition = 0
        /\ \/ InFixed(i, connection[i]) \/ InStatus(i, connection[i])
           \/ InHeader(i, connection[i]) \/ InPayload(i, connection[i])

Inv == Typed /\ \E i \in 1..(Len(connection) + 1) : Between(i) \/ Inside(i)

-----------------------------------------------------------------------------
(* Where the next byte is.                                                  *)

LEMMA PacketAt ==
  ASSUME Placed, NEW i \in 1..Len(connection)
  PROVE  /\ connection[i] \in Packets /\ Allowed(connection[i])
         /\ (connection[i].type = "CONNACK" <=> i = 1)
         /\ Size(connection[i]) \in Nat /\ Size(connection[i]) < Place[5]
         /\ Digits(Size(connection[i])) \in 1..4
         /\ Ends[connection][i] \in Nat /\ Ends[connection][i + 1] \in Nat /\ BodyAt(i) \in Nat
         /\ BodyAt(i) = Ends[connection][i] + 1 + Digits(Size(connection[i]))
         /\ Ends[connection][i + 1] = BodyAt(i) + Size(connection[i])
<1>1. connection \in Connections
  BY DEF Placed
<1>2. /\ Len(connection) \in Nat /\ connection[i] \in Packets /\ Allowed(connection[i])
      /\ (connection[i].type = "CONNACK" <=> i = 1)
  BY <1>1, ConnectionIs
<1>3. /\ Size(connection[i]) \in Nat /\ Size(connection[i]) < Place[5]
      /\ Digits(Size(connection[i])) \in 1..4
  <2>1. Size(connection[i]) < Place[5]
    BY <1>2 DEF Allowed, Size
  <2>2. Size(connection[i]) \in Nat
    BY <1>2, BodyIs
  <2> QED
    BY <2>1, <2>2, DigitsAre
<1>4. Ends[connection][i] \in Nat /\ Ends[connection][i + 1] \in Nat
  <2>1. i \in 1..(Len(connection) + 1) /\ i + 1 \in 1..(Len(connection) + 1)
    BY <1>2
  <2> QED
    BY <1>1, <2>1, EndsAre
<1>5. Ends[connection][i + 1]
        = Ends[connection][i] + 1 + Digits(Size(connection[i])) + Size(connection[i])
  BY <1>1, WireIs DEF Within
<1>6. BodyAt(i) = Ends[connection][i] + 1 + Digits(Size(connection[i])) /\ BodyAt(i) \in Nat
  <2>1. BodyAt(i) = Ends[connection][i] + 1 + Digits(Size(connection[i]))
    BY DEF BodyAt
  <2>2. Ends[connection][i] + 1 + Digits(Size(connection[i])) \in Nat
    <3>1. Ends[connection][i] \in Nat /\ Digits(Size(connection[i])) \in 1..4
      BY <1>3, <1>4
    <3> QED
      BY <3>1
  <2> QED
    BY <2>1, <2>2
<1> QED
  BY <1>2, <1>3, <1>4, <1>5, <1>6

LEMMA ByteIs ==
  ASSUME Placed, NEW i \in 1..Len(connection)
  PROVE  /\ pos = Ends[connection][i] => byte = Code(connection[i])
         /\ \A k \in 1..Digits(Size(connection[i])) :
              pos = Ends[connection][i] + k => byte = RemainingLength(Size(connection[i]))[k]
         /\ \A k \in 1..Size(connection[i]) :
              pos = BodyAt(i) + (k - 1) => byte = Body(connection[i])[k]
<1> DEFINE e == Ends[connection][i]
<1> DEFINE d == Digits(Size(connection[i]))
<1> DEFINE n == Size(connection[i])
<1>1. e \in Nat /\ d \in 1..4 /\ n \in Nat /\ BodyAt(i) = e + 1 + d
  BY PacketAt
<1>2. /\ Wire[connection][e + 1] = Code(connection[i])
      /\ \A k \in 1..d : Wire[connection][e + 1 + k] = RemainingLength(n)[k]
      /\ \A k \in 1..n : Wire[connection][e + 1 + d + k] = Body(connection[i])[k]
  BY WireIs DEF Within, Placed
<1>3. byte = Wire[connection][pos + 1]
  BY DEF byte
<1> HIDE DEF e, d, n
<1>4. ASSUME NEW k \in 1..d, pos = e + k PROVE byte = RemainingLength(n)[k]
  <2>1. pos + 1 = e + 1 + k
    BY <1>1, <1>4
  <2> QED
    BY <1>2, <1>3, <2>1
<1>5. ASSUME NEW k \in 1..n, pos = BodyAt(i) + (k - 1) PROVE byte = Body(connection[i])[k]
  <2>1. pos + 1 = e + 1 + d + k
    BY <1>1, <1>5
  <2> QED
    BY <1>2, <1>3, <2>1
<1> QED
  BY <1>2, <1>3, <1>4, <1>5 DEF e, d, n

LEMMA LostNone ==
  ASSUME NEW c
  PROVE  Lost(c, -1) = 0
<1>1. Long(c, -1) = {}
  BY DEF Long
<1> QED
  BY <1>1, FS_EmptySet DEF Lost

LEMMA MinTwo ==
  ASSUME NEW a \in Int, NEW b \in Int
  PROVE  Min({a, b}) = IF a <= b THEN a ELSE b
<1>1. CASE a <= b
  <2>1. a \in {a, b} /\ \A y \in {a, b} : a <= y
    BY <1>1
  <2>2. \A x \in {a, b} : (\A y \in {a, b} : x <= y) => x = a
    BY <1>1
  <2> QED
    BY <1>1, <2>1, <2>2 DEF Min
<1>2. CASE ~(a <= b)
  <2>1. b \in {a, b} /\ \A y \in {a, b} : b <= y
    BY <1>2
  <2>2. \A x \in {a, b} : (\A y \in {a, b} : x <= y) => x = b
    BY <1>2
  <2> QED
    BY <1>2, <2>1, <2>2 DEF Min
<1> QED
  BY <1>1, <1>2

-----------------------------------------------------------------------------
(* The invariant at the ends of connections, and with a new segment.        *)

\* A connection begins, with what the one before left in lengthBuffer.
LEMMA Begun ==
  ASSUME NEW c \in Connections, connection = c, pos = 0, bufferState = "NONE", packet = NoPacket,
         calls = <<>>, leaked = 0
  PROVE  Between(1)
<1>1. Len(c) \in Nat /\ 1 \in 1..(Len(c) + 1)
  BY ConnectionIs
<1>2. Ends[c][1] = 0 /\ Due[c][0] = <<>> /\ Lost(c, -1) = 0
  BY EndsAre, DueNone, LostNone
<1>3. 1 - 1 = 0 /\ 1 - 2 = -1
  OBVIOUS
<1> QED
  BY <1>1, <1>2, <1>3 DEF Between

LEMMA InvInit ==
  ASSUME Init
  PROVE  Inv
<1>1. connection \in Connections /\ pos = 0 /\ segment = 0
  BY DEF Init
<1>2. Between(1)
  BY <1>1, Begun DEF Init
<1>3. Len(Wire[connection]) \in Nat /\ Len(connection) \in Nat
  BY <1>1, EndsAre, ConnectionIs
<1>4. Placed
  BY <1>1, <1>3 DEF Placed
<1>5. LengthKept
  BY DEF Init, LengthKept
<1>6. Typed
  BY <1>4, <1>5, ParserAssumption DEF Init, Typed
<1> QED
  BY <1>2, <1>3, <1>6 DEF Inv

LEMMA InvLose ==
  ASSUME Inv, Lose
  PROVE  Inv'
<1>1. connection' \in Connections /\ pos' = 0 /\ segment' = 0
  BY DEF Lose
<1>2. Between(1)'
  <2>1. /\ bufferState' = "NONE" /\ packet' = NoPacket /\ calls' = <<>> /\ leaked' = 0
    BY DEF Lose
  <2>2. Len(connection') \in Nat /\ 1 \in 1..(Len(connection') + 1)
    BY <1>1, ConnectionIs
  <2>3. Ends[connection'][1] = 0 /\ Due[connection'][0] = <<>> /\ Lost(connection', -1) = 0
    BY <1>1, EndsAre, DueNone, LostNone
  <2>4. 1 - 1 = 0 /\ 1 - 2 = -1
    OBVIOUS
  <2> QED
    BY <1>1, <2>1, <2>2, <2>3, <2>4 DEF Between
<1>3. Len(Wire[connection']) \in Nat /\ Len(connection') \in Nat
  BY <1>1, EndsAre, ConnectionIs
<1>4. Placed'
  BY <1>1, <1>3 DEF Placed
<1>5. LengthKept'
  BY DEF Lose, LengthKept, lengthVars, Inv, Typed
<1>6. Typed'
  <2>1. losses' \in 0..MaxLosses
    BY ParserAssumption DEF Lose, Inv, Typed
  <2> QED
    BY <1>4, <1>5, <2>1 DEF Lose, Inv, Typed
<1> QED
  BY <1>2, <1>3, <1>6 DEF Inv

\* Nothing but the segment changes, or nothing.
LEMMA InvSame ==
  ASSUME Inv, UNCHANGED <<parserVars, connection, pos, calls, leaked, losses>>,
         segment' \in pos..Len(Wire[connection])
  PROVE  Inv'
<1>1. Placed' 
  BY DEF Inv, Typed, Placed
<1>2. Typed'
  BY <1>1 DEF Inv, Typed, LengthKept, parserVars, lengthVars
<1>3. PICK i \in 1..(Len(connection) + 1) : Between(i) \/ Inside(i)
  BY DEF Inv
<1>4. Between(i) => Between(i)'
  BY DEF Between, parserVars, lengthVars
<1>5. Inside(i) => Inside(i)'
  BY DEF Inside, InLength, InFixed, InStatus, InHeader, InPayload, TopicRead, BodyAt, parserVars,
         lengthVars
<1>6. i \in (1..(Len(connection) + 1))'
  BY <1>3
<1> QED
  BY <1>2, <1>3, <1>4, <1>5, <1>6 DEF Inv

LEMMA InvReceive ==
  ASSUME Inv, NEW n \in SegmentSizes, Receive(n)
  PROVE  Inv'
<1>1. n \in Nat /\ segment \in Nat /\ Len(Wire[connection]) \in Nat /\ pos \in 0..segment
      /\ segment <= Len(Wire[connection])
  <2>1. connection \in Connections /\ segment \in 0..Len(Wire[connection]) /\ pos \in 0..segment
    BY DEF Inv, Typed, Placed
  <2>2. Len(Wire[connection]) \in Nat
    BY <2>1, EndsAre
  <2> QED
    BY <2>1, <2>2, ParserAssumption
<1>2. segment' = Min({segment + n, Len(Wire[connection])})
  BY DEF Receive
<1>3. segment' = IF segment + n <= Len(Wire[connection]) THEN segment + n ELSE Len(Wire[connection])
  BY <1>1, <1>2, MinTwo
<1>4. segment' \in pos..Len(Wire[connection])
  BY <1>1, <1>3
<1> QED
  BY <1>4, InvSame DEF Receive

-----------------------------------------------------------------------------
(* Reading a byte.                                                          *)

LEMMA Readable ==
  ASSUME Inv, pos < segment
  PROVE  /\ Placed /\ connection \in Connections /\ Len(connection) \in Nat
         /\ pos \in Nat /\ segment \in Nat /\ pos + 1 \in 0..segment
         /\ \E i \in 1..Len(connection) : Between(i) \/ Inside(i)
<1>1. Placed /\ connection \in Connections /\ pos \in 0..segment /\ segment \in 0..Len(Wire[connection])
  BY DEF Inv, Typed, Placed
<1>2. Len(connection) \in Nat /\ Len(Wire[connection]) \in Nat
      /\ Ends[connection][Len(connection) + 1] = Len(Wire[connection])
  BY <1>1, ConnectionIs, EndsAre
<1>3. pos \in Nat /\ segment \in Nat /\ segment <= Len(Wire[connection])
  BY <1>1, <1>2
<1>4. PICK i \in 1..(Len(connection) + 1) : Between(i) \/ Inside(i)
  BY DEF Inv
<1>5. i \in 1..Len(connection)
  <2>1. CASE i = Len(connection) + 1
    <3>1. i \notin 1..Len(connection)
      BY <1>2, <2>1
    <3>2. pos = Len(Wire[connection])
      BY <1>2, <1>4, <2>1, <3>1 DEF Between, Inside
    <3> QED
      BY <1>2, <1>3, <3>2
  <2> QED
    BY <1>2, <2>1
<1> QED
  BY <1>1, <1>2, <1>3, <1>4, <1>5

\* What a step must do for the types.
LEMMA TypedNext ==
  ASSUME Inv, UNCHANGED <<connection, segment, losses>>, pos' \in 0..segment, LengthKept',
         packet' \in PacketStates \cup {NoPacket}, remainingLength' \in Nat,
         topicBuffer' \in [0..MaxTopicLength -> Nat]
  PROVE  Typed'
<1>1. Placed'
  BY DEF Inv, Typed, Placed
<1> QED
  BY <1>1 DEF Inv, Typed

LEMMA InvFrom ==
  ASSUME Inv, connection' = connection, Typed', NEW i \in 1..(Len(connection) + 1),
         Between(i)' \/ Inside(i)'
  PROVE  Inv'
  BY DEF Inv

\* The states of the parser tell between packets from inside one.
LEMMA StateInside ==
  ASSUME Inv, pos < segment, bufferState # "NONE"
  PROVE  \E i \in 1..Len(connection) : Inside(i)
  BY Readable DEF Between

LEMMA StateBetween ==
  ASSUME Inv, pos < segment, bufferState = "NONE"
  PROVE  \E i \in 1..Len(connection) : Between(i)
  BY Readable DEF Inside, InLength, InFixed, InStatus, InHeader, InPayload

LEMMA NoPacketIs == NoPacket.type = "none" /\ NoPacket \notin PacketStates
<1>1. NoPacket.type = "none"
  BY DEF NoPacket
<1>2. \A p \in PacketStates : p.type # "none"
  BY DEF PacketStates, Types, Ids
<1> QED
  BY <1>1, <1>2

LEMMA CodesDiffer ==
  ASSUME NEW s \in Types, NEW t \in Types, TypeCode[s] = TypeCode[t]
  PROVE  s = t
  BY DEF TypeCode, Types, Ids

LEMMA NewIs ==
  ASSUME NEW t \in Types, NEW q \in 0..2
  PROVE  New(t, 2 * q) \in PacketStates /\ New(t, 2 * q).type = t /\ New(t, 2 * q).qos = q
         /\ New(t, 2 * q).at = 0 /\ New(t, 2 * q).id = 0 /\ New(t, 2 * q).read = 0
         /\ New(t, 2 * q).ignore = FALSE
<1>1. (2 * q) \div 2 = q /\ q \in Nat
  BY SMT
<1> QED
  BY <1>1 DEF New, PacketStates

LEMMA InvParseHeader ==
  ASSUME Inv, ParseHeader
  PROVE  Inv'
<1>1. /\ pos < segment /\ bufferState = "NONE" /\ pos' = pos + 1 /\ bufferState' = "REMAINING_LENGTH"
      /\ UNCHANGED <<connection, segment, losses, remainingLength, lengthBuffer, lengthPosition,
                     topicBuffer, calls>>
  BY DEF ParseHeader, Reading, lengthVars
<1>2. PICK i \in 1..Len(connection) : Between(i)
  BY <1>1, StateBetween
<1>3. /\ Placed /\ connection \in Connections /\ Len(connection) \in Nat
      /\ pos \in Nat /\ pos + 1 \in 0..segment
  BY <1>1, Readable
<1>4. i \in Nat /\ i >= 1 /\ i \in 1..(Len(connection) + 1)
  BY <1>3
<1>5. /\ connection[i] \in Packets /\ Digits(Size(connection[i])) \in 1..4
      /\ Ends[connection][i] \in Nat
  BY <1>3, PacketAt
<1>6. PICK p \in Packets : p = connection[i]
  BY <1>5
<1>7. byte = Code(p) /\ byte \div 16 = TypeCode[p.type] /\ byte % 16 = 2 * p.qos
  <2>1. byte = Code(p)
    BY <1>2, <1>3, <1>6, ByteIs DEF Between
  <2> QED
    BY <2>1, CodeIs
<1>8. p.type \in Types /\ p.qos \in 0..2
  BY PacketIs
<1>9. /\ packet' = New(p.type, 2 * p.qos)
      /\ leaked' = IF packet = NoPacket THEN leaked ELSE leaked + 1
  <2>1. CASE \E type \in DOMAIN TypeCode :
               /\ TypeCode[type] = byte \div 16
               /\ packet' = New(type, byte % 16)
               /\ leaked' = IF packet = NoPacket THEN leaked ELSE leaked + 1
    <3>1. PICK type \in Types :
               /\ TypeCode[type] = byte \div 16
               /\ packet' = New(type, byte % 16)
               /\ leaked' = IF packet = NoPacket THEN leaked ELSE leaked + 1
      BY <2>1, TypesAre
    <3>2. type = p.type
      BY <1>7, <1>8, <3>1, CodesDiffer
    <3> QED
      BY <1>7, <3>1, <3>2
  <2>2. CASE \A type \in DOMAIN TypeCode : TypeCode[type] # byte \div 16
    BY <1>7, <1>8, <2>2, TypesAre
  <2> QED
    BY <2>1, <2>2 DEF ParseHeader
<1>10. packet' \in PacketStates /\ packet'.type = p.type
  BY <1>8, <1>9, NewIs
<1>11. leaked' = Lost(connection, i - 1)
  <2>1. /\ leaked = Lost(connection, i - 2)
        /\ packet # NoPacket <=> i > 1 /\ TooLong(connection[i - 1])
    BY <1>2 DEF Between
  <2>2. i - 2 \in Int /\ (i - 2) + 1 = i - 1 /\ (i - 2 >= 0 <=> i > 1)
    BY <1>4
  <2>3. /\ Lost(connection, i - 2) \in Nat
        /\ Lost(connection, i - 1) = IF i > 1 /\ TooLong(connection[i - 1])
                                     THEN Lost(connection, i - 2) + 1 ELSE Lost(connection, i - 2)
    BY <2>2, LostIs
  <2> QED
    BY <1>9, <2>1, <2>3
<1>12. Inside(i)'
  <2>1. InLength(i)'
    <3>1. 0 \in 0..(Digits(Size(connection[i])) - 1)
      BY <1>5
    <3>2. pos' = Ends[connection][i] + 1 + 0 /\ (i > 1 => lengthPosition' = 0)
      BY <1>1, <1>2, <1>5 DEF Between
    <3>3. \A k \in 1..0 : lengthBuffer'[k - 1] = RemainingLength(Size(connection[i]))[k]
      OBVIOUS
    <3>4. bufferState' = "REMAINING_LENGTH" /\ connection' = connection
      BY <1>1
    <3>5. packet' = New(connection[i].type, 2 * connection[i].qos)
      BY <1>6, <1>9
    <3> QED
      BY <3>1, <3>2, <3>3, <3>4, <3>5 DEF InLength
  <2>2. calls' = Due[connection'][i - 1]
    BY <1>1, <1>2 DEF Between
  <2> QED
    BY <1>1, <1>2, <1>6, <1>10, <1>11, <2>1, <2>2 DEF Inside
<1>13. Typed'
  <2>1. LengthKept'
    BY <1>1 DEF LengthKept, Inv, Typed
  <2>2. remainingLength' \in Nat /\ topicBuffer' \in [0..MaxTopicLength -> Nat]
    BY <1>1 DEF Inv, Typed
  <2> QED
    BY <1>1, <1>3, <1>10, <2>1, <2>2, TypedNext
<1> QED
  BY <1>1, <1>4, <1>12, <1>13, InvFrom

-----------------------------------------------------------------------------
(* The remaining length.                                                    *)

LEMMA SizeOf ==
  ASSUME NEW p \in Packets
  PROVE  /\ p.type = "PUBLISH" => /\ Size(p) = HeaderSize(p) + p.payload
                                  /\ HeaderSize(p) \in Nat /\ HeaderSize(p) >= 2
         /\ p.type \in Ids \cup {"CONNACK"} => Size(p) = 2
         /\ p.type = "SUBACK" => Size(p) = 3
         /\ p.type = "PINGRESP" => Size(p) = 0
<1>1. p.topic \in Nat /\ p.payload \in Nat
  BY PacketIs
<1>2. HeaderSize(p) \in Nat /\ HeaderSize(p) >= 2
  BY <1>1 DEF HeaderSize
<1>3. p.type = "PUBLISH" => Size(p) = HeaderSize(p) + p.payload
  BY BodyOfMessage DEF Size
<1>4. /\ p.type \in Ids \cup {"CONNACK"} => p.type # "PUBLISH"
      /\ p.type = "SUBACK" => p.type # "PUBLISH"
      /\ p.type = "PINGRESP" => p.type # "PUBLISH"
  BY DEF Ids
<1>5. /\ p.type \in Ids \cup {"CONNACK"} => Size(p) = 2
      /\ p.type = "SUBACK" => Size(p) = 3
      /\ p.type = "PINGRESP" => Size(p) = 0
  BY <1>4, BodyOfOthers DEF Size
<1> QED
  BY <1>2, <1>3, <1>5

\* The first packet has one byte of remaining length.
LEMMA FirstLength ==
  ASSUME NEW p \in Packets, p.type = "CONNACK"
  PROVE  Size(p) = 2 /\ Digits(Size(p)) = 1 /\ RemainingLength(Size(p))[1] = 2
<1>1. Size(p) = 2
  BY SizeOf
<1>2. 2 \in Nat /\ 2 < Place[5]
  BY PlaceIs, SMT
<1>3. Digits(2) = 1
  <2>1. Digits(2) \in 1..4 /\ \A k \in 1..4 : k < Digits(2) => 2 >= Place[k + 1]
    BY <1>2, DigitsAre
  <2>2. ~(2 >= Place[2]) /\ 1 + 1 = 2
    BY PlaceIs, SMT
  <2> QED
    BY <2>1, <2>2
<1>4. RemainingLength(2)[1] = ((2 \div Place[1]) % 128) + (IF 1 < Digits(2) THEN 128 ELSE 0)
  <2>1. 1 \in 1..Digits(2)
    BY <1>3
  <2> QED
    BY <1>2, <2>1, LengthBytes
<1>5. (2 \div Place[1]) % 128 = 2
  BY PlaceIs, SMT
<1> QED
  BY <1>1, <1>3, <1>4, <1>5

LEMMA Finished ==
  ASSUME Inv, NEW i \in 1..Len(connection), UNCHANGED <<connection, leaked>>,
         calls = Due[connection][i - 1], leaked = Lost(connection, i - 1),
         ~TooLong(connection[i]), Finish(CallFor(connection, i)),
         pos' = Ends[connection][i + 1], lengthPosition' = 0
  PROVE  i + 1 \in 1..(Len(connection) + 1) /\ Between(i + 1)'
<1>1. connection \in Connections /\ Len(connection) \in Nat
  BY ConnectionIs DEF Inv, Typed, Placed
<1>2. i + 1 \in 1..(Len(connection) + 1) /\ (i + 1) - 1 = i /\ (i + 1) - 2 = i - 1
  BY <1>1
<1>3. calls' = Due[connection][i]
  BY <1>1, DueNext DEF Finish
<1> QED
  BY <1>2, <1>3 DEF Between, Finish

\* The parser in the m-th byte of a remaining length.
LEMMA LengthByte ==
  ASSUME Inv, pos < segment, bufferState = "REMAINING_LENGTH"
  PROVE  \E i \in 1..Len(connection) : \E p \in Packets : \E m \in 0..3 :
           /\ p = connection[i] /\ Allowed(p) /\ Inside(i) /\ (p.type = "CONNACK" <=> i = 1)
           /\ packet = New(p.type, 2 * p.qos)
           /\ m + 1 \in 1..Digits(Size(p)) /\ pos = Ends[connection][i] + 1 + m
           /\ byte = RemainingLength(Size(p))[m + 1] /\ byte \in 0..255
           /\ byte >= 128 <=> m + 1 < Digits(Size(p))
           /\ i > 1 => lengthPosition = m
           /\ \A k \in 1..m : lengthBuffer[k - 1] = RemainingLength(Size(p))[k]
<1>1. PICK i \in 1..Len(connection) : Inside(i)
  BY StateInside
<1>2. Placed /\ pos \in Nat
  BY Readable
<1>3. InLength(i)
  BY <1>1 DEF Inside, InFixed, InStatus, InHeader, InPayload
<1>4. /\ connection[i] \in Packets /\ Allowed(connection[i])
      /\ (connection[i].type = "CONNACK" <=> i = 1)
      /\ Size(connection[i]) \in Nat /\ Size(connection[i]) < Place[5]
      /\ Digits(Size(connection[i])) \in 1..4 /\ Ends[connection][i] \in Nat
  BY <1>2, PacketAt
<1>5. PICK p \in Packets : p = connection[i]
  BY <1>4
<1>6. PICK m \in 0..(Digits(Size(p)) - 1) :
        /\ pos = Ends[connection][i] + 1 + m /\ (i > 1 => lengthPosition = m)
        /\ \A k \in 1..m : lengthBuffer[k - 1] = RemainingLength(Size(p))[k]
  BY <1>3, <1>5 DEF InLength
<1>7. m \in 0..3 /\ m + 1 \in 1..Digits(Size(p))
  BY <1>4, <1>5, <1>6
<1>8. byte = RemainingLength(Size(p))[m + 1]
  <2>1. pos = Ends[connection][i] + (m + 1)
    BY <1>4, <1>6, <1>7
  <2> QED
    BY <1>2, <1>5, <1>7, <2>1, ByteIs
<1>9. byte \in 0..255 /\ (byte >= 128 <=> m + 1 < Digits(Size(p)))
  <2>1. \A k \in 1..Digits(Size(p)) :
          /\ RemainingLength(Size(p))[k] \in 0..255
          /\ RemainingLength(Size(p))[k] >= 128 <=> k < Digits(Size(p))
    BY <1>4, <1>5, LengthBytes
  <2> QED
    BY <1>7, <1>8, <2>1
<1>10. packet = New(p.type, 2 * p.qos)
  BY <1>3, <1>5 DEF InLength
<1>11. Allowed(p) /\ Inside(i) /\ (p.type = "CONNACK" <=> i = 1)
  BY <1>1, <1>4, <1>5
<1> QED
  BY <1>5, <1>6, <1>7, <1>8, <1>9, <1>10, <1>11

LEMMA InvParseMoreLength ==
  ASSUME Inv, ParseMoreLength
  PROVE  Inv'
<1>1. /\ pos < segment /\ bufferState = "REMAINING_LENGTH" /\ byte >= 128 /\ pos' = pos + 1
      /\ lengthBuffer' = [lengthBuffer EXCEPT ![lengthPosition] = byte]
      /\ lengthPosition' = lengthPosition + 1
      /\ UNCHANGED <<connection, segment, losses, bufferState, packet, remainingLength,
                     topicBuffer, calls, leaked>>
  BY DEF ParseMoreLength, Reading
<1>2. PICK i \in 1..Len(connection), p \in Packets, m \in 0..3 :
           /\ p = connection[i] /\ Allowed(p) /\ Inside(i) /\ (p.type = "CONNACK" <=> i = 1)
           /\ packet = New(p.type, 2 * p.qos)
           /\ m + 1 \in 1..Digits(Size(p)) /\ pos = Ends[connection][i] + 1 + m
           /\ byte = RemainingLength(Size(p))[m + 1] /\ byte \in 0..255
           /\ byte >= 128 <=> m + 1 < Digits(Size(p))
           /\ i > 1 => lengthPosition = m
           /\ \A k \in 1..m : lengthBuffer[k - 1] = RemainingLength(Size(p))[k]
  BY <1>1, LengthByte
<1>3. /\ Placed /\ Len(connection) \in Nat /\ pos \in Nat /\ pos + 1 \in 0..segment
      /\ i \in 1..(Len(connection) + 1)
  BY <1>1, Readable
<1>4. Digits(Size(p)) \in 1..4 /\ Ends[connection][i] \in Nat
  BY <1>2, <1>3, PacketAt
<1>5. i > 1
  <2>1. CASE i = 1
    <3>1. Digits(Size(p)) = 1
      BY <1>2, <2>1, FirstLength
    <3> QED
      BY <1>1, <1>2, <3>1
  <2> QED
    BY <1>3, <2>1
<1>6. lengthPosition = m /\ m + 1 \in 0..(Digits(Size(p)) - 1) /\ m + 1 \in 0..3
  BY <1>1, <1>2, <1>4, <1>5
<1>7. /\ lengthBuffer \in [0..3 -> 0..255] /\ \A k \in 0..3 : k < m => lengthBuffer[k] >= 128
  BY <1>6 DEF Inv, Typed, LengthKept
<1>8. /\ lengthBuffer' \in [0..3 -> 0..255] /\ lengthBuffer'[m] = byte
      /\ \A k \in 0..3 : k # m => lengthBuffer'[k] = lengthBuffer[k]
  BY <1>1, <1>2, <1>6, <1>7
<1>9. InLength(i)'
  <2>1. \A k \in 1..(m + 1) : lengthBuffer'[k - 1] = RemainingLength(Size(p))[k]
    <3> SUFFICES ASSUME NEW k \in 1..(m + 1)
                 PROVE  lengthBuffer'[k - 1] = RemainingLength(Size(p))[k]
      OBVIOUS
    <3>1. CASE k = m + 1
      <4>1. k - 1 = m
        BY <3>1
      <4> QED
        BY <1>2, <1>8, <3>1, <4>1
    <3>2. CASE k # m + 1
      <4>1. k \in 1..m /\ k - 1 \in 0..3 /\ k - 1 # m
        BY <3>2
      <4> QED
        BY <1>2, <1>8, <4>1
    <3> QED
      BY <3>1, <3>2
  <2>2. pos' = Ends[connection][i] + 1 + (m + 1)
    <3>1. pos' = pos + 1 /\ pos = Ends[connection][i] + 1 + m /\ Ends[connection][i] \in Nat
      BY <1>1, <1>2, <1>4
    <3> QED
      BY <3>1
  <2>3. /\ connection' = connection /\ p = connection[i] /\ bufferState' = "REMAINING_LENGTH"
        /\ packet' = New(p.type, 2 * p.qos) /\ lengthPosition' = m + 1
    BY <1>1, <1>2, <1>6
  <2> QED
    BY <1>6, <2>1, <2>2, <2>3 DEF InLength
<1>10. Inside(i)'
  BY <1>1, <1>2, <1>9 DEF Inside
<1>11. Typed'
  <2>1. LengthKept'
    <3>1. \A k \in 0..3 : k < m + 1 => lengthBuffer'[k] >= 128
      BY <1>1, <1>6, <1>7, <1>8
    <3>2. lengthPosition' = m + 1
      BY <1>1, <1>6
    <3> QED
      BY <1>6, <1>8, <3>1, <3>2 DEF LengthKept
  <2>2. /\ remainingLength' \in Nat /\ topicBuffer' \in [0..MaxTopicLength -> Nat]
        /\ packet' \in PacketStates \cup {NoPacket}
    BY <1>1 DEF Inv, Typed
  <2> QED
    BY <1>1, <1>3, <2>1, <2>2, TypedNext
<1> QED
  BY <1>1, <1>3, <1>10, <1>11, InvFrom

\* What the length is: with whatever bytes before the CONNACK's, more than 0.
LEMMA LengthIs ==
  ASSUME Inv, ParseLength, NEW i \in 1..Len(connection), NEW p \in Packets, NEW m \in 0..3,
         p = connection[i], p.type = "CONNACK" <=> i = 1,
         m + 1 = Digits(Size(p)), byte = RemainingLength(Size(p))[m + 1], byte \in 0..255,
         i > 1 => lengthPosition = m, Allowed(p),
         \A k \in 1..m : lengthBuffer[k - 1] = RemainingLength(Size(p))[k]
  PROVE  /\ remainingLength' \in Nat /\ (remainingLength' > 0 <=> Size(p) > 0)
         /\ i > 1 => remainingLength' = Size(p)
         /\ lengthBuffer' \in [0..3 -> 0..255]
<1>1. /\ lengthBuffer' = [lengthBuffer EXCEPT ![lengthPosition] = byte]
      /\ remainingLength' = Decoded(lengthBuffer')
  BY DEF ParseLength
<1>2. /\ lengthBuffer \in [0..3 -> 0..255] /\ lengthPosition \in 0..3
      /\ \A k \in 0..3 : k < lengthPosition => lengthBuffer[k] >= 128
  BY DEF Inv, Typed, LengthKept
<1>3. PICK b \in [0..3 -> 0..255] : /\ b = lengthBuffer' /\ b[lengthPosition] = byte
        /\ \A k \in 0..3 : k # lengthPosition => b[k] = lengthBuffer[k]
  BY <1>1, <1>2
<1>4. CASE i > 1
  <2>1. \A k \in 1..Digits(Size(p)) : b[k - 1] = RemainingLength(Size(p))[k]
    <3> SUFFICES ASSUME NEW k \in 1..Digits(Size(p))
                 PROVE  b[k - 1] = RemainingLength(Size(p))[k]
      OBVIOUS
    <3>1. CASE k = m + 1
      <4>1. k - 1 = m
        BY <3>1
      <4> QED
        BY <1>3, <1>4, <3>1, <4>1
    <3>2. CASE k # m + 1
      <4>1. k \in 1..m /\ k - 1 \in 0..3 /\ k - 1 # m
        BY <3>2
      <4> QED
        BY <1>3, <1>4, <4>1
    <3> QED
      BY <3>1, <3>2
  <2>2. Size(p) \in Nat /\ Size(p) < Place[5]
    BY BodyIs DEF Allowed, Size
  <2>3. Decoded(b) = Size(p)
    BY <2>1, <2>2, RoundTrip
  <2> QED
    BY <1>1, <1>3, <2>2, <2>3
<1>5. CASE ~(i > 1)
  <2>1. i = 1
    BY <1>5
  <2>2. Size(p) = 2 /\ m = 0 /\ byte = 2
    <3>1. Size(p) = 2 /\ Digits(Size(p)) = 1 /\ RemainingLength(Size(p))[1] = 2
      BY <2>1, FirstLength
    <3>2. m = 0 /\ m + 1 = 1
      BY <3>1
    <3> QED
      BY <3>1, <3>2
  <2>3. \A k \in 0..3 : k < lengthPosition => b[k] >= 128
    BY <1>2, <1>3
  <2>4. b[lengthPosition] \in 1..127
    BY <1>3, <2>2
  <2>5. Decoded(b) \in Nat /\ Decoded(b) > 0
    BY <1>2, <2>3, <2>4, DecodedPositive
  <2> QED
    BY <1>1, <1>3, <1>5, <2>2, <2>5
<1> QED
  BY <1>4, <1>5

LEMMA CallOther ==
  ASSUME NEW c, NEW i, c[i].type # "PUBLISH"
  PROVE  CallFor(c, i) = Call(c[i].type, c[i].id, c[i].code) /\ ~TooLong(c[i])
  BY DEF CallFor, TooLong

\* A packet without more is a PINGRESP; of the others the first byte of the body is next.
LEMMA InvParseLength ==
  ASSUME Inv, ParseLength
  PROVE  Inv'
<1>1. /\ pos < segment /\ bufferState = "REMAINING_LENGTH" /\ byte < 128 /\ pos' = pos + 1
      /\ lengthPosition' = 0
      /\ \/ /\ remainingLength' > 0
            /\ bufferState' = "VARIABLE_HEADER"
            /\ UNCHANGED <<packet, calls>>
         \/ /\ remainingLength' = 0
            /\ bufferState' = "NONE" /\ packet' = NoPacket
            /\ calls' = Append(calls, Call("PINGRESP", 0, 0))
      /\ UNCHANGED <<connection, segment, losses, topicBuffer, leaked>>
  BY DEF ParseLength, Reading, PositionAfterLength
<1>2. PICK i \in 1..Len(connection), p \in Packets, m \in 0..3 :
           /\ p = connection[i] /\ Allowed(p) /\ Inside(i) /\ (p.type = "CONNACK" <=> i = 1)
           /\ packet = New(p.type, 2 * p.qos)
           /\ m + 1 \in 1..Digits(Size(p)) /\ pos = Ends[connection][i] + 1 + m
           /\ byte = RemainingLength(Size(p))[m + 1] /\ byte \in 0..255
           /\ byte >= 128 <=> m + 1 < Digits(Size(p))
           /\ i > 1 => lengthPosition = m
           /\ \A k \in 1..m : lengthBuffer[k - 1] = RemainingLength(Size(p))[k]
  BY <1>1, LengthByte
<1>3. /\ Placed /\ Len(connection) \in Nat /\ pos \in Nat /\ pos + 1 \in 0..segment
      /\ i \in 1..(Len(connection) + 1) /\ connection \in Connections
  BY <1>1, Readable
<1>4. /\ Digits(Size(p)) \in 1..4 /\ Ends[connection][i] \in Nat /\ Size(p) \in Nat
      /\ BodyAt(i) = Ends[connection][i] + 1 + Digits(Size(p))
      /\ Ends[connection][i + 1] = BodyAt(i) + Size(p) /\ BodyAt(i) \in Nat
  BY <1>2, <1>3, PacketAt
<1>5. m + 1 = Digits(Size(p))
  <2>1. byte < 128 /\ byte \in 0..255 /\ (byte >= 128 <=> m + 1 < Digits(Size(p)))
    BY <1>1, <1>2
  <2>2. ~(m + 1 < Digits(Size(p)))
    BY <2>1
  <2>3. m + 1 \in 1..Digits(Size(p)) /\ Digits(Size(p)) \in 1..4
    BY <1>2, <1>4
  <2> QED
    BY <2>2, <2>3
<1>6. pos' = BodyAt(i)
  <2>1. pos' = pos + 1 /\ pos = Ends[connection][i] + 1 + m
    BY <1>1, <1>2
  <2>2. Ends[connection][i] \in Nat /\ BodyAt(i) = Ends[connection][i] + 1 + (m + 1)
    BY <1>4, <1>5
  <2> QED
    BY <2>1, <2>2
<1>7. /\ remainingLength' \in Nat /\ (remainingLength' > 0 <=> Size(p) > 0)
      /\ i > 1 => remainingLength' = Size(p)
      /\ lengthBuffer' \in [0..3 -> 0..255]
  BY <1>2, <1>5, LengthIs
<1>8. /\ calls = Due[connection][i - 1] /\ leaked = Lost(connection, i - 1)
      /\ packet.type = connection[i].type
  BY <1>2 DEF Inside
<1>9. p.type \in Types /\ p.qos \in 0..2
  BY PacketIs
<1>10. /\ packet \in PacketStates /\ packet.type = p.type /\ packet.qos = p.qos /\ packet.at = 0
       /\ packet.id = 0 /\ packet.read = 0 /\ packet.ignore = FALSE
  BY <1>2, <1>9, NewIs
<1>11. LengthKept'
  BY <1>1, <1>7 DEF LengthKept
<1>12. topicBuffer' \in [0..MaxTopicLength -> Nat]
  BY <1>1 DEF Inv, Typed
<1>13. CASE Size(p) = 0
  <2>1. p.type = "PINGRESP"
    <3>1. p.type # "PUBLISH" /\ p.type \notin Ids \cup {"CONNACK"} /\ p.type # "SUBACK"
      <4>1. p.type = "PUBLISH" => HeaderSize(p) + p.payload # 0
        <5>1. p.type = "PUBLISH" => HeaderSize(p) \in Nat /\ HeaderSize(p) >= 2
          BY SizeOf
        <5>2. p.payload \in Nat
          BY PacketIs
        <5> QED
          BY <5>1, <5>2
      <4> QED
        BY <1>13, <4>1, SizeOf
    <3> QED
      BY <1>9, <3>1 DEF Types
  <2>2. p.id = 0 /\ p.code = 0
    BY <1>2, <2>1 DEF Allowed
  <2>3. CallFor(connection, i) = Call("PINGRESP", 0, 0) /\ ~TooLong(connection[i])
    BY <1>2, <2>1, <2>2, CallOther
  <2>4. Finish(CallFor(connection, i))
    BY <1>1, <1>7, <1>13, <2>3 DEF Finish
  <2>5. pos' = Ends[connection][i + 1]
    BY <1>4, <1>6, <1>13
  <2>6. i + 1 \in 1..(Len(connection) + 1) /\ Between(i + 1)'
    BY <1>1, <1>2, <1>8, <2>3, <2>4, <2>5, Finished
  <2>7. Typed'
    <3>1. packet' \in PacketStates \cup {NoPacket}
      BY <2>4 DEF Finish
    <3> QED
      BY <1>1, <1>3, <1>7, <1>11, <1>12, <3>1, TypedNext
  <2> QED
    BY <1>1, <2>6, <2>7, InvFrom
<1>14. CASE Size(p) # 0
  <2>1. bufferState' = "VARIABLE_HEADER" /\ packet' = packet /\ calls' = calls
    BY <1>1, <1>4, <1>7, <1>14
  <2>2. BodyAt(i)' = BodyAt(i)
    BY <1>1 DEF BodyAt
  <2>3. /\ packet'.type = p.type /\ packet'.qos = p.qos /\ packet'.at = 0
        /\ packet'.id = 0 /\ packet'.read = 0 /\ packet'.ignore = FALSE
    BY <1>10, <2>1
  <2>4. pos' = BodyAt(i)' + 0
    BY <1>4, <1>6, <2>2
  <2>5. InFixed(i, p)' \/ InHeader(i, p)'
    <3>1. CASE p.type = "PUBLISH"
      <4>1. i > 1
        <5>1. i # 1
          BY <1>2, <3>1
        <5> QED
          BY <1>3, <5>1
      <4>2. HeaderSize(p) \in Nat /\ HeaderSize(p) >= 2 /\ p.topic \in Nat
        BY <3>1, SizeOf, PacketIs
      <4>3. 0 < HeaderSize(p) /\ 0 < 2 /\ 0 # 1 /\ 0 # p.topic + 3 /\ ~(0 >= 2)
        BY <4>2
      <4> QED
        BY <1>7, <2>1, <2>3, <2>4, <3>1, <4>1, <4>3 DEF InHeader
    <3>2. CASE p.type # "PUBLISH"
      <4>1. 0 \in {0, 1} /\ 0 # 1
        OBVIOUS
      <4>2. p.type # "PINGRESP"
        BY <1>14, SizeOf
      <4> QED
        BY <2>1, <2>3, <2>4, <3>2, <4>1, <4>2 DEF InFixed
    <3> QED
      BY <3>1, <3>2
  <2>6. Inside(i)'
    <3>1. calls' = Due[connection'][i - 1] /\ leaked' = Lost(connection', i - 1)
      BY <1>1, <1>8, <2>1
    <3>2. connection'[i] = p /\ i \in 1..Len(connection') /\ packet'.type = connection'[i].type
      BY <1>1, <1>2, <2>3
    <3> QED
      BY <1>1, <2>5, <3>1, <3>2 DEF Inside
  <2>7. Typed'
    <3>1. packet' \in PacketStates \cup {NoPacket}
      BY <1>10, <2>1
    <3> QED
      BY <1>1, <1>3, <1>7, <1>11, <1>12, <3>1, TypedNext
  <2> QED
    BY <1>1, <1>3, <2>6, <2>7, InvFrom
<1> QED
  BY <1>4, <1>13, <1>14

-----------------------------------------------------------------------------
(* The packets with a fixed length.                                         *)

LEMMA PacketTyped ==
  ASSUME Inv, NEW i \in 1..Len(connection), Inside(i), NEW p \in Packets, p = connection[i]
  PROVE  packet \in PacketStates /\ packet.type = p.type
<1>1. packet.type = p.type
  BY DEF Inside
<1>2. p.type \in Types
  BY PacketIs
<1>3. p.type # "none"
  BY <1>2 DEF Types, Ids
<1>4. packet # NoPacket
  BY <1>1, <1>3, NoPacketIs
<1> QED
  BY <1>1, <1>4 DEF Inv, Typed

\* What is known of the next byte of a packet's body.
At(i, p) ==
  /\ p = connection[i] /\ Allowed(p) /\ (p.type = "CONNACK" <=> i = 1)
  /\ i \in 1..(Len(connection) + 1) /\ connection \in Connections
  /\ calls = Due[connection][i - 1] /\ leaked = Lost(connection, i - 1) /\ lengthPosition = 0
  /\ packet \in PacketStates /\ packet.type = p.type
  /\ BodyAt(i) \in Nat /\ Size(p) \in Nat /\ Ends[connection][i + 1] = BodyAt(i) + Size(p)
  /\ Placed /\ pos \in Nat /\ pos + 1 \in 0..segment
  /\ \A k \in 1..Size(p) : Body(p)[k] \in Nat /\ (pos = BodyAt(i) + (k - 1) => byte = Body(p)[k])

LEMMA AtBody ==
  ASSUME Inv, pos < segment, bufferState \in {"VARIABLE_HEADER", "PAYLOAD"}
  PROVE  \E i \in 1..Len(connection) : \E p \in Packets :
           /\ At(i, p) /\ Inside(i)
           /\ InFixed(i, p) \/ InStatus(i, p) \/ InHeader(i, p) \/ InPayload(i, p)
<1>1. PICK i \in 1..Len(connection) : Inside(i)
  BY StateInside
<1>2. /\ Placed /\ connection \in Connections /\ Len(connection) \in Nat
      /\ pos \in Nat /\ pos + 1 \in 0..segment
  BY Readable
<1>3. /\ connection[i] \in Packets /\ Allowed(connection[i])
      /\ (connection[i].type = "CONNACK" <=> i = 1)
      /\ Size(connection[i]) \in Nat /\ BodyAt(i) \in Nat
      /\ Ends[connection][i + 1] = BodyAt(i) + Size(connection[i])
  BY <1>2, PacketAt
<1>4. PICK p \in Packets : p = connection[i]
  BY <1>3
<1>5. packet \in PacketStates /\ packet.type = p.type
  BY <1>1, <1>4, PacketTyped
<1>6. \A k \in 1..Size(p) : Body(p)[k] \in Nat
  <2>1. Body(p) \in Seq(Nat) /\ Size(p) = Len(Body(p))
    BY BodyIs DEF Size
  <2> QED
    BY <2>1
<1>7. \A k \in 1..Size(p) : pos = BodyAt(i) + (k - 1) => byte = Body(p)[k]
  BY <1>2, <1>4, ByteIs
<1>8. ~InLength(i)
  BY DEF InLength
<1>9. /\ calls = Due[connection][i - 1] /\ leaked = Lost(connection, i - 1) /\ lengthPosition = 0
      /\ InFixed(i, p) \/ InStatus(i, p) \/ InHeader(i, p) \/ InPayload(i, p)
  BY <1>1, <1>4, <1>8 DEF Inside
<1>10. i \in 1..(Len(connection) + 1)
  BY <1>2
<1>11. At(i, p)
  BY <1>2, <1>3, <1>4, <1>5, <1>6, <1>7, <1>9, <1>10 DEF At
<1> QED
  BY <1>1, <1>9, <1>11

\* A step inside a packet after its length.
LEMMA InvWithin ==
  ASSUME Inv, NEW i \in 1..Len(connection), NEW p \in Packets, At(i, p),
         UNCHANGED <<connection, segment, losses, calls, leaked, remainingLength, lengthVars>>,
         pos' \in 0..segment, packet' \in PacketStates, packet'.type = p.type,
         topicBuffer' \in [0..MaxTopicLength -> Nat],
         InFixed(i, p)' \/ InStatus(i, p)' \/ InHeader(i, p)' \/ InPayload(i, p)'
  PROVE  Inv'
<1>1. Inside(i)'
  <2>1. calls' = Due[connection'][i - 1] /\ leaked' = Lost(connection', i - 1)
        /\ lengthPosition' = 0 /\ p = connection'[i] /\ i \in 1..Len(connection')
    BY DEF At, lengthVars
  <2> QED
    BY <2>1 DEF Inside
<1>2. LengthKept'
  BY DEF Inv, Typed, LengthKept, lengthVars
<1>3. remainingLength' \in Nat
  BY DEF Inv, Typed
<1>4. Typed'
  BY <1>2, <1>3, TypedNext
<1>5. i \in 1..(Len(connection) + 1)
  BY DEF At
<1> QED
  BY <1>1, <1>4, <1>5, InvFrom

\* The last step of a packet that has a handler.
LEMMA InvFinished ==
  ASSUME Inv, NEW i \in 1..Len(connection), NEW p \in Packets, At(i, p),
         UNCHANGED <<connection, segment, losses, leaked, remainingLength, lengthVars>>,
         pos' \in 0..segment, pos' = Ends[connection][i + 1],
         topicBuffer' \in [0..MaxTopicLength -> Nat],
         ~TooLong(p), Finish(CallFor(connection, i))
  PROVE  Inv'
<1>1. i + 1 \in 1..(Len(connection) + 1) /\ Between(i + 1)'
  <2>1. /\ p = connection[i] /\ calls = Due[connection][i - 1]
        /\ leaked = Lost(connection, i - 1) /\ lengthPosition' = 0
    BY DEF At, lengthVars
  <2> QED
    BY <2>1, Finished
<1>2. LengthKept' /\ remainingLength' \in Nat /\ packet' \in PacketStates \cup {NoPacket}
  BY DEF Inv, Typed, LengthKept, lengthVars, Finish
<1>3. Typed'
  BY <1>2, TypedNext
<1> QED
  BY <1>1, <1>3, InvFrom

LEMMA FixedByte ==
  ASSUME Inv, NEW st \in Ids \cup {"CONNACK", "SUBACK"}, ReadingPacket("VARIABLE_HEADER", st),
         pos' = pos + 1, UNCHANGED topicBuffer
  PROVE  \E i \in 1..Len(connection) : \E p \in Packets :
           /\ At(i, p) /\ p.type = st /\ InFixed(i, p) /\ Size(p) >= 2
           /\ packet.at \in {0, 1} /\ pos' = BodyAt(i) + packet.at + 1
           /\ pos' \in 0..segment /\ topicBuffer' \in [0..MaxTopicLength -> Nat]
           /\ byte = Body(p)[packet.at + 1] /\ byte \in Nat
           /\ packet.at = 1 => packet.msb = Body(p)[1]
<1>1. pos < segment /\ bufferState = "VARIABLE_HEADER" /\ packet.type = st
  BY DEF ReadingPacket, Reading
<1>2. PICK i \in 1..Len(connection), p \in Packets :
           /\ At(i, p)
           /\ InFixed(i, p) \/ InStatus(i, p) \/ InHeader(i, p) \/ InPayload(i, p)
  BY <1>1, AtBody
<1>3. p.type = st
  BY <1>1, <1>2 DEF At
<1>4. st # "PUBLISH"
  BY DEF Ids
<1>5. InFixed(i, p)
  BY <1>1, <1>2, <1>3, <1>4 DEF InStatus, InHeader, InPayload
<1>6. Size(p) >= 2 /\ Size(p) \in Nat
  <2>1. CASE st \in Ids \cup {"CONNACK"}
    BY <1>3, <2>1, SizeOf
  <2>2. CASE st = "SUBACK"
    BY <1>3, <2>2, SizeOf
  <2> QED
    BY <2>1, <2>2
<1>7. /\ packet.at \in {0, 1} /\ pos = BodyAt(i) + packet.at
      /\ packet.at = 1 => packet.msb = Body(p)[1]
  BY <1>5 DEF InFixed
<1>8. /\ pos' \in 0..segment /\ BodyAt(i) \in Nat
      /\ \A k \in 1..Size(p) : Body(p)[k] \in Nat /\ (pos = BodyAt(i) + (k - 1) => byte = Body(p)[k])
  BY <1>2 DEF At
<1>9. /\ packet.at + 1 \in 1..Size(p) /\ pos = BodyAt(i) + ((packet.at + 1) - 1)
      /\ pos' = BodyAt(i) + packet.at + 1
  BY <1>6, <1>7, <1>8
<1>10. byte = Body(p)[packet.at + 1] /\ byte \in Nat
  BY <1>8, <1>9
<1>11. topicBuffer' \in [0..MaxTopicLength -> Nat]
  BY DEF Inv, Typed
<1> QED
  BY <1>2, <1>3, <1>5, <1>6, <1>7, <1>8, <1>9, <1>10, <1>11

LEMMA InvFirstByte ==
  ASSUME Inv, NEW st \in Ids \cup {"CONNACK", "SUBACK"}, ReadingPacket("VARIABLE_HEADER", st),
         pos' = pos + 1, UNCHANGED topicBuffer, packet.at = 0, FirstByte
  PROVE  Inv'
<1>1. PICK i \in 1..Len(connection), p \in Packets :
           /\ At(i, p) /\ p.type = st /\ InFixed(i, p) /\ Size(p) >= 2
           /\ packet.at \in {0, 1} /\ pos' = BodyAt(i) + packet.at + 1
           /\ pos' \in 0..segment /\ topicBuffer' \in [0..MaxTopicLength -> Nat]
           /\ byte = Body(p)[packet.at + 1] /\ byte \in Nat
           /\ packet.at = 1 => packet.msb = Body(p)[1]
  BY FixedByte
<1>2. packet \in PacketStates /\ packet.type = p.type /\ BodyAt(i) \in Nat
  BY <1>1 DEF At
<1>3. packet' = [packet EXCEPT !.at = 1, !.msb = byte] /\ bufferState' = bufferState /\ calls' = calls
  BY DEF FirstByte
<1>4. /\ packet' \in PacketStates /\ packet'.type = p.type /\ packet'.at = 1
      /\ packet'.msb = byte
  BY <1>1, <1>2, <1>3 DEF PacketStates
<1>5. UNCHANGED <<connection, segment, losses, leaked, remainingLength, lengthVars>>
  BY DEF ReadingPacket, Reading
<1>6. InFixed(i, p)'
  <2>1. BodyAt(i)' = BodyAt(i)
    BY <1>5 DEF BodyAt
  <2>2. pos' = BodyAt(i)' + packet'.at
    BY <1>1, <1>2, <1>4, <2>1
  <2>3. byte = Body(p)[1]
    BY <1>1
  <2> QED
    BY <1>1, <1>3, <1>4, <2>2, <2>3 DEF InFixed
<1> QED
  BY <1>1, <1>3, <1>4, <1>5, <1>6, InvWithin

LEMMA IdIs ==
  ASSUME NEW p \in Packets, p.type \in Ids \cup {"SUBACK"}, packet.msb = Body(p)[1],
         byte = Body(p)[2]
  PROVE  IdRead = p.id
<1>1. p.type # "PUBLISH" /\ p.id \in Nat
  BY PacketIs DEF Ids
<1>2. Body(p)[1] = p.id \div 256 /\ Body(p)[2] = p.id % 256
  BY <1>1, BodyOfOthers
<1>3. (p.id % 256) + 256 * (p.id \div 256) = p.id
  BY <1>1, TwoBytesAre
<1> QED
  BY <1>2, <1>3 DEF IdRead

LEMMA InvParseId ==
  ASSUME Inv, NEW st \in Ids, ParseId(st)
  PROVE  Inv'
<1>1. /\ st \in Ids \cup {"CONNACK", "SUBACK"} /\ ReadingPacket("VARIABLE_HEADER", st)
      /\ pos' = pos + 1 /\ UNCHANGED topicBuffer
  BY DEF ParseId
<1>2. CASE packet.at = 0 /\ FirstByte
  BY <1>1, <1>2, InvFirstByte
<1>3. CASE packet.at # 0 /\ Finish(Call(st, IdRead, 0))
  <2>1. PICK i \in 1..Len(connection), p \in Packets :
           /\ At(i, p) /\ p.type = st /\ InFixed(i, p) /\ Size(p) >= 2
           /\ packet.at \in {0, 1} /\ pos' = BodyAt(i) + packet.at + 1
           /\ pos' \in 0..segment /\ topicBuffer' \in [0..MaxTopicLength -> Nat]
           /\ byte = Body(p)[packet.at + 1] /\ byte \in Nat
           /\ packet.at = 1 => packet.msb = Body(p)[1]
    BY <1>1, FixedByte
  <2>2. packet.at = 1 /\ packet.at + 1 = 2
    BY <1>3, <2>1
  <2>3. IdRead = p.id
    BY <2>1, <2>2, IdIs
  <2>4. p.type # "PUBLISH" /\ p.type \notin {"CONNACK", "SUBACK"} /\ p = connection[i]
        /\ Allowed(p) /\ BodyAt(i) \in Nat /\ Ends[connection][i + 1] = BodyAt(i) + Size(p)
    BY <2>1 DEF At, Ids
  <2>5. p.code = 0
    BY <2>4 DEF Allowed
  <2>6. CallFor(connection, i) = Call(st, IdRead, 0) /\ ~TooLong(p)
    BY <2>1, <2>3, <2>4, <2>5, CallOther
  <2>7. Size(p) = 2
    BY <2>1, SizeOf
  <2>8. pos' = Ends[connection][i + 1]
    BY <2>1, <2>2, <2>4, <2>7
  <2>9. UNCHANGED <<connection, segment, losses, leaked, remainingLength, lengthVars>>
    BY <1>1 DEF ReadingPacket, Reading
  <2>10. Finish(CallFor(connection, i))
    BY <1>3, <2>6
  <2> QED
    BY <2>1, <2>6, <2>8, <2>9, <2>10, InvFinished
<1> QED
  BY <1>2, <1>3 DEF ParseId

LEMMA InvParseConnAck ==
  ASSUME Inv, ParseConnAck
  PROVE  Inv'
<1>1. /\ "CONNACK" \in Ids \cup {"CONNACK", "SUBACK"} /\ ReadingPacket("VARIABLE_HEADER", "CONNACK")
      /\ pos' = pos + 1 /\ UNCHANGED topicBuffer
  BY DEF ParseConnAck
<1>2. CASE packet.at = 0 /\ FirstByte
  BY <1>1, <1>2, InvFirstByte
<1>3. CASE packet.at # 0 /\ Finish(Call("CONNACK", 0, byte))
  <2>1. PICK i \in 1..Len(connection), p \in Packets :
           /\ At(i, p) /\ p.type = "CONNACK" /\ InFixed(i, p) /\ Size(p) >= 2
           /\ packet.at \in {0, 1} /\ pos' = BodyAt(i) + packet.at + 1
           /\ pos' \in 0..segment /\ topicBuffer' \in [0..MaxTopicLength -> Nat]
           /\ byte = Body(p)[packet.at + 1] /\ byte \in Nat
           /\ packet.at = 1 => packet.msb = Body(p)[1]
    BY <1>1, FixedByte
  <2>2. packet.at = 1 /\ packet.at + 1 = 2
    BY <1>3, <2>1
  <2>3. p.type # "PUBLISH" /\ p = connection[i] /\ Allowed(p) /\ BodyAt(i) \in Nat
        /\ Ends[connection][i + 1] = BodyAt(i) + Size(p)
    BY <2>1 DEF At
  <2>4. byte = p.code /\ p.id = 0
    <3>1. Body(p)[2] = p.code
      BY <2>1, <2>3, BodyOfOthers
    <3>2. p.id = 0
      BY <2>1, <2>3 DEF Allowed
    <3> QED
      BY <2>1, <2>2, <3>1, <3>2
  <2>5. CallFor(connection, i) = Call("CONNACK", 0, byte) /\ ~TooLong(p)
    BY <2>1, <2>3, <2>4, CallOther
  <2>6. Size(p) = 2
    BY <2>1, SizeOf
  <2>7. pos' = Ends[connection][i + 1]
    BY <2>1, <2>2, <2>3, <2>6
  <2>8. UNCHANGED <<connection, segment, losses, leaked, remainingLength, lengthVars>>
    BY <1>1 DEF ReadingPacket, Reading
  <2>9. Finish(CallFor(connection, i))
    BY <1>3, <2>5
  <2> QED
    BY <2>1, <2>5, <2>7, <2>8, <2>9, InvFinished
<1> QED
  BY <1>2, <1>3 DEF ParseConnAck

LEMMA InvParseSubAckId ==
  ASSUME Inv, ParseSubAckId
  PROVE  Inv'
<1>1. /\ "SUBACK" \in Ids \cup {"CONNACK", "SUBACK"} /\ ReadingPacket("VARIABLE_HEADER", "SUBACK")
      /\ pos' = pos + 1 /\ UNCHANGED topicBuffer
  BY DEF ParseSubAckId
<1>2. CASE packet.at = 0 /\ FirstByte
  BY <1>1, <1>2, InvFirstByte
<1>3. CASE /\ packet.at # 0 /\ packet' = [packet EXCEPT !.id = IdRead]
           /\ bufferState' = "PAYLOAD" /\ UNCHANGED calls
  <2>1. PICK i \in 1..Len(connection), p \in Packets :
           /\ At(i, p) /\ p.type = "SUBACK" /\ InFixed(i, p) /\ Size(p) >= 2
           /\ packet.at \in {0, 1} /\ pos' = BodyAt(i) + packet.at + 1
           /\ pos' \in 0..segment /\ topicBuffer' \in [0..MaxTopicLength -> Nat]
           /\ byte = Body(p)[packet.at + 1] /\ byte \in Nat
           /\ packet.at = 1 => packet.msb = Body(p)[1]
    BY <1>1, FixedByte
  <2>2. packet.at = 1 /\ packet.at + 1 = 2
    BY <1>3, <2>1
  <2>3. IdRead = p.id /\ p.id \in Nat
    BY <2>1, <2>2, IdIs, PacketIs
  <2>4. packet \in PacketStates /\ packet.type = p.type /\ BodyAt(i) \in Nat
    BY <2>1 DEF At
  <2>5. packet' \in PacketStates /\ packet'.type = p.type /\ packet'.id = p.id
    BY <1>3, <2>3, <2>4 DEF PacketStates
  <2>6. UNCHANGED <<connection, segment, losses, leaked, remainingLength, lengthVars>>
    BY <1>1 DEF ReadingPacket, Reading
  <2>7. InStatus(i, p)'
    <3>1. BodyAt(i)' = BodyAt(i)
      BY <2>6 DEF BodyAt
    <3>2. pos' = BodyAt(i)' + 2
      BY <2>1, <2>2, <2>4, <3>1
    <3> QED
      BY <1>3, <2>1, <2>5, <3>2 DEF InStatus
  <2> QED
    BY <1>3, <2>1, <2>5, <2>6, <2>7, InvWithin
<1> QED
  BY <1>2, <1>3 DEF ParseSubAckId

LEMMA InvParseSubAckStatus ==
  ASSUME Inv, ParseSubAckStatus
  PROVE  Inv'
<1>1. /\ pos < segment /\ bufferState = "PAYLOAD" /\ packet.type = "SUBACK"
      /\ UNCHANGED <<connection, segment, losses, leaked, remainingLength, lengthVars>>
      /\ pos' = pos + 1 /\ topicBuffer' = topicBuffer /\ Finish(Call("SUBACK", packet.id, byte))
  BY DEF ParseSubAckStatus, ReadingPacket, Reading
<1>2. PICK i \in 1..Len(connection), p \in Packets :
           /\ At(i, p)
           /\ InFixed(i, p) \/ InStatus(i, p) \/ InHeader(i, p) \/ InPayload(i, p)
  BY <1>1, AtBody
<1>3. /\ p.type = "SUBACK" /\ p = connection[i] /\ BodyAt(i) \in Nat
      /\ Ends[connection][i + 1] = BodyAt(i) + Size(p)
      /\ pos + 1 \in 0..segment
      /\ \A k \in 1..Size(p) : pos = BodyAt(i) + (k - 1) => byte = Body(p)[k]
  BY <1>1, <1>2 DEF At
<1>4. pos = BodyAt(i) + 2 /\ packet.id = p.id
  BY <1>1, <1>2, <1>3 DEF InStatus, InFixed, InHeader, InPayload
<1>5. Size(p) = 3 /\ Body(p)[3] = p.code
  BY <1>3, SizeOf, BodyOfOthers
<1>6. byte = p.code
  <2>1. 3 \in 1..Size(p) /\ pos = BodyAt(i) + (3 - 1)
    BY <1>3, <1>4, <1>5
  <2> QED
    BY <1>3, <1>5, <2>1
<1>7. CallFor(connection, i) = Call("SUBACK", packet.id, byte) /\ ~TooLong(p)
  BY <1>3, <1>4, <1>6, CallOther
<1>8. pos' = Ends[connection][i + 1] /\ pos' \in 0..segment
  BY <1>1, <1>3, <1>4, <1>5
<1>9. topicBuffer' \in [0..MaxTopicLength -> Nat]
  BY <1>1 DEF Inv, Typed
<1>10. Finish(CallFor(connection, i))
  BY <1>1, <1>7
<1> QED
  BY <1>1, <1>2, <1>7, <1>8, <1>9, <1>10, InvFinished

-----------------------------------------------------------------------------
(* Messages.                                                                *)

LEMMA TopicIs ==
  ASSUME NEW b \in [0..MaxTopicLength -> Nat], NEW t \in 0..MaxTopicLength, NEW e \in Nat,
         b[t] = 0, \A k \in 0..(t - 1) : k < t => b[k] = e + k + 1
  PROVE  Topic(b) = [k \in 1..t |-> e + k]
<1> DEFINE S == {j \in DOMAIN b : b[j] = 0}
<1>1. MaxTopicLength \in Nat /\ t \in Nat /\ t <= MaxTopicLength
  BY ParserAssumption
<1>2. DOMAIN b = 0..MaxTopicLength
  OBVIOUS
<1>3. t \in S
  BY <1>2
<1>4. \A j \in S : t <= j
  <2> SUFFICES ASSUME NEW j \in S, j < t PROVE FALSE
    BY <1>1, <1>2
  <2>1. j \in 0..(t - 1)
    BY <1>1, <1>2
  <2>2. b[j] = e + j + 1
    BY <2>1
  <2> QED
    BY <2>1, <2>2
<1>5. Min(S) = t
  <2>1. S \subseteq Nat
    BY <1>1, <1>2
  <2> HIDE DEF S
  <2>2. \A x \in S : (\A y \in S : x <= y) => x = t
    BY <1>3, <1>4, <2>1
  <2> QED
    BY <1>3, <1>4, <2>2 DEF Min
<1>6. Topic(b) = [i \in 1..t |-> b[i - 1]]
  BY <1>5 DEF Topic
<1>7. \A k \in 1..t : b[k - 1] = e + k
  <2> SUFFICES ASSUME NEW k \in 1..t PROVE b[k - 1] = e + k
    OBVIOUS
  <2>1. k - 1 \in 0..(t - 1) /\ k - 1 < t /\ (k - 1) + 1 = k
    BY <1>1
  <2>2. b[k - 1] = e + (k - 1) + 1
    BY <2>1
  <2> QED
    BY <2>1, <2>2
<1> QED
  BY <1>6, <1>7

LEMMA MessageIs ==
  ASSUME NEW p \in Packets, p.type = "PUBLISH", Allowed(p)
  PROVE  /\ p.topic \in Nat /\ p.topic > 0 /\ p.payload \in Nat /\ p.id \in Nat /\ p.qos \in 0..2
         /\ HeaderSize(p) \in Nat /\ HeaderSize(p) = p.topic + (IF p.qos = 0 THEN 2 ELSE 4)
         /\ Size(p) = HeaderSize(p) + p.payload
         /\ TooLong(p) <=> p.topic > MaxTopicLength
<1>1. p.topic \in Nat /\ p.payload \in Nat /\ p.id \in Nat /\ p.qos \in 0..2
  BY PacketIs
<1>2. p.topic > 0
  BY DEF Allowed
<1>3. HeaderSize(p) \in Nat /\ HeaderSize(p) = p.topic + (IF p.qos = 0 THEN 2 ELSE 4)
  BY <1>1 DEF HeaderSize
<1>4. Size(p) = HeaderSize(p) + p.payload
  BY SizeOf
<1> QED
  BY <1>1, <1>2, <1>3, <1>4 DEF TooLong

\* The call due for a message, by where its body begins.
LEMMA CallMessage ==
  ASSUME NEW i \in 1..Len(connection), NEW p \in Packets, At(i, p), p.type = "PUBLISH"
  PROVE  CallFor(connection, i)
           = MessageCall([id |-> IF p.qos = 0 THEN 0 ELSE p.id, qos |-> p.qos],
                         [k \in 1..p.topic |-> (BodyAt(i) + 2) + k],
                         IF p.payload = 0 THEN <<0, 0>>
                         ELSE <<BodyAt(i) + HeaderSize(p), Ends[connection][i + 1]>>)
<1> DEFINE from == Ends[connection][i + 1] - p.payload
<1>1. /\ p = connection[i] /\ Allowed(p) /\ BodyAt(i) \in Nat
      /\ Ends[connection][i + 1] = BodyAt(i) + Size(p)
  BY DEF At
<1>2. /\ p.topic \in Nat /\ p.payload \in Nat /\ HeaderSize(p) \in Nat
      /\ HeaderSize(p) = p.topic + (IF p.qos = 0 THEN 2 ELSE 4)
      /\ Size(p) = HeaderSize(p) + p.payload
  BY <1>1, MessageIs
<1>3. from = BodyAt(i) + HeaderSize(p)
  BY <1>1, <1>2
<1>4. from - p.topic - (IF p.qos = 0 THEN 0 ELSE 2) = BodyAt(i) + 2
  BY <1>1, <1>2, <1>3
<1>5. CallFor(connection, i)
        = MessageCall([id |-> IF p.qos = 0 THEN 0 ELSE p.id, qos |-> p.qos],
                      [k \in 1..p.topic |-> (from - p.topic - (IF p.qos = 0 THEN 0 ELSE 2)) + k],
                      IF p.payload = 0 THEN <<0, 0>> ELSE <<from, Ends[connection][i + 1]>>)
  BY <1>1 DEF CallFor
<1> HIDE DEF from
<1> QED
  BY <1>3, <1>4, <1>5

\* A message is complete: its handler has the places of its topic and payload.
LEMMA InvComplete ==
  ASSUME Inv, NEW i \in 1..Len(connection), NEW p \in Packets, At(i, p), p.type = "PUBLISH",
         UNCHANGED <<connection, segment, losses, leaked, remainingLength, lengthVars>>,
         pos' \in 0..segment, pos' = Ends[connection][i + 1],
         topicBuffer' \in [0..MaxTopicLength -> Nat],
         NEW q \in PacketStates, q.ignore <=> TooLong(p), q.qos = p.qos,
         q.id = (IF p.qos = 0 THEN 0 ELSE p.id), ~TooLong(p) => TopicRead(i, p, p.topic)',
         NEW payload, payload = (IF p.payload = 0 THEN <<0, 0>>
                                 ELSE <<BodyAt(i) + HeaderSize(p), Ends[connection][i + 1]>>),
         Complete(q, payload)
  PROVE  Inv'
<1>1. /\ p = connection[i] /\ Allowed(p) /\ BodyAt(i) \in Nat /\ connection \in Connections
      /\ calls = Due[connection][i - 1] /\ leaked = Lost(connection, i - 1) /\ lengthPosition = 0
      /\ Placed
  BY DEF At
<1>2. /\ p.topic \in Nat /\ (TooLong(p) <=> p.topic > MaxTopicLength)
  BY <1>1, MessageIs
<1>3. CASE TooLong(p)
  <2>1. bufferState' = "NONE" /\ packet' = q /\ calls' = calls
    BY <1>3 DEF Complete
  <2>2. Due[connection][i] = Due[connection][i - 1]
    BY <1>1, <1>3, DueNext
  <2>3. Len(connection) \in Nat
    BY <1>1, ConnectionIs
  <2>4. i + 1 \in 1..(Len(connection) + 1) /\ (i + 1) - 1 = i /\ (i + 1) - 2 = i - 1 /\ i + 1 > 1
    BY <2>3
  <2>5. packet' # NoPacket /\ packet' \in PacketStates
    BY <2>1, NoPacketIs
  <2>6. lengthPosition' = 0
    BY <1>1 DEF lengthVars
  <2>7. Between(i + 1)'
    BY <1>1, <1>3, <2>1, <2>2, <2>4, <2>5, <2>6 DEF Between
  <2>8. LengthKept' /\ remainingLength' \in Nat
    BY DEF Inv, Typed, LengthKept, lengthVars
  <2>9. Typed'
    BY <2>5, <2>8, TypedNext
  <2> QED
    BY <2>4, <2>7, <2>9, InvFrom
<1>4. CASE ~TooLong(p)
  <2>1. /\ bufferState' = "NONE" /\ packet' = NoPacket
        /\ calls' = Append(calls, MessageCall(q, Topic(topicBuffer'), payload))
    BY <1>4 DEF Complete
  <2>2. Topic(topicBuffer') = [k \in 1..p.topic |-> (BodyAt(i) + 2) + k]
    <3>1. BodyAt(i)' = BodyAt(i)
      BY DEF BodyAt
    <3>2. PICK b \in [0..MaxTopicLength -> Nat] : b = topicBuffer'
      OBVIOUS
    <3>3. b[p.topic] = 0 /\ \A k \in 0..(p.topic - 1) : k < p.topic => b[k] = BodyAt(i) + 2 + k + 1
      BY <1>4, <3>1, <3>2 DEF TopicRead
    <3>4. p.topic \in 0..MaxTopicLength
      BY <1>2, <1>4, ParserAssumption
    <3>5. PICK e \in Nat : e = BodyAt(i) + 2
      BY <1>1
    <3>6. \A k \in 0..(p.topic - 1) : k < p.topic => b[k] = e + k + 1
      BY <3>3, <3>5
    <3>7. Topic(b) = [k \in 1..p.topic |-> e + k]
      BY <3>3, <3>4, <3>6, TopicIs
    <3> QED
      BY <3>2, <3>5, <3>7
  <2>3. CallFor(connection, i) = MessageCall(q, Topic(topicBuffer'), payload)
    <3>1. CallFor(connection, i)
           = MessageCall([id |-> IF p.qos = 0 THEN 0 ELSE p.id, qos |-> p.qos],
                         [k \in 1..p.topic |-> (BodyAt(i) + 2) + k],
                         IF p.payload = 0 THEN <<0, 0>>
                         ELSE <<BodyAt(i) + HeaderSize(p), Ends[connection][i + 1]>>)
      BY CallMessage
    <3>2. \A t, u : MessageCall([id |-> IF p.qos = 0 THEN 0 ELSE p.id, qos |-> p.qos], t, u)
                     = MessageCall(q, t, u)
      BY DEF MessageCall
    <3> QED
      BY <2>2, <3>1, <3>2
  <2>4. Finish(CallFor(connection, i))
    BY <2>1, <2>3 DEF Finish
  <2> QED
    BY <1>4, <2>4, InvFinished
<1> QED
  BY <1>3, <1>4

\* The header of a message ends: with its last byte if it has no payload.
LEMMA InvPrepare ==
  ASSUME Inv, NEW i \in 1..Len(connection), NEW p \in Packets, At(i, p), p.type = "PUBLISH",
         UNCHANGED <<connection, segment, losses, leaked, remainingLength, lengthVars>>,
         pos' \in 0..segment, pos' = BodyAt(i) + HeaderSize(p),
         topicBuffer' \in [0..MaxTopicLength -> Nat], remainingLength = Size(p),
         packet.at + 1 = HeaderSize(p),
         NEW q \in PacketStates, q.type = "PUBLISH", q.ignore <=> TooLong(p), q.qos = p.qos, q.read = 0,
         q.id = (IF p.qos = 0 THEN 0 ELSE p.id), ~TooLong(p) => TopicRead(i, p, p.topic)',
         PreparePayload(q)
  PROVE  Inv'
<1>1. /\ Allowed(p) /\ BodyAt(i) \in Nat /\ Ends[connection][i + 1] = BodyAt(i) + Size(p)
  BY DEF At
<1>2. /\ p.payload \in Nat /\ HeaderSize(p) \in Nat /\ Size(p) = HeaderSize(p) + p.payload
  BY <1>1, MessageIs
<1>3. remainingLength - (packet.at + 1) = p.payload
  BY <1>2
<1>4. CASE p.payload = 0
  <2>1. Complete(q, <<0, 0>>)
    BY <1>3, <1>4 DEF PreparePayload
  <2>2. pos' = Ends[connection][i + 1]
    BY <1>1, <1>2, <1>4
  <2> QED
    BY <1>4, <2>1, <2>2, InvComplete
<1>5. CASE p.payload # 0
  <2>1. bufferState' = "PAYLOAD" /\ packet' = [q EXCEPT !.payloadLength = p.payload]
        /\ calls' = calls
    BY <1>3, <1>5 DEF PreparePayload
  <2>2. /\ packet' \in PacketStates /\ packet'.type = "PUBLISH" /\ packet'.qos = p.qos
        /\ packet'.id = (IF p.qos = 0 THEN 0 ELSE p.id) /\ packet'.payloadLength = p.payload
        /\ packet'.read = 0 /\ packet'.ignore = q.ignore
    BY <1>2, <2>1 DEF PacketStates
  <2>3. InPayload(i, p)'
    <3>1. BodyAt(i)' = BodyAt(i)
      BY DEF BodyAt
    <3>2. pos' = BodyAt(i)' + HeaderSize(p) + packet'.read /\ packet'.read < p.payload
      BY <1>1, <1>2, <1>5, <2>2, <3>1
    <3> QED
      BY <2>1, <2>2, <3>2 DEF InPayload
  <2> QED
    BY <2>1, <2>2, <2>3, InvWithin
<1> QED
  BY <1>4, <1>5

LEMMA HeaderByte ==
  ASSUME Inv, Countable, ReadingPacket("VARIABLE_HEADER", "PUBLISH"), pos' = pos + 1
  PROVE  \E i \in 1..Len(connection) : \E p \in Packets :
           /\ At(i, p) /\ p.type = "PUBLISH" /\ Allowed(p) /\ InHeader(i, p)
           /\ packet \in PacketStates /\ packet.type = "PUBLISH"
           /\ packet.at \in Nat /\ packet.at < HeaderSize(p) /\ HeaderSize(p) <= 256
           /\ pos = BodyAt(i) + packet.at /\ BodyAt(i) \in Nat
           /\ pos' = BodyAt(i) + packet.at + 1 /\ pos' \in 0..segment
           /\ byte = Body(p)[packet.at + 1] /\ byte \in Nat
           /\ BodyAt(i)' = BodyAt(i)
           /\ UNCHANGED <<connection, segment, losses, leaked, remainingLength, lengthVars>>
<1>1. /\ pos < segment /\ bufferState = "VARIABLE_HEADER" /\ packet.type = "PUBLISH"
      /\ UNCHANGED <<connection, segment, losses, leaked, remainingLength, lengthVars>>
  BY DEF ReadingPacket, Reading
<1>2. PICK i \in 1..Len(connection), p \in Packets :
           /\ At(i, p)
           /\ InFixed(i, p) \/ InStatus(i, p) \/ InHeader(i, p) \/ InPayload(i, p)
  BY <1>1, AtBody
<1>3. /\ p.type = "PUBLISH" /\ Allowed(p) /\ p = connection[i] /\ connection \in Connections
      /\ packet \in PacketStates /\ BodyAt(i) \in Nat /\ pos + 1 \in 0..segment
      /\ \A k \in 1..Size(p) : Body(p)[k] \in Nat /\ (pos = BodyAt(i) + (k - 1) => byte = Body(p)[k])
  BY <1>1, <1>2 DEF At
<1>4. InHeader(i, p)
  BY <1>1, <1>2, <1>3 DEF InFixed, InStatus, InPayload
<1>5. packet.at \in Nat
  BY <1>3 DEF PacketStates
<1>6. packet.at < HeaderSize(p) /\ pos = BodyAt(i) + packet.at
  BY <1>4 DEF InHeader
<1>7. HeaderSize(p) \in Nat /\ Size(p) = HeaderSize(p) + p.payload /\ p.payload \in Nat
  BY <1>3, MessageIs
<1>8. HeaderSize(p) <= 256
  <2>1. i \in DOMAIN connection
    BY <1>3, ConnectionIs
  <2> QED
    BY <1>3, <2>1 DEF Countable
<1>9. /\ packet.at + 1 \in 1..Size(p) /\ pos = BodyAt(i) + ((packet.at + 1) - 1)
      /\ pos' = BodyAt(i) + packet.at + 1
  BY <1>3, <1>5, <1>6, <1>7
<1>10. byte = Body(p)[packet.at + 1] /\ byte \in Nat
  BY <1>3, <1>9
<1>11. BodyAt(i)' = BodyAt(i)
  BY <1>1 DEF BodyAt
<1>12. pos' \in 0..segment
  BY <1>3
<1> QED
  BY <1>1, <1>2, <1>3, <1>4, <1>5, <1>6, <1>8, <1>9, <1>10, <1>11, <1>12

LEMMA Moved ==
  ASSUME NEW q \in PacketStates, NEW n \in Nat
  PROVE  LET r == [q EXCEPT !.at = n] IN
         /\ r \in PacketStates /\ r.type = q.type /\ r.at = n /\ r.msb = q.msb
         /\ r.topicLength = q.topicLength /\ r.qos = q.qos /\ r.id = q.id /\ r.read = q.read
         /\ r.ignore = q.ignore
  BY DEF PacketStates

LEMMA InvParseTopicLength ==
  ASSUME Inv, Countable, ParseTopicLength
  PROVE  Inv'
<1>1. /\ ReadingPacket("VARIABLE_HEADER", "PUBLISH") /\ packet.at < 2 /\ pos' = pos + 1
      /\ bufferState' = bufferState /\ calls' = calls
  BY DEF ParseTopicLength
<1>2. PICK i \in 1..Len(connection), p \in Packets :
           /\ At(i, p) /\ p.type = "PUBLISH" /\ Allowed(p) /\ InHeader(i, p)
           /\ packet \in PacketStates /\ packet.type = "PUBLISH"
           /\ packet.at \in Nat /\ packet.at < HeaderSize(p) /\ HeaderSize(p) <= 256
           /\ pos = BodyAt(i) + packet.at /\ BodyAt(i) \in Nat
           /\ pos' = BodyAt(i) + packet.at + 1 /\ pos' \in 0..segment
           /\ byte = Body(p)[packet.at + 1] /\ byte \in Nat
           /\ BodyAt(i)' = BodyAt(i)
           /\ UNCHANGED <<connection, segment, losses, leaked, remainingLength, lengthVars>>
  BY <1>1, HeaderByte
<1>3. /\ p.topic \in Nat /\ p.topic > 0
      /\ HeaderSize(p) \in Nat /\ HeaderSize(p) = p.topic + (IF p.qos = 0 THEN 2 ELSE 4)
      /\ TooLong(p) <=> p.topic > MaxTopicLength
  BY <1>2, MessageIs
<1>4. Body(p)[1] = p.topic \div 256 /\ Body(p)[2] = p.topic % 256
  BY <1>2, BodyOfMessage
<1>5. HeaderSize(p) >= 3
  BY <1>3
<1>6. /\ bufferState = "VARIABLE_HEADER" /\ remainingLength = Size(p)
      /\ packet.qos = p.qos /\ packet.id = 0 /\ packet.read = 0
      /\ packet.at < 2 => packet.ignore = FALSE
      /\ packet.at = 1 => packet.msb = p.topic \div 256
  BY <1>2 DEF InHeader, PacketStates
<1>7. topicBuffer \in [0..MaxTopicLength -> Nat]
  BY DEF Inv, Typed
<1>8. CASE /\ packet.at = 0
           /\ packet' = [packet EXCEPT !.at = 1, !.msb = byte]
           /\ topicBuffer' = topicBuffer
  <2>1. /\ packet' \in PacketStates /\ packet'.type = "PUBLISH" /\ packet'.at = 1
        /\ packet'.msb = byte /\ packet'.qos = p.qos /\ packet'.id = 0 /\ packet'.read = 0
        /\ packet'.ignore = FALSE
    <3>1. packet \in PacketStates /\ byte \in Nat /\ 1 \in Nat /\ packet.type = "PUBLISH"
      BY <1>2
    <3>2. packet.ignore = FALSE
      BY <1>6, <1>8
    <3>3. packet.qos = p.qos /\ packet.id = 0 /\ packet.read = 0
      BY <1>6
    <3>4. PICK q \in PacketStates : q = packet
      BY <3>1
    <3>5. packet' = [q EXCEPT !.at = 1, !.msb = byte]
      BY <1>8, <3>4
    <3>6. /\ packet' \in PacketStates /\ packet'.type = q.type /\ packet'.at = 1
          /\ packet'.msb = byte /\ packet'.qos = q.qos /\ packet'.id = q.id
          /\ packet'.read = q.read /\ packet'.ignore = q.ignore
      BY <3>1, <3>5 DEF PacketStates
    <3>7. packet'.ignore = FALSE
      BY <3>2, <3>4, <3>6, Zenon
    <3> QED
      BY <3>1, <3>3, <3>4, <3>6, <3>7
  <2>2. byte = p.topic \div 256
    <3>1. packet.at + 1 = 1
      BY <1>8
    <3> QED
      BY <1>2, <1>4, <3>1
  <2>3. /\ packet'.at < HeaderSize(p) /\ packet'.at # p.topic + 3 /\ ~(packet'.at >= 2)
        /\ pos' = BodyAt(i)' + packet'.at
    BY <1>2, <1>3, <1>5, <1>8, <2>1
  <2>4. InHeader(i, p)'
    BY <1>1, <1>2, <1>6, <2>1, <2>2, <2>3 DEF InHeader
  <2> QED
    BY <1>1, <1>2, <1>7, <1>8, <2>1, <2>4, InvWithin
<1>9. CASE /\ packet.at = 1
           /\ packet' = [packet EXCEPT !.at = 2, !.topicLength = IdRead,
                                       !.ignore = packet.ignore \/ Ignored(IdRead)]
           /\ topicBuffer' = IF Ignored(IdRead) THEN topicBuffer ELSE EndMarked(IdRead)
  <2>1. IdRead = p.topic
    <3>1. (p.topic % 256) + 256 * (p.topic \div 256) = p.topic
      BY <1>3, TwoBytesAre
    <3>2. byte = p.topic % 256
      <4>1. packet.at + 1 = 2
        BY <1>9
      <4> QED
        BY <1>2, <1>4, <4>1
    <3>3. packet.msb = p.topic \div 256
      BY <1>6, <1>9
    <3> QED
      BY <3>1, <3>2, <3>3 DEF IdRead
  <2>2. Ignored(IdRead) <=> TooLong(p)
    BY <1>3, <2>1 DEF Ignored
  <2>3. packet' = [packet EXCEPT !.at = 2, !.topicLength = p.topic, !.ignore = TooLong(p)]
    <3>1. packet.ignore = FALSE
      BY <1>6, <1>9
    <3>2. packet.ignore \/ Ignored(IdRead) <=> TooLong(p)
      BY <2>2, <3>1
    <3>3. TooLong(p) \in BOOLEAN /\ (packet.ignore \/ Ignored(IdRead)) \in BOOLEAN
      BY DEF TooLong
    <3> QED
      BY <1>9, <2>1, <3>2, <3>3
  <2>4. /\ packet' \in PacketStates /\ packet'.type = "PUBLISH" /\ packet'.at = 2
        /\ packet'.topicLength = p.topic /\ packet'.qos = p.qos /\ packet'.id = 0
        /\ packet'.read = 0 /\ (packet'.ignore <=> TooLong(p))
    <3>1. TooLong(p) \in BOOLEAN
      BY DEF TooLong
    <3> QED
      BY <1>2, <1>3, <1>6, <2>3, <3>1 DEF PacketStates
  <2>5. topicBuffer' \in [0..MaxTopicLength -> Nat] /\ (~TooLong(p) => TopicRead(i, p, 0)')
    <3>1. CASE TooLong(p)
      BY <1>7, <1>9, <2>2, <3>1
    <3>2. CASE ~TooLong(p)
      <4>1. p.topic \in 0..MaxTopicLength
        BY <1>3, <3>2, ParserAssumption
      <4>2. topicBuffer' = [topicBuffer EXCEPT ![p.topic] = 0]
        BY <1>9, <2>1, <2>2, <3>2 DEF EndMarked
      <4>3. topicBuffer' \in [0..MaxTopicLength -> Nat] /\ topicBuffer'[p.topic] = 0
        BY <1>7, <4>1, <4>2
      <4>4. \A k \in 0..(p.topic - 1) : ~(k < 0)
        BY <1>3
      <4> QED
        BY <4>3, <4>4 DEF TopicRead
    <3> QED
      BY <3>1, <3>2
  <2>6. /\ packet'.at < HeaderSize(p) /\ packet'.at # p.topic + 3 /\ packet'.at # 1 /\ ~(packet'.at < 2)
        /\ pos' = BodyAt(i)' + packet'.at /\ packet'.at - 2 = 0
    BY <1>2, <1>3, <1>5, <1>9, <2>4
  <2>7. InHeader(i, p)'
    <3>1. ~TooLong(p) => TopicRead(i, p, packet.at - 2)'
      BY <2>5, <2>6 DEF TopicRead
    <3> QED
      BY <1>1, <1>2, <1>6, <2>4, <2>6, <3>1 DEF InHeader
  <2> QED
    BY <1>1, <1>2, <2>4, <2>5, <2>7, InvWithin
<1> QED
  BY <1>8, <1>9 DEF ParseTopicLength

LEMMA InvParseTopic ==
  ASSUME Inv, Countable, ParseTopic
  PROVE  Inv'
<1>1. /\ ReadingPacket("VARIABLE_HEADER", "PUBLISH") /\ pos' = pos + 1
      /\ packet.at \in 2..(packet.topicLength + 1)
      /\ topicBuffer' = IF packet.ignore THEN topicBuffer
                        ELSE [topicBuffer EXCEPT ![packet.at - 2] = pos + 1]
  BY DEF ParseTopic
<1>2. PICK i \in 1..Len(connection), p \in Packets :
           /\ At(i, p) /\ p.type = "PUBLISH" /\ Allowed(p) /\ InHeader(i, p)
           /\ packet \in PacketStates /\ packet.type = "PUBLISH"
           /\ packet.at \in Nat /\ packet.at < HeaderSize(p) /\ HeaderSize(p) <= 256
           /\ pos = BodyAt(i) + packet.at /\ BodyAt(i) \in Nat
           /\ pos' = BodyAt(i) + packet.at + 1 /\ pos' \in 0..segment
           /\ byte = Body(p)[packet.at + 1] /\ byte \in Nat
           /\ BodyAt(i)' = BodyAt(i)
           /\ UNCHANGED <<connection, segment, losses, leaked, remainingLength, lengthVars>>
  BY <1>1, HeaderByte
<1>3. /\ p.topic \in Nat /\ p.topic > 0 /\ p.qos \in 0..2
      /\ HeaderSize(p) \in Nat /\ HeaderSize(p) = p.topic + (IF p.qos = 0 THEN 2 ELSE 4)
      /\ TooLong(p) <=> p.topic > MaxTopicLength
  BY <1>2, MessageIs
<1>4. packet.at >= 2 /\ packet.topicLength \in Nat /\ packet.at <= packet.topicLength + 1
  BY <1>1, <1>2 DEF PacketStates
<1>5. /\ bufferState = "VARIABLE_HEADER" /\ remainingLength = Size(p)
      /\ packet.qos = p.qos /\ packet.id = 0 /\ packet.read = 0 /\ packet.topicLength = p.topic
      /\ (packet.ignore <=> TooLong(p)) /\ (~TooLong(p) => TopicRead(i, p, packet.at - 2))
  BY <1>2, <1>4 DEF InHeader
<1>6. PICK a \in Nat : a = packet.at /\ a >= 2 /\ a <= p.topic + 1
  BY <1>2, <1>4, <1>5
<1>7. topicBuffer' \in [0..MaxTopicLength -> Nat] /\ (~TooLong(p) => TopicRead(i, p, a - 1)')
  <2>1. topicBuffer \in [0..MaxTopicLength -> Nat]
    BY DEF Inv, Typed
  <2>2. CASE TooLong(p)
    BY <1>1, <1>5, <2>1, <2>2
  <2>3. CASE ~TooLong(p)
    <3>1. topicBuffer' = [topicBuffer EXCEPT ![a - 2] = pos + 1]
      BY <1>1, <1>5, <1>6, <2>3
    <3>2. /\ p.topic \in 0..MaxTopicLength /\ a - 2 \in 0..MaxTopicLength /\ a - 2 # p.topic
      BY <1>3, <1>6, <2>3, ParserAssumption
    <3>3. pos + 1 \in Nat /\ pos + 1 = BodyAt(i) + 2 + (a - 2) + 1
      BY <1>2, <1>6
    <3>4. /\ topicBuffer[p.topic] = 0
          /\ \A k \in 0..(p.topic - 1) : k < a - 2 => topicBuffer[k] = BodyAt(i) + 2 + k + 1
      BY <1>5, <1>6, <2>3 DEF TopicRead
    <3>5. topicBuffer' \in [0..MaxTopicLength -> Nat]
      BY <2>1, <3>1, <3>2, <3>3
    <3>6. topicBuffer'[p.topic] = 0
      BY <2>1, <3>1, <3>2, <3>4
    <3>7. \A k \in 0..(p.topic - 1) : k < a - 1 => topicBuffer'[k] = BodyAt(i) + 2 + k + 1
      <4> SUFFICES ASSUME NEW k \in 0..(p.topic - 1), k < a - 1
                   PROVE  topicBuffer'[k] = BodyAt(i) + 2 + k + 1
        OBVIOUS
      <4>1. k \in 0..MaxTopicLength
        <5>1. p.topic \in Nat /\ p.topic <= MaxTopicLength /\ MaxTopicLength \in Nat
          BY <1>3, <2>3, ParserAssumption
        <5> QED
          BY <5>1
      <4>2. CASE k = a - 2
        BY <2>1, <3>1, <3>2, <3>3, <4>2
      <4>3. CASE k # a - 2
        <5>1. k < a - 2
          BY <1>3, <1>6, <4>3
        <5>2. topicBuffer'[k] = topicBuffer[k]
          BY <2>1, <3>1, <4>1, <4>3
        <5> QED
          BY <3>4, <5>1, <5>2
      <4> QED
        BY <4>2, <4>3
    <3> QED
      BY <1>2, <3>5, <3>6, <3>7 DEF TopicRead
  <2> QED
    BY <2>2, <2>3
<1>8. CASE LastOfTopic /\ packet.qos = 0 /\ PreparePayload(packet)
  <2>1. a = p.topic + 1 /\ p.qos = 0
    BY <1>5, <1>6, <1>8 DEF LastOfTopic
  <2>2. packet.at + 1 = HeaderSize(p) /\ pos' = BodyAt(i) + HeaderSize(p)
    <3>1. HeaderSize(p) = p.topic + 2 /\ p.topic \in Nat
      BY <1>3, <2>1
    <3>2. packet.at = p.topic + 1 /\ pos' = BodyAt(i) + packet.at + 1 /\ BodyAt(i) \in Nat
      BY <1>2, <1>6, <2>1
    <3> QED
      BY <3>1, <3>2
  <2>3. ~TooLong(p) => TopicRead(i, p, p.topic)'
    <3>1. a - 1 = p.topic
      BY <1>3, <2>1
    <3> QED
      BY <1>7, <3>1
  <2>4. packet.id = (IF p.qos = 0 THEN 0 ELSE p.id)
    BY <1>5, <2>1
  <2> QED
    BY <1>2, <1>5, <1>7, <1>8, <2>2, <2>3, <2>4, InvPrepare
<1>9. CASE /\ ~(LastOfTopic /\ packet.qos = 0)
           /\ packet' = [packet EXCEPT !.at = NextPosition(@)]
           /\ bufferState' = bufferState /\ calls' = calls
  <2>1. a + 1 < HeaderSize(p) /\ a + 1 <= p.topic + 2
    <3>1. a # p.topic + 1 \/ p.qos # 0
      BY <1>5, <1>6, <1>9 DEF LastOfTopic
    <3> QED
      BY <1>3, <1>6, <3>1
  <2>2. NextPosition(packet.at) = a + 1
    <3>1. a + 1 \in 0..255
      BY <1>2, <1>3, <2>1
    <3>2. (a + 1) % 256 = a + 1
      BY <3>1
    <3> QED
      BY <1>6, <3>2 DEF NextPosition
  <2>3. packet' = [packet EXCEPT !.at = a + 1]
    BY <1>9, <2>2
  <2>4. /\ packet' \in PacketStates /\ packet'.type = "PUBLISH" /\ packet'.at = a + 1
        /\ packet'.topicLength = p.topic /\ packet'.qos = p.qos /\ packet'.id = 0
        /\ packet'.read = 0 /\ packet'.ignore = packet.ignore
    <3>1. packet \in PacketStates /\ a + 1 \in Nat /\ packet.type = "PUBLISH"
      BY <1>2
    <3> QED
      BY <1>5, <2>3, <3>1, Moved
  <2>5. /\ packet'.at < HeaderSize(p) /\ packet'.at # p.topic + 3 /\ packet'.at # 1 /\ ~(packet'.at < 2)
        /\ pos' = BodyAt(i)' + packet'.at /\ packet'.at - 2 = a - 1
    <3>1. packet'.at = a + 1 /\ p.topic \in Nat
      BY <1>3, <2>4
    <3>2. a + 1 < HeaderSize(p) /\ a + 1 # p.topic + 3 /\ a + 1 # 1 /\ ~(a + 1 < 2) /\ (a + 1) - 2 = a - 1
      BY <1>3, <1>6, <2>1
    <3>3. pos' = BodyAt(i)' + (a + 1)
      <4>1. pos' = BodyAt(i) + a + 1 /\ BodyAt(i) \in Nat /\ BodyAt(i)' = BodyAt(i)
        BY <1>2, <1>6
      <4> QED
        BY <4>1
    <3> QED
      BY <3>1, <3>2, <3>3
  <2>6. InHeader(i, p)'
    <3>1. ~TooLong(p) => TopicRead(i, p, packet.at - 2)'
      BY <1>7, <2>5 DEF TopicRead
    <3> QED
      BY <1>2, <1>5, <1>9, <2>4, <2>5, <3>1 DEF InHeader
  <2> QED
    BY <1>2, <1>7, <1>9, <2>4, <2>6, InvWithin
<1> QED
  BY <1>8, <1>9 DEF ParseTopic

LEMMA InvParseMessageId ==
  ASSUME Inv, Countable, ParseMessageId
  PROVE  Inv'
<1>1. /\ ReadingPacket("VARIABLE_HEADER", "PUBLISH") /\ pos' = pos + 1 /\ topicBuffer' = topicBuffer
      /\ packet.at > packet.topicLength + 1
  BY DEF ParseMessageId
<1>2. PICK i \in 1..Len(connection), p \in Packets :
           /\ At(i, p) /\ p.type = "PUBLISH" /\ Allowed(p) /\ InHeader(i, p)
           /\ packet \in PacketStates /\ packet.type = "PUBLISH"
           /\ packet.at \in Nat /\ packet.at < HeaderSize(p) /\ HeaderSize(p) <= 256
           /\ pos = BodyAt(i) + packet.at /\ BodyAt(i) \in Nat
           /\ pos' = BodyAt(i) + packet.at + 1 /\ pos' \in 0..segment
           /\ byte = Body(p)[packet.at + 1] /\ byte \in Nat
           /\ BodyAt(i)' = BodyAt(i)
           /\ UNCHANGED <<connection, segment, losses, leaked, remainingLength, lengthVars>>
  BY <1>1, HeaderByte
<1>3. /\ p.topic \in Nat /\ p.topic > 0 /\ p.qos \in 0..2 /\ p.id \in Nat
      /\ HeaderSize(p) \in Nat /\ HeaderSize(p) = p.topic + (IF p.qos = 0 THEN 2 ELSE 4)
  BY <1>2, MessageIs
<1>4. packet.at >= 2
  <2>1. packet.topicLength \in Nat /\ packet.at \in Nat
    BY <1>2 DEF PacketStates
  <2> QED
    BY <1>1, <2>1
<1>5. /\ bufferState = "VARIABLE_HEADER" /\ remainingLength = Size(p)
      /\ packet.qos = p.qos /\ packet.id = 0 /\ packet.read = 0 /\ packet.topicLength = p.topic
      /\ (packet.ignore <=> TooLong(p)) /\ (~TooLong(p) => TopicRead(i, p, packet.at - 2))
      /\ packet.at = p.topic + 3 => packet.msb = p.id \div 256
  BY <1>2, <1>4 DEF InHeader
<1>6. PICK a \in Nat : a = packet.at
  BY <1>2
<1>7. a > p.topic + 1 /\ p.qos # 0 /\ HeaderSize(p) = p.topic + 4 /\ a \in {p.topic + 2, p.topic + 3}
  <2>1. a > p.topic + 1 /\ a < HeaderSize(p)
    BY <1>1, <1>2, <1>5, <1>6
  <2>2. p.qos # 0 /\ HeaderSize(p) = p.topic + 4
    BY <1>3, <2>1
  <2> QED
    BY <1>3, <2>1, <2>2
<1>8. topicBuffer' \in [0..MaxTopicLength -> Nat] /\ (~TooLong(p) => TopicRead(i, p, p.topic)')
  <2>1. topicBuffer' \in [0..MaxTopicLength -> Nat]
    BY <1>1 DEF Inv, Typed
  <2>2. ASSUME ~TooLong(p) PROVE TopicRead(i, p, p.topic)'
    <3>1. /\ topicBuffer[p.topic] = 0
          /\ \A k \in 0..(p.topic - 1) : k < a - 2 => topicBuffer[k] = BodyAt(i) + 2 + k + 1
      BY <1>5, <1>6, <2>2 DEF TopicRead
    <3>2. \A k \in 0..(p.topic - 1) : k < a - 2
      BY <1>3, <1>7
    <3> QED
      BY <1>1, <1>2, <3>1, <3>2 DEF TopicRead
  <2> QED
    BY <2>1, <2>2
<1>9. Body(p)[p.topic + 3] = p.id \div 256 /\ Body(p)[p.topic + 4] = p.id % 256
  BY <1>2, <1>7, BodyOfMessage
<1>10. CASE /\ packet.at = packet.topicLength + 2
            /\ packet' = [packet EXCEPT !.msb = byte, !.at = NextPosition(@)]
            /\ bufferState' = bufferState /\ calls' = calls
  <2>1. a = p.topic + 2
    BY <1>5, <1>6, <1>10
  <2>2. NextPosition(packet.at) = a + 1
    <3>1. a + 1 \in 0..255
      <4>1. PICK t \in Nat : t = p.topic
        BY <1>3
      <4>2. t + 4 <= 256
        <5>1. HeaderSize(p) <= 256 /\ HeaderSize(p) = p.topic + 4
          BY <1>2, <1>7
        <5> QED
          BY <4>1, <5>1
      <4>3. a + 1 = t + 3
        BY <2>1, <4>1
      <4> QED
        BY <4>2, <4>3
    <3>2. (a + 1) % 256 = a + 1
      BY <3>1
    <3> QED
      BY <1>6, <3>2 DEF NextPosition
  <2>3. packet' = [packet EXCEPT !.msb = byte, !.at = a + 1]
    BY <1>10, <2>2
  <2>4. /\ packet' \in PacketStates /\ packet'.type = packet.type /\ packet'.at = a + 1
        /\ packet'.topicLength = packet.topicLength /\ packet'.qos = packet.qos
        /\ packet'.id = packet.id /\ packet'.read = packet.read
        /\ packet'.ignore = packet.ignore /\ packet'.msb = byte
    <3>1. packet \in PacketStates /\ byte \in Nat /\ a + 1 \in Nat
      BY <1>2
    <3> QED
      BY <2>3, <3>1 DEF PacketStates
  <2>5. byte = p.id \div 256
    <3>1. packet.at + 1 = p.topic + 3
      BY <1>3, <1>6, <2>1
    <3> QED
      BY <1>2, <1>9, <3>1
  <2>6. /\ packet'.at < HeaderSize(p) /\ packet'.at # 1 /\ ~(packet'.at < 2) /\ packet'.at - 2 >= p.topic
        /\ pos' = BodyAt(i)' + packet'.at
    <3>1. a + 1 < HeaderSize(p) /\ a + 1 # 1 /\ ~(a + 1 < 2) /\ (a + 1) - 2 >= p.topic
      BY <1>3, <1>7, <2>1
    <3>2. pos' = BodyAt(i)' + (a + 1)
      <4>1. pos' = BodyAt(i) + a + 1 /\ BodyAt(i) \in Nat /\ BodyAt(i)' = BodyAt(i)
        BY <1>2, <1>6
      <4> QED
        BY <4>1
    <3> QED
      BY <2>4, <3>1, <3>2
  <2>7. InHeader(i, p)'
    <3>1. ~TooLong(p) => TopicRead(i, p, packet.at - 2)'
      <4>1. \A k \in 0..(p.topic - 1) : k < p.topic
        BY <1>3
      <4> QED
        BY <1>8, <4>1 DEF TopicRead
    <3> QED
      BY <1>2, <1>5, <1>10, <2>4, <2>5, <2>6, <3>1 DEF InHeader
  <2>8. packet'.type = "PUBLISH"
    BY <1>2, <2>4
  <2> QED
    BY <1>2, <1>8, <1>10, <2>4, <2>7, <2>8, InvWithin
<1>11. CASE packet.at # packet.topicLength + 2 /\ PreparePayload([packet EXCEPT !.id = IdRead])
  <2>1. a = p.topic + 3
    BY <1>5, <1>6, <1>7, <1>11
  <2>2. packet.at + 1 = HeaderSize(p) /\ pos' = BodyAt(i) + HeaderSize(p)
    <3>1. pos' = BodyAt(i) + a + 1 /\ BodyAt(i) \in Nat
      BY <1>2, <1>6
    <3>2. HeaderSize(p) = p.topic + 4 /\ p.topic \in Nat
      BY <1>3, <1>7
    <3> QED
      BY <1>6, <2>1, <3>1, <3>2
  <2>3. IdRead = p.id
    <3>1. (p.id % 256) + 256 * (p.id \div 256) = p.id
      BY <1>3, TwoBytesAre
    <3>2. packet.at + 1 = p.topic + 4
      BY <1>3, <1>6, <2>1
    <3>3. byte = p.id % 256
      BY <1>2, <1>9, <3>2
    <3>4. packet.msb = p.id \div 256
      BY <1>5, <1>6, <2>1
    <3> QED
      BY <3>1, <3>3, <3>4 DEF IdRead
  <2>4. PICK q \in PacketStates :
          /\ q = [packet EXCEPT !.id = p.id] /\ q.type = "PUBLISH" /\ q.ignore = packet.ignore
          /\ q.qos = packet.qos /\ q.read = packet.read /\ q.id = p.id
    <3>1. packet \in PacketStates /\ p.id \in Nat /\ packet.type = "PUBLISH"
      BY <1>2, <1>3
    <3>2. LET q == [packet EXCEPT !.id = p.id] IN
          /\ q \in PacketStates /\ q.type = "PUBLISH" /\ q.ignore = packet.ignore
          /\ q.qos = packet.qos /\ q.read = packet.read /\ q.id = p.id
      BY <3>1 DEF PacketStates
    <3> QED
      BY <3>2
  <2>5. PreparePayload(q)
    BY <1>11, <2>3, <2>4
  <2>6. (q.ignore <=> TooLong(p)) /\ q.qos = p.qos /\ q.read = 0 /\ q.id = (IF p.qos = 0 THEN 0 ELSE p.id)
    BY <1>5, <1>7, <2>4
  <2> QED
    BY <1>2, <1>5, <1>8, <2>2, <2>4, <2>5, <2>6, InvPrepare
<1> QED
  BY <1>10, <1>11 DEF ParseMessageId

\* A piece of a payload; with the last the message is complete.
LEMMA InvParsePayload ==
  ASSUME Inv, ParsePayload
  PROVE  Inv'
<1>1. /\ pos < segment /\ bufferState = "PAYLOAD" /\ packet.type = "PUBLISH"
      /\ UNCHANGED <<connection, segment, losses, leaked, remainingLength, lengthVars>>
      /\ pos' = PieceEnd /\ topicBuffer' = topicBuffer
  BY DEF ParsePayload, ReadingPacket, Reading
<1>2. PICK i \in 1..Len(connection), p \in Packets :
           /\ At(i, p)
           /\ InFixed(i, p) \/ InStatus(i, p) \/ InHeader(i, p) \/ InPayload(i, p)
  BY <1>1, AtBody
<1>3. /\ p.type = "PUBLISH" /\ Allowed(p) /\ packet \in PacketStates
      /\ BodyAt(i) \in Nat /\ Ends[connection][i + 1] = BodyAt(i) + Size(p)
      /\ pos \in Nat
  BY <1>1, <1>2 DEF At
<1>4. /\ packet.qos = p.qos /\ packet.id = (IF p.qos = 0 THEN 0 ELSE p.id)
      /\ packet.payloadLength = p.payload /\ packet.read < p.payload
      /\ pos = BodyAt(i) + HeaderSize(p) + packet.read
      /\ packet.ignore <=> TooLong(p)
      /\ ~TooLong(p) => TopicRead(i, p, p.topic)
  BY <1>1, <1>2, <1>3 DEF InFixed, InStatus, InHeader, InPayload
<1>5. /\ p.payload \in Nat /\ HeaderSize(p) \in Nat /\ Size(p) = HeaderSize(p) + p.payload
  BY <1>3, MessageIs
<1>6. PICK r \in Nat : r = packet.read
  BY <1>3 DEF PacketStates
<1>7. PICK from \in Nat : /\ from = BodyAt(i) + HeaderSize(p) /\ pos = from + r /\ r < p.payload
                          /\ Ends[connection][i + 1] = from + p.payload
  BY <1>3, <1>4, <1>5, <1>6
<1>8. segment \in Nat
  BY <1>1, Readable
<1>9. PICK e \in Nat : /\ e = PieceEnd /\ e <= segment /\ e <= from + p.payload /\ e > pos
  <2>1. PieceEnd = Min({segment, pos + p.payload - r})
    BY <1>4, <1>6 DEF PieceEnd
  <2>2. pos + p.payload - r = from + p.payload
    BY <1>5, <1>7
  <2>3. PieceEnd = IF segment <= from + p.payload THEN segment ELSE from + p.payload
    BY <1>5, <1>8, <2>1, <2>2, MinTwo
  <2>4. segment > pos /\ from + p.payload > pos /\ pos \in Nat /\ from + p.payload \in Nat
    BY <1>1, <1>3, <1>5, <1>7
  <2>5. CASE segment <= from + p.payload
    BY <1>8, <2>3, <2>4, <2>5
  <2>6. CASE ~(segment <= from + p.payload)
    <3>1. PieceEnd = from + p.payload /\ from + p.payload <= segment /\ from + p.payload <= from + p.payload
      BY <1>8, <2>3, <2>4, <2>6
    <3> QED
      BY <2>4, <3>1
  <2> QED
    BY <2>5, <2>6
<1>10. BodyAt(i)' = BodyAt(i)
  BY <1>1 DEF BodyAt
<1>11. PICK q \in PacketStates :
         /\ q = [packet EXCEPT !.read = @ + PieceEnd - pos] /\ q.read = e - from
         /\ q.type = "PUBLISH" /\ q.qos = packet.qos /\ q.id = packet.id /\ q.ignore = packet.ignore
         /\ q.payloadLength = packet.payloadLength
  <2>1. packet.read + PieceEnd - pos = e - from /\ e - from \in Nat
    BY <1>3, <1>6, <1>7, <1>9
  <2>2. [packet EXCEPT !.read = @ + PieceEnd - pos] = [packet EXCEPT !.read = e - from]
    BY <2>1
  <2>3. LET q == [packet EXCEPT !.read = e - from] IN
         /\ q \in PacketStates /\ q.read = e - from
         /\ q.type = "PUBLISH" /\ q.qos = packet.qos /\ q.id = packet.id /\ q.ignore = packet.ignore
         /\ q.payloadLength = packet.payloadLength
    BY <1>1, <1>3, <2>1 DEF PacketStates
  <2> QED
    BY <2>2, <2>3
<1>12. /\ q.qos = p.qos /\ q.id = (IF p.qos = 0 THEN 0 ELSE p.id) /\ q.payloadLength = p.payload
       /\ q.ignore <=> TooLong(p)
  BY <1>4, <1>11
<1>13. ~TooLong(p) => TopicRead(i, p, p.topic)'
  BY <1>1, <1>4, <1>10 DEF TopicRead
<1>14. topicBuffer' \in [0..MaxTopicLength -> Nat] /\ pos' \in 0..segment
  BY <1>1, <1>8, <1>9 DEF Inv, Typed
<1>15. CASE q.read = q.payloadLength /\ Complete(q, <<pos - packet.read, PieceEnd>>)
  <2>1. e = from + p.payload /\ p.payload # 0
    BY <1>5, <1>7, <1>9, <1>11, <1>12, <1>15
  <2>2. pos' = Ends[connection][i + 1]
    BY <1>1, <1>7, <1>9, <2>1
  <2>3. pos - packet.read = from
    BY <1>6, <1>7
  <2>4. <<pos - packet.read, PieceEnd>> = <<BodyAt(i) + HeaderSize(p), Ends[connection][i + 1]>>
    BY <1>7, <1>9, <2>1, <2>3
  <2>5. <<pos - packet.read, PieceEnd>>
          = (IF p.payload = 0 THEN <<0, 0>> ELSE <<BodyAt(i) + HeaderSize(p), Ends[connection][i + 1]>>)
    BY <2>1, <2>4
  <2> QED
    BY <1>1, <1>2, <1>3, <1>12, <1>13, <1>14, <1>15, <2>2, <2>5, InvComplete
<1>16. CASE q.read # q.payloadLength /\ packet' = q /\ bufferState' = bufferState /\ calls' = calls
  <2>1. packet'.read < p.payload /\ pos' = BodyAt(i)' + HeaderSize(p) + packet'.read
    <3>1. e - from < p.payload
      <4>1. e - from # p.payload
        BY <1>11, <1>12, <1>16
      <4>2. e <= from + p.payload /\ p.payload \in Nat
        BY <1>5, <1>9
      <4> QED
        BY <4>1, <4>2
    <3>2. e = from + (e - from)
      BY <1>9
    <3> QED
      BY <1>1, <1>7, <1>9, <1>10, <1>11, <1>16, <3>1, <3>2
  <2>2. InPayload(i, p)'
    BY <1>1, <1>3, <1>11, <1>12, <1>13, <1>16, <2>1 DEF InPayload
  <2> QED
    BY <1>1, <1>2, <1>3, <1>11, <1>14, <1>16, <2>2, InvWithin
<1> QED
  <2>1. LET p_1 == [packet EXCEPT !.read = @ + PieceEnd - pos] IN
     \/ p_1.read = p_1.payloadLength /\ Complete(p_1, <<pos - packet.read, PieceEnd>>)
     \/ p_1.read # p_1.payloadLength /\ packet' = p_1 /\ UNCHANGED <<bufferState, calls>>
    BY DEF ParsePayload
  <2> QED
    BY <1>11, <1>15, <1>16, <2>1

-----------------------------------------------------------------------------
(* The invariant holds.                                                     *)

LEMMA InvNext ==
  ASSUME Countable, Inv, [Next]_vars
  PROVE  Inv'
<1>1. CASE ParseHeader
  BY <1>1, InvParseHeader
<1>2. CASE ParseMoreLength
  BY <1>2, InvParseMoreLength
<1>3. CASE ParseLength
  BY <1>3, InvParseLength
<1>4. CASE ParseConnAck
  BY <1>4, InvParseConnAck
<1>5. CASE ParseSubAckId
  BY <1>5, InvParseSubAckId
<1>6. CASE ParseSubAckStatus
  BY <1>6, InvParseSubAckStatus
<1>7. CASE ParsePubAck \/ ParsePubRec \/ ParsePubRel \/ ParsePubComp \/ ParseUnsubAck
  <2>1. \E st \in Ids : ParseId(st)
    BY <1>7 DEF ParsePubAck, ParsePubRec, ParsePubRel, ParsePubComp, ParseUnsubAck, Ids
  <2> QED
    BY <2>1, InvParseId
<1>8. CASE ParseTopicLength
  BY <1>8, InvParseTopicLength
<1>9. CASE ParseTopic
  BY <1>9, InvParseTopic
<1>10. CASE ParseMessageId
  BY <1>10, InvParseMessageId
<1>11. CASE ParsePayload
  BY <1>11, InvParsePayload
<1>12. CASE Lose
  BY <1>12, InvLose
<1>13. CASE \E n \in SegmentSizes : Receive(n)
  BY <1>13, InvReceive
<1>14. CASE UNCHANGED vars
  <2>1. segment' \in pos..Len(Wire[connection])
    <3>1. /\ connection \in Connections /\ segment \in 0..Len(Wire[connection])
          /\ pos \in 0..segment
      BY DEF Inv, Typed, Placed
    <3>2. Len(Wire[connection]) \in Nat
      BY <3>1, EndsAre
    <3>3. segment' = segment
      BY <1>14 DEF vars
    <3> QED
      BY <3>1, <3>2, <3>3
  <2> QED
    BY <1>14, <2>1, InvSame DEF vars, parserVars, lengthVars
<1> QED
  BY <1>1, <1>2, <1>3, <1>4, <1>5, <1>6, <1>7, <1>8, <1>9, <1>10, <1>11, <1>12, <1>13, <1>14
  DEF Next, Parse

\* The parser is always at a known place of a known packet, whatever the segments.
THEOREM ParserInvariant ==
  ASSUME Countable
  PROVE  Spec => []Inv
<1>1. Init => Inv
  BY InvInit
<1>2. Inv /\ [Next]_vars => Inv'
  BY InvNext
<1> QED
  BY <1>1, <1>2, PTL DEF Spec

-----------------------------------------------------------------------------
(* The places of the packets.                                               *)

LEMMA EndsOrder ==
  ASSUME NEW c \in Connections, NEW i \in 1..(Len(c) + 1), NEW j \in 1..(Len(c) + 1)
  PROVE  /\ Ends[c][i] \in Nat /\ Ends[c][j] \in Nat
         /\ Ends[c][i] < Ends[c][j] <=> i < j
         /\ Ends[c][i] = Ends[c][j] <=> i = j
<1>1. Len(c) \in Nat /\ i \in Nat /\ j \in Nat
  BY ConnectionIs
<1>2. Ends[c][i] \in Nat /\ Ends[c][j] \in Nat
  BY EndsAre
<1>3. CASE i < j
  <2>1. Ends[c][i] < Ends[c][j]
    BY <1>3, EndsGrow
  <2> QED
    BY <1>1, <1>2, <1>3, <2>1
<1>4. CASE j < i
  <2>1. Ends[c][j] < Ends[c][i]
    BY <1>4, EndsGrow
  <2> QED
    BY <1>1, <1>2, <1>4, <2>1
<1>5. CASE i = j
  BY <1>1, <1>2, <1>5
<1> QED
  BY <1>1, <1>3, <1>4, <1>5

LEMMA InsideIs ==
  ASSUME Inv, NEW i \in 1..Len(connection), Inside(i)
  PROVE  /\ bufferState # "NONE" /\ Ends[connection][i] < pos /\ pos < Ends[connection][i + 1]
<1>1. Placed
  BY DEF Inv, Typed
<1>2. /\ connection[i] \in Packets /\ Allowed(connection[i])
      /\ Size(connection[i]) \in Nat /\ Digits(Size(connection[i])) \in 1..4
      /\ Ends[connection][i] \in Nat /\ BodyAt(i) \in Nat
      /\ BodyAt(i) = Ends[connection][i] + 1 + Digits(Size(connection[i]))
      /\ Ends[connection][i + 1] = BodyAt(i) + Size(connection[i])
  BY <1>1, PacketAt
<1>3. PICK p \in Packets : p = connection[i]
  BY <1>2
<1>4. PICK e \in Nat, d \in 1..4, n \in Nat : e = Ends[connection][i] /\ d = Digits(Size(p)) /\ n = Size(p)
  BY <1>2, <1>3
<1>5. BodyAt(i) = e + 1 + d /\ Ends[connection][i + 1] = e + 1 + d + n
  BY <1>2, <1>3, <1>4
<1>6. packet \in PacketStates /\ packet.type = p.type
  BY <1>3, PacketTyped
<1>7. CASE InLength(i)
  <2>1. PICK m \in 0..(d - 1) : pos = e + 1 + m
    BY <1>3, <1>4, <1>7 DEF InLength
  <2>2. bufferState # "NONE"
    BY <1>7 DEF InLength
  <2>3. e < pos /\ pos < e + 1 + d + n
    BY <2>1
  <2> QED
    BY <1>4, <1>5, <2>2, <2>3
<1>8. CASE InFixed(i, p)
  <2>1. /\ p.type \notin {"PUBLISH", "PINGRESP"} /\ bufferState # "NONE"
        /\ packet.at \in {0, 1} /\ pos = BodyAt(i) + packet.at
    BY <1>8 DEF InFixed
  <2>2. n >= 2
    <3>1. p.type \in Types
      BY PacketIs
    <3>2. p.type \in Ids \cup {"CONNACK"} \/ p.type = "SUBACK"
      BY <2>1, <3>1 DEF Types
    <3> QED
      BY <1>4, <3>2, SizeOf
  <2>3. e < pos /\ pos < e + 1 + d + n
    BY <1>5, <2>1, <2>2
  <2> QED
    BY <1>4, <1>5, <2>1, <2>3
<1>9. CASE InStatus(i, p)
  <2>1. p.type = "SUBACK" /\ bufferState # "NONE" /\ pos = BodyAt(i) + 2
    BY <1>9 DEF InStatus
  <2>2. n = 3
    BY <1>4, <2>1, SizeOf
  <2>3. e < pos /\ pos < e + 1 + d + n
    BY <1>5, <2>1, <2>2
  <2> QED
    BY <1>4, <1>5, <2>1, <2>3
<1>10. CASE InHeader(i, p)
  <2>1. /\ p.type = "PUBLISH" /\ bufferState # "NONE" /\ packet.at < HeaderSize(p)
        /\ pos = BodyAt(i) + packet.at
    BY <1>10 DEF InHeader
  <2>2. PICK h \in Nat, t \in Nat : h = HeaderSize(p) /\ t = p.payload /\ n = h + t
    BY <1>2, <1>3, <1>4, <2>1, MessageIs
  <2>3. PICK a \in Nat : a = packet.at
    BY <1>6 DEF PacketStates
  <2>4. a < h /\ pos = e + 1 + d + a
    BY <1>5, <2>1, <2>2, <2>3
  <2>5. e < pos /\ pos < e + 1 + d + n
    BY <2>2, <2>4
  <2> QED
    BY <1>4, <1>5, <2>1, <2>5
<1>11. CASE InPayload(i, p)
  <2>1. /\ p.type = "PUBLISH" /\ bufferState # "NONE" /\ packet.read < p.payload
        /\ pos = BodyAt(i) + HeaderSize(p) + packet.read
    BY <1>11 DEF InPayload
  <2>2. PICK h \in Nat, t \in Nat : h = HeaderSize(p) /\ t = p.payload /\ n = h + t
    BY <1>2, <1>3, <1>4, <2>1, MessageIs
  <2>3. PICK a \in Nat : a = packet.read
    BY <1>6 DEF PacketStates
  <2>4. a < t /\ pos = e + 1 + d + h + a
    BY <1>5, <2>1, <2>2, <2>3
  <2>5. e < pos /\ pos < e + 1 + d + n
    BY <2>2, <2>4
  <2> QED
    BY <1>4, <1>5, <2>1, <2>5
<1> QED
  BY <1>3, <1>7, <1>8, <1>9, <1>10, <1>11 DEF Inside

-----------------------------------------------------------------------------
(* What follows.                                                            *)

LEMMA SyncFromInv ==
  ASSUME Inv
  PROVE  InSync
<1>1. connection \in Connections
  BY DEF Inv, Typed, Placed
<1>2. DOMAIN Ends[connection] = 1..(Len(connection) + 1) /\ Len(connection) \in Nat
  BY <1>1, EndsAre, ConnectionIs
<1>3. PICK i \in 1..(Len(connection) + 1) : Between(i) \/ Inside(i)
  BY DEF Inv
<1>4. CASE Between(i)
  <2>1. bufferState = "NONE" /\ pos = Ends[connection][i] /\ calls = Due[connection][i - 1]
    BY <1>4 DEF Between
  <2>2. \A j \in 1..(Len(connection) + 1) : Ends[connection][j] = pos => j = i
    BY <1>1, <2>1, EndsOrder
  <2> QED
    BY <1>2, <2>1, <2>2 DEF InSync
<1>5. CASE Inside(i)
  <2>1. i \in 1..Len(connection) /\ i \in 1..(Len(connection) + 1) /\ i + 1 \in 1..(Len(connection) + 1)
    BY <1>2, <1>5 DEF Inside
  <2>2. bufferState # "NONE" /\ Ends[connection][i] < pos /\ pos < Ends[connection][i + 1]
    BY <1>5, <2>1, InsideIs
  <2>3. ASSUME NEW j \in 1..(Len(connection) + 1), Ends[connection][j] = pos PROVE FALSE
    <3>1. i < j
      BY <1>1, <2>1, <2>2, <2>3, EndsOrder
    <3>2. j < i + 1
      BY <1>1, <2>1, <2>2, <2>3, EndsOrder
    <3> QED
      BY <1>2, <3>1, <3>2
  <2> QED
    BY <1>2, <2>2, <2>3 DEF InSync
<1> QED
  BY <1>3, <1>4, <1>5

LEMMA LeakFromInv ==
  ASSUME Inv
  PROVE  OnlyIgnoredLeak
<1> DEFINE L == {j \in DOMAIN connection : TooLong(connection[j]) /\ Ends[connection][j + 1] < pos}
<1>1. connection \in Connections
  BY DEF Inv, Typed, Placed
<1>2. DOMAIN connection = 1..Len(connection) /\ Len(connection) \in Nat
  BY <1>1, ConnectionIs
<1>3. PICK i \in 1..(Len(connection) + 1) : Between(i) \/ Inside(i)
  BY DEF Inv
<1>4. CASE Between(i)
  <2>1. pos = Ends[connection][i] /\ leaked = Lost(connection, i - 2)
    BY <1>4 DEF Between
  <2>2. \A j \in 1..Len(connection) : Ends[connection][j + 1] < pos <=> j <= i - 2
    <3> SUFFICES ASSUME NEW j \in 1..Len(connection)
                 PROVE  Ends[connection][j + 1] < pos <=> j <= i - 2
      OBVIOUS
    <3>1. j + 1 \in 1..(Len(connection) + 1)
      BY <1>2
    <3>2. Ends[connection][j + 1] < pos <=> j + 1 < i
      BY <1>1, <2>1, <3>1, EndsOrder
    <3>3. j + 1 < i <=> j <= i - 2
      BY <1>2
    <3> QED
      BY <3>2, <3>3
  <2>3. L = Long(connection, i - 2)
    <3>1. \A j \in 1..(i - 2) : j \in 1..Len(connection)
      BY <1>2
    <3> QED
      BY <1>2, <2>2, <3>1 DEF Long
  <2> QED
    BY <2>1, <2>3 DEF OnlyIgnoredLeak, Lost
<1>5. CASE Inside(i)
  <2>1. i \in 1..Len(connection) /\ i \in 1..(Len(connection) + 1) /\ i + 1 \in 1..(Len(connection) + 1)
        /\ leaked = Lost(connection, i - 1)
    BY <1>2, <1>5 DEF Inside
  <2>2. Ends[connection][i] < pos /\ pos < Ends[connection][i + 1]
    BY <1>5, <2>1, InsideIs
  <2>3. pos \in Nat
    BY <1>1, EndsAre DEF Inv, Typed, Placed
  <2>4. \A j \in 1..Len(connection) : Ends[connection][j + 1] < pos <=> j <= i - 1
    <3> SUFFICES ASSUME NEW j \in 1..Len(connection)
                 PROVE  Ends[connection][j + 1] < pos <=> j <= i - 1
      OBVIOUS
    <3>1. j + 1 \in 1..(Len(connection) + 1)
      BY <1>2
    <3>2. /\ Ends[connection][j + 1] < Ends[connection][i + 1] <=> j + 1 < i + 1
          /\ Ends[connection][i] < Ends[connection][j + 1] <=> i < j + 1
          /\ Ends[connection][i] = Ends[connection][j + 1] <=> i = j + 1
          /\ Ends[connection][i] \in Nat /\ Ends[connection][j + 1] \in Nat
          /\ Ends[connection][i + 1] \in Nat
      BY <1>1, <2>1, <3>1, EndsOrder
    <3>3. CASE j <= i - 1
      <4>1. j + 1 < i \/ i = j + 1
        BY <1>2, <3>3
      <4>2. ~(i < j + 1)
        BY <1>2, <3>3
      <4>3. Ends[connection][j + 1] <= Ends[connection][i]
        BY <3>2, <4>2
      <4> QED
        BY <2>2, <2>3, <3>2, <3>3, <4>3
    <3>4. CASE ~(j <= i - 1)
      <4>1. ~(j + 1 < i + 1)
        BY <1>2, <3>4
      <4>2. Ends[connection][j + 1] >= Ends[connection][i + 1]
        BY <3>2, <4>1
      <4> QED
        BY <2>2, <2>3, <3>2, <3>4, <4>2
    <3> QED
      BY <3>3, <3>4
  <2>5. L = Long(connection, i - 1)
    <3>1. \A j \in 1..(i - 1) : j \in 1..Len(connection)
      BY <1>2
    <3> QED
      BY <1>2, <2>4, <3>1 DEF Long
  <2> QED
    BY <2>1, <2>5 DEF OnlyIgnoredLeak, Lost
<1> QED
  BY <1>3, <1>4, <1>5

LEMMA TypeFromInv ==
  ASSUME Inv
  PROVE  TypeOK
<1>1. PICK i \in 1..(Len(connection) + 1) : Between(i) \/ Inside(i)
  BY DEF Inv
<1>2. bufferState \in {"NONE", "REMAINING_LENGTH", "VARIABLE_HEADER", "PAYLOAD"}
  BY <1>1 DEF Between, Inside, InLength, InFixed, InStatus, InHeader, InPayload
<1>3. leaked \in Nat
  <2>1. i - 1 \in Int /\ i - 2 \in Int
    <3>1. i \in Int
      BY ConnectionIs DEF Inv, Typed, Placed
    <3> QED
      BY <3>1
  <2>2. leaked = Lost(connection, i - 1) \/ leaked = Lost(connection, i - 2)
    BY <1>1 DEF Between, Inside
  <2> QED
    BY <2>1, <2>2, LostIs
<1>4. packet.type \in {"none"} \cup DOMAIN TypeCode
  <2>1. packet \in PacketStates \cup {NoPacket}
    BY DEF Inv, Typed
  <2>2. CASE packet = NoPacket
    BY <2>2, NoPacketIs
  <2>3. CASE packet \in PacketStates
    BY <2>3, TypesAre DEF PacketStates
  <2> QED
    BY <2>1, <2>2, <2>3
<1> QED
  BY <1>2, <1>3, <1>4 DEF TypeOK, Inv, Typed, Placed, LengthKept

\* However a connection is cut into segments, and wherever the one before was
\* lost, the parser is between packets exactly at the end of one, with the
\* handlers of all packets before called.
THEOREM ParserInSync ==
  ASSUME Countable
  PROVE  Spec => []InSync
  BY ParserInvariant, SyncFromInv, PTL

\* Only the packet objects of ignored messages are never freed.
THEOREM ParserLeaks ==
  ASSUME Countable
  PROVE  Spec => []OnlyIgnoredLeak
  BY ParserInvariant, LeakFromInv, PTL

\* Every variable has its type: _remainingLengthBuffer is not written behind its end.
THEOREM ParserTypeCorrect ==
  ASSUME Countable
  PROVE  Spec => []TypeOK
  BY ParserInvariant, TypeFromInv, PTL

-----------------------------------------------------------------------------
(* The refinement of PacketReader.                                          *)

\* The calls of a connection are the first of those due to it.
LEMMA CallsAre ==
  ASSUME Inv
  PROVE  /\ connection \in Connections
         /\ \E k \in 0..Len(connection) : calls = Due[connection][k]
<1>1. connection \in Connections
  BY DEF Inv, Typed, Placed
<1>2. PICK i \in 1..(Len(connection) + 1) : calls = Due[connection][i - 1]
  BY DEF Inv, Between, Inside
<1>3. i - 1 \in 0..Len(connection)
  BY <1>1, ConnectionIs
<1> QED
  BY <1>1, <1>2, <1>3

GoesOn(u, s, x) == Len(s) < Len(u) /\ u[Len(s) + 1] = x

LEMMA DueBegins ==
  ASSUME NEW c \in Connections, NEW k \in 0..Len(c), NEW s \in Seq(CallsOf(c)), NEW x,
         NEW t, t = Due[c][k], t = Append(s, x)
  PROVE  GoesOn(Due[c][Len(c)], s, x)
<1> DEFINE S == CallsOf(c)
<1> DEFINE N == Len(c)
<1>1. N \in Nat /\ k \in 0..N /\ N \in k..N /\ N \in 0..N
  BY ConnectionIs
<1>2. t \in Seq(S) /\ t = Prefix(Heard(c), k)
  BY <1>1, HeardIs
<1>3. PICK u \in Seq(S) : u = Due[c][N] /\ u = Prefix(Heard(c), N)
  BY <1>1, HeardIs
<1>4. Begins(u, t)
  <2>1. Heard(c) \in [1..N -> Seq(S)]
    BY HeardIs
  <2> HIDE DEF S, N
  <2> QED
    BY <1>1, <1>2, <1>3, <2>1, PrefixBegins
<1> HIDE DEF S, N
<1>5. Len(t) = Len(s) + 1 /\ t[Len(s) + 1] = x /\ Len(s) + 1 \in 1..Len(t)
  <2>1. s \in Seq(S \cup {x}) /\ x \in S \cup {x}
    BY DEF S
  <2>2. Len(Append(s, x)) = Len(s) + 1 /\ Append(s, x)[Len(s) + 1] = x /\ Len(s) \in Nat
    BY <2>1
  <2> QED
    BY <1>2, <2>2
<1>6. u[Len(s) + 1] = x /\ Len(s) < Len(u)
  BY <1>4, <1>5 DEF Begins
<1> QED
  BY <1>3, <1>6 DEF N, GoesOn

\* What a step does to the calls.
LEMMA CallsNext ==
  ASSUME [Next]_vars
  PROVE  \/ connection' \in Connections /\ calls' = <<>>
         \/ connection' = connection /\ (calls' = calls \/ \E x : calls' = Append(calls, x))
<1>1. CASE ParseHeader \/ ParseMoreLength \/ ParseLength
  BY <1>1 DEF ParseHeader, ParseMoreLength, ParseLength, Reading
<1>2. CASE ParseConnAck \/ ParseSubAckId \/ ParseSubAckStatus
  BY <1>2 DEF ParseConnAck, ParseSubAckId, ParseSubAckStatus, ReadingPacket, Reading, FirstByte, Finish
<1>3. CASE ParsePubAck \/ ParsePubRec \/ ParsePubRel \/ ParsePubComp \/ ParseUnsubAck
  BY <1>3 DEF ParsePubAck, ParsePubRec, ParsePubRel, ParsePubComp, ParseUnsubAck, ParseId,
              ReadingPacket, Reading, FirstByte, Finish
<1>4. CASE ParseTopicLength \/ ParseTopic
  BY <1>4 DEF ParseTopicLength, ParseTopic, ReadingPacket, Reading, PreparePayload, Complete
<1>5. CASE ParseMessageId \/ ParsePayload
  BY <1>5 DEF ParseMessageId, ParsePayload, ReadingPacket, Reading, PreparePayload, Complete
<1>6. CASE Lose
  BY <1>6 DEF Lose
<1>7. CASE \E n \in SegmentSizes : Receive(n)
  BY <1>7 DEF Receive
<1>8. CASE UNCHANGED vars
  BY <1>8 DEF vars
<1> QED
  BY <1>1, <1>2, <1>3, <1>4, <1>5, <1>6, <1>7, <1>8 DEF Next, Parse


LEMMA HandleNext ==
  ASSUME Inv, Inv', [Next]_vars
  PROVE  [Reader!Handle \/ Reader!Reconnect]_<<connection, calls>>
<1>1. CASE connection' \in Connections /\ calls' = <<>>
  BY <1>1 DEF Reader!Reconnect
<1>2. CASE connection' = connection /\ calls' = calls
  BY <1>2
<1>3. CASE connection' = connection /\ \E x : calls' = Append(calls, x)
  <2>1. PICK x : calls' = Append(calls, x)
    BY <1>3
  <2>2. connection \in Connections
    BY CallsAre
  <2>3. \E k \in 0..Len(connection) : calls = Due[connection][k]
    BY CallsAre
  <2>4. calls \in Seq(CallsOf(connection))
    BY <2>2, <2>3, HeardIs
  <2>5. PICK k \in 0..Len(connection) : calls' = Due[connection][k]
    <3>1. PICK i \in 1..(Len(connection) + 1) : calls' = Due[connection][i - 1]
      BY <1>3 DEF Inv, Between, Inside
    <3>2. i - 1 \in 0..Len(connection)
      BY <2>2, ConnectionIs
    <3> QED
      BY <3>1, <3>2
  <2>6. /\ Len(calls) < Len(Due[connection][Len(connection)])
        /\ Due[connection][Len(connection)][Len(calls) + 1] = x
    <3>1. PICK c \in Connections : c = connection
      BY <2>2
    <3>2. PICK s \in Seq(CallsOf(c)) : s = calls
      BY <2>4, <3>1
    <3>3. PICK n \in 0..Len(c) : calls' = Due[c][n]
      BY <2>5, <3>1
    <3>4. calls' = Append(s, x)
      BY <2>1, <3>2
    <3>5. GoesOn(Due[c][Len(c)], s, x)
      BY <3>3, <3>4, DueBegins
    <3> QED
      BY <3>1, <3>2, <3>5 DEF GoesOn
  <2> QED
    BY <1>3, <2>1, <2>2, <2>6 DEF Reader!Handle
<1> QED
  BY <1>1, <1>2, <1>3, CallsNext

\* However a connection is cut into segments, and wherever the one before was
\* lost, each packet's handler is called once, in order and with its contents.
THEOREM ParserImplementsReader ==
  ASSUME Countable
  PROVE  Spec => ReaderSpec
<1>1. Init => Reader!Init
  BY DEF Init, Reader!Init
<1>2. Inv /\ Inv' /\ [Next]_vars => [Reader!Handle \/ Reader!Reconnect]_<<connection, calls>>
  BY HandleNext
<1>3. Spec => []Inv
  BY ParserInvariant
<1> QED
  BY <1>1, <1>2, <1>3, PTL DEF Spec, ReaderSpec, Reader!Spec
=============================================================================
