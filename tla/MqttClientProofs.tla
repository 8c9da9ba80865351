-------------------------- MODULE MqttClientProofs --------------------------
(***************************************************************************)
(* Proofs about MqttClient.  A message is passed on once because TCP keeps *)
(* the PUBLISH packets of an id and its PUBREL in order, whatever          *)
(* _sendAcks does to the acknowledgements: the invariant is about the      *)
(* packets on their way to the client, _pendingPubRels and the slots of    *)
(* the broker, and says nothing of _toSendAcks.  That each handshake of    *)
(* the client's own identifiers has one packet or queue entry that brings  *)
(* it on is counted: _sendAcks deals the entries out to those it sends and *)
(* those it keeps.                                                         *)
(***************************************************************************)
EXTENDS MqttClient, SequenceTheorems, FunctionTheorems, FiniteSetTheorems, TLAPS

USE IdAssumption, MessageAssumption, ClientBoundAssumption

-----------------------------------------------------------------------------
(* The queues.                                                              *)

LEMMA MinOfTwo ==
  ASSUME NEW a \in Nat, NEW b \in Nat
  PROVE  Min({a, b}) \in Nat /\ Min({a, b}) <= a /\ Min({a, b}) <= b
<1>1. PICK x \in {a, b} : \A y \in {a, b} : x <= y
  <2>1. CASE a <= b
    BY <2>1
  <2>2. CASE b <= a
    BY <2>2
  <2> QED
    BY <2>1, <2>2
<1>2. Min({a, b}) \in {a, b} /\ \A y \in {a, b} : Min({a, b}) <= y
  BY <1>1 DEF Min
<1> QED
  BY <1>2

\* _sendAcks sends acknowledgements that were in the queue and keeps the others.
LEMMA AckQueue ==
  ASSUME NEW S, NEW q \in Seq(S), NEW room \in Nat
  PROVE  SentAcks(q, room) \in Seq(S) /\ KeptAcks(q, room) \in Seq(S)
<1> DEFINE n == Len(q)
           k == Min({room, Sendable(n)})
<1>1. n \in Nat /\ \A i \in 1..n : q[i] \in S
  BY LenProperties, ElementOfSeq
<1>2. Sendable(n) \in Nat /\ 2 * Sendable(n) <= n + 1
  BY <1>1 DEF Sendable
<1>3. k \in Nat /\ k <= Sendable(n)
  BY <1>2, MinOfTwo
<1>4. SentAcks(q, room) = [j \in 1..k |-> q[2 * j - 1]]
  BY DEF SentAcks
<1>5. KeptAcks(q, room) = [j \in 1..(n - k) |-> IF j <= k THEN q[2 * j] ELSE q[j + k]]
  BY DEF KeptAcks
<1> HIDE DEF k, n
<1>6. \A j \in 1..k : q[2 * j - 1] \in S
  BY <1>1, <1>2, <1>3
<1>7. n - k \in Nat /\ \A j \in 1..(n - k) : (IF j <= k THEN q[2 * j] ELSE q[j + k]) \in S
  <2>1. n - k \in Nat
    BY <1>1, <1>2, <1>3
  <2>2. ASSUME NEW j \in 1..(n - k) PROVE (IF j <= k THEN q[2 * j] ELSE q[j + k]) \in S
    <3>1. CASE j <= k
      <4>1. 2 * j \in 1..n
        BY <1>1, <1>2, <1>3, <2>1, <2>2, <3>1
      <4> QED
        BY <1>1, <3>1, <4>1
    <3>2. CASE ~(j <= k)
      <4>1. j + k \in 1..n
        BY <1>1, <1>3, <2>1, <2>2, <3>2
      <4> QED
        BY <1>1, <3>2, <4>1
    <3> QED
      BY <3>1, <3>2
  <2> QED
    BY <2>1, <2>2
<1>8. [j \in 1..k |-> q[2 * j - 1]] \in Seq(S)
  <2>1. [j \in 1..k |-> q[2 * j - 1]] \in [1..k -> S]
    BY <1>6
  <2> QED
    BY <1>3, <2>1, SeqDef
<1>9. [j \in 1..(n - k) |-> IF j <= k THEN q[2 * j] ELSE q[j + k]] \in Seq(S)
  <2>1. [j \in 1..(n - k) |-> IF j <= k THEN q[2 * j] ELSE q[j + k]] \in [1..(n - k) -> S]
    BY <1>7
  <2> QED
    BY <1>7, <2>1, SeqDef
<1> QED
  BY <1>4, <1>5, <1>8, <1>9

\* _pendingPubRels without an id that is there once at most.
LEMMA WithoutIdFacts ==
  ASSUME NEW q \in Seq(Ids), IsInjective(q), NEW i \in Ids
  PROVE  /\ WithoutId(q, i) \in Seq(Ids) /\ IsInjective(WithoutId(q, i))
         /\ Range(WithoutId(q, i)) = Range(q) \ {i}
<1>1. Len(q) \in Nat /\ DOMAIN q = 1..Len(q) /\ \A j \in 1..Len(q) : q[j] \in Ids
  BY LenProperties, ElementOfSeq
<1>2. CASE i \notin Range(q)
  BY <1>2 DEF WithoutId
<1>3. CASE i \in Range(q)
  <2> DEFINE k == CHOOSE k \in DOMAIN q : q[k] = i
             a == SubSeq(q, 1, k - 1)
             b == SubSeq(q, k + 1, Len(q))
             r == WithoutId(q, i)
  <2>1. k \in 1..Len(q) /\ q[k] = i
    BY <1>1, <1>3 DEF Range
  <2>2. r = a \o b
    BY <1>3 DEF WithoutId, RemoveAt
  <2> HIDE DEF k
  <2>3. /\ a \in Seq(Ids) /\ Len(a) = k - 1
        /\ \A j \in 1..(k - 1) : a[j] = q[j]
    <3>1. /\ a \in Seq(Ids) /\ Len(a) = IF 1 <= k - 1 THEN (k - 1) - 1 + 1 ELSE 0
          /\ \A j \in 1..((k - 1) - 1 + 1) : a[j] = q[1 + j - 1]
      BY <1>1, <2>1, SubSeqProperties
    <3> HIDE DEF a
    <3> QED
      BY <3>1, <2>1, <1>1
  <2>4. /\ b \in Seq(Ids) /\ Len(b) = Len(q) - k
        /\ \A j \in 1..(Len(q) - k) : b[j] = q[j + k]
    <3>1. /\ b \in Seq(Ids) /\ Len(b) = IF k + 1 <= Len(q) THEN Len(q) - (k + 1) + 1 ELSE 0
          /\ \A j \in 1..(Len(q) - (k + 1) + 1) : b[j] = q[(k + 1) + j - 1]
      <4>1. k + 1 \in Int /\ Len(q) \in Int /\ \A j \in (k + 1)..Len(q) : q[j] \in Ids
        BY <1>1, <2>1
      <4> QED
        BY <4>1, SubSeqProperties
    <3> HIDE DEF b
    <3>2. /\ k \in Int /\ Len(q) \in Int /\ k >= 1 /\ k <= Len(q)
          /\ Len(q) - (k + 1) + 1 = Len(q) - k
      BY <2>1, <1>1
    <3>3. Len(b) = Len(q) - k
      <4>1. Len(b) = IF k + 1 <= Len(q) THEN Len(q) - (k + 1) + 1 ELSE 0
        BY <3>1
      <4>2. ASSUME NEW x \in Int, NEW y \in Int, x <= y
            PROVE  (IF x + 1 <= y THEN y - (x + 1) + 1 ELSE 0) = y - x
        BY <4>2
      <4> QED
        BY <3>2, <4>1, <4>2
    <3>4. ASSUME NEW j \in 1..(Len(q) - k) PROVE b[j] = q[j + k]
      <4>1. (k + 1) + j - 1 = j + k
        BY <3>2, <1>1
      <4> QED
        BY <3>1, <3>2, <4>1
    <3> QED
      BY <3>1, <3>3, <3>4
  <2> HIDE DEF a, b
  <2>5. /\ r \in Seq(Ids) /\ Len(r) = Len(a) + Len(b)
        /\ \A j \in 1..(Len(a) + Len(b)) : r[j] = IF j <= Len(a) THEN a[j] ELSE b[j - Len(a)]
    BY <2>2, <2>3, <2>4, ConcatProperties
  <2> HIDE DEF r
  <2>6. DOMAIN r = 1..(Len(q) - 1)
    BY <2>1, <2>3, <2>4, <2>5, <1>1, LenProperties
  <2>7. \A j \in 1..(Len(q) - 1) : r[j] = IF j < k THEN q[j] ELSE q[j + 1]
    <3> SUFFICES ASSUME NEW j \in 1..(Len(q) - 1) PROVE r[j] = IF j < k THEN q[j] ELSE q[j + 1]
      OBVIOUS
    <3>1. CASE j < k
      BY <1>1, <2>1, <2>3, <2>4, <2>5, <3>1
    <3>2. CASE ~(j < k)
      <4>1. /\ j - (k - 1) \in 1..(Len(q) - k) /\ (j - (k - 1)) + k = j + 1 /\ ~(j <= k - 1)
            /\ j \in 1..(Len(a) + Len(b))
        BY <1>1, <2>1, <2>3, <2>4, <3>2
      <4>2. r[j] = b[j - (k - 1)]
        BY <2>3, <2>5, <4>1
      <4> QED
        BY <2>4, <3>2, <4>1, <4>2
    <3> QED
      BY <3>1, <3>2
  <2>8. IsInjective(r)
    <3> SUFFICES ASSUME NEW x \in 1..(Len(q) - 1), NEW y \in 1..(Len(q) - 1), x < y
                 PROVE  r[x] # r[y]
      BY <1>1, <2>6 DEF IsInjective
    <3>1. \A u, v \in 1..Len(q) : q[u] = q[v] => u = v
      BY <1>1 DEF IsInjective
    <3>2. CASE x < k /\ y < k
      BY <1>1, <2>1, <2>7, <3>1, <3>2
    <3>3. CASE x < k /\ ~(y < k)
      BY <1>1, <2>1, <2>7, <3>1, <3>3
    <3>4. CASE ~(x < k)
      <4>1. ~(y < k) /\ r[x] = q[x + 1] /\ r[y] = q[y + 1]
        BY <1>1, <2>1, <2>7, <3>4
      <4> QED
        BY <1>1, <3>1, <4>1
    <3> QED
      BY <3>2, <3>3, <3>4
  <2>9. Range(r) = Range(q) \ {i}
    <3>1. ASSUME NEW j \in DOMAIN r PROVE r[j] \in Range(q) \ {i}
      BY <1>1, <2>1, <2>6, <2>7, <3>1 DEF IsInjective, Range
    <3>2. ASSUME NEW j \in DOMAIN q, q[j] # i PROVE q[j] \in Range(r)
      <4>1. CASE j < k
        <5>1. j \in DOMAIN r /\ r[j] = q[j]
          BY <1>1, <2>1, <2>6, <2>7, <4>1
        <5> QED
          BY <5>1 DEF Range
      <4>2. CASE j > k
        <5>1. j - 1 \in DOMAIN r /\ r[j - 1] = q[j]
          BY <1>1, <2>1, <2>6, <2>7, <4>2
        <5> QED
          BY <5>1 DEF Range
      <4> QED
        BY <1>1, <2>1, <3>2, <4>1, <4>2
    <3> QED
      BY <3>1, <3>2 DEF Range
  <2> QED
    BY <2>5, <2>8, <2>9 DEF r
<1> QED
  BY <1>2, <1>3

-----------------------------------------------------------------------------
(* Every variable has its type.                                             *)

Slots == [st : {"free", "sent", "released"}, msg : Messages \cup {NoMessage}]

LEMMA InitTyped == Init => TypeOK
<1> SUFFICES ASSUME Init PROVE TypeOK
  OBVIOUS
<1>1. <<>> \in Seq(Packets) /\ <<>> \in Seq(Ids) /\ IsInjective(<<>>)
  BY DEF IsInjective
<1>2. FreeSlot \in Slots /\ 1 \in Ids
  BY DEF FreeSlot, Slots, Ids
<1>3. /\ unconfirmed \in [Ids -> Int] /\ slots \in [Ids -> Slots]
      /\ delivered \in [Messages -> Nat] /\ todo \subseteq Messages
  BY <1>2 DEF Init
<1> QED
  BY <1>1, <1>2, <1>3 DEF Init, TypeOK, Slots

\* The packets that are put.
LEMMA PacketTypes ==
  /\ \A t \in Types, i \in Ids : Pkt(t, i) \in Packets
  /\ \A i \in Ids, m \in Messages \cup {NoMessage} : Publish(i, m) \in Packets
  /\ \A i \in Ids : SuccId(i) \in Ids
<1>1. \A t \in Types, i \in Ids : Pkt(t, i) \in Packets
  BY DEF Pkt, Packets
<1>2. \A i \in Ids, m \in Messages \cup {NoMessage} : Publish(i, m) \in Packets
  BY DEF Publish, Packets, Types
<1>3. \A i \in Ids : SuccId(i) \in Ids
  BY DEF SuccId, Ids
<1> QED
  BY <1>1, <1>2, <1>3

\* What is put at the end of a queue, taken from its front or sent by _sendAcks.
LEMMA QueueMoves ==
  /\ \A q \in Seq(Packets), p \in Packets : Append(q, p) \in Seq(Packets)
  /\ \A q \in Seq(Packets) : q # <<>> => Head(q) \in Packets /\ Tail(q) \in Seq(Packets)
  /\ \A q, r \in Seq(Packets), room \in Rooms :
       r \o SentAcks(q, room) \in Seq(Packets) /\ KeptAcks(q, room) \in Seq(Packets)
<1>1. \A q \in Seq(Packets), p \in Packets : Append(q, p) \in Seq(Packets)
  BY AppendProperties
<1>2. \A q \in Seq(Packets) : q # <<>> => Head(q) \in Packets /\ Tail(q) \in Seq(Packets)
  BY HeadTailProperties
<1>3. ASSUME NEW q \in Seq(Packets), NEW r \in Seq(Packets), NEW room \in Rooms
      PROVE  r \o SentAcks(q, room) \in Seq(Packets) /\ KeptAcks(q, room) \in Seq(Packets)
  <2>1. room \in Nat
    BY DEF Rooms
  <2>2. SentAcks(q, room) \in Seq(Packets) /\ KeptAcks(q, room) \in Seq(Packets)
    BY <2>1, AckQueue
  <2> QED
    BY <2>2, ConcatProperties
<1> QED
  BY <1>1, <1>2, <1>3

\* The handler of a packet takes one with the packet's type.
LEMMA Received ==
  ASSUME TypeOK, NEW t, Receiving(t)
  PROVE  /\ Head(toClient) \in Packets /\ Head(toClient).id \in Ids
         /\ toClient' \in Seq(Packets)
BY QueueMoves DEF TypeOK, Receiving, Packets

\* The queues of packets.
QueuesTyped ==
  toSendAcks \in Seq(Packets) /\ toBroker \in Seq(Packets) /\ toClient \in Seq(Packets)

LEMMA FlushTyped ==
  ASSUME TypeOK, NEW t, Receiving(t), NEW a \in Types, NEW room \in Rooms,
         Flush(Append(toSendAcks, Pkt(a, Head(toClient).id)), room)
  PROVE  QueuesTyped'
<1>1. Head(toClient).id \in Ids /\ toClient' \in Seq(Packets)
  BY Received
<1>2. Append(toSendAcks, Pkt(a, Head(toClient).id)) \in Seq(Packets)
  BY <1>1, PacketTypes, QueueMoves DEF TypeOK
<1> QED
  BY <1>1, <1>2, QueueMoves DEF TypeOK, Flush, QueuesTyped

LEMMA BrokerAnswers ==
  ASSUME TypeOK, BrokerReceive
  PROVE  QueuesTyped' /\ slots' \in [Ids -> Slots]
<1> DEFINE p == Head(toBroker)
<1>1. p \in Packets /\ p.id \in Ids /\ p.type \in Types /\ toBroker' \in Seq(Packets)
  BY QueueMoves DEF TypeOK, BrokerReceive, Packets
<1>2. toClient \in Seq(Packets) /\ toSendAcks' \in Seq(Packets) /\ slots \in [Ids -> Slots]
  BY DEF TypeOK, BrokerReceive, clientVars, Slots
<1>3. CASE p.type \in DOMAIN Answer /\ toClient' = Append(toClient, Pkt(Answer[p.type], p.id))
           /\ UNCHANGED slots
  <2>1. Answer[p.type] \in Types
    BY <1>3 DEF Answer, Types
  <2>2. toClient' \in Seq(Packets)
    BY <1>1, <1>2, <1>3, <2>1, PacketTypes, QueueMoves
  <2> QED
    BY <1>1, <1>2, <1>3, <2>2 DEF QueuesTyped
<1>4. CASE slots' = [slots EXCEPT ![p.id].st = "released"]
           /\ toClient' = Append(toClient, Pkt("PUBREL", p.id))
  <2>1. toClient' \in Seq(Packets)
    BY <1>1, <1>2, <1>4, PacketTypes, QueueMoves DEF Types
  <2>2. [slots[p.id] EXCEPT !.st = "released"] \in Slots
    BY <1>1, <1>2 DEF Slots
  <2>3. slots' \in [Ids -> Slots]
    BY <1>2, <1>4, <2>2
  <2> QED
    BY <1>1, <1>2, <2>1, <2>3 DEF QueuesTyped
<1>5. CASE slots' = [slots EXCEPT ![p.id] = FreeSlot] /\ UNCHANGED toClient
  BY <1>1, <1>2, <1>5 DEF QueuesTyped, FreeSlot, Slots
<1>6. CASE UNCHANGED <<slots, toClient>>
  BY <1>1, <1>2, <1>6 DEF QueuesTyped
<1> QED
  BY <1>3, <1>4, <1>5, <1>6 DEF BrokerReceive

\* The other variables.
OthersTyped ==
  /\ connected \in BOOLEAN
  /\ pendingPubRels \in Seq(Ids) /\ IsInjective(pendingPubRels)
  /\ nextPacketId \in Ids
  /\ slots \in [Ids -> Slots]
  /\ todo \subseteq Messages /\ unconfirmed \in [Ids -> Int]
  /\ delivered \in [Messages -> Nat]

LEMMA TypeParts ==
  (TypeOK <=> QueuesTyped /\ OthersTyped) /\ (TypeOK' <=> QueuesTyped' /\ OthersTyped')
BY DEF TypeOK, QueuesTyped, OthersTyped, Slots

\* publish(), also with dup and an id of the caller's, subscribe() and unsubscribe()
\* send a packet of a type the broker answers with an id that has its type.
Asking == DOMAIN Answer

Requests ==
  \/ \E qos \in {1, 2} : PublishQoS(qos) \/ \E i \in Ids : PublishAgain(qos, i)
  \/ Subscribe \/ Unsubscribe

LEMMA RequestsPut ==
  ASSUME TypeOK, Requests
  PROVE  /\ \E t \in Types \cap Asking, i \in Ids : Put(t, i)
         /\ nextPacketId' \in Ids
<1> DEFINE Puts == \E t \in Types \cap Asking, i \in Ids : Put(t, i)
<1>1. nextPacketId \in Ids /\ SuccId(nextPacketId) \in Ids
  BY PacketTypes DEF TypeOK
<1>2. /\ \A qos \in {1, 2} : PublishType(qos) \in Types \cap Asking
      /\ {"SUBSCRIBE", "UNSUBSCRIBE"} \subseteq Types \cap Asking
  BY DEF PublishType, Types, Asking, Answer
<1>3. ASSUME NEW t \in Types \cap Asking, Request(t) PROVE Puts /\ nextPacketId' \in Ids
  BY <1>1, <1>3 DEF Request
<1>4. ASSUME NEW qos \in {1, 2}, NEW i \in Ids, PublishAgain(qos, i) PROVE Puts /\ nextPacketId' \in Ids
  BY <1>1, <1>2, <1>4 DEF PublishAgain
<1> QED
  BY <1>2, <1>3, <1>4 DEF Requests, PublishQoS, Subscribe, Unsubscribe

LEMMA RequestTyped ==
  ASSUME TypeOK, NEW t \in Types, NEW i \in Ids, Put(t, i), nextPacketId' \in Ids
  PROVE  TypeOK'
<1>1. QueuesTyped'
  <2>1. toBroker' \in Seq(Packets)
    BY PacketTypes, QueueMoves DEF TypeOK, Put
  <2> QED
    BY <2>1 DEF TypeOK, Put, QueuesTyped
<1>2. OthersTyped'
  <2>1. unconfirmed' \in [Ids -> Int]
    BY DEF TypeOK, Put
  <2> QED
    BY <2>1 DEF TypeOK, Put, OthersTyped, Slots, brokerVars
<1> QED
  BY <1>1, <1>2, TypeParts

LEMMA BrokerTyped ==
  ASSUME TypeOK, Broker
  PROVE  TypeOK'
<1>1. ASSUME NEW m \in Messages, BrokerPublish(m) PROVE TypeOK'
  <2>1. PICK i \in Ids : /\ slots' = [slots EXCEPT ![i] = [st |-> "sent", msg |-> m]]
                         /\ toClient' = Append(toClient, Publish(i, m))
    BY <1>1 DEF BrokerPublish
  <2>2. QueuesTyped'
    BY <1>1, <2>1, PacketTypes, QueueMoves DEF BrokerPublish, TypeOK, QueuesTyped, clientVars
  <2>3. slots' \in [Ids -> Slots]
    BY <2>1 DEF TypeOK, Slots
  <2> QED
    BY <1>1, <2>2, <2>3, TypeParts DEF BrokerPublish, OthersTyped, clientVars
<1>2. ASSUME NEW i \in Ids, BrokerResend(i) PROVE TypeOK'
  <2>1. slots[i].msg \in Messages \cup {NoMessage}
    BY DEF TypeOK
  <2>2. QueuesTyped'
    BY <1>2, <2>1, PacketTypes, QueueMoves DEF BrokerResend, TypeOK, QueuesTyped, clientVars
  <2> QED
    BY <1>2, <2>2, TypeParts DEF BrokerResend, OthersTyped, clientVars, brokerVars
<1>3. CASE BrokerReceive
  <2>1. QueuesTyped' /\ slots' \in [Ids -> Slots]
    BY <1>3, BrokerAnswers
  <2> QED
    BY <1>3, <2>1, TypeParts DEF BrokerReceive, OthersTyped, clientVars
<1> QED
  BY <1>1, <1>2, <1>3 DEF Broker

LEMMA HandlersTyped ==
  ASSUME TypeOK, Handling
  PROVE  TypeOK'
<1> USE TypeParts
<1>1. CASE OnPublish1
  <2> DEFINE p == Head(toClient)
  <2>1. Receiving("PUBLISH")
    BY <1>1 DEF OnPublish1
  <2>2. p.id \in Ids /\ toClient' \in Seq(Packets)
    BY <2>1, Received
  <2>3. toSendAcks' \in Seq(Packets)
    BY <1>1, <2>2, PacketTypes, QueueMoves DEF OnPublish1, TypeOK, Types
  <2>4. QueuesTyped'
    BY <1>1, <2>2, <2>3 DEF OnPublish1, TypeOK, QueuesTyped
  <2>5. delivered' \in [Messages -> Nat]
    <3>1. delivered \in [Messages -> Nat]
      BY DEF TypeOK
    <3>2. PICK m : delivered' = [delivered EXCEPT ![m] = @ + 1]
      BY <1>1 DEF OnPublish1
    <3>3. \A x \in Messages : delivered'[x] \in {delivered[x], delivered[x] + 1}
      BY <3>1, <3>2
    <3>4. delivered' = [x \in Messages |-> delivered'[x]]
      BY <3>1, <3>2
    <3> QED
      BY <3>1, <3>3, <3>4
  <2> QED
    BY <1>1, <2>4, <2>5 DEF OnPublish1, OthersTyped, brokerVars
<1>2. CASE OnAnswered
  <2>1. PICK t : Receiving(t) /\ OnConfirmed(t)
    BY <1>2 DEF OnAnswered, OnPubAck, OnPubComp, OnSubAck, OnUnsubAck, OnConfirmed
  <2>2. toClient' \in Seq(Packets)
    BY <2>1, Received
  <2>3. QueuesTyped'
    BY <2>1, <2>2 DEF OnConfirmed, TypeOK, QueuesTyped, clientVars
  <2>4. unconfirmed' \in [Ids -> Int]
    <3>1. unconfirmed \in [Ids -> Int]
      BY DEF TypeOK
    <3>2. PICK x \in Ids : unconfirmed' = [unconfirmed EXCEPT ![x] = @ - 1]
      BY <2>1, Received DEF OnConfirmed
    <3> QED
      BY <3>1, <3>2
  <2>5. UNCHANGED <<connected, pendingPubRels, nextPacketId, slots, todo, delivered>>
    BY <2>1 DEF OnConfirmed, clientVars, brokerVars
  <2>6. OthersTyped
    OBVIOUS
  <2> QED
    BY <2>3, <2>4, <2>5, <2>6 DEF OthersTyped
<1>3. ASSUME NEW room \in Rooms, OnPublish2(room) PROVE TypeOK'
  <2> DEFINE p == Head(toClient)
  <2>1. Receiving("PUBLISH") /\ Flush(Append(toSendAcks, Pkt("PUBREC", p.id)), room)
    BY <1>3 DEF OnPublish2
  <2>2. p.id \in Ids
    BY <2>1, Received
  <2>3. QueuesTyped'
    BY <2>1, FlushTyped DEF Types
  <2>4. delivered' \in [Messages -> Nat]
    <3>1. delivered \in [Messages -> Nat]
      BY DEF TypeOK
    <3>2. PICK m, n : delivered' = [delivered EXCEPT ![m] = n] /\ n \in {delivered[m], delivered[m] + 1}
      BY <1>3 DEF OnPublish2
    <3>3. \A x \in Messages : delivered'[x] \in {delivered[x], delivered[x] + 1}
      BY <3>1, <3>2
    <3>4. delivered' = [x \in Messages |-> delivered'[x]]
      BY <3>1, <3>2
    <3> QED
      BY <3>1, <3>3, <3>4
  <2>5. pendingPubRels' \in Seq(Ids) /\ IsInjective(pendingPubRels')
    <3>1. CASE PubRelPending(p.id)
      BY <1>3, <3>1 DEF OnPublish2, OthersTyped
    <3>2. CASE ~PubRelPending(p.id)
      <4>1. pendingPubRels' = Append(pendingPubRels, p.id)
        BY <1>3, <3>2 DEF OnPublish2
      <4>2. /\ pendingPubRels \in Seq(Ids) /\ IsInjective(pendingPubRels)
            /\ \A k \in DOMAIN pendingPubRels : pendingPubRels[k] # p.id
        BY <3>2 DEF OthersTyped, PubRelPending, Range
      <4>3. /\ pendingPubRels' \in Seq(Ids) /\ Len(pendingPubRels') = Len(pendingPubRels) + 1
            /\ \A k \in 1..Len(pendingPubRels) : pendingPubRels'[k] = pendingPubRels[k]
            /\ pendingPubRels'[Len(pendingPubRels) + 1] = p.id
        BY <2>2, <4>1, <4>2, AppendProperties
      <4>4. /\ DOMAIN pendingPubRels' = 1..(Len(pendingPubRels) + 1)
            /\ DOMAIN pendingPubRels = 1..Len(pendingPubRels) /\ Len(pendingPubRels) \in Nat
        BY <4>2, <4>3, LenProperties
      <4> QED
        BY <4>2, <4>3, <4>4 DEF IsInjective
    <3> QED
      BY <3>1, <3>2
  <2> QED
    BY <1>3, <2>3, <2>4, <2>5 DEF OnPublish2, OthersTyped, brokerVars
<1>4. ASSUME NEW room \in Rooms, OnPubRel(room) PROVE TypeOK'
  <2> DEFINE p == Head(toClient)
  <2>1. Receiving("PUBREL") /\ Flush(Append(toSendAcks, Pkt("PUBCOMP", p.id)), room)
    BY <1>4 DEF OnPubRel
  <2>2. p.id \in Ids
    BY <2>1, Received
  <2>3. QueuesTyped'
    BY <2>1, FlushTyped DEF Types
  <2>4. pendingPubRels' \in Seq(Ids) /\ IsInjective(pendingPubRels')
    BY <1>4, <2>2, WithoutIdFacts DEF OnPubRel, OthersTyped
  <2> QED
    BY <1>4, <2>3, <2>4 DEF OnPubRel, OthersTyped, brokerVars
<1>5. ASSUME NEW room \in Rooms, OnPubRec(room) PROVE TypeOK'
  <2>1. Receiving("PUBREC") /\ Flush(Append(toSendAcks, Pkt("PUBREL", Head(toClient).id)), room)
    BY <1>5 DEF OnPubRec
  <2>2. QueuesTyped'
    BY <2>1, FlushTyped DEF Types
  <2> QED
    BY <1>5, <2>2 DEF OnPubRec, OthersTyped, brokerVars
<1> QED
  BY <1>1, <1>2, <1>3, <1>4, <1>5 DEF Handling

LEMMA NextTyped == TypeOK /\ [Next]_vars => TypeOK'
<1> SUFFICES ASSUME TypeOK, [Next]_vars PROVE TypeOK'
  OBVIOUS
<1>1. CASE ConnAck
  BY <1>1, TypeParts DEF ConnAck, QueuesTyped, OthersTyped, brokerVars
<1>2. CASE Requests
  <2>1. nextPacketId' \in Ids /\ \E t \in Types \cap Asking, i \in Ids : Put(t, i)
    BY <1>2, RequestsPut
  <2> QED
    BY <2>1, RequestTyped
<1>3. ASSUME NEW room \in Rooms, Poll(room) PROVE TypeOK'
  <2>1. QueuesTyped'
    BY <1>3, QueueMoves DEF Poll, TypeOK, QueuesTyped, Flush
  <2> QED
    BY <1>3, <2>1, TypeParts DEF Poll, OthersTyped, brokerVars
<1>4. CASE Handling
  BY <1>4, HandlersTyped
<1>5. CASE Broker
  BY <1>5, BrokerTyped
<1>6. CASE Drop
  <2>1. <<>> \in Seq(Packets) /\ <<>> \in Seq(Ids) /\ IsInjective(<<>>)
    BY DEF IsInjective
  <2>2. FreeSlot \in Slots /\ 1 \in Ids
    BY DEF FreeSlot, Slots, Ids
  <2>3. /\ unconfirmed' \in [Ids -> Int] /\ slots' \in [Ids -> Slots]
        /\ delivered' \in [Messages -> Nat] /\ todo' \subseteq Messages
    BY <1>6, <2>2 DEF Drop
  <2> QED
    BY <1>6, <2>1, <2>2, <2>3, TypeParts DEF Drop, QueuesTyped, OthersTyped, ClearedPubRels
<1>7. CASE UNCHANGED vars
  BY <1>7 DEF vars, clientVars, brokerVars, TypeOK
<1> QED
  BY <1>1, <1>2, <1>3, <1>4, <1>5, <1>6, <1>7 DEF Next, Client, Handling, Requests

\* In every execution every variable has its type: every packet identifier is
\* between 1 and 65535, and _pendingPubRels holds no identifier twice.
THEOREM MqttTypeCorrect == Spec => []TypeOK
<1>1. Init => TypeOK
  BY InitTyped
<1> QED
  BY <1>1, NextTyped, PTL DEF Spec

-----------------------------------------------------------------------------
(* The delivery invariant: where the PUBLISH and PUBREL packets of an id     *)
(* stand in the stream to the client, against _pendingPubRels, the slots of  *)
(* the broker and what has been passed on.                                   *)

Pending == Range(pendingPubRels)

\* The k-th packet to the client is a PUBLISH, one of QoS 2, the PUBREL of id i.
Pub(k) == toClient[k].type = "PUBLISH"
Pub2(k) == Pub(k) /\ QoSOf[toClient[k].msg] = 2
Rel(k, i) == toClient[k].type = "PUBREL" /\ toClient[k].id = i

\* The broker has sent message m with id i and not had its answer.
Sent(i, m) == slots[i].st = "sent" /\ slots[i].msg = m
Sent2(i) == slots[i].st = "sent" /\ QoSOf[slots[i].msg] = 2

\* Packets and slots are about messages that are not to be sent any more.
Known ==
  /\ \A k \in DOMAIN toClient : Pub(k) => toClient[k].msg \in Messages \ todo
  /\ \A i \in Ids : slots[i].st = "sent" => slots[i].msg \in Messages \ todo

\* A message has one packet identifier.
OneId ==
  /\ \A k, l \in DOMAIN toClient :
       Pub(k) /\ Pub(l) /\ toClient[k].msg = toClient[l].msg => toClient[k].id = toClient[l].id
  /\ \A k \in DOMAIN toClient, i \in Ids :
       Pub(k) /\ Sent(i, toClient[k].msg) => toClient[k].id = i
  /\ \A i, j \in Ids :
       slots[i].st = "sent" /\ slots[j].st = "sent" /\ slots[i].msg = slots[j].msg => i = j

\* A message of QoS 1 is sent once.
OneCopy ==
  \A k \in DOMAIN toClient :
    Pub(k) /\ ~Pub2(k) =>
      /\ delivered[toClient[k].msg] = 0
      /\ \A l \in DOMAIN toClient : Pub(l) /\ toClient[k].msg = toClient[l].msg => k = l

\* Between PUBLISH packets of an id with different messages there is a PUBREL,
\* between those with the same message there is none.
Apart ==
  \A k, l \in DOMAIN toClient :
    /\ k < l /\ Pub2(k) /\ Pub2(l) /\ toClient[k].id = toClient[l].id
    /\ toClient[k].msg # toClient[l].msg
    => \E n \in DOMAIN toClient : k < n /\ n < l /\ Rel(n, toClient[k].id)
Together ==
  \A k, l, n \in DOMAIN toClient :
    /\ k < n /\ n < l /\ Pub2(k) /\ Pub2(l) /\ toClient[k].msg = toClient[l].msg
    => ~Rel(n, toClient[k].id)

\* _pendingPubRels will tell whether a message has been passed on when its packet
\* is handled.
SeenPending ==
  \A k \in DOMAIN toClient :
    Pub2(k) /\ delivered[toClient[k].msg] = 1 =>
      /\ toClient[k].id \in Pending
      /\ \A n \in DOMAIN toClient : n < k => ~Rel(n, toClient[k].id)
FreshReleased ==
  \A k \in DOMAIN toClient :
    Pub2(k) /\ delivered[toClient[k].msg] = 0 /\ toClient[k].id \in Pending =>
      \E n \in DOMAIN toClient : n < k /\ Rel(n, toClient[k].id)

\* A packet is followed by a PUBREL just when its slot has gone on.
Followed ==
  \A k \in DOMAIN toClient :
    Pub2(k) => (Sent(toClient[k].id, toClient[k].msg)
                <=> \A n \in DOMAIN toClient : k < n => ~Rel(n, toClient[k].id))
SentOnce ==
  \A i \in Ids :
    Sent2(i) =>
      /\ delivered[slots[i].msg] = 1 =>
           i \in Pending /\ \A n \in DOMAIN toClient : ~Rel(n, i)
      /\ delivered[slots[i].msg] = 0 =>
           \E k \in DOMAIN toClient : Pub(k) /\ toClient[k].msg = slots[i].msg
GoneOn ==
  \A i \in Ids : ~Sent2(i) /\ i \in Pending => \E n \in DOMAIN toClient : Rel(n, i)

\* What has been passed on, and what will be.
Passed ==
  /\ \A m \in Messages : delivered[m] \in {0, 1} /\ (m \in todo => delivered[m] = 0)
  /\ ~connected => todo = Messages
Arrives ==
  \A m \in Messages \ todo :
    delivered[m] = 0 => \E k \in DOMAIN toClient : Pub(k) /\ toClient[k].msg = m

Delivery ==
  /\ Known /\ OneId /\ OneCopy /\ Apart /\ Together /\ SeenPending /\ FreshReleased
  /\ Followed /\ SentOnce /\ GoneOn /\ Passed /\ Arrives

LEMMA DeliveryGivesOnce == Delivery => DeliveredOnce
<1> SUFFICES ASSUME Delivery, NEW m \in Messages
             PROVE  /\ delivered[m] <= 1
                    /\ connected /\ m \notin todo /\ (\A p \in Range(toClient) : p.msg # m)
                         => delivered[m] = 1
  BY DEF DeliveredOnce
<1>1. delivered[m] \in {0, 1}
  BY DEF Delivery, Passed
<1>2. ASSUME m \notin todo, \A p \in Range(toClient) : p.msg # m PROVE delivered[m] # 0
  BY <1>2 DEF Delivery, Arrives, Range
<1> QED
  BY <1>1, <1>2

\* A packet at the end of the stream, and one taken from its front.
LEMMA PacketAppended ==
  ASSUME TypeOK, NEW p \in Packets, toClient' = Append(toClient, p)
  PROVE  LET n == Len(toClient) IN
         /\ n \in Nat /\ DOMAIN toClient = 1..n /\ DOMAIN toClient' = 1..(n + 1)
         /\ \A k \in 1..n : toClient'[k] = toClient[k]
         /\ toClient'[n + 1] = p
<1>1. toClient \in Seq(Packets)
  BY DEF TypeOK
<1>2. /\ toClient' \in Seq(Packets) /\ Len(toClient') = Len(toClient) + 1
      /\ \A k \in 1..Len(toClient) : toClient'[k] = toClient[k]
      /\ toClient'[Len(toClient) + 1] = p
  BY <1>1, AppendProperties
<1>3. Len(toClient) \in Nat /\ DOMAIN toClient = 1..Len(toClient)
  BY <1>1, LenProperties
<1>4. DOMAIN toClient' = 1..Len(toClient')
  BY <1>2, LenProperties
<1> QED
  BY <1>2, <1>3, <1>4

LEMMA PacketTaken ==
  ASSUME TypeOK, NEW t, Receiving(t)
  PROVE  LET n == Len(toClient) IN
         /\ n \in Nat /\ n >= 1 /\ DOMAIN toClient = 1..n /\ DOMAIN toClient' = 1..(n - 1)
         /\ Head(toClient) = toClient[1] /\ toClient[1] \in Packets /\ toClient[1].type = t
         /\ \A k \in 1..(n - 1) : toClient'[k] = toClient[k + 1]
         /\ \A k \in 2..n : k - 1 \in 1..(n - 1) /\ toClient'[k - 1] = toClient[k]
<1>1. toClient \in Seq(Packets) /\ toClient # <<>> /\ Head(toClient).type = t
      /\ toClient' = Tail(toClient)
  BY DEF TypeOK, Receiving
<1>2. /\ Head(toClient) \in Packets /\ Tail(toClient) \in Seq(Packets)
      /\ Len(Tail(toClient)) = Len(toClient) - 1
      /\ \A k \in 1..Len(Tail(toClient)) : Tail(toClient)[k] = toClient[k + 1]
      /\ Head(toClient) = toClient[1]
  BY <1>1, HeadTailProperties
<1>3. Len(toClient) \in Nat /\ DOMAIN toClient = 1..Len(toClient)
  BY <1>1, LenProperties
<1>4. DOMAIN toClient' = 1..Len(toClient')
  BY <1>1, <1>2, LenProperties
<1>5. Len(toClient) >= 1
  BY <1>1, <1>3, EmptySeq
<1> QED
  BY <1>1, <1>2, <1>3, <1>4, <1>5

LEMMA StreamIds ==
  ASSUME TypeOK, NEW k \in DOMAIN toClient
  PROVE  toClient[k].id \in Ids
<1>1. toClient \in Seq(Packets)
  BY DEF TypeOK
<1>2. toClient[k] \in Packets
  BY <1>1, LenProperties, ElementOfSeq
<1> QED
  BY <1>2 DEF Packets

LEMMA InitDelivery == Init => Delivery
<1> SUFFICES ASSUME Init PROVE Delivery
  OBVIOUS
<1>1. DOMAIN toClient = {} /\ Pending = {}
  BY DEF Init, Pending, Range
<1>2. todo = Messages /\ \A i \in Ids : slots[i].st = "free"
  BY DEF Init, FreeSlot
<1>3. \A m \in Messages : delivered[m] = 0
  BY DEF Init
<1> QED
  BY <1>1, <1>2, <1>3 DEF Delivery, Known, OneId, OneCopy, Apart, Together, SeenPending,
     FreshReleased, Followed, Sent2, SentOnce, GoneOn, Passed, Arrives

\* The invariant says nothing of _toSendAcks, of the packets to the broker or of
\* the identifiers the client uses itself.
DeliveryVars == <<toClient, pendingPubRels, slots, todo, delivered>>

LEMMA DeliveryFramed ==
  ASSUME Delivery, UNCHANGED DeliveryVars, connected => connected'
  PROVE  Delivery'
<1>1. ~connected' => todo' = Messages
  BY DEF Delivery, Passed, DeliveryVars
<1> QED
  BY <1>1 DEF Delivery, DeliveryVars, Known, OneId, OneCopy, Apart, Together, SeenPending,
     FreshReleased, Followed, Sent, Sent2, SentOnce, GoneOn, Passed, Arrives, Pub, Pub2, Rel, Pending

LEMMA DropDelivers ==
  ASSUME Drop
  PROVE  Delivery'
<1>1. DOMAIN toClient' = {} /\ Pending' = {}
  BY DEF Drop, ClearedPubRels, Pending, Range
<1>2. todo' = Messages /\ \A i \in Ids : slots'[i].st = "free"
  BY DEF Drop, FreeSlot
<1>3. \A m \in Messages : delivered'[m] = 0
  BY DEF Drop
<1> QED
  BY <1>1, <1>2, <1>3 DEF Delivery, Known, OneId, OneCopy, Apart, Together, SeenPending,
     FreshReleased, Followed, Sent2, SentOnce, GoneOn, Passed, Arrives

\* A packet that is neither a PUBLISH nor a PUBREL.
LEMMA AnswerDelivers ==
  ASSUME TypeOK, Delivery, NEW p \in Packets, p.type \notin {"PUBLISH", "PUBREL"},
         toClient' = Append(toClient, p),
         UNCHANGED <<connected, pendingPubRels, slots, todo, delivered>>
  PROVE  Delivery'
<1> DEFINE n == Len(toClient)
<1>1. /\ n \in Nat /\ DOMAIN toClient = 1..n /\ DOMAIN toClient' = 1..(n + 1)
      /\ \A k \in 1..n : toClient'[k] = toClient[k]
      /\ toClient'[n + 1] = p
  BY PacketAppended
<1> HIDE DEF n
<1>2. /\ \A k \in DOMAIN toClient : k \in DOMAIN toClient' /\ toClient'[k] = toClient[k]
      /\ \A k \in DOMAIN toClient' : toClient'[k].type \in {"PUBLISH", "PUBREL"} => k \in DOMAIN toClient
  BY <1>1
<1>3. Pending' = Pending
  BY DEF Pending
<1> USE DEF Pub, Pub2, Rel, Sent, Sent2
<1>4. Known' /\ OneId' /\ OneCopy'
  BY <1>2 DEF Delivery, Known, OneId, OneCopy
<1>5. Apart' /\ Together'
  <2>1. Apart /\ Together
    BY DEF Delivery
  <2>2. /\ \A k \in DOMAIN toClient' : Pub2(k)' => k \in DOMAIN toClient /\ Pub2(k)
        /\ \A k \in DOMAIN toClient' : \A j : Rel(k, j)' => k \in DOMAIN toClient /\ Rel(k, j)
        /\ \A k \in DOMAIN toClient : \A j : Rel(k, j) => k \in DOMAIN toClient' /\ Rel(k, j)'
    BY <1>2
  <2> HIDE DEF Pub2, Rel
  <2>3. Apart'
    BY <1>2, <2>1, <2>2 DEF Apart
  <2>4. Together'
    BY <1>2, <2>1, <2>2 DEF Together
  <2> QED
    BY <2>3, <2>4
<1>6. SeenPending' /\ FreshReleased'
  BY <1>2, <1>3 DEF Delivery, SeenPending, FreshReleased
<1>7. Followed'
  BY <1>2 DEF Delivery, Followed
<1>8. SentOnce' /\ GoneOn'
  BY <1>2, <1>3 DEF Delivery, SentOnce, GoneOn
<1>9. Passed' /\ Arrives'
  BY <1>2 DEF Delivery, Passed, Arrives
<1> QED
  BY <1>4, <1>5, <1>6, <1>7, <1>8, <1>9 DEF Delivery

\* The broker has the PUBREC it waits for and sends the PUBREL.
LEMMA PubRelDelivers ==
  ASSUME TypeOK, Delivery, NEW i \in Ids, Sent2(i),
         slots' = [slots EXCEPT ![i].st = "released"],
         toClient' = Append(toClient, Pkt("PUBREL", i)),
         UNCHANGED <<connected, pendingPubRels, todo, delivered>>
  PROVE  Delivery'
<1> DEFINE n == Len(toClient)
           p == Pkt("PUBREL", i)
<1>1. p \in Packets /\ p.type = "PUBREL" /\ p.id = i
  BY PacketTypes DEF Types, Pkt
<1>2. /\ n \in Nat /\ DOMAIN toClient = 1..n /\ DOMAIN toClient' = 1..(n + 1)
      /\ \A k \in 1..n : toClient'[k] = toClient[k]
      /\ toClient'[n + 1] = p
  BY <1>1, PacketAppended
<1> HIDE DEF n, p
<1>3. /\ \A k \in DOMAIN toClient : k \in DOMAIN toClient' /\ toClient'[k] = toClient[k] /\ k < n + 1
      /\ \A k \in DOMAIN toClient' : k \in DOMAIN toClient \/ k = n + 1
      /\ n + 1 \in DOMAIN toClient' /\ n + 1 \notin DOMAIN toClient
      /\ \A k \in DOMAIN toClient' : toClient'[k].type = "PUBLISH" => k \in DOMAIN toClient
      /\ toClient'[n + 1].type = "PUBREL" /\ toClient'[n + 1].id = i
  BY <1>1, <1>2
<1>4. /\ slots'[i].st = "released"
      /\ \A j \in Ids : j # i => slots'[j] = slots[j]
  BY DEF TypeOK
<1>5. Pending' = Pending
  BY DEF Pending
<1> USE DEF Pub, Pub2, Rel, Sent, Sent2
<1>6. Known' /\ OneId' /\ OneCopy'
  BY <1>3, <1>4 DEF Delivery, Known, OneId, OneCopy
<1>7. Apart' /\ Together'
  <2>1. Apart /\ Together
    BY DEF Delivery
  <2>2. /\ \A k \in DOMAIN toClient' : Pub2(k)' => k \in DOMAIN toClient /\ Pub2(k)
        /\ \A k \in DOMAIN toClient : \A j : Rel(k, j)' <=> Rel(k, j)
        /\ \A k \in DOMAIN toClient : k \in DOMAIN toClient' /\ toClient'[k] = toClient[k]
    BY <1>3
  <2>3. \A k \in DOMAIN toClient', l \in DOMAIN toClient : k < l => k \in DOMAIN toClient
    BY <1>2
  <2> HIDE DEF Pub2, Rel
  <2>4. Apart'
    BY <2>1, <2>2 DEF Apart
  <2>5. Together'
    BY <2>1, <2>2, <2>3 DEF Together
  <2> QED
    BY <2>4, <2>5
<1>9. SeenPending'
  BY <1>2, <1>3, <1>5 DEF Delivery, SeenPending
<1>10. FreshReleased'
  BY <1>3, <1>5 DEF Delivery, FreshReleased
<1>11. Followed'
  <2> SUFFICES ASSUME NEW k \in DOMAIN toClient, Pub2(k)
               PROVE  Sent(toClient[k].id, toClient[k].msg)'
                        <=> \A l \in DOMAIN toClient' : k < l => ~Rel(l, toClient[k].id)'
    BY <1>3 DEF Followed
  <2>1. toClient[k].id \in Ids
    BY StreamIds
  <2>2. CASE toClient[k].id = i
    BY <1>3, <1>4, <2>2
  <2>3. CASE toClient[k].id # i
    BY <1>3, <1>4, <2>1, <2>3 DEF Delivery, Followed
  <2> QED
    BY <2>2, <2>3
<1>12. SentOnce' /\ GoneOn'
  BY <1>3, <1>4, <1>5 DEF Delivery, SentOnce, GoneOn
<1>13. Passed' /\ Arrives'
  BY <1>3 DEF Delivery, Passed, Arrives
<1> QED
  BY <1>6, <1>7, <1>9, <1>10, <1>11, <1>12, <1>13 DEF Delivery

\* The broker has the PUBACK or PUBCOMP it waits for.
LEMMA FreedDelivers ==
  ASSUME TypeOK, Delivery, NEW i \in Ids, ~Sent2(i),
         slots' = [slots EXCEPT ![i] = FreeSlot],
         UNCHANGED <<connected, toClient, pendingPubRels, todo, delivered>>
  PROVE  Delivery'
<1>1. /\ slots'[i].st = "free"
      /\ \A j \in Ids : j # i => slots'[j] = slots[j]
  BY DEF TypeOK, FreeSlot
<1>2. \A j \in Ids : Sent2(j)' <=> Sent2(j)
  BY <1>1 DEF Sent2
<1>3. Pending' = Pending
  BY DEF Pending
<1> USE DEF Pub, Pub2, Rel
<1>4. Known' /\ OneId' /\ OneCopy'
  BY <1>1 DEF Delivery, Known, OneId, OneCopy, Sent
<1>5. Apart' /\ Together' /\ SeenPending' /\ FreshReleased' /\ Passed' /\ Arrives'
  BY <1>3 DEF Delivery, Apart, Together, SeenPending, FreshReleased, Passed, Arrives
<1>6. Followed'
  <2> SUFFICES ASSUME NEW k \in DOMAIN toClient, Pub2(k)
               PROVE  Sent(toClient[k].id, toClient[k].msg)' <=> Sent(toClient[k].id, toClient[k].msg)
    BY DEF Delivery, Followed
  <2>1. toClient[k].id \in Ids
    BY StreamIds
  <2> QED
    BY <1>1, <2>1 DEF Sent, Sent2
<1>7. SentOnce' /\ GoneOn'
  <2>1. \A j \in Ids : Sent2(j) => slots'[j] = slots[j]
    BY <1>1
  <2> QED
    BY <1>2, <1>3, <2>1 DEF Delivery, SentOnce, GoneOn
<1> QED
  BY <1>4, <1>5, <1>6, <1>7 DEF Delivery

\* The broker sends a message with a free identifier.
LEMMA PublishDelivers ==
  ASSUME TypeOK, Delivery, NEW i \in Ids, NEW m \in todo, slots[i].st = "free",
         slots' = [slots EXCEPT ![i] = [st |-> "sent", msg |-> m]],
         toClient' = Append(toClient, Publish(i, m)),
         todo' = todo \ {m}, connected = TRUE,
         UNCHANGED <<connected, pendingPubRels, delivered>>
  PROVE  Delivery'
<1> DEFINE n == Len(toClient)
           p == Publish(i, m)
<1>1. p \in Packets /\ p.type = "PUBLISH" /\ p.id = i /\ p.msg = m /\ m \in Messages
  BY PacketTypes DEF Publish, TypeOK
<1>2. /\ n \in Nat /\ DOMAIN toClient = 1..n /\ DOMAIN toClient' = 1..(n + 1)
      /\ \A k \in 1..n : toClient'[k] = toClient[k]
      /\ toClient'[n + 1] = p
  BY <1>1, PacketAppended
<1> HIDE DEF n, p
<1>3. /\ \A k \in DOMAIN toClient : k \in DOMAIN toClient' /\ toClient'[k] = toClient[k] /\ k < n + 1
      /\ \A k \in DOMAIN toClient' : k \in DOMAIN toClient \/ k = n + 1
      /\ n + 1 \in DOMAIN toClient' /\ n + 1 \notin DOMAIN toClient
      /\ \A k \in DOMAIN toClient' : toClient'[k].type = "PUBREL" => k \in DOMAIN toClient
      /\ \A k \in DOMAIN toClient' : ~(n + 1 < k)
      /\ toClient'[n + 1].type = "PUBLISH" /\ toClient'[n + 1].id = i /\ toClient'[n + 1].msg = m
  BY <1>1, <1>2
<1>4. /\ slots'[i].st = "sent" /\ slots'[i].msg = m
      /\ \A j \in Ids : j # i => slots'[j] = slots[j]
  BY DEF TypeOK
<1>5. Pending' = Pending
  BY DEF Pending
<1>6. /\ delivered[m] = 0
      /\ \A k \in DOMAIN toClient : Pub(k) => toClient[k].msg # m
      /\ \A j \in Ids : slots[j].st = "sent" => slots[j].msg # m
  BY <1>1 DEF Delivery, Passed, Known
<1>7. /\ ~Sent2(i)
      /\ \A k \in DOMAIN toClient : Pub2(k) /\ toClient[k].id = i =>
           \E l \in DOMAIN toClient : k < l /\ Rel(l, i)
  BY DEF Sent2, Delivery, Followed, Sent
<1> USE DEF Pub, Pub2, Rel, Sent, Sent2
<1>8. Known'
  BY <1>1, <1>3, <1>4, <1>6 DEF Delivery, Known
<1>9. OneId'
  BY <1>3, <1>4, <1>6 DEF Delivery, OneId
<1>10. OneCopy'
  BY <1>3, <1>6 DEF Delivery, OneCopy
<1>11. Apart'
  <2> SUFFICES ASSUME NEW k \in DOMAIN toClient', NEW l \in DOMAIN toClient',
                      k < l, Pub2(k)', Pub2(l)', toClient'[k].id = toClient'[l].id,
                      toClient'[k].msg # toClient'[l].msg
               PROVE  \E o \in DOMAIN toClient' : k < o /\ o < l /\ Rel(o, toClient[k].id)'
    BY <1>3 DEF Apart
  <2>1. k \in DOMAIN toClient
    BY <1>3
  <2>2. CASE l \in DOMAIN toClient
    BY <1>3, <2>1, <2>2 DEF Delivery, Apart
  <2>3. CASE l = n + 1
    <3>1. PICK o \in DOMAIN toClient : k < o /\ Rel(o, i)
      BY <1>3, <1>7, <2>1, <2>3
    <3> QED
      BY <1>3, <2>1, <2>3, <3>1
  <2> QED
    BY <1>3, <2>2, <2>3
<1>12. Together'
  <2>1. \A k \in DOMAIN toClient', l \in DOMAIN toClient : k < l => k \in DOMAIN toClient
    BY <1>2
  <2> QED
    BY <1>3, <1>6, <2>1 DEF Delivery, Together
<1>13. SeenPending'
  BY <1>3, <1>5, <1>6 DEF Delivery, SeenPending
<1>14. FreshReleased'
  BY <1>3, <1>5, <1>7 DEF Delivery, FreshReleased, GoneOn
<1>15. Followed'
  <2> SUFFICES ASSUME NEW k \in DOMAIN toClient', Pub2(k)'
               PROVE  Sent(toClient[k].id, toClient[k].msg)'
                        <=> \A l \in DOMAIN toClient' : k < l => ~Rel(l, toClient[k].id)'
    BY DEF Followed
  <2>1. CASE k = n + 1
    BY <1>3, <1>4, <2>1
  <2>2. CASE k \in DOMAIN toClient /\ toClient[k].id = i
    BY <1>3, <1>4, <1>6, <1>7, <2>2
  <2>3. CASE k \in DOMAIN toClient /\ toClient[k].id # i
    <3>1. toClient[k].id \in Ids
      BY <2>3, StreamIds
    <3> QED
      BY <1>3, <1>4, <2>3, <3>1 DEF Delivery, Followed
  <2> QED
    BY <1>3, <2>1, <2>2, <2>3
<1>16. SentOnce'
  BY <1>3, <1>4, <1>5, <1>6 DEF Delivery, SentOnce
<1>17. GoneOn'
  BY <1>3, <1>4, <1>5, <1>7 DEF Delivery, GoneOn
<1>18. Passed' /\ Arrives'
  BY <1>3 DEF Delivery, Passed, Arrives
<1> QED
  BY <1>8, <1>9, <1>10, <1>11, <1>12, <1>13, <1>14, <1>15, <1>16, <1>17, <1>18 DEF Delivery

\* The broker sends a packet it has no PUBREC for again.
LEMMA ResendDelivers ==
  ASSUME TypeOK, Delivery, NEW i \in Ids, NEW m, Sent2(i), m = slots[i].msg,
         toClient' = Append(toClient, Publish(i, m)),
         UNCHANGED <<connected, pendingPubRels, slots, todo, delivered>>
  PROVE  Delivery'
<1> DEFINE n == Len(toClient)
           p == Publish(i, m)
<1>1. m \in Messages \ todo /\ QoSOf[m] = 2
  BY DEF Delivery, Known, Sent2
<1>2. p \in Packets /\ p.type = "PUBLISH" /\ p.id = i /\ p.msg = m
  BY <1>1, PacketTypes DEF Publish
<1>3. /\ n \in Nat /\ DOMAIN toClient = 1..n /\ DOMAIN toClient' = 1..(n + 1)
      /\ \A k \in 1..n : toClient'[k] = toClient[k]
      /\ toClient'[n + 1] = p
  BY <1>2, PacketAppended
<1> HIDE DEF n, p
<1>4. /\ \A k \in DOMAIN toClient : k \in DOMAIN toClient' /\ toClient'[k] = toClient[k] /\ k < n + 1
      /\ \A k \in DOMAIN toClient' : k \in DOMAIN toClient \/ k = n + 1
      /\ n + 1 \in DOMAIN toClient' /\ n + 1 \notin DOMAIN toClient
      /\ \A k \in DOMAIN toClient' : toClient'[k].type = "PUBREL" => k \in DOMAIN toClient
      /\ \A k \in DOMAIN toClient' : ~(n + 1 < k)
      /\ toClient'[n + 1].type = "PUBLISH" /\ toClient'[n + 1].id = i /\ toClient'[n + 1].msg = m
  BY <1>2, <1>3
<1>5. Pending' = Pending
  BY DEF Pending
<1>6. Sent(i, m) /\ \A j \in Ids : Sent(j, m) => j = i
  BY DEF Delivery, OneId, Sent, Sent2
<1>7. \A k \in DOMAIN toClient : Pub(k) /\ toClient[k].msg = m =>
        /\ Pub2(k) /\ toClient[k].id = i
        /\ \A l \in DOMAIN toClient : k < l => ~Rel(l, i)
  <2> SUFFICES ASSUME NEW k \in DOMAIN toClient, Pub(k), toClient[k].msg = m
               PROVE  /\ Pub2(k) /\ toClient[k].id = i
                      /\ \A l \in DOMAIN toClient : k < l => ~Rel(l, i)
    OBVIOUS
  <2>1. Pub2(k) /\ toClient[k].id = i
    BY <1>1, <1>6 DEF Delivery, OneId, Pub2
  <2> QED
    BY <1>6, <2>1 DEF Delivery, Followed
<1>8. \A k \in DOMAIN toClient : Pub2(k) /\ toClient[k].id = i /\ toClient[k].msg # m =>
        \E l \in DOMAIN toClient : k < l /\ Rel(l, i)
  BY DEF Delivery, Followed, Sent
<1>9. delivered[m] = 1 => i \in Pending /\ \A l \in DOMAIN toClient : ~Rel(l, i)
  BY DEF Delivery, SentOnce
<1>10. delivered[m] = 0 => \E k \in DOMAIN toClient : Pub2(k) /\ toClient[k].msg = m
  BY <1>7 DEF Delivery, SentOnce
<1> USE DEF Pub, Pub2, Rel
<1>11. Known'
  BY <1>1, <1>4 DEF Delivery, Known
<1>12. OneId'
  BY <1>4, <1>6, <1>7 DEF Delivery, OneId, Sent
<1>13. OneCopy'
  BY <1>1, <1>4 DEF Delivery, OneCopy
<1>14. Apart'
  <2> SUFFICES ASSUME NEW k \in DOMAIN toClient', NEW l \in DOMAIN toClient',
                      k < l, Pub2(k)', Pub2(l)', toClient'[k].id = toClient'[l].id,
                      toClient'[k].msg # toClient'[l].msg
               PROVE  \E o \in DOMAIN toClient' : k < o /\ o < l /\ Rel(o, toClient[k].id)'
    BY <1>4 DEF Apart
  <2>1. k \in DOMAIN toClient
    BY <1>4
  <2>2. CASE l \in DOMAIN toClient
    BY <1>4, <2>1, <2>2 DEF Delivery, Apart
  <2>3. CASE l = n + 1
    <3>1. PICK o \in DOMAIN toClient : k < o /\ Rel(o, i)
      BY <1>4, <1>8, <2>1, <2>3
    <3> QED
      BY <1>4, <2>1, <2>3, <3>1
  <2> QED
    BY <1>4, <2>2, <2>3
<1>15. Together'
  <2>1. \A k \in DOMAIN toClient', l \in DOMAIN toClient : k < l => k \in DOMAIN toClient
    BY <1>3
  <2> SUFFICES ASSUME NEW k \in DOMAIN toClient', NEW l \in DOMAIN toClient', NEW o \in DOMAIN toClient',
                      k < o, o < l, Pub2(k)', Pub2(l)', toClient'[k].msg = toClient'[l].msg
               PROVE  ~Rel(o, toClient[k].id)'
    BY DEF Together
  <2>2. CASE l \in DOMAIN toClient
    <3>1. k \in DOMAIN toClient /\ o \in DOMAIN toClient
      BY <1>3, <2>1, <2>2
    <3> QED
      BY <1>4, <2>2, <3>1 DEF Delivery, Together
  <2>3. CASE l = n + 1
    <3>1. k \in DOMAIN toClient /\ o \in DOMAIN toClient
      BY <1>3, <2>3
    <3> QED
      BY <1>4, <1>7, <2>3, <3>1
  <2> QED
    BY <1>4, <2>2, <2>3
<1>16. SeenPending'
  BY <1>4, <1>5, <1>9 DEF Delivery, SeenPending
<1>17. FreshReleased'
  <2> SUFFICES ASSUME NEW k \in DOMAIN toClient', Pub2(k)', delivered[toClient'[k].msg] = 0,
                      toClient'[k].id \in Pending
               PROVE  \E o \in DOMAIN toClient' : o < k /\ Rel(o, toClient[k].id)'
    BY <1>5 DEF FreshReleased
  <2>1. CASE k \in DOMAIN toClient
    BY <1>4, <2>1 DEF Delivery, FreshReleased
  <2>2. CASE k = n + 1
    <3>1. PICK l \in DOMAIN toClient : Pub2(l) /\ toClient[l].msg = m
      BY <1>4, <1>10, <2>2
    <3>2. PICK o \in DOMAIN toClient : o < l /\ Rel(o, i)
      BY <1>4, <1>7, <2>2, <3>1 DEF Delivery, FreshReleased
    <3> QED
      BY <1>4, <2>2, <3>2
  <2> QED
    BY <1>4, <2>1, <2>2
<1>18. Followed'
  <2> SUFFICES ASSUME NEW k \in DOMAIN toClient', Pub2(k)'
               PROVE  Sent(toClient[k].id, toClient[k].msg)'
                        <=> \A l \in DOMAIN toClient' : k < l => ~Rel(l, toClient[k].id)'
    BY DEF Followed
  <2>1. CASE k = n + 1
    BY <1>4, <1>6, <2>1 DEF Sent
  <2>2. CASE k \in DOMAIN toClient
    BY <1>4, <2>2 DEF Delivery, Followed, Sent
  <2> QED
    BY <1>4, <2>1, <2>2
<1>19. SentOnce' /\ GoneOn'
  BY <1>4, <1>5 DEF Delivery, SentOnce, GoneOn, Sent2
<1>20. Passed' /\ Arrives'
  BY <1>4 DEF Delivery, Passed, Arrives
<1> QED
  BY <1>11, <1>12, <1>13, <1>14, <1>15, <1>16, <1>17, <1>18, <1>19, <1>20 DEF Delivery

\* The client takes a packet that is neither a PUBLISH nor a PUBREL.
LEMMA OtherTaken ==
  ASSUME TypeOK, Delivery, NEW t, t \notin {"PUBLISH", "PUBREL"}, Receiving(t),
         UNCHANGED <<connected, pendingPubRels, slots, todo, delivered>>
  PROVE  Delivery'
<1> DEFINE n == Len(toClient)
<1>1. /\ n \in Nat /\ n >= 1 /\ DOMAIN toClient = 1..n /\ DOMAIN toClient' = 1..(n - 1)
      /\ toClient[1].type = t
      /\ \A k \in 1..(n - 1) : toClient'[k] = toClient[k + 1]
      /\ \A k \in 2..n : k - 1 \in 1..(n - 1) /\ toClient'[k - 1] = toClient[k]
  BY PacketTaken
<1> HIDE DEF n
<1>2. \A k \in DOMAIN toClient' : k + 1 \in DOMAIN toClient /\ toClient'[k] = toClient[k + 1]
  BY <1>1
<1>3. \A k \in DOMAIN toClient : toClient[k].type \in {"PUBLISH", "PUBREL"} =>
        k - 1 \in DOMAIN toClient' /\ toClient'[k - 1] = toClient[k]
  BY <1>1
<1>4. DOMAIN toClient \subseteq Int /\ DOMAIN toClient' \subseteq Int
  BY <1>1
<1>5. Pending' = Pending
  BY DEF Pending
<1> USE DEF Pub, Pub2, Rel, Sent, Sent2
<1>6. Known' /\ OneId'
  BY <1>2 DEF Delivery, Known, OneId
<1>7. OneCopy'
  BY <1>2, <1>4 DEF Delivery, OneCopy
<1>8. Apart'
  BY <1>2, <1>3, <1>4 DEF Delivery, Apart
<1>9. Together'
  BY <1>2, <1>4 DEF Delivery, Together
<1>10. SeenPending'
  BY <1>2, <1>4, <1>5 DEF Delivery, SeenPending
<1>11. FreshReleased'
  BY <1>2, <1>3, <1>4, <1>5 DEF Delivery, FreshReleased
<1>12. Followed'
  BY <1>2, <1>3, <1>4 DEF Delivery, Followed
<1>13. SentOnce'
  BY <1>2, <1>3, <1>5 DEF Delivery, SentOnce
<1>14. GoneOn'
  BY <1>3, <1>5 DEF Delivery, GoneOn
<1>15. Passed' /\ Arrives'
  BY <1>3 DEF Delivery, Passed, Arrives
<1> QED
  BY <1>6, <1>7, <1>8, <1>9, <1>10, <1>11, <1>12, <1>13, <1>14, <1>15 DEF Delivery

\* It takes a PUBLISH of QoS 1, the only one of its message.
LEMMA Publish1Taken ==
  ASSUME TypeOK, Delivery, OnPublish1
  PROVE  Delivery'
<1> DEFINE n == Len(toClient)
           m == toClient[1].msg
<1>1. /\ n \in Nat /\ n >= 1 /\ DOMAIN toClient = 1..n /\ DOMAIN toClient' = 1..(n - 1)
      /\ Head(toClient) = toClient[1] /\ toClient[1].type = "PUBLISH"
      /\ \A k \in 1..(n - 1) : toClient'[k] = toClient[k + 1]
      /\ \A k \in 2..n : k - 1 \in 1..(n - 1) /\ toClient'[k - 1] = toClient[k]
  BY PacketTaken DEF OnPublish1
<1>2. /\ UNCHANGED <<connected, pendingPubRels, slots, todo>>
      /\ QoSOf[m] = 1 /\ delivered' = [delivered EXCEPT ![m] = @ + 1]
  BY <1>1 DEF OnPublish1, brokerVars
<1> HIDE DEF n
<1>3. \A k \in DOMAIN toClient' : k + 1 \in DOMAIN toClient /\ k + 1 # 1 /\ toClient'[k] = toClient[k + 1]
  BY <1>1
<1>4. \A k \in DOMAIN toClient : k # 1 => k - 1 \in DOMAIN toClient' /\ toClient'[k - 1] = toClient[k]
  BY <1>1
<1>5. DOMAIN toClient \subseteq Int /\ DOMAIN toClient' \subseteq Int /\ 1 \in DOMAIN toClient
  BY <1>1
<1>6. Pending' = Pending
  BY <1>2 DEF Pending
<1>7. /\ m \in Messages \ todo /\ delivered[m] = 0
      /\ \A k \in DOMAIN toClient : Pub(k) /\ toClient[k].msg = m => k = 1
  <2>1. Pub(1) /\ ~Pub2(1) /\ m = toClient[1].msg
    BY <1>1, <1>2 DEF Pub, Pub2
  <2>2. m \in Messages \ todo
    BY <1>5, <2>1 DEF Delivery, Known
  <2>3. delivered[m] = 0 /\ \A k \in DOMAIN toClient : Pub(k) /\ m = toClient[k].msg => 1 = k
    BY <1>5, <2>1 DEF Delivery, OneCopy
  <2> QED
    BY <2>2, <2>3
<1>8. /\ delivered'[m] = 1
      /\ \A o \in Messages : o # m => delivered'[o] = delivered[o]
  BY <1>2, <1>7 DEF TypeOK
<1>9. \A k \in DOMAIN toClient : Pub(k) /\ k # 1 =>
        toClient[k].msg \in Messages /\ delivered'[toClient[k].msg] = delivered[toClient[k].msg]
  BY <1>7, <1>8 DEF Delivery, Known
<1>10. \A i \in Ids : Sent2(i) =>
        slots[i].msg \in Messages /\ delivered'[slots[i].msg] = delivered[slots[i].msg]
  BY <1>2, <1>8 DEF Delivery, Known, Sent2
<1> HIDE DEF m
<1> USE DEF Pub, Pub2, Rel, Sent, Sent2
<1>11. Known' /\ OneId'
  BY <1>2, <1>3 DEF Delivery, Known, OneId
<1>12. OneCopy'
  BY <1>3, <1>5, <1>9 DEF Delivery, OneCopy
<1>13. Apart'
  <2> SUFFICES ASSUME NEW k \in DOMAIN toClient', NEW l \in DOMAIN toClient',
                      k < l, Pub2(k)', Pub2(l)', toClient'[k].id = toClient'[l].id,
                      toClient'[k].msg # toClient'[l].msg
               PROVE  \E o \in DOMAIN toClient' : k < o /\ o < l /\ Rel(o, toClient[k].id)'
    BY DEF Apart
  <2>1. PICK o \in DOMAIN toClient : k + 1 < o /\ o < l + 1 /\ Rel(o, toClient[k + 1].id)
    BY <1>3, <1>5 DEF Delivery, Apart
  <2>2. o \in Int /\ k \in Int /\ l \in Int /\ k >= 1
    BY <1>1, <2>1
  <2>3. o # 1 /\ k < o - 1 /\ o - 1 < l
    BY <2>1, <2>2
  <2> QED
    BY <1>3, <1>4, <2>1, <2>3
<1>14. Together'
  BY <1>3, <1>5 DEF Delivery, Together
<1>15. SeenPending'
  BY <1>3, <1>5, <1>6, <1>9 DEF Delivery, SeenPending
<1>16. \A k \in DOMAIN toClient : \A i : Rel(k, i) => k # 1
  BY <1>1
<1>17. FreshReleased'
  BY <1>3, <1>4, <1>5, <1>6, <1>9, <1>16 DEF Delivery, FreshReleased
<1>18. Followed'
  BY <1>2, <1>3, <1>4, <1>5, <1>16 DEF Delivery, Followed
<1>19. SentOnce'
  <2> SUFFICES ASSUME NEW i \in Ids, Sent2(i)
               PROVE  /\ delivered'[slots[i].msg] = 1 =>
                           i \in Pending /\ \A l \in DOMAIN toClient' : ~Rel(l, i)'
                      /\ delivered'[slots[i].msg] = 0 =>
                           \E k \in DOMAIN toClient' : Pub(k)' /\ toClient'[k].msg = slots[i].msg
    BY <1>2, <1>6 DEF SentOnce
  <2>1. CASE delivered[slots[i].msg] = 1
    BY <1>3, <1>10, <2>1 DEF Delivery, SentOnce
  <2>2. CASE delivered[slots[i].msg] = 0
    <3>1. PICK k \in DOMAIN toClient : Pub(k) /\ toClient[k].msg = slots[i].msg
      BY <2>2 DEF Delivery, SentOnce
    <3>2. k # 1
      BY <1>2, <3>1 DEF m
    <3> QED
      BY <1>4, <1>10, <2>2, <3>1, <3>2
  <2> QED
    BY <1>10, <2>1, <2>2
<1>20. GoneOn'
  BY <1>2, <1>4, <1>6, <1>16 DEF Delivery, GoneOn
<1>21. Passed'
  BY <1>2, <1>7, <1>8 DEF Delivery, Passed
<1>22. Arrives'
  <2> SUFFICES ASSUME NEW o \in Messages \ todo, delivered'[o] = 0
               PROVE  \E k \in DOMAIN toClient' : Pub(k)' /\ toClient'[k].msg = o
    BY <1>2 DEF Arrives
  <2>1. o # m /\ delivered[o] = 0
    BY <1>8
  <2>2. PICK k \in DOMAIN toClient : Pub(k) /\ toClient[k].msg = o
    BY <2>1 DEF Delivery, Arrives
  <2>3. k # 1
    BY <2>1, <2>2 DEF m
  <2> QED
    BY <1>4, <2>2, <2>3
<1> QED
  BY <1>11, <1>12, <1>13, <1>14, <1>15, <1>17, <1>18, <1>19, <1>20, <1>21, <1>22 DEF Delivery

\* It takes the PUBREL of an id, which is erased from _pendingPubRels.
LEMMA PubRelTaken ==
  ASSUME TypeOK, Delivery, NEW room, OnPubRel(room)
  PROVE  Delivery'
<1> DEFINE n == Len(toClient)
           i == toClient[1].id
<1>1. /\ n \in Nat /\ n >= 1 /\ DOMAIN toClient = 1..n /\ DOMAIN toClient' = 1..(n - 1)
      /\ Head(toClient) = toClient[1] /\ toClient[1] \in Packets /\ toClient[1].type = "PUBREL"
      /\ \A k \in 1..(n - 1) : toClient'[k] = toClient[k + 1]
      /\ \A k \in 2..n : k - 1 \in 1..(n - 1) /\ toClient'[k - 1] = toClient[k]
  BY PacketTaken DEF OnPubRel
<1>2. /\ UNCHANGED <<connected, slots, todo, delivered>>
      /\ pendingPubRels' = WithoutId(pendingPubRels, i)
  BY <1>1 DEF OnPubRel, brokerVars
<1>3. Pending' = Pending \ {i}
  <2>1. i \in Ids
    BY <1>1 DEF Packets
  <2> QED
    BY <1>2, <2>1, WithoutIdFacts DEF Pending, TypeOK
<1> HIDE DEF n
<1>4. \A k \in DOMAIN toClient' : /\ k + 1 \in DOMAIN toClient /\ 1 < k + 1
                                  /\ toClient'[k] = toClient[k + 1]
  BY <1>1
<1>5. \A k \in DOMAIN toClient : k # 1 => k - 1 \in DOMAIN toClient' /\ toClient'[k - 1] = toClient[k]
  BY <1>1
<1>6. DOMAIN toClient \subseteq Int /\ DOMAIN toClient' \subseteq Int /\ 1 \in DOMAIN toClient
  BY <1>1
<1>7. Rel(1, i) /\ \A k : Pub(k) => k # 1
  BY <1>1 DEF Rel, Pub
<1>8. \A k \in DOMAIN toClient : \A j : Rel(k, j) /\ j # i => k # 1
  BY DEF Rel
<1> HIDE DEF i
<1> USE DEF Pub, Pub2, Rel, Sent, Sent2
<1>9. Known' /\ OneId'
  BY <1>2, <1>4 DEF Delivery, Known, OneId
<1>10. OneCopy'
  BY <1>2, <1>4, <1>6 DEF Delivery, OneCopy
<1>11. Apart'
  <2> SUFFICES ASSUME NEW k \in DOMAIN toClient', NEW l \in DOMAIN toClient',
                      k < l, Pub2(k)', Pub2(l)', toClient'[k].id = toClient'[l].id,
                      toClient'[k].msg # toClient'[l].msg
               PROVE  \E o \in DOMAIN toClient' : k < o /\ o < l /\ Rel(o, toClient[k].id)'
    BY DEF Apart
  <2>1. PICK o \in DOMAIN toClient : k + 1 < o /\ o < l + 1 /\ Rel(o, toClient[k + 1].id)
    BY <1>4, <1>6 DEF Delivery, Apart
  <2>2. o # 1 /\ k < o - 1 /\ o - 1 < l
    BY <1>4, <1>6, <2>1
  <2> QED
    BY <1>4, <1>5, <2>1, <2>2
<1>12. Together'
  BY <1>4, <1>6 DEF Delivery, Together
<1>13. SeenPending'
  <2> SUFFICES ASSUME NEW k \in DOMAIN toClient', Pub2(k)', delivered[toClient'[k].msg] = 1
               PROVE  /\ toClient'[k].id \in Pending \ {i}
                      /\ \A o \in DOMAIN toClient' : o < k => ~Rel(o, toClient[k].id)'
    BY <1>2, <1>3 DEF SeenPending
  <2>1. /\ toClient'[k].id \in Pending
        /\ \A o \in DOMAIN toClient : o < k + 1 => ~Rel(o, toClient'[k].id)
    BY <1>4 DEF Delivery, SeenPending
  <2> QED
    BY <1>4, <1>6, <1>7, <2>1
<1>14. FreshReleased'
  <2> SUFFICES ASSUME NEW k \in DOMAIN toClient', Pub2(k)', delivered[toClient'[k].msg] = 0,
                      toClient'[k].id \in Pending, toClient'[k].id # i
               PROVE  \E o \in DOMAIN toClient' : o < k /\ Rel(o, toClient[k].id)'
    BY <1>2, <1>3 DEF FreshReleased
  <2>1. PICK o \in DOMAIN toClient : o < k + 1 /\ Rel(o, toClient'[k].id)
    BY <1>4 DEF Delivery, FreshReleased
  <2> QED
    BY <1>4, <1>5, <1>6, <1>8, <2>1
<1>15. Followed'
  <2> SUFFICES ASSUME NEW k \in DOMAIN toClient', Pub2(k)'
               PROVE  Sent(toClient'[k].id, toClient'[k].msg)
                        <=> \A l \in DOMAIN toClient' : k < l => ~Rel(l, toClient[k].id)'
    BY <1>2 DEF Followed
  <2>1. Sent(toClient'[k].id, toClient'[k].msg)
          <=> \A l \in DOMAIN toClient : k + 1 < l => ~Rel(l, toClient'[k].id)
    BY <1>4 DEF Delivery, Followed
  <2>2. \A l \in DOMAIN toClient : k + 1 < l =>
          l - 1 \in DOMAIN toClient' /\ k < l - 1 /\ toClient'[l - 1] = toClient[l]
    BY <1>4, <1>5, <1>6
  <2>3. \A l \in DOMAIN toClient' : k < l => k + 1 < l + 1
    BY <1>6
  <2> QED
    BY <1>4, <2>1, <2>2, <2>3
<1>16. SentOnce'
  <2> SUFFICES ASSUME NEW j \in Ids, Sent2(j)
               PROVE  /\ delivered[slots[j].msg] = 1 =>
                           j \in Pending \ {i} /\ \A l \in DOMAIN toClient' : ~Rel(l, j)'
                      /\ delivered[slots[j].msg] = 0 =>
                           \E k \in DOMAIN toClient' : Pub(k)' /\ toClient'[k].msg = slots[j].msg
    BY <1>2, <1>3 DEF SentOnce
  <2>1. CASE delivered[slots[j].msg] = 1
    BY <1>4, <1>6, <1>7, <2>1 DEF Delivery, SentOnce
  <2>2. CASE delivered[slots[j].msg] = 0
    BY <1>5, <1>7, <2>2 DEF Delivery, SentOnce
  <2> QED
    BY <2>1, <2>2
<1>17. GoneOn'
  BY <1>2, <1>3, <1>5, <1>8 DEF Delivery, GoneOn
<1>18. Passed' /\ Arrives'
  BY <1>2, <1>5, <1>7 DEF Delivery, Passed, Arrives
<1> QED
  BY <1>9, <1>10, <1>11, <1>12, <1>13, <1>14, <1>15, <1>16, <1>17, <1>18 DEF Delivery

\* It takes a PUBLISH of QoS 2: if its id is in _pendingPubRels the message has
\* been passed on before, otherwise it has not.
LEMMA Publish2Taken ==
  ASSUME TypeOK, Delivery, NEW room, OnPublish2(room)
  PROVE  Delivery'
<1> DEFINE n == Len(toClient)
           i == toClient[1].id
           m == toClient[1].msg
<1>1. /\ n \in Nat /\ n >= 1 /\ DOMAIN toClient = 1..n /\ DOMAIN toClient' = 1..(n - 1)
      /\ Head(toClient) = toClient[1] /\ toClient[1] \in Packets /\ toClient[1].type = "PUBLISH"
      /\ \A k \in 1..(n - 1) : toClient'[k] = toClient[k + 1]
      /\ \A k \in 2..n : k - 1 \in 1..(n - 1) /\ toClient'[k - 1] = toClient[k]
  BY PacketTaken DEF OnPublish2
<1>2. /\ UNCHANGED <<connected, slots, todo>>
      /\ QoSOf[m] = 2
      /\ delivered' = [delivered EXCEPT ![m] = IF PubRelPending(i) THEN @ ELSE @ + 1]
      /\ pendingPubRels' = IF PubRelPending(i) THEN pendingPubRels ELSE Append(pendingPubRels, i)
  BY <1>1 DEF OnPublish2, brokerVars
<1>3. i \in Ids /\ Pub2(1)
  BY <1>1, <1>2 DEF Packets, Pub, Pub2
<1> HIDE DEF n
<1>4. \A k \in DOMAIN toClient' : /\ k + 1 \in DOMAIN toClient /\ 1 < k + 1
                                  /\ toClient'[k] = toClient[k + 1]
  BY <1>1
<1>5. \A k \in DOMAIN toClient : k # 1 => k - 1 \in DOMAIN toClient' /\ toClient'[k - 1] = toClient[k]
  BY <1>1
<1>6. /\ DOMAIN toClient \subseteq Int /\ DOMAIN toClient' \subseteq Int /\ 1 \in DOMAIN toClient
      /\ \A k \in DOMAIN toClient : ~(k < 1)
  BY <1>1
<1>7. \A k \in DOMAIN toClient : \A j : Rel(k, j) => k # 1
  BY <1>1 DEF Rel
<1>8. m \in Messages \ todo /\ delivered[m] \in {0, 1}
  BY <1>3, <1>6 DEF Delivery, Known, Passed, Pub2
<1>9. /\ delivered[m] = 1 <=> i \in Pending
      /\ delivered'[m] = 1 /\ Pending' = Pending \cup {i}
      /\ \A o \in Messages : o # m => delivered'[o] = delivered[o]
  <2>1. delivered[m] = 1 => i \in Pending
    BY <1>3, <1>6 DEF Delivery, SeenPending
  <2>2. delivered[m] = 0 => i \notin Pending
    BY <1>3, <1>6 DEF Delivery, FreshReleased
  <2>3. delivered \in [Messages -> Nat] /\ pendingPubRels \in Seq(Ids)
    BY DEF TypeOK
  <2>4. CASE i \in Pending
    <3>1. PubRelPending(i)
      BY <2>4 DEF Pending, PubRelPending
    <3>2. Pending' = Pending
      BY <1>2, <3>1 DEF Pending
    <3> QED
      BY <1>2, <1>8, <2>1, <2>2, <2>3, <2>4, <3>1, <3>2
  <2>5. CASE i \notin Pending
    <3>1. ~PubRelPending(i)
      BY <2>5 DEF Pending, PubRelPending
    <3>2. Pending' = Pending \cup {i}
      <4>1. pendingPubRels' = Append(pendingPubRels, i)
        BY <1>2, <3>1
      <4>2. /\ Len(pendingPubRels) \in Nat /\ pendingPubRels' \in Seq(Ids)
            /\ Len(pendingPubRels') = Len(pendingPubRels) + 1
            /\ \A k \in 1..Len(pendingPubRels) : pendingPubRels'[k] = pendingPubRels[k]
            /\ pendingPubRels'[Len(pendingPubRels) + 1] = i
        BY <1>3, <2>3, <4>1, AppendProperties, LenProperties
      <4>3. /\ DOMAIN pendingPubRels = 1..Len(pendingPubRels)
            /\ DOMAIN pendingPubRels' = 1..(Len(pendingPubRels) + 1)
        BY <2>3, <4>2, LenProperties
      <4> QED
        BY <4>2, <4>3 DEF Pending, Range
    <3> QED
      BY <1>2, <1>8, <2>1, <2>2, <2>3, <2>5, <3>1, <3>2
  <2> QED
    BY <2>4, <2>5
\* The other packets of the message have the id, no PUBREL of it comes before them.
<1>10. \A k \in DOMAIN toClient : Pub2(k) /\ toClient[k].msg = m =>
         /\ toClient[k].id = i
         /\ \A o \in DOMAIN toClient : o < k => ~Rel(o, i)
  <2> SUFFICES ASSUME NEW k \in DOMAIN toClient, Pub2(k), toClient[k].msg = m
               PROVE  /\ toClient[k].id = i
                      /\ \A o \in DOMAIN toClient : o < k => ~Rel(o, i)
    OBVIOUS
  <2>1. toClient[k].id = i
    BY <1>3, <1>6 DEF Delivery, OneId, Pub2
  <2>2. \A o \in DOMAIN toClient : 1 < o /\ o < k => ~Rel(o, i)
    BY <1>3, <1>6 DEF Delivery, Together
  <2> QED
    BY <1>1, <1>7, <2>1, <2>2
<1>11. \A j \in Ids : Sent(j, m) => j = i
  BY <1>3, <1>6 DEF Delivery, OneId, Pub2
<1>12. Sent(i, m) <=> \A o \in DOMAIN toClient : ~Rel(o, i)
  BY <1>1, <1>3, <1>6, <1>7 DEF Delivery, Followed
<1>13. \A k \in DOMAIN toClient : Pub(k) => toClient[k].msg \in Messages
  BY DEF Delivery, Known
<1> HIDE DEF i, m
<1> USE DEF Pub, Pub2, Rel
<1>14. Known' /\ OneId'
  BY <1>2, <1>4 DEF Delivery, Known, OneId, Sent
<1>15. OneCopy'
  <2> SUFFICES ASSUME NEW k \in DOMAIN toClient', Pub(k)', ~Pub2(k)'
               PROVE  /\ delivered'[toClient'[k].msg] = 0
                      /\ \A l \in DOMAIN toClient' : Pub(l)' /\ toClient'[k].msg = toClient'[l].msg => k = l
    BY DEF OneCopy
  <2>1. /\ delivered[toClient'[k].msg] = 0
        /\ \A l \in DOMAIN toClient : Pub(l) /\ toClient'[k].msg = toClient[l].msg => k + 1 = l
    BY <1>4 DEF Delivery, OneCopy
  <2>2. toClient'[k].msg # m /\ toClient'[k].msg \in Messages
    BY <1>2, <1>4, <1>13
  <2> QED
    BY <1>4, <1>6, <1>9, <2>1, <2>2
<1>16. Apart'
  <2> SUFFICES ASSUME NEW k \in DOMAIN toClient', NEW l \in DOMAIN toClient',
                      k < l, Pub2(k)', Pub2(l)', toClient'[k].id = toClient'[l].id,
                      toClient'[k].msg # toClient'[l].msg
               PROVE  \E o \in DOMAIN toClient' : k < o /\ o < l /\ Rel(o, toClient[k].id)'
    BY DEF Apart
  <2>1. PICK o \in DOMAIN toClient : k + 1 < o /\ o < l + 1 /\ Rel(o, toClient[k + 1].id)
    BY <1>4, <1>6 DEF Delivery, Apart
  <2>2. o # 1 /\ k < o - 1 /\ o - 1 < l
    BY <1>4, <1>6, <2>1
  <2> QED
    BY <1>4, <1>5, <2>1, <2>2
<1>17. Together'
  BY <1>4, <1>6 DEF Delivery, Together
<1>18. SeenPending'
  <2> SUFFICES ASSUME NEW k \in DOMAIN toClient', Pub2(k)', delivered'[toClient'[k].msg] = 1
               PROVE  /\ toClient'[k].id \in Pending \cup {i}
                      /\ \A o \in DOMAIN toClient' : o < k => ~Rel(o, toClient[k].id)'
    BY <1>9 DEF SeenPending
  <2>1. /\ toClient'[k].id \in Pending \cup {i}
        /\ \A o \in DOMAIN toClient : o < k + 1 => ~Rel(o, toClient'[k].id)
    <3>1. CASE toClient'[k].msg = m
      BY <1>4, <1>10, <3>1
    <3>2. CASE toClient'[k].msg # m
      <4>1. delivered[toClient'[k].msg] = 1
        BY <1>4, <1>9, <1>13, <3>2
      <4> QED
        BY <1>4, <4>1 DEF Delivery, SeenPending
    <3> QED
      BY <3>1, <3>2
  <2> QED
    BY <1>4, <1>6, <2>1
<1>19. FreshReleased'
  <2> SUFFICES ASSUME NEW k \in DOMAIN toClient', Pub2(k)', delivered'[toClient'[k].msg] = 0,
                      toClient'[k].id \in Pending \cup {i}
               PROVE  \E o \in DOMAIN toClient' : o < k /\ Rel(o, toClient[k].id)'
    BY <1>9 DEF FreshReleased
  <2>1. toClient'[k].msg # m /\ delivered[toClient'[k].msg] = 0
    BY <1>4, <1>9, <1>13
  <2>2. PICK o \in DOMAIN toClient : o < k + 1 /\ Rel(o, toClient'[k].id)
    <3>1. CASE toClient'[k].id = i
      <4>1. PICK o \in DOMAIN toClient : 1 < o /\ o < k + 1 /\ Rel(o, i)
        BY <1>3, <1>4, <1>6, <2>1, <3>1 DEF Delivery, Apart, i, m
      <4> QED
        BY <3>1, <4>1
    <3>2. CASE toClient'[k].id # i
      BY <1>4, <2>1, <3>2 DEF Delivery, FreshReleased
    <3> QED
      BY <3>1, <3>2
  <2> QED
    BY <1>4, <1>5, <1>6, <1>7, <2>2
<1>20. Followed'
  <2> SUFFICES ASSUME NEW k \in DOMAIN toClient', Pub2(k)'
               PROVE  Sent(toClient'[k].id, toClient'[k].msg)
                        <=> \A l \in DOMAIN toClient' : k < l => ~Rel(l, toClient[k].id)'
    BY <1>2 DEF Followed, Sent
  <2>1. Sent(toClient'[k].id, toClient'[k].msg)
          <=> \A l \in DOMAIN toClient : k + 1 < l => ~Rel(l, toClient'[k].id)
    BY <1>4 DEF Delivery, Followed
  <2>2. \A l \in DOMAIN toClient : k + 1 < l =>
          l - 1 \in DOMAIN toClient' /\ k < l - 1 /\ toClient'[l - 1] = toClient[l]
    BY <1>4, <1>5, <1>6
  <2>3. \A l \in DOMAIN toClient' : k < l => k + 1 < l + 1
    BY <1>6
  <2> QED
    BY <1>4, <2>1, <2>2, <2>3
<1>21. SentOnce'
  <2> SUFFICES ASSUME NEW j \in Ids, Sent2(j)
               PROVE  /\ delivered'[slots[j].msg] = 1 =>
                           j \in Pending \cup {i} /\ \A l \in DOMAIN toClient' : ~Rel(l, j)'
                      /\ delivered'[slots[j].msg] = 0 =>
                           \E k \in DOMAIN toClient' : Pub(k)' /\ toClient'[k].msg = slots[j].msg
    BY <1>2, <1>9 DEF SentOnce, Sent2
  <2>1. CASE slots[j].msg = m
    <3>1. j = i /\ Sent(i, m)
      BY <1>11, <2>1 DEF Sent, Sent2
    <3> QED
      BY <1>4, <1>9, <1>12, <2>1, <3>1
  <2>2. CASE slots[j].msg # m
    <3>1. slots[j].msg \in Messages /\ delivered'[slots[j].msg] = delivered[slots[j].msg]
      BY <1>9, <2>2 DEF Delivery, Known, Sent2
    <3>2. CASE delivered[slots[j].msg] = 1
      BY <1>4, <3>1, <3>2 DEF Delivery, SentOnce
    <3>3. CASE delivered[slots[j].msg] = 0
      <4>1. PICK k \in DOMAIN toClient : Pub(k) /\ toClient[k].msg = slots[j].msg
        BY <3>3 DEF Delivery, SentOnce
      <4>2. k # 1
        BY <2>2, <4>1 DEF m
      <4> QED
        BY <1>5, <3>1, <3>3, <4>1, <4>2
    <3> QED
      BY <3>1, <3>2, <3>3
  <2> QED
    BY <2>1, <2>2
<1>22. GoneOn'
  <2> SUFFICES ASSUME NEW j \in Ids, ~Sent2(j), j \in Pending \cup {i}
               PROVE  \E o \in DOMAIN toClient' : Rel(o, j)'
    BY <1>2, <1>9 DEF GoneOn, Sent2
  <2>1. PICK o \in DOMAIN toClient : Rel(o, j)
    <3>1. CASE j = i
      <4>1. ~Sent(i, m)
        BY <1>2, <3>1 DEF Sent, Sent2
      <4> QED
        BY <1>12, <3>1, <4>1
    <3>2. CASE j # i
      BY <3>2 DEF Delivery, GoneOn
    <3> QED
      BY <3>1, <3>2
  <2> QED
    BY <1>5, <1>7, <2>1
<1>23. Passed'
  BY <1>2, <1>8, <1>9 DEF Delivery, Passed
<1>24. Arrives'
  <2> SUFFICES ASSUME NEW o \in Messages \ todo, delivered'[o] = 0
               PROVE  \E k \in DOMAIN toClient' : Pub(k)' /\ toClient'[k].msg = o
    BY <1>2 DEF Arrives
  <2>1. o # m /\ delivered[o] = 0
    BY <1>9
  <2>2. PICK k \in DOMAIN toClient : Pub(k) /\ toClient[k].msg = o
    BY <2>1 DEF Delivery, Arrives
  <2>3. k # 1
    BY <2>1, <2>2 DEF m
  <2> QED
    BY <1>5, <2>2, <2>3
<1> QED
  BY <1>14, <1>15, <1>16, <1>17, <1>18, <1>19, <1>20, <1>21, <1>22, <1>23, <1>24 DEF Delivery

\* Every step.
LEMMA BrokerDelivers ==
  ASSUME TypeOK, Delivery, Broker
  PROVE  Delivery'
<1>1. ASSUME NEW m \in Messages, BrokerPublish(m) PROVE Delivery'
  <2>1. PICK i \in Ids : /\ slots[i].st = "free"
                         /\ slots' = [slots EXCEPT ![i] = [st |-> "sent", msg |-> m]]
                         /\ toClient' = Append(toClient, Publish(i, m))
    BY <1>1 DEF BrokerPublish
  <2>2. connected = TRUE
    BY <1>1 DEF BrokerPublish, TypeOK
  <2>3. m \in todo /\ todo' = todo \ {m} /\ UNCHANGED <<connected, pendingPubRels, delivered>>
    BY <1>1 DEF BrokerPublish, clientVars
  <2> QED
    BY <2>1, <2>2, <2>3, PublishDelivers
<1>2. ASSUME NEW i \in Ids, BrokerResend(i) PROVE Delivery'
  BY <1>2, ResendDelivers DEF BrokerResend, clientVars, brokerVars, Sent2
<1>3. CASE BrokerReceive
  <2> DEFINE p == Head(toBroker)
  <2>1. p.id \in Ids /\ UNCHANGED <<connected, pendingPubRels, todo, delivered>>
    BY <1>3, QueueMoves DEF TypeOK, BrokerReceive, Packets, clientVars
  <2>2. CASE /\ p.type \in DOMAIN Answer /\ UNCHANGED slots
             /\ toClient' = Append(toClient, Pkt(Answer[p.type], p.id))
    <3>1. Answer[p.type] \in Types /\ Answer[p.type] \notin {"PUBLISH", "PUBREL"}
      BY <2>2 DEF Answer, Types
    <3>2. /\ Pkt(Answer[p.type], p.id) \in Packets
          /\ Pkt(Answer[p.type], p.id).type \notin {"PUBLISH", "PUBREL"}
      BY <2>1, <3>1, PacketTypes DEF Pkt
    <3> QED
      BY <2>1, <2>2, <3>2, AnswerDelivers
  <2>3. CASE /\ p.type = "PUBREC" /\ Awaited(p)
             /\ slots' = [slots EXCEPT ![p.id].st = "released"]
             /\ toClient' = Append(toClient, Pkt("PUBREL", p.id))
    <3>1. Sent2(p.id)
      BY <2>3 DEF Awaited, Sent2
    <3> QED
      BY <2>1, <2>3, <3>1, PubRelDelivers
  <2>4. CASE /\ p.type \in {"PUBACK", "PUBCOMP"} /\ Awaited(p)
             /\ slots' = [slots EXCEPT ![p.id] = FreeSlot] /\ UNCHANGED toClient
    <3>1. ~Sent2(p.id)
      BY <2>4 DEF Awaited, Sent2
    <3> QED
      BY <2>1, <2>4, <3>1, FreedDelivers
  <2>5. CASE UNCHANGED <<slots, toClient>>
    BY <2>1, <2>5, DeliveryFramed DEF DeliveryVars
  <2> QED
    BY <1>3, <2>2, <2>3, <2>4, <2>5 DEF BrokerReceive
<1> QED
  BY <1>1, <1>2, <1>3 DEF Broker

LEMMA NextDelivers == TypeOK /\ Delivery /\ [Next]_vars => Delivery'
<1> SUFFICES ASSUME TypeOK, Delivery, [Next]_vars PROVE Delivery'
  OBVIOUS
<1>1. CASE ConnAck
  BY <1>1, DeliveryFramed DEF ConnAck, DeliveryVars, brokerVars
<1>2. CASE Requests
  <2>1. PICK t \in Types \cap Asking, i \in Ids : Put(t, i)
    BY <1>2, RequestsPut
  <2> QED
    BY <2>1, DeliveryFramed DEF Put, DeliveryVars, brokerVars
<1>3. ASSUME NEW room \in Rooms, Poll(room) PROVE Delivery'
  BY <1>3, DeliveryFramed DEF Poll, DeliveryVars, brokerVars
<1>4. CASE OnPublish1
  BY <1>4, Publish1Taken
<1>5. CASE OnAnswered
  <2>1. PICK t \in {"PUBACK", "PUBCOMP", "SUBACK", "UNSUBACK"} : OnConfirmed(t)
    BY <1>5 DEF OnAnswered, OnPubAck, OnPubComp, OnSubAck, OnUnsubAck
  <2> QED
    BY <2>1, OtherTaken DEF OnConfirmed, clientVars, brokerVars
<1>6. ASSUME NEW room \in Rooms, OnPublish2(room) PROVE Delivery'
  BY <1>6, Publish2Taken
<1>7. ASSUME NEW room \in Rooms, OnPubRel(room) PROVE Delivery'
  BY <1>7, PubRelTaken
<1>8. ASSUME NEW room \in Rooms, OnPubRec(room) PROVE Delivery'
  BY <1>8, OtherTaken DEF OnPubRec, brokerVars
<1>9. CASE Broker
  BY <1>9, BrokerDelivers
<1>10. CASE Drop
  BY <1>10, DropDelivers
<1>11. CASE UNCHANGED vars
  <2>1. UNCHANGED DeliveryVars /\ connected' = connected
    BY <1>11 DEF vars, clientVars, brokerVars, DeliveryVars
  <2> QED
    BY <2>1, DeliveryFramed
<1> QED
  BY <1>1, <1>2, <1>3, <1>4, <1>5, <1>6, <1>7, <1>8, <1>9, <1>10, <1>11 DEF Next, Client, Requests

\* However often the broker repeats a PUBLISH, whatever the order and the delay
\* of the acknowledgements and however ids are used again, a message is passed
\* to onMessage at most once in a connection, and once when nothing of it is
\* left to be sent or on its way.
THEOREM PassedOnOnce == Spec => []DeliveredOnce
<1>1. Init => TypeOK /\ Delivery
  BY InitTyped, InitDelivery
<1>2. TypeOK /\ Delivery /\ [Next]_vars => TypeOK' /\ Delivery'
  BY NextTyped, NextDelivers
<1> QED
  BY <1>1, <1>2, DeliveryGivesOnce, PTL DEF Spec

-----------------------------------------------------------------------------
(* Counting the packets of a kind in a queue.                               *)

Those(q, P) == {k \in DOMAIN q : q[k] \in P}
Count(q, P) == Cardinality(Those(q, P))

LEMMA SameSize ==
  ASSUME NEW S, NEW T, IsFiniteSet(S), NEW f \in [S -> T],
         \A a, b \in S : f[a] = f[b] => a = b,
         \A t \in T : \E s \in S : f[s] = t
  PROVE  Cardinality(T) = Cardinality(S)
<1>1. f \in Bijection(S, T)
  BY Fun_IsBij
<1>2. ExistsBijection(S, T)
  BY <1>1, Fun_ExistsBij
<1> QED
  BY <1>2, FS_Bijection

LEMMA CountIsFinite ==
  ASSUME NEW S, NEW q \in Seq(S), NEW P
  PROVE  IsFiniteSet(Those(q, P)) /\ Count(q, P) \in Nat
<1>1. Len(q) \in Nat /\ DOMAIN q = 1..Len(q)
  BY LenProperties
<1>2. IsFiniteSet(1..Len(q))
  BY <1>1, FS_Interval
<1>3. Those(q, P) \in SUBSET (1..Len(q))
  BY <1>1 DEF Those
<1>4. IsFiniteSet(Those(q, P))
  BY <1>2, <1>3, FS_Subset
<1> QED
  BY <1>4, FS_CardinalityType DEF Count

\* The entries of q are dealt out to r and s, at the places that f and g tell.
Dealt(q, r, s, f, g) ==
  /\ f \in [DOMAIN r -> DOMAIN q] /\ \A j \in DOMAIN r : r[j] = q[f[j]]
  /\ g \in [DOMAIN s -> DOMAIN q] /\ \A j \in DOMAIN s : s[j] = q[g[j]]
  /\ \A j, l \in DOMAIN r : f[j] = f[l] => j = l
  /\ \A j, l \in DOMAIN s : g[j] = g[l] => j = l
  /\ \A j \in DOMAIN r, l \in DOMAIN s : f[j] # g[l]
  /\ \A k \in DOMAIN q : (\E j \in DOMAIN r : f[j] = k) \/ (\E l \in DOMAIN s : g[l] = k)

LEMMA CountSplit ==
  ASSUME NEW S, NEW q \in Seq(S), NEW r \in Seq(S), NEW s \in Seq(S), NEW P,
         NEW f, NEW g, Dealt(q, r, s, f, g)
  PROVE  Count(q, P) = Count(r, P) + Count(s, P)
<1> USE DEF Dealt
<1> DEFINE F == [j \in Those(r, P) |-> f[j]]
           G == [j \in Those(s, P) |-> g[j]]
           R == {f[j] : j \in Those(r, P)}
           T == {g[j] : j \in Those(s, P)}
<1>1. Those(q, P) = R \cup T /\ R \cap T = {}
  BY DEF Those
<1>2. IsFiniteSet(Those(r, P)) /\ IsFiniteSet(Those(s, P)) /\ IsFiniteSet(Those(q, P))
  BY CountIsFinite
<1>3. Cardinality(R) = Count(r, P)
  <2>1. F \in [Those(r, P) -> R] /\ \A t \in R : \E j \in Those(r, P) : F[j] = t
    OBVIOUS
  <2>2. \A a, b \in Those(r, P) : F[a] = F[b] => a = b
    BY DEF Those
  <2> HIDE DEF F, R
  <2> QED
    BY <1>2, <2>1, <2>2, SameSize DEF Count
<1>4. Cardinality(T) = Count(s, P)
  <2>1. G \in [Those(s, P) -> T] /\ \A t \in T : \E j \in Those(s, P) : G[j] = t
    OBVIOUS
  <2>2. \A a, b \in Those(s, P) : G[a] = G[b] => a = b
    BY DEF Those
  <2> HIDE DEF G, T
  <2> QED
    BY <1>2, <2>1, <2>2, SameSize DEF Count
<1> HIDE DEF F, G, R, T
<1>5. IsFiniteSet(R) /\ IsFiniteSet(T)
  <2>1. R \in SUBSET Those(q, P) /\ T \in SUBSET Those(q, P)
    BY <1>1
  <2> QED
    BY <1>2, <2>1, FS_Subset
<1>6. Cardinality(R \cup T) = Cardinality(R) + Cardinality(T) - Cardinality({})
  <2>1. Cardinality(R \cup T) = Cardinality(R) + Cardinality(T) - Cardinality(R \cap T)
    BY <1>5, FS_Union
  <2>2. R \cap T = {}
    BY <1>1
  <2> QED
    BY <2>1, <2>2
<1>7. Cardinality({}) = 0 /\ Cardinality(R) \in Nat /\ Cardinality(T) \in Nat
  BY <1>5, FS_EmptySet, FS_CardinalityType
<1> QED
  BY <1>1, <1>3, <1>4, <1>6, <1>7 DEF Count

LEMMA CountOne ==
  ASSUME NEW p, NEW P
  PROVE  Count(<<p>>, P) = IF p \in P THEN 1 ELSE 0
<1>1. CASE p \in P
  <2>1. Those(<<p>>, P) = {} \cup {1}
    BY <1>1 DEF Those
  <2>2. Cardinality({} \cup {1}) = 0 + 1
    BY FS_EmptySet, FS_AddElement
  <2> QED
    BY <1>1, <2>1, <2>2 DEF Count
<1>2. CASE p \notin P
  <2>1. Those(<<p>>, P) = {}
    BY <1>2 DEF Those
  <2> QED
    BY <1>2, <2>1, FS_EmptySet DEF Count
<1> QED
  BY <1>1, <1>2

LEMMA CountConcat ==
  ASSUME NEW S, NEW r \in Seq(S), NEW s \in Seq(S), NEW P
  PROVE  Count(r \o s, P) = Count(r, P) + Count(s, P)
<1> DEFINE q == r \o s
           f == [j \in DOMAIN r |-> j]
           g == [j \in DOMAIN s |-> j + Len(r)]
<1>1. /\ Len(r) \in Nat /\ DOMAIN r = 1..Len(r)
      /\ Len(s) \in Nat /\ DOMAIN s = 1..Len(s)
  BY LenProperties
<1>2. /\ q \in Seq(S) /\ Len(q) = Len(r) + Len(s)
      /\ \A j \in 1..(Len(r) + Len(s)) : q[j] = IF j <= Len(r) THEN r[j] ELSE s[j - Len(r)]
  BY ConcatProperties
<1>3. DOMAIN q = 1..(Len(r) + Len(s))
  BY <1>2, LenProperties
<1> HIDE DEF q
<1>4. f \in [DOMAIN r -> DOMAIN q] /\ g \in [DOMAIN s -> DOMAIN q]
  BY <1>1, <1>3
<1>5. \A j \in DOMAIN r : r[j] = q[f[j]]
  BY <1>1, <1>2
<1>6. \A j \in DOMAIN s : s[j] = q[g[j]]
  <2> SUFFICES ASSUME NEW j \in DOMAIN s PROVE s[j] = q[j + Len(r)]
    OBVIOUS
  <2>1. /\ j + Len(r) \in 1..(Len(r) + Len(s)) /\ ~(j + Len(r) <= Len(r))
        /\ (j + Len(r)) - Len(r) = j
    BY <1>1
  <2> QED
    BY <1>2, <2>1
<1>7. \A j, l \in DOMAIN r : f[j] = f[l] => j = l
  OBVIOUS
<1>8. \A j, l \in DOMAIN s : g[j] = g[l] => j = l
  BY <1>1
<1>9. \A j \in DOMAIN r, l \in DOMAIN s : f[j] # g[l]
  BY <1>1
<1>10. \A k \in DOMAIN q : (\E j \in DOMAIN r : f[j] = k) \/ (\E l \in DOMAIN s : g[l] = k)
  <2> SUFFICES ASSUME NEW k \in DOMAIN q, ~(k \in DOMAIN r) PROVE \E l \in DOMAIN s : g[l] = k
    OBVIOUS
  <2>1. k - Len(r) \in DOMAIN s /\ (k - Len(r)) + Len(r) = k
    BY <1>1, <1>3
  <2> QED
    BY <2>1
<1> HIDE DEF f, g
<1>11. Count(q, P) = Count(r, P) + Count(s, P)
  <2>1. Dealt(q, r, s, f, g)
    BY <1>4, <1>5, <1>6, <1>7, <1>8, <1>9, <1>10 DEF Dealt
  <2> QED
    BY <1>2, <2>1, CountSplit
<1> QED
  BY <1>11 DEF q

LEMMA CountAppend ==
  ASSUME NEW S, NEW q \in Seq(S), NEW p \in S, NEW P
  PROVE  Count(Append(q, p), P) = Count(q, P) + IF p \in P THEN 1 ELSE 0
<1>1. <<p>> \in Seq(S)
  OBVIOUS
<1>2. Append(q, p) = q \o <<p>>
  BY AppendIsConcat
<1>3. Count(q \o <<p>>, P) = Count(q, P) + Count(<<p>>, P)
  BY <1>1, CountConcat
<1>4. Count(<<p>>, P) = IF p \in P THEN 1 ELSE 0
  BY CountOne
<1> HIDE DEF Count
<1> QED
  BY <1>2, <1>3, <1>4, Zenon

LEMMA CountTail ==
  ASSUME NEW S, NEW q \in Seq(S), q # <<>>, NEW P
  PROVE  Count(q, P) = Count(Tail(q), P) + IF Head(q) \in P THEN 1 ELSE 0
<1>1. Head(q) \in S /\ Tail(q) \in Seq(S) /\ <<Head(q)>> \in Seq(S)
  BY HeadTailProperties
<1>2. q = <<Head(q)>> \o Tail(q)
  <2> DEFINE t == <<Head(q)>> \o Tail(q)
  <2>1. t \in Seq(S) /\ Len(t) = 1 + Len(Tail(q))
        /\ \A j \in 1..(1 + Len(Tail(q))) : t[j] = IF j <= 1 THEN <<Head(q)>>[j] ELSE Tail(q)[j - 1]
    <3>1. Len(<<Head(q)>>) = 1
      OBVIOUS
    <3> QED
      BY <1>1, <3>1, ConcatProperties
  <2> HIDE DEF t
  <2>2. /\ Len(q) \in Nat /\ Len(q) >= 1 /\ Len(Tail(q)) = Len(q) - 1 /\ Head(q) = q[1]
        /\ \A j \in 1..(Len(q) - 1) : Tail(q)[j] = q[j + 1]
    BY HeadTailProperties, EmptySeq
  <2>3. Len(t) = Len(q)
    BY <2>1, <2>2
  <2>4. ASSUME NEW j \in 1..Len(q) PROVE t[j] = q[j]
    <3>1. CASE j = 1
      BY <2>1, <2>2, <3>1
    <3>2. CASE j # 1
      BY <2>1, <2>2, <3>2
    <3> QED
      BY <3>1, <3>2
  <2>5. t = q
    BY <2>1, <2>3, <2>4, SeqEqual
  <2> QED
    BY <2>5 DEF t
<1>3. Count(q, P) = Count(<<Head(q)>>, P) + Count(Tail(q), P)
  BY <1>1, <1>2, CountConcat
<1>4. Count(Tail(q), P) \in Nat
  BY <1>1, CountIsFinite
<1> QED
  BY <1>3, <1>4, CountOne

\* _sendAcks, which erases entries of the queue it walks over, deals the entries
\* out to what it sends and what it keeps.
LEMMA FlushCount ==
  ASSUME NEW S, NEW q \in Seq(S), NEW room \in Nat, NEW P
  PROVE  Count(q, P) = Count(SentAcks(q, room), P) + Count(KeptAcks(q, room), P)
<1> DEFINE n == Len(q)
           k == Min({room, Sendable(n)})
           r == SentAcks(q, room)
           s == KeptAcks(q, room)
           f == [j \in 1..k |-> 2 * j - 1]
           g == [j \in 1..(n - k) |-> IF j <= k THEN 2 * j ELSE j + k]
<1>1. n \in Nat /\ DOMAIN q = 1..n
  BY LenProperties
<1>2. Sendable(n) \in Nat /\ 2 * Sendable(n) <= n + 1
  BY <1>1 DEF Sendable
<1>3. k \in Nat /\ 2 * k <= n + 1
  BY <1>2, MinOfTwo
<1>4. r \in Seq(S) /\ s \in Seq(S)
  BY AckQueue
<1>5. r = [j \in 1..k |-> q[2 * j - 1]]
  BY DEF SentAcks
<1>6. s = [j \in 1..(n - k) |-> IF j <= k THEN q[2 * j] ELSE q[j + k]]
  BY DEF KeptAcks
<1> HIDE DEF r, s, k, n
<1>7. DOMAIN r = 1..k /\ DOMAIN s = 1..(n - k)
  BY <1>5, <1>6
<1>8. f \in [DOMAIN r -> DOMAIN q] /\ \A j \in DOMAIN r : r[j] = q[f[j]]
  <2>1. \A j \in 1..k : 2 * j - 1 \in 1..n
    BY <1>1, <1>3
  <2> QED
    BY <1>1, <1>5, <1>7, <2>1
<1>9. g \in [DOMAIN s -> DOMAIN q] /\ \A j \in DOMAIN s : s[j] = q[g[j]]
  <2>1. \A j \in 1..(n - k) : (IF j <= k THEN 2 * j ELSE j + k) \in 1..n
    BY <1>1, <1>3
  <2>2. \A j \in 1..(n - k) : s[j] = q[IF j <= k THEN 2 * j ELSE j + k]
    BY <1>6
  <2> QED
    BY <1>1, <1>7, <2>1, <2>2
<1>10. \A j, l \in DOMAIN r : f[j] = f[l] => j = l
  BY <1>3, <1>7
<1>11. \A j, l \in DOMAIN s : g[j] = g[l] => j = l
  BY <1>1, <1>3, <1>7
<1>12. \A j \in DOMAIN r, l \in DOMAIN s : f[j] # g[l]
  <2> SUFFICES ASSUME NEW j \in 1..k, NEW l \in 1..(n - k)
               PROVE  2 * j - 1 # (IF l <= k THEN 2 * l ELSE l + k)
    BY <1>7
  <2>1. j \in Int /\ l \in Int /\ k \in Int /\ j <= k
    BY <1>1, <1>3
  <2>2. 2 * j - 1 # 2 * l
    BY <2>1
  <2>3. l > k => 2 * j - 1 # l + k
    BY <2>1
  <2> QED
    BY <2>1, <2>2, <2>3
<1>13. ASSUME NEW x \in DOMAIN q
       PROVE  (\E j \in DOMAIN r : f[j] = x) \/ (\E l \in DOMAIN s : g[l] = x)
  <2>1. x \in 1..n /\ x \in Nat
    BY <1>1
  <2>2. PICK y \in Nat : x = 2 * y \/ x = 2 * y + 1
    <3>1. x \div 2 \in Nat /\ (x = 2 * (x \div 2) \/ x = 2 * (x \div 2) + 1)
      BY <2>1
    <3> QED
      BY <3>1
  <2>3. CASE x > 2 * k
    <3>1. x - k \in DOMAIN s /\ ~(x - k <= k) /\ (x - k) + k = x
      BY <1>1, <1>3, <1>7, <2>1, <2>3
    <3>2. g[x - k] = x
      BY <1>7, <3>1
    <3> QED
      BY <3>1, <3>2
  <2>4. CASE x <= 2 * k /\ x = 2 * y
    <3>1. y \in DOMAIN s /\ y <= k
      BY <1>1, <1>3, <1>7, <2>1, <2>4
    <3>2. g[y] = x
      BY <1>7, <2>4, <3>1
    <3> QED
      BY <3>1, <3>2
  <2>5. CASE x <= 2 * k /\ x = 2 * y + 1
    <3>1. y + 1 \in 1..k /\ 2 * (y + 1) - 1 = x
      BY <1>1, <1>3, <2>1, <2>5
    <3>2. f[y + 1] = 2 * (y + 1) - 1
      BY <3>1
    <3> HIDE DEF f
    <3> QED
      BY <1>7, <3>1, <3>2
  <2>6. x > 2 * k \/ x <= 2 * k
    BY <1>3, <2>1
  <2> HIDE DEF f, g
  <2> QED
    BY <2>2, <2>3, <2>4, <2>5, <2>6
<1> HIDE DEF f, g
<1>14. Dealt(q, r, s, f, g)
  BY <1>8, <1>9, <1>10, <1>11, <1>12, <1>13 DEF Dealt
<1>15. Count(q, P) = Count(r, P) + Count(s, P)
  BY <1>4, <1>14, CountSplit
<1> QED
  BY <1>15 DEF r, s

-----------------------------------------------------------------------------
(* The handshakes of the identifiers the client uses.                       *)

Acks == {p \in Packets : p.type \in {"PUBACK", "PUBREC", "PUBREL", "PUBCOMP"}}
OfId(i, types) == {p \in Packets : p.id = i /\ p.type \in types}
One(i, types, p) == IF p.id = i /\ p.type \in types THEN 1 ELSE 0

\* The answers of the broker.
Answering == {"PUBACK", "PUBREC", "PUBCOMP", "SUBACK", "UNSUBACK"}

Asked(i) == Count(toBroker, OfId(i, Asking))
Released(i) == Count(toSendAcks, OfId(i, {"PUBREL"}))
Answered(i) == Count(toClient, OfId(i, Answering))

Acked == toSendAcks \in Seq(Acks)
Handshakes ==
  \A i \in Ids : Asked(i) + Released(i) + Answered(i) = unconfirmed[i]

LEMMA CarriersCounted == TypeOK /\ Handshakes => HandshakeKept
<1> SUFFICES ASSUME TypeOK, Handshakes, NEW i \in Ids
             PROVE  Carriers(i) = Asked(i) + Released(i) + Answered(i)
  BY DEF HandshakeKept, Handshakes
<1>1. ASSUME NEW q \in Seq(Packets), NEW types
      PROVE  {k \in DOMAIN q : q[k].id = i /\ q[k].type \in types} = Those(q, OfId(i, types))
  <2>1. \A k \in DOMAIN q : q[k] \in Packets
    BY LenProperties, ElementOfSeq
  <2> QED
    BY <2>1 DEF Those, OfId
<1>2. Asking = {"PUBLISH1", "PUBLISH2", "PUBREL", "SUBSCRIBE", "UNSUBSCRIBE"}
  BY DEF Asking, Answer
<1>3. toBroker \in Seq(Packets) /\ toSendAcks \in Seq(Packets) /\ toClient \in Seq(Packets)
  BY DEF TypeOK
<1> HIDE DEF Asking
<1>4. Asked(i) = Cardinality({k \in DOMAIN toBroker : toBroker[k].id = i /\ toBroker[k].type \in Asking})
  BY <1>1, <1>3 DEF Asked, Count
<1>5. Released(i) = Cardinality({k \in DOMAIN toSendAcks : toSendAcks[k].id = i
                                                           /\ toSendAcks[k].type \in {"PUBREL"}})
  BY <1>1, <1>3 DEF Released, Count
<1>6. Answered(i) = Cardinality({k \in DOMAIN toClient : toClient[k].id = i
                                                         /\ toClient[k].type \in Answering})
  BY <1>1, <1>3 DEF Answered, Count
<1> QED
  BY <1>2, <1>4, <1>5, <1>6 DEF Carriers, Answering

\* Counting over the moves of a queue.
LEMMA CountMoves ==
  ASSUME NEW i \in Ids, NEW types
  PROVE  /\ \A q \in Seq(Packets) : Count(q, OfId(i, types)) \in Nat
         /\ \A q \in Seq(Packets), p \in Packets :
              Count(Append(q, p), OfId(i, types)) = Count(q, OfId(i, types)) + One(i, types, p)
         /\ \A q \in Seq(Packets) : q # <<>> =>
              Count(q, OfId(i, types)) = Count(Tail(q), OfId(i, types)) + One(i, types, Head(q))
         /\ \A p : One(i, types, p) \in {0, 1}
<1>1. ASSUME NEW p \in Packets PROVE (IF p \in OfId(i, types) THEN 1 ELSE 0) = One(i, types, p)
  BY DEF OfId, One
<1>2. \A q \in Seq(Packets) : Count(q, OfId(i, types)) \in Nat
  BY CountIsFinite
<1>3. ASSUME NEW q \in Seq(Packets), NEW p \in Packets
      PROVE  Count(Append(q, p), OfId(i, types)) = Count(q, OfId(i, types)) + One(i, types, p)
  BY <1>1, CountAppend
<1>4. ASSUME NEW q \in Seq(Packets), q # <<>>
      PROVE  Count(q, OfId(i, types)) = Count(Tail(q), OfId(i, types)) + One(i, types, Head(q))
  <2>1. Head(q) \in Packets
    BY <1>4, HeadTailProperties
  <2>2. Count(q, OfId(i, types))
          = Count(Tail(q), OfId(i, types)) + IF Head(q) \in OfId(i, types) THEN 1 ELSE 0
    BY <1>4, CountTail
  <2> QED
    BY <1>1, <2>1, <2>2
<1>5. \A p : One(i, types, p) \in {0, 1}
  BY DEF One
<1> QED
  BY <1>2, <1>3, <1>4, <1>5

\* Only acknowledgements are in _toSendAcks, and _sendAcks sends a PUBREL or keeps it.
LEMMA FlushKeeps ==
  ASSUME TypeOK, NEW q \in Seq(Acks), NEW room \in Rooms, Flush(q, room), NEW i \in Ids
  PROVE  /\ toSendAcks' \in Seq(Acks)
         /\ Asked(i)' + Released(i)' = Asked(i) + Count(q, OfId(i, {"PUBREL"}))
<1> DEFINE s == SentAcks(q, room)
           t == KeptAcks(q, room)
<1>1. room \in Nat
  BY DEF Rooms
<1>2. s \in Seq(Acks) /\ t \in Seq(Acks)
  BY <1>1, AckQueue
<1>3. toBroker' = toBroker \o s /\ toSendAcks' = t
  BY DEF Flush
<1>4. Count(q, OfId(i, {"PUBREL"})) = Count(s, OfId(i, {"PUBREL"})) + Count(t, OfId(i, {"PUBREL"}))
  BY <1>1, FlushCount
<1> HIDE DEF s, t
<1>5. Acks \subseteq Packets
  BY DEF Acks
<1>6. s \in Seq(Packets) /\ toBroker \in Seq(Packets) /\ t \in Seq(Packets)
  BY <1>2, <1>5, SeqMonotonic DEF TypeOK
<1>7. Count(s, OfId(i, Asking)) = Count(s, OfId(i, {"PUBREL"}))
  <2>1. \A k \in DOMAIN s : s[k] \in Acks
    BY <1>2, LenProperties, ElementOfSeq
  <2>2. \A p \in Acks : p \in OfId(i, Asking) <=> p \in OfId(i, {"PUBREL"})
    BY DEF Acks, OfId, Asking, Answer
  <2>3. Those(s, OfId(i, Asking)) = Those(s, OfId(i, {"PUBREL"}))
    BY <2>1, <2>2 DEF Those
  <2> QED
    BY <2>3 DEF Count
<1>8. Count(toBroker \o s, OfId(i, Asking)) = Asked(i) + Count(s, OfId(i, Asking))
  BY <1>6, CountConcat DEF Asked
<1>9. Asked(i)' = Count(toBroker \o s, OfId(i, Asking)) /\ Released(i)' = Count(t, OfId(i, {"PUBREL"}))
  BY <1>3 DEF Asked, Released
<1>10. /\ Asked(i) \in Nat /\ Count(s, OfId(i, {"PUBREL"})) \in Nat
       /\ Count(t, OfId(i, {"PUBREL"})) \in Nat
  BY <1>6, CountIsFinite DEF Asked
<1> QED
  BY <1>2, <1>3, <1>4, <1>7, <1>8, <1>9, <1>10

\* Acknowledgements that _sendAcks may send.
LEMMA AckTypes ==
  ASSUME NEW t \in {"PUBACK", "PUBREC", "PUBREL", "PUBCOMP"}, NEW j \in Ids
  PROVE  /\ Pkt(t, j) \in Acks /\ Pkt(t, j) \in Packets
         /\ Pkt(t, j).type = t /\ Pkt(t, j).id = j
         /\ \A q \in Seq(Acks) : Append(q, Pkt(t, j)) \in Seq(Acks)
<1>1. Pkt(t, j) \in Acks /\ Pkt(t, j) \in Packets /\ Pkt(t, j).type = t /\ Pkt(t, j).id = j
  BY PacketTypes DEF Pkt, Acks, Types
<1> QED
  BY <1>1, AppendProperties

\* What the handler of a packet takes from the stream.
LEMMA TakenLoad ==
  ASSUME TypeOK, NEW t, Receiving(t), NEW i \in Ids
  PROVE  LET p == Head(toClient) IN
         /\ p.type = t /\ p.id \in Ids
         /\ Answered(i) = Answered(i)' + One(i, Answering, p)
         /\ Answered(i) \in Nat /\ Answered(i)' \in Nat
<1>1. toClient \in Seq(Packets) /\ toClient # <<>> /\ toClient' = Tail(toClient)
      /\ Head(toClient).type = t
  BY DEF TypeOK, Receiving
<1>2. Head(toClient).id \in Ids /\ toClient' \in Seq(Packets)
  BY Received
<1> QED
  BY <1>1, <1>2, CountMoves DEF Answered

LEMMA LoadTypes ==
  ASSUME TypeOK, NEW i \in Ids
  PROVE  Asked(i) \in Nat /\ Released(i) \in Nat /\ Answered(i) \in Nat
BY CountMoves DEF TypeOK, Asked, Released, Answered

\* The handlers that answer at once: PUBLISH of QoS 2, PUBREL and PUBREC.
LEMMA AnsweredLoad ==
  ASSUME TypeOK, Acked, NEW t, Receiving(t), NEW a \in {"PUBREC", "PUBREL", "PUBCOMP"},
         t \in Answering <=> a = "PUBREL",
         NEW room \in Rooms, Flush(Append(toSendAcks, Pkt(a, Head(toClient).id)), room),
         NEW i \in Ids
  PROVE  Acked' /\ Asked(i)' + Released(i)' + Answered(i)' = Asked(i) + Released(i) + Answered(i)
<1> DEFINE p == Head(toClient)
           q == Append(toSendAcks, Pkt(a, p.id))
<1>1. /\ p.type = t /\ p.id \in Ids
      /\ Answered(i) = Answered(i)' + One(i, Answering, p)
      /\ Answered(i) \in Nat /\ Answered(i)' \in Nat
  BY TakenLoad
<1>2. /\ q \in Seq(Acks) /\ Pkt(a, p.id) \in Packets
      /\ Pkt(a, p.id).type = a /\ Pkt(a, p.id).id = p.id
  BY <1>1, AckTypes DEF Acked
<1>3. Acked' /\ Asked(i)' + Released(i)' = Asked(i) + Count(q, OfId(i, {"PUBREL"}))
  BY <1>2, FlushKeeps DEF Acked
<1>4. Count(q, OfId(i, {"PUBREL"})) = Released(i) + One(i, {"PUBREL"}, Pkt(a, p.id))
  BY <1>2, CountMoves DEF TypeOK, Released
<1>5. One(i, {"PUBREL"}, Pkt(a, p.id)) = One(i, Answering, p)
  BY <1>1, <1>2 DEF One
<1>6. One(i, Answering, p) \in {0, 1} /\ Asked(i) \in Nat /\ Released(i) \in Nat
  BY LoadTypes DEF One
<1> QED
  BY <1>1, <1>3, <1>4, <1>5, <1>6

LEMMA HandlersKeep ==
  ASSUME TypeOK, TypeOK', Acked, Handshakes, Handling
  PROVE  Acked' /\ Handshakes'
<1>1. CASE OnPublish1
  <2> DEFINE p == Head(toClient)
  <2>1. Receiving("PUBLISH") /\ UNCHANGED <<toBroker, unconfirmed>>
        /\ toSendAcks' = Append(toSendAcks, Pkt("PUBACK", p.id))
    BY <1>1 DEF OnPublish1
  <2>2. p.id \in Ids
    BY <2>1, Received
  <2>3. Acked'
    BY <2>1, <2>2, AckTypes DEF Acked
  <2>4. ASSUME NEW i \in Ids
        PROVE  Asked(i)' + Released(i)' + Answered(i)' = Asked(i) + Released(i) + Answered(i)
    <3>1. /\ p.type = "PUBLISH" /\ Answered(i) = Answered(i)' + One(i, Answering, p)
          /\ Answered(i) \in Nat /\ Answered(i)' \in Nat
      BY <2>1, TakenLoad
    <3>2. Released(i)' = Released(i) + One(i, {"PUBREL"}, Pkt("PUBACK", p.id))
      BY <2>1, <2>2, AckTypes, CountMoves DEF TypeOK, Released
    <3>3. One(i, Answering, p) = 0 /\ One(i, {"PUBREL"}, Pkt("PUBACK", p.id)) = 0
      BY <2>2, <3>1, AckTypes DEF One, Answering
    <3>4. Asked(i)' = Asked(i) /\ Asked(i) \in Nat /\ Released(i) \in Nat
      BY <2>1, LoadTypes DEF Asked
    <3> QED
      BY <3>1, <3>2, <3>3, <3>4
  <2> QED
    BY <2>1, <2>3, <2>4 DEF Handshakes
<1>2. CASE OnAnswered
  <2> DEFINE p == Head(toClient)
  <2>1. PICK t \in {"PUBACK", "PUBCOMP", "SUBACK", "UNSUBACK"} : Receiving(t) /\ OnConfirmed(t)
    BY <1>2 DEF OnAnswered, OnPubAck, OnPubComp, OnSubAck, OnUnsubAck, OnConfirmed
  <2>2. /\ UNCHANGED <<toBroker, toSendAcks>> /\ unconfirmed \in [Ids -> Int]
        /\ unconfirmed' = [unconfirmed EXCEPT ![p.id] = @ - 1]
    BY <2>1 DEF OnConfirmed, clientVars, TypeOK
  <2>3. ASSUME NEW i \in Ids
        PROVE  Asked(i)' + Released(i)' + Answered(i)' = unconfirmed'[i]
    <3>1. /\ p.type = t /\ Answered(i) = Answered(i)' + One(i, Answering, p)
          /\ Answered(i) \in Nat /\ Answered(i)' \in Nat
      BY <2>1, TakenLoad
    <3>2. One(i, Answering, p) = IF p.id = i THEN 1 ELSE 0
      BY <2>1, <3>1 DEF One, Answering
    <3>3. /\ Asked(i)' = Asked(i) /\ Released(i)' = Released(i)
          /\ Asked(i) \in Nat /\ Released(i) \in Nat
      BY <2>2, LoadTypes DEF Asked, Released
    <3>4. Asked(i) + Released(i) + Answered(i) = unconfirmed[i]
      BY DEF Handshakes
    <3>5. unconfirmed'[i] = unconfirmed[i] - (IF p.id = i THEN 1 ELSE 0)
      BY <2>2
    <3> QED
      BY <3>1, <3>2, <3>3, <3>4, <3>5
  <2> QED
    BY <2>2, <2>3 DEF Acked, Handshakes
<1>3. ASSUME NEW room \in Rooms, OnPublish2(room) PROVE Acked' /\ Handshakes'
  <2>1. /\ Receiving("PUBLISH") /\ unconfirmed' = unconfirmed
        /\ Flush(Append(toSendAcks, Pkt("PUBREC", Head(toClient).id)), room)
    BY <1>3 DEF OnPublish2
  <2>2. \A i \in Ids :
          Acked' /\ Asked(i)' + Released(i)' + Answered(i)' = Asked(i) + Released(i) + Answered(i)
    BY <2>1, AnsweredLoad DEF Answering
  <2> QED
    BY <2>1, <2>2 DEF Handshakes, Ids
<1>4. ASSUME NEW room \in Rooms, OnPubRel(room) PROVE Acked' /\ Handshakes'
  <2>1. /\ Receiving("PUBREL") /\ unconfirmed' = unconfirmed
        /\ Flush(Append(toSendAcks, Pkt("PUBCOMP", Head(toClient).id)), room)
    BY <1>4 DEF OnPubRel
  <2>2. \A i \in Ids :
          Acked' /\ Asked(i)' + Released(i)' + Answered(i)' = Asked(i) + Released(i) + Answered(i)
    BY <2>1, AnsweredLoad DEF Answering
  <2> QED
    BY <2>1, <2>2 DEF Handshakes, Ids
<1>5. ASSUME NEW room \in Rooms, OnPubRec(room) PROVE Acked' /\ Handshakes'
  <2>1. /\ Receiving("PUBREC") /\ unconfirmed' = unconfirmed
        /\ Flush(Append(toSendAcks, Pkt("PUBREL", Head(toClient).id)), room)
    BY <1>5 DEF OnPubRec
  <2>2. \A i \in Ids :
          Acked' /\ Asked(i)' + Released(i)' + Answered(i)' = Asked(i) + Released(i) + Answered(i)
    BY <2>1, AnsweredLoad DEF Answering
  <2> QED
    BY <2>1, <2>2 DEF Handshakes, Ids
<1> QED
  BY <1>1, <1>2, <1>3, <1>4, <1>5 DEF Handling

LEMMA BrokerKeeps ==
  ASSUME TypeOK, TypeOK', Acked, Handshakes, Broker
  PROVE  Acked' /\ Handshakes'
<1>1. UNCHANGED <<toSendAcks, unconfirmed>>
  BY DEF Broker, BrokerPublish, BrokerResend, BrokerReceive, clientVars
<1>2. /\ toClient \in Seq(Packets) /\ toBroker \in Seq(Packets)
  BY DEF TypeOK
<1> SUFFICES ASSUME NEW i \in Ids
             PROVE  Asked(i)' + Answered(i)' = Asked(i) + Answered(i)
  <2>1. \A i \in Ids : Released(i)' = Released(i) /\ Released(i) \in Nat
                       /\ Asked(i) \in Nat /\ Answered(i) \in Nat
    BY <1>1, LoadTypes DEF Released
  <2>2. \A i \in Ids : Asked(i)' \in Nat /\ Answered(i)' \in Nat
    BY CountMoves DEF TypeOK, Asked, Answered
  <2>3. \A i \in Ids : Asked(i)' + Released(i)' + Answered(i)' = Asked(i) + Released(i) + Answered(i)
    BY <2>1, <2>2
  <2> QED
    BY <1>1, <2>3 DEF Acked, Handshakes
<1>3. Asked(i) \in Nat /\ Answered(i) \in Nat
  BY LoadTypes
<1>4. ASSUME NEW j \in Ids, NEW m \in Messages \cup {NoMessage},
             toClient' = Append(toClient, Publish(j, m)), UNCHANGED toBroker
      PROVE  Asked(i)' + Answered(i)' = Asked(i) + Answered(i)
  <2>1. Answered(i)' = Answered(i) + One(i, Answering, Publish(j, m))
    BY <1>2, <1>4, PacketTypes, CountMoves DEF Answered
  <2>2. One(i, Answering, Publish(j, m)) = 0
    BY DEF One, Publish, Answering
  <2> QED
    BY <1>3, <1>4, <2>1, <2>2 DEF Asked
<1>5. ASSUME NEW m \in Messages, BrokerPublish(m) PROVE Asked(i)' + Answered(i)' = Asked(i) + Answered(i)
  BY <1>4, <1>5 DEF BrokerPublish
<1>6. ASSUME NEW j \in Ids, BrokerResend(j) PROVE Asked(i)' + Answered(i)' = Asked(i) + Answered(i)
  <2>1. slots[j].msg \in Messages \cup {NoMessage}
    BY DEF TypeOK
  <2> QED
    BY <1>4, <1>6, <2>1 DEF BrokerResend
<1>7. CASE BrokerReceive
  <2> DEFINE p == Head(toBroker)
  <2>1. toBroker # <<>> /\ toBroker' = Tail(toBroker) /\ p.id \in Ids /\ p.type \in Types
    BY <1>2, <1>7, QueueMoves DEF BrokerReceive, Packets
  <2>2. Asked(i) = Asked(i)' + One(i, Asking, p) /\ Asked(i)' \in Nat
    BY <1>2, <2>1, CountMoves, QueueMoves DEF Asked
  <2>3. CASE p.type \in DOMAIN Answer /\ toClient' = Append(toClient, Pkt(Answer[p.type], p.id))
    <3>1. Answer[p.type] \in Types /\ Answer[p.type] \in Answering
      BY <2>3 DEF Answer, Types, Answering
    <3>2. /\ Pkt(Answer[p.type], p.id) \in Packets
          /\ Pkt(Answer[p.type], p.id).id = p.id /\ Pkt(Answer[p.type], p.id).type = Answer[p.type]
      BY <2>1, <3>1, PacketTypes DEF Pkt
    <3>3. Answered(i)' = Answered(i) + One(i, Answering, Pkt(Answer[p.type], p.id))
      BY <1>2, <2>3, <3>2, CountMoves DEF Answered
    <3>4. One(i, Answering, Pkt(Answer[p.type], p.id)) = One(i, Asking, p)
      BY <2>3, <3>1, <3>2 DEF One, Asking
    <3>5. One(i, Asking, p) \in {0, 1}
      BY DEF One
    <3> QED
      BY <1>3, <2>2, <3>3, <3>4, <3>5
  <2>4. CASE p.type \notin DOMAIN Answer /\ toClient' = Append(toClient, Pkt("PUBREL", p.id))
    <3>1. /\ Pkt("PUBREL", p.id) \in Packets
          /\ Pkt("PUBREL", p.id).id = p.id /\ Pkt("PUBREL", p.id).type = "PUBREL"
      BY <2>1, PacketTypes DEF Pkt, Types
    <3>2. Answered(i)' = Answered(i) + One(i, Answering, Pkt("PUBREL", p.id))
      BY <1>2, <2>4, <3>1, CountMoves DEF Answered
    <3>3. One(i, Answering, Pkt("PUBREL", p.id)) = 0 /\ One(i, Asking, p) = 0
      BY <2>4, <3>1 DEF One, Asking, Answering
    <3> QED
      BY <1>3, <2>2, <3>2, <3>3
  <2>5. CASE p.type \notin DOMAIN Answer /\ UNCHANGED toClient
    <3>1. One(i, Asking, p) = 0 /\ Answered(i)' = Answered(i)
      BY <2>5 DEF One, Asking, Answered
    <3> QED
      BY <1>3, <2>2, <3>1
  <2>6. {"PUBREC", "PUBACK", "PUBCOMP"} \cap DOMAIN Answer = {}
    BY DEF Answer
  <2> QED
    BY <1>7, <2>3, <2>4, <2>5, <2>6 DEF BrokerReceive
<1> QED
  BY <1>5, <1>6, <1>7 DEF Broker

LEMMA NextKeeps == TypeOK /\ TypeOK' /\ Acked /\ Handshakes /\ [Next]_vars => Acked' /\ Handshakes'
<1> SUFFICES ASSUME TypeOK, TypeOK', Acked, Handshakes, [Next]_vars PROVE Acked' /\ Handshakes'
  OBVIOUS
<1> DEFINE LoadVars == <<toBroker, toSendAcks, toClient, unconfirmed>>
<1>1. ASSUME UNCHANGED LoadVars PROVE Acked' /\ Handshakes'
  BY <1>1 DEF Acked, Handshakes, Asked, Released, Answered
<1>2. CASE ConnAck
  BY <1>1, <1>2 DEF ConnAck
<1>3. CASE Requests
  <2>1. PICK t \in Types \cap Asking, j \in Ids : Put(t, j)
    BY <1>3, RequestsPut
  <2>2. /\ toBroker' = Append(toBroker, Pkt(t, j))
        /\ unconfirmed \in [Ids -> Int] /\ unconfirmed' = [unconfirmed EXCEPT ![j] = @ + 1]
        /\ UNCHANGED <<toSendAcks, toClient>>
    BY <2>1 DEF Put, TypeOK
  <2>3. ASSUME NEW i \in Ids
        PROVE  Asked(i)' + Released(i)' + Answered(i)' = unconfirmed'[i]
    <3>1. Pkt(t, j) \in Packets /\ Pkt(t, j).type = t /\ Pkt(t, j).id = j
      BY PacketTypes DEF Pkt
    <3>2. Asked(i)' = Asked(i) + One(i, Asking, Pkt(t, j))
      BY <2>2, <3>1, CountMoves DEF TypeOK, Asked
    <3>3. One(i, Asking, Pkt(t, j)) = IF i = j THEN 1 ELSE 0
      BY <3>1 DEF One
    <3>4. /\ Released(i)' = Released(i) /\ Answered(i)' = Answered(i)
          /\ Asked(i) \in Nat /\ Released(i) \in Nat /\ Answered(i) \in Nat
      BY <2>2, LoadTypes DEF Released, Answered
    <3>5. Asked(i) + Released(i) + Answered(i) = unconfirmed[i]
      BY DEF Handshakes
    <3>6. unconfirmed'[i] = unconfirmed[i] + (IF i = j THEN 1 ELSE 0)
      BY <2>2
    <3> QED
      BY <2>2, <3>2, <3>3, <3>4, <3>5, <3>6
  <2> QED
    BY <2>2, <2>3 DEF Acked, Handshakes
<1>4. ASSUME NEW room \in Rooms, Poll(room) PROVE Acked' /\ Handshakes'
  <2>1. Flush(toSendAcks, room) /\ UNCHANGED <<toClient, unconfirmed>>
    BY <1>4 DEF Poll
  <2>2. \A i \in Ids : Acked' /\ Asked(i)' + Released(i)' = Asked(i) + Released(i)
    BY <2>1, FlushKeeps DEF Acked, Released
  <2>3. \A i \in Ids : Answered(i)' = Answered(i)
    BY <2>1 DEF Answered
  <2> QED
    BY <2>1, <2>2, <2>3 DEF Handshakes, Ids
<1>5. CASE Handling
  BY <1>5, HandlersKeep
<1>6. CASE Broker
  BY <1>6, BrokerKeeps
<1>7. CASE Drop
  <2>1. \A P : Count(<<>>, P) = 0
    <3>1. \A P : Those(<<>>, P) = {}
      BY DEF Those
    <3> QED
      BY <3>1, FS_EmptySet DEF Count
  <2>2. toBroker' = <<>> /\ toSendAcks' = <<>> /\ toClient' = <<>> /\ unconfirmed' = [i \in Ids |-> 0]
    BY <1>7 DEF Drop
  <2>3. <<>> \in Seq(Acks)
    OBVIOUS
  <2> QED
    BY <2>1, <2>2, <2>3 DEF Acked, Handshakes, Asked, Released, Answered
<1>8. CASE UNCHANGED vars
  BY <1>1, <1>8 DEF vars, clientVars
<1> QED
  BY <1>2, <1>3, <1>4, <1>5, <1>6, <1>7, <1>8 DEF Next, Client, Handling, Requests

LEMMA InitKept == Init => Acked /\ Handshakes
<1> SUFFICES ASSUME Init PROVE Acked /\ Handshakes
  OBVIOUS
<1>1. \A P : Count(<<>>, P) = 0
  <2>1. \A P : Those(<<>>, P) = {}
    BY DEF Those
  <2> QED
    BY <2>1, FS_EmptySet DEF Count
<1>2. <<>> \in Seq(Acks)
  OBVIOUS
<1> QED
  BY <1>1, <1>2 DEF Init, Acked, Handshakes, Asked, Released, Answered

\* However the acknowledgements are delayed, skipped and reordered by _sendAcks,
\* and whatever ids publish() is given to use again, each packet sent with an id
\* and not confirmed has just one packet or queue entry that brings it nearer to
\* its callback, and there are no callbacks but those.
THEOREM EachConfirmedOnce == Spec => []HandshakeKept
<1>1. Init => TypeOK /\ Acked /\ Handshakes
  BY InitTyped, InitKept
<1>2. TypeOK /\ Acked /\ Handshakes /\ [Next]_vars => TypeOK' /\ Acked' /\ Handshakes'
  BY NextTyped, NextKeeps
<1> QED
  BY <1>1, <1>2, CarriersCounted, PTL DEF Spec
=============================================================================
