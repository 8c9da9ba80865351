---------------------------- MODULE ServerProofs ----------------------------
(***************************************************************************)
(* Proofs about module Server, for every set of connections, addresses and *)
(* message ids and every bound: types; that each recorded packet is stored *)
(* exactly once; which row of table Devices a connection, a pending packet *)
(* and a written interval belong to, and how many intervals the packets of *)
(* a connection give; that the session's counters are the numbers of rows  *)
(* of table Times; and that the server implements the log of PacketLog.    *)
(* The last part is about Monitoring, the page beside the running server,  *)
(* for every number of requests and resets and every limit of an answer.   *)
(***************************************************************************)
EXTENDS Monitoring, FiniteSetTheorems, SequenceTheorems, FunctionTheorems, TLAPS

\* The lists are finite, and a transaction that is under way has attempts left.
Finite == IsFiniteSet(packetsAMO) /\ IsFiniteSet(packetsALO)

AttemptsLeft ==
  /\ timerPc = "asleep" => attempts = 0
  /\ timerPc \in {"read", "commit"} => attempts < MaxAttempts

Typed == TypeOK /\ Finite /\ AttemptsLeft

-----------------------------------------------------------------------------
(* Sequences and numbers.                                                   *)

LEMMA IntervalEnd ==
  ASSUME NEW a \in Nat, NEW b \in Nat, 1..a = 1..b
  PROVE  a = b
<1>1. CASE a < b
  <2>1. b \in 1..b /\ b \notin 1..a
    BY <1>1
  <2> QED  BY <2>1
<1>2. CASE b < a
  <2>1. a \in 1..a /\ a \notin 1..b
    BY <1>2
  <2> QED  BY <2>1
<1> QED  BY <1>1, <1>2

LEMMA FcnIsSeq ==
  ASSUME NEW S, NEW n \in Nat, NEW f \in [1..n -> S]
  PROVE  f \in Seq(S) /\ Len(f) = n
<1>1. f \in Seq(S)
  BY SeqDef
<1>2. Len(f) \in Nat /\ DOMAIN f = 1..Len(f)
  BY <1>1, LenProperties
<1> QED  BY <1>1, <1>2, IntervalEnd

LEMMA IdsAreNumbers == Ids \subseteq Int
<1>1. NoId \in Int
  BY DEF NoId
<1> QED  BY <1>1, MsgIdAssumption DEF Ids

-----------------------------------------------------------------------------
(* The batch of a flush.                                                    *)

\* The pending packets are a finite set of packets.
LEMMA PendingFinite ==
  ASSUME Typed
  PROVE  /\ IsFiniteSet(Pending) /\ Cardinality(Pending) \in Nat
         /\ Pending \subseteq Packet
         /\ Cardinality(packetsAMO) \in Nat /\ Cardinality(packetsALO) \in Nat
<1>1. IsFiniteSet(Pending)
  BY FS_Union DEF Typed, Finite, Pending
<1>2. /\ Cardinality(Pending) \in Nat
      /\ Cardinality(packetsAMO) \in Nat /\ Cardinality(packetsALO) \in Nat
  BY <1>1, FS_CardinalityType DEF Typed, Finite
<1>3. Pending \subseteq Packet
  BY DEF Typed, TypeOK, Pending
<1> QED  BY <1>1, <1>2, <1>3

\* The rows a flush inserts: one for each pending packet, none twice.
LEMMA BatchFacts ==
  ASSUME Typed, NEW batch \in SortedBatches(Pending)
  PROVE  LET n == Cardinality(Pending)
             new == [i \in DOMAIN batch |-> Row(batch[i])]
         IN  /\ n \in Nat /\ DOMAIN batch = 1..n
             /\ new \in Seq([packet : Packet, deviceId : Nat]) /\ Len(new) = n
             /\ \A i \in 1..n : new[i] = Row(batch[i]) /\ batch[i] \in Pending
             /\ \A p \in Pending : \E i \in 1..n : batch[i] = p
             /\ \A i, j \in 1..n : batch[i] = batch[j] => i = j
<1> DEFINE n == Cardinality(Pending)
           new == [i \in DOMAIN batch |-> Row(batch[i])]
<1>1. n \in Nat /\ Pending \subseteq Packet
  BY PendingFinite
<1>2. /\ batch \in [1..n -> Pending]
      /\ \A p \in Pending : \E i \in DOMAIN batch : batch[i] = p
      /\ \A i, j \in DOMAIN batch : i < j => Before(batch[i], batch[j])
  BY DEF SortedBatches
<1>3. \A p \in Packet : Row(p) \in [packet : Packet, deviceId : Nat]
  BY DEF Row, Packet, Typed, TypeOK
<1>4. new \in [1..n -> [packet : Packet, deviceId : Nat]]
  BY <1>1, <1>2, <1>3
<1>5. new \in Seq([packet : Packet, deviceId : Nat]) /\ Len(new) = n
  <2> HIDE DEF new, n
  <2> QED  BY <1>1, <1>4, FcnIsSeq
<1>6. \A p \in Packet : ~ Before(p, p)
  <2>1. \A p \in Packet : p.msgId \in Int /\ p.no \in Int
    <3>1. \A p \in Packet : p.msgId \in Ids /\ p.no \in Int
      BY DEF Packet
    <3> QED  BY <3>1, IdsAreNumbers
  <2> QED  BY <2>1 DEF Before
<1>7. \A i, j \in 1..n : batch[i] = batch[j] => i = j
  BY <1>1, <1>2, <1>6
<1> QED  BY <1>1, <1>2, <1>5, <1>7

-----------------------------------------------------------------------------
(* Type correctness.                                                        *)

LEMMA InitTyped == Init => Typed
<1> SUFFICES ASSUME Init PROVE Typed
  OBVIOUS
<1> USE DEF Init
<1>1. TypeOK
  BY ConnAssumption, BoundAssumption
  DEF TypeOK, Packet, Ids, NoDev, NoConn, NoPublish
<1>2. Finite
  BY FS_EmptySet DEF Finite
<1>3. AttemptsLeft
  BY BoundAssumption DEF AttemptsLeft
<1> QED  BY <1>1, <1>2, <1>3 DEF Typed

LEMMA NextTyped == Typed /\ [Next]_vars => Typed'
<1> SUFFICES ASSUME Typed, [Next]_vars PROVE Typed'
  OBVIOUS
<1> USE DEF Typed
<1> USE DEF tables, memory, loopVars, timerVars, history
<1>1. ASSUME NEW c \in Conns, NEW name \in Names, Accept(c, name) PROVE Typed'
  <2>1. TypeOK'
    <3>1. CASE RowsOf(IpOf[c]) = {} /\ ep' = [ep EXCEPT ![c] = Opened(Len(devices) + 1)]
               /\ devices' = Append(devices, [name |-> name, ip |-> IpOf[c]])
      <4>1. IpOf[c] \in Ips /\ [name |-> name, ip |-> IpOf[c]] \in [name : Names, ip : Ips]
        BY ConnAssumption
      <4>2. devices' \in Seq([name : Names, ip : Ips]) /\ Len(devices) \in Nat
        BY <3>1, <4>1 DEF TypeOK
      <4>3. ep' \in [Conns -> [st : {"new", "open", "closed"}, devId : Nat, prev : BOOLEAN]]
        BY <3>1, <4>2 DEF Opened, TypeOK
      <4> QED  BY <4>2, <4>3, <1>1 DEF Accept, TypeOK
    <3>2. ASSUME NEW d \in RowsOf(IpOf[c]), ep' = [ep EXCEPT ![c] = Opened(d)],
                 devices' = [e \in DOMAIN devices |->
                               IF e \in RowsOf(IpOf[c])
                               THEN [name |-> name, ip |-> devices[e].ip]
                               ELSE devices[e]]
          PROVE TypeOK'
      <4>1. d \in 1..Len(devices)
        BY DEF RowsOf, TypeOK
      <4>2. devices' \in Seq([name : Names, ip : Ips])
        <5>1. devices \in [1..Len(devices) -> [name : Names, ip : Ips]] /\ Len(devices) \in Nat
          BY LenProperties DEF TypeOK
        <5>2. devices' \in [1..Len(devices) -> [name : Names, ip : Ips]]
          BY <3>2, <5>1
        <5> QED  BY <5>1, <5>2, FcnIsSeq
      <4>3. ep' \in [Conns -> [st : {"new", "open", "closed"}, devId : Nat, prev : BOOLEAN]]
        BY <3>2, <4>1 DEF Opened, TypeOK
      <4> QED  BY <4>2, <4>3, <1>1 DEF Accept, TypeOK
    <3> QED  BY <3>1, <3>2, <1>1 DEF Accept
  <2> QED  BY <2>1, <1>1 DEF Accept, Finite, AttemptsLeft
<1>2. ASSUME NEW c \in Conns, Refuse(c) PROVE Typed'
  BY <1>2 DEF Refuse, TypeOK, Finite, AttemptsLeft
<1>3. ASSUME NEW c \in Conns, Disconnect(c) PROVE Typed'
  BY <1>3 DEF Disconnect, TypeOK, Finite, AttemptsLeft
<1>4. ASSUME NEW c \in Conns, ReceiveQoS0(c) PROVE Typed'
  BY <1>4 DEF ReceiveQoS0, Receiving, TypeOK, Finite, AttemptsLeft, Publish, Ids
<1>5. ASSUME NEW c \in Conns, NEW id \in MsgIds, ReceiveQoS1(c, id) PROVE Typed'
  BY <1>5 DEF ReceiveQoS1, Receiving, TypeOK, Finite, AttemptsLeft, Publish, Ids
<1>6. CASE CountPuback
  BY <1>6 DEF CountPuback, TypeOK, Finite, AttemptsLeft
<1>7. ASSUME NEW near \in BOOLEAN, Record(near) PROVE Typed'
  <2> DEFINE e == ep[inHand.conn]
             p == [no |-> recorded + 1, qos |-> inHand.qos,
                   msgId |-> inHand.msgId, from |-> e.devId]
  <2>1. inHand \in Publish /\ e.devId \in Nat /\ p \in Packet
    BY <1>7 DEF Record, TypeOK, Publish, Packet
  <2>2. ep' \in [Conns -> [st : {"new", "open", "closed"}, devId : Nat, prev : BOOLEAN]]
    BY <2>1, <1>7 DEF Record, TypeOK, Publish
  <2>3. CASE e.prev /\ near
    <3>1. /\ packetsAMO' = IF p.qos = 0 THEN packetsAMO \cup {p} ELSE packetsAMO
          /\ packetsALO' = IF p.qos = 1 THEN packetsALO \cup {p} ELSE packetsALO
          /\ mesToDevIdMap' = Remember(p.msgId, e.devId)
          /\ recorded' = recorded + 1
      BY <2>3, <1>7 DEF Record
    <3>2. Finite'
      BY <3>1, FS_AddElement DEF Finite
    <3>3. mesToDevIdMap' \in [Ids -> Nat]
      BY <2>1, <3>1 DEF Remember, TypeOK, Packet
    <3>4. packetsAMO' \subseteq Packet /\ packetsALO' \subseteq Packet
      BY <2>1, <3>1 DEF TypeOK
    <3>5. TypeOK'
      BY <1>7, <2>1, <2>2, <3>1, <3>3, <3>4 DEF Record, TypeOK
    <3> QED  BY <3>2, <3>5, <1>7 DEF Record, AttemptsLeft
  <2>4. CASE ~(e.prev /\ near)
    <3>1. UNCHANGED <<memory, recorded>>
      BY <2>4, <1>7 DEF Record
    <3> QED  BY <3>1, <2>1, <2>2, <1>7 DEF Record, TypeOK, Finite, AttemptsLeft
  <2> QED  BY <2>3, <2>4
<1>8. CASE StartFlush
  BY <1>8, BoundAssumption DEF StartFlush, TypeOK, Finite, AttemptsLeft
<1>9. CASE CrashOnEmpty
  BY <1>9 DEF CrashOnEmpty, TypeOK, Finite, AttemptsLeft
<1>10. CASE ReadPubackSent
  BY <1>10 DEF ReadPubackSent, TypeOK, Finite, AttemptsLeft
<1>11. CASE CommitFlush
  <2>1. PICK batch \in SortedBatches(Pending) :
          times' = times \o [i \in DOMAIN batch |-> Row(batch[i])]
    BY <1>11 DEF CommitFlush
  <2>2. times' \in Seq([packet : Packet, deviceId : Nat])
    BY <2>1, BatchFacts, ConcatProperties DEF TypeOK
  <2>3. session' \in [QOS0Packets : Nat, QOS1Packets : Nat, packetsSent : Nat]
    BY <1>11, PendingFinite DEF CommitFlush, Credited, TypeOK
  <2> QED  BY <2>2, <2>3, <1>11 DEF CommitFlush, TypeOK, Finite, AttemptsLeft
<1>12. CASE AbortFlush
  BY <1>12, BoundAssumption DEF AbortFlush, Retry, Tried, TypeOK, Finite, AttemptsLeft
<1>13. CASE ClearFlushed
  BY <1>13, BoundAssumption, FS_EmptySet DEF ClearFlushed, TypeOK, Finite, AttemptsLeft
<1>14. CASE UNCHANGED vars
  BY <1>14 DEF vars, TypeOK, Finite, AttemptsLeft
<1> QED
  BY <1>1, <1>2, <1>3, <1>4, <1>5, <1>6, <1>7, <1>8, <1>9, <1>10, <1>11, <1>12,
     <1>13, <1>14
  DEF Next, EventLoop, Timer

\* Every variable keeps its type, and no transaction is tried too often.
THEOREM TypeCorrect == Spec => []TypeOK
<1>1. Spec => []Typed
  BY InitTyped, NextTyped, PTL DEF Spec
<1>2. Typed => TypeOK
  BY DEF Typed
<1> QED  BY <1>1, <1>2, PTL

-----------------------------------------------------------------------------
(* Every recorded packet is kept, and written once.                         *)

\* What a commit does to table Times: the pending packets follow the old rows.
LEMMA CommitRows ==
  ASSUME Typed, CommitFlush
  PROVE  \E batch \in SortedBatches(Pending) :
           LET n == Cardinality(Pending)
           IN  /\ n \in Nat /\ Len(times) \in Nat
               /\ DOMAIN times = 1..Len(times)
               /\ DOMAIN times' = 1..(Len(times) + n)
               /\ \A r \in 1..Len(times) : times'[r] = times[r]
               /\ \A i \in 1..n : times'[Len(times) + i] = Row(batch[i]) /\ batch[i] \in Pending
               /\ \A p \in Pending : \E i \in 1..n : batch[i] = p
               /\ \A i, j \in 1..n : batch[i] = batch[j] => i = j
<1>1. PICK batch \in SortedBatches(Pending) :
        times' = times \o [i \in DOMAIN batch |-> Row(batch[i])]
  BY DEF CommitFlush
<1> DEFINE n == Cardinality(Pending)
           new == [i \in DOMAIN batch |-> Row(batch[i])]
           T == [packet : Packet, deviceId : Nat]
<1>2. /\ n \in Nat /\ new \in Seq(T) /\ Len(new) = n
      /\ \A i \in 1..n : new[i] = Row(batch[i]) /\ batch[i] \in Pending
      /\ \A p \in Pending : \E i \in 1..n : batch[i] = p
      /\ \A i, j \in 1..n : batch[i] = batch[j] => i = j
  BY BatchFacts
<1>3. times \in Seq(T) /\ Len(times) \in Nat /\ DOMAIN times = 1..Len(times)
  BY LenProperties DEF Typed, TypeOK
<1> HIDE DEF n, new, T
<1>4. /\ times \o new \in Seq(T)
      /\ Len(times \o new) = Len(times) + n
      /\ \A i \in 1..(Len(times) + n) :
           (times \o new)[i] = IF i <= Len(times) THEN times[i] ELSE new[i - Len(times)]
  <2>1. /\ times \o new \in Seq(T)
        /\ Len(times \o new) = Len(times) + Len(new)
        /\ \A i \in 1..(Len(times) + Len(new)) :
             (times \o new)[i] = IF i <= Len(times) THEN times[i] ELSE new[i - Len(times)]
    <3>1. times \in Seq(T) /\ new \in Seq(T)
      BY <1>2, <1>3
    <3> QED  BY ONLY <3>1, ConcatProperties
  <2> QED  BY <2>1, <1>2
<1>5. DOMAIN times' = 1..(Len(times) + n)
  BY <1>1, <1>4, LenProperties DEF new
<1>6. \A r \in 1..Len(times) : times'[r] = times[r]
  BY <1>1, <1>2, <1>3, <1>4 DEF new
<1>7. \A i \in 1..n : times'[Len(times) + i] = new[i]
  <2>1. ASSUME NEW i \in 1..n PROVE times'[Len(times) + i] = new[i]
    <3>1. /\ Len(times) + i \in 1..(Len(times) + n)
          /\ ~(Len(times) + i <= Len(times))
          /\ Len(times) + i - Len(times) = i
      BY <1>2, <1>3
    <3> QED  BY <1>1, <1>4, <3>1 DEF new
  <2> QED  BY <2>1
<1> QED  BY <1>2, <1>3, <1>5, <1>6, <1>7 DEF n

LEMMA CommitPersists ==
  ASSUME Typed, CommitFlush
  PROVE  Persisted' = Persisted \cup Pending
<1>1. PICK batch \in SortedBatches(Pending) :
         LET n == Cardinality(Pending)
         IN  /\ n \in Nat /\ Len(times) \in Nat
             /\ DOMAIN times = 1..Len(times)
             /\ DOMAIN times' = 1..(Len(times) + n)
             /\ \A r \in 1..Len(times) : times'[r] = times[r]
             /\ \A i \in 1..n : times'[Len(times) + i] = Row(batch[i]) /\ batch[i] \in Pending
             /\ \A p \in Pending : \E i \in 1..n : batch[i] = p
             /\ \A i, j \in 1..n : batch[i] = batch[j] => i = j
  BY CommitRows
<1> DEFINE n == Cardinality(Pending)
<1>2. ASSUME NEW p \in Persisted' PROVE p \in Persisted \cup Pending
  <2>1. PICK r \in DOMAIN times' : p = times'[r].packet
    BY DEF Persisted, Rows
  <2>2. CASE r <= Len(times)
    BY <1>1, <2>1, <2>2 DEF Persisted, Rows
  <2>3. CASE r > Len(times)
    <3>1. r - Len(times) \in 1..n /\ r = Len(times) + (r - Len(times))
      BY <1>1, <2>1, <2>3
    <3>2. p = batch[r - Len(times)]
      <4> DEFINE i == r - Len(times)
      <4>1. i \in 1..n /\ times'[Len(times) + i] = Row(batch[i]) /\ r = Len(times) + i
        BY <1>1, <3>1
      <4> QED  BY <2>1, <4>1 DEF Row
    <3> QED  BY <1>1, <3>1, <3>2
  <2> QED  BY <1>1, <2>1, <2>2, <2>3
<1>3. ASSUME NEW p \in Persisted PROVE p \in Persisted'
  <2>1. PICK r \in DOMAIN times : p = times[r].packet
    BY DEF Persisted, Rows
  <2>2. r \in DOMAIN times' /\ times'[r] = times[r]
    BY <1>1, <2>1
  <2> QED  BY <2>1, <2>2 DEF Persisted, Rows
<1>4. ASSUME NEW p \in Pending PROVE p \in Persisted'
  <2>1. PICK i \in 1..n : batch[i] = p
    BY <1>1
  <2>2. Len(times) + i \in DOMAIN times' /\ times'[Len(times) + i] = Row(p)
    BY <1>1, <2>1
  <2> QED  BY <2>2 DEF Persisted, Rows, Row
<1> QED  BY <1>2, <1>3, <1>4

LEMMA InitOnce == Init => PersistedExactlyOnce
BY DEF Init, PersistedExactlyOnce, Pending, Persisted, Rows

LEMMA NextOnce == Typed /\ PersistedExactlyOnce /\ [Next]_vars => PersistedExactlyOnce'
<1> SUFFICES ASSUME Typed, PersistedExactlyOnce, [Next]_vars PROVE PersistedExactlyOnce'
  OBVIOUS
<1> USE DEF tables, memory, loopVars, timerVars, history
\* Steps that move neither packets nor the timer in or out of its last phase.
<1>1. ASSUME UNCHANGED <<times, packetsAMO, packetsALO, recorded>>,
             timerPc' # "clear", timerPc # "clear" \/ timerPc' = timerPc
      PROVE  PersistedExactlyOnce'
  BY <1>1 DEF PersistedExactlyOnce, Pending, Persisted, Rows
<1>2. ASSUME UNCHANGED <<times, packetsAMO, packetsALO, recorded, timerPc>>
      PROVE  PersistedExactlyOnce'
  BY <1>2 DEF PersistedExactlyOnce, Pending, Persisted, Rows
<1>3. ASSUME NEW near \in BOOLEAN, Record(near) PROVE PersistedExactlyOnce'
  <2> DEFINE e == ep[inHand.conn]
             p == [no |-> recorded + 1, qos |-> inHand.qos,
                   msgId |-> inHand.msgId, from |-> e.devId]
  <2>1. CASE e.prev /\ near
    <3>1. /\ packetsAMO' = IF p.qos = 0 THEN packetsAMO \cup {p} ELSE packetsAMO
          /\ packetsALO' = IF p.qos = 1 THEN packetsALO \cup {p} ELSE packetsALO
          /\ recorded' = recorded + 1 /\ recorded \in Nat
          /\ UNCHANGED <<times, timerPc>> /\ timerPc # "clear"
      BY <2>1, <1>3 DEF Record, LockFree, Typed, TypeOK
    <3>2. p.qos \in {0, 1} /\ p.no = recorded + 1
      BY <1>3 DEF Record, Typed, TypeOK, Publish
    <3> HIDE DEF p
    <3>3. Pending' = Pending \cup {p} /\ Persisted' = Persisted
      BY <3>1, <3>2 DEF Pending, Persisted, Rows
    <3>4. \A q \in Pending \cup Persisted : q.no \in 1..recorded
      BY DEF PersistedExactlyOnce
    <3>5. \A n \in 1..recorded' : n \in 1..recorded \/ n = recorded + 1
      BY <3>1
    <3>6. \A n \in 1..recorded' : \E q \in (Pending \cup Persisted)' : q.no = n
      BY <3>2, <3>3, <3>5 DEF PersistedExactlyOnce
    <3>7. \A q \in (Pending \cup Persisted)' : q.no \in 1..recorded'
      BY <3>1, <3>2, <3>3, <3>4
    <3>8. \A q, r \in (Pending \cup Persisted)' : q.no = r.no => q = r
      BY <3>1, <3>2, <3>3, <3>4 DEF PersistedExactlyOnce
    <3>9. (Pending \cap Persisted)' = {}
      BY <3>1, <3>2, <3>3, <3>4 DEF PersistedExactlyOnce
    <3> QED  BY <3>1, <3>2, <3>6, <3>7, <3>8, <3>9 DEF PersistedExactlyOnce
  <2>2. CASE ~(e.prev /\ near)
    BY <2>2, <1>2, <1>3 DEF Record
  <2> QED  BY <2>1, <2>2
<1>4. CASE CommitFlush
  <2>1. PICK batch \in SortedBatches(Pending) :
           LET n == Cardinality(Pending)
           IN  /\ n \in Nat /\ Len(times) \in Nat
               /\ DOMAIN times = 1..Len(times)
               /\ DOMAIN times' = 1..(Len(times) + n)
               /\ \A r \in 1..Len(times) : times'[r] = times[r]
               /\ \A i \in 1..n : times'[Len(times) + i] = Row(batch[i]) /\ batch[i] \in Pending
               /\ \A p \in Pending : \E i \in 1..n : batch[i] = p
               /\ \A i, j \in 1..n : batch[i] = batch[j] => i = j
    BY <1>4, CommitRows
  <2> DEFINE n == Cardinality(Pending)
  <2>2. /\ Persisted' = Persisted \cup Pending /\ Pending' = Pending
        /\ UNCHANGED <<packetsAMO, packetsALO, recorded>>
        /\ timerPc # "clear" /\ timerPc' = "clear"
    BY <1>4, CommitPersists DEF CommitFlush, Pending
  <2>3. ASSUME NEW r \in DOMAIN times', NEW s \in DOMAIN times',
               times'[r].packet = times'[s].packet
        PROVE  r = s
    <3>1. ASSUME NEW t \in DOMAIN times'
          PROVE  \/ /\ t \in DOMAIN times /\ times'[t] = times[t]
                    /\ times[t].packet \in Persisted
                 \/ /\ t - Len(times) \in 1..n /\ t = Len(times) + (t - Len(times))
                    /\ times'[t].packet = batch[t - Len(times)]
                    /\ times'[t].packet \in Pending
      <4>1. CASE t <= Len(times)
        BY <2>1, <4>1 DEF Persisted, Rows
      <4>2. CASE t > Len(times)
        <5>1. t - Len(times) \in 1..n /\ t = Len(times) + (t - Len(times))
          BY <2>1, <4>2
        <5> DEFINE i == t - Len(times)
        <5>2. /\ times'[Len(times) + i] = Row(batch[i]) /\ t = Len(times) + i
              /\ batch[i] \in Pending
          BY <2>1, <5>1
        <5>3. times'[t] = Row(batch[i])
          BY <5>2
        <5> QED  BY <5>1, <5>2, <5>3 DEF Row
      <4> QED  BY <2>1, <4>1, <4>2
    <3>2. Pending \cap Persisted = {}
      BY <2>2 DEF PersistedExactlyOnce
    <3>3. CASE r \in DOMAIN times /\ times'[r] = times[r] /\ times[r].packet \in Persisted
      BY <3>1, <3>2, <3>3, <2>3 DEF PersistedExactlyOnce
    <3>4. CASE /\ r - Len(times) \in 1..n /\ r = Len(times) + (r - Len(times))
               /\ times'[r].packet = batch[r - Len(times)]
               /\ times'[r].packet \in Pending
      <4>1. /\ s - Len(times) \in 1..n /\ s = Len(times) + (s - Len(times))
            /\ times'[s].packet = batch[s - Len(times)]
        BY <3>1, <3>2, <3>4, <2>3
      <4>2. r - Len(times) = s - Len(times)
        BY <2>1, <2>3, <3>4, <4>1
      <4> QED  BY <3>4, <4>1, <4>2
    <3> QED  BY <3>1, <3>3, <3>4
  <2>4. \A r, s \in DOMAIN times' : times'[r].packet = times'[s].packet => r = s
    BY <2>3
  <2> QED  BY <2>2, <2>4 DEF PersistedExactlyOnce
<1>5. CASE ClearFlushed
  <2>1. /\ Pending' = {} /\ Persisted' = Persisted /\ Pending \subseteq Persisted
        /\ packetsAMO' = {} /\ packetsALO' = {} /\ timerPc' = "asleep"
        /\ UNCHANGED <<times, recorded>>
    BY <1>5 DEF ClearFlushed, Pending, Persisted, Rows, PersistedExactlyOnce
  <2> QED  BY <2>1 DEF PersistedExactlyOnce
<1>6. ASSUME NEW c \in Conns, NEW name \in Names, Accept(c, name) PROVE PersistedExactlyOnce'
  BY <1>2, <1>6 DEF Accept
<1>7. ASSUME NEW c \in Conns, Refuse(c) \/ Disconnect(c) \/ ReceiveQoS0(c)
      PROVE PersistedExactlyOnce'
  BY <1>2, <1>7 DEF Refuse, Disconnect, ReceiveQoS0
<1>8. ASSUME NEW c \in Conns, NEW id \in MsgIds, ReceiveQoS1(c, id)
      PROVE PersistedExactlyOnce'
  BY <1>2, <1>8 DEF ReceiveQoS1
<1>9. CASE CountPuback
  BY <1>2, <1>9 DEF CountPuback
<1>10. CASE StartFlush \/ CrashOnEmpty \/ ReadPubackSent
  BY <1>1, <1>10 DEF StartFlush, CrashOnEmpty, ReadPubackSent
<1>11. CASE AbortFlush
  BY <1>1, <1>11 DEF AbortFlush
<1>12. CASE UNCHANGED vars
  BY <1>2, <1>12 DEF vars
<1> QED
  BY <1>3, <1>4, <1>5, <1>6, <1>7, <1>8, <1>9, <1>10, <1>11, <1>12
  DEF Next, EventLoop, Timer

\* No recorded packet is lost and none is written twice, whatever the threads'
\* interleaving and however often a transaction fails.
THEOREM ExactlyOnce == Spec => []PersistedExactlyOnce
<1>1. Init => Typed /\ PersistedExactlyOnce
  BY InitTyped, InitOnce
<1>2. Typed /\ PersistedExactlyOnce /\ [Next]_vars => (Typed /\ PersistedExactlyOnce)'
  BY NextTyped, NextOnce
<1> QED  BY <1>1, <1>2, PTL DEF Spec

-----------------------------------------------------------------------------
(* Devices and connections.                                                 *)

\* A device id in use names a row: an open connection has one, and only an open
\* connection has a packet in hand.
InUse ==
  /\ \A c \in Conns : ep[c].st = "open" => ep[c].devId # NoDev
  /\ loopPc # "idle" => ep[inHand.conn].st = "open"

Devices == OneRowPerIp /\ EndpointOnItsRow /\ InUse

-----------------------------------------------------------------------------
(* Table Devices.                                                           *)

\* No row is removed or moves to another address.
RowsKept ==
  \A d \in DOMAIN devices : d \in DOMAIN devices' /\ devices'[d].ip = devices[d].ip

LEMMA DeviceRows ==
  ASSUME Typed
  PROVE  Len(devices) \in Nat /\ DOMAIN devices = 1..Len(devices)
BY LenProperties DEF Typed, TypeOK

\* What accepting a connection does: it leaves the rows where they are, gives
\* the connection one of its own address, and adds one only if there was none.
LEMMA AcceptRows ==
  ASSUME Typed, NEW c \in Conns, NEW name \in Names, Accept(c, name)
  PROVE  \E d \in DOMAIN devices' :
           /\ devices'[d].ip = IpOf[c]
           /\ ep' = [ep EXCEPT ![c] = Opened(d)]
           /\ d # NoDev
           /\ RowsKept
           /\ \/ DOMAIN devices' = DOMAIN devices
              \/ /\ DOMAIN devices' = DOMAIN devices \cup {d}
                 /\ \A e \in DOMAIN devices : devices[e].ip # IpOf[c]
<1>1. Len(devices) \in Nat /\ DOMAIN devices = 1..Len(devices)
  BY DeviceRows
<1>2. CASE RowsOf(IpOf[c]) = {} /\ ep' = [ep EXCEPT ![c] = Opened(Len(devices) + 1)]
           /\ devices' = Append(devices, [name |-> name, ip |-> IpOf[c]])
  <2> DEFINE d == Len(devices) + 1
             row == [name |-> name, ip |-> IpOf[c]]
  <2>1. row \in [name : Names, ip : Ips] /\ devices \in Seq([name : Names, ip : Ips])
    BY ConnAssumption DEF Typed, TypeOK
  <2>2. /\ Append(devices, row) \in Seq([name : Names, ip : Ips])
        /\ Len(Append(devices, row)) = Len(devices) + 1
        /\ \A i \in 1..Len(devices) : Append(devices, row)[i] = devices[i]
        /\ Append(devices, row)[Len(devices) + 1] = row
    <3> HIDE DEF row
    <3> QED  BY <2>1, AppendProperties
  <2>3. DOMAIN devices' = 1..d /\ 1..d = (1..Len(devices)) \cup {d}
    BY <1>1, <1>2, <2>2, LenProperties
  <2>4. devices'[d].ip = IpOf[c] /\ d # NoDev /\ d \in DOMAIN devices'
    BY <1>1, <1>2, <2>2, <2>3 DEF NoDev
  <2>5. RowsKept
    BY <1>1, <1>2, <2>2, <2>3 DEF RowsKept
  <2>6. \A e \in DOMAIN devices : devices[e].ip # IpOf[c]
    BY <1>2 DEF RowsOf
  <2> QED  BY <1>1, <1>2, <2>3, <2>4, <2>5, <2>6
<1>3. ASSUME NEW d \in RowsOf(IpOf[c]), ep' = [ep EXCEPT ![c] = Opened(d)],
             devices' = [e \in DOMAIN devices |->
                           IF e \in RowsOf(IpOf[c])
                           THEN [name |-> name, ip |-> devices[e].ip]
                           ELSE devices[e]]
      PROVE  /\ d \in DOMAIN devices' /\ devices'[d].ip = IpOf[c] /\ d # NoDev
             /\ RowsKept /\ DOMAIN devices' = DOMAIN devices
  BY <1>1, <1>3 DEF RowsOf, RowsKept, NoDev
<1> QED  BY <1>2, <1>3 DEF Accept

LEMMA InitDevices == Init => Devices
<1> SUFFICES ASSUME Init PROVE Devices
  OBVIOUS
<1>1. DOMAIN devices = {}
  BY DEF Init
<1> QED  BY <1>1 DEF Init, Devices, OneRowPerIp, EndpointOnItsRow, InUse, NoConn, NoDev

\* Only Accept touches the table.
LEMMA NextRows == Typed /\ [Next]_vars => RowsKept
<1> SUFFICES ASSUME Typed, [Next]_vars PROVE RowsKept
  OBVIOUS
<1>1. ASSUME NEW c \in Conns, NEW name \in Names, Accept(c, name) PROVE RowsKept
  BY <1>1, AcceptRows
<1>2. CASE UNCHANGED devices
  BY <1>2 DEF RowsKept
<1> QED
  BY <1>1, <1>2 DEF Next, EventLoop, Timer, Refuse, Disconnect, ReceiveQoS0, ReceiveQoS1,
     CountPuback, Record, StartFlush, CrashOnEmpty, ReadPubackSent, CommitFlush,
     AbortFlush, ClearFlushed, vars, tables

LEMMA NextDevices == Typed /\ Devices /\ [Next]_vars => Devices'
<1> SUFFICES ASSUME Typed, Devices, [Next]_vars PROVE Devices'
  OBVIOUS
<1> USE DEF tables, memory, loopVars, timerVars, history
<1>0. ep \in [Conns -> [st : {"new", "open", "closed"}, devId : Nat, prev : BOOLEAN]]
  BY DEF Typed, TypeOK
<1>1. ASSUME NEW c \in Conns, NEW name \in Names, Accept(c, name) PROVE Devices'
  <2>1. PICK d \in DOMAIN devices' :
           /\ devices'[d].ip = IpOf[c]
           /\ ep' = [ep EXCEPT ![c] = Opened(d)]
           /\ d # NoDev
           /\ RowsKept
           /\ \/ DOMAIN devices' = DOMAIN devices
              \/ /\ DOMAIN devices' = DOMAIN devices \cup {d}
                 /\ \A e \in DOMAIN devices : devices[e].ip # IpOf[c]
    BY <1>1, AcceptRows
  <2>2. OneRowPerIp'
    BY <2>1 DEF OneRowPerIp, Devices, RowsKept
  <2>3. EndpointOnItsRow'
    BY <1>0, <2>1 DEF EndpointOnItsRow, Devices, RowsKept, Opened
  <2>4. InUse'
    BY <1>0, <1>1, <2>1 DEF InUse, Devices, Opened, Accept
  <2> QED  BY <2>2, <2>3, <2>4 DEF Devices
<1>2. ASSUME NEW c \in Conns, Refuse(c) \/ Disconnect(c) PROVE Devices'
  <2>1. /\ UNCHANGED <<devices, loopPc>> /\ loopPc = "idle"
        /\ ep' = [ep EXCEPT ![c].st = "closed"]
    BY <1>2 DEF Refuse, Disconnect
  <2> QED  BY <1>0, <2>1 DEF Devices, OneRowPerIp, EndpointOnItsRow, InUse
\* The other steps leave the table alone, and of a connection only prev changes.
<1>3. ASSUME UNCHANGED devices, InUse',
             \A c \in Conns : ep'[c].devId = ep[c].devId
      PROVE  Devices'
  BY <1>3 DEF Devices, OneRowPerIp, EndpointOnItsRow
<1>4. ASSUME NEW c \in Conns, ReceiveQoS0(c) PROVE Devices'
  BY <1>3, <1>4 DEF ReceiveQoS0, Receiving, Devices, InUse
<1>5. ASSUME NEW c \in Conns, NEW id \in MsgIds, ReceiveQoS1(c, id) PROVE Devices'
  BY <1>3, <1>5 DEF ReceiveQoS1, Receiving, Devices, InUse
<1>6. CASE CountPuback
  BY <1>3, <1>6 DEF CountPuback, Devices, InUse
<1>7. ASSUME NEW near \in BOOLEAN, Record(near) PROVE Devices'
  <2>1. /\ ep' = [ep EXCEPT ![inHand.conn].prev = TRUE]
        /\ loopPc' = "idle" /\ UNCHANGED devices
    BY <1>7 DEF Record
  <2>2. \A c \in Conns : ep'[c].devId = ep[c].devId /\ ep'[c].st = ep[c].st
    BY <1>0, <2>1
  <2>3. InUse'
    BY <2>1, <2>2 DEF InUse, Devices
  <2> QED  BY <1>3, <2>1, <2>2, <2>3
<1>8. CASE UNCHANGED <<devices, ep, loopPc, inHand>>
  BY <1>3, <1>8 DEF Devices, InUse
<1>9. CASE Timer \/ UNCHANGED vars
  <2>1. UNCHANGED <<devices, ep, loopPc, inHand>>
    BY <1>9 DEF Timer, StartFlush, CrashOnEmpty, ReadPubackSent, CommitFlush,
       AbortFlush, ClearFlushed, vars
  <2> QED  BY <1>8, <2>1
<1> QED
  BY <1>1, <1>2, <1>4, <1>5, <1>6, <1>7, <1>9 DEF Next, EventLoop

LEMMA DevicesAlways == Spec => [](Typed /\ Devices)
<1>1. Init => Typed /\ Devices
  BY InitTyped, InitDevices
<1>2. Typed /\ Devices /\ [Next]_vars => (Typed /\ Devices)'
  BY NextTyped, NextDevices
<1> QED  BY <1>1, <1>2, PTL DEF Spec

\* endpointHandler's UPDATE, INSERT and SELECT (lines 77-90) leave an address
\* with one row, in whatever order clients connect and rename themselves.
THEOREM OneRow == Spec => []OneRowPerIp
<1>1. Devices => OneRowPerIp
  BY DEF Devices
<1> QED  BY <1>1, DevicesAlways, PTL

\* Every connection writes under the id of the row of its own address, also one
\* that outlives later renamings of that row (lines 77-90).
THEOREM OnItsRow == Spec => []EndpointOnItsRow
<1>1. Devices => EndpointOnItsRow
  BY DEF Devices
<1> QED  BY <1>1, DevicesAlways, PTL


-----------------------------------------------------------------------------
(* The device of a message id.                                              *)

\* Rows a step adds to table Times: only a commit adds some, one for each
\* pending packet, under the device the map then gives for its message id.
LEMMA CommitAddsRows ==
  ASSUME Typed, CommitFlush
  PROVE  \A row \in Rows' : row \in Rows \/ \E p \in Pending : row = Row(p)
<1>1. PICK batch \in SortedBatches(Pending) :
         LET n == Cardinality(Pending)
         IN  /\ n \in Nat /\ Len(times) \in Nat
             /\ DOMAIN times = 1..Len(times)
             /\ DOMAIN times' = 1..(Len(times) + n)
             /\ \A r \in 1..Len(times) : times'[r] = times[r]
             /\ \A i \in 1..n : times'[Len(times) + i] = Row(batch[i]) /\ batch[i] \in Pending
             /\ \A p \in Pending : \E i \in 1..n : batch[i] = p
             /\ \A i, j \in 1..n : batch[i] = batch[j] => i = j
  BY CommitRows
<1> DEFINE n == Cardinality(Pending)
<1>2. ASSUME NEW r \in DOMAIN times'
      PROVE  times'[r] \in Rows \/ \E p \in Pending : times'[r] = Row(p)
  <2>1. CASE r <= Len(times)
    BY <1>1, <2>1 DEF Rows
  <2>2. CASE r > Len(times)
    <3> DEFINE i == r - Len(times)
    <3>1. i \in 1..n /\ r = Len(times) + i
      BY <1>1, <2>2
    <3>2. times'[Len(times) + i] = Row(batch[i]) /\ batch[i] \in Pending
      BY <1>1, <3>1
    <3> QED  BY <3>1, <3>2
  <2> QED  BY <1>1, <2>1, <2>2
<1> QED  BY <1>2 DEF Rows

\* What recording a packet does, with the packet it records.
LEMMA RecordFacts ==
  ASSUME Typed, NEW near \in BOOLEAN, Record(near)
  PROVE  LET e == ep[inHand.conn]
             p == [no |-> recorded + 1, qos |-> inHand.qos,
                   msgId |-> inHand.msgId, from |-> e.devId]
         IN  /\ inHand \in Publish /\ p \in Packet
             /\ UNCHANGED <<devices, times, session, timerPc, received>>
             /\ timerPc # "clear"
             /\ ep' = [ep EXCEPT ![inHand.conn].prev = TRUE]
             /\ loopPc = "record" /\ loopPc' = "idle"
             /\ \/ /\ e.prev
                   /\ Pending' = Pending \cup {p}
                   /\ mesToDevIdMap' = [mesToDevIdMap EXCEPT ![p.msgId] = p.from]
                   /\ recorded' = recorded + 1
                \/ /\ UNCHANGED <<packetsAMO, packetsALO, mesToDevIdMap, recorded>>
                   /\ Pending' = Pending
<1> DEFINE e == ep[inHand.conn]
           p == [no |-> recorded + 1, qos |-> inHand.qos,
                 msgId |-> inHand.msgId, from |-> e.devId]
<1>1. inHand \in Publish /\ p \in Packet /\ p.qos \in {0, 1} /\ p.from = e.devId
  BY DEF Record, Typed, TypeOK, Publish, Packet
<1>2. /\ UNCHANGED <<devices, times, session, timerPc, received>>
      /\ timerPc # "clear"
      /\ ep' = [ep EXCEPT ![inHand.conn].prev = TRUE]
      /\ loopPc = "record" /\ loopPc' = "idle"
  BY DEF Record, LockFree, tables, timerVars
<1>3. CASE e.prev /\ near
  <2>1. /\ packetsAMO' = IF p.qos = 0 THEN packetsAMO \cup {p} ELSE packetsAMO
        /\ packetsALO' = IF p.qos = 1 THEN packetsALO \cup {p} ELSE packetsALO
        /\ mesToDevIdMap' = Remember(p.msgId, e.devId)
        /\ recorded' = recorded + 1
    BY <1>3 DEF Record
  <2>2. mesToDevIdMap' = [mesToDevIdMap EXCEPT ![p.msgId] = p.from]
    BY <1>1, <2>1 DEF Remember
  <2> HIDE DEF p
  <2>3. Pending' = Pending \cup {p}
    BY <1>1, <2>1 DEF Pending
  <2> QED  BY <1>1, <1>2, <1>3, <2>1, <2>2, <2>3 DEF p
<1>4. CASE ~(e.prev /\ near)
  <2>1. UNCHANGED <<packetsAMO, packetsALO, mesToDevIdMap, recorded>>
    BY <1>4 DEF Record, memory
  <2> QED  BY <1>1, <1>2, <2>1 DEF Pending
<1> QED  BY <1>3, <1>4

\* Steps that change neither the lists and the map nor the rows of table Times.
Idle == UNCHANGED <<times, packetsAMO, packetsALO, mesToDevIdMap>>

LEMMA OnlyThreeWrite ==
  ASSUME [Next]_vars
  PROVE  \/ \E near \in BOOLEAN : Record(near)
         \/ CommitFlush
         \/ ClearFlushed
         \/ Idle
<1>1. ASSUME NEW c \in Conns, NEW name \in Names, Accept(c, name) PROVE Idle
  BY <1>1 DEF Accept, Idle, memory
<1>2. ASSUME NEW c \in Conns, Refuse(c) \/ Disconnect(c) \/ ReceiveQoS0(c) PROVE Idle
  BY <1>2 DEF Refuse, Disconnect, ReceiveQoS0, Idle, memory, tables
<1>3. ASSUME NEW c \in Conns, NEW id \in MsgIds, ReceiveQoS1(c, id) PROVE Idle
  BY <1>3 DEF ReceiveQoS1, Idle, memory, tables
<1>4. CASE CountPuback \/ StartFlush \/ CrashOnEmpty \/ ReadPubackSent \/ AbortFlush
  BY <1>4 DEF CountPuback, StartFlush, CrashOnEmpty, ReadPubackSent, AbortFlush, Idle,
     memory, tables
<1>5. CASE UNCHANGED vars
  BY <1>5 DEF vars, memory, tables, Idle
<1> QED  BY <1>1, <1>2, <1>3, <1>4, <1>5 DEF Next, EventLoop, Timer

LEMMA InitKnown == Init => DeviceOfPendingKnown
BY DEF Init, DeviceOfPendingKnown, Pending, Rows

LEMMA NextKnown ==
  Typed /\ Devices /\ DeviceOfPendingKnown /\ [Next]_vars => DeviceOfPendingKnown'
<1> SUFFICES ASSUME Typed, Devices, DeviceOfPendingKnown, [Next]_vars
             PROVE  DeviceOfPendingKnown'
  OBVIOUS
<1>1. \A d \in DOMAIN devices : d \in DOMAIN devices'
  BY NextRows DEF RowsKept
<1>2. Pending \subseteq Packet /\ mesToDevIdMap \in [Ids -> Nat]
  BY PendingFinite DEF Typed, TypeOK
<1>3. ASSUME NEW near \in BOOLEAN, Record(near) PROVE DeviceOfPendingKnown'
  <2> DEFINE e == ep[inHand.conn]
             p == [no |-> recorded + 1, qos |-> inHand.qos,
                   msgId |-> inHand.msgId, from |-> e.devId]
  <2>1. /\ inHand \in Publish /\ p \in Packet
        /\ UNCHANGED <<devices, times>> /\ loopPc = "record"
        /\ \/ /\ Pending' = Pending \cup {p}
              /\ mesToDevIdMap' = [mesToDevIdMap EXCEPT ![p.msgId] = p.from]
           \/ UNCHANGED mesToDevIdMap /\ Pending' = Pending
    BY <1>3, RecordFacts
  <2>2. p.from \in DOMAIN devices /\ p.msgId \in Ids
    <3>1. inHand.conn \in Conns /\ inHand.msgId \in Ids
      BY <2>1 DEF Publish
    <3>2. e.devId \in DOMAIN devices
      BY <2>1, <3>1 DEF Devices, InUse, EndpointOnItsRow
    <3> QED  BY <3>1, <3>2
  <2> HIDE DEF p
  <2>3. Rows' = Rows
    BY <2>1 DEF Rows
  <2>4. \A q \in Pending' : mesToDevIdMap'[q.msgId] \in DOMAIN devices
    BY <1>2, <2>1, <2>2 DEF DeviceOfPendingKnown, Packet
  <2> QED  BY <2>1, <2>3, <2>4 DEF DeviceOfPendingKnown
<1>4. CASE CommitFlush
  <2>1. Pending' = Pending /\ UNCHANGED <<devices, mesToDevIdMap>>
    BY <1>4 DEF CommitFlush, Pending, memory
  <2>2. \A row \in Rows' : row \in Rows \/ \E p \in Pending : row = Row(p)
    BY <1>4, CommitAddsRows
  <2>3. \A p \in Pending : Row(p).deviceId = mesToDevIdMap[p.msgId]
    BY DEF Row
  <2>4. \A row \in Rows' : row.deviceId \in DOMAIN devices
    BY <2>2, <2>3 DEF DeviceOfPendingKnown
  <2> QED  BY <2>1, <2>4 DEF DeviceOfPendingKnown
<1>5. CASE ClearFlushed
  <2>1. Pending' = {} /\ Rows' = Rows
    BY <1>5 DEF ClearFlushed, Pending, Rows, tables
  <2> QED  BY <1>1, <2>1 DEF DeviceOfPendingKnown
<1>6. CASE Idle
  <2>1. Pending' = Pending /\ Rows' = Rows /\ mesToDevIdMap' = mesToDevIdMap
    BY <1>6 DEF Idle, Pending, Rows
  <2> QED  BY <1>1, <2>1 DEF DeviceOfPendingKnown
<1> QED  BY <1>3, <1>4, <1>5, <1>6, OnlyThreeWrite

\* `devId!!` of the insert (lines 173-176) never throws and its reference to
\* Devices.id never fails, although entries of the map are overwritten and
\* never removed.
THEOREM DeviceKnown == Spec => []DeviceOfPendingKnown
<1>1. Init => Typed /\ Devices /\ DeviceOfPendingKnown
  BY InitTyped, InitDevices, InitKnown
<1>2. Typed /\ Devices /\ DeviceOfPendingKnown /\ [Next]_vars
        => (Typed /\ Devices /\ DeviceOfPendingKnown)'
  BY NextTyped, NextDevices, NextKnown
<1> QED  BY <1>1, <1>2, PTL DEF Spec

LEMMA InitLastSender == Init => LastSenderWins
BY DEF Init, LastSenderWins, Pending, Persisted, Rows

LEMMA NextLastSender ==
  Typed /\ PersistedExactlyOnce /\ LastSenderWins /\ [Next]_vars => LastSenderWins'
<1> SUFFICES ASSUME Typed, PersistedExactlyOnce, LastSenderWins, [Next]_vars
             PROVE  LastSenderWins'
  OBVIOUS
<1> DEFINE All == Pending \cup Persisted
\* No packet appears, and the map and the rows stay as they are.
<1>1. ASSUME All' = All, Persisted' = Persisted, Rows' = Rows, mesToDevIdMap' = mesToDevIdMap
      PROVE  LastSenderWins'
  BY <1>1 DEF LastSenderWins
<1>2. ASSUME NEW near \in BOOLEAN, Record(near) PROVE LastSenderWins'
  <2> DEFINE e == ep[inHand.conn]
             p == [no |-> recorded + 1, qos |-> inHand.qos,
                   msgId |-> inHand.msgId, from |-> e.devId]
  <2>1. /\ p \in Packet /\ UNCHANGED times
        /\ \/ /\ Pending' = Pending \cup {p}
              /\ mesToDevIdMap' = [mesToDevIdMap EXCEPT ![p.msgId] = p.from]
           \/ UNCHANGED mesToDevIdMap /\ Pending' = Pending
    BY <1>2, RecordFacts
  <2>2. Rows' = Rows /\ Persisted' = Persisted
    BY <2>1 DEF Rows, Persisted
  <2>3. CASE UNCHANGED mesToDevIdMap /\ Pending' = Pending
    BY <1>1, <2>2, <2>3
  <2>4. CASE /\ Pending' = Pending \cup {p}
             /\ mesToDevIdMap' = [mesToDevIdMap EXCEPT ![p.msgId] = p.from]
    <3>1. p.no = recorded + 1 /\ recorded \in Nat
      BY DEF Typed, TypeOK
    <3> HIDE DEF p
    <3>2. All' = All \cup {p}
      BY <2>2, <2>4
    <3>3. \A q \in All : p.no > q.no
      BY <3>1 DEF PersistedExactlyOnce
    <3>4. p.msgId \in Ids /\ mesToDevIdMap \in [Ids -> Nat]
      BY <2>1 DEF Packet, Typed, TypeOK
    <3>5. \A q \in All' :
            \/ mesToDevIdMap'[q.msgId] = q.from
            \/ \E r \in All' :
                 r.msgId = q.msgId /\ r.no > q.no /\ r.from = mesToDevIdMap'[q.msgId]
      <4>1. mesToDevIdMap'[p.msgId] = p.from
        BY <2>4, <3>4
      <4>2. ASSUME NEW q \in All, q.msgId = p.msgId
            PROVE  \E r \in All' :
                     r.msgId = q.msgId /\ r.no > q.no /\ r.from = mesToDevIdMap'[q.msgId]
        BY <3>2, <3>3, <4>1, <4>2
      <4>3. ASSUME NEW q \in All, q.msgId # p.msgId
            PROVE  \/ mesToDevIdMap'[q.msgId] = q.from
                   \/ \E r \in All' :
                        r.msgId = q.msgId /\ r.no > q.no /\ r.from = mesToDevIdMap'[q.msgId]
        <5>1. mesToDevIdMap'[q.msgId] = mesToDevIdMap[q.msgId]
          BY <2>4, <3>4, <4>3
        <5> QED  BY <3>2, <5>1 DEF LastSenderWins
      <4> QED  BY <3>2, <4>1, <4>2, <4>3
    <3> QED  BY <2>2, <3>5 DEF LastSenderWins
  <2> QED  BY <2>1, <2>3, <2>4
<1>3. CASE CommitFlush
  <2>1. /\ Pending' = Pending /\ Persisted' = Persisted \cup Pending
        /\ UNCHANGED mesToDevIdMap
    BY <1>3, CommitPersists DEF CommitFlush, Pending, memory
  <2>2. \A row \in Rows' : row \in Rows \/ \E p \in Pending : row = Row(p)
    BY <1>3, CommitAddsRows
  <2>3. \A p \in Pending : Row(p).deviceId = mesToDevIdMap[p.msgId] /\ Row(p).packet = p
    BY DEF Row
  <2>4. ASSUME NEW row \in Rows'
        PROVE  \/ row.deviceId = row.packet.from
               \/ \E q \in Persisted' : /\ q.msgId = row.packet.msgId /\ q.no > row.packet.no
                                        /\ q.from = row.deviceId
    <3>1. CASE row \in Rows
      BY <2>1, <3>1 DEF LastSenderWins
    <3>2. ASSUME NEW p \in Pending, row = Row(p)
          PROVE  \/ row.deviceId = row.packet.from
                 \/ \E q \in Persisted' : /\ q.msgId = row.packet.msgId /\ q.no > row.packet.no
                                          /\ q.from = row.deviceId
      <4>1. \/ mesToDevIdMap[p.msgId] = p.from
            \/ \E q \in All : q.msgId = p.msgId /\ q.no > p.no /\ q.from = mesToDevIdMap[p.msgId]
        BY DEF LastSenderWins
      <4>2. row.deviceId = mesToDevIdMap[p.msgId] /\ row.packet = p
        BY <2>3, <3>2
      <4> QED  BY <2>1, <4>1, <4>2
    <3> QED  BY <2>2, <3>1, <3>2
  <2>5. All' = All
    BY <2>1
  <2> QED  BY <2>1, <2>4, <2>5 DEF LastSenderWins
<1>4. CASE ClearFlushed
  <2>1. /\ Pending' = {} /\ Persisted' = Persisted /\ Rows' = Rows
        /\ Pending \subseteq Persisted /\ UNCHANGED mesToDevIdMap
    BY <1>4 DEF ClearFlushed, Pending, Persisted, Rows, PersistedExactlyOnce, tables
  <2> QED  BY <1>1, <2>1
<1>5. CASE Idle
  BY <1>1, <1>5 DEF Idle, Pending, Persisted, Rows
<1> QED  BY <1>2, <1>3, <1>4, <1>5, OnlyThreeWrite

\* A row of table Times names another device than the sender of its packet
\* (lines 108-112 and 173) only if that device used the message id later.
THEOREM LastSender == Spec => []LastSenderWins
<1>1. Init => Typed /\ PersistedExactlyOnce /\ LastSenderWins
  BY InitTyped, InitOnce, InitLastSender
<1>2. Typed /\ PersistedExactlyOnce /\ LastSenderWins /\ [Next]_vars
        => (Typed /\ PersistedExactlyOnce /\ LastSenderWins)'
  BY NextTyped, NextOnce, NextLastSender
<1> QED  BY <1>1, <1>2, PTL DEF Spec

-----------------------------------------------------------------------------
(* Intervals.                                                               *)

\* The connections whose next packet may give an interval.
Measured == {c \in Conns : ep[c].prev}

\* Each packet received is the first of its connection, or gave at most one
\* interval, or is still in the event loop's hand.
InHand == IF loopPc = "idle" THEN 0 ELSE 1
Counted ==
  /\ IsFiniteSet(Measured)
  /\ recorded + Cardinality(Measured) + InHand <= received

LEMMA InitCounted == Init => Counted
<1> SUFFICES ASSUME Init PROVE Counted
  OBVIOUS
<1>1. Measured = {}
  BY DEF Init, Measured, NoConn
<1> QED  BY <1>1, FS_EmptySet DEF Init, Counted, InHand

LEMMA NextCounted == Typed /\ Counted /\ [Next]_vars => Counted'
<1> SUFFICES ASSUME Typed, Counted, [Next]_vars PROVE Counted'
  OBVIOUS
<1> USE DEF tables, memory, loopVars, timerVars, history
<1>1. /\ ep \in [Conns -> [st : {"new", "open", "closed"}, devId : Nat, prev : BOOLEAN]]
      /\ recorded \in Nat /\ received \in Nat
      /\ IsFiniteSet(Measured) /\ Cardinality(Measured) \in Nat
  BY FS_CardinalityType DEF Typed, TypeOK, Counted
\* Accepting a connection makes it start afresh; closing one changes nothing.
<1>2. ASSUME Measured' \subseteq Measured, UNCHANGED <<recorded, received, loopPc>>
      PROVE  Counted'
  <2>1. IsFiniteSet(Measured') /\ Cardinality(Measured') <= Cardinality(Measured)
    BY <1>1, <1>2, FS_Subset
  <2>2. Cardinality(Measured') \in Nat
    BY <2>1, FS_CardinalityType
  <2> QED  BY <1>1, <1>2, <2>1, <2>2 DEF Counted, InHand
<1>3. ASSUME NEW c \in Conns, NEW name \in Names, Accept(c, name) PROVE Counted'
  <2>1. PICK d : ep' = [ep EXCEPT ![c] = Opened(d)]
    BY <1>3 DEF Accept
  <2>2. Measured' \subseteq Measured
    BY <1>1, <2>1 DEF Measured, Opened
  <2> QED  BY <1>2, <1>3, <2>2 DEF Accept
<1>4. ASSUME NEW c \in Conns, Refuse(c) \/ Disconnect(c) PROVE Counted'
  <2>1. ep' = [ep EXCEPT ![c].st = "closed"]
    BY <1>4 DEF Refuse, Disconnect
  <2>2. Measured' \subseteq Measured
    BY <1>1, <2>1 DEF Measured
  <2> QED  BY <1>2, <1>4, <2>2 DEF Refuse, Disconnect
\* A packet is taken off the wire when none is in hand.
<1>5. ASSUME NEW c \in Conns, ReceiveQoS0(c) \/ \E id \in MsgIds : ReceiveQoS1(c, id)
      PROVE  Counted'
  <2>1. /\ loopPc = "idle" /\ loopPc' # "idle" /\ received' = received + 1
        /\ UNCHANGED <<ep, recorded>>
    BY <1>5 DEF ReceiveQoS0, ReceiveQoS1, Receiving
  <2>2. Measured' = Measured
    BY <2>1 DEF Measured
  <2> QED  BY <1>1, <2>1, <2>2 DEF Counted, InHand
<1>6. CASE CountPuback
  <2>1. Measured' = Measured
    BY <1>6 DEF CountPuback, Measured
  <2> QED  BY <1>1, <1>6, <2>1 DEF CountPuback, Counted, InHand
<1>7. ASSUME NEW near \in BOOLEAN, Record(near) PROVE Counted'
  <2> DEFINE e == ep[inHand.conn]
  <2>1. /\ inHand.conn \in Conns /\ received' = received
        /\ ep' = [ep EXCEPT ![inHand.conn].prev = TRUE]
        /\ loopPc = "record" /\ loopPc' = "idle"
        /\ (e.prev /\ recorded' = recorded + 1) \/ recorded' = recorded
    BY <1>7, RecordFacts DEF Publish
  <2>2. Measured' = Measured \cup {inHand.conn}
    BY <1>1, <2>1 DEF Measured
  <2>3. /\ IsFiniteSet(Measured')
        /\ Cardinality(Measured') =
             IF inHand.conn \in Measured THEN Cardinality(Measured) ELSE Cardinality(Measured) + 1
    BY <1>1, <2>2, FS_AddElement
  <2>4. e.prev => inHand.conn \in Measured
    BY <2>1 DEF Measured
  <2> HIDE DEF e
  <2> QED  BY <1>1, <2>1, <2>3, <2>4 DEF Counted, InHand
<1>8. CASE Timer \/ UNCHANGED vars
  <2>1. UNCHANGED <<ep, recorded, received, loopPc>>
    BY <1>8 DEF Timer, StartFlush, CrashOnEmpty, ReadPubackSent, CommitFlush,
       AbortFlush, ClearFlushed, vars
  <2> QED  BY <1>2, <2>1 DEF Measured
<1> QED
  BY <1>3, <1>4, <1>5, <1>6, <1>7, <1>8 DEF Next, EventLoop

\* The first packet of a connection gives no interval and every other at most
\* one (lines 97, 105 and 122), for connections without number.
THEOREM IntervalOfConnection == Spec => []IntervalWithinConnection
<1>1. Init => Typed /\ Counted
  BY InitTyped, InitCounted
<1>2. Typed /\ Counted /\ [Next]_vars => (Typed /\ Counted)'
  BY NextTyped, NextCounted
<1>3. Typed /\ Counted => IntervalWithinConnection
  <2> SUFFICES ASSUME Typed, Counted PROVE IntervalWithinConnection
    OBVIOUS
  <2>1. Cardinality(Measured) \in Nat /\ recorded \in Nat /\ received \in Nat
    BY FS_CardinalityType DEF Counted, Typed, TypeOK
  <2> QED  BY <2>1 DEF Counted, InHand, Measured, IntervalWithinConnection
<1> QED  BY <1>1, <1>2, <1>3, PTL DEF Spec

-----------------------------------------------------------------------------
(* Counting.                                                                *)

LEMMA SameSize ==
  ASSUME NEW S, NEW T, IsFiniteSet(S), NEW f \in [S -> T],
         \A a, b \in S : f[a] = f[b] => a = b,
         \A t \in T : \E s \in S : f[s] = t
  PROVE  IsFiniteSet(T) /\ Cardinality(T) = Cardinality(S)
<1>1. f \in Bijection(S, T)
  BY Fun_IsBij
<1>2. ExistsBijection(S, T)
  BY <1>1, Fun_ExistsBij
<1> QED  BY <1>2, FS_Bijection

\* The rows of table Times, and the pending packets, of a quality of service.
TimesOfQoS(q) == {r \in DOMAIN times : times[r].packet.qos = q}
PendingOfQoS(q) == {p \in Pending : p.qos = q}

LEMMA RowsFinite ==
  ASSUME Typed, NEW q
  PROVE  /\ IsFiniteSet(TimesOfQoS(q)) /\ Cardinality(TimesOfQoS(q)) \in Nat
         /\ IsFiniteSet(PendingOfQoS(q)) /\ Cardinality(PendingOfQoS(q)) \in Nat
<1>1. IsFiniteSet(DOMAIN times)
  <2>1. DOMAIN times = 1..Len(times) /\ Len(times) \in Nat
    BY LenProperties DEF Typed, TypeOK
  <2> QED  BY <2>1, FS_Interval
<1>2. TimesOfQoS(q) \in SUBSET DOMAIN times /\ PendingOfQoS(q) \in SUBSET Pending
  BY DEF TimesOfQoS, PendingOfQoS
<1>3. IsFiniteSet(TimesOfQoS(q)) /\ IsFiniteSet(PendingOfQoS(q))
  BY <1>1, <1>2, FS_Subset, PendingFinite
<1> QED  BY <1>3, FS_CardinalityType

\* The lists are the pending packets by their quality of service.
LEMMA ListsByQoS ==
  ASSUME Typed, PersistedExactlyOnce
  PROVE  packetsAMO = PendingOfQoS(0) /\ packetsALO = PendingOfQoS(1)
BY DEF PersistedExactlyOnce, PendingOfQoS, Pending

\* A commit adds one row for each pending packet.
LEMMA CommitAddsAsMany ==
  ASSUME Typed, CommitFlush, NEW q
  PROVE  Cardinality(TimesOfQoS(q)') = Cardinality(TimesOfQoS(q)) + Cardinality(PendingOfQoS(q))
<1>1. PICK batch \in SortedBatches(Pending) :
         LET n == Cardinality(Pending)
         IN  /\ n \in Nat /\ Len(times) \in Nat
             /\ DOMAIN times = 1..Len(times)
             /\ DOMAIN times' = 1..(Len(times) + n)
             /\ \A r \in 1..Len(times) : times'[r] = times[r]
             /\ \A i \in 1..n : times'[Len(times) + i] = Row(batch[i]) /\ batch[i] \in Pending
             /\ \A p \in Pending : \E i \in 1..n : batch[i] = p
             /\ \A i, j \in 1..n : batch[i] = batch[j] => i = j
  BY CommitRows
<1> DEFINE n == Cardinality(Pending)
           l == Len(times)
           New == {i \in 1..n : batch[i].qos = q}
           new == {r \in DOMAIN times' \ DOMAIN times : times'[r].packet.qos = q}
<1>2. IsFiniteSet(New)
  <2>1. New \in SUBSET (1..n) /\ n \in Nat
    BY <1>1
  <2>2. IsFiniteSet(1..n)
    BY <2>1, FS_Interval
  <2> HIDE DEF New, n
  <2> QED  BY <2>1, <2>2, FS_Subset
<1>3. Cardinality(PendingOfQoS(q)) = Cardinality(New)
  <2> DEFINE f == [i \in New |-> batch[i]]
  <2>1. f \in [New -> PendingOfQoS(q)]
    BY <1>1 DEF PendingOfQoS
  <2>2. \A a, b \in New : f[a] = f[b] => a = b
    BY <1>1
  <2>3. \A p \in PendingOfQoS(q) : \E i \in New : f[i] = p
    BY <1>1 DEF PendingOfQoS
  <2> HIDE DEF f, New
  <2> QED  BY <1>2, <2>1, <2>2, <2>3, SameSize
<1>4. IsFiniteSet(new) /\ Cardinality(new) = Cardinality(New)
  <2> DEFINE f == [i \in New |-> l + i]
  <2>1. ASSUME NEW i \in 1..n
        PROVE  /\ l + i \in DOMAIN times' \ DOMAIN times
               /\ times'[l + i].packet.qos = batch[i].qos
    <3>1. l + i \in DOMAIN times' /\ l + i \notin DOMAIN times
      BY <1>1
    <3>2. times'[l + i] = Row(batch[i])
      BY <1>1
    <3> QED  BY <3>1, <3>2 DEF Row
  <2>2. f \in [New -> new]
    BY <2>1
  <2>3. \A a, b \in New : f[a] = f[b] => a = b
    BY <1>1
  <2>4. ASSUME NEW r \in new PROVE \E i \in New : f[i] = r
    <3>1. r \in 1..(l + n) /\ ~(r \in 1..l) /\ times'[r].packet.qos = q
      BY <1>1
    <3>2. r - l \in 1..n /\ l + (r - l) = r
      BY <1>1, <3>1
    <3>3. r - l \in New
      BY <2>1, <3>1, <3>2
    <3> QED  BY <3>2, <3>3
  <2> HIDE DEF f, New, new
  <2> QED  BY <1>2, <2>2, <2>3, <2>4, SameSize
<1>5. TimesOfQoS(q)' = TimesOfQoS(q) \cup new /\ TimesOfQoS(q) \cap new = {}
  <2>1. \A r \in DOMAIN times : r \in DOMAIN times' /\ times'[r] = times[r]
    BY <1>1
  <2> QED  BY <2>1 DEF TimesOfQoS
<1> HIDE DEF new, New
<1>6. Cardinality(TimesOfQoS(q) \cup new) =
        Cardinality(TimesOfQoS(q)) + Cardinality(new) - Cardinality(TimesOfQoS(q) \cap new)
  BY <1>4, RowsFinite, FS_Union
<1>7. Cardinality(TimesOfQoS(q) \cap new) = 0
  BY <1>5, FS_EmptySet
<1> QED  BY <1>3, <1>4, <1>5, <1>6, <1>7, RowsFinite

-----------------------------------------------------------------------------
(* The session's counters.                                                  *)

LEMMA InitCounters == Init => CountersMatchRows
<1> SUFFICES ASSUME Init PROVE CountersMatchRows
  OBVIOUS
<1>1. \A q : {r \in DOMAIN times : times[r].packet.qos = q} = {}
  BY DEF Init
<1> QED  BY <1>1, FS_EmptySet DEF Init, CountersMatchRows

LEMMA NextCounters ==
  Typed /\ PersistedExactlyOnce /\ CountersMatchRows /\ [Next]_vars => CountersMatchRows'
<1> SUFFICES ASSUME Typed, PersistedExactlyOnce, CountersMatchRows, [Next]_vars
             PROVE  CountersMatchRows'
  OBVIOUS
<1>1. /\ session.QOS0Packets = Cardinality(TimesOfQoS(0))
      /\ session.QOS1Packets = Cardinality(TimesOfQoS(1))
  BY DEF CountersMatchRows, TimesOfQoS
<1>2. CASE CommitFlush
  <2>1. session' = Credited
    BY <1>2 DEF CommitFlush
  <2>2. /\ session'.QOS0Packets = session.QOS0Packets + Cardinality(PendingOfQoS(0))
        /\ session'.QOS1Packets = session.QOS1Packets + Cardinality(PendingOfQoS(1))
    BY <2>1, ListsByQoS DEF Credited
  <2>3. /\ session'.QOS0Packets = Cardinality(TimesOfQoS(0)')
        /\ session'.QOS1Packets = Cardinality(TimesOfQoS(1)')
    BY <1>1, <1>2, <2>2, CommitAddsAsMany
  <2> QED  BY <2>3 DEF CountersMatchRows, TimesOfQoS
<1>3. CASE UNCHANGED <<times, session>>
  BY <1>3 DEF CountersMatchRows
<1> QED
  BY <1>2, <1>3 DEF Next, EventLoop, Timer, Accept, Refuse, Disconnect, ReceiveQoS0,
     ReceiveQoS1, CountPuback, Record, StartFlush, CrashOnEmpty, ReadPubackSent,
     AbortFlush, ClearFlushed, vars, tables

\* The counters of table Sessions, kept by increments (lines 178-185), are the
\* numbers of rows of table Times of each quality of service.
THEOREM CountersAreRows == Spec => []CountersMatchRows
<1>1. Init => Typed /\ PersistedExactlyOnce /\ CountersMatchRows
  BY InitTyped, InitOnce, InitCounters
<1>2. Typed /\ PersistedExactlyOnce /\ CountersMatchRows /\ [Next]_vars
        => (Typed /\ PersistedExactlyOnce /\ CountersMatchRows)'
  BY NextTyped, NextOnce, NextCounters
<1> QED  BY <1>1, <1>2, PTL DEF Spec

-----------------------------------------------------------------------------
(* The server implements PacketLog.  Recording a packet is Add, the commit  *)
(* of a transaction is StoreAll, the end of the Timer thread is Stop, and   *)
(* every other step leaves the log as it is.                                *)

\* A transaction that is under way has packets to write.
WorkAtHand == timerPc \in {"read", "commit"} => Pending # {}

LogInv == Typed /\ PersistedExactlyOnce /\ WorkAtHand

\* The log's variables under the mapping.
LogPending == IF timerPc = "clear" THEN {} ELSE Plain(Pending)
LogCredit ==
  [q \in {0, 1} |-> IF q = 0 THEN session.QOS0Packets ELSE session.QOS1Packets]

LEMMA LogInvAlways == Spec => []LogInv
<1>1. Init => LogInv
  BY InitTyped, InitOnce DEF Init, LogInv, WorkAtHand
<1>2. LogInv /\ [Next]_vars => LogInv'
  <2> SUFFICES ASSUME LogInv, [Next]_vars PROVE LogInv'
    OBVIOUS
  <2>1. Typed' /\ PersistedExactlyOnce'
    BY NextTyped, NextOnce DEF LogInv
  <2>2. SUFFICES WorkAtHand'
    BY <2>1 DEF LogInv
  <2> USE DEF tables, memory, loopVars, timerVars, history
  <2>3. CASE UNCHANGED <<packetsAMO, packetsALO, timerPc>>
    BY <2>3 DEF LogInv, WorkAtHand, Pending
  <2>4. ASSUME NEW near \in BOOLEAN, Record(near) PROVE WorkAtHand'
    <3>1. UNCHANGED timerPc /\ (Pending' = Pending \/ \E p : Pending' = Pending \cup {p})
      BY <2>4, RecordFacts DEF LogInv
    <3>2. \A p : Pending \cup {p} # {}
      OBVIOUS
    <3> QED  BY <3>1, <3>2 DEF LogInv, WorkAtHand
  <2>5. CASE CommitFlush \/ ClearFlushed
    BY <2>5 DEF CommitFlush, ClearFlushed, WorkAtHand
  <2>6. CASE StartFlush \/ CrashOnEmpty
    BY <2>6 DEF StartFlush, CrashOnEmpty, WorkAtHand, Pending
  <2>7. CASE AbortFlush \/ ReadPubackSent
    BY <2>7 DEF AbortFlush, ReadPubackSent, LogInv, WorkAtHand, Pending
  <2>8. ASSUME NEW c \in Conns,
               \/ \E name \in Names : Accept(c, name)
               \/ Refuse(c) \/ Disconnect(c) \/ ReceiveQoS0(c)
               \/ \E id \in MsgIds : ReceiveQoS1(c, id)
        PROVE  WorkAtHand'
    BY <2>3, <2>8 DEF Accept, Refuse, Disconnect, ReceiveQoS0, ReceiveQoS1
  <2>9. CASE CountPuback \/ UNCHANGED vars
    BY <2>3, <2>9 DEF CountPuback, vars
  <2> QED
    BY <2>4, <2>5, <2>6, <2>7, <2>8, <2>9 DEF Next, EventLoop, Timer
<1> QED  BY <1>1, <1>2, PTL DEF Spec

\* The log counts as the server does.
LEMMA SameCardinality == \A S : Log!Cardinality(S) = Cardinality(S)
BY DEF Log!Cardinality, Cardinality

\* Serial numbers tell the pending packets apart, so as many are pending in the
\* log as in the server.
LEMMA PlainSameSize ==
  ASSUME LogInv, NEW q \in {0, 1}
  PROVE  Cardinality(Log!OfQoS(q, Plain(Pending))) = Cardinality(PendingOfQoS(q))
<1> DEFINE T == Log!OfQoS(q, Plain(Pending))
           f == [p \in PendingOfQoS(q) |-> [no |-> p.no, qos |-> p.qos]]
<1>1. f \in [PendingOfQoS(q) -> T]
  BY DEF PendingOfQoS, Plain, Log!OfQoS
<1>2. \A a, b \in PendingOfQoS(q) : f[a] = f[b] => a = b
  BY DEF PendingOfQoS, LogInv, PersistedExactlyOnce
<1>3. \A t \in T : \E p \in PendingOfQoS(q) : f[p] = t
  BY DEF PendingOfQoS, Plain, Log!OfQoS
<1>4. IsFiniteSet(PendingOfQoS(q))
  BY RowsFinite DEF LogInv
<1> HIDE DEF T, f
<1> QED  BY <1>1, <1>2, <1>3, <1>4, SameSize DEF T

LEMMA InitLog == Init => Log!LogInit
<1> SUFFICES ASSUME Init PROVE Log!LogInit
  OBVIOUS
<1>1. Pending = {} /\ Persisted = {}
  BY DEF Init, Pending, Persisted, Rows
<1>2. Plain(Pending) = {} /\ Plain(Persisted) = {}
  BY <1>1 DEF Plain
<1> QED  BY <1>2 DEF Init, Log!LogInit, Dead

\* A step of the server is a step of the log or leaves the log as it is.
LEMMA NextLog == LogInv /\ [Next]_vars => [Log!LogNext]_(Log!logVars)
<1> SUFFICES ASSUME LogInv, [Next]_vars PROVE [Log!LogNext]_(Log!logVars)
  OBVIOUS
<1> USE DEF tables, memory, loopVars, timerVars, history
<1>1. ASSUME UNCHANGED <<recorded, times, session>>, LogPending' = LogPending, Dead' = Dead
      PROVE  UNCHANGED Log!logVars
  <2>1. Plain(Persisted)' = Plain(Persisted)
    BY <1>1 DEF Plain, Persisted, Rows
  <2> QED  BY <1>1, <2>1 DEF Log!logVars, LogPending
<1>2. ASSUME UNCHANGED <<recorded, times, session, packetsAMO, packetsALO, timerPc>>
      PROVE  UNCHANGED Log!logVars
  <2>1. LogPending' = LogPending /\ Dead' = Dead
    BY <1>2 DEF LogPending, Plain, Pending, Dead
  <2> QED  BY <1>1, <1>2, <2>1
<1>3. ASSUME NEW near \in BOOLEAN, Record(near) PROVE [Log!LogNext]_(Log!logVars)
  <2> DEFINE e == ep[inHand.conn]
             p == [no |-> recorded + 1, qos |-> inHand.qos,
                   msgId |-> inHand.msgId, from |-> e.devId]
  <2>1. /\ p \in Packet /\ UNCHANGED <<times, session, timerPc>> /\ timerPc # "clear"
        /\ \/ Pending' = Pending \cup {p} /\ recorded' = recorded + 1
           \/ UNCHANGED <<packetsAMO, packetsALO, recorded>>
    BY <1>3, RecordFacts DEF LogInv
  <2>2. CASE UNCHANGED <<packetsAMO, packetsALO, recorded>>
    BY <1>2, <2>1, <2>2
  <2>3. CASE Pending' = Pending \cup {p} /\ recorded' = recorded + 1
    <3>1. p.no = recorded + 1 /\ p.qos \in {0, 1}
      BY <2>1 DEF Packet
    <3> HIDE DEF p
    <3>2. LogPending = Plain(Pending) /\ LogPending' = Plain(Pending)'
      BY <2>1 DEF LogPending
    <3>3. Plain(Pending)' = Plain(Pending) \cup {[no |-> recorded + 1, qos |-> p.qos]}
      BY <2>3, <3>1 DEF Plain
    <3>4. Plain(Persisted)' = Plain(Persisted) /\ Dead' = Dead /\ LogCredit' = LogCredit
      BY <2>1 DEF Plain, Persisted, Rows, Dead, LogCredit
    <3>5. Log!Add(p.qos)
      BY <2>3, <3>1, <3>2, <3>3, <3>4 DEF Log!Add, LogPending, LogCredit
    <3> QED  BY <3>1, <3>5 DEF Log!LogNext
  <2> QED  BY <2>1, <2>2, <2>3
<1>4. CASE CommitFlush
  <2>1. /\ timerPc = "commit" /\ timerPc' = "clear" /\ UNCHANGED recorded
        /\ session' = Credited
        /\ Persisted' = Persisted \cup Pending
    BY <1>4, CommitPersists DEF CommitFlush, LogInv
  <2>2. LogPending = Plain(Pending) /\ LogPending' = {} /\ ~Dead /\ ~Dead'
    BY <2>1 DEF LogPending, Dead
  <2>3. Plain(Pending) # {}
    BY <2>1 DEF LogInv, WorkAtHand, Plain
  <2>4. Plain(Persisted)' = Plain(Persisted) \cup Plain(Pending)
    BY <2>1 DEF Plain
  <2>5. LogCredit' = [q \in {0, 1} |->
                        LogCredit[q] + Cardinality(Log!OfQoS(q, Plain(Pending)))]
    <3>1. /\ session'.QOS0Packets = session.QOS0Packets + Cardinality(PendingOfQoS(0))
          /\ session'.QOS1Packets = session.QOS1Packets + Cardinality(PendingOfQoS(1))
      BY <2>1, ListsByQoS DEF Credited, LogInv
    <3>2. /\ Cardinality(Log!OfQoS(0, Plain(Pending))) = Cardinality(PendingOfQoS(0))
          /\ Cardinality(Log!OfQoS(1, Plain(Pending))) = Cardinality(PendingOfQoS(1))
      BY PlainSameSize
    <3> QED  BY <3>1, <3>2 DEF LogCredit
  <2>6. Log!StoreAll
    BY <2>1, <2>2, <2>3, <2>4, <2>5, SameCardinality DEF Log!StoreAll, LogPending, LogCredit
  <2> QED  BY <2>6 DEF Log!LogNext
<1>5. ASSUME ~Dead, Dead', UNCHANGED <<recorded, times, session, packetsAMO, packetsALO>>,
             timerPc # "clear"
      PROVE  [Log!LogNext]_(Log!logVars)
  <2>1. LogPending' = LogPending
    BY <1>5 DEF LogPending, Dead, Plain, Pending
  <2>2. Plain(Persisted)' = Plain(Persisted) /\ LogCredit' = LogCredit
    BY <1>5 DEF Plain, Persisted, Rows, LogCredit
  <2>3. Log!Stop
    BY <1>5, <2>1, <2>2 DEF Log!Stop, LogPending, LogCredit
  <2> QED  BY <2>3 DEF Log!LogNext
<1>6. CASE CrashOnEmpty
  <2>1. timerPc = "asleep" /\ timerPc' = "crashed"
    BY <1>6 DEF CrashOnEmpty
  <2> QED  BY <1>5, <1>6, <2>1 DEF CrashOnEmpty, Dead
<1>7. CASE AbortFlush
  <2>1. /\ timerPc = "commit" /\ timerPc' \in {"read", "failed"}
        /\ UNCHANGED <<recorded, times, session, packetsAMO, packetsALO>>
    BY <1>7 DEF AbortFlush
  <2>2. CASE timerPc' = "failed"
    BY <1>5, <2>1, <2>2 DEF Dead
  <2>3. CASE timerPc' = "read"
    <3>1. LogPending' = LogPending /\ Dead' = Dead
      BY <2>1, <2>3 DEF LogPending, Dead, Plain, Pending
    <3> QED  BY <1>1, <2>1, <3>1
  <2> QED  BY <2>1, <2>2, <2>3
<1>8. CASE StartFlush \/ ReadPubackSent
  <2>1. /\ timerPc \in {"asleep", "read"} /\ timerPc' \in {"read", "commit"}
        /\ UNCHANGED <<recorded, times, session, packetsAMO, packetsALO>>
    BY <1>8 DEF StartFlush, ReadPubackSent
  <2>2. LogPending' = LogPending /\ Dead' = Dead
    BY <2>1 DEF LogPending, Dead, Plain, Pending
  <2> QED  BY <1>1, <2>1, <2>2
<1>9. CASE ClearFlushed
  <2>1. /\ timerPc = "clear" /\ timerPc' = "asleep" /\ Pending' = {}
        /\ UNCHANGED <<recorded, times, session>>
    BY <1>9 DEF ClearFlushed, Pending
  <2>2. LogPending' = LogPending /\ Dead' = Dead
    BY <2>1 DEF LogPending, Dead, Plain
  <2> QED  BY <1>1, <2>1, <2>2
<1>10. ASSUME NEW c \in Conns,
              \/ \E name \in Names : Accept(c, name)
              \/ Refuse(c) \/ Disconnect(c) \/ ReceiveQoS0(c)
              \/ \E id \in MsgIds : ReceiveQoS1(c, id)
       PROVE  UNCHANGED Log!logVars
  BY <1>2, <1>10 DEF Accept, Refuse, Disconnect, ReceiveQoS0, ReceiveQoS1
<1>11. CASE CountPuback \/ UNCHANGED vars
  BY <1>2, <1>11 DEF CountPuback, vars
<1> QED
  BY <1>3, <1>4, <1>6, <1>7, <1>8, <1>9, <1>10, <1>11 DEF Next, EventLoop, Timer

\* The event loop and the Timer thread together are a write-behind log: packets
\* are added in order, all that are pending are stored and credited at once by
\* the commit (lines 166-187), and the thread's death loses none that is stored.
THEOREM ImplementsLog == Spec => LogSpec
<1>1. LogInv /\ [Next]_vars => [Log!LogNext]_(Log!logVars)
  BY NextLog
<1> QED  BY LogInvAlways, InitLog, <1>1, PTL DEF Spec, LogSpec, Log!LogSpec

-----------------------------------------------------------------------------
(* The monitoring page beside the running server.                           *)

Counters == [QOS0Packets : Nat, QOS1Packets : Nat, packetsSent : Nat]

Request == [st : {"none", "sent", "shown"}, done : 0..2, upto : Nat,
            counters : Counters, base : Nat]

ShownPage == [counters : Counters, charts : [Clients -> SUBSET Nat], upto : Nat, loss : Seq(Int)]

\* The requests whose answer was shown.
Shown == {p \in Polls : reqs[p].st = "shown"}

\* The types of the page's and the requests' variables; the answers refer to
\* rows that exist, and the page has no more points of its loss chart than
\* requests were answered.
MonTyped ==
  /\ asked \in 0..MaxPolls /\ resets \in 0..MaxResets
  /\ mark \in [{0, 1} -> Nat]
  /\ reqs \in [Polls -> Request]
  /\ page \in ShownPage

AnswersReal ==
  /\ \A p \in Polls : reqs[p].upto <= Len(times)
  /\ \A d \in Clients : page.charts[d] \subseteq DOMAIN times

OnePointEach ==
  /\ \A p \in Polls : reqs[p].st # "none" => p <= asked
  /\ Len(page.loss) <= Cardinality(Shown)

ServerInv == Typed /\ PersistedExactlyOnce

MonInv ==
  /\ ServerInv
  /\ MonTyped /\ AnswersReal /\ OnePointEach
  /\ CountersSinceReset /\ TotalsCoverTimes

-----------------------------------------------------------------------------
(* The server's invariants, with resets between its steps.                  *)

LEMMA SameRows == \A q : RowsOfQoS(q) = TimesOfQoS(q)
BY DEF RowsOfQoS, TimesOfQoS

LEMMA NextServerInv == ServerInv /\ [MonNext]_<<vars, monVars>> => ServerInv'
<1> SUFFICES ASSUME ServerInv, [MonNext]_<<vars, monVars>> PROVE ServerInv'
  OBVIOUS
<1>1. CASE [Next]_vars
  BY <1>1, NextTyped, NextOnce DEF ServerInv
<1>2. CASE Reset
  <2> USE <1>2 DEF Reset, memory, loopVars, timerVars, history
  <2>1. Typed'
    BY DEF ServerInv, Typed, TypeOK, Finite, AttemptsLeft, ResetCounters, ZeroCounters
  <2>2. PersistedExactlyOnce'
    BY DEF ServerInv, PersistedExactlyOnce, Pending, Persisted, Rows
  <2> QED  BY <2>1, <2>2 DEF ServerInv
<1> QED
  BY <1>1, <1>2 DEF MonNext, ServerStep, Monitor, Ask, Query, Show

\* Rows are only added.
LEMMA TimesGrow ==
  ASSUME ServerInv, [MonNext]_<<vars, monVars>>
  PROVE  /\ Len(times) \in Nat /\ Len(times') \in Nat /\ Len(times) <= Len(times')
         /\ DOMAIN times = 1..Len(times) /\ DOMAIN times' = 1..Len(times')
<1>1. Typed'
  BY NextServerInv DEF ServerInv
<1>2. /\ Len(times) \in Nat /\ DOMAIN times = 1..Len(times)
      /\ Len(times') \in Nat /\ DOMAIN times' = 1..Len(times')
  BY <1>1, LenProperties DEF ServerInv, Typed, TypeOK
<1>3. CASE CommitFlush
  <2>1. PICK batch \in SortedBatches(Pending) :
         LET n == Cardinality(Pending)
         IN  n \in Nat /\ DOMAIN times' = 1..(Len(times) + n)
    BY <1>3, CommitRows DEF ServerInv
  <2>2. Len(times') = Len(times) + Cardinality(Pending)
    BY <1>2, <2>1, IntervalEnd
  <2> QED  BY <1>2, <2>1, <2>2
<1>4. CASE UNCHANGED times
  BY <1>2, <1>4
<1> QED
  BY <1>3, <1>4 DEF MonNext, ServerStep, Monitor, Ask, Query, Show, Reset, Next, EventLoop,
     Timer, Accept, Refuse, Disconnect, ReceiveQoS0, ReceiveQoS1, CountPuback, Record,
     StartFlush, CrashOnEmpty, ReadPubackSent, AbortFlush, ClearFlushed, vars, tables

-----------------------------------------------------------------------------
(* The counters and the answers.                                            *)

LEMMA InitMonInv == MonInit => MonInv
<1> SUFFICES ASSUME MonInit PROVE MonInv
  OBVIOUS
<1>1. ServerInv
  BY InitTyped, InitOnce DEF MonInit, ServerInv
<1>2. ZeroCounters \in Counters /\ NoRequest \in Request
  BY DEF ZeroCounters, Counters, NoRequest, Request
<1>3. EmptyPage \in ShownPage /\ EmptyPage.loss = <<>> /\ \A d \in Clients : EmptyPage.charts[d] = {}
  BY <1>2 DEF EmptyPage, ShownPage
<1>4. MonTyped
  BY <1>2, <1>3, MonitoringAssumption DEF MonInit, MonTyped
<1>5. times = <<>> /\ Len(times) = 0 /\ DOMAIN times = {}
  BY DEF MonInit, Init
<1>6. AnswersReal
  BY <1>3, <1>5 DEF MonInit, AnswersReal, NoRequest
<1>7. OnePointEach
  <2>1. Shown = {}
    BY DEF MonInit, Shown, NoRequest
  <2> QED  BY <1>3, <2>1, FS_EmptySet DEF MonInit, OnePointEach, NoRequest
<1>8. CountersSinceReset
  <2>1. \A q : RowsOfQoS(q) = {}
    BY <1>5 DEF RowsOfQoS
  <2> QED  BY <2>1, FS_EmptySet DEF MonInit, Init, CountersSinceReset
<1>9. TotalsCoverTimes
  BY DEF MonInit, TotalsCoverTimes, NoRequest
<1> QED  BY <1>1, <1>4, <1>6, <1>7, <1>8, <1>9 DEF MonInv

LEMMA NextCountersSinceReset ==
  MonInv /\ [MonNext]_<<vars, monVars>> => CountersSinceReset'
<1> SUFFICES ASSUME MonInv, [MonNext]_<<vars, monVars>> PROVE CountersSinceReset'
  OBVIOUS
<1>1. /\ mark \in [{0, 1} -> Nat] /\ session \in Counters
      /\ session.QOS0Packets = Cardinality(TimesOfQoS(0)) - mark[0]
      /\ session.QOS1Packets = Cardinality(TimesOfQoS(1)) - mark[1]
  BY SameRows DEF MonInv, MonTyped, ServerInv, Typed, TypeOK, Counters, CountersSinceReset
<1>2. CASE Reset
  <2>1. RowsOfQoS(0)' = RowsOfQoS(0) /\ RowsOfQoS(1)' = RowsOfQoS(1)
    BY <1>2 DEF Reset, RowsOfQoS
  <2>2. /\ session' = ZeroCounters
        /\ mark' = [q \in {0, 1} |-> Cardinality(RowsOfQoS(q))]
    BY <1>2 DEF Reset, ResetCounters
  <2>3. Cardinality(RowsOfQoS(0)) \in Nat /\ Cardinality(RowsOfQoS(1)) \in Nat
    BY SameRows, RowsFinite DEF MonInv, ServerInv
  <2> QED  BY <2>1, <2>2, <2>3 DEF CountersSinceReset, ZeroCounters
<1>3. CASE CommitFlush /\ UNCHANGED mark
  <2>1. session' = Credited
    BY <1>3 DEF CommitFlush
  <2>2. /\ session'.QOS0Packets = session.QOS0Packets + Cardinality(PendingOfQoS(0))
        /\ session'.QOS1Packets = session.QOS1Packets + Cardinality(PendingOfQoS(1))
    BY <2>1, ListsByQoS DEF Credited, MonInv, ServerInv
  <2>3. /\ Cardinality(TimesOfQoS(0)') = Cardinality(TimesOfQoS(0)) + Cardinality(PendingOfQoS(0))
        /\ Cardinality(TimesOfQoS(1)') = Cardinality(TimesOfQoS(1)) + Cardinality(PendingOfQoS(1))
    BY <1>3, CommitAddsAsMany DEF MonInv, ServerInv
  <2>4. /\ Cardinality(TimesOfQoS(0)) \in Nat /\ Cardinality(PendingOfQoS(0)) \in Nat
        /\ Cardinality(TimesOfQoS(1)) \in Nat /\ Cardinality(PendingOfQoS(1)) \in Nat
    BY RowsFinite DEF MonInv, ServerInv
  <2>5. RowsOfQoS(0)' = TimesOfQoS(0)' /\ RowsOfQoS(1)' = TimesOfQoS(1)'
    BY DEF RowsOfQoS, TimesOfQoS
  <2> QED  BY <1>1, <1>3, <2>2, <2>3, <2>4, <2>5 DEF CountersSinceReset
<1>4. CASE UNCHANGED <<times, session, mark>>
  BY <1>4 DEF MonInv, CountersSinceReset, RowsOfQoS
<1>5. CASE Next /\ UNCHANGED mark
  BY <1>3, <1>4, <1>5 DEF Next, EventLoop, Timer, Accept, Refuse, Disconnect, ReceiveQoS0,
     ReceiveQoS1, CountPuback, Record, StartFlush, CrashOnEmpty, ReadPubackSent,
     AbortFlush, ClearFlushed, tables
<1>6. CASE Ask \/ (\E p \in Polls : Query(p) \/ Show(p)) \/ UNCHANGED <<vars, monVars>>
  BY <1>4, <1>6 DEF Ask, Query, Show, vars, monVars, tables
<1> QED  BY <1>2, <1>5, <1>6 DEF MonNext, ServerStep, Monitor, monVars

\* Every row of table Times is counted or is older than the last reset.
LEMMA AllRowsCounted ==
  ASSUME MonInv
  PROVE  session.QOS0Packets + session.QOS1Packets + (mark[0] + mark[1]) = Len(times)
<1>1. /\ times \in Seq([packet : Packet, deviceId : Nat])
      /\ Len(times) \in Nat /\ DOMAIN times = 1..Len(times)
  BY LenProperties DEF MonInv, ServerInv, Typed, TypeOK
<1>2. \A r \in DOMAIN times : times[r].packet.qos \in {0, 1}
  <2>1. \A r \in DOMAIN times : times[r].packet \in Packet
    <3>1. \A r \in DOMAIN times : times[r] \in [packet : Packet, deviceId : Nat]
      BY <1>1, ElementOfSeq
    <3> QED  BY <3>1
  <2> QED  BY <2>1 DEF Packet
<1>3. /\ TimesOfQoS(0) \cup TimesOfQoS(1) = 1..Len(times)
      /\ TimesOfQoS(0) \cap TimesOfQoS(1) = {}
  BY <1>1, <1>2 DEF TimesOfQoS
<1>4. Cardinality(1..Len(times)) = Len(times)
  BY <1>1, FS_Interval
<1>5. /\ IsFiniteSet(TimesOfQoS(0)) /\ IsFiniteSet(TimesOfQoS(1))
      /\ Cardinality(TimesOfQoS(0)) \in Nat /\ Cardinality(TimesOfQoS(1)) \in Nat
  BY RowsFinite DEF MonInv, ServerInv
<1>6. Cardinality(TimesOfQoS(0) \cup TimesOfQoS(1)) =
        Cardinality(TimesOfQoS(0)) + Cardinality(TimesOfQoS(1))
          - Cardinality(TimesOfQoS(0) \cap TimesOfQoS(1))
  BY <1>5, FS_Union
<1>7. Len(times) = Cardinality(TimesOfQoS(0)) + Cardinality(TimesOfQoS(1))
  <2>1. Cardinality(TimesOfQoS(0) \cap TimesOfQoS(1)) = 0
    BY <1>3, FS_EmptySet
  <2>2. Cardinality(TimesOfQoS(0) \cup TimesOfQoS(1)) = Len(times)
    BY ONLY <1>3, <1>4
  <2> QED  BY ONLY <1>1, <1>5, <1>6, <2>1, <2>2
<1>8. /\ session.QOS0Packets = Cardinality(TimesOfQoS(0)) - mark[0]
      /\ session.QOS1Packets = Cardinality(TimesOfQoS(1)) - mark[1]
      /\ mark[0] \in Nat /\ mark[1] \in Nat
  <2>1. mark \in [{0, 1} -> Nat]
    BY DEF MonInv, MonTyped
  <2>2. RowsOfQoS(0) = TimesOfQoS(0) /\ RowsOfQoS(1) = TimesOfQoS(1)
    BY SameRows
  <2> QED  BY <2>1, <2>2 DEF MonInv, CountersSinceReset
<1> QED  BY <1>1, <1>5, <1>7, <1>8

\* A request stays one when its fields are written.
LEMMA RequestFields ==
  ASSUME NEW r \in Request
  PROVE  /\ \A n \in 0..2 : [r EXCEPT !.done = n] \in Request
         /\ \A l \in Nat : [r EXCEPT !.upto = l] \in Request
         /\ \A c \in Counters : [r EXCEPT !.counters = c] \in Request
         /\ \A b \in Nat : [r EXCEPT !.base = b] \in Request
         /\ \A s \in {"sent", "shown"} : [r EXCEPT !.st = s] \in Request
BY DEF Request

\* What a query of a request does: the first reads the rows, the second the
\* counters.
LEMMA QueryFacts ==
  ASSUME MonInv, NEW p \in Polls, Query(p)
  PROVE  /\ reqs[p].st = "sent"
         /\ UNCHANGED <<times, session, asked, page, mark, resets>>
         /\ reqs' \in [Polls -> Request]
         /\ \A o \in Polls \ {p} : reqs'[o] = reqs[o]
         /\ reqs'[p].st = reqs[p].st
         /\ \/ /\ reqs[p].done = 0 /\ reqs'[p].done = 1
               /\ reqs'[p].upto = Len(times)
            \/ /\ reqs[p].done = 1 /\ reqs'[p].done = 2
               /\ reqs'[p].upto = reqs[p].upto
               /\ reqs'[p].counters = session
               /\ reqs'[p].base = mark[0] + mark[1]
<1>1. /\ reqs \in [Polls -> Request] /\ session \in Counters
      /\ mark[0] + mark[1] \in Nat /\ Len(times) \in Nat
  <2>1. times \in Seq([packet : Packet, deviceId : Nat])
    BY DEF MonInv, ServerInv, Typed, TypeOK
  <2>2. Len(times) \in Nat
    BY <2>1, LenProperties
  <2> QED  BY <2>2 DEF MonInv, MonTyped, ServerInv, Typed, TypeOK, Counters
<1>2. Queries[1] = "Times" /\ Queries[2] = "Sessions" /\ Len(Queries) = 2
  BY DEF Queries
<1>3. reqs[p].done \in {0, 1} /\ reqs[p].st = "sent"
  BY <1>1, <1>2 DEF Query, Request
<1>4. UNCHANGED <<times, session, asked, page, mark, resets>>
  BY DEF Query, vars, tables
<1>5. CASE /\ Queries[reqs[p].done + 1] = "Times"
           /\ reqs' = [reqs EXCEPT ![p].done = @ + 1, ![p].upto = Len(times)]
  <2> DEFINE r == [reqs[p] EXCEPT !.done = 1]
             s == [r EXCEPT !.upto = Len(times)]
  <2>1. reqs[p].done = 0
    BY <1>2, <1>3, <1>5
  <2>2. reqs' = [reqs EXCEPT ![p].done = 1, ![p].upto = Len(times)]
    <3>1. reqs' = [reqs EXCEPT ![p].done = @ + 1, ![p].upto = Len(times)]
      BY <1>5
    <3> QED  BY ONLY <2>1, <3>1
  <2>3. reqs' = [reqs EXCEPT ![p] = s]
    BY <1>1, <2>2
  <2>4. r \in Request
    <3>1. reqs[p] \in Request /\ 1 \in 0..2
      BY <1>1
    <3> QED  BY ONLY <3>1, RequestFields
  <2>5. s \in Request
    <3> HIDE DEF r
    <3> QED  BY <1>1, <2>4, RequestFields
  <2>6. s.st = reqs[p].st /\ s.done = 1 /\ s.upto = Len(times)
    BY <1>1 DEF Request
  <2> HIDE DEF s
  <2>7. /\ reqs' \in [Polls -> Request] /\ reqs'[p] = s
        /\ \A o \in Polls \ {p} : reqs'[o] = reqs[o]
    BY <1>1, <2>3, <2>5
  <2> QED  BY <1>3, <1>4, <2>1, <2>6, <2>7
<1>6. CASE /\ Queries[reqs[p].done + 1] = "Sessions"
           /\ reqs' = [reqs EXCEPT ![p].done = @ + 1, ![p].counters = session,
                                   ![p].base = mark[0] + mark[1]]
  <2> DEFINE r == [reqs[p] EXCEPT !.done = 2]
             s == [r EXCEPT !.counters = session]
             t == [s EXCEPT !.base = mark[0] + mark[1]]
  <2>1. reqs[p].done = 1
    BY <1>2, <1>3, <1>6
  <2>2. reqs' = [reqs EXCEPT ![p].done = 2, ![p].counters = session,
                             ![p].base = mark[0] + mark[1]]
    <3>1. reqs' = [reqs EXCEPT ![p].done = @ + 1, ![p].counters = session,
                               ![p].base = mark[0] + mark[1]]
      BY <1>6
    <3>2. reqs[p].done + 1 = 2
      BY ONLY <2>1
    <3> QED  BY ONLY <3>1, <3>2
  <2>3. reqs' = [reqs EXCEPT ![p] = t]
    BY <1>1, <2>2
  <2>4. r \in Request
    <3>1. reqs[p] \in Request /\ 2 \in 0..2
      BY <1>1
    <3> QED  BY ONLY <3>1, RequestFields
  <2>5. s \in Request
    <3> HIDE DEF r
    <3> QED  BY <1>1, <2>4, RequestFields
  <2>6. t \in Request
    <3> HIDE DEF s
    <3> QED  BY <1>1, <2>5, RequestFields
  <2>7. /\ t.st = reqs[p].st /\ t.done = 2 /\ t.upto = reqs[p].upto
        /\ t.counters = session /\ t.base = mark[0] + mark[1]
    BY <1>1 DEF Request
  <2> HIDE DEF t
  <2>8. /\ reqs' \in [Polls -> Request] /\ reqs'[p] = t
        /\ \A o \in Polls \ {p} : reqs'[o] = reqs[o]
    BY <1>1, <2>3, <2>6
  <2> QED  BY <1>3, <1>4, <2>1, <2>7, <2>8
<1> QED  BY <1>5, <1>6 DEF Query

\* The page's part of the invariant is disturbed by the page's steps only; a
\* step of the server lets table Times grow.
LEMMA NextPage ==
  MonInv /\ [MonNext]_<<vars, monVars>>
    => MonTyped' /\ AnswersReal' /\ OnePointEach' /\ TotalsCoverTimes'
<1> SUFFICES ASSUME MonInv, [MonNext]_<<vars, monVars>>
             PROVE  MonTyped' /\ AnswersReal' /\ OnePointEach' /\ TotalsCoverTimes'
  OBVIOUS
<1>1. /\ MonTyped /\ AnswersReal /\ OnePointEach /\ TotalsCoverTimes
      /\ reqs \in [Polls -> Request] /\ page \in ShownPage /\ asked \in 0..MaxPolls
      /\ page.loss \in Seq(Int) /\ Len(page.loss) \in Nat
      /\ Polls = 1..MaxPolls /\ MaxPolls \in Nat
  <2>1. page \in ShownPage
    BY DEF MonInv, MonTyped
  <2>2. page.loss \in Seq(Int)
    BY <2>1 DEF ShownPage
  <2>3. Len(page.loss) \in Nat
    BY <2>2, LenProperties
  <2> QED  BY <2>1, <2>2, <2>3, MonitoringAssumption DEF MonInv, MonTyped, Polls
<1>2. /\ Len(times) \in Nat /\ Len(times') \in Nat /\ Len(times) <= Len(times')
      /\ DOMAIN times = 1..Len(times) /\ DOMAIN times' = 1..Len(times')
  BY TimesGrow DEF MonInv
<1>3. IsFiniteSet(Shown) /\ Cardinality(Shown) \in Nat
  <2>1. IsFiniteSet(Polls) /\ Shown \in SUBSET Polls
    BY <1>1, FS_Interval DEF Shown
  <2> QED  BY <2>1, FS_Subset, FS_CardinalityType
<1>4. CASE UNCHANGED monVars
  <2>1. \A p \in Polls : reqs[p].upto \in Nat
    BY <1>1 DEF Request
  <2>2. \A p \in Polls : reqs[p].upto <= Len(times)
    BY <1>1 DEF AnswersReal
  <2>3. AnswersReal'
    <3>1. UNCHANGED <<reqs, page>>
      BY <1>4 DEF monVars
    <3>2. \A p \in Polls : reqs[p].upto <= Len(times')
      BY <1>2, <2>1, <2>2
    <3>3. \A d \in Clients : page.charts[d] \subseteq DOMAIN times'
      BY <1>1, <1>2 DEF AnswersReal
    <3> QED  BY <3>1, <3>2, <3>3 DEF AnswersReal
  <2> QED
    BY <1>1, <1>4, <2>3 DEF monVars, MonTyped, OnePointEach, TotalsCoverTimes, Shown
<1>5. CASE Reset
  <2>1. UNCHANGED <<times, asked, reqs, page>> /\ resets' = resets + 1 /\ resets < MaxResets
    BY <1>5 DEF Reset
  <2>2. mark' \in [{0, 1} -> Nat]
    <3>1. Cardinality(RowsOfQoS(0)) \in Nat /\ Cardinality(RowsOfQoS(1)) \in Nat
      BY SameRows, RowsFinite DEF MonInv, ServerInv
    <3> QED  BY <1>5, <3>1 DEF Reset
  <2>3. resets' \in 0..MaxResets
    BY <1>1, <2>1, MonitoringAssumption DEF MonTyped
  <2> QED
    BY <1>1, <2>1, <2>2, <2>3 DEF MonTyped, AnswersReal, OnePointEach, TotalsCoverTimes, Shown
\* The request the page sends was not sent before.
<1>6. CASE Ask
  <2> DEFINE n == asked + 1
             r == [reqs[n] EXCEPT !.st = "sent"]
  <2>1. /\ UNCHANGED <<times, page, mark, resets>> /\ asked' = n /\ n \in Polls
        /\ reqs' = [reqs EXCEPT ![n] = r]
    BY <1>1, <1>6 DEF Ask, vars, tables
  <2>2. reqs[n] \in Request /\ reqs[n].st = "none"
    <3>1. reqs[n] \in Request /\ ~(n <= asked)
      BY <1>1, <2>1
    <3> QED  BY <1>1, <2>1, <3>1 DEF OnePointEach
  <2>3. r \in Request
    BY <2>2, RequestFields
  <2>4. r.st = "sent" /\ r.done = reqs[n].done /\ r.upto = reqs[n].upto
        /\ r.counters = reqs[n].counters /\ r.base = reqs[n].base
    BY <2>2 DEF Request
  <2> HIDE DEF r
  <2>5. /\ reqs' \in [Polls -> Request] /\ reqs'[n] = r
        /\ \A o \in Polls \ {n} : reqs'[o] = reqs[o]
    BY <1>1, <2>1, <2>3
  <2>6. Shown' = Shown
    BY <2>2, <2>4, <2>5 DEF Shown
  <2>7. MonTyped'
    BY <1>1, <2>1, <2>5 DEF MonTyped, Polls
  <2>8. AnswersReal'
    BY <1>1, <2>1, <2>4, <2>5 DEF AnswersReal
  <2>9. OnePointEach'
    <3>1. \A p \in Polls : reqs'[p].st # "none" => p <= n
      <4>1. ASSUME NEW p \in Polls, reqs'[p].st # "none" PROVE p <= n
        <5>1. CASE p = n
          BY <1>1, <5>1
        <5>2. CASE p # n
          <6>1. reqs[p].st # "none"
            BY <2>5, <4>1, <5>2
          <6>2. p <= asked
            BY <1>1, <6>1 DEF OnePointEach
          <6> QED  BY <1>1, <6>2
        <5> QED  BY <5>1, <5>2
      <4> QED  BY <4>1
    <3> QED  BY <1>1, <2>1, <2>6, <3>1 DEF OnePointEach
  <2>10. TotalsCoverTimes'
    BY <1>1, <2>1, <2>4, <2>5 DEF TotalsCoverTimes
  <2> QED  BY <2>7, <2>8, <2>9, <2>10
<1>7. ASSUME NEW p \in Polls, Query(p)
      PROVE  MonTyped' /\ AnswersReal' /\ OnePointEach' /\ TotalsCoverTimes'
  <2>1. /\ reqs[p].st = "sent"
        /\ UNCHANGED <<times, session, asked, page, mark, resets>>
        /\ reqs' \in [Polls -> Request]
        /\ \A o \in Polls \ {p} : reqs'[o] = reqs[o]
        /\ reqs'[p].st = reqs[p].st
        /\ \/ /\ reqs[p].done = 0 /\ reqs'[p].done = 1
              /\ reqs'[p].upto = Len(times)
           \/ /\ reqs[p].done = 1 /\ reqs'[p].done = 2
              /\ reqs'[p].upto = reqs[p].upto
              /\ reqs'[p].counters = session
              /\ reqs'[p].base = mark[0] + mark[1]
    BY <1>7, QueryFacts
  <2>2. MonTyped'
    BY <1>1, <2>1 DEF MonTyped
  <2>3. AnswersReal'
    BY <1>1, <1>2, <2>1 DEF AnswersReal
  <2>4. OnePointEach'
    <3>1. Shown' = Shown
      BY <2>1 DEF Shown
    <3> QED  BY <1>1, <2>1, <3>1 DEF OnePointEach
  <2>5. TotalsCoverTimes'
    <3>1. session.QOS0Packets + session.QOS1Packets + (mark[0] + mark[1]) = Len(times)
      BY AllRowsCounted
    <3>2. reqs[p].upto \in Nat /\ reqs[p].upto <= Len(times)
      BY <1>1 DEF AnswersReal, Request
    <3>3. reqs'[p].done = 2 =>
            reqs'[p].counters.QOS0Packets + reqs'[p].counters.QOS1Packets + reqs'[p].base
              >= reqs'[p].upto
      BY <1>2, <2>1, <3>1, <3>2
    <3> QED  BY <1>1, <2>1, <3>3 DEF TotalsCoverTimes
  <2> QED  BY <2>2, <2>3, <2>4, <2>5
\* An answer is shown once, and adds one point.
<1>8. ASSUME NEW p \in Polls, Show(p)
      PROVE  MonTyped' /\ AnswersReal' /\ OnePointEach' /\ TotalsCoverTimes'
  <2> DEFINE a == reqs[p]
             r == [reqs[p] EXCEPT !.st = "shown"]
             point == a.counters.QOS1Packets - a.counters.packetsSent
             charts == [d \in Clients |-> {k \in Window(a.upto) : times[k].deviceId = d}]
  <2>1. /\ UNCHANGED <<times, asked, mark, resets>> /\ reqs[p].st = "sent"
        /\ reqs' = [reqs EXCEPT ![p] = r]
        /\ page' = [counters |-> a.counters, charts |-> charts, upto |-> a.upto,
                    loss |-> Append(page.loss, point)]
    BY <1>1, <1>8 DEF Show, Answered, vars, tables
  <2>2. /\ a \in Request /\ a.counters \in Counters /\ a.upto \in Nat /\ a.upto <= Len(times)
        /\ point \in Int
    <3>1. a \in Request /\ a.upto <= Len(times)
      BY <1>1 DEF AnswersReal
    <3>2. a.counters \in Counters /\ a.upto \in Nat
      BY <3>1 DEF Request
    <3> QED  BY <3>1, <3>2 DEF Counters
  <2>3. r \in Request
    BY <2>2, RequestFields
  <2>4. r.st = "shown" /\ r.done = a.done /\ r.upto = a.upto
        /\ r.counters = a.counters /\ r.base = a.base
    BY <2>2 DEF Request
  <2>5. charts \in [Clients -> SUBSET Nat] /\ \A d \in Clients : charts[d] \subseteq DOMAIN times
    BY <1>2, <2>2 DEF Window
  <2>6. /\ Append(page.loss, point) \in Seq(Int)
        /\ Len(Append(page.loss, point)) = Len(page.loss) + 1
    BY <1>1, <2>2, AppendProperties
  <2> HIDE DEF r, charts, point
  <2>7. /\ reqs' \in [Polls -> Request] /\ reqs'[p] = r
        /\ \A o \in Polls \ {p} : reqs'[o] = reqs[o]
    BY <1>1, <2>1, <2>3
  <2>8. /\ page' \in ShownPage /\ page'.charts = charts
        /\ Len(page'.loss) = Len(page.loss) + 1
    BY <2>1, <2>2, <2>5, <2>6 DEF ShownPage
  <2>9. MonTyped'
    BY <1>1, <2>1, <2>7, <2>8 DEF MonTyped
  <2>10. AnswersReal'
    BY <1>1, <2>1, <2>4, <2>5, <2>7, <2>8 DEF AnswersReal
  <2>11. OnePointEach'
    <3>1. Shown' = Shown \cup {p} /\ p \notin Shown
      BY <2>1, <2>4, <2>7 DEF Shown
    <3>2. Cardinality(Shown') = Cardinality(Shown) + 1
      BY <1>3, <3>1, FS_AddElement
    <3>3. Len(page'.loss) <= Cardinality(Shown')
      BY <1>1, <1>3, <2>8, <3>2 DEF OnePointEach
    <3>4. \A o \in Polls : reqs'[o].st # "none" => reqs[o].st # "none"
      BY <2>1, <2>7
    <3> QED  BY <1>1, <2>1, <3>3, <3>4 DEF OnePointEach
  <2>12. TotalsCoverTimes'
    BY <1>1, <2>4, <2>7 DEF TotalsCoverTimes
  <2> QED  BY <2>9, <2>10, <2>11, <2>12
<1> QED
  BY <1>4, <1>5, <1>6, <1>7, <1>8 DEF MonNext, ServerStep, Monitor

LEMMA MonInvAlways == MonSpec => []MonInv
<1>1. MonInv /\ [MonNext]_<<vars, monVars>> => MonInv'
  BY NextServerInv, NextCountersSinceReset, NextPage DEF MonInv
<1> QED  BY InitMonInv, <1>1, PTL DEF MonSpec

\* The page's variables keep their types: an answer never names a row that does
\* not exist, and the loss chart has one point for each answer.
THEOREM MonTypeCorrect == MonSpec => []MonTypeOK
<1>1. MonInv => MonTypeOK
  <2> SUFFICES ASSUME MonInv PROVE MonTypeOK
    OBVIOUS
  <2>1. /\ asked \in 0..MaxPolls /\ resets \in 0..MaxResets /\ mark \in [{0, 1} -> Nat]
        /\ reqs \in [Polls -> Request] /\ page \in ShownPage
        /\ session \in [QOS0Packets : Nat, QOS1Packets : Nat, packetsSent : Nat]
    BY DEF MonInv, MonTyped, ServerInv, Typed, TypeOK
  <2>2. \A p \in Polls : /\ reqs[p].st \in {"none", "sent", "shown"}
                         /\ reqs[p].done \in 0..2 /\ reqs[p].base \in Nat
                         /\ reqs[p].upto \in 0..Len(times)
    <3>1. Len(times) \in Nat
      BY LenProperties DEF MonInv, ServerInv, Typed, TypeOK
    <3>2. \A p \in Polls : reqs[p] \in Request /\ reqs[p].upto <= Len(times)
      BY <2>1 DEF MonInv, AnswersReal
    <3> QED  BY <3>1, <3>2 DEF Request
  <2>3. page.loss \in Seq(Int) /\ Len(page.loss) \in Nat
    <3>1. page.loss \in Seq(Int)
      BY <2>1 DEF ShownPage
    <3> QED  BY <3>1, LenProperties
  <2>4. Len(page.loss) <= asked
    <3>1. Shown \in SUBSET (1..asked) /\ asked \in Nat
      BY <2>1 DEF MonInv, OnePointEach, Shown, Polls
    <3>2. IsFiniteSet(1..asked) /\ Cardinality(1..asked) = asked
      BY <3>1, FS_Interval
    <3>3. IsFiniteSet(Shown) /\ Cardinality(Shown) <= asked
      BY <3>1, <3>2, FS_Subset
    <3>4. Cardinality(Shown) \in Nat
      BY <3>3, FS_CardinalityType
    <3> QED  BY <2>3, <3>1, <3>3, <3>4 DEF MonInv, OnePointEach
  <2> QED  BY <2>1, <2>2, <2>3, <2>4 DEF MonInv, AnswersReal, MonTypeOK
<1> QED  BY <1>1, MonInvAlways, PTL

\* cancel.php may reset the counters at any moment of a flush or of a retry
\* (Main.kt:178-185): they are the rows written since.
THEOREM SinceReset == MonSpec => []CountersSinceReset
<1>1. MonInv => CountersSinceReset
  BY DEF MonInv
<1> QED  BY <1>1, MonInvAlways, PTL

\* api.php:16-31 reads the times before the counters: however the two SELECTs
\* interleave with commits, the counters of an answer include its times.
THEOREM TotalsCover == MonSpec => []TotalsCoverTimes
<1>1. MonInv => TotalsCoverTimes
  BY DEF MonInv
<1> QED  BY <1>1, MonInvAlways, PTL

\* The page disturbs nothing of what the server promises of its packets.
THEOREM MonExactlyOnce == MonSpec => []PersistedExactlyOnce
<1>1. MonInv => PersistedExactlyOnce
  BY DEF MonInv, ServerInv
<1> QED  BY <1>1, MonInvAlways, PTL
=============================================================================
