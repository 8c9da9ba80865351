------------------------------- MODULE Server -------------------------------
(***************************************************************************)
(* The measuring MQTT server of src/main/kotlin/Main.kt: one Vert.x event  *)
(* loop that answers and records PUBLISH packets, one java.util.Timer      *)
(* thread that writes what was recorded to the database every second, and  *)
(* the three tables they share.  The two threads share the two packet      *)
(* lists, the map from message id to device and the PUBACK counter; the    *)
(* lists and the map are guarded by `lock`, the counter is not.            *)
(*                                                                         *)
(* A step of the model is a maximal piece of a thread's code that touches  *)
(* unguarded shared data once, or one synchronized block of the event      *)
(* loop.  The interval stored for a packet is abstracted to the packet's   *)
(* serial number `no`, in the order the event loop recorded them, so the   *)
(* ArrayLists are sets of numbered packets.                                *)
(***************************************************************************)
EXTENDS Integers, Sequences, FiniteSets

CONSTANTS
  Conns,         \* connections (MqttEndpoint objects), each used once
  Ips,           \* remote addresses
  IpOf,          \* the remote address of each connection
  Names,         \* client identifiers
  MsgIds,        \* packet identifiers of QoS 1 PUBLISH packets
  MaxPublishes,  \* bound: PUBLISH packets taken off the wire in a behaviour
  MaxAttempts    \* how often a transaction is tried before its error is thrown

ASSUME ConnAssumption == IpOf \in [Conns -> Ips]
ASSUME MsgIdAssumption == MsgIds \subseteq Nat \ {0}
ASSUME BoundAssumption == MaxPublishes \in Nat /\ MaxAttempts \in Nat \ {0}

NoConn == [st |-> "new", devId |-> 0, prev |-> FALSE]

\* A QoS 0 PUBLISH carries no packet identifier; the decoder reports -1.
NoId == -1
NoDev == 0

VARIABLES
  devices,        \* table Devices: row id -> [name, ip] (id is auto-increment)
  times,          \* table Times: row id -> [packet, deviceId]
  session,        \* the session's row of table Sessions
  packetsAMO,     \* QoS 0 packets recorded and not yet written
  packetsALO,     \* QoS 1 packets recorded and not yet written
  mesToDevIdMap,  \* message id -> device id, NoDev where there is no entry
  pubackSent,     \* PUBACKs counted and not yet written
  ep,             \* per connection: its state and the handler's devId and prev
  loopPc,         \* event loop: idle, or inside publishHandler
  inHand,         \* the PUBLISH the event loop is handling
  tmp,            \* value of pubackSent read by the ++pubackSent in progress
  timerPc,        \* timer thread: asleep, inside its task, or dead
  sent,           \* value of pubackSent read by the transaction in progress
  attempts,       \* failed attempts of the transaction in progress
  received,       \* history: PUBLISH packets taken off the wire
  recorded,       \* history: packets recorded, the last serial number given
  acked           \* history: PUBACKs sent

tables == <<devices, times, session>>
memory == <<packetsAMO, packetsALO, mesToDevIdMap>>
loopVars == <<loopPc, inHand, tmp>>
timerVars == <<timerPc, sent, attempts>>
history == <<received, recorded, acked>>
vars == <<tables, memory, pubackSent, ep, loopVars, timerVars, history>>

Ids == MsgIds \cup {NoId}
Publish == [conn : Conns, qos : {0, 1}, msgId : Ids]
NoPublish == [conn |-> {}, qos |-> 0, msgId |-> NoId]

\* qos and from (the id of the device that sent it) are history: the lists
\* hold pairs of a message id and an interval.
Packet == [no : Nat, qos : {0, 1}, msgId : Ids, from : Nat]

Pending == packetsALO \cup packetsAMO

\* The timer thread holds `lock` from line 159 to 192 of its task; the event
\* loop takes and releases it within one step.
\* A synchronized block releases its lock when an exception leaves it.
LockFree_absent == TRUE                 \* fault: Record takes no lock
LockFree_kept == timerPc \notin {"read", "commit", "clear", "failed"}
                                        \* fault: kept when the task throws
LockFree == timerPc \notin {"read", "commit", "clear"}

-----------------------------------------------------------------------------
(* main, up to the registration of the handlers: the tables are dropped,    *)
(* created again and given one session row.                                 *)

Init ==
  /\ devices = <<>>
  /\ times = <<>>
  /\ session = [QOS0Packets |-> 0, QOS1Packets |-> 0, packetsSent |-> 0]
  /\ packetsAMO = {} /\ packetsALO = {}
  /\ mesToDevIdMap = [i \in Ids |-> NoDev]
  /\ pubackSent = 0
  /\ ep = [c \in Conns |-> NoConn]
  /\ loopPc = "idle" /\ inHand = NoPublish /\ tmp = 0
  /\ timerPc = "asleep" /\ sent = 0 /\ attempts = 0
  /\ received = 0 /\ recorded = 0 /\ acked = 0

-----------------------------------------------------------------------------
(* The event loop.                                                          *)

RowsOf_none(ip) == {}                    \* fault: devices are never looked up
RowsOf(ip) == {d \in DOMAIN devices : devices[d].ip = ip}

\* The unique index on Devices.name lets `name` be given to the rows of `ip`.
NameFree(name, ip) ==
  \A d \in DOMAIN devices : devices[d].name = name => devices[d].ip = ip

\* The handler's local variables start afresh with each connection.
Opened_last(d) ==                        \* fault: devId is the last row's id
  [st |-> "open", devId |-> Len(devices), prev |-> FALSE]
Opened_shared(d) ==                      \* fault: prev is kept per device
  [st |-> "open", devId |-> d, prev |-> \E c \in Conns : ep[c].devId = d /\ ep[c].prev]
Opened(d) == [st |-> "open", devId |-> d, prev |-> FALSE]

\* endpointHandler: UPDATE the name of the device with this ip; INSERT one when
\* no row was updated, else SELECT it back.  Then accept the connection.
Accept(c, name) ==
  /\ loopPc = "idle" /\ ep[c].st = "new"
  /\ NameFree(name, IpOf[c])
  /\ \/ /\ RowsOf(IpOf[c]) = {}
        /\ devices' = Append(devices, [name |-> name, ip |-> IpOf[c]])
        /\ ep' = [ep EXCEPT ![c] = Opened(Len(devices) + 1)]
     \/ /\ devices' = [d \in DOMAIN devices |->
                         IF d \in RowsOf(IpOf[c])
                         THEN [name |-> name, ip |-> devices[d].ip]
                         ELSE devices[d]]
        /\ \E d \in RowsOf(IpOf[c]) : ep' = [ep EXCEPT ![c] = Opened(d)]
  /\ UNCHANGED <<times, session, memory, pubackSent, loopVars, timerVars, history>>

\* endpointHandler when its transaction throws (the name belongs to a device
\* with another ip, or the database fails): the connection is never accepted.
Refuse(c) ==
  /\ loopPc = "idle" /\ ep[c].st = "new"
  /\ ep' = [ep EXCEPT ![c].st = "closed"]
  /\ UNCHANGED <<tables, memory, pubackSent, loopVars, timerVars, history>>

\* disconnectHandler only logs; no packet of the connection follows it.
Disconnect(c) ==
  /\ loopPc = "idle" /\ ep[c].st = "open"
  /\ ep' = [ep EXCEPT ![c].st = "closed"]
  /\ UNCHANGED <<tables, memory, pubackSent, loopVars, timerVars, history>>

Receiving(c) ==
  /\ loopPc = "idle" /\ ep[c].st = "open"
  /\ received < MaxPublishes
  /\ received' = received + 1

\* publishHandler, AT_MOST_ONCE, up to the synchronized block.
ReceiveQoS0(c) ==
  /\ Receiving(c)
  /\ loopPc' = "record"
  /\ inHand' = [conn |-> c, qos |-> 0, msgId |-> NoId]
  /\ UNCHANGED <<tables, memory, pubackSent, ep, tmp, timerVars, recorded, acked>>

\* publishHandler, AT_LEAST_ONCE: the PUBACK is sent, and the first half of
\* ++pubackSent reads the counter.
ReceiveQoS1(c, id) ==
  /\ Receiving(c)
  /\ acked' = acked + 1
  /\ tmp' = pubackSent
  /\ loopPc' = "count"
  /\ inHand' = [conn |-> c, qos |-> 1, msgId |-> id]
  /\ UNCHANGED <<tables, memory, pubackSent, ep, timerVars, recorded>>

\* The second half of ++pubackSent writes it back.
CountPuback ==
  /\ loopPc = "count"
  /\ pubackSent' = tmp + 1
  /\ tmp' = 0
  /\ loopPc' = "record"
  /\ UNCHANGED <<tables, memory, ep, inHand, timerVars, history>>

\* mesToDevIdMap[messageId] = devId.
Remember_QoS1(id, d) ==                  \* fault: done in the QoS 1 branch only
  IF id = NoId THEN mesToDevIdMap ELSE [mesToDevIdMap EXCEPT ![id] = d]
Remember_first(id, d) ==                 \* fault: putIfAbsent
  IF mesToDevIdMap[id] # NoDev THEN mesToDevIdMap ELSE [mesToDevIdMap EXCEPT ![id] = d]
Remember(id, d) == [mesToDevIdMap EXCEPT ![id] = d]

\* The synchronized block and prev = curr.  `near` is curr - prev < 700 ms.
Record(near) ==
  /\ loopPc = "record" /\ LockFree
  /\ LET e == ep[inHand.conn]
         p == [no |-> recorded + 1, qos |-> inHand.qos,
               msgId |-> inHand.msgId, from |-> e.devId]
     IN IF e.prev /\ near
        THEN /\ packetsAMO' = IF p.qos = 0 THEN packetsAMO \cup {p} ELSE packetsAMO
             /\ packetsALO' = IF p.qos = 1 THEN packetsALO \cup {p} ELSE packetsALO
             /\ mesToDevIdMap' = Remember(p.msgId, e.devId)
             /\ recorded' = recorded + 1
        ELSE UNCHANGED <<memory, recorded>>
  /\ ep' = [ep EXCEPT ![inHand.conn].prev = TRUE]
  /\ loopPc' = "idle" /\ inHand' = NoPublish
  /\ UNCHANGED <<tables, pubackSent, tmp, timerVars, received, acked>>

EventLoop ==
  \/ \E c \in Conns : \/ \E name \in Names : Accept(c, name)
                      \/ Refuse(c)
                      \/ Disconnect(c)
                      \/ ReceiveQoS0(c)
                      \/ \E id \in MsgIds : ReceiveQoS1(c, id)
  \/ CountPuback
  \/ \E near \in BOOLEAN : Record(near)

-----------------------------------------------------------------------------
(* The timer thread.                                                        *)

\* Line 160: something was recorded or acknowledged.
WorkToDo_ALO ==                          \* fault: packetsAMO is not looked at
  packetsALO # {} \/ pubackSent > 0
WorkToDo == packetsALO # {} \/ packetsAMO # {} \/ pubackSent > 0

\* The task starts, takes the lock, finds packets and computes their minimum.
StartFlush ==
  /\ timerPc = "asleep"
  /\ WorkToDo /\ Pending # {}
  /\ timerPc' = "read"
  /\ UNCHANGED <<tables, memory, pubackSent, ep, loopVars, sent, attempts, history>>

\* PUBACKs were counted but no interval was recorded: min()!! of the empty
\* array throws.  An exception that leaves a TimerTask ends its Timer thread.
CrashOnEmpty ==
  /\ timerPc = "asleep"
  /\ WorkToDo /\ Pending = {}
  /\ timerPc' = "crashed"
  /\ UNCHANGED <<tables, memory, pubackSent, ep, loopVars, sent, attempts, history>>

\* The transaction's body reads pubackSent into the UPDATE of the session.
ReadPubackSent ==
  /\ timerPc = "read"
  /\ sent' = pubackSent
  /\ timerPc' = "commit"
  /\ UNCHANGED <<tables, memory, pubackSent, ep, loopVars, attempts, history>>

\* sortedBy { it.first }, which is stable.
Before(p, q) == p.msgId < q.msgId \/ (p.msgId = q.msgId /\ p.no < q.no)

SortedBatches(P) ==
  {s \in [1..Cardinality(P) -> P] :
     /\ \A p \in P : \E i \in DOMAIN s : s[i] = p
     /\ \A i, j \in DOMAIN s : i < j => Before(s[i], s[j])}

\* mesToDevIdMap[messageid] with devId!!, which NoDev would make throw.
Row(p) == [packet |-> p, deviceId |-> mesToDevIdMap[p.msgId]]

\* The session's row after the three increments of the UPDATE.
Credited_swapped ==                      \* fault: the lists are mixed up
  [QOS0Packets |-> session.QOS0Packets + Cardinality(packetsALO),
   QOS1Packets |-> session.QOS1Packets + Cardinality(packetsAMO),
   packetsSent |-> session.packetsSent + sent]
Credited ==
  [QOS0Packets |-> session.QOS0Packets + Cardinality(packetsAMO),
   QOS1Packets |-> session.QOS1Packets + Cardinality(packetsALO),
   packetsSent |-> session.packetsSent + sent]

\* The transaction commits: the batch insert and the session's increments.
CommitFlush ==
  /\ timerPc = "commit"
  /\ \E batch \in SortedBatches(Pending) :
       times' = times \o [i \in DOMAIN batch |-> Row(batch[i])]
  /\ session' = Credited
  /\ timerPc' = "clear"
  /\ sent' = 0
  /\ UNCHANGED <<devices, memory, pubackSent, ep, loopVars, attempts, history>>

\* The transaction fails and is rolled back: its body runs again, or after
\* MaxAttempts failures the error leaves the task and ends the Timer thread.
Tried == attempts + 1

\* Whether the body of the transaction runs again.
Retry_late == Tried <= MaxAttempts       \* fault: one attempt too many
Retry == Tried < MaxAttempts

AbortFlush ==
  /\ timerPc = "commit"
  /\ attempts' = Tried
  /\ timerPc' = IF Retry THEN "read" ELSE "failed"
  /\ sent' = 0
  /\ UNCHANGED <<tables, memory, pubackSent, ep, loopVars, history>>

\* Lines 188-190: the lists are emptied, the counter is set to zero and the
\* lock is released.
ClearFlushed_ALO ==                      \* fault: packetsAMO is not emptied
  /\ timerPc = "clear"
  /\ packetsALO' = {} /\ pubackSent' = 0
  /\ timerPc' = "asleep"
  /\ attempts' = 0
  /\ UNCHANGED <<tables, packetsAMO, mesToDevIdMap, ep, loopVars, sent, history>>

ClearFlushed ==
  /\ timerPc = "clear"
  /\ packetsALO' = {} /\ packetsAMO' = {}
  /\ pubackSent' = 0
  /\ timerPc' = "asleep"
  /\ attempts' = 0
  /\ UNCHANGED <<tables, mesToDevIdMap, ep, loopVars, sent, history>>

Timer ==
  \/ StartFlush
  \/ CrashOnEmpty
  \/ ReadPubackSent
  \/ CommitFlush
  \/ AbortFlush
  \/ ClearFlushed

-----------------------------------------------------------------------------

Next == EventLoop \/ Timer

Spec == Init /\ [][Next]_vars

\* The Timer thread is a running thread: while one of its steps is possible it
\* takes one.  It never waits for the event loop, which holds the lock only
\* within a step, and a transaction either commits or throws.  A handler the
\* event loop has begun is carried on; that a packet arrives is not assumed.
Handler == CountPuback \/ \E near \in BOOLEAN : Record(near)

FairSpec == Spec /\ WF_vars(Timer) /\ WF_vars(Handler)

-----------------------------------------------------------------------------
(* Properties.                                                              *)

Rows == {times[r] : r \in DOMAIN times}
Persisted == {row.packet : row \in Rows}
Dead == timerPc \in {"crashed", "failed"}

\* Every variable has its type; the timer never tries a transaction more often
\* than the library allows.
TypeOK ==
  /\ devices \in Seq([name : Names, ip : Ips])
  /\ times \in Seq([packet : Packet, deviceId : Nat])
  /\ session \in [QOS0Packets : Nat, QOS1Packets : Nat, packetsSent : Nat]
  /\ packetsAMO \subseteq Packet /\ packetsALO \subseteq Packet
  /\ mesToDevIdMap \in [Ids -> Nat]
  /\ pubackSent \in Nat /\ tmp \in Nat /\ sent \in Nat
  /\ ep \in [Conns -> [st : {"new", "open", "closed"}, devId : Nat, prev : BOOLEAN]]
  /\ loopPc \in {"idle", "count", "record"}
  /\ inHand \in IF loopPc = "idle" THEN {NoPublish} ELSE Publish
  /\ timerPc \in {"asleep", "read", "commit", "clear", "crashed", "failed"}
  /\ attempts \in 0..MaxAttempts
  /\ received \in Nat /\ recorded \in Nat /\ acked \in Nat

\* Lines 104-113, 121-130 and 170-190: although the event loop adds packets
\* while the timer thread writes and empties the lists, and transactions fail
\* and are tried again, no recorded packet is lost and none is written twice:
\* each has its serial number in exactly one of the list of its QoS and the
\* table, except between the commit and the clearing, when the lists hold what
\* was just written.
PersistedExactlyOnce ==
  /\ \A n \in 1..recorded : \E p \in Pending \cup Persisted : p.no = n
  /\ \A p, q \in Pending \cup Persisted : p.no = q.no => p = q
  /\ \A p \in Pending \cup Persisted : p.no \in 1..recorded
  /\ \A r, s \in DOMAIN times : times[r].packet = times[s].packet => r = s
  /\ (\A p \in packetsAMO : p.qos = 0) /\ (\A p \in packetsALO : p.qos = 1)
  /\ IF timerPc = "clear" THEN Pending \subseteq Persisted
                          ELSE Pending \cap Persisted = {}

\* Lines 178-185: the session's counters, kept by increments over many flushes
\* and retries, are the numbers of rows of table Times of each QoS.
CountersMatchRows ==
  /\ session.QOS0Packets = Cardinality({r \in DOMAIN times : times[r].packet.qos = 0})
  /\ session.QOS1Packets = Cardinality({r \in DOMAIN times : times[r].packet.qos = 1})

\* Lines 173-176: devId!! never throws and the reference to Devices.id never
\* fails, for the entry of a pending packet's message id, never removed and
\* often overwritten, is always there and always a row of table Devices.
DeviceOfPendingKnown ==
  /\ \A p \in Pending : mesToDevIdMap[p.msgId] \in DOMAIN devices
  /\ \A row \in Rows : row.deviceId \in DOMAIN devices

\* Lines 108-112 and 173: a row names another device than the packet's sender
\* only if that device used the same message id later: the map always holds the
\* device of the last packet recorded with an id, written already or not.
LastSenderWins ==
  /\ \A p \in Pending \cup Persisted :
       \/ mesToDevIdMap[p.msgId] = p.from
       \/ \E q \in Pending \cup Persisted :
            /\ q.msgId = p.msgId /\ q.no > p.no /\ q.from = mesToDevIdMap[p.msgId]
  /\ \A row \in Rows :
       \/ row.deviceId = row.packet.from
       \/ \E q \in Persisted : /\ q.msgId = row.packet.msgId /\ q.no > row.packet.no
                               /\ q.from = row.deviceId

\* Lines 77-90: however clients reconnect and rename themselves, an address has
\* one row ...
OneRowPerIp ==
  \A d, e \in DOMAIN devices : devices[d].ip = devices[e].ip => d = e

\* ... and every connection, also one that outlived the renaming of its device
\* by a later connection, uses the id of the row of its own address.
EndpointOnItsRow ==
  \A c \in Conns : ep[c].devId # NoDev =>
    ep[c].devId \in DOMAIN devices /\ devices[ep[c].devId].ip = IpOf[c]

\* Lines 97, 105 and 122: an interval is measured between two packets of one
\* connection; the first packet of a connection, also of one that resumes after
\* another to the same device, gives none.
IntervalWithinConnection ==
  recorded + Cardinality({c \in Conns : ep[c].prev}) <= received

\* Lines 158-192: a recorded packet is written to the database, unless the
\* Timer thread dies.
FlushedUnlessDead ==
  \A n \in 1..MaxPublishes :
    (\E p \in Pending : p.no = n) ~> (\E p \in Persisted : p.no = n) \/ Dead

\* Lines 104 and 121: the event loop never waits for the lock for ever, also
\* when the task that holds it ends by an exception.
HandlerReturns == (loopPc # "idle") ~> (loopPc = "idle")

\* Line 165, min()!!: there is a minimum whenever it is asked for.
MinimumExists == timerPc # "crashed"

\* Line 162 and the page's "PUBACK mandati": the count of PUBACKs written and
\* yet to be written is the number that were sent, whenever neither thread is
\* inside its handler.
AcksCounted ==
  loopPc = "idle" /\ timerPc = "asleep" => session.packetsSent + pubackSent = acked

\* The server implements a write-behind log.  The packets are stored at the
\* moment the transaction commits, when the lists still hold them.
Plain(P) == {[no |-> p.no, qos |-> p.qos] : p \in P}

Log == INSTANCE PacketLog WITH
  last <- recorded,
  pending <- IF timerPc = "clear" THEN {} ELSE Plain(Pending),
  stored <- Plain(Persisted),
  credit <- [q \in {0, 1} |-> IF q = 0 THEN session.QOS0Packets ELSE session.QOS1Packets],
  running <- ~Dead

LogSpec == Log!LogSpec
=============================================================================
