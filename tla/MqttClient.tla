----------------------------- MODULE MqttClient -----------------------------
(***************************************************************************)
(* The packet handlers of the AsyncMqttClient library, which the firmware  *)
(* links: publishing and subscribing, acknowledging and the QoS 2          *)
(* handshakes of both directions, over one TCP connection at a time to a   *)
(* broker.  The parser that calls the handlers and the keep-alive are      *)
(* modules of their own.                                                   *)
(*                                                                         *)
(* The broker is not this repository's: it follows MQTT 3.1.1, may send a  *)
(* QoS 2 PUBLISH again while it has no PUBREC for it, and forgets          *)
(* everything when the connection ends (the firmware asks for a clean      *)
(* session).  TCP neither loses nor reorders packets of a connection.      *)
(***************************************************************************)
EXTENDS Integers, Sequences, FiniteSets, SequencesExt

CONSTANTS
  LastId,        \* greatest packet identifier (65535)
  Messages,      \* application messages the broker has for the client
  QoSOf,         \* the QoS of each, 1 or 2
  MaxSends,      \* bound: the client's QoS 1 and 2 packets, also sent again, subscriptions
                 \* and their ends, with the PUBLISH packets the broker sends again
  MaxDrops       \* bound: connections that end

ASSUME IdAssumption == LastId \in Nat \ {0}
ASSUME MessageAssumption == QoSOf \in [Messages -> {1, 2}]
ASSUME ClientBoundAssumption ==
  MaxSends \in Nat /\ MaxDrops \in Nat

Ids == 1..LastId
NoMessage == {}

VARIABLES
  connected,      \* _connected
  toSendAcks,     \* _toSendAcks: acknowledgements not yet sent
  pendingPubRels, \* _pendingPubRels: QoS 2 ids received, PUBREL not yet
  nextPacketId,   \* _nextPacketId
  toBroker,       \* packets on their way to the broker
  toClient,       \* packets on their way to the client
  slots,          \* broker: per packet id, the message sent with it
  todo,           \* broker: messages not sent yet
  delivered,      \* history: per message, onMessage callbacks this connection
  unconfirmed,    \* history: per id, packets sent less callbacks called with it
  counts          \* bounds: sends and drops so far

clientVars == <<connected, toSendAcks, pendingPubRels, nextPacketId>>
brokerVars == <<slots, todo>>
vars == <<clientVars, brokerVars, toBroker, toClient, delivered, unconfirmed, counts>>

Pkt(type, id) == [type |-> type, id |-> id, msg |-> NoMessage]
Publish(id, m) == [type |-> "PUBLISH", id |-> id, msg |-> m]

FreeSlot == [st |-> "free", msg |-> NoMessage]

Init ==
  /\ connected = FALSE
  /\ toSendAcks = <<>> /\ pendingPubRels = <<>> /\ nextPacketId = 1
  /\ toBroker = <<>> /\ toClient = <<>>
  /\ slots = [i \in Ids |-> FreeSlot] /\ todo = Messages
  /\ delivered = [m \in Messages |-> 0]
  /\ unconfirmed = [i \in Ids |-> 0]
  /\ counts = [sent |-> 0, dropped |-> 0]

-----------------------------------------------------------------------------
(* Connecting and disconnecting.                                            *)

\* _onConnAck with return code 0.
ConnAck ==
  /\ ~connected
  /\ connected' = TRUE
  /\ UNCHANGED <<toSendAcks, pendingPubRels, nextPacketId, toBroker, toClient,
                 brokerVars, delivered, unconfirmed, counts>>

\* _onDisconnect: _clear() empties the queues and numbers packets from 1 again.
\* Packets under way are lost; a message counts as new in the next connection.
ClearedPubRels_kept == pendingPubRels   \* fault: _pendingPubRels outlives the connection
ClearedPubRels == <<>>

Drop ==
  /\ connected /\ counts.dropped < MaxDrops
  /\ counts' = [counts EXCEPT !.dropped = @ + 1]
  /\ connected' = FALSE
  /\ toSendAcks' = <<>> /\ pendingPubRels' = ClearedPubRels /\ nextPacketId' = 1
  /\ toBroker' = <<>> /\ toClient' = <<>>
  /\ slots' = [i \in Ids |-> FreeSlot] /\ todo' = Messages
  /\ delivered' = [m \in Messages |-> 0]
  /\ unconfirmed' = [i \in Ids |-> 0]

-----------------------------------------------------------------------------
(* The broker and the network (external).                                   *)

BrokerPublish(m) ==
  /\ connected /\ m \in todo
  /\ \E i \in Ids :
       /\ slots[i].st = "free"
       /\ \A j \in Ids : j < i => slots[j].st # "free"
       /\ slots' = [slots EXCEPT ![i] = [st |-> "sent", msg |-> m]]
       /\ toClient' = Append(toClient, Publish(i, m))
  /\ todo' = todo \ {m}
  /\ UNCHANGED <<clientVars, toBroker, delivered, unconfirmed, counts>>

BrokerResend(i) ==
  /\ connected /\ counts.sent < MaxSends
  /\ slots[i].st = "sent" /\ QoSOf[slots[i].msg] = 2
  /\ counts' = [counts EXCEPT !.sent = @ + 1]
  /\ toClient' = Append(toClient, Publish(i, slots[i].msg))
  /\ UNCHANGED <<clientVars, toBroker, brokerVars, delivered, unconfirmed>>

\* The slot changes only on the packet it waits for; every packet is answered.
Awaited(p) ==
  \/ p.type = "PUBACK"  /\ slots[p.id].st = "sent" /\ QoSOf[slots[p.id].msg] = 1
  \/ p.type = "PUBREC"  /\ slots[p.id].st = "sent" /\ QoSOf[slots[p.id].msg] = 2
  \/ p.type = "PUBCOMP" /\ slots[p.id].st = "released"

Answer == [PUBLISH1 |-> "PUBACK", PUBLISH2 |-> "PUBREC", PUBREL |-> "PUBCOMP",
           SUBSCRIBE |-> "SUBACK", UNSUBSCRIBE |-> "UNSUBACK"]

BrokerReceive ==
  /\ toBroker # <<>>
  /\ LET p == Head(toBroker) IN
     \/ /\ p.type \in DOMAIN Answer
        /\ toClient' = Append(toClient, Pkt(Answer[p.type], p.id))
        /\ UNCHANGED slots
     \/ /\ p.type = "PUBREC" /\ Awaited(p)
        /\ slots' = [slots EXCEPT ![p.id].st = "released"]
        /\ toClient' = Append(toClient, Pkt("PUBREL", p.id))
     \/ /\ p.type \in {"PUBACK", "PUBCOMP"} /\ Awaited(p)
        /\ slots' = [slots EXCEPT ![p.id] = FreeSlot]
        /\ UNCHANGED toClient
     \/ /\ p.type \notin DOMAIN Answer /\ ~Awaited(p)
        /\ UNCHANGED <<slots, toClient>>
  /\ toBroker' = Tail(toBroker)
  /\ UNCHANGED <<clientVars, todo, delivered, unconfirmed, counts>>

-----------------------------------------------------------------------------
(* The client: publish(), subscribe() and unsubscribe().                    *)

\* _getNextPacketId: 0 is forbidden.
SuccId_wide(i) == i + 1                  \* fault: the wrap is forgotten
SuccId(i) == IF i = LastId THEN 1 ELSE i + 1

\* With no room in the send buffer they return 0 and change nothing.
Put(type, id) ==
  /\ connected /\ counts.sent < MaxSends
  /\ toBroker' = Append(toBroker, Pkt(type, id))
  /\ unconfirmed' = [unconfirmed EXCEPT ![id] = @ + 1]
  /\ counts' = [counts EXCEPT !.sent = @ + 1]
  /\ UNCHANGED <<connected, toSendAcks, pendingPubRels, toClient, brokerVars, delivered>>

\* The next id is taken whether or not a packet sent with it is still unconfirmed.
Request(type) ==
  /\ Put(type, nextPacketId)
  /\ nextPacketId' = SuccId(nextPacketId)

PublishType(qos) == IF qos = 1 THEN "PUBLISH1" ELSE "PUBLISH2"

PublishQoS(qos) == Request(PublishType(qos))

\* publish() with dup and a message_id: the caller's id is used, confirmed or not,
\* and _getNextPacketId is not called.  It may be of an earlier connection.
PublishAgain(qos, messageId) ==
  /\ Put(PublishType(qos), messageId)
  /\ UNCHANGED nextPacketId

Subscribe == Request("SUBSCRIBE")
Unsubscribe == Request("UNSUBSCRIBE")

-----------------------------------------------------------------------------
(* The client: _sendAcks.                                                   *)

\* The loop erases entry i and then increments i, so of n entries it sends the
\* first, the third, the fifth, ..., at most `room` of them, and keeps the rest.
Sendable_even(n) == n \div 2             \* fault: the last entry is not reached
Sendable(n) == (n + 1) \div 2

SentAcks(q, room) ==
  LET k == Min({room, Sendable(Len(q))})
  IN [j \in 1..k |-> q[2 * j - 1]]

KeptAcks_none(q, room) == <<>>           \* fault: the queue is cleared after the loop
KeptAcks(q, room) ==
  LET k == Min({room, Sendable(Len(q))})
  IN [j \in 1..(Len(q) - k) |-> IF j <= k THEN q[2 * j] ELSE q[j + k]]

\* _sendAcks on the queue q, with room for `room` acknowledgements.
Flush(q, room) ==
  /\ toBroker' = toBroker \o SentAcks(q, room)
  /\ toSendAcks' = KeptAcks(q, room)

Rooms == 0..2

\* _onPoll, every 500 ms.
Poll(room) ==
  /\ connected /\ toSendAcks # <<>>
  /\ Flush(toSendAcks, room)
  /\ UNCHANGED <<connected, pendingPubRels, nextPacketId, toClient, brokerVars,
                 delivered, unconfirmed, counts>>

-----------------------------------------------------------------------------
(* The client: one handler for each packet it receives.                     *)

Receiving(type) ==
  /\ connected /\ toClient # <<>>
  /\ Head(toClient).type = type
  /\ toClient' = Tail(toClient)

\* _onMessage and _onPublish with QoS 1: the PUBACK waits for the next poll.
OnPublish1 ==
  /\ Receiving("PUBLISH")
  /\ LET p == Head(toClient) IN
     /\ QoSOf[p.msg] = 1
     /\ delivered' = [delivered EXCEPT ![p.msg] = @ + 1]
     /\ toSendAcks' = Append(toSendAcks, Pkt("PUBACK", p.id))
  /\ UNCHANGED <<connected, pendingPubRels, nextPacketId, toBroker, brokerVars,
                 unconfirmed, counts>>

\* _onMessage and _onPublish with QoS 2: the message is passed on unless its id
\* is in _pendingPubRels, where it is then put.
PubRelPending_never(i) == FALSE          \* fault: duplicates are not looked for
PubRelPending(i) == i \in Range(pendingPubRels)

OnPublish2(room) ==
  /\ Receiving("PUBLISH")
  /\ LET p == Head(toClient) IN
     /\ QoSOf[p.msg] = 2
     /\ delivered' = [delivered EXCEPT ![p.msg] = IF PubRelPending(p.id) THEN @ ELSE @ + 1]
     /\ pendingPubRels' = IF PubRelPending(p.id) THEN pendingPubRels
                          ELSE Append(pendingPubRels, p.id)
     /\ Flush(Append(toSendAcks, Pkt("PUBREC", p.id)), room)
  /\ UNCHANGED <<connected, nextPacketId, brokerVars, unconfirmed, counts>>

\* _onPubRel: the id, which is there once at most, is erased from _pendingPubRels.
WithoutId_kept(q, i) == q                \* fault: it is not
WithoutId(q, i) == IF i \in Range(q) THEN RemoveAt(q, CHOOSE k \in DOMAIN q : q[k] = i) ELSE q

OnPubRel(room) ==
  /\ Receiving("PUBREL")
  /\ LET p == Head(toClient) IN
     /\ pendingPubRels' = WithoutId(pendingPubRels, p.id)
     /\ Flush(Append(toSendAcks, Pkt("PUBCOMP", p.id)), room)
  /\ UNCHANGED <<connected, nextPacketId, brokerVars, delivered, unconfirmed, counts>>

\* _onPubRec.
OnPubRec(room) ==
  /\ Receiving("PUBREC")
  /\ Flush(Append(toSendAcks, Pkt("PUBREL", Head(toClient).id)), room)
  /\ UNCHANGED <<connected, pendingPubRels, nextPacketId, brokerVars, delivered,
                 unconfirmed, counts>>

\* _onPubAck, _onPubComp, _onSubAck, _onUnsubAck: the callback with the id.
OnConfirmed(type) ==
  /\ Receiving(type)
  /\ unconfirmed' = [unconfirmed EXCEPT ![Head(toClient).id] = @ - 1]
  /\ UNCHANGED <<clientVars, toBroker, brokerVars, delivered, counts>>

OnPubAck == OnConfirmed("PUBACK")
OnPubComp == OnConfirmed("PUBCOMP")
OnSubAck == OnConfirmed("SUBACK")
OnUnsubAck == OnConfirmed("UNSUBACK")

OnAnswered == OnPubAck \/ OnPubComp \/ OnSubAck \/ OnUnsubAck

Client ==
  \/ ConnAck
  \/ \E qos \in {1, 2} : PublishQoS(qos) \/ \E i \in Ids : PublishAgain(qos, i)
  \/ Subscribe \/ Unsubscribe
  \/ OnPublish1
  \/ OnAnswered
  \/ \E room \in Rooms : \/ Poll(room)
                         \/ OnPublish2(room)
                         \/ OnPubRel(room)
                         \/ OnPubRec(room)

Broker ==
  \/ \E m \in Messages : BrokerPublish(m)
  \/ \E i \in Ids : BrokerResend(i)
  \/ BrokerReceive

Next == Client \/ Broker \/ Drop

Spec == Init /\ [][Next]_vars

\* The async task handles what arrives and is polled for ever; a poll in which
\* the send buffer has room for one acknowledgement comes again and again; the
\* broker answers.
Handling ==
  \/ OnPublish1 \/ OnAnswered
  \/ \E room \in Rooms : OnPublish2(room) \/ OnPubRel(room) \/ OnPubRec(room)

FairSpec ==
  /\ Spec
  /\ WF_vars(Handling)
  /\ WF_vars(\E room \in Rooms \ {0} : Poll(room))
  /\ WF_vars(BrokerReceive)

-----------------------------------------------------------------------------
(* Properties.                                                              *)

Types == {"PUBLISH", "PUBLISH1", "PUBLISH2", "PUBACK", "PUBREC", "PUBREL", "PUBCOMP",
          "SUBSCRIBE", "SUBACK", "UNSUBSCRIBE", "UNSUBACK"}
Packets == [type : Types, id : Ids, msg : Messages \cup {NoMessage}]

\* Every variable has its type; in particular every packet id is between 1 and
\* 65535 and _pendingPubRels has no id twice.
TypeOK ==
  /\ connected \in BOOLEAN
  /\ toSendAcks \in Seq(Packets) /\ toBroker \in Seq(Packets) /\ toClient \in Seq(Packets)
  /\ pendingPubRels \in Seq(Ids) /\ IsInjective(pendingPubRels)
  /\ nextPacketId \in Ids
  /\ slots \in [Ids -> [st : {"free", "sent", "released"}, msg : Messages \cup {NoMessage}]]
  /\ todo \subseteq Messages /\ unconfirmed \in [Ids -> Int]
  /\ delivered \in [Messages -> Nat]

\* Lines 501-574: however PUBLISH packets are repeated, acknowledgements delayed
\* and reordered by _sendAcks, and ids used again, a message is passed to the
\* onMessage callback once in a connection: never twice, and not suppressed for
\* an id left behind in _pendingPubRels.
DeliveredOnce ==
  \A m \in Messages :
    /\ delivered[m] <= 1
    /\ connected /\ m \notin todo /\ (\A p \in Range(toClient) : p.msg # m)
         => delivered[m] = 1

\* The packets and queue entries that carry a handshake of published id i on.
Carriers(i) ==
  LET in(q, types) == Cardinality({k \in DOMAIN q : q[k].id = i /\ q[k].type \in types})
  IN in(toBroker, {"PUBLISH1", "PUBLISH2", "PUBREL", "SUBSCRIBE", "UNSUBSCRIBE"})
     + in(toSendAcks, {"PUBREL"})
     + in(toClient, {"PUBACK", "PUBREC", "PUBCOMP", "SUBACK", "UNSUBACK"})

\* Lines 576-646 and 790-856: _sendAcks, which erases entries of the queue it is
\* walking over, loses no acknowledgement and sends none twice: of the packets
\* sent with an id and not confirmed, be the id used once or again (dup), each
\* has one packet or queue entry that brings it nearer to its callback, and
\* there are no more callbacks with an id than packets sent with it.
HandshakeKept == \A i \in Ids : Carriers(i) = unconfirmed[i]

\* Lines 459-461 and 619-646: though _sendAcks skips entries and stops when the
\* send buffer is full, every handshake ends: when the client stops publishing
\* and the broker has sent its messages, all packets sent, the ones sent again
\* too, are confirmed and all slots of the broker are free.
AllSettled == <>[](\A i \in Ids : unconfirmed[i] = 0 /\ slots[i].st = "free")
=============================================================================
