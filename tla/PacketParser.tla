---------------------------- MODULE PacketParser ----------------------------
(***************************************************************************)
(* AsyncMqttClient::_onData and the packet classes it delegates to: the    *)
(* bytes of a connection come in TCP segments and are parsed one at a time *)
(* (a message's payload in pieces), with the state of a packet kept from   *)
(* one segment to the next.  What the handlers do is in MqttClient; here a *)
(* call of one is an entry of `calls`.                                     *)
(*                                                                         *)
(* The bytes of a header have their values.  A byte of a topic or payload  *)
(* is told from the others by its place in the stream.  char is unsigned,  *)
(* as it is on the ESP32.                                                  *)
(***************************************************************************)
EXTENDS Integers, Sequences, FiniteSets, SequencesExt

CONSTANTS
  Connections,     \* what a broker may send: sequences of packets
  SegmentSizes,    \* bytes that one segment may bring
  MaxTopicLength,  \* setMaxTopicLength, 128 by default
  MaxLosses        \* bound: connections that are lost

ASSUME ParserAssumption ==
  /\ \A n \in SegmentSizes : n \in Nat \ {0}
  /\ MaxTopicLength \in Nat /\ MaxLosses \in Nat

VARIABLES
  bufferState,     \* _parsingInformation.bufferState
  packet,          \* _currentParsedPacket
  remainingLength, \* _parsingInformation.remainingLength
  lengthBuffer,    \* _remainingLengthBuffer
  lengthPosition,  \* _remainingLengthBufferPosition
  topicBuffer,     \* _parsingInformation.topicBuffer: places of bytes, 0 ends a topic
  connection,      \* what the broker sends in this connection
  pos,             \* bytes of it that have been parsed
  segment,         \* bytes of it that have arrived
  calls,           \* history: handlers called in this connection
  leaked,          \* history: packet objects lost in this connection
  losses           \* bound: connections lost so far

lengthVars == <<lengthBuffer, lengthPosition>>
parserVars == <<bufferState, packet, remainingLength, lengthVars, topicBuffer>>
vars == <<parserVars, connection, pos, segment, calls, leaked, losses>>

-----------------------------------------------------------------------------
(* The broker (external): packets and their bytes.                          *)

Packet(type, id, code) ==
  [type |-> type, id |-> id, code |-> code, qos |-> 0, topic |-> 0, payload |-> 0]
Message(qos, id, topic, payload) ==
  [type |-> "PUBLISH", id |-> id, code |-> 0, qos |-> qos, topic |-> topic, payload |-> payload]

TypeCode ==
  [CONNACK |-> 2, PUBLISH |-> 3, PUBACK |-> 4, PUBREC |-> 5, PUBREL |-> 6,
   PUBCOMP |-> 7, SUBACK |-> 9, UNSUBACK |-> 11, PINGRESP |-> 13]

TwoBytes(n) == <<n \div 256, n % 256>>
Bytes(n) == [i \in 1..n |-> 84]

Body(p) ==
  CASE p.type = "CONNACK"  -> <<0, p.code>>
    [] p.type = "PINGRESP" -> <<>>
    [] p.type = "SUBACK"   -> Append(TwoBytes(p.id), p.code)
    [] p.type = "PUBLISH"  -> TwoBytes(p.topic) \o Bytes(p.topic)
                              \o (IF p.qos = 0 THEN <<>> ELSE TwoBytes(p.id))
                              \o Bytes(p.payload)
    [] OTHER               -> TwoBytes(p.id)

\* The remaining length by MQTT's definition: digits of base 128, the lowest
\* first, each but the last with 128 added.
Place == <<1, 128, 16384, 2097152, 268435456>>
Digits(n) == Min({k \in 1..4 : n < Place[k + 1]})
RemainingLength(n) ==
  [i \in 1..Digits(n) |-> ((n \div Place[i]) % 128) + (IF i < Digits(n) THEN 128 ELSE 0)]

Header(p) == <<16 * TypeCode[p.type] + 2 * p.qos>> \o RemainingLength(Len(Body(p)))

\* The bytes of the first n packets of a connection.
First(c, n) == FlattenSeq([i \in 1..n |-> Header(c[i]) \o Body(c[i])])
Wire == [c \in Connections |-> First(c, Len(c))]

\* Where the packets of a connection end: after packet i, Ends[c][i + 1] bytes.
Ends == [c \in Connections |-> [i \in 1..(Len(c) + 1) |-> Len(First(c, i - 1))]]

\* What MQTT lets a broker send: it begins with a CONNACK, a topic has a byte or
\* more, and a remaining length has up to four.
Packets ==
  [type : DOMAIN TypeCode, id : Nat, code : Nat, qos : 0..2, topic : Nat, payload : Nat]

Allowed(p) ==
  /\ p.id < 65536 /\ p.topic < 65536 /\ p.code < 256
  /\ IF p.type = "PUBLISH" THEN p.topic > 0 ELSE p.qos = 0
  /\ p.type \in {"CONNACK", "PINGRESP"} => p.id = 0
  /\ p.type \notin {"CONNACK", "SUBACK"} => p.code = 0
  /\ Len(Body(p)) < Place[5]

ASSUME BrokerAssumption ==
  \A c \in Connections :
    /\ c \in Seq(Packets)
    /\ \A i \in DOMAIN c : Allowed(c[i]) /\ (c[i].type = "CONNACK" <=> i = 1)

-----------------------------------------------------------------------------
(* The parser: between packets, and when a connection ends.                 *)

NoPacket == [type |-> "none"]

\* The constructors: ConnAckPacket, ..., PublishPacket.
New(type, flags) ==
  [type |-> type, qos |-> flags \div 2, at |-> 0, msb |-> 0, topicLength |-> 0,
   ignore |-> FALSE, id |-> 0, payloadLength |-> 0, read |-> 0]

Call(type, id, code) == [type |-> type, id |-> id, code |-> code]
MessageCall(p, topic, payload) ==
  [type |-> "PUBLISH", id |-> p.id, code |-> p.qos, topic |-> topic, payload |-> payload]

Init ==
  /\ bufferState = "NONE" /\ packet = NoPacket /\ remainingLength = 0
  /\ lengthBuffer = [i \in 0..3 |-> 0] /\ lengthPosition = 0
  /\ topicBuffer = [i \in 0..MaxTopicLength |-> 0]
  /\ connection \in Connections /\ pos = 0 /\ segment = 0
  /\ calls = <<>> /\ leaked = 0 /\ losses = 0

\* _onDisconnect, and the next connection.  _clear resets bufferState and frees the
\* packet; _remainingLengthBufferPosition keeps its value.
Lose ==
  /\ pos = segment /\ losses < MaxLosses
  /\ losses' = losses + 1
  /\ bufferState' = "NONE" /\ packet' = NoPacket
  /\ connection' \in Connections
  /\ pos' = 0 /\ segment' = 0 /\ calls' = <<>> /\ leaked' = 0
  /\ UNCHANGED <<remainingLength, lengthVars, topicBuffer>>

\* _onData is called with n more bytes, or the rest of what the broker sends.
Receive(n) ==
  /\ pos = segment /\ segment < Len(Wire[connection])
  /\ segment' = Min({segment + n, Len(Wire[connection])})
  /\ UNCHANGED <<parserVars, connection, pos, calls, leaked, losses>>

byte == Wire[connection][pos + 1]

Reading(state) ==
  /\ pos < segment /\ bufferState = state
  /\ UNCHANGED <<connection, segment, losses>>

\* The first byte makes the packet object; one still there is lost.
ParseHeader ==
  /\ Reading("NONE")
  /\ pos' = pos + 1
  /\ bufferState' = "REMAINING_LENGTH"
  /\ \/ \E type \in DOMAIN TypeCode :
          /\ TypeCode[type] = byte \div 16
          /\ packet' = New(type, byte % 16)
          /\ leaked' = IF packet = NoPacket THEN leaked ELSE leaked + 1
     \/ /\ \A type \in DOMAIN TypeCode : TypeCode[type] # byte \div 16
        /\ UNCHANGED <<packet, leaked>>
  /\ UNCHANGED <<remainingLength, lengthVars, topicBuffer, calls>>

\* Helpers::decodeRemainingLength.
Decoded(bytes) ==
  LET from[i \in 0..4] ==
        IF i > 3 THEN 0
        ELSE (bytes[i] % 128) + (IF bytes[i] >= 128 THEN 128 * from[i + 1] ELSE 0)
  IN from[0]

PositionAfterLength_kept == lengthPosition + 1  \* fault: not reset with the last byte
PositionAfterLength == 0

ParseMoreLength ==
  /\ Reading("REMAINING_LENGTH") /\ byte >= 128
  /\ pos' = pos + 1
  /\ lengthBuffer' = [lengthBuffer EXCEPT ![lengthPosition] = byte]
  /\ lengthPosition' = lengthPosition + 1
  /\ UNCHANGED <<bufferState, packet, remainingLength, topicBuffer, calls, leaked>>

\* A packet with nothing more is taken for a PINGRESP.
ParseLength ==
  /\ Reading("REMAINING_LENGTH") /\ byte < 128
  /\ pos' = pos + 1
  /\ lengthBuffer' = [lengthBuffer EXCEPT ![lengthPosition] = byte]
  /\ lengthPosition' = PositionAfterLength
  /\ remainingLength' = Decoded(lengthBuffer')
  /\ \/ /\ remainingLength' > 0
        /\ bufferState' = "VARIABLE_HEADER"
        /\ UNCHANGED <<packet, calls>>
     \/ /\ remainingLength' = 0
        /\ bufferState' = "NONE" /\ packet' = NoPacket
        /\ calls' = Append(calls, Call("PINGRESP", 0, 0))
  /\ UNCHANGED <<topicBuffer, leaked>>

-----------------------------------------------------------------------------
(* The packets with a fixed length.                                         *)

ReadingPacket(state, type) ==
  /\ Reading(state) /\ packet.type = type
  /\ UNCHANGED <<remainingLength, lengthVars, leaked>>

\* The last byte of a packet: the state is NONE again and the handler is called,
\* which frees the packet.
Finish(call) ==
  /\ bufferState' = "NONE" /\ packet' = NoPacket
  /\ calls' = Append(calls, call)

\* The first of two bytes is kept.
FirstByte ==
  /\ packet' = [packet EXCEPT !.at = 1, !.msb = byte]
  /\ UNCHANGED <<bufferState, calls>>

IdRead == byte + 256 * packet.msb

\* parseVariableHeader of PubAckPacket, PubRecPacket, ...: the packet id.
ParseId(type) ==
  /\ ReadingPacket("VARIABLE_HEADER", type)
  /\ pos' = pos + 1
  /\ \/ packet.at = 0 /\ FirstByte
     \/ packet.at # 0 /\ Finish(Call(type, IdRead, 0))
  /\ UNCHANGED topicBuffer

ParsePubAck == ParseId("PUBACK")
ParsePubRec == ParseId("PUBREC")
ParsePubRel == ParseId("PUBREL")
ParsePubComp == ParseId("PUBCOMP")
ParseUnsubAck == ParseId("UNSUBACK")

\* ConnAckPacket; a refusal makes _onConnAck call _clear, which frees it too.
ParseConnAck ==
  /\ ReadingPacket("VARIABLE_HEADER", "CONNACK")
  /\ pos' = pos + 1
  /\ \/ packet.at = 0 /\ FirstByte
     \/ packet.at # 0 /\ Finish(Call("CONNACK", 0, byte))
  /\ UNCHANGED topicBuffer

\* SubAckPacket: the packet id, then one status byte as payload.
ParseSubAckId ==
  /\ ReadingPacket("VARIABLE_HEADER", "SUBACK")
  /\ pos' = pos + 1
  /\ \/ packet.at = 0 /\ FirstByte
     \/ /\ packet.at # 0
        /\ packet' = [packet EXCEPT !.id = IdRead]
        /\ bufferState' = "PAYLOAD" /\ UNCHANGED calls
  /\ UNCHANGED topicBuffer

ParseSubAckStatus ==
  /\ ReadingPacket("PAYLOAD", "SUBACK")
  /\ pos' = pos + 1
  /\ Finish(Call("SUBACK", packet.id, byte))
  /\ UNCHANGED topicBuffer

-----------------------------------------------------------------------------
(* PublishPacket.                                                           *)

\* _bytePosition is a uint8_t.
NextPosition_7bits(n) == (n + 1) % 128  \* fault: half of its range
NextPosition(n) == (n + 1) % 256

Ignored_atMaximum(n) == n >= MaxTopicLength  \* fault: >= for >
Ignored(n) == n > MaxTopicLength

\* The end of a topic of n bytes is marked before its bytes have come.
EndMarked_not(n) == topicBuffer         \* fault: it is not marked
EndMarked(n) == [topicBuffer EXCEPT ![n] = 0]

ParseTopicLength ==
  /\ ReadingPacket("VARIABLE_HEADER", "PUBLISH") /\ packet.at < 2
  /\ pos' = pos + 1
  /\ \/ /\ packet.at = 0
        /\ packet' = [packet EXCEPT !.at = 1, !.msb = byte]
        /\ UNCHANGED topicBuffer
     \/ /\ packet.at = 1
        /\ packet' = [packet EXCEPT !.at = 2, !.topicLength = IdRead,
                                    !.ignore = packet.ignore \/ Ignored(IdRead)]
        /\ topicBuffer' = IF Ignored(IdRead) THEN topicBuffer ELSE EndMarked(IdRead)
  /\ UNCHANGED <<bufferState, calls>>

\* The topic a handler finds in _parsingInformation.topicBuffer.
Topic(buffer) == [i \in 1..Min({j \in DOMAIN buffer : buffer[j] = 0}) |-> buffer[i - 1]]

\* The end of a message: _onMessage has had all pieces, _onPublish frees the
\* packet.  An ignored message has no calls, and its packet is not freed.
Complete(p, payload) ==
  /\ bufferState' = "NONE"
  /\ \/ p.ignore /\ packet' = p /\ UNCHANGED calls
     \/ /\ ~p.ignore /\ packet' = NoPacket
        /\ calls' = Append(calls, MessageCall(p, Topic(topicBuffer'), payload))

\* _preparePayloadHandling.
PreparePayload(p) ==
  LET n == remainingLength - (packet.at + 1) IN
  \/ n = 0 /\ Complete(p, <<0, 0>>)
  \/ n # 0 /\ bufferState' = "PAYLOAD" /\ packet' = [p EXCEPT !.payloadLength = n]
     /\ UNCHANGED calls

LastOfTopic == packet.at = packet.topicLength + 1

ParseTopic ==
  /\ ReadingPacket("VARIABLE_HEADER", "PUBLISH")
  /\ packet.at \in 2..(packet.topicLength + 1)
  /\ pos' = pos + 1
  /\ topicBuffer' = IF packet.ignore THEN topicBuffer
                    ELSE [topicBuffer EXCEPT ![packet.at - 2] = pos + 1]
  /\ \/ LastOfTopic /\ packet.qos = 0 /\ PreparePayload(packet)
     \/ /\ ~(LastOfTopic /\ packet.qos = 0)
        /\ packet' = [packet EXCEPT !.at = NextPosition(@)]
        /\ UNCHANGED <<bufferState, calls>>

ParseMessageId ==
  /\ ReadingPacket("VARIABLE_HEADER", "PUBLISH")
  /\ packet.at > packet.topicLength + 1
  /\ pos' = pos + 1 /\ UNCHANGED topicBuffer
  /\ \/ /\ packet.at = packet.topicLength + 2
        /\ packet' = [packet EXCEPT !.msb = byte, !.at = NextPosition(@)]
        /\ UNCHANGED <<bufferState, calls>>
     \/ /\ packet.at # packet.topicLength + 2
        /\ PreparePayload([packet EXCEPT !.id = IdRead])

\* parsePayload: a piece up to the end of the segment or of the message, with
\* its index, from which a handler knows where the message began.  The message
\* is an entry of calls when its last piece is given: onMessage's calls for the
\* others, also those of a message that is cut off, are not told apart.
PieceEnd == Min({segment, pos + packet.payloadLength - packet.read})

ParsePayload ==
  /\ ReadingPacket("PAYLOAD", "PUBLISH")
  /\ pos' = PieceEnd /\ UNCHANGED topicBuffer
  /\ LET p == [packet EXCEPT !.read = @ + PieceEnd - pos] IN
     \/ p.read = p.payloadLength /\ Complete(p, <<pos - packet.read, PieceEnd>>)
     \/ p.read # p.payloadLength /\ packet' = p /\ UNCHANGED <<bufferState, calls>>

Parse ==
  \/ ParseHeader \/ ParseMoreLength \/ ParseLength
  \/ ParseConnAck \/ ParseSubAckId \/ ParseSubAckStatus
  \/ ParsePubAck \/ ParsePubRec \/ ParsePubRel \/ ParsePubComp \/ ParseUnsubAck
  \/ ParseTopicLength \/ ParseTopic \/ ParseMessageId \/ ParsePayload

Next == Parse \/ Lose \/ \E n \in SegmentSizes : Receive(n)

Spec == Init /\ [][Next]_vars

-----------------------------------------------------------------------------
(* Properties.                                                              *)

TooLong(p) == p.type = "PUBLISH" /\ p.topic > MaxTopicLength

\* The calls due to a connection: for each packet but the messages whose topic
\* is too long one, with the places of a message's topic and payload.
CallFor(c, i) ==
  LET p == c[i]
      payloadFrom == Ends[c][i + 1] - p.payload
      topicFrom == payloadFrom - p.topic - (IF p.qos = 0 THEN 0 ELSE 2)
  IN IF p.type = "PUBLISH"
     THEN MessageCall([id |-> IF p.qos = 0 THEN 0 ELSE p.id, qos |-> p.qos],
                      [k \in 1..p.topic |-> topicFrom + k],
                      IF p.payload = 0 THEN <<0, 0>> ELSE <<payloadFrom, Ends[c][i + 1]>>)
     ELSE Call(p.type, p.id, p.code)

Due == [c \in Connections |->
          [k \in 0..Len(c) |->
             FlattenSeq([i \in 1..k |-> IF TooLong(c[i]) THEN <<>> ELSE <<CallFor(c, i)>>])]]

\* Every variable has its type; in particular _remainingLengthBuffer, of four
\* bytes, is never written behind its end, though connections that are lost
\* inside a remaining length leave _remainingLengthBufferPosition as it is.
TypeOK ==
  /\ bufferState \in {"NONE", "REMAINING_LENGTH", "VARIABLE_HEADER", "PAYLOAD"}
  /\ packet.type \in {"none"} \cup DOMAIN TypeCode
  /\ remainingLength \in Nat
  /\ lengthBuffer \in [0..3 -> 0..255] /\ lengthPosition \in 0..3
  /\ topicBuffer \in [0..MaxTopicLength -> Nat]
  /\ connection \in Connections
  /\ segment \in 0..Len(Wire[connection]) /\ pos \in 0..segment
  /\ leaked \in Nat /\ losses \in 0..MaxLosses

\* Lines 372-441 with the packet classes implement PacketReader: however a
\* connection is cut into segments, and in whatever byte of a packet, of its
\* header or remaining length the one before was lost, each packet's handler is
\* called once, in order and with the packet's contents; a message whose topic
\* is longer than setMaxTopicLength is left out.
Reader == INSTANCE PacketReader WITH Expected <- [c \in Connections |-> Due[c][Len(c)]]
ReaderSpec == Reader!Spec

\* The parser is between packets exactly at the end of one, and has by then
\* called the handlers of all packets before: none is late by a segment, and no
\* payload, and no topic that _bytePosition can count, makes it take the wrong
\* byte for a header.
InSync ==
  /\ bufferState = "NONE" <=> \E i \in DOMAIN Ends[connection] : Ends[connection][i] = pos
  /\ \A i \in DOMAIN Ends[connection] :
       Ends[connection][i] = pos => calls = Due[connection][i - 1]

\* Packet objects are freed by their handlers, so that only ignored messages,
\* which have none, are lost: one for each with a packet after it.
OnlyIgnoredLeak ==
  leaked = Cardinality({i \in DOMAIN connection :
                          TooLong(connection[i]) /\ Ends[connection][i + 1] < pos})

\* docs/2.-API-reference.md:29-30, a message "with a topic longer than this
\* maximum ... will be ignored": when its bytes have been parsed, however many,
\* the parser is ready for the next packet and has called nothing for it.
LongTopicIgnored ==
  \A i \in DOMAIN connection :
    TooLong(connection[i]) /\ Ends[connection][i + 1] = pos
      => bufferState = "NONE" /\ calls = Due[connection][i]
=============================================================================
