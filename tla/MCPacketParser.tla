--------------------------- MODULE MCPacketParser ---------------------------
(* Connections whose messages have topics as long as the buffer, one byte    *)
(* longer, and as long as _bytePosition can count; a payload that needs two  *)
(* bytes of remaining length, one of three; a refused connection.            *)
EXTENDS PacketParser

Accepted == Packet("CONNACK", 0, 0)

MCConnections == {
  <<Accepted, Message(0, 0, 4, 3), Packet("PUBACK", 259, 0), Message(1, 7, 5, 2),
    Packet("PINGRESP", 0, 0), Packet("PUBREL", 1, 0)>>,
  <<Accepted, Packet("SUBACK", 1, 128), Message(2, 300, 2, 0), Packet("UNSUBACK", 2, 0),
    Packet("PUBREC", 65535, 0)>>,
  <<Accepted, Message(1, 9, 252, 2), Message(0, 0, 254, 1), Packet("PUBCOMP", 512, 0)>>,
  <<Accepted, Message(0, 0, 3, 130), Message(2, 128, 1, 1)>>,
  <<Packet("CONNACK", 0, 5)>> }

\* A topic that is too long for the default of 128 bytes and for a uint8_t.
MCLongTopic == {<<Accepted, Message(1, 1, 253, 1), Packet("PUBACK", 1, 0)>>}
=============================================================================
