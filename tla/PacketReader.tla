---------------------------- MODULE PacketReader ----------------------------
(***************************************************************************)
(* What AsyncMqttClient promises its handlers of the bytes a broker sends: *)
(* in each connection the handler of every packet is called once, in the   *)
(* order of the packets and with their contents, whatever the TCP segments *)
(* the packets were cut into and wherever the connection before it ended.  *)
(***************************************************************************)
EXTENDS Naturals, Sequences

CONSTANTS
  Connections,  \* what the broker may send in a connection
  Expected      \* the handler calls due to each

VARIABLES connection, calls

Init == connection \in Connections /\ calls = <<>>

Handle ==
  /\ Len(calls) < Len(Expected[connection])
  /\ calls' = Append(calls, Expected[connection][Len(calls) + 1])
  /\ UNCHANGED connection

Reconnect == connection' \in Connections /\ calls' = <<>>

Spec == Init /\ [][Handle \/ Reconnect]_<<connection, calls>>
=============================================================================
