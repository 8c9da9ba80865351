---------------------------- MODULE MCMqttClient ----------------------------
(* Two QoS 2 messages and one of QoS 1 over two packet ids, and two packets  *)
(* of the client's, published or published again, or repeated by the broker. *)
EXTENDS MqttClient

CONSTANTS m1, m2, m3

MCMessages == {m1, m2, m3}
MCQoSOf == (m1 :> 2) @@ (m2 :> 2) @@ (m3 :> 1)
=============================================================================
