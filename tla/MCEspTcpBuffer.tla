--------------------------- MODULE MCEspTcpBuffer ---------------------------
(* cbufs smaller than a write, and room in lwIP for less than two of them. *)
EXTENDS EspTcpBuffer
=============================================================================
