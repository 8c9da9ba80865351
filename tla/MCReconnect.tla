---------------------------- MODULE MCReconnect -----------------------------
(* Enough pcbs for the connections the bounds allow at one time.             *)
EXTENDS Reconnect

CONSTANTS p1, p2, p3, p4

MCPcbs == {p1, p2, p3, p4}
=============================================================================
