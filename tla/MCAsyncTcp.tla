----------------------------- MODULE MCAsyncTcp -----------------------------
(* One client that connects and one that is accepted: events of one are kept *)
(* while the other's are removed.                                           *)
EXTENDS AsyncTcp

CONSTANTS c1, c2

MCClients == {c1, c2}
MCOutgoing == {c1}
=============================================================================
