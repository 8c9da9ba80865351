------------------------------ MODULE MCServer ------------------------------
(* Three connections, two of them from one address: a reconnection, a       *)
(* renaming and two devices at once.                                        *)
EXTENDS Server, TLC

CONSTANTS c1, c2, c3, i1, i2

MCConns == {c1, c2, c3}
MCIps == {i1, i2}
MCIpOf == (c1 :> i1) @@ (c2 :> i1) @@ (c3 :> i2)
=============================================================================
