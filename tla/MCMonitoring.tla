---------------------------- MODULE MCMonitoring ----------------------------
(* One device and two overlapping requests of the page, with a reset.       *)
EXTENDS Monitoring, TLC

CONSTANTS c1, i1, i2

MCOneConn == {c1}
MCOneIpOf == c1 :> i1
MCIps == {i1, i2}
=============================================================================
