----------------------------- MODULE PacketLog ------------------------------
(***************************************************************************)
(* What the server promises about the packets it records: a write-behind   *)
(* log.  Packets are added one at a time; every so often all that are      *)
(* pending are stored, in one step that also credits the session's         *)
(* counters; the writer may stop for good, and then nothing more is        *)
(* stored, but nothing that was stored is lost.                            *)
(***************************************************************************)
EXTENDS Integers, FiniteSets

VARIABLES
  last,     \* serial number of the last packet added
  pending,  \* packets added and not yet stored: [no, qos]
  stored,   \* packets stored
  credit,   \* per QoS, the number of packets the session's row shows
  running   \* the writer is alive

logVars == <<last, pending, stored, credit, running>>

LogInit ==
  /\ last = 0
  /\ pending = {}
  /\ stored = {}
  /\ credit = [q \in {0, 1} |-> 0]
  /\ running = TRUE

Add(q) ==
  /\ last' = last + 1
  /\ pending' = pending \cup {[no |-> last + 1, qos |-> q]}
  /\ UNCHANGED <<stored, credit, running>>

OfQoS(q, P) == {p \in P : p.qos = q}

StoreAll ==
  /\ running
  /\ pending # {}
  /\ stored' = stored \cup pending
  /\ pending' = {}
  /\ credit' = [q \in {0, 1} |-> credit[q] + Cardinality(OfQoS(q, pending))]
  /\ UNCHANGED <<last, running>>

Stop ==
  /\ running
  /\ running' = FALSE
  /\ UNCHANGED <<last, pending, stored, credit>>

LogNext ==
  \/ \E q \in {0, 1} : Add(q)
  \/ StoreAll
  \/ Stop

LogSpec == LogInit /\ [][LogNext]_logVars
=============================================================================
