----------------------------- MODULE Monitoring -----------------------------
(***************************************************************************)
(* The monitoring page of test/ beside the running server.  index.php asks *)
(* api.php for data every two seconds, whether or not it has answered the  *)
(* last time; api.php runs two SELECTs, each a transaction of its own;     *)
(* cancel.php, behind the Reset button, sets the session's counters to     *)
(* zero while the server keeps incrementing them.                          *)
(*                                                                         *)
(* The time of a row is abstracted to the row's id, and the sets of ids of *)
(* an answer are intervals, for the rows of Times never change.            *)
(***************************************************************************)
EXTENDS Server

CONSTANTS
  Limit,      \* rows of Times in an answer (LIMIT 1000)
  MaxPolls,   \* bound: requests of the page
  MaxResets   \* bound: clicks on Reset

ASSUME MonitoringAssumption ==
  Limit \in Nat \ {0} /\ MaxPolls \in Nat /\ MaxResets \in Nat

Polls == 1..MaxPolls
Clients == {1, 2}    \* the two device ids the page has a chart for

VARIABLES
  asked,    \* number of requests the page has sent
  reqs,     \* per request: how far api.php is and what it has read
  page,     \* what the page shows
  mark,     \* history: per QoS, the rows of Times at the last reset
  resets    \* number of resets

monVars == <<asked, reqs, page, mark, resets>>

ZeroCounters == [QOS0Packets |-> 0, QOS1Packets |-> 0, packetsSent |-> 0]

\* done counts the queries that have returned; base is history: the rows that
\* the counters read do not count, since they are older than the last reset.
NoRequest == [st |-> "none", done |-> 0, upto |-> 0, counters |-> ZeroCounters, base |-> 0]

EmptyPage == [counters |-> ZeroCounters, charts |-> [d \in Clients |-> {}],
              upto |-> 0, loss |-> <<>>]

MonInit ==
  /\ Init
  /\ asked = 0 /\ resets = 0
  /\ reqs = [p \in Polls |-> NoRequest]
  /\ page = EmptyPage
  /\ mark = [q \in {0, 1} |-> 0]

RowsOfQoS(q) == {r \in DOMAIN times : times[r].packet.qos = q}

\* cancel.php: one UPDATE of the session's row.
ResetCounters_keepQoS0 ==               \* fault: a column is left out
  [session EXCEPT !.QOS1Packets = 0, !.packetsSent = 0]
ResetCounters == ZeroCounters

Reset ==
  /\ resets < MaxResets
  /\ resets' = resets + 1
  /\ session' = ResetCounters
  /\ mark' = [q \in {0, 1} |-> Cardinality(RowsOfQoS(q))]
  /\ UNCHANGED <<devices, times, memory, pubackSent, ep, loopVars, timerVars, history>>
  /\ UNCHANGED <<asked, reqs, page>>

\* update(): the next request is sent by the 2 s timeout, not by an answer.
Ask ==
  /\ asked < MaxPolls
  /\ asked' = asked + 1
  /\ reqs' = [reqs EXCEPT ![asked + 1].st = "sent"]
  /\ UNCHANGED <<vars, page, mark, resets>>

\* api.php: the two SELECTs, in this order.
Queries_swapped == <<"Sessions", "Times">>   \* fault: the other order
Queries == <<"Times", "Sessions">>

Query(p) ==
  /\ reqs[p].st = "sent" /\ reqs[p].done < Len(Queries)
  /\ \/ /\ Queries[reqs[p].done + 1] = "Times"
        /\ reqs' = [reqs EXCEPT ![p].done = @ + 1, ![p].upto = Len(times)]
     \/ /\ Queries[reqs[p].done + 1] = "Sessions"
        /\ reqs' = [reqs EXCEPT ![p].done = @ + 1, ![p].counters = session,
                                ![p].base = mark[0] + mark[1]]
  /\ UNCHANGED <<vars, asked, page, mark, resets>>

\* The last Limit rows of Times among the first n.
Window(n) == {r \in 1..n : r > n - Limit}

\* A request has one answer.
Answered_not(p) == reqs                  \* fault: its callback runs again
Answered(p) == [reqs EXCEPT ![p].st = "shown"]

\* success: the answer, whichever of the open requests it is for, is shown.
\* The rows of devices 1 and 2 go to the two charts, the others to none.
Show(p) ==
  /\ reqs[p].st = "sent" /\ reqs[p].done = Len(Queries)
  /\ reqs' = Answered(p)
  /\ LET a == reqs[p] IN
     page' = [counters |-> a.counters,
              charts |-> [d \in Clients |-> {r \in Window(a.upto) : times[r].deviceId = d}],
              upto |-> a.upto,
              loss |-> Append(page.loss, a.counters.QOS1Packets - a.counters.packetsSent)]
  /\ UNCHANGED <<vars, asked, mark, resets>>

Monitor == Ask \/ Reset \/ \E p \in Polls : Query(p) \/ Show(p)

ServerStep == Next /\ UNCHANGED monVars

MonNext == ServerStep \/ Monitor

MonSpec == MonInit /\ [][MonNext]_<<vars, monVars>>

\* The fairness of Server, with the page's requests and resets between.
MonFairSpec ==
  /\ MonSpec
  /\ WF_<<vars, monVars>>(Timer /\ UNCHANGED monVars)
  /\ WF_<<vars, monVars>>(Handler /\ UNCHANGED monVars)

-----------------------------------------------------------------------------
(* Properties.                                                              *)

\* Every variable of the page and the requests has its type, and PacketLoss(t)
\* has at most one point for each request.
MonTypeOK ==
  /\ asked \in 0..MaxPolls /\ resets \in 0..MaxResets
  /\ mark \in [{0, 1} -> Nat]
  /\ session \in [QOS0Packets : Nat, QOS1Packets : Nat, packetsSent : Nat]
  /\ \A p \in Polls : /\ reqs[p].st \in {"none", "sent", "shown"}
                      /\ reqs[p].done \in 0..2 /\ reqs[p].base \in Nat
                      /\ reqs[p].upto \in 0..Len(times)
  /\ page.loss \in Seq(Int) /\ Len(page.loss) <= asked
  /\ \A d \in Clients : page.charts[d] \subseteq DOMAIN times

\* cancel.php:16 against Main.kt:178-185: a reset at any moment of a flush or
\* of a retry costs no packet and adds none: the counters are the rows written
\* since the last reset.
CountersSinceReset ==
  /\ session.QOS0Packets = Cardinality(RowsOfQoS(0)) - mark[0]
  /\ session.QOS1Packets = Cardinality(RowsOfQoS(1)) - mark[1]

\* api.php:16-31: the two SELECTs may see different states of the database, but
\* an answer never has times of packets that its counters do not include,
\* unless a reset removed them.
TotalsCoverTimes ==
  \A p \in Polls : reqs[p].done = 2 =>
    reqs[p].counters.QOS0Packets + reqs[p].counters.QOS1Packets + reqs[p].base
      >= reqs[p].upto
=============================================================================
