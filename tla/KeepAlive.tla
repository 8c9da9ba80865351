----------------------------- MODULE KeepAlive ------------------------------
(***************************************************************************)
(* The keep-alive of the AsyncMqttClient library: _onPoll with _sendPing   *)
(* and _sendDisconnect, below the AsyncTCP library's _poll, against a      *)
(* sketch that publishes and a server that may fall silent without closing *)
(* the connection.                                                         *)
(*                                                                         *)
(* Time is counted in polls of lwIP, 500 ms each; a clock the code reads   *)
(* as millis() - t is kept as the number of polls since t.  The send       *)
(* buffer has room for a few packets, each one unit: a unit is in use      *)
(* until the server's TCP acknowledges it.  lwIP's own limit on            *)
(* retransmissions, which ends a connection after minutes, is left out.    *)
(***************************************************************************)
EXTENDS Integers

CONSTANTS
  KeepAlivePolls,  \* _keepAlive in polls (4 s: 8)
  AckTimeout,      \* _ack_timeout in polls (5 s: 10)
  Buffer,          \* packets the send buffer holds
  MaxDelay         \* polls until a living server has received and answered, in time

ASSUME KeepAliveAssumption ==
  /\ KeepAlivePolls \in Nat \ {0} /\ AckTimeout \in Nat \ {0} /\ Buffer \in Nat \ {0}
  /\ MaxDelay \in Nat \ {0} /\ MaxDelay < 2 * KeepAlivePolls

\* (millis() - t) >= _keepAlive * 1000 * 0.7, in polls: the next whole number.
PingAfter == (7 * KeepAlivePolls + 9) \div 10

\* (millis() - t) >= _keepAlive * 1000 * 2.
GiveUpAfter_early == KeepAlivePolls + KeepAlivePolls \div 2  \* fault: 1.5 of them
GiveUpAfter == 2 * KeepAlivePolls

\* The server closes a connection it hears nothing from for 1.5 keep-alives.
ServerPatience == KeepAlivePolls + KeepAlivePolls \div 2

NoPing == -1
NotBusy == -1

\* Bound: clocks stop here, past every limit they are compared with.
Forever == PingAfter + GiveUpAfter + MaxDelay + 3
Later(t) == IF t < Forever THEN t + 1 ELSE t

VARIABLES
  connected,       \* _connected
  flagged,         \* _disconnectFlagged
  sinceClient,     \* polls since _lastClientActivity
  sinceServer,     \* polls since _lastServerActivity
  sincePing,       \* polls since _lastPingRequestTime, NoPing when that is 0
  sinceSent,       \* polls since _pcb_sent_at, NotBusy when not _pcb_busy
  used,            \* units of the send buffer in use
  oldest,          \* network: polls that the oldest unit has been under way
  pongDue,         \* network: a PINGREQ is among the units
  alive,           \* the server is there
  sinceHeard,      \* server: polls since it received a packet
  sinceDead,       \* history: polls since the server fell silent
  starved          \* history: the client lacked room at a poll since then

clientVars == <<connected, flagged, sinceClient, sinceServer, sincePing>>
netVars == <<sinceSent, used, oldest, pongDue>>
serverVars == <<alive, sinceHeard, sinceDead, starved>>
vars == <<clientVars, netVars, serverVars>>

\* After CONNACK.
Init ==
  /\ connected = TRUE /\ flagged = FALSE
  /\ sinceClient = 0 /\ sinceServer = 0 /\ sincePing = NoPing
  /\ sinceSent = NotBusy /\ used = 0 /\ oldest = 0 /\ pongDue = FALSE
  /\ alive = TRUE /\ sinceHeard = 0 /\ sinceDead = 0 /\ starved = FALSE

\* Small packets need little room; a buffer without a free unit has none.
Room_always == TRUE                      \* fault: space() is not asked
Room == used < Buffer

\* add() and send() of one packet.
Send == used' = used + 1 /\ sinceSent' = 0

-----------------------------------------------------------------------------

\* publish() in the sketch's loop: with no room it returns 0.
Publish ==
  /\ connected /\ Room
  /\ Send
  /\ sinceClient' = 0
  /\ UNCHANGED <<connected, flagged, sinceServer, sincePing, oldest, pongDue, serverVars>>

\* Everything under way is acknowledged: TCP frees the buffer, _sent clears
\* _pcb_busy.
Acknowledged == sinceSent' = NotBusy /\ used' = 0 /\ oldest' = 0

\* The living server receives everything under way and answers: a PINGRESP or
\* PUBACK updates _lastServerActivity (a QoS 0 PUBLISH has no answer), a PINGRESP
\* clears _lastPingRequestTime.
Receive ==
  /\ connected /\ alive /\ used > 0
  /\ Acknowledged /\ pongDue' = FALSE
  /\ sinceHeard' = 0
  /\ sinceServer' = 0 \/ (~pongDue /\ UNCHANGED sinceServer)
  /\ sincePing' = IF pongDue THEN NoPing ELSE sincePing
  /\ UNCHANGED <<connected, flagged, sinceClient, alive, sinceDead, starved>>

\* The server or the path to it is gone; nothing tells the client.
FallSilent ==
  /\ alive /\ connected
  /\ alive' = FALSE
  /\ UNCHANGED <<clientVars, netVars, sinceHeard, sinceDead, starved>>

-----------------------------------------------------------------------------
(* A poll: half a second passes, then AsyncClient::_poll runs.              *)

\* Nothing was acknowledged for 5 s: _poll reports a timeout, once for every
\* packet sent, instead of calling _onPoll.
AckTimedOut == sinceSent # NotBusy /\ Later(sinceSent) >= AckTimeout

\* A second PINGREQ is not sent while one is unanswered.  The client has sent
\* nothing for 0.7 keep-alives, or has heard nothing for as long.
PingWanted_byClient ==                   \* fault: only its own silence counts
  sincePing = NoPing /\ Later(sinceClient) >= PingAfter
PingWanted_late ==                       \* fault: after the whole of 1.5 keep-alives
  sincePing = NoPing /\ (Later(sinceClient) > ServerPatience \/ Later(sinceServer) > ServerPatience)
PingWanted ==
  sincePing = NoPing /\ (Later(sinceClient) >= PingAfter \/ Later(sinceServer) >= PingAfter)

PingTimedOut == sincePing # NoPing /\ Later(sincePing) >= GiveUpAfter

Waiting(t) == IF t = -1 THEN -1 ELSE Later(t)

PollTimeout ==
  /\ AckTimedOut
  /\ sinceSent' = NotBusy
  /\ sinceClient' = Later(sinceClient) /\ sincePing' = Waiting(sincePing)
  /\ UNCHANGED <<connected, flagged, used, pongDue>>

\* The last lines of _onPoll: a disconnect that found no room is sent.
HandleDisconnect(room) ==
  /\ connected' = ~(flagged /\ room)
  /\ flagged' = (flagged /\ ~room)

\* _sendPing, or nothing when there is no room.
PollPing ==
  /\ ~AckTimedOut /\ PingWanted /\ Room
  /\ Send
  /\ pongDue' = TRUE
  /\ sinceClient' = 0 /\ sincePing' = 0
  /\ HandleDisconnect(used + 1 < Buffer)

PollIdle ==
  /\ ~AckTimedOut /\ ~PingTimedOut /\ ~(PingWanted /\ Room)
  /\ sinceSent' = Waiting(sinceSent)
  /\ sinceClient' = Later(sinceClient) /\ sincePing' = Waiting(sincePing)
  /\ HandleDisconnect(Room)
  /\ UNCHANGED <<used, pongDue>>

\* disconnect(): _sendDisconnect closes the connection if there is room; if
\* not, send() is called with nothing to send and the next poll tries again.
PollGiveUp ==
  /\ ~AckTimedOut /\ PingTimedOut
  /\ connected' = ~Room
  /\ flagged' = ~Room
  /\ sinceSent' = 0
  /\ sinceClient' = Later(sinceClient) /\ sincePing' = Later(sincePing)
  /\ UNCHANGED <<used, pongDue>>

\* Time passes for a living server only as fast as it receives in time.
InTime == ~alive \/ used = 0 \/ oldest < MaxDelay

Poll ==
  /\ connected /\ InTime
  /\ PollTimeout \/ PollPing \/ PollIdle \/ PollGiveUp
  /\ sinceServer' = Later(sinceServer)
  /\ oldest' = IF used > 0 THEN Later(oldest) ELSE 0
  /\ sinceHeard' = Later(sinceHeard)
  /\ sinceDead' = IF alive THEN 0 ELSE Later(sinceDead)
  /\ starved' = (starved \/ (~alive /\ ~Room))
  /\ UNCHANGED alive

Next == Publish \/ Receive \/ FallSilent \/ Poll

Spec == Init /\ [][Next]_vars

-----------------------------------------------------------------------------
(* Properties.                                                              *)

\* Every clock and the buffer stay within their bounds.
TypeOK ==
  /\ connected \in BOOLEAN /\ flagged \in BOOLEAN /\ alive \in BOOLEAN
  /\ starved \in BOOLEAN /\ pongDue \in BOOLEAN
  /\ used \in 0..Buffer /\ oldest \in 0..Forever
  /\ sincePing \in {NoPing} \cup 0..Forever /\ sinceSent \in {NotBusy} \cup 0..Forever
  /\ \A t \in {sinceClient, sinceServer, sinceHeard, sinceDead} : t \in 0..Forever

\* Lines 450-457, "ensure the server will receive at least one message inside
\* keepalive window": a server that is there never waits longer than it allows,
\* whether the sketch publishes or not and however full the buffer is, but while a
\* packet has been under way for all that the factor 0.7 leaves of its patience.
ServerHearsInTime ==
  connected /\ alive /\ PingAfter + oldest < ServerPatience => sinceHeard < ServerPatience

\* Lines 446-449 and 471-474: a connection to a server that answers before the
\* limit of two keep-alives is never given up, though acknowledgement timeouts
\* come between and no other PINGREQ is sent meanwhile.
NeverGivesUpOnLiving == alive => connected /\ ~flagged

\* Lines 446-457: a connection whose server has fallen silent is closed within
\* 2.7 keep-alives and one poll, whatever the sketch publishes into it and though
\* acknowledgement timeouts take the place of polls, if the client always finds
\* room to send.
HalfOpenClosedGivenRoom ==
  ~starved /\ sinceDead > PingAfter + GiveUpAfter + 1 => ~connected
=============================================================================
