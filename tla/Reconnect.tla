------------------------------ MODULE Reconnect ------------------------------
(***************************************************************************)
(* How the firmware gets and keeps its connection: the Wi-Fi events and    *)
(* the two timers of MQTT/src/main.cpp, the life of a connection in        *)
(* AsyncMqttClient and AsyncTCP, and the tasks that share them without a   *)
(* lock: the Arduino event task, the timer daemon, lwIP's thread, and the  *)
(* async task that takes events from AsyncTCP's queue.                     *)
(*                                                                         *)
(* connect() leaves _pcb alone until the CONNECTED event is handled, so    *)
(* there may be several pcbs whose callbacks have the one AsyncClient as   *)
(* their argument.  Events for keep-alives and data of an established      *)
(* MQTT session are left to the modules KeepAlive and MqttClient; the      *)
(* limit of the queue and the order _remove_events_with_arg leaves behind  *)
(* are not modelled.  Wi-Fi, lwIP and the server are external.             *)
(***************************************************************************)
EXTENDS Integers, Sequences, SequencesExt

CONSTANTS
  Pcbs,       \* lwIP's protocol control blocks
  MaxLosses,  \* bound: STA_DISCONNECTED events
  MaxFails    \* bound: connections that fail, are closed, or whose server vanishes

ASSUME ReconnectBounds == MaxLosses \in Nat /\ MaxFails \in Nat

NoPcb == {}

ASSUME PcbAssumption == NoPcb \notin Pcbs

VARIABLES
  wifi,       \* WiFi.isConnected()
  joining,    \* the station is trying to join the network
  evPc,       \* event task: idle, or about to run WiFiEvent for an event
  wifiTimer,  \* wifiReconnectTimer is running
  mqttTimer,  \* mqttReconnectTimer: off, running, or its second is over
  pcbs,       \* lwIP's state of each pcb, and the MQTT handshake on it
  _pcb,       \* AsyncClient::_pcb
  connected,  \* AsyncMqttClient::_connected
  queue,      \* _async_queue
  asyncPc,    \* async task: idle, or inside onMqttDisconnect
  overlapped, \* history: an attempt began with another, or its events, not over
  losses,     \* STA_DISCONNECTED events so far
  fails       \* failures so far

wifiVars == <<wifi, joining, evPc, wifiTimer, losses>>
clientVars == <<_pcb, connected, queue, asyncPc>>
pcbVars == <<pcbs, overlapped>>
vars == <<wifiVars, mqttTimer, pcbVars, clientVars, fails>>

\* st is lwIP's state: CLOSED, SYN_SENT, ESTABLISHED, CLOSE_WAIT; wired says
\* that the callbacks have the client as their argument; mqtt is how far the
\* handshake is (the server's TCP has taken the CONNECT; the CONNACK is sent);
\* gone says that nothing will come from the server any more.
Free == [st |-> "free", wired |-> FALSE, mqtt |-> "none", gone |-> FALSE]
Syn == [Free EXCEPT !.st = "syn", !.wired = TRUE]

Event(name, p) == [event |-> name, pcb |-> p]
Clear == Event("CLEAR", NoPcb)

\* setup(): connectToWifi().
Init ==
  /\ wifi = "down" /\ joining = TRUE /\ evPc = "idle"
  /\ wifiTimer = FALSE /\ mqttTimer = "off"
  /\ pcbs = [p \in Pcbs |-> Free]
  /\ _pcb = NoPcb /\ connected = FALSE
  /\ queue = <<>> /\ asyncPc = "idle"
  /\ overlapped = FALSE /\ losses = 0 /\ fails = 0

-----------------------------------------------------------------------------
(* connectToMqtt, by the event task or the timer daemon.                    *)

\* connect() returns without a word.
Refused_connected == connected           \* fault: _pcb is not looked at
Refused == connected \/ _pcb # NoPcb

\* tcp_new and tcp_connect.  With no network tcp_connect fails, and its result
\* is not looked at: the new pcb, which nothing refers to, is lost.  That is left
\* out, and with it tcp_new returning NULL when lwIP's 16 pcbs are used up: the
\* instances have enough of them.
Connect ==
  IF Refused \/ wifi = "down"
  THEN UNCHANGED pcbVars
  ELSE /\ \E p \in Pcbs : pcbs[p] = Free /\ pcbs' = [pcbs EXCEPT ![p] = Syn]
       /\ overlapped' = (overlapped \/ queue # <<>> \/ \E p \in Pcbs : pcbs[p].wired)

-----------------------------------------------------------------------------
(* The event task.  The Wi-Fi library sets its status before it calls       *)
(* WiFiEvent.                                                               *)

\* STA_DISCONNECTED: the network is lost, or joining it has failed.
LoseWifi ==
  /\ evPc = "idle" /\ losses < MaxLosses
  /\ wifi = "up" \/ joining
  /\ wifi' = "down" /\ joining' = FALSE
  /\ evPc' = "lost" /\ losses' = losses + 1
  /\ UNCHANGED <<wifiTimer, mqttTimer, pcbVars, clientVars, fails>>

\* The timer daemon may be late: a stopped timer has then fired once more, or
\* is still to fire.
LostTimer_none == wifiTimer              \* fault: xTimerStart is forgotten
LostTimer == TRUE

OnWifiLost ==
  /\ evPc = "lost"
  /\ mqttTimer' \in {"off", mqttTimer}
  /\ wifiTimer' = LostTimer
  /\ evPc' = "idle"
  /\ UNCHANGED <<wifi, joining, losses, pcbVars, clientVars, fails>>

\* STA_GOT_IP.
GotIp ==
  /\ evPc = "idle" /\ joining
  /\ wifi' = "up" /\ joining' = FALSE
  /\ evPc' = "got"
  /\ UNCHANGED <<wifiTimer, losses, mqttTimer, pcbVars, clientVars, fails>>

OnGotIp ==
  /\ evPc = "got"
  /\ Connect
  /\ evPc' = "idle"
  /\ UNCHANGED <<wifi, joining, wifiTimer, losses, mqttTimer, clientVars, fails>>

-----------------------------------------------------------------------------
(* The timer daemon.                                                        *)

\* connectToWifi(): WiFi.begin() does nothing to a station that has joined.
WifiTimerFires ==
  /\ wifiTimer
  /\ wifiTimer' = FALSE
  /\ joining' = (wifi = "down")
  /\ UNCHANGED <<wifi, evPc, losses, mqttTimer, pcbVars, clientVars, fails>>

\* One second is enough for the async task to handle what is queued when the
\* timer is started.
SecondPasses ==
  /\ mqttTimer = "running"
  /\ asyncPc = "idle" /\ queue = <<>>
  /\ mqttTimer' = "due"
  /\ UNCHANGED <<wifiVars, pcbVars, clientVars, fails>>

MqttTimerFires ==
  /\ mqttTimer = "due"
  /\ mqttTimer' = "off"
  /\ Connect
  /\ UNCHANGED <<wifiVars, clientVars, fails>>

-----------------------------------------------------------------------------
(* The network, the server, and the callbacks in lwIP's thread.             *)

Failing == fails < MaxFails /\ fails' = fails + 1

\* _tcp_connected puts its event in front of the queue.
SynAck(p) ==
  /\ wifi = "up" /\ pcbs[p].st = "syn"
  /\ pcbs' = [pcbs EXCEPT ![p].st = "open"]
  /\ queue' = <<Event("CONNECTED", p)>> \o queue
  /\ UNCHANGED <<wifiVars, mqttTimer, overlapped, _pcb, connected, asyncPc, fails>>

Reaches(p) == wifi = "up" /\ pcbs[p].st = "open" /\ ~pcbs[p].gone

\* The server's TCP acknowledges the CONNECT.
TakeConnect(p) ==
  /\ Reaches(p) /\ pcbs[p].mqtt = "sent"
  /\ pcbs' = [pcbs EXCEPT ![p].mqtt = "taken"]
  /\ UNCHANGED <<wifiVars, mqttTimer, overlapped, clientVars, fails>>

\* The CONNACK arrives: _tcp_recv.
ConnAck(p) ==
  /\ Reaches(p) /\ pcbs[p].mqtt = "taken"
  /\ pcbs' = [pcbs EXCEPT ![p].mqtt = "acked"]
  /\ queue' = IF pcbs[p].wired THEN Append(queue, Event("RECV", p)) ELSE queue
  /\ UNCHANGED <<wifiVars, mqttTimer, overlapped, _pcb, connected, asyncPc, fails>>

\* A FIN arrives: _tcp_recv without data calls _lwip_fin, which closes the pcb
\* if it is the client's, and leaves it in CLOSE_WAIT if not.
Fin(p) ==
  /\ Reaches(p)
  /\ queue' = IF pcbs[p].wired THEN Append(queue, Event("FIN", p)) ELSE queue
  /\ pcbs' = [pcbs EXCEPT ![p] = IF pcbs[p].wired /\ p # _pcb
                                 THEN [@ EXCEPT !.st = "half"] ELSE Free]
  /\ _pcb' = IF p = _pcb THEN NoPcb ELSE _pcb
  /\ UNCHANGED <<wifiVars, mqttTimer, overlapped, connected, asyncPc>>

CloseByServer(p) == Fin(p) /\ Failing

\* The client sends nothing more on this connection, and the server closes it
\* after one and a half keep-alives, 6 s: later than a running mqttTimer fires.
Neglected(p) ==
  /\ pcbs[p].mqtt \in {"none", "acked"}
  /\ asyncPc = "idle" /\ mqttTimer = "off"
  /\ \A i \in DOMAIN queue : queue[i].pcb # p
  /\ ~(connected /\ p = _pcb)

CloseIdle(p) == Neglected(p) /\ Fin(p) /\ UNCHANGED fails

\* A connection is reset, retransmission gives up, or the address is lost:
\* lwIP frees the pcb and calls _tcp_error, which does not say for which one.
Freed(p) ==
  /\ pcbs' = [pcbs EXCEPT ![p] = Free]
  /\ queue' = IF pcbs[p].wired THEN Append(queue, Event("ERROR", p)) ELSE queue
  /\ UNCHANGED <<wifiVars, mqttTimer, overlapped, _pcb, connected, asyncPc>>

Reset(p) == pcbs[p].st \in {"syn", "open", "half"} /\ Freed(p) /\ Failing

\* Data not acknowledged is sent again until lwIP gives up.
GiveUp(p) == pcbs[p].gone /\ pcbs[p].mqtt = "sent" /\ Freed(p) /\ UNCHANGED fails

\* The server or the path to it is gone; nothing tells the client.
Vanish(p) ==
  /\ pcbs[p].st = "open" /\ ~pcbs[p].gone /\ Failing
  /\ pcbs' = [pcbs EXCEPT ![p].gone = TRUE]
  /\ UNCHANGED <<wifiVars, mqttTimer, overlapped, clientVars>>

-----------------------------------------------------------------------------
(* The async task.                                                          *)

\* _onDisconnect: _clear(), then onMqttDisconnect.
ClearedConnected_kept == connected       \* fault: _clear() leaves _connected
ClearedConnected == FALSE

OnDisconnect ==
  /\ connected' = ClearedConnected
  /\ asyncPc' = "check"

\* _close() of pcb p, with the events ahead still to be handled.
Close(p, events) ==
  /\ pcbs' = [pcbs EXCEPT ![p] = Free]
  /\ _pcb' = NoPcb
  /\ queue' = <<Clear>> \o events
  /\ OnDisconnect

Handling(name) == asyncPc = "idle" /\ queue # <<>> /\ Head(queue).event = name

\* LWIP_TCP_CLEAR: _remove_events_with_arg.
HandleClear ==
  /\ Handling("CLEAR")
  /\ queue' = <<>>
  /\ UNCHANGED <<wifiVars, mqttTimer, pcbVars, _pcb, connected, asyncPc, fails>>

\* _connected and _onConnect: with room for it, as in a connection just made, a
\* CONNECT is sent.
HandleConnected ==
  /\ Handling("CONNECTED")
  /\ LET p == Head(queue).pcb IN
     /\ pcbs[p].st = "open"
     /\ _pcb' = p
     /\ pcbs' = [pcbs EXCEPT ![p].mqtt = IF @ = "none" THEN "sent" ELSE @]
  /\ queue' = Tail(queue)
  /\ UNCHANGED <<wifiVars, mqttTimer, overlapped, connected, asyncPc, fails>>

\* space() is 0 in any state but ESTABLISHED: close(true).
HandleConnectedTooLate ==
  /\ Handling("CONNECTED")
  /\ pcbs[Head(queue).pcb].st # "open"
  /\ Close(Head(queue).pcb, Tail(queue))
  /\ UNCHANGED <<wifiVars, mqttTimer, overlapped, fails>>

\* _onConnAck: from whatever pcb it came.
HandleConnAck ==
  /\ Handling("RECV")
  /\ connected' = TRUE
  /\ queue' = Tail(queue)
  /\ UNCHANGED <<wifiVars, mqttTimer, pcbVars, _pcb, asyncPc, fails>>

\* _fin: also for a pcb that is not the client's.
HandleFin ==
  /\ Handling("FIN")
  /\ queue' = <<Clear>> \o Tail(queue)
  /\ OnDisconnect
  /\ UNCHANGED <<wifiVars, mqttTimer, pcbVars, _pcb, fails>>

\* _error: whichever pcb had the error, the client's is given up.
HandleError ==
  /\ Handling("ERROR")
  /\ pcbs' = [p \in Pcbs |-> IF p = _pcb THEN [pcbs[p] EXCEPT !.wired = FALSE] ELSE pcbs[p]]
  /\ _pcb' = NoPcb
  /\ queue' = Tail(queue)
  /\ OnDisconnect
  /\ UNCHANGED <<wifiVars, mqttTimer, overlapped, fails>>

\* _onPoll: the server has not answered a PINGREQ, disconnect().
KeepAliveCloses ==
  /\ asyncPc = "idle" /\ connected
  /\ _pcb # NoPcb /\ pcbs[_pcb].st = "open" /\ pcbs[_pcb].gone
  /\ Close(_pcb, queue)
  /\ UNCHANGED <<wifiVars, mqttTimer, overlapped, fails>>

\* onMqttDisconnect: WiFi.isConnected() ...
Wanted_down == wifi = "down"             \* fault: the condition is the wrong way round
Wanted == wifi = "up"

CheckWifi ==
  /\ asyncPc = "check"
  /\ asyncPc' = IF Wanted THEN "start" ELSE "idle"
  /\ UNCHANGED <<wifiVars, mqttTimer, pcbVars, _pcb, connected, queue, fails>>

\* ... and xTimerStart.
StartMqttTimer ==
  /\ asyncPc = "start"
  /\ mqttTimer' = "running"
  /\ asyncPc' = "idle"
  /\ UNCHANGED <<wifiVars, pcbVars, _pcb, connected, queue, fails>>

-----------------------------------------------------------------------------

Async ==
  \/ HandleClear \/ HandleConnected \/ HandleConnectedTooLate \/ HandleConnAck
  \/ HandleFin \/ HandleError \/ CheckWifi \/ StartMqttTimer

EventTask == OnWifiLost \/ OnGotIp
Daemon == WifiTimerFires \/ SecondPasses \/ MqttTimerFires
Answers(p) == SynAck(p) \/ TakeConnect(p) \/ ConnAck(p) \/ CloseIdle(p) \/ GiveUp(p)
Failures(p) == CloseByServer(p) \/ Reset(p) \/ Vanish(p)

Next ==
  \/ LoseWifi \/ GotIp \/ EventTask
  \/ Daemon
  \/ Async \/ KeepAliveCloses
  \/ \E p \in Pcbs : Answers(p) \/ Failures(p)

Spec == Init /\ [][Next]_vars

\* Every task runs; joining succeeds when it no longer fails; a server that is
\* there answers, and closes connections it hears nothing from.
FairSpec ==
  /\ Spec
  /\ WF_vars(GotIp) /\ WF_vars(EventTask)
  /\ WF_vars(WifiTimerFires) /\ WF_vars(SecondPasses \/ MqttTimerFires)
  /\ WF_vars(Async) /\ WF_vars(KeepAliveCloses)
  /\ \A p \in Pcbs : WF_vars(Answers(p))

-----------------------------------------------------------------------------
(* Properties.                                                              *)

\* Every variable has its type; _pcb is never a connection still being made.
TypeOK ==
  /\ wifi \in {"up", "down"} /\ joining \in BOOLEAN
  /\ evPc \in {"idle", "lost", "got"}
  /\ wifiTimer \in BOOLEAN /\ mqttTimer \in {"off", "running", "due"}
  /\ pcbs \in [Pcbs -> [st : {"free", "syn", "open", "half"}, wired : BOOLEAN,
                        mqtt : {"none", "sent", "taken", "acked"}, gone : BOOLEAN]]
  /\ _pcb \in Pcbs \cup {NoPcb} /\ connected \in BOOLEAN
  /\ _pcb # NoPcb => pcbs[_pcb].st # "syn"
  /\ \A i \in DOMAIN queue : queue[i].event \in {"CLEAR", "CONNECTED", "RECV", "FIN", "ERROR"}
  /\ asyncPc \in {"idle", "check", "start"}
  /\ overlapped \in BOOLEAN /\ losses \in 0..MaxLosses /\ fails \in 0..MaxFails

\* AsyncTCP.cpp:598-688 and AsyncMqttClient.cpp:154-170: if no attempt to connect
\* began before another was over, then while _connected is true the client has a
\* pcb that reports to it, or the event that will set it to false is queued:
\* _pcb, set to NULL by two threads, and _connected by events that come later,
\* agree again when the queue has been handled.
ConnectedAlone ==
  connected /\ ~overlapped =>
    \/ _pcb # NoPcb /\ pcbs[_pcb].wired /\ pcbs[_pcb].st = "open"
    \/ \E e \in Range(queue) : e.event \in {"FIN", "ERROR"}

\* Nothing that could lead to a connection is running, queued or on its way.
Quiet == evPc = "idle" /\ asyncPc = "idle" /\ queue = <<>> /\ mqttTimer = "off"

Hopeful(p) ==
  /\ pcbs[p].wired
  /\ \/ pcbs[p].st = "syn"
     \/ pcbs[p].st = "open" /\ (~pcbs[p].gone \/ pcbs[p].mqtt = "sent")
     \/ pcbs[p].st = "open" /\ connected /\ p = _pcb

Stranded == wifi = "up" /\ Quiet /\ \A p \in Pcbs : ~Hopeful(p)

\* main.cpp:37-75: the event task sets the Wi-Fi status and then reads
\* _connected and _pcb, the async task resets these and then reads the Wi-Fi
\* status: whatever the order of their steps, one of them connects again.  Only
\* a server that vanishes from a connection nobody polls leaves the firmware
\* stranded, or attempts to connect that overlap.
NoLostReconnect ==
  Stranded => overlapped \/ \E p \in Pcbs : pcbs[p].gone /\ pcbs[p].wired

\* main.cpp:37-75: when the network and the server stop failing, the firmware
\* is connected in the end and stays so, or is stranded.
ConnectedInTheEnd == <>[](connected /\ _pcb # NoPcb) \/ <>[]Stranded

=============================================================================
