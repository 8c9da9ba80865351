------------------------------ MODULE AsyncTcp ------------------------------
(***************************************************************************)
(* AsyncTCP's two threads and the queue between them, with the clients     *)
(* that the program connects and those that its AsyncServer accepts.       *)
(* lwIP's thread turns what happens to a connection into events and waits  *)
(* while the queue is full; the async task takes events and calls the      *)
(* user's handlers; a call of lwIP's API made by it is done by lwIP's      *)
(* thread, which must not be waiting itself.                               *)
(*                                                                         *)
(* The user deletes an accepted client in its onDisconnect handler, keeps  *)
(* one that it connected (as AsyncMqttClient does), and in onPoll closes   *)
(* one or acknowledges data late.  The async task's handler is a sequence  *)
(* of steps; lwIP's thread may do something between any two.               *)
(***************************************************************************)
EXTENDS Integers, Sequences, FiniteSets, SequencesExt

CONSTANTS
  Clients,    \* AsyncClient objects, each with the one pcb it has here
  Outgoing,   \* those the program connects; the others are accepted
  QueueSize,  \* places in _async_queue (32)
  MaxData,    \* bound: pieces of data a peer sends
  MaxPolls    \* bound: polls of all connections

ASSUME QueueAssumption == QueueSize \in Nat \ {0}
ASSUME OutgoingAssumption == Outgoing \subseteq Clients
ASSUME AsyncBoundAssumption == MaxData \in Nat /\ MaxPolls \in Nat

VARIABLES
  queue,   \* _async_queue
  lwip,    \* the event that lwIP's thread is putting into the queue, if any
  steps,   \* what is left of the handler that the async task runs
  client,  \* the AsyncClient objects
  conn,    \* lwIP: the pcbs
  got,     \* history: per client, the data its onData handler was given
  strays,  \* history: clients with an event handled after they were deleted
  stale,   \* history: per client, API calls on a pcb that lwIP has freed
  raced,   \* history: an event was put while events were being removed
  early,   \* history: clients whose FIN came when _pcb was not set yet
  polls    \* bound: polls so far

taskVars == <<queue, lwip, steps>>
history == <<got, strays, stale, raced, early>>
vars == <<taskVars, client, conn, history, polls>>

Event(type, c, n) == [type |-> type, client |-> c, n |-> n]
Idle == [type |-> "idle"]

\* pcb: _pcb is set; attached: lwIP's callbacks for it are; known: the user has
\* been given the client; told: of its end; later: _rx_ack_len.
NoClient == [exists |-> FALSE, pcb |-> FALSE, attached |-> FALSE, known |-> FALSE,
             told |-> FALSE, later |-> 0]

\* window: data passed on and not acknowledged by tcp_recved.
NoConnection == [is |-> "none", sent |-> 0, window |-> 0]

Init ==
  /\ queue = <<>> /\ lwip = Idle /\ steps = <<>>
  /\ client = [c \in Clients |-> NoClient]
  /\ conn = [c \in Clients |-> NoConnection]
  /\ got = [c \in Clients |-> <<>>] /\ strays = {} /\ stale = [c \in Clients |-> 0]
  /\ raced = FALSE /\ early = {} /\ polls = 0

-----------------------------------------------------------------------------
(* lwIP's thread: the callbacks, each of which puts an event.               *)

Callback(c) ==
  /\ lwip = Idle
  /\ UNCHANGED <<queue, steps, got, strays, stale, raced>>

\* connect(), by the program's own task; _pcb is set by _connected only.
Connect(c) ==
  /\ Callback(c) /\ c \in Outgoing /\ conn[c].is = "none"
  /\ conn' = [conn EXCEPT ![c].is = "opening"]
  /\ client' = [client EXCEPT ![c] = [NoClient EXCEPT !.exists = TRUE, !.attached = TRUE,
                                                      !.known = TRUE]]
  /\ UNCHANGED <<lwip, early, polls>>

\* connect() by name, when the address is not known yet.
Lookup(c) ==
  /\ Callback(c) /\ c \in Outgoing /\ conn[c].is = "none"
  /\ conn' = [conn EXCEPT ![c].is = "resolving"]
  /\ client' = [client EXCEPT ![c] = [NoClient EXCEPT !.exists = TRUE, !.known = TRUE]]
  /\ UNCHANGED <<lwip, early, polls>>

DnsFound(c) ==
  /\ Callback(c) /\ conn[c].is = "resolving"
  /\ conn' = [conn EXCEPT ![c].is = "resolved"]
  /\ lwip' = Event("DNS", c, 0)
  /\ UNCHANGED <<client, early, polls>>

\* A connection comes: AsyncServer::_accept makes its AsyncClient.
Accept(c) ==
  /\ Callback(c) /\ c \notin Outgoing /\ conn[c].is = "none"
  /\ conn' = [conn EXCEPT ![c].is = "open"]
  /\ client' = [client EXCEPT ![c] = [NoClient EXCEPT !.exists = TRUE, !.pcb = TRUE,
                                                      !.attached = TRUE]]
  /\ lwip' = Event("ACCEPT", c, 0)
  /\ UNCHANGED <<early, polls>>

\* A callback set to NULL is not called.
Put(c, type, n) == lwip' = IF client[c].attached THEN Event(type, c, n) ELSE Idle

Established(c) ==
  /\ Callback(c) /\ conn[c].is = "opening"
  /\ conn' = [conn EXCEPT ![c].is = "open"]
  /\ Put(c, "CONNECTED", 0)
  /\ UNCHANGED <<client, early, polls>>

Data(c) ==
  /\ Callback(c) /\ conn[c].is = "open" /\ conn[c].sent < MaxData
  /\ conn' = [conn EXCEPT ![c].sent = @ + 1, ![c].window = @ + 1]
  /\ Put(c, "RECV", conn[c].sent + 1)
  /\ UNCHANGED <<client, early, polls>>

PollTimer(c) ==
  /\ Callback(c) /\ conn[c].is \in {"open", "half"} /\ polls < MaxPolls
  /\ polls' = polls + 1
  /\ Put(c, "POLL", polls)
  /\ UNCHANGED <<client, conn, early>>

\* _lwip_fin closes the pcb in lwIP's thread, or leaves it half open when _pcb is
\* not set yet.
Finished_pcbKept(c) == [client[c] EXCEPT !.attached = FALSE]  \* fault: _pcb is not set to NULL
Finished(c) == [client[c] EXCEPT !.attached = FALSE, !.pcb = FALSE]

Fin(c) ==
  /\ Callback(c) /\ conn[c].is = "open"
  /\ LET closes == client[c].pcb \/ ~client[c].attached IN
     /\ early' = IF closes THEN early ELSE early \cup {c}
     /\ conn' = [conn EXCEPT ![c].is = IF closes THEN "finished" ELSE "half"]
     /\ client' = IF client[c].pcb /\ client[c].attached
                  THEN [client EXCEPT ![c] = Finished(c)] ELSE client
  /\ Put(c, "FIN", 0)
  /\ UNCHANGED polls

\* lwIP has freed the pcb before it calls _tcp_error.
Reset(c) ==
  /\ Callback(c) /\ conn[c].is \in {"opening", "open", "half"}
  /\ conn' = [conn EXCEPT ![c].is = "reset"]
  /\ Put(c, "ERROR", 0)
  /\ UNCHANGED <<client, early, polls>>

Removing == steps # <<>> /\ Head(steps).do \in {"remove", "return"}

HasRoom_always == TRUE                    \* fault: xQueueSend does not wait
HasRoom == Len(queue) < QueueSize

InFront(e) == e.type \in {"ACCEPT", "CONNECTED"}

\* xQueueSend and xQueueSendToFront, with portMAX_DELAY.
Deliver ==
  /\ lwip # Idle /\ HasRoom
  /\ queue' = IF InFront(lwip) THEN <<lwip>> \o queue ELSE Append(queue, lwip)
  /\ lwip' = Idle
  /\ raced' = (raced \/ Removing)
  /\ UNCHANGED <<steps, client, conn, got, strays, stale, early, polls>>

Lwip ==
  \/ Deliver
  \/ \E c \in Clients : \/ Connect(c) \/ Lookup(c) \/ DnsFound(c) \/ Accept(c)
                        \/ Established(c) \/ Data(c)
                        \/ PollTimer(c) \/ Fin(c) \/ Reset(c)

-----------------------------------------------------------------------------
(* The async task: events.                                                  *)

Step(do, c, n) == [do |-> do, client |-> c, n |-> n]
Removal(do, c, packet, first) == [do |-> do, client |-> c, packet |-> packet, first |-> first]

\* An event of a client that was deleted is a use of freed memory; the model
\* goes no further with it.
Taking(type, c) ==
  /\ steps = <<>> /\ queue # <<>>
  /\ Head(queue).type = type /\ Head(queue).client = c
  /\ queue' = Tail(queue)
  /\ strays' = IF client[c].exists \/ type = "CLEAR" THEN strays ELSE strays \cup {c}
  /\ UNCHANGED <<lwip, conn, stale, raced, early, polls>>

Stray(c) ==
  /\ ~client[c].exists
  /\ \E type \in {"RECV", "POLL", "FIN", "ERROR"} : Taking(type, c)
  /\ UNCHANGED <<steps, client, got>>

\* _accepted: the user sets its handlers.
HandleAccept(c) ==
  /\ Taking("ACCEPT", c)
  /\ client' = [client EXCEPT ![c].known = TRUE]
  /\ UNCHANGED <<steps, got>>

\* _connected, and onConnect.
HandleConnected(c) ==
  /\ Taking("CONNECTED", c)
  /\ client' = [client EXCEPT ![c].pcb = TRUE]
  /\ UNCHANGED <<steps, got>>

\* _handle_async_event has no branch for DNS: the address is lost.
HandleDns(c) ==
  /\ Taking("DNS", c)
  /\ UNCHANGED <<steps, client, got>>

\* _recv: data is acknowledged at once, unless onData has called ackLater().
Assimilated_unheld(c, later) ==  \* fault: counted though acknowledged
  [client[c] EXCEPT !.later = @ + 1]
Assimilated(c, later) == [client[c] EXCEPT !.later = IF later THEN @ + 1 ELSE @]

AcksNow_unchecked(c, later) == ~later     \* fault: _pcb is not tested
AcksNow(c, later) == ~later /\ client[c].pcb

HandleRecv(c) ==
  /\ client[c].exists /\ Taking("RECV", c)
  /\ got' = IF client[c].known THEN [got EXCEPT ![c] = Append(@, Head(queue).n)] ELSE got
  /\ \E later \in IF client[c].known THEN BOOLEAN ELSE {FALSE} :
       /\ client' = [client EXCEPT ![c] = Assimilated(c, later)]
       /\ steps' = IF AcksNow(c, later) THEN <<Step("recved", c, 1)>> ELSE <<>>

\* close(): acknowledges what ackLater() kept, then _close().
CloseSteps_noClear(c) ==  \* fault: no CLEAR
  <<Step("detach", c, 0), Step("close", c, 0), Step("discard", c, 0)>>
CloseSteps_clearFirst(c) ==  \* fault: CLEAR is put before the callbacks are removed
  <<Step("clear", c, 0), Step("detach", c, 0), Step("close", c, 0), Step("discard", c, 0)>>
CloseSteps(c) ==
  <<Step("detach", c, 0), Step("clear", c, 0), Step("close", c, 0), Step("discard", c, 0)>>

\* _poll: onPoll does nothing, calls ack() or calls close().
HandlePoll(c) ==
  /\ client[c].exists /\ Taking("POLL", c)
  /\ \/ UNCHANGED steps
     \/ /\ client[c].pcb /\ client[c].known /\ client[c].later > 0
        /\ steps' = <<Step("ack", c, client[c].later)>>
     \/ /\ client[c].pcb /\ client[c].known
        /\ steps' = <<Step("recved", c, client[c].later)>> \o CloseSteps(c)
  /\ UNCHANGED <<client, got>>

\* _fin.
HandleFin(c) ==
  /\ client[c].exists /\ Taking("FIN", c)
  /\ steps' = <<Step("clear", c, 0), Step("discard", c, 0)>>
  /\ UNCHANGED <<client, got>>

\* _error, and onDisconnect.
HandleError(c) ==
  /\ client[c].exists /\ Taking("ERROR", c)
  /\ client' = [client EXCEPT ![c] = [@ EXCEPT !.pcb = FALSE, !.attached = FALSE]]
  /\ steps' = <<Step("discard", c, 0)>>
  /\ UNCHANGED got

\* _remove_events_with_arg begins.
HandleClear(c) ==
  /\ Taking("CLEAR", c)
  /\ steps' = <<Removal("remove", c, Idle, Idle)>>
  /\ UNCHANGED <<client, got>>

-----------------------------------------------------------------------------
(* The async task: the steps of a handler.                                  *)

Doing(do) ==
  /\ steps # <<>> /\ Head(steps).do = do
  /\ UNCHANGED <<got, strays, early, polls>>

Freed(c) == conn[c].is \notin {"open", "half"}

StaleCall(c) == stale' = IF Freed(c) THEN [stale EXCEPT ![c] = @ + 1] ELSE stale

\* tcpip_api_call: lwIP's thread does it when it is back in its loop.
ApiCall == lwip = Idle /\ UNCHANGED <<queue, lwip, raced>>

\* tcp_recved; in ack() _rx_ack_len is diminished afterwards.
Recved ==
  \E do \in {"recved", "ack"} :
    /\ Doing(do) /\ ApiCall
    /\ LET c == Head(steps).client  n == Head(steps).n IN
       /\ StaleCall(c)
       /\ conn' = IF Freed(c) THEN conn ELSE [conn EXCEPT ![c].window = @ - n]
       /\ client' = IF do = "ack" THEN [client EXCEPT ![c].later = @ - n] ELSE client
    /\ steps' = Tail(steps)

\* _close begins: nothing if _pcb is NULL by now, else no more callbacks.  The test
\* and the five tcp_* writes, which are no calls into lwIP's thread, are one step:
\* what that thread may do to the pcb between them is left out.
Detach ==
  /\ Doing("detach")
  /\ LET c == Head(steps).client IN
     \/ /\ client[c].pcb
        /\ client' = [client EXCEPT ![c].attached = FALSE]
        /\ steps' = Tail(steps)
     \/ /\ ~client[c].pcb
        /\ steps' = <<>> /\ UNCHANGED client
  /\ UNCHANGED <<queue, lwip, conn, stale, raced>>

\* _tcp_clear_events: in front of all other events.
Clear ==
  /\ Doing("clear") /\ HasRoom
  /\ queue' = <<Event("CLEAR", Head(steps).client, 0)>> \o queue
  /\ steps' = Tail(steps)
  /\ UNCHANGED <<lwip, client, conn, stale, raced>>

\* tcp_close; if it fails, for want of memory, abort() ends the pcb all the same.
Close ==
  /\ Doing("close") /\ ApiCall
  /\ LET c == Head(steps).client IN
     /\ StaleCall(c)
     /\ conn' = IF Freed(c) THEN conn ELSE [conn EXCEPT ![c].is = "closed"]
     /\ client' = [client EXCEPT ![c].pcb = FALSE]
  /\ steps' = Tail(steps)

\* onDisconnect, if the user has been given the client: an accepted one is deleted.
Discard ==
  /\ Doing("discard")
  /\ LET c == Head(steps).client IN
     client' = [client EXCEPT ![c].told = client[c].known,
                              ![c].exists = c \in Outgoing \/ ~client[c].known]
  /\ steps' = Tail(steps)
  /\ UNCHANGED <<queue, lwip, conn, stale, raced>>

Matches(e, c) == e.client = c /\ e.type # "ACCEPT"   \* an ACCEPT has the server for its arg

TurnedRound_once(first) == queue = <<>> \/ first # Idle  \* fault: returns one event only
TurnedRound(first) == queue = <<>> \/ Head(queue) = first

\* _remove_events_with_arg: the events are taken from the front; those of the
\* client are freed, the others put at the back, until the first of them is in
\* front again.
RemoveEvent ==
  /\ Doing("remove")
  /\ LET s == Head(steps) IN
     IF TurnedRound(s.first)
     THEN steps' = <<>> /\ UNCHANGED queue
     ELSE /\ queue' = Tail(queue)
          /\ steps' = IF Matches(Head(queue), s.client) THEN steps
                      ELSE <<Removal("return", s.client, Head(queue),
                                     IF s.first = Idle THEN Head(queue) ELSE s.first)>>
  /\ UNCHANGED <<lwip, client, conn, stale, raced>>

ReturnEvent ==
  /\ Doing("return") /\ HasRoom
  /\ LET s == Head(steps) IN
     /\ queue' = Append(queue, s.packet)
     /\ steps' = <<Removal("remove", s.client, Idle, s.first)>>
  /\ UNCHANGED <<lwip, client, conn, stale, raced>>

Handle(c) ==
  \/ Stray(c) \/ HandleAccept(c) \/ HandleConnected(c) \/ HandleDns(c) \/ HandleRecv(c)
  \/ HandlePoll(c) \/ HandleFin(c) \/ HandleError(c) \/ HandleClear(c)

Async ==
  \/ \E c \in Clients : Handle(c)
  \/ Recved \/ Detach \/ Clear \/ Close \/ Discard \/ RemoveEvent \/ ReturnEvent

Next == Lwip \/ Async

Spec == Init /\ [][Next]_vars

\* Both are tasks of FreeRTOS that run when they can.
FairSpec == Spec /\ WF_vars(Async) /\ WF_vars(Deliver)

-----------------------------------------------------------------------------
(* Properties.                                                              *)

EventTypes == {"ACCEPT", "CONNECTED", "DNS", "RECV", "POLL", "FIN", "ERROR", "CLEAR"}

\* Every variable has its type.
TypeOK ==
  /\ Len(queue) <= QueueSize
  /\ \A e \in Range(queue) \cup {lwip} : e # Idle => e.type \in EventTypes /\ e.client \in Clients
  /\ Len(steps) <= 5
  /\ \A c \in Clients :
       /\ conn[c].is \in {"none", "resolving", "resolved", "opening", "open", "half",
                          "finished", "reset", "closed"}
       /\ conn[c].sent \in 0..MaxData /\ conn[c].window \in 0..MaxData
       /\ client[c].later \in 0..MaxData
  /\ strays \cup early \subseteq Clients /\ raced \in BOOLEAN /\ polls \in 0..MaxPolls

\* The event that is held while others are removed, and all that wait.
Holds(s) == IF s # <<>> /\ Head(s).do = "return" THEN {Head(s).packet} ELSE {}
Waiting == Range(queue) \cup {lwip} \cup Holds(steps)

\* The data of c that is on its way to its handler.
Coming(c) == {e \in Waiting : e.type = "RECV" /\ e.client = c}

\* Lines 103-138 and 184-204: while events of other clients are removed and new
\* connections go in front of the queue, a client's data reaches its handler
\* whole, in order, and not before the user has been given the client, unless
\* lwIP's thread puts an event during a removal.
DataInOrder ==
  \A c \in Clients :
    ~raced /\ ~Removing /\ client[c].exists /\ client[c].attached
    => LET n == Len(got[c])  line == Append(queue, lwip) IN
       /\ got[c] = [i \in 1..n |-> i] /\ n <= conn[c].sent
       /\ {e.n : e \in Coming(c)} = (n + 1)..conn[c].sent
       /\ \A i, j \in DOMAIN line :
            i < j /\ {line[i], line[j]} \subseteq Coming(c) => line[i].n < line[j].n

\* Lines 598-619 and 681-688: a client that the user deletes in onDisconnect is
\* not used again by an event that was waiting, unless lwIP's thread puts an
\* event during a removal.
NoStrays == ~raced => strays = {}

\* Lines 690-713 and 782-862: each byte of data is acknowledged to lwIP once, at
\* once or by ack() or close(): what the window lacks is waiting in the queue, is
\* being acknowledged, or is counted in _rx_ack_len, unless lwIP's thread puts an
\* event during a removal: data that comes before CONNECTED then is not acknowledged.
WindowAccounted ==
  \A c \in Clients :
    /\ ~raced /\ conn[c].is = "open" /\ client[c].attached
    /\ \A i \in DOMAIN steps : steps[i].do # "detach"
    => conn[c].window = Cardinality(Coming(c)) + client[c].later
                        + IF steps = <<Step("recved", c, 1)>> THEN 1 ELSE 0

\* Lines 663-679: since lwIP's thread sets _pcb to NULL when it closes the pcb, at
\* most the one call that the async task had begun is made on a freed pcb.
OneStaleCall == \A c \in Clients : conn[c].is = "finished" => stale[c] <= 1

\* The queue is full and the async task, the only one that takes events from it,
\* waits for a place itself, or in tcpip_api_call for lwIP's thread, which waits
\* for a place: it never goes on.
WaitsForItself ==
  /\ ~HasRoom /\ steps # <<>>
  /\ \/ Head(steps).do \in {"clear", "return"}
     \/ lwip # Idle /\ Head(steps).do \in {"recved", "ack", "close"}

\* Lines 91-138: the user is told of the end of every connection it was given,
\* however full the queue was, unless the async task waits for itself or lwIP's
\* thread puts an event during a removal.
ToldInTheEnd ==
  \A c \in Clients :
    conn[c].is \in {"finished", "reset", "closed"} ~> (client[c].told \/ raced \/ WaitsForItself)

\* Lines 663-688: a client that has told its user of its end has no pcb, so that
\* connect() does not refuse as "already connected", unless the FIN reached
\* _lwip_fin before CONNECTED was handled: then the pcb is never closed; or
\* lwIP's thread put an event during a removal: CONNECTED may then come last.
ReadyAgain ==
  ~raced => \A c \in Clients : client[c].told /\ c \notin early => ~client[c].pcb

\* Line 110, "so we can keep the order": events of a client are handled in the
\* order in which lwIP put them.
OrderKept == \A c \in Clients : \A i \in DOMAIN got[c] : got[c][i] = i
=============================================================================
