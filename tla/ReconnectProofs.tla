--------------------------- MODULE ReconnectProofs ---------------------------
(***************************************************************************)
(* Proofs about Reconnect.  They rest on one inductive invariant about the *)
(* time in which no two attempts to connect have overlapped: one pcb at    *)
(* most is in use then and has the client as its argument, and the queue   *)
(* holds its events in the order in which a connection lives and ends.     *)
(***************************************************************************)
EXTENDS Reconnect, SequenceTheorems, TLAPS

Names == {"CLEAR", "CONNECTED", "RECV", "FIN", "ERROR"}
Events == [event : Names \ {"CLEAR"}, pcb : Pcbs] \cup {Clear}
PcbStates == [st : {"free", "syn", "open", "half"}, wired : BOOLEAN,
              mqtt : {"none", "sent", "taken", "acked"}, gone : BOOLEAN]

\* The queue is a sequence of events.
Typed == TypeOK /\ queue \in Seq(Events)

-----------------------------------------------------------------------------
(* What the queue says.                                                     *)

Has(q, name) == \E i \in DOMAIN q : q[i].event = name
First(q, name) == q # <<>> /\ q[1].event = name
Ending(q) == Has(q, "FIN") \/ Has(q, "ERROR")

\* CLEAR and CONNECTED are put in front of all others.
FrontOnly(q) == \A i \in DOMAIN q : q[i].event \in {"CLEAR", "CONNECTED"} => i = 1

\* A connection that has ended sends no CONNACK.
NothingAfterEnd(q) ==
  \A i, j \in DOMAIN q : i < j /\ q[i].event \in {"FIN", "ERROR"} => q[j].event # "RECV"

LEMMA EventNames ==
  ASSUME NEW q \in Seq(Events)
  PROVE  \A i \in DOMAIN q : q[i] \in Events /\ q[i].event \in Names
<1>1. DOMAIN q = 1..Len(q)
  BY LenProperties
<1>2. \A i \in DOMAIN q : q[i] \in Events
  BY <1>1, ElementOfSeq
<1> QED
  BY <1>2 DEF Events, Clear, Event, Names

\* An event at the back.
LEMMA Appended ==
  ASSUME NEW q \in Seq(Events), NEW e \in Events, NEW r, r = Append(q, e)
  PROVE  /\ r \in Seq(Events) /\ r # <<>>
         /\ \A n : Has(r, n) <=> Has(q, n) \/ e.event = n
         /\ \A n : First(r, n) <=> First(q, n) \/ (q = <<>> /\ e.event = n)
         /\ q # <<>> => r[1] = q[1]
         /\ FrontOnly(q) /\ e.event \notin {"CLEAR", "CONNECTED"} => FrontOnly(r)
         /\ NothingAfterEnd(q) /\ (Ending(q) => e.event # "RECV") => NothingAfterEnd(r)
<1>1. /\ r \in Seq(Events) /\ r # <<>> /\ DOMAIN q = 1..Len(q) /\ DOMAIN r = 1..(Len(q) + 1)
      /\ Len(q) \in Nat /\ r[Len(q) + 1] = e
      /\ (q # <<>> => Len(q) # 0) /\ (q = <<>> => Len(q) = 0)
  BY LenProperties, AppendProperties, EmptySeq
<1>2. \A i \in DOMAIN q : r[i] = q[i]
  BY AppendProperties, LenProperties
<1>3. ASSUME NEW n PROVE Has(r, n) <=> Has(q, n) \/ e.event = n
  BY <1>1, <1>2 DEF Has
<1>4. ASSUME NEW n PROVE First(r, n) <=> First(q, n) \/ (q = <<>> /\ e.event = n)
  BY <1>1, <1>2 DEF First
<1>5. q # <<>> => r[1] = q[1]
  BY <1>1, <1>2
<1>6. FrontOnly(q) /\ e.event \notin {"CLEAR", "CONNECTED"} => FrontOnly(r)
  BY <1>1, <1>2 DEF FrontOnly
<1>7. NothingAfterEnd(q) /\ (Ending(q) => e.event # "RECV") => NothingAfterEnd(r)
  BY <1>1, <1>2 DEF NothingAfterEnd, Ending, Has
<1> QED
  BY <1>1, <1>3, <1>4, <1>5, <1>6, <1>7

\* The event in front is taken.
LEMMA Taken ==
  ASSUME NEW q \in Seq(Events), q # <<>>, NEW r, r = Tail(q), FrontOnly(q), NothingAfterEnd(q)
  PROVE  /\ r \in Seq(Events) /\ Head(q) = q[1] /\ q[1] \in Events
         /\ \A n : Has(r, n) => Has(q, n)
         /\ \A n : Has(q, n) => Has(r, n) \/ q[1].event = n
         /\ FrontOnly(r) /\ NothingAfterEnd(r)
         /\ ~Has(r, "CLEAR") /\ ~Has(r, "CONNECTED")
         /\ q[1].event \in {"FIN", "ERROR"} => ~Has(r, "RECV")
<1>1. /\ r \in Seq(Events) /\ DOMAIN q = 1..Len(q) /\ DOMAIN r = 1..(Len(q) - 1)
      /\ Len(q) \in Nat /\ Len(q) # 0 /\ Head(q) = q[1] /\ q[1] \in Events
  BY LenProperties, HeadTailProperties, EmptySeq, ElementOfSeq
<1>2. \A i \in DOMAIN r : i \in Nat /\ r[i] = q[i + 1] /\ i + 1 \in DOMAIN q /\ i + 1 # 1 /\ 1 < i + 1
  BY <1>1, HeadTailProperties
<1>3. \A i \in DOMAIN q : i = 1 \/ (i - 1 \in DOMAIN r /\ r[i - 1] = q[i])
  BY <1>1, <1>2
<1>4. ASSUME NEW n PROVE /\ Has(r, n) => Has(q, n)
                         /\ Has(q, n) => Has(r, n) \/ q[1].event = n
  <2>1. Has(r, n) => Has(q, n)
    BY <1>2 DEF Has
  <2>2. Has(q, n) => Has(r, n) \/ q[1].event = n
    BY <1>3 DEF Has
  <2> QED
    BY <2>1, <2>2
<1>5. FrontOnly(r) /\ ~Has(r, "CLEAR") /\ ~Has(r, "CONNECTED")
  BY <1>2 DEF FrontOnly, Has
<1>6. NothingAfterEnd(r)
  BY <1>1, <1>2 DEF NothingAfterEnd
<1>7. q[1].event \in {"FIN", "ERROR"} => ~Has(r, "RECV")
  BY <1>1, <1>2 DEF NothingAfterEnd, Has
<1> QED
  BY <1>1, <1>4, <1>5, <1>6, <1>7

\* An event in front.
LEMMA InFront ==
  ASSUME NEW q \in Seq(Events), NEW e \in Events, NEW r, r = <<e>> \o q,
         NothingAfterEnd(q), ~Has(q, "CLEAR"), ~Has(q, "CONNECTED"),
         e.event \notin {"FIN", "ERROR"}
  PROVE  /\ r \in Seq(Events) /\ r # <<>> /\ r[1] = e
         /\ \A n : Has(r, n) <=> Has(q, n) \/ e.event = n
         /\ FrontOnly(r) /\ NothingAfterEnd(r)
<1>1. /\ r \in Seq(Events) /\ DOMAIN q = 1..Len(q) /\ DOMAIN r = 1..(Len(q) + 1)
      /\ Len(q) \in Nat /\ r[1] = e /\ r # <<>>
  <2>1. <<e>> \in Seq(Events) /\ Len(<<e>>) = 1 /\ <<e>>[1] = e
    OBVIOUS
  <2>2. r \in Seq(Events) /\ Len(r) = 1 + Len(q) /\ r[1] = e
    BY <2>1, ConcatProperties, LenProperties
  <2> QED
    BY <2>2, LenProperties, EmptySeq
<1>2. \A i \in DOMAIN q : i \in Nat /\ i + 1 \in DOMAIN r /\ r[i + 1] = q[i]
  <2> SUFFICES ASSUME NEW i \in 1..Len(q) PROVE r[i + 1] = q[i]
    BY <1>1
  <2>1. <<e>> \in Seq(Events) /\ Len(<<e>>) = 1
    OBVIOUS
  <2>2. r[i + 1] = q[(i + 1) - 1]
    BY <2>1, <1>1, ConcatProperties, LenProperties
  <2> QED
    BY <2>2, <1>1
<1>3. \A i \in DOMAIN r : i \in Nat /\ (i = 1 \/ (i - 1 \in DOMAIN q /\ r[i] = q[i - 1]))
  <2> SUFFICES ASSUME NEW i \in 1..(Len(q) + 1), i # 1 PROVE i - 1 \in DOMAIN q /\ r[i] = q[i - 1]
    BY <1>1
  <2>1. i - 1 \in DOMAIN q /\ (i - 1) + 1 = i
    BY <1>1
  <2> QED
    BY <2>1, <1>2
<1>4. ASSUME NEW n PROVE Has(r, n) <=> Has(q, n) \/ e.event = n
  <2>1. Has(r, n) => Has(q, n) \/ e.event = n
    BY <1>1, <1>3 DEF Has
  <2>2. Has(q, n) => Has(r, n)
    BY <1>2 DEF Has
  <2>3. e.event = n => Has(r, n)
    BY <1>1 DEF Has
  <2> QED
    BY <2>1, <2>2, <2>3
<1>5. FrontOnly(r)
  BY <1>1, <1>3 DEF FrontOnly, Has
<1>6. NothingAfterEnd(r)
  <2> SUFFICES ASSUME NEW i \in DOMAIN r, NEW j \in DOMAIN r, i < j, r[i].event \in {"FIN", "ERROR"}
               PROVE  r[j].event # "RECV"
    BY DEF NothingAfterEnd
  <2>1. i # 1 /\ j # 1 /\ i \in Nat /\ j \in Nat
    BY <1>1, <1>3
  <2>2. /\ i - 1 \in DOMAIN q /\ r[i] = q[i - 1] /\ j - 1 \in DOMAIN q /\ r[j] = q[j - 1]
        /\ i - 1 < j - 1
    BY <1>3, <2>1
  <2> QED
    BY <2>2 DEF NothingAfterEnd
<1> QED
  BY <1>1, <1>4, <1>5, <1>6

\* An empty queue.
LEMMA EmptyQueue ==
  /\ <<>> \in Seq(Events) /\ \A n : ~Has(<<>>, n) /\ ~First(<<>>, n)
  /\ ~Ending(<<>>) /\ FrontOnly(<<>>) /\ NothingAfterEnd(<<>>)
BY DEF Has, First, Ending, FrontOnly, NothingAfterEnd

-----------------------------------------------------------------------------
(* The inductive invariant.                                                 *)

Wired(p) == pcbs[p].wired = TRUE
State(p) == pcbs[p].st

\* The client has an open pcb that reports to it.
Held == _pcb \in Pcbs /\ Wired(_pcb) /\ State(_pcb) = "open"

\* One pcb at most is in use, and it has the client as its argument.
OnePcb ==
  /\ \A p, q \in Pcbs : Wired(p) /\ Wired(q) => p = q
  /\ \A p \in Pcbs : (Wired(p) /\ State(p) # "free") \/ pcbs[p] = Free

\* How far the pcb is in its life, and what _pcb and the queue say of it.
SynAlone ==
  \A p \in Pcbs : State(p) = "syn" =>
    queue = <<>> /\ _pcb = NoPcb /\ connected = FALSE /\ pcbs[p].mqtt = "none"
OpenKnown ==
  \A p \in Pcbs : State(p) = "open" =>
    /\ _pcb = p \/ (First(queue, "CONNECTED") /\ queue[1].pcb = p)
    /\ ~Ending(queue)
HalfKnown ==
  \A p \in Pcbs : State(p) = "half" =>
    First(queue, "CONNECTED") /\ queue[1].pcb = p /\ Ending(queue)
HeldOrLost == _pcb \in Pcbs => Held \/ (pcbs[_pcb] = Free /\ Ending(queue))

\* What the first event of the queue and an end in it say of the client.
ClearFirst ==
  First(queue, "CLEAR") => connected = FALSE /\ _pcb = NoPcb /\ \A p \in Pcbs : ~Wired(p)
ConnectedFirst ==
  First(queue, "CONNECTED") =>
    /\ connected = FALSE /\ _pcb = NoPcb
    /\ pcbs[queue[1].pcb].mqtt = "none"
    /\ ~Has(queue, "RECV")
FinForgets == Has(queue, "FIN") => _pcb = NoPcb
InOrder == FrontOnly(queue) /\ NothingAfterEnd(queue)

\* What _connected says, or is about to say, is so or will be corrected.
ConnectedTrue == connected = TRUE => Held \/ Ending(queue)
ConnAckTrue == Has(queue, "RECV") => Held \/ Ending(queue) \/ First(queue, "CLEAR")

Single ==
  /\ OnePcb /\ SynAlone /\ OpenKnown /\ HalfKnown /\ HeldOrLost
  /\ ClearFirst /\ ConnectedFirst /\ FinForgets /\ InOrder
  /\ ConnectedTrue /\ ConnAckTrue

ConnInv == Typed /\ (overlapped = FALSE => Single)

USE PcbAssumption, ReconnectBounds

LEMMA InitConnInv == Init => ConnInv
<1> SUFFICES ASSUME Init PROVE ConnInv
  OBVIOUS
<1>1. Typed
  <2>1. queue \in Seq(Events)
    BY EmptyQueue DEF Init
  <2>2. Free \in PcbStates
    BY DEF Free, PcbStates
  <2>3. \A i \in DOMAIN queue : queue[i].event \in Names
    BY <2>1, EventNames
  <2>4. Free.st # "syn" /\ 0 \in 0..MaxLosses /\ 0 \in 0..MaxFails
    BY DEF Free
  <2>5. TypeOK
    BY <2>2, <2>3, <2>4 DEF Init, TypeOK, PcbStates, Names
  <2> QED
    BY <2>1, <2>5 DEF Typed
<1>2. Single
  BY EmptyQueue DEF Init, Single, OnePcb, SynAlone, OpenKnown, HalfKnown, HeldOrLost, ClearFirst,
     ConnectedFirst, FinForgets, InOrder, ConnectedTrue, ConnAckTrue, Wired, State, Held, Free
<1> QED
  BY <1>1, <1>2 DEF ConnInv

\* Type correctness in the parts that a step can disturb.
Scalars ==
  /\ wifi \in {"up", "down"} /\ joining \in BOOLEAN
  /\ evPc \in {"idle", "lost", "got"}
  /\ wifiTimer \in BOOLEAN /\ mqttTimer \in {"off", "running", "due"}
  /\ connected \in BOOLEAN /\ asyncPc \in {"idle", "check", "start"}
  /\ overlapped \in BOOLEAN /\ losses \in 0..MaxLosses /\ fails \in 0..MaxFails
PcbTyped ==
  /\ pcbs \in [Pcbs -> PcbStates] /\ _pcb \in Pcbs \cup {NoPcb}
  /\ _pcb \in Pcbs => State(_pcb) # "syn"

LEMMA TypedParts ==
  /\ Typed <=> Scalars /\ PcbTyped /\ queue \in Seq(Events)
  /\ Typed' <=> Scalars' /\ PcbTyped' /\ queue' \in Seq(Events)
<1>1. queue \in Seq(Events) => \A i \in DOMAIN queue : queue[i].event \in Names
  BY EventNames
<1>2. queue' \in Seq(Events) => \A i \in DOMAIN queue' : queue'[i].event \in Names
  BY EventNames
<1>3. Typed <=> Scalars /\ PcbTyped /\ queue \in Seq(Events)
  BY <1>1 DEF Typed, TypeOK, Scalars, PcbTyped, PcbStates, Names, State
<1>4. Typed' <=> Scalars' /\ PcbTyped' /\ queue' \in Seq(Events)
  BY <1>2 DEF Typed, TypeOK, Scalars, PcbTyped, PcbStates, Names, State
<1> QED
  BY <1>3, <1>4

\* One pcb changes.
LEMMA OnePcbChanges ==
  ASSUME PcbTyped, NEW p \in Pcbs, NEW s \in PcbStates, pcbs' = [pcbs EXCEPT ![p] = s],
         _pcb' \in {_pcb, p, NoPcb}, _pcb' = p => s.st # "syn"
  PROVE  /\ PcbTyped' /\ pcbs'[p] = s
         /\ \A q \in Pcbs : q # p => pcbs'[q] = pcbs[q]
BY DEF PcbTyped, State

\* The queues that steps make.
LEMMA QueueTypes ==
  ASSUME queue \in Seq(Events)
  PROVE  /\ \A e \in Events : Append(queue, e) \in Seq(Events) /\ <<e>> \o queue \in Seq(Events)
         /\ queue # <<>> =>
              /\ Tail(queue) \in Seq(Events) /\ Head(queue) = queue[1] /\ Head(queue) \in Events
              /\ <<Clear>> \o Tail(queue) \in Seq(Events)
         /\ Clear \in Events
         /\ \A n \in Names \ {"CLEAR"}, p \in Pcbs : Event(n, p) \in Events
         /\ queue # <<>> /\ Head(queue).event # "CLEAR" => Head(queue).pcb \in Pcbs
<1>1. Clear \in Events /\ \A n \in Names \ {"CLEAR"}, p \in Pcbs : Event(n, p) \in Events
  BY DEF Clear, Event, Events, Names
<1>2. \A e \in Events : Append(queue, e) \in Seq(Events)
  BY AppendProperties
<1>3. \A q \in Seq(Events), e \in Events : <<e>> \o q \in Seq(Events)
  <2> SUFFICES ASSUME NEW q \in Seq(Events), NEW e \in Events PROVE <<e>> \o q \in Seq(Events)
    OBVIOUS
  <2>1. <<e>> \in Seq(Events)
    OBVIOUS
  <2> QED
    BY <2>1, ConcatProperties
<1>4. queue # <<>> => /\ Tail(queue) \in Seq(Events) /\ Head(queue) \in Events
                      /\ Head(queue) = queue[1]
  BY HeadTailProperties
<1>5. queue # <<>> /\ Head(queue).event # "CLEAR" => Head(queue).pcb \in Pcbs
  BY <1>4 DEF Events, Clear, Event
<1> QED
  BY <1>1, <1>2, <1>3, <1>4, <1>5

\* A step of the network or of lwIP that ends pcb p.
LEMMA EndTyped ==
  ASSUME Typed, NEW p \in Pcbs, Fin(p) \/ Freed(p)
  PROVE  PcbTyped' /\ queue' \in Seq(Events)
<1>1. Scalars /\ PcbTyped /\ queue \in Seq(Events)
  BY TypedParts
<1>2. Free \in PcbStates /\ Free.st # "syn" /\ pcbs[p] \in PcbStates
      /\ [pcbs[p] EXCEPT !.st = "half"] \in PcbStates
  BY <1>1 DEF Free, PcbStates, PcbTyped
<1>3. queue' \in Seq(Events)
  BY <1>1, QueueTypes DEF Fin, Freed, Names
<1>4. CASE Freed(p)
  <2>1. pcbs' = [pcbs EXCEPT ![p] = Free] /\ _pcb' = _pcb
    BY <1>4 DEF Freed
  <2> QED
    BY <2>1, <1>1, <1>2, <1>3, OnePcbChanges
<1>5. CASE Fin(p)
  <2> DEFINE s == IF pcbs[p].wired /\ p # _pcb THEN [pcbs[p] EXCEPT !.st = "half"] ELSE Free
  <2>1. pcbs' = [pcbs EXCEPT ![p] = s] /\ _pcb' \in {_pcb, NoPcb} /\ (_pcb' = p => FALSE)
    BY <1>5 DEF Fin
  <2>2. s \in PcbStates
    BY <1>2
  <2> QED
    BY <2>1, <2>2, <1>1, <1>3, OnePcbChanges
<1> QED
  BY <1>4, <1>5

\* _close() of a pcb.
LEMMA CloseTyped ==
  ASSUME Typed, NEW p \in Pcbs, NEW q \in Seq(Events), Close(p, q)
  PROVE  PcbTyped' /\ queue' \in Seq(Events)
<1>1. Scalars /\ PcbTyped /\ queue \in Seq(Events)
  BY TypedParts
<1>2. Free \in PcbStates /\ Free.st # "syn"
  BY DEF Free, PcbStates
<1>3. <<Clear>> \in Seq(Events)
  BY QueueTypes, <1>1
<1>4. queue' \in Seq(Events)
  BY <1>3, ConcatProperties DEF Close
<1>5. pcbs' = [pcbs EXCEPT ![p] = Free] /\ _pcb' = NoPcb
  BY DEF Close
<1> QED
  BY <1>1, <1>2, <1>4, <1>5, OnePcbChanges

\* connectToMqtt of a task.
LEMMA ConnectTyped ==
  ASSUME Typed, Connect, _pcb' = _pcb
  PROVE  PcbTyped' /\ overlapped' \in BOOLEAN
<1>1. Scalars /\ PcbTyped
  BY TypedParts
<1>2. CASE UNCHANGED pcbVars
  BY <1>1, <1>2 DEF PcbTyped, pcbVars, State, Scalars
<1>3. CASE ~UNCHANGED pcbVars
  <2>1. _pcb = NoPcb /\ overlapped' \in BOOLEAN
    BY <1>3 DEF Connect, Refused
  <2>2. PICK p \in Pcbs : pcbs' = [pcbs EXCEPT ![p] = Syn]
    BY <1>3 DEF Connect
  <2>3. Syn \in PcbStates
    BY DEF Syn, Free, PcbStates
  <2> QED
    BY <2>1, <2>2, <2>3, <1>1, OnePcbChanges
<1> QED
  BY <1>2, <1>3

LEMMA NextTyped == Typed /\ [Next]_vars => Typed'
<1> SUFFICES ASSUME Typed, [Next]_vars PROVE Typed'
  OBVIOUS
<1>1. Scalars /\ PcbTyped /\ queue \in Seq(Events)
  BY TypedParts
<1>2. CASE UNCHANGED <<pcbVars, _pcb, connected, queue, fails>>
           /\ (LoseWifi \/ GotIp \/ OnWifiLost \/ WifiTimerFires \/ SecondPasses
               \/ CheckWifi \/ StartMqttTimer)
  <2>1. PcbTyped' /\ queue' \in Seq(Events)
    BY <1>1, <1>2 DEF PcbTyped, pcbVars, State
  <2>2. Scalars'
    <3>1. overlapped' = overlapped /\ connected' = connected /\ fails' = fails
      BY <1>2 DEF pcbVars
    <3>2. losses' \in {losses, losses + 1} /\ (losses' = losses + 1 => losses < MaxLosses)
      BY <1>1, <1>2 DEF Scalars, wifiVars, LoseWifi, GotIp, OnWifiLost, WifiTimerFires,
         SecondPasses, CheckWifi, StartMqttTimer
    <3>3. wifi' \in {"up", "down"} /\ evPc' \in {"idle", "lost", "got"}
      BY <1>1, <1>2 DEF Scalars, wifiVars, LoseWifi, GotIp, OnWifiLost, WifiTimerFires,
         SecondPasses, CheckWifi, StartMqttTimer
    <3>4. mqttTimer' \in {"off", "running", "due"} /\ asyncPc' \in {"idle", "check", "start"}
      BY <1>1, <1>2 DEF Scalars, clientVars, LoseWifi, GotIp, OnWifiLost, WifiTimerFires,
         SecondPasses, CheckWifi, StartMqttTimer
    <3>5. joining' \in BOOLEAN /\ wifiTimer' \in BOOLEAN
      BY <1>1, <1>2 DEF Scalars, wifiVars, LoseWifi, GotIp, OnWifiLost, LostTimer, WifiTimerFires,
         SecondPasses, CheckWifi, StartMqttTimer
    <3>6. losses' \in 0..MaxLosses
      BY <1>1, <3>2 DEF Scalars
    <3> QED
      BY <1>1, <3>1, <3>3, <3>4, <3>5, <3>6 DEF Scalars
  <2> QED
    BY <2>1, <2>2, TypedParts
<1>3. CASE OnGotIp \/ MqttTimerFires
  <2>1. Connect /\ _pcb' = _pcb /\ queue' = queue
    BY <1>3 DEF OnGotIp, MqttTimerFires, clientVars
  <2>2. PcbTyped' /\ overlapped' \in BOOLEAN
    BY <2>1, ConnectTyped
  <2>3. /\ wifi' = wifi /\ joining' = joining /\ wifiTimer' = wifiTimer /\ losses' = losses
        /\ evPc' \in {evPc, "idle"} /\ mqttTimer' \in {mqttTimer, "off"}
        /\ connected' = connected /\ asyncPc' = asyncPc /\ fails' = fails
    BY <1>3 DEF OnGotIp, MqttTimerFires, clientVars, wifiVars
  <2>4. Scalars'
    BY <1>1, <2>2, <2>3 DEF Scalars
  <2> QED
    BY <2>1, <2>2, <2>4, <1>1, TypedParts
<1>4. ASSUME NEW p \in Pcbs, SynAck(p) \/ TakeConnect(p) \/ ConnAck(p) \/ Vanish(p) PROVE Typed'
  <2>1. /\ [pcbs[p] EXCEPT !.st = "open"] \in PcbStates
        /\ [pcbs[p] EXCEPT !.mqtt = "taken"] \in PcbStates
        /\ [pcbs[p] EXCEPT !.mqtt = "acked"] \in PcbStates
        /\ [pcbs[p] EXCEPT !.gone = TRUE] \in PcbStates
    BY <1>1 DEF PcbTyped, PcbStates
  <2>2. _pcb' = _pcb /\ PcbTyped'
    <3>1. PICK s \in PcbStates : pcbs' = [pcbs EXCEPT ![p] = s] /\ (_pcb = p => s.st # "syn")
      <4>1. pcbs[p] \in PcbStates /\ (_pcb = p => pcbs[p].st # "syn")
        BY <1>1 DEF PcbTyped, State
      <4>2. CASE SynAck(p)
        BY <2>1, <4>1, <4>2 DEF SynAck, PcbStates
      <4>3. CASE TakeConnect(p)
        BY <2>1, <4>1, <4>3 DEF TakeConnect, PcbStates
      <4>4. CASE ConnAck(p)
        BY <2>1, <4>1, <4>4 DEF ConnAck, PcbStates
      <4>5. CASE Vanish(p)
        BY <2>1, <4>1, <4>5 DEF Vanish, PcbStates
      <4> QED
        BY <1>4, <4>2, <4>3, <4>4, <4>5
    <3>2. _pcb' = _pcb
      BY <1>4 DEF SynAck, TakeConnect, ConnAck, Vanish, clientVars
    <3> QED
      BY <3>1, <3>2, <1>1, OnePcbChanges
  <2>3. queue' \in Seq(Events)
    BY <1>1, <1>4, QueueTypes DEF SynAck, TakeConnect, ConnAck, Vanish, clientVars, Names
  <2>4. Scalars'
    BY <1>1, <1>4 DEF SynAck, TakeConnect, ConnAck, Vanish, Failing, Scalars, clientVars, wifiVars
  <2> QED
    BY <2>2, <2>3, <2>4, TypedParts
<1>5. ASSUME NEW p \in Pcbs, CloseByServer(p) \/ CloseIdle(p) \/ Reset(p) \/ GiveUp(p) PROVE Typed'
  <2>1. Fin(p) \/ Freed(p)
    BY <1>5 DEF CloseByServer, CloseIdle, Reset, GiveUp
  <2>2. PcbTyped' /\ queue' \in Seq(Events)
    BY <2>1, EndTyped
  <2>3. Scalars'
    BY <1>1, <1>5, <2>1 DEF CloseByServer, CloseIdle, Reset, GiveUp, Failing, Fin, Freed, Scalars, wifiVars
  <2> QED
    BY <2>2, <2>3, TypedParts
<1>6. CASE HandleClear \/ HandleConnAck \/ HandleFin
  <2>1. UNCHANGED <<pcbVars, _pcb>> /\ PcbTyped'
    BY <1>1, <1>6 DEF HandleClear, HandleConnAck, HandleFin, PcbTyped, State, pcbVars
  <2>2. queue' \in Seq(Events)
    BY <1>1, <1>6, QueueTypes, EmptyQueue DEF HandleClear, HandleConnAck, HandleFin, Handling
  <2>3. Scalars'
    BY <1>1, <1>6 DEF HandleClear, HandleConnAck, HandleFin, OnDisconnect, ClearedConnected,
       Scalars, wifiVars, pcbVars
  <2> QED
    BY <2>1, <2>2, <2>3, TypedParts
<1>7. CASE HandleConnected
  <2> DEFINE p == Head(queue).pcb
             s == [pcbs[p] EXCEPT !.mqtt = IF @ = "none" THEN "sent" ELSE @]
  <2>1. p \in Pcbs /\ queue' \in Seq(Events)
    BY <1>1, <1>7, QueueTypes DEF HandleConnected, Handling
  <2>2. pcbs' = [pcbs EXCEPT ![p] = s] /\ _pcb' = p /\ s.st # "syn" /\ s \in PcbStates
    BY <1>1, <2>1, <1>7 DEF HandleConnected, PcbTyped, PcbStates
  <2>3. PcbTyped'
    BY <2>1, <2>2, <1>1, OnePcbChanges
  <2>4. Scalars'
    BY <1>1, <1>7 DEF HandleConnected, Scalars, wifiVars
  <2> QED
    BY <2>1, <2>3, <2>4, TypedParts
<1>8. CASE HandleConnectedTooLate \/ KeepAliveCloses
  <2>1. PICK p \in Pcbs, q \in Seq(Events) : Close(p, q)
    BY <1>1, <1>8, QueueTypes DEF HandleConnectedTooLate, KeepAliveCloses, Handling, PcbTyped
  <2>2. PcbTyped' /\ queue' \in Seq(Events)
    BY <2>1, CloseTyped
  <2>3. connected' = FALSE /\ asyncPc' = "check"
    BY <2>1 DEF Close, OnDisconnect, ClearedConnected
  <2>4. Scalars'
    BY <1>1, <1>8, <2>3 DEF HandleConnectedTooLate, KeepAliveCloses, Scalars, wifiVars
  <2> QED
    BY <2>2, <2>4, TypedParts
<1>9. CASE HandleError
  <2>1. \A p \in Pcbs : [pcbs[p] EXCEPT !.wired = FALSE] \in PcbStates
    BY <1>1 DEF PcbTyped, PcbStates
  <2>2. PcbTyped'
    BY <1>1, <1>9, <2>1 DEF HandleError, PcbTyped
  <2>3. queue' \in Seq(Events)
    BY <1>1, <1>9, QueueTypes DEF HandleError, Handling
  <2>4. Scalars'
    BY <1>1, <1>9 DEF HandleError, OnDisconnect, ClearedConnected, Scalars, wifiVars
  <2> QED
    BY <2>2, <2>3, <2>4, TypedParts
<1>10. CASE UNCHANGED vars
  <2>1. Scalars' /\ PcbTyped' /\ queue' \in Seq(Events)
    BY <1>1, <1>10 DEF vars, wifiVars, pcbVars, clientVars, Scalars, PcbTyped, State
  <2> QED
    BY <2>1, TypedParts
<1>11. LoseWifi \/ GotIp \/ OnWifiLost \/ WifiTimerFires \/ SecondPasses \/ CheckWifi \/ StartMqttTimer
       => UNCHANGED <<pcbVars, _pcb, connected, queue, fails>>
  BY DEF LoseWifi, GotIp, OnWifiLost, WifiTimerFires, SecondPasses, CheckWifi, StartMqttTimer,
     clientVars
<1> QED
  BY <1>2, <1>3, <1>4, <1>5, <1>6, <1>7, <1>8, <1>9, <1>10, <1>11
     DEF Next, EventTask, Daemon, Async, Answers, Failures

-----------------------------------------------------------------------------
(* Every step keeps Single, as long as no attempts overlap.                 *)

LEMMA SingleSame ==
  ASSUME Single, UNCHANGED <<pcbs, _pcb, connected, queue>>
  PROVE  Single'
BY DEF Single, OnePcb, SynAlone, OpenKnown, HalfKnown, HeldOrLost, ClearFirst, ConnectedFirst,
       FinForgets, InOrder, ConnectedTrue, ConnAckTrue, Wired, State, Held

\* An attempt to connect that begins when another is over.
LEMMA SingleConnect ==
  ASSUME Typed, Single, Connect, overlapped' = FALSE, UNCHANGED <<_pcb, connected, queue>>
  PROVE  Single'
<1>1. Scalars /\ PcbTyped
  BY TypedParts
<1>2. CASE UNCHANGED pcbVars
  BY <1>2, SingleSame DEF pcbVars
<1>3. CASE ~UNCHANGED pcbVars
  <2>1. connected = FALSE /\ _pcb = NoPcb
    BY <1>1, <1>3 DEF Connect, Refused, Scalars
  <2>2. PICK p \in Pcbs : pcbs' = [pcbs EXCEPT ![p] = Syn]
    BY <1>3 DEF Connect
  <2>3. queue = <<>> /\ \A q \in Pcbs : ~Wired(q)
    BY <1>3 DEF Connect, Wired
  <2>4. /\ pcbs'[p] = Syn /\ \A q \in Pcbs : q # p => pcbs'[q] = Free
        /\ Syn.wired = TRUE /\ Syn.st = "syn" /\ Syn.mqtt = "none" /\ Free.wired = FALSE /\ Free.st = "free"
    BY <1>1, <2>2, <2>3 DEF PcbTyped, Single, OnePcb, Syn, Free
  <2>5. queue' = <<>> /\ connected' = FALSE /\ _pcb' = NoPcb
    BY <2>1, <2>3
  <2> QED
    BY <2>4, <2>5, EmptyQueue
       DEF Single, OnePcb, SynAlone, OpenKnown, HalfKnown, HeldOrLost, ClearFirst, ConnectedFirst,
       FinForgets, InOrder, ConnectedTrue, ConnAckTrue, Wired, State, Held
<1> QED
  BY <1>2, <1>3

\* The three-way handshake is done: nothing is queued yet.
LEMMA SingleSynAck ==
  ASSUME Typed, Single, NEW p \in Pcbs, SynAck(p)
  PROVE  Single'
<1>1. Scalars /\ PcbTyped /\ queue \in Seq(Events)
  BY TypedParts
<1>2. queue = <<>> /\ _pcb = NoPcb /\ connected = FALSE
  BY DEF SynAck, Single, SynAlone, State
<1>3. /\ pcbs'[p] = [pcbs[p] EXCEPT !.st = "open"] /\ \A q \in Pcbs : q # p => pcbs'[q] = pcbs[q]
      /\ pcbs[p] # Free /\ pcbs[p] \in PcbStates
  BY <1>1 DEF SynAck, PcbTyped, Free
<1>4. /\ pcbs'[p].st = "open" /\ pcbs'[p].wired = TRUE
      /\ \A q \in Pcbs : q # p => pcbs'[q] = Free
      /\ Free.st = "free" /\ Free.wired = FALSE
  BY <1>3 DEF PcbStates, Single, OnePcb, Wired, Free
<1>5. pcbs'[p].mqtt = "none"
  BY <1>3 DEF Single, SynAlone, SynAck, State
<1>6. /\ queue' = Append(<<>>, Event("CONNECTED", p)) /\ Event("CONNECTED", p) \in Events
      /\ _pcb' = NoPcb /\ connected' = FALSE
  BY <1>2, <1>1, QueueTypes DEF SynAck, Names
<1>7. /\ First(queue', "CONNECTED") /\ ~First(queue', "CLEAR") /\ queue'[1].pcb = p
      /\ ~Has(queue', "RECV") /\ ~Has(queue', "FIN") /\ ~Has(queue', "ERROR")
      /\ FrontOnly(queue') /\ NothingAfterEnd(queue')
  BY <1>6 DEF First, Has, FrontOnly, NothingAfterEnd, Event
<1> QED
  BY <1>4, <1>5, <1>6, <1>7 DEF Single, Ending, OnePcb, SynAlone, OpenKnown, HalfKnown, HeldOrLost, ClearFirst, ConnectedFirst,
       FinForgets, InOrder, ConnectedTrue, ConnAckTrue, Wired, State, Held

\* The handshake of MQTT goes on, or the server vanishes: the pcb is open before
\* and after, and at most a CONNACK is put.
LEMMA SingleOpen ==
  ASSUME Typed, Single, NEW p \in Pcbs, TakeConnect(p) \/ ConnAck(p) \/ Vanish(p)
  PROVE  Single'
<1>1. Scalars /\ PcbTyped /\ queue \in Seq(Events)
  BY TypedParts
<1>2. State(p) = "open" /\ pcbs[p] \in PcbStates
  BY <1>1 DEF TakeConnect, ConnAck, Vanish, Reaches, State, PcbTyped
<1>3. Wired(p) /\ Free.st = "free"
  BY <1>2 DEF Single, OnePcb, State, Free
<1>4. /\ pcbs'[p].st = "open" /\ pcbs'[p].wired = TRUE
      /\ pcbs'[p].mqtt = "none" <=> pcbs[p].mqtt = "none"
      /\ \A q \in Pcbs : q # p => pcbs'[q] = pcbs[q]
      /\ _pcb' = _pcb /\ connected' = connected
  BY <1>1, <1>2, <1>3 DEF TakeConnect, ConnAck, Vanish, PcbTyped, PcbStates, State, Wired, clientVars
<1>5. CASE queue' = queue
  BY <1>2, <1>3, <1>4, <1>5 DEF Single, Ending, OnePcb, SynAlone, OpenKnown, HalfKnown, HeldOrLost, ClearFirst, ConnectedFirst,
       FinForgets, InOrder, ConnectedTrue, ConnAckTrue, Wired, State, Held
<1>6. CASE queue' # queue
  <2>1. PICK e \in Events : queue' = Append(queue, e) /\ e.event = "RECV" /\ pcbs[p].mqtt # "none"
    <3>1. queue' = Append(queue, Event("RECV", p)) /\ pcbs[p].mqtt # "none"
      BY <1>6 DEF TakeConnect, ConnAck, Vanish, clientVars
    <3>2. Event("RECV", p) \in Events /\ Event("RECV", p).event = "RECV"
      BY <1>1, QueueTypes DEF Names, Event
    <3> QED
      BY <3>1, <3>2
  <2>3. /\ \A n : Has(queue', n) <=> Has(queue, n) \/ e.event = n
        /\ \A n : First(queue', n) <=> First(queue, n) \/ (queue = <<>> /\ e.event = n)
        /\ queue # <<>> => queue'[1] = queue[1]
        /\ FrontOnly(queue) => FrontOnly(queue')
        /\ NothingAfterEnd(queue) /\ ~Ending(queue) => NothingAfterEnd(queue')
    BY <2>1, <1>1, Appended
  <2>4. _pcb = p /\ ~Ending(queue) /\ ~First(queue, "CONNECTED") /\ ~First(queue, "CLEAR")
    BY <1>2, <1>3, <2>1 DEF Single, OpenKnown, ConnectedFirst, ClearFirst
  <2> QED
    BY <1>2, <1>3, <1>4, <2>1, <2>3, <2>4 DEF Single, Ending, OnePcb, SynAlone, OpenKnown, HalfKnown, HeldOrLost, ClearFirst, ConnectedFirst,
       FinForgets, InOrder, ConnectedTrue, ConnAckTrue, Wired, State, Held
<1> QED
  BY <1>5, <1>6

\* A FIN, and everything after which lwIP has freed the pcb.
LEMMA SingleEnd ==
  ASSUME Typed, Single, NEW p \in Pcbs, Fin(p) \/ (pcbs[p] # Free /\ Freed(p))
  PROVE  Single'
<1>1. Scalars /\ PcbTyped /\ queue \in Seq(Events)
  BY TypedParts
<1>2. Wired(p) /\ Free.wired = FALSE /\ Free.st = "free"
  BY DEF Fin, Reaches, Single, OnePcb, Free
<1>3. PICK e \in Events : /\ queue' = Append(queue, e)
                         /\ e.event = IF Fin(p) THEN "FIN" ELSE "ERROR"
  <2>1. /\ Event("FIN", p) \in Events /\ Event("FIN", p).event = "FIN"
        /\ Event("ERROR", p) \in Events /\ Event("ERROR", p).event = "ERROR"
    BY <1>1, QueueTypes DEF Names, Event
  <2>2. queue' = Append(queue, IF Fin(p) THEN Event("FIN", p) ELSE Event("ERROR", p))
    BY <1>2 DEF Fin, Freed, Wired
  <2> QED
    BY <2>1, <2>2
<1>4. e.event \in {"FIN", "ERROR"}
  BY <1>3
<1>5. /\ \A m : Has(queue', m) <=> Has(queue, m) \/ m = e.event
      /\ \A m : First(queue', m) <=> First(queue, m) \/ (queue = <<>> /\ m = e.event)
      /\ queue # <<>> => queue'[1] = queue[1]
      /\ FrontOnly(queue) => FrontOnly(queue')
      /\ NothingAfterEnd(queue) => NothingAfterEnd(queue')
      /\ Ending(queue')
  BY <1>3, <1>4, <1>1, Appended DEF Ending
<1>6. CASE ~Fin(p)
  <2>1. e.event = "ERROR" /\ Freed(p)
    BY <1>3, <1>6
  <2>2. pcbs'[p] = Free /\ (\A q \in Pcbs : q # p => pcbs'[q] = pcbs[q])
        /\ _pcb' = _pcb /\ connected' = connected
    BY <1>1, <2>1 DEF Freed, PcbTyped
  <2>3. /\ First(queue, "CONNECTED") => queue # <<>> /\ queue[1].pcb \in Pcbs
        /\ Free.mqtt = "none"
    BY <1>1, QueueTypes DEF First, Free
  <2> QED
    BY <1>2, <1>5, <2>1, <2>2, <2>3 DEF Single, OnePcb, SynAlone, OpenKnown, HalfKnown, HeldOrLost, ClearFirst, ConnectedFirst,
       FinForgets, InOrder, ConnectedTrue, ConnAckTrue, Wired, State, Held
<1>7. CASE Fin(p)
  <2>1. connected' = connected /\ State(p) = "open" /\ \A q \in Pcbs : q # p => pcbs'[q] = pcbs[q]
    BY <1>1, <1>7 DEF Fin, Reaches, State, PcbTyped
  <2>2. CASE _pcb = p
    <3>1. pcbs'[p] = Free /\ _pcb' = NoPcb
      BY <1>1, <1>7, <2>2 DEF Fin, PcbTyped
    <3> QED
      BY <1>2, <1>4, <1>5, <2>1, <2>2, <3>1 DEF Single, OnePcb, SynAlone, OpenKnown, HalfKnown, HeldOrLost, ClearFirst, ConnectedFirst,
       FinForgets, InOrder, ConnectedTrue, ConnAckTrue, Wired, State, Held
  <2>3. CASE _pcb # p
    <3>1. /\ pcbs'[p].st = "half" /\ pcbs'[p].wired = TRUE /\ pcbs'[p].mqtt = pcbs[p].mqtt
          /\ _pcb' = _pcb
      BY <1>1, <1>2, <1>7, <2>3 DEF Fin, PcbTyped, PcbStates, Wired
    <3>2. First(queue, "CONNECTED") /\ queue[1].pcb = p /\ _pcb = NoPcb
      BY <2>1, <2>3 DEF Single, OpenKnown, ConnectedFirst
    <3>3. queue # <<>>
      BY <3>2 DEF First
    <3> QED
      BY <1>2, <1>4, <1>5, <2>1, <2>3, <3>1, <3>2, <3>3 DEF Single, OnePcb, SynAlone, OpenKnown, HalfKnown, HeldOrLost, ClearFirst, ConnectedFirst,
       FinForgets, InOrder, ConnectedTrue, ConnAckTrue, Wired, State, Held
  <2> QED
    BY <2>2, <2>3
<1> QED
  BY <1>6, <1>7

\* What the async task finds in front of the queue, and what is left behind it.
LEMMA Handled ==
  ASSUME Typed, Single, NEW name \in Names, Handling(name)
  PROVE  /\ First(queue, name) /\ queue # <<>> /\ Head(queue) = queue[1] /\ queue[1].event = name
         /\ name # "CLEAR" => queue[1].pcb \in Pcbs
         /\ Has(queue, name)
         /\ \A n : First(queue, n) => n = name
         /\ Tail(queue) \in Seq(Events)
         /\ \A n : Has(Tail(queue), n) => Has(queue, n)
         /\ \A n : Has(queue, n) => Has(Tail(queue), n) \/ n = name
         /\ FrontOnly(Tail(queue)) /\ NothingAfterEnd(Tail(queue))
         /\ ~Has(Tail(queue), "CLEAR") /\ ~Has(Tail(queue), "CONNECTED")
         /\ ~First(Tail(queue), "CLEAR") /\ ~First(Tail(queue), "CONNECTED")
         /\ name \in {"FIN", "ERROR"} => ~Has(Tail(queue), "RECV")
<1>1. queue \in Seq(Events) /\ queue # <<>> /\ Head(queue).event = name
  BY TypedParts DEF Handling
<1>2. FrontOnly(queue) /\ NothingAfterEnd(queue)
  BY DEF Single, InOrder
<1>3. /\ Tail(queue) \in Seq(Events) /\ Head(queue) = queue[1]
      /\ \A n : Has(Tail(queue), n) => Has(queue, n)
      /\ \A n : Has(queue, n) => Has(Tail(queue), n) \/ queue[1].event = n
      /\ FrontOnly(Tail(queue)) /\ NothingAfterEnd(Tail(queue))
      /\ ~Has(Tail(queue), "CLEAR") /\ ~Has(Tail(queue), "CONNECTED")
      /\ queue[1].event \in {"FIN", "ERROR"} => ~Has(Tail(queue), "RECV")
  BY <1>1, <1>2, Taken
<1>4. name # "CLEAR" => queue[1].pcb \in Pcbs
  BY <1>1, <1>3, QueueTypes
<1>5. First(queue, name) /\ \A n : First(queue, n) => n = name
  BY <1>1, <1>3 DEF First
<1>6. Has(queue, name)
  <2>1. 1 \in DOMAIN queue
    BY <1>1, LenProperties, EmptySeq
  <2> QED
    BY <2>1, <1>1, <1>3 DEF Has
<1>7. ASSUME NEW n, First(Tail(queue), n) PROVE Has(Tail(queue), n)
  <2>1. 1 \in DOMAIN Tail(queue)
    BY <1>3, <1>7, LenProperties, EmptySeq DEF First
  <2> QED
    BY <2>1, <1>7 DEF First, Has
<1> QED
  BY <1>1, <1>3, <1>4, <1>5, <1>6, <1>7

\* A disconnection handled: nothing is in use, and CLEAR is in front.
LEMMA SingleCleared ==
  ASSUME \A p \in Pcbs : pcbs'[p] = Free, _pcb' = NoPcb, connected' = FALSE,
         NEW q \in Seq(Events), queue' = <<Clear>> \o q, NothingAfterEnd(q),
         ~Has(q, "CLEAR"), ~Has(q, "CONNECTED")
  PROVE  Single'
<1>1. Clear \in Events /\ Clear.event = "CLEAR" /\ Free.wired = FALSE /\ Free.st = "free"
  BY DEF Events, Clear, Event, Free
<1>2. /\ queue' # <<>> /\ queue'[1] = Clear /\ FrontOnly(queue') /\ NothingAfterEnd(queue')
      /\ \A n : Has(queue', n) <=> Has(q, n) \/ Clear.event = n
  BY <1>1, InFront
<1>3. First(queue', "CLEAR") /\ ~First(queue', "CONNECTED")
  BY <1>1, <1>2 DEF First
<1> QED
  BY <1>1, <1>2, <1>3 DEF Single, OnePcb, SynAlone, OpenKnown, HalfKnown, HeldOrLost, ClearFirst, ConnectedFirst,
       FinForgets, InOrder, ConnectedTrue, ConnAckTrue, Wired, State, Held

\* A pcb that is neither open nor half open is not in use when events are queued.
LEMMA NotInUse ==
  ASSUME Typed, Single, queue # <<>>, NEW p \in Pcbs, State(p) \notin {"open", "half"}
  PROVE  pcbs[p] = Free
<1>1. State(p) \in {"free", "syn", "open", "half"}
  BY TypedParts DEF PcbTyped, PcbStates, State
<1>2. State(p) # "syn"
  BY DEF Single, SynAlone
<1> QED
  BY <1>1, <1>2 DEF Single, OnePcb

\* LWIP_TCP_CLEAR.
LEMMA SingleClear ==
  ASSUME Typed, Single, HandleClear
  PROVE  Single'
<1>1. First(queue, "CLEAR") /\ queue # <<>>
  BY Handled DEF HandleClear, Names
<1>2. queue' = <<>> /\ UNCHANGED <<pcbs, _pcb, connected>>
  BY DEF HandleClear, pcbVars
<1>3. \A p \in Pcbs : pcbs[p] = Free
  BY <1>1 DEF Single, OnePcb, ClearFirst
<1>4. Free.st = "free" /\ Free.wired = FALSE
  BY DEF Free
<1> QED
  BY <1>1, <1>2, <1>3, <1>4, EmptyQueue DEF Single, OnePcb, SynAlone, OpenKnown, HalfKnown, HeldOrLost, ClearFirst, ConnectedFirst,
       FinForgets, InOrder, ConnectedTrue, ConnAckTrue, Wired, State, Held

\* CONNECTED for a pcb that is still open.
LEMMA SingleConnected ==
  ASSUME Typed, Single, HandleConnected
  PROVE  Single'
<1>1. PcbTyped
  BY TypedParts
<1> DEFINE p == queue[1].pcb
<1>2. /\ First(queue, "CONNECTED") /\ queue # <<>> /\ Head(queue) = queue[1] /\ p \in Pcbs
      /\ Tail(queue) \in Seq(Events)
      /\ \A n : Has(Tail(queue), n) => Has(queue, n)
      /\ FrontOnly(Tail(queue)) /\ NothingAfterEnd(Tail(queue))
      /\ ~First(Tail(queue), "CLEAR") /\ ~First(Tail(queue), "CONNECTED")
  BY Handled DEF HandleConnected, Names
<1>3. State(p) = "open" /\ queue' = Tail(queue) /\ connected' = connected /\ _pcb' = p
  BY <1>2 DEF HandleConnected, State
<1>4. /\ pcbs'[p].st = "open" /\ pcbs'[p].wired = pcbs[p].wired
      /\ \A q \in Pcbs : q # p => pcbs'[q] = pcbs[q]
  BY <1>1, <1>2, <1>3 DEF HandleConnected, PcbTyped, PcbStates, State
<1>5. /\ Wired(p) /\ Free.st = "free" /\ ~Ending(queue) /\ ~Has(queue, "RECV")
      /\ connected = FALSE
  BY <1>2, <1>3 DEF Single, OnePcb, OpenKnown, ConnectedFirst, State, Free
<1>6. \A q \in Pcbs : q # p => pcbs[q] = Free
  BY <1>2, <1>5 DEF Single, OnePcb
<1> HIDE DEF p
<1> QED
  BY <1>2, <1>3, <1>4, <1>5, <1>6 DEF Single, Ending, OnePcb, SynAlone, OpenKnown, HalfKnown, HeldOrLost, ClearFirst, ConnectedFirst,
       FinForgets, InOrder, ConnectedTrue, ConnAckTrue, Wired, State, Held

\* CONNECTED for a pcb that is not open any more.
LEMMA SingleTooLate ==
  ASSUME Typed, Single, HandleConnectedTooLate
  PROVE  Single'
<1>1. PcbTyped
  BY TypedParts
<1> DEFINE p == queue[1].pcb
<1>2. /\ First(queue, "CONNECTED") /\ queue # <<>> /\ Head(queue) = queue[1] /\ p \in Pcbs
      /\ Tail(queue) \in Seq(Events) /\ NothingAfterEnd(Tail(queue))
      /\ ~Has(Tail(queue), "CLEAR") /\ ~Has(Tail(queue), "CONNECTED")
  BY Handled DEF HandleConnectedTooLate, Names
<1>3. State(p) # "open"
  BY <1>2 DEF HandleConnectedTooLate, State
<1>4. /\ pcbs' = [pcbs EXCEPT ![p] = Free] /\ _pcb' = NoPcb
      /\ connected' = FALSE /\ queue' = <<Clear>> \o Tail(queue)
  BY <1>2 DEF HandleConnectedTooLate, Close, OnDisconnect, ClearedConnected
<1>5. ASSUME NEW q \in Pcbs, q # p PROVE pcbs[q] = Free
  <2>1. State(q) \notin {"open", "half"}
    BY <1>2, <1>5 DEF Single, OpenKnown, HalfKnown, ConnectedFirst
  <2> QED
    BY <2>1, <1>2, NotInUse
<1>6. \A q \in Pcbs : pcbs'[q] = Free
  BY <1>1, <1>2, <1>4, <1>5 DEF PcbTyped
<1> QED
  BY <1>2, <1>4, <1>6, SingleCleared

\* The CONNACK.
LEMMA SingleConnAck ==
  ASSUME Typed, Single, HandleConnAck
  PROVE  Single'
<1>1. /\ First(queue, "RECV") /\ Has(queue, "RECV") /\ queue # <<>>
      /\ \A n : First(queue, n) => n = "RECV"
      /\ \A n : Has(Tail(queue), n) => Has(queue, n)
      /\ \A n : Has(queue, n) => Has(Tail(queue), n) \/ n = "RECV"
      /\ FrontOnly(Tail(queue)) /\ NothingAfterEnd(Tail(queue))
      /\ ~First(Tail(queue), "CLEAR") /\ ~First(Tail(queue), "CONNECTED")
  BY Handled DEF HandleConnAck, Names
<1>2. queue' = Tail(queue) /\ connected' = TRUE /\ UNCHANGED <<pcbs, _pcb>>
  BY DEF HandleConnAck, pcbVars
<1>3. Ending(queue') <=> Ending(queue)
  BY <1>1, <1>2 DEF Ending
<1>4. ~First(queue, "CLEAR") /\ ~First(queue, "CONNECTED")
  BY <1>1
<1> QED
  BY <1>1, <1>2, <1>3, <1>4 DEF Single, OnePcb, SynAlone, OpenKnown, HalfKnown, HeldOrLost, ClearFirst, ConnectedFirst,
       FinForgets, InOrder, ConnectedTrue, ConnAckTrue, Wired, State, Held

\* A FIN.
LEMMA SingleFin ==
  ASSUME Typed, Single, HandleFin
  PROVE  Single'
<1>1. /\ Has(queue, "FIN") /\ queue # <<>>
      /\ \A n : First(queue, n) => n = "FIN"
      /\ Tail(queue) \in Seq(Events) /\ NothingAfterEnd(Tail(queue))
      /\ ~Has(Tail(queue), "CLEAR") /\ ~Has(Tail(queue), "CONNECTED")
  BY Handled DEF HandleFin, Names
<1>2. /\ queue' = <<Clear>> \o Tail(queue) /\ connected' = FALSE /\ UNCHANGED <<pcbs, _pcb>>
      /\ _pcb = NoPcb /\ Ending(queue) /\ ~First(queue, "CONNECTED")
  BY <1>1 DEF HandleFin, OnDisconnect, ClearedConnected, pcbVars, Ending, Single, FinForgets
<1>3. \A p \in Pcbs : State(p) \notin {"open", "half"}
  BY <1>2 DEF Single, OpenKnown, HalfKnown
<1>4. \A p \in Pcbs : pcbs[p] = Free
  BY <1>1, <1>3, NotInUse
<1> QED
  BY <1>1, <1>2, <1>4, SingleCleared

\* An error.
LEMMA SingleError ==
  ASSUME Typed, Single, HandleError
  PROVE  Single'
<1>1. /\ Has(queue, "ERROR") /\ queue # <<>>
      /\ \A n : First(queue, n) => n = "ERROR"
      /\ FrontOnly(Tail(queue)) /\ NothingAfterEnd(Tail(queue))
      /\ ~First(Tail(queue), "CLEAR") /\ ~First(Tail(queue), "CONNECTED")
      /\ ~Has(Tail(queue), "RECV")
  BY Handled DEF HandleError, Names
<1>2. /\ queue' = Tail(queue) /\ connected' = FALSE /\ _pcb' = NoPcb
      /\ Ending(queue) /\ ~First(queue, "CONNECTED")
  BY <1>1 DEF HandleError, OnDisconnect, ClearedConnected, Ending
<1>3. \A p \in Pcbs : State(p) \notin {"open", "half"}
  BY <1>2 DEF Single, OpenKnown, HalfKnown
<1>4. \A p \in Pcbs : pcbs[p] = Free
  BY <1>1, <1>3, NotInUse
<1>5. [Free EXCEPT !.wired = FALSE] = Free /\ Free.st = "free" /\ Free.wired = FALSE
  <2>1. Free.st = "free" /\ Free.wired = FALSE
    BY DEF Free
  <2>2. Free \in PcbStates
    BY DEF Free, PcbStates
  <2>3. \A r \in PcbStates : r.wired = FALSE => [r EXCEPT !.wired = FALSE] = r
    BY DEF PcbStates
  <2> QED
    BY <2>1, <2>2, <2>3
<1>6. \A p \in Pcbs : pcbs'[p] = Free
  BY <1>4, <1>5 DEF HandleError
<1> QED
  BY <1>1, <1>2, <1>5, <1>6 DEF Single, OnePcb, SynAlone, OpenKnown, HalfKnown, HeldOrLost, ClearFirst, ConnectedFirst,
       FinForgets, InOrder, ConnectedTrue, ConnAckTrue, Wired, State, Held

\* disconnect() for want of a PINGRESP.
LEMMA SingleKeepAlive ==
  ASSUME Typed, Single, KeepAliveCloses
  PROVE  Single'
<1>1. Scalars /\ PcbTyped /\ queue \in Seq(Events)
  BY TypedParts
<1>2. connected = TRUE /\ _pcb \in Pcbs /\ pcbs[_pcb].st = "open"
  BY <1>1 DEF KeepAliveCloses, PcbTyped, Scalars
<1>3. /\ pcbs' = [pcbs EXCEPT ![_pcb] = Free] /\ _pcb' = NoPcb
      /\ connected' = FALSE /\ queue' = <<Clear>> \o queue
  BY DEF KeepAliveCloses, Close, OnDisconnect, ClearedConnected
<1>4. Wired(_pcb)
  BY <1>2 DEF Single, OnePcb, Free
<1>5. \A q \in Pcbs : pcbs'[q] = Free
  BY <1>1, <1>2, <1>3, <1>4 DEF Single, OnePcb, PcbTyped
<1>6. ~First(queue, "CLEAR") /\ ~First(queue, "CONNECTED")
  BY <1>2 DEF Single, ClearFirst, ConnectedFirst
<1>7. FrontOnly(queue) /\ NothingAfterEnd(queue)
  BY DEF Single, InOrder
<1>8. ~Has(queue, "CLEAR") /\ ~Has(queue, "CONNECTED")
  BY <1>1, <1>6, <1>7, EmptySeq, LenProperties DEF Has, First, FrontOnly
<1> QED
  BY <1>1, <1>3, <1>5, <1>7, <1>8, SingleCleared

LEMMA NextSingle ==
  ASSUME Typed, Single, [Next]_vars, overlapped' = FALSE
  PROVE  Single'
<1>1. CASE LoseWifi \/ GotIp \/ OnWifiLost \/ WifiTimerFires \/ SecondPasses \/ CheckWifi
           \/ StartMqttTimer \/ UNCHANGED vars
  BY <1>1, SingleSame
     DEF LoseWifi, GotIp, OnWifiLost, WifiTimerFires, SecondPasses, CheckWifi, StartMqttTimer,
         vars, pcbVars, clientVars
<1>2. CASE OnGotIp \/ MqttTimerFires
  BY <1>2, SingleConnect DEF OnGotIp, MqttTimerFires, clientVars
<1>3. ASSUME NEW p \in Pcbs, CloseByServer(p) \/ CloseIdle(p) \/ Reset(p) \/ GiveUp(p)
      PROVE  Single'
  BY <1>3, SingleEnd DEF CloseByServer, CloseIdle, Reset, GiveUp, Free
<1> QED
  BY <1>1, <1>2, <1>3, SingleSynAck, SingleOpen, SingleClear, SingleConnected, SingleTooLate,
     SingleConnAck, SingleFin, SingleError, SingleKeepAlive
     DEF Next, EventTask, Daemon, Async, Answers, Failures

\* Attempts that have overlapped have overlapped for ever.
LEMMA OverlappedForEver ==
  ASSUME Typed, [Next]_vars, overlapped = TRUE
  PROVE  overlapped' = TRUE
<1>1. CASE OnGotIp \/ MqttTimerFires
  BY <1>1 DEF OnGotIp, MqttTimerFires, Connect, pcbVars
<1>2. CASE LoseWifi \/ GotIp \/ OnWifiLost \/ WifiTimerFires \/ SecondPasses
           \/ Async \/ KeepAliveCloses \/ UNCHANGED vars
  BY <1>2 DEF LoseWifi, GotIp, OnWifiLost, WifiTimerFires, SecondPasses, Async, HandleClear,
     HandleConnected, HandleConnectedTooLate, HandleConnAck, HandleFin, HandleError, CheckWifi,
     StartMqttTimer, KeepAliveCloses, vars, pcbVars
<1>3. ASSUME NEW p \in Pcbs, Answers(p) \/ Failures(p) PROVE overlapped' = TRUE
  BY <1>3 DEF Answers, Failures, SynAck, TakeConnect, ConnAck, CloseIdle, GiveUp, CloseByServer,
     Reset, Vanish, Fin, Freed
<1> QED
  BY <1>1, <1>2, <1>3 DEF Next, EventTask, Daemon

LEMMA NextConnInv == ConnInv /\ [Next]_vars => ConnInv'
<1> SUFFICES ASSUME ConnInv, [Next]_vars PROVE ConnInv'
  OBVIOUS
<1>1. Typed /\ Typed' /\ overlapped \in BOOLEAN
  BY NextTyped, TypedParts DEF ConnInv, Scalars
<1>2. overlapped' = FALSE => overlapped = FALSE
  BY <1>1, OverlappedForEver
<1>3. overlapped' = FALSE => Single'
  BY <1>1, <1>2, NextSingle DEF ConnInv
<1> QED
  BY <1>1, <1>3 DEF ConnInv

\* Every variable of the connection's life cycle has its type in every reachable
\* state, whatever the number of pcbs, losses and failures.
THEOREM ReconnectTypeCorrect == Spec => []TypeOK
<1>1. Init => Typed
  BY InitConnInv DEF ConnInv
<1>2. Typed => TypeOK
  BY DEF Typed
<1> QED
  BY <1>1, <1>2, NextTyped, PTL DEF Spec

\* AsyncTCP.cpp:598-688 and AsyncMqttClient.cpp:154-170: while no attempts to
\* connect have overlapped, _connected is never true without a pcb that reports
\* to the client or an event that will correct it.
THEOREM ConnectedTruly == Spec => []ConnectedAlone
<1>1. ConnInv => ConnectedAlone
  <2> SUFFICES ASSUME ConnInv, connected, ~overlapped
               PROVE  \/ _pcb # NoPcb /\ pcbs[_pcb].wired /\ pcbs[_pcb].st = "open"
                      \/ \E e \in Range(queue) : e.event \in {"FIN", "ERROR"}
    BY DEF ConnectedAlone
  <2>1. Scalars
    BY TypedParts DEF ConnInv
  <2>2. Single /\ connected = TRUE
    BY <2>1 DEF ConnInv, Scalars
  <2>3. CASE Held
    BY <2>3 DEF Held, Wired, State
  <2>4. CASE Ending(queue)
    BY <2>4 DEF Ending, Has, Range
  <2> QED
    BY <2>2, <2>3, <2>4 DEF Single, ConnectedTrue
<1> QED
  BY <1>1, InitConnInv, NextConnInv, PTL DEF Spec

-----------------------------------------------------------------------------
(* Nobody forgets to connect again.                                         *)

InUse == \E p \in Pcbs : Wired(p)
EndComes == Ending(queue) /\ ~First(queue, "CLEAR")

\* While the network is there, a connection exists or something leads to one.
OnItsWay ==
  wifi = "up" =>
    evPc = "got" \/ asyncPc # "idle" \/ mqttTimer # "off" \/ EndComes \/ InUse

\* The event task has the status of the event that it handles.
StatusOfEvent == (evPc = "lost" => wifi = "down") /\ (evPc = "got" => wifi = "up")

WayInv == ConnInv /\ StatusOfEvent /\ (overlapped = FALSE => OnItsWay)

\* connect() returns without a word only when there is a pcb or an end is queued.
LEMMA RefusedForGood ==
  ASSUME Typed, Single, Refused
  PROVE  EndComes \/ InUse
<1>1. Scalars /\ PcbTyped
  BY TypedParts
<1>2. Held \/ Ending(queue)
  BY <1>1 DEF Refused, Scalars, PcbTyped, Single, ConnectedTrue, HeldOrLost
<1>3. Held => InUse
  BY DEF Held, InUse
<1>4. ~First(queue, "CLEAR")
  BY <1>1 DEF Refused, Scalars, Single, ClearFirst
<1> QED
  BY <1>2, <1>3, <1>4 DEF EndComes

\* connectToMqtt leaves something that leads to a connection.
LEMMA ConnectOnItsWay ==
  ASSUME Typed, Single, Connect, wifi = "up", queue' = queue
  PROVE  EndComes' \/ InUse'
<1>1. CASE Refused
  <2>1. EndComes \/ InUse
    BY <1>1, RefusedForGood
  <2>2. pcbs' = pcbs
    BY <1>1 DEF Connect, pcbVars
  <2> QED
    BY <2>1, <2>2 DEF EndComes, InUse, Wired
<1>2. CASE ~Refused
  <2>1. PICK p \in Pcbs : pcbs' = [pcbs EXCEPT ![p] = Syn]
    BY <1>2 DEF Connect
  <2>2. pcbs'[p] = Syn /\ Syn.wired = TRUE
    BY <2>1, TypedParts DEF PcbTyped, Syn, Free
  <2> QED
    BY <2>2 DEF InUse, Wired
<1> QED
  BY <1>1, <1>2

\* An end that is queued is an end to come.
LEMMA EndOnItsWay ==
  ASSUME Typed, Single, NEW p \in Pcbs, Fin(p) \/ (pcbs[p] # Free /\ Freed(p))
  PROVE  EndComes'
<1>1. Wired(p) /\ queue \in Seq(Events) /\ ~First(queue, "CLEAR")
  BY TypedParts DEF Fin, Reaches, Single, OnePcb, ClearFirst, Free
<1>2. PICK e \in Events : queue' = Append(queue, e) /\ e.event \in {"FIN", "ERROR"}
  <2>1. /\ Event("FIN", p) \in Events /\ Event("FIN", p).event = "FIN"
        /\ Event("ERROR", p) \in Events /\ Event("ERROR", p).event = "ERROR"
    BY <1>1, QueueTypes DEF Names, Event
  <2>2. queue' = Append(queue, Event("FIN", p)) \/ queue' = Append(queue, Event("ERROR", p))
    BY <1>1 DEF Fin, Freed, Wired
  <2> QED
    BY <2>1, <2>2
<1>3. /\ \A n : Has(queue', n) <=> Has(queue, n) \/ e.event = n
      /\ \A n : First(queue', n) <=> First(queue, n) \/ (queue = <<>> /\ e.event = n)
  BY <1>1, <1>2, Appended
<1> QED
  BY <1>1, <1>2, <1>3 DEF EndComes, Ending

LEMMA NextOnItsWay ==
  ASSUME Typed, Single, Single', StatusOfEvent, OnItsWay, [Next]_vars, overlapped' = FALSE
  PROVE  OnItsWay'
<1> SUFFICES ASSUME wifi' = "up"
             PROVE  evPc' = "got" \/ asyncPc' # "idle" \/ mqttTimer' # "off" \/ EndComes' \/ InUse'
  BY DEF OnItsWay
<1>1. PcbTyped /\ queue \in Seq(Events)
  BY TypedParts
<1>2. CASE LoseWifi \/ GotIp \/ OnWifiLost
  BY <1>2 DEF LoseWifi, GotIp, OnWifiLost, StatusOfEvent
<1>3. CASE WifiTimerFires \/ SecondPasses \/ CheckWifi \/ StartMqttTimer \/ UNCHANGED vars
  <2>1. pcbs' = pcbs /\ queue' = queue
    BY <1>3 DEF WifiTimerFires, SecondPasses, CheckWifi, StartMqttTimer, vars, pcbVars, clientVars
  <2>2. (EndComes => EndComes') /\ (InUse => InUse')
    BY <2>1 DEF EndComes, InUse, Wired
  <2>3. wifi = "up" /\ (evPc = "got" => evPc' = "got")
    BY <1>3 DEF WifiTimerFires, SecondPasses, CheckWifi, StartMqttTimer, vars, wifiVars
  <2>4. asyncPc # "idle" \/ mqttTimer # "off" => asyncPc' # "idle" \/ mqttTimer' # "off"
    BY <1>3, <2>3 DEF WifiTimerFires, SecondPasses, CheckWifi, Wanted, StartMqttTimer, vars, wifiVars,
       clientVars
  <2> QED
    BY <2>2, <2>3, <2>4 DEF OnItsWay
<1>4. CASE OnGotIp \/ MqttTimerFires
  BY <1>4, ConnectOnItsWay DEF OnGotIp, MqttTimerFires, wifiVars, clientVars
<1>5. ASSUME NEW p \in Pcbs, SynAck(p) \/ TakeConnect(p) \/ ConnAck(p) \/ Vanish(p) PROVE InUse'
  <2>1. pcbs'[p].st = "open"
    BY <1>1, <1>5 DEF SynAck, TakeConnect, ConnAck, Vanish, Reaches, PcbTyped, PcbStates
  <2> QED
    BY <2>1 DEF Single, OnePcb, InUse, State, Free
<1>6. ASSUME NEW p \in Pcbs, CloseByServer(p) \/ CloseIdle(p) \/ Reset(p) \/ GiveUp(p)
      PROVE  EndComes'
  BY <1>6, EndOnItsWay DEF CloseByServer, CloseIdle, Reset, GiveUp, Free
<1>7. CASE HandleClear
  <2>1. ~EndComes
    BY <1>7, Handled DEF HandleClear, EndComes, Names
  <2>2. UNCHANGED <<wifi, evPc, mqttTimer, pcbs, asyncPc>>
    BY <1>7 DEF HandleClear, wifiVars, pcbVars
  <2> QED
    BY <2>1, <2>2 DEF OnItsWay, InUse, Wired
<1>8. CASE HandleConnected
  <2>1. PICK p \in Pcbs : State(p) = "open" /\ pcbs' = [pcbs EXCEPT ![p].mqtt = IF @ = "none" THEN "sent" ELSE @]
    BY <1>8, <1>1, QueueTypes DEF HandleConnected, Handling, State
  <2>2. pcbs'[p].st = "open"
    BY <2>1, <1>1 DEF PcbTyped, PcbStates, State
  <2> QED
    BY <2>2 DEF Single, OnePcb, InUse, State, Free
<1>9. CASE HandleConnAck
  <2>1. /\ ~First(Tail(queue), "CLEAR")
        /\ \A n : Has(queue, n) => Has(Tail(queue), n) \/ n = "RECV"
    BY <1>9, Handled DEF HandleConnAck, Names
  <2>2. queue' = Tail(queue) /\ UNCHANGED <<wifi, evPc, mqttTimer, pcbs, asyncPc>>
    BY <1>9 DEF HandleConnAck, wifiVars, pcbVars
  <2>3. EndComes => EndComes'
    BY <2>1, <2>2 DEF EndComes, Ending
  <2> QED
    BY <2>2, <2>3 DEF OnItsWay, InUse, Wired
<1>10. CASE HandleConnectedTooLate \/ HandleFin \/ HandleError \/ KeepAliveCloses
  BY <1>10 DEF HandleConnectedTooLate, HandleFin, HandleError, KeepAliveCloses, Close, OnDisconnect
<1> QED
  BY <1>2, <1>3, <1>4, <1>5, <1>6, <1>7, <1>8, <1>9, <1>10
     DEF Next, EventTask, Daemon, Async, Answers, Failures

LEMMA NextStatusOfEvent ==
  ASSUME StatusOfEvent, [Next]_vars
  PROVE  StatusOfEvent'
<1>1. CASE LoseWifi \/ GotIp \/ OnWifiLost \/ OnGotIp
  BY <1>1 DEF LoseWifi, GotIp, OnWifiLost, OnGotIp, StatusOfEvent
<1>2. CASE WifiTimerFires
  BY <1>2 DEF WifiTimerFires, StatusOfEvent
<1>3. CASE SecondPasses \/ MqttTimerFires \/ Async \/ KeepAliveCloses \/ UNCHANGED vars
  BY <1>3 DEF SecondPasses, MqttTimerFires, Async, HandleClear, HandleConnected,
     HandleConnectedTooLate, HandleConnAck, HandleFin, HandleError, CheckWifi, StartMqttTimer,
     KeepAliveCloses, vars, wifiVars, StatusOfEvent
<1>4. ASSUME NEW p \in Pcbs, Answers(p) \/ Failures(p) PROVE StatusOfEvent'
  BY <1>4 DEF Answers, Failures, SynAck, TakeConnect, ConnAck, CloseIdle, GiveUp, CloseByServer,
     Reset, Vanish, Fin, Freed, wifiVars, StatusOfEvent
<1> QED
  BY <1>1, <1>2, <1>3, <1>4 DEF Next, EventTask, Daemon

LEMMA NextWayInv == WayInv /\ [Next]_vars => WayInv'
<1> SUFFICES ASSUME WayInv, [Next]_vars PROVE WayInv'
  OBVIOUS
<1>1. ConnInv /\ ConnInv' /\ Typed /\ overlapped \in BOOLEAN
  BY NextConnInv, TypedParts DEF WayInv, ConnInv, Scalars
<1>2. overlapped' = FALSE => overlapped = FALSE
  BY <1>1, OverlappedForEver
<1>3. overlapped' = FALSE => OnItsWay'
  BY <1>1, <1>2, NextOnItsWay DEF WayInv, ConnInv
<1> QED
  BY <1>1, <1>3, NextStatusOfEvent DEF WayInv

\* main.cpp:37-75: however the steps of the event task, the timer daemon and the
\* async task fall, the firmware is not left without a connection and without
\* anything that makes one, but by a server that vanished or attempts that
\* overlapped.
THEOREM ReconnectsAgain == Spec => []NoLostReconnect
<1>1. Init => WayInv
  <2> SUFFICES ASSUME Init PROVE WayInv
    OBVIOUS
  <2>1. StatusOfEvent /\ OnItsWay
    BY DEF Init, StatusOfEvent, OnItsWay
  <2> QED
    BY <2>1, InitConnInv DEF WayInv
<1>2. WayInv => NoLostReconnect
  <2> SUFFICES ASSUME WayInv, Stranded, ~overlapped
               PROVE  \E p \in Pcbs : pcbs[p].gone /\ pcbs[p].wired
    BY DEF NoLostReconnect
  <2>1. Typed /\ Single /\ OnItsWay /\ PcbTyped
    BY TypedParts DEF WayInv, ConnInv, Scalars
  <2>2. queue = <<>> /\ ~EndComes /\ \A n : ~First(queue, n)
    BY EmptyQueue DEF Stranded, Quiet, EndComes
  <2>3. PICK p \in Pcbs : Wired(p)
    BY <2>1, <2>2 DEF Stranded, Quiet, OnItsWay, InUse
  <2>4. State(p) \in {"syn", "open", "half"}
    BY <2>1, <2>3 DEF Single, OnePcb, PcbTyped, PcbStates, State, Wired, Free
  <2>5. State(p) # "half"
    BY <2>1, <2>2 DEF Single, HalfKnown
  <2>6. ~Hopeful(p)
    BY DEF Stranded
  <2>7. pcbs[p].gone /\ pcbs[p].wired
    BY <2>3, <2>4, <2>5, <2>6 DEF Hopeful, Wired, State
  <2> QED
    BY <2>7
<1> QED
  BY <1>1, <1>2, NextWayInv, PTL DEF Spec
=============================================================================
