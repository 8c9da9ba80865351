--------------------------- MODULE AsyncTcpProofs ---------------------------
(***************************************************************************)
(* Proofs about AsyncTcp.                                                   *)
(*                                                                         *)
(* When lwIP's thread has closed a pcb, at most the one call that the async *)
(* task had begun is made on it.  CallInv says where a pcb may be called    *)
(* from: a handler begins a call only when _pcb is set, _close removes the  *)
(* callbacks first, so that the FIN that comes afterwards does not set _pcb *)
(* to NULL, and the CONNECTED event, which sets it, comes once and before   *)
(* any of that.                                                            *)
(*                                                                         *)
(* No event reaches a client that was deleted, and one whose user was told  *)
(* of its end has no pcb.  LineInv says in which order the events are, also *)
(* in the middle of a removal, where the queue is turned round: the first   *)
(* part of it is still to be looked at, and what was returned comes before. *)
(*                                                                         *)
(* The data reaches its handler whole and is acknowledged once.  DataInv    *)
(* says it of each client, as long as no event was put while others were    *)
(* removed: what was handed over is 1..k and k+1..sent waits, a removal of  *)
(* the client's events finds no data unless the callbacks are gone, and     *)
(* lwIP's window lacks what was not handed over and what is counted.        *)
(*                                                                         *)
(* AllBounded holds also when an event was put during a removal: what is   *)
(* owed to a client's peer, the data that waits, is counted or is being    *)
(* acknowledged, is never more than was sent, nor, while lwIP has the pcb  *)
(* and close() has not begun, than the window lacks.                       *)
(***************************************************************************)
EXTENDS AsyncTcp, SequenceTheorems, FiniteSetTheorems, FunctionTheorems, TLAPS

USE QueueAssumption, OutgoingAssumption, AsyncBoundAssumption

-----------------------------------------------------------------------------
(* What the variables hold.                                                 *)

ConnStates == {"none", "resolving", "resolved", "opening", "open", "half", "finished", "reset",
               "closed"}
ClientRecords == [exists : BOOLEAN, pcb : BOOLEAN, attached : BOOLEAN, known : BOOLEAN,
                  told : BOOLEAN, later : Int]
ConnRecords == [is : ConnStates, sent : Nat, window : Int]
Events == {e \in [type : EventTypes, client : Clients, n : Nat] :
             e.type \notin {"RECV", "POLL"} => e.n = 0}

\* What is left of a handler.
Closing2(c) == <<Step("close", c, 0), Step("discard", c, 0)>>
Closing3(c) == <<Step("clear", c, 0), Step("close", c, 0), Step("discard", c, 0)>>
Ending(c) == <<Step("clear", c, 0), Step("discard", c, 0)>>
Polled(c, n) == <<Step("recved", c, n)>> \o CloseSteps(c)

Shape(s) ==
  \/ s = <<>>
  \/ \E c \in Clients :
       \/ \E n \in Int : s \in {<<Step("recved", c, n)>>, <<Step("ack", c, n)>>, Polled(c, n)}
       \/ s \in {CloseSteps(c), Closing3(c), Closing2(c), Ending(c), <<Step("discard", c, 0)>>}
       \/ \E f \in Events \cup {Idle} : s = <<Removal("remove", c, Idle, f)>>
       \/ \E e, f \in Events : s = <<Removal("return", c, e, f)>>
Shaped == Shape(steps)

Typed ==
  /\ queue \in Seq(Events) /\ lwip \in Events \cup {Idle}
  /\ client \in [Clients -> ClientRecords] /\ conn \in [Clients -> ConnRecords]
  /\ stale \in [Clients -> Nat] /\ polls \in Nat

\* The rest of a handler.
LEMMA Rests ==
  ASSUME NEW c, NEW n
  PROVE  /\ Tail(<<Step("recved", c, n)>>) = <<>> /\ Tail(<<Step("ack", c, n)>>) = <<>>
         /\ Polled(c, n) # <<>> /\ Head(Polled(c, n)) = Step("recved", c, n)
         /\ Tail(Polled(c, n)) = CloseSteps(c)
         /\ Head(CloseSteps(c)) = Step("detach", c, 0) /\ Tail(CloseSteps(c)) = Closing3(c)
         /\ Head(Closing3(c)) = Step("clear", c, 0) /\ Tail(Closing3(c)) = Closing2(c)
         /\ Head(Closing2(c)) = Step("close", c, 0) /\ Tail(Closing2(c)) = <<Step("discard", c, 0)>>
         /\ Head(Ending(c)) = Step("clear", c, 0) /\ Tail(Ending(c)) = <<Step("discard", c, 0)>>
<1>1. Tail(<<Step("recved", c, n)>>) = <<>> /\ Tail(<<Step("ack", c, n)>>) = <<>>
  OBVIOUS
<1>2. ASSUME NEW v, NEW w, NEW x, NEW y, NEW z
      PROVE  <<v>> \o <<w, x, y, z>> = <<v, w, x, y, z>>
  <2> DEFINE S == {v, w, x, y, z}
             s == <<v>>
             t == <<w, x, y, z>>
             r == s \o t
             u == <<v, w, x, y, z>>
  <2>1. /\ s \in Seq(S) /\ Len(s) = 1 /\ s[1] = v
        /\ t \in Seq(S) /\ Len(t) = 4 /\ t[1] = w /\ t[2] = x /\ t[3] = y /\ t[4] = z
        /\ u \in Seq(S) /\ Len(u) = 5
        /\ u[1] = v /\ u[2] = w /\ u[3] = x /\ u[4] = y /\ u[5] = z
    OBVIOUS
  <2> HIDE DEF S, s, t, u
  <2>2. /\ r \in Seq(S) /\ Len(r) = Len(s) + Len(t)
        /\ \A j \in 1..(Len(s) + Len(t)) : r[j] = IF j <= Len(s) THEN s[j] ELSE t[j - Len(s)]
    BY <2>1, ConcatProperties
  <2> HIDE DEF r
  <2>3. Len(r) = Len(u) /\ \A j \in 1..Len(r) : r[j] = u[j]
    BY <2>1, <2>2
  <2>4. r = u
    BY <2>1, <2>2, <2>3, SeqEqual
  <2> QED
    BY <2>4 DEF r, s, t, u
<1>3. /\ Polled(c, n) # <<>> /\ Head(Polled(c, n)) = Step("recved", c, n)
      /\ Tail(Polled(c, n)) = CloseSteps(c)
  <2>1. Polled(c, n) = <<Step("recved", c, n), Step("detach", c, 0), Step("clear", c, 0),
                         Step("close", c, 0), Step("discard", c, 0)>>
    BY <1>2 DEF Polled, CloseSteps
  <2> QED
    BY <2>1 DEF CloseSteps
<1>4. Head(CloseSteps(c)) = Step("detach", c, 0) /\ Tail(CloseSteps(c)) = Closing3(c)
  BY DEF CloseSteps, Closing3
<1>5. Head(Closing3(c)) = Step("clear", c, 0) /\ Tail(Closing3(c)) = Closing2(c)
  BY DEF Closing2, Closing3
<1>6. Head(Closing2(c)) = Step("close", c, 0) /\ Tail(Closing2(c)) = <<Step("discard", c, 0)>>
  BY DEF Closing2
<1>7. Head(Ending(c)) = Step("clear", c, 0) /\ Tail(Ending(c)) = <<Step("discard", c, 0)>>
  BY DEF Ending
<1> QED
  BY <1>1, <1>3, <1>4, <1>5, <1>6, <1>7

\* The next step of a handler, and what is left after it.
LEMMA NextSteps ==
  ASSUME Shaped, steps # <<>>
  PROVE  LET c == Head(steps).client  do == Head(steps).do IN
         /\ c \in Clients
         /\ do \in {"recved", "ack"} => Head(steps).n \in Int /\ Tail(steps) \in {<<>>, CloseSteps(c)}
         /\ do = "detach" => Tail(steps) = Closing3(c)
         /\ do = "clear" => \/ steps = Closing3(c) /\ Tail(steps) = Closing2(c)
                            \/ steps = Ending(c) /\ Tail(steps) = <<Step("discard", c, 0)>>
         /\ do = "close" => steps = Closing2(c) /\ Tail(steps) = <<Step("discard", c, 0)>>
         /\ do = "discard" => steps = <<Step("discard", c, 0)>> /\ Tail(steps) = <<>>
         /\ do = "remove" => Head(steps).first \in Events \cup {Idle}
         /\ do = "return" => Head(steps).packet \in Events /\ Head(steps).first \in Events
<1>1. PICK c \in Clients :
        \/ \E n \in Int : steps \in {<<Step("recved", c, n)>>, <<Step("ack", c, n)>>, Polled(c, n)}
        \/ steps \in {CloseSteps(c), Closing3(c), Closing2(c), Ending(c), <<Step("discard", c, 0)>>}
        \/ \E f \in Events \cup {Idle} : steps = <<Removal("remove", c, Idle, f)>>
        \/ \E e, f \in Events : steps = <<Removal("return", c, e, f)>>
  BY DEF Shaped, Shape
<1>2. ASSUME NEW n \in Int, steps \in {<<Step("recved", c, n)>>, <<Step("ack", c, n)>>, Polled(c, n)}
      PROVE  /\ Head(steps).client = c /\ Head(steps).do \in {"recved", "ack"} /\ Head(steps).n \in Int
             /\ Tail(steps) \in {<<>>, CloseSteps(c)}
  <2>1. CASE steps = <<Step("recved", c, n)>>
    BY <2>1, Rests DEF Step
  <2>2. CASE steps = <<Step("ack", c, n)>>
    BY <2>2, Rests DEF Step
  <2>3. CASE steps = Polled(c, n)
    <3>1. Head(steps) = Step("recved", c, n) /\ Tail(steps) = CloseSteps(c)
      BY <2>3, Rests
    <3> QED
      BY <3>1 DEF Step
  <2> QED
    BY <1>2, <2>1, <2>2, <2>3
<1>3. ASSUME steps = CloseSteps(c)
      PROVE  Head(steps).client = c /\ Head(steps).do = "detach" /\ Tail(steps) = Closing3(c)
  <2>1. Head(steps) = Step("detach", c, 0) /\ Tail(steps) = Closing3(c)
    BY <1>3, Rests
  <2> QED
    BY <2>1 DEF Step
<1>4. ASSUME steps = Closing3(c)
      PROVE  Head(steps).client = c /\ Head(steps).do = "clear" /\ Tail(steps) = Closing2(c)
  <2>1. Head(steps) = Step("clear", c, 0) /\ Tail(steps) = Closing2(c)
    BY <1>4, Rests
  <2> QED
    BY <2>1 DEF Step
<1>5. ASSUME steps = Closing2(c)
      PROVE  Head(steps).client = c /\ Head(steps).do = "close"
             /\ Tail(steps) = <<Step("discard", c, 0)>>
  <2>1. Head(steps) = Step("close", c, 0) /\ Tail(steps) = <<Step("discard", c, 0)>>
    BY <1>5, Rests
  <2> QED
    BY <2>1 DEF Step
<1>6. ASSUME steps = Ending(c)
      PROVE  Head(steps).client = c /\ Head(steps).do = "clear"
             /\ Tail(steps) = <<Step("discard", c, 0)>>
  <2>1. Head(steps) = Step("clear", c, 0) /\ Tail(steps) = <<Step("discard", c, 0)>>
    BY <1>6, Rests
  <2> QED
    BY <2>1 DEF Step
<1>7. ASSUME steps = <<Step("discard", c, 0)>>
      PROVE  Head(steps).client = c /\ Head(steps).do = "discard" /\ Tail(steps) = <<>>
  BY <1>7 DEF Step
<1>8. ASSUME NEW f \in Events \cup {Idle}, steps = <<Removal("remove", c, Idle, f)>>
      PROVE  Head(steps).client = c /\ Head(steps).do = "remove" /\ Head(steps).first = f
  BY <1>8 DEF Removal
<1>9. ASSUME NEW e \in Events, NEW f \in Events, steps = <<Removal("return", c, e, f)>>
      PROVE  Head(steps).client = c /\ Head(steps).do = "return" /\ Head(steps).packet = e
             /\ Head(steps).first = f
  BY <1>9 DEF Removal
<1>10. CASE \E n \in Int :
              steps \in {<<Step("recved", c, n)>>, <<Step("ack", c, n)>>, Polled(c, n)}
  BY <1>2, <1>10
<1>11. CASE steps \in {CloseSteps(c), Closing3(c), Closing2(c), Ending(c), <<Step("discard", c, 0)>>}
  <2>1. CASE steps = CloseSteps(c)
    BY <1>3, <2>1
  <2>2. CASE steps = Closing3(c)
    BY <1>4, <2>2
  <2>3. CASE steps = Closing2(c)
    BY <1>5, <2>3
  <2>4. CASE steps = Ending(c)
    BY <1>6, <2>4
  <2>5. CASE steps = <<Step("discard", c, 0)>>
    BY <1>7, <2>5
  <2> QED
    BY <1>11, <2>1, <2>2, <2>3, <2>4, <2>5
<1>12. CASE \E f \in Events \cup {Idle} : steps = <<Removal("remove", c, Idle, f)>>
  BY <1>8, <1>12
<1>13. CASE \E e, f \in Events : steps = <<Removal("return", c, e, f)>>
  BY <1>9, <1>13
<1> QED
  BY <1>1, <1>10, <1>11, <1>12, <1>13

\* The event that sets _pcb of a client that connects.
Connected(c) == Event("CONNECTED", c, 0)

-----------------------------------------------------------------------------
(* What the steps do to a client and its pcb.                               *)

LEMMA EventTyped ==
  ASSUME NEW t \in EventTypes, NEW c \in Clients, NEW n \in Nat, n = 0 \/ t \in {"RECV", "POLL"}
  PROVE  Event(t, c, n) \in Events /\ Event(t, c, n) # Idle
<1>1. Event(t, c, n) \in Events
  BY DEF Event, Events
<1>2. Event(t, c, n).type # "idle" /\ Idle.type = "idle"
  BY DEF Event, EventTypes, Idle
<1> QED
  BY <1>1, <1>2

\* The records of a client and of a pcb with new values in some fields.
LEMMA ClientTyped ==
  /\ \A r \in ClientRecords, a, b \in BOOLEAN :
       /\ [r EXCEPT !.pcb = a, !.attached = b] \in ClientRecords
       /\ [r EXCEPT !.attached = b, !.pcb = a] \in ClientRecords
       /\ [r EXCEPT !.told = a, !.exists = b] \in ClientRecords
  /\ \A r \in ClientRecords, a \in BOOLEAN :
       /\ [r EXCEPT !.pcb = a] \in ClientRecords
       /\ [r EXCEPT !.attached = a] \in ClientRecords
       /\ [r EXCEPT !.known = a] \in ClientRecords
  /\ \A r \in ClientRecords, n \in Int : [r EXCEPT !.later = n] \in ClientRecords
BY DEF ClientRecords

LEMMA NewClient ==
  /\ NoClient \in ClientRecords
  /\ \A r \in ClientRecords :
       /\ [r EXCEPT !.exists = TRUE, !.attached = TRUE, !.known = TRUE] \in ClientRecords
       /\ [r EXCEPT !.exists = TRUE, !.known = TRUE] \in ClientRecords
       /\ [r EXCEPT !.exists = TRUE, !.pcb = TRUE, !.attached = TRUE] \in ClientRecords
<1>1. NoClient \in ClientRecords
  BY DEF NoClient, ClientRecords
<1> QED
  BY <1>1 DEF ClientRecords

LEMMA ConnTyped ==
  /\ \A r \in ConnRecords, v \in ConnStates :
       [r EXCEPT !.is = v] \in ConnRecords /\ [r EXCEPT !.is = v].is = v
  /\ \A r \in ConnRecords, n \in Int :
       [r EXCEPT !.window = n] \in ConnRecords /\ [r EXCEPT !.window = n].is = r.is
  /\ \A r \in ConnRecords, k \in Nat, n \in Int :
       /\ [r EXCEPT !.sent = k, !.window = n] \in ConnRecords
       /\ [r EXCEPT !.sent = k, !.window = n].is = r.is
BY DEF ConnRecords

LEMMA ConnGoesOn ==
  ASSUME Typed, NEW c \in Clients, NEW v \in ConnStates, conn' = [conn EXCEPT ![c].is = v]
  PROVE  /\ conn' \in [Clients -> ConnRecords] /\ conn'[c].is = v
         /\ \A d \in Clients : d # c => conn'[d].is = conn[d].is
<1>1. conn \in [Clients -> ConnRecords] /\ conn[c] \in ConnRecords
  BY DEF Typed
<1>2. conn' = [conn EXCEPT ![c] = [conn[c] EXCEPT !.is = v]]
  OBVIOUS
<1>3. [conn[c] EXCEPT !.is = v] \in ConnRecords /\ [conn[c] EXCEPT !.is = v].is = v
  BY <1>1, ConnTyped
<1> QED
  BY <1>1, <1>2, <1>3

\* The pcb of c is in state s, _pcb and the callbacks are set as told, and the
\* other clients are as before.
Moved(c, pcb, attached, s) ==
  /\ client'[c].pcb = pcb /\ client'[c].attached = attached /\ conn'[c].is = s
  /\ \A d \in Clients : d # c => /\ client'[d].pcb = client[d].pcb
                                 /\ client'[d].attached = client[d].attached
                                 /\ conn'[d].is = conn[d].is
Kept == \A d \in Clients : /\ client'[d].pcb = client[d].pcb
                           /\ client'[d].attached = client[d].attached
                           /\ conn'[d].is = conn[d].is

LEMMA ConnectMoves ==
  ASSUME Typed, NEW c \in Clients, Connect(c)
  PROVE  /\ Typed' /\ lwip' = Idle /\ conn[c].is = "none"
         /\ Moved(c, FALSE, TRUE, "opening")
<1> DEFINE r == [NoClient EXCEPT !.exists = TRUE, !.attached = TRUE, !.known = TRUE]
<1>1. /\ lwip' = Idle /\ conn[c].is = "none" /\ UNCHANGED <<queue, stale, polls>>
      /\ client' = [client EXCEPT ![c] = r] /\ conn' = [conn EXCEPT ![c].is = "opening"]
  BY DEF Connect, Callback
<1>2. r \in ClientRecords
  BY NewClient
<1>3. r.pcb = FALSE /\ r.attached = TRUE
  BY DEF NoClient
<1> HIDE DEF r
<1>4. client' \in [Clients -> ClientRecords]
  BY <1>1, <1>2 DEF Typed
<1>5. "opening" \in ConnStates
  BY DEF ConnStates
<1>6. Moved(c, FALSE, TRUE, "opening") /\ conn' \in [Clients -> ConnRecords]
  BY <1>1, <1>3, <1>5, ConnGoesOn DEF Typed, Moved
<1> QED
  BY <1>1, <1>4, <1>6 DEF Typed

LEMMA LookupMoves ==
  ASSUME Typed, NEW c \in Clients, Lookup(c)
  PROVE  /\ Typed' /\ lwip' = Idle /\ conn[c].is = "none"
         /\ Moved(c, FALSE, FALSE, "resolving")
<1> DEFINE r == [NoClient EXCEPT !.exists = TRUE, !.known = TRUE]
<1>1. /\ lwip' = Idle /\ conn[c].is = "none" /\ UNCHANGED <<queue, stale, polls>>
      /\ client' = [client EXCEPT ![c] = r] /\ conn' = [conn EXCEPT ![c].is = "resolving"]
  BY DEF Lookup, Callback
<1>2. r \in ClientRecords
  BY NewClient
<1>3. r.pcb = FALSE /\ r.attached = FALSE
  BY DEF NoClient
<1> HIDE DEF r
<1>4. client' \in [Clients -> ClientRecords]
  BY <1>1, <1>2 DEF Typed
<1>5. "resolving" \in ConnStates
  BY DEF ConnStates
<1>6. Moved(c, FALSE, FALSE, "resolving") /\ conn' \in [Clients -> ConnRecords]
  BY <1>1, <1>3, <1>5, ConnGoesOn DEF Typed, Moved
<1> QED
  BY <1>1, <1>4, <1>6 DEF Typed

LEMMA PutTyped ==
  ASSUME NEW c \in Clients, NEW t \in EventTypes, NEW n \in Nat, n = 0 \/ t \in {"RECV", "POLL"},
         Put(c, t, n)
  PROVE  lwip' \in {Event(t, c, n), Idle} /\ lwip' \in Events \cup {Idle}
BY EventTyped DEF Put

LEMMA DnsMoves ==
  ASSUME Typed, NEW c \in Clients, DnsFound(c)
  PROVE  /\ Typed' /\ lwip' = Event("DNS", c, 0) /\ conn[c].is = "resolving"
         /\ Moved(c, client[c].pcb, client[c].attached, "resolved")
<1>1. /\ lwip' = Event("DNS", c, 0) /\ UNCHANGED <<queue, client, stale, polls>>
      /\ conn[c].is = "resolving" /\ conn' = [conn EXCEPT ![c].is = "resolved"]
  BY DEF DnsFound, Callback
<1>2. "resolved" \in ConnStates /\ "DNS" \in EventTypes
  BY DEF ConnStates, EventTypes
<1>3. Moved(c, client[c].pcb, client[c].attached, "resolved") /\ conn' \in [Clients -> ConnRecords]
  BY <1>1, <1>2, ConnGoesOn DEF Typed, Moved
<1>4. lwip' \in Events \cup {Idle}
  BY <1>1, <1>2, EventTyped
<1> QED
  BY <1>1, <1>3, <1>4 DEF Typed

LEMMA AcceptMoves ==
  ASSUME Typed, NEW c \in Clients, Accept(c)
  PROVE  /\ Typed' /\ lwip' = Event("ACCEPT", c, 0) /\ conn[c].is = "none"
         /\ Moved(c, TRUE, TRUE, "open")
<1> DEFINE r == [NoClient EXCEPT !.exists = TRUE, !.pcb = TRUE, !.attached = TRUE]
<1>1. /\ lwip' = Event("ACCEPT", c, 0) /\ conn[c].is = "none" /\ UNCHANGED <<queue, stale, polls>>
      /\ client' = [client EXCEPT ![c] = r] /\ conn' = [conn EXCEPT ![c].is = "open"]
  BY DEF Accept, Callback
<1>2. r \in ClientRecords
  BY NewClient
<1>3. r.pcb = TRUE /\ r.attached = TRUE
  BY DEF NoClient
<1> HIDE DEF r
<1>4. client' \in [Clients -> ClientRecords]
  BY <1>1, <1>2 DEF Typed
<1>5. "open" \in ConnStates /\ "ACCEPT" \in EventTypes
  BY DEF ConnStates, EventTypes
<1>6. Moved(c, TRUE, TRUE, "open") /\ conn' \in [Clients -> ConnRecords]
  BY <1>1, <1>3, <1>5, ConnGoesOn DEF Typed, Moved
<1>7. lwip' \in Events \cup {Idle}
  BY <1>1, <1>5, EventTyped
<1> QED
  BY <1>1, <1>4, <1>6, <1>7 DEF Typed

LEMMA EstablishedMoves ==
  ASSUME Typed, NEW c \in Clients, Established(c)
  PROVE  /\ Typed' /\ lwip' \in {Connected(c), Idle} /\ conn[c].is = "opening"
         /\ Moved(c, client[c].pcb, client[c].attached, "open")
<1>1. /\ Put(c, "CONNECTED", 0) /\ UNCHANGED <<queue, client, stale, polls>>
      /\ conn[c].is = "opening" /\ conn' = [conn EXCEPT ![c].is = "open"]
  BY DEF Established, Callback
<1>2. "open" \in ConnStates /\ "CONNECTED" \in EventTypes
  BY DEF ConnStates, EventTypes
<1>3. Moved(c, client[c].pcb, client[c].attached, "open") /\ conn' \in [Clients -> ConnRecords]
  BY <1>1, <1>2, ConnGoesOn DEF Typed, Moved
<1>4. lwip' \in {Connected(c), Idle} /\ lwip' \in Events \cup {Idle}
  BY <1>1, <1>2, PutTyped DEF Connected
<1> QED
  BY <1>1, <1>3, <1>4 DEF Typed

LEMMA DataMoves ==
  ASSUME Typed, NEW c \in Clients, Data(c)
  PROVE  Typed' /\ (\E n \in Nat : lwip' \in {Event("RECV", c, n), Idle}) /\ Kept
<1>1. /\ Put(c, "RECV", conn[c].sent + 1) /\ UNCHANGED <<queue, client, stale, polls>>
      /\ conn' = [conn EXCEPT ![c].sent = @ + 1, ![c].window = @ + 1]
  BY DEF Data, Callback
<1>2. conn \in [Clients -> ConnRecords] /\ conn[c] \in ConnRecords
  BY DEF Typed
<1>3. conn[c].sent + 1 \in Nat /\ conn[c].window + 1 \in Int
  BY <1>2 DEF ConnRecords
<1>4. conn' = [conn EXCEPT ![c] = [conn[c] EXCEPT !.sent = conn[c].sent + 1, !.window = conn[c].window + 1]]
  BY <1>1, <1>2
<1> DEFINE r == [conn[c] EXCEPT !.sent = conn[c].sent + 1, !.window = conn[c].window + 1]
<1>5. r \in ConnRecords /\ r.is = conn[c].is
  <2>1. PICK k \in Nat, n \in Int : k = conn[c].sent + 1 /\ n = conn[c].window + 1
    BY <1>3
  <2>2. r = [conn[c] EXCEPT !.sent = k, !.window = n]
    BY <2>1
  <2>3. /\ [conn[c] EXCEPT !.sent = k, !.window = n] \in ConnRecords
        /\ [conn[c] EXCEPT !.sent = k, !.window = n].is = conn[c].is
    BY <1>2, ConnTyped
  <2> HIDE DEF r
  <2> QED
    BY <2>2, <2>3
<1> HIDE DEF r
<1>6. conn' \in [Clients -> ConnRecords] /\ Kept
  BY <1>1, <1>2, <1>4, <1>5 DEF r, Kept
<1>7. "RECV" \in EventTypes
  BY DEF EventTypes
<1>8. lwip' \in {Event("RECV", c, conn[c].sent + 1), Idle} /\ lwip' \in Events \cup {Idle}
  BY <1>1, <1>3, <1>7, PutTyped
<1> QED
  BY <1>1, <1>3, <1>6, <1>8 DEF Typed

LEMMA PollMoves ==
  ASSUME Typed, NEW c \in Clients, PollTimer(c)
  PROVE  Typed' /\ (\E n \in Nat : lwip' \in {Event("POLL", c, n), Idle}) /\ Kept
<1>1. /\ Put(c, "POLL", polls) /\ UNCHANGED <<queue, client, conn, stale>>
      /\ polls' = polls + 1 /\ polls \in Nat
  BY DEF PollTimer, Callback, Typed
<1>2. "POLL" \in EventTypes
  BY DEF EventTypes
<1>3. lwip' \in {Event("POLL", c, polls), Idle} /\ lwip' \in Events \cup {Idle}
  BY <1>1, <1>2, PutTyped
<1>4. polls' \in Nat
  BY <1>1
<1> QED
  BY <1>1, <1>3, <1>4 DEF Typed, Kept

LEMMA FinMoves ==
  ASSUME Typed, NEW c \in Clients, Fin(c)
  PROVE  /\ Typed' /\ lwip' \in {Event("FIN", c, 0), Idle} /\ conn[c].is = "open"
         /\ \/ client[c].pcb /\ client[c].attached /\ Moved(c, FALSE, FALSE, "finished")
            \/ ~client[c].attached /\ Moved(c, client[c].pcb, client[c].attached, "finished")
            \/ /\ ~client[c].pcb /\ client[c].attached
               /\ Moved(c, client[c].pcb, client[c].attached, "half")
<1>1. /\ Put(c, "FIN", 0) /\ UNCHANGED <<queue, stale, polls>> /\ conn[c].is = "open"
      /\ conn' = [conn EXCEPT ![c].is = IF client[c].pcb \/ ~client[c].attached
                                        THEN "finished" ELSE "half"]
      /\ client' = IF client[c].pcb /\ client[c].attached
                   THEN [client EXCEPT ![c] = Finished(c)] ELSE client
  BY DEF Fin, Callback
<1>2. "finished" \in ConnStates /\ "half" \in ConnStates /\ "FIN" \in EventTypes
  BY DEF ConnStates, EventTypes
<1>3. client \in [Clients -> ClientRecords] /\ client[c] \in ClientRecords
  BY DEF Typed
<1>4. Finished(c) \in ClientRecords /\ Finished(c).pcb = FALSE /\ Finished(c).attached = FALSE
  <2>1. Finished(c) \in ClientRecords
    BY <1>3, ClientTyped DEF Finished
  <2>2. Finished(c).pcb = FALSE /\ Finished(c).attached = FALSE
    BY <1>3 DEF Finished, ClientRecords
  <2> QED
    BY <2>1, <2>2
<1>5. lwip' \in {Event("FIN", c, 0), Idle} /\ lwip' \in Events \cup {Idle}
  BY <1>1, <1>2, PutTyped
<1>6. CASE client[c].pcb /\ client[c].attached
  <2>1. client' = [client EXCEPT ![c] = Finished(c)] /\ conn' = [conn EXCEPT ![c].is = "finished"]
    BY <1>1, <1>6
  <2>2. client' \in [Clients -> ClientRecords]
    BY <1>3, <1>4, <2>1
  <2>3. Moved(c, FALSE, FALSE, "finished") /\ conn' \in [Clients -> ConnRecords]
    BY <1>2, <1>3, <1>4, <2>1, ConnGoesOn DEF Moved
  <2> QED
    BY <1>1, <1>5, <1>6, <2>2, <2>3 DEF Typed
<1>7. CASE ~client[c].attached
  <2>1. client' = client /\ conn' = [conn EXCEPT ![c].is = "finished"]
    BY <1>1, <1>7
  <2>2. /\ Moved(c, client[c].pcb, client[c].attached, "finished")
        /\ conn' \in [Clients -> ConnRecords]
    BY <1>2, <2>1, ConnGoesOn DEF Moved
  <2> QED
    BY <1>1, <1>5, <1>7, <2>1, <2>2 DEF Typed
<1>8. CASE ~client[c].pcb /\ client[c].attached
  <2>1. client' = client /\ conn' = [conn EXCEPT ![c].is = "half"]
    BY <1>1, <1>8
  <2>2. /\ Moved(c, client[c].pcb, client[c].attached, "half")
        /\ conn' \in [Clients -> ConnRecords]
    BY <1>2, <2>1, ConnGoesOn DEF Moved
  <2> QED
    BY <1>1, <1>5, <1>8, <2>1, <2>2 DEF Typed
<1> QED
  BY <1>6, <1>7, <1>8

LEMMA ResetMoves ==
  ASSUME Typed, NEW c \in Clients, Reset(c)
  PROVE  /\ Typed' /\ lwip' \in {Event("ERROR", c, 0), Idle}
         /\ conn[c].is \in {"opening", "open", "half"}
         /\ Moved(c, client[c].pcb, client[c].attached, "reset")
<1>1. /\ Put(c, "ERROR", 0) /\ UNCHANGED <<queue, client, stale, polls>>
      /\ conn[c].is \in {"opening", "open", "half"} /\ conn' = [conn EXCEPT ![c].is = "reset"]
  BY DEF Reset, Callback
<1>2. "reset" \in ConnStates /\ "ERROR" \in EventTypes
  BY DEF ConnStates, EventTypes
<1>3. Moved(c, client[c].pcb, client[c].attached, "reset") /\ conn' \in [Clients -> ConnRecords]
  BY <1>1, <1>2, ConnGoesOn DEF Typed, Moved
<1>4. lwip' \in {Event("ERROR", c, 0), Idle} /\ lwip' \in Events \cup {Idle}
  BY <1>1, <1>2, PutTyped
<1> QED
  BY <1>1, <1>3, <1>4 DEF Typed

-----------------------------------------------------------------------------
(* What is left of a handler, and the queue.                                *)

\* The handler is about to call lwIP for c; it closes c and has removed its
\* callbacks.
Calls(s, c) == s # <<>> /\ Head(s).do \in {"recved", "ack"} /\ Head(s).client = c
Closes(s, c) == s \in {Closing3(c), Closing2(c)}

\* A handler that neither calls lwIP nor closes nor holds anything.
Quiet(s) == Holds(s) = {} /\ \A d : ~Calls(s, d) /\ ~Closes(s, d)

LEMMA ShapesOf ==
  ASSUME NEW c \in Clients
  PROVE  /\ \A n \in Int : /\ Shape(<<Step("recved", c, n)>>) /\ Shape(<<Step("ack", c, n)>>)
                           /\ Shape(Polled(c, n))
         /\ Shape(<<>>) /\ Shape(CloseSteps(c)) /\ Shape(Closing3(c)) /\ Shape(Closing2(c))
         /\ Shape(Ending(c)) /\ Shape(<<Step("discard", c, 0)>>)
         /\ \A f \in Events \cup {Idle} : Shape(<<Removal("remove", c, Idle, f)>>)
         /\ \A e, f \in Events : Shape(<<Removal("return", c, e, f)>>)
BY DEF Shape

\* Closing handlers differ from all others and from each other.
LEMMA ClosingApart ==
  /\ \A c, d : Closes(Closing3(c), d) <=> d = c
  /\ \A c, d : Closes(Closing2(c), d) <=> d = c
  /\ \A c, d : ~Closes(Ending(c), d)
  /\ \A s : s # <<>> /\ Head(s).do \notin {"clear", "close"} => \A d : ~Closes(s, d)
  /\ \A d : ~Closes(<<>>, d)
<1>1. \A c : /\ Closing3(c) # <<>> /\ Len(Closing3(c)) = 3 /\ Closing3(c)[1] = Step("clear", c, 0)
             /\ Closing2(c) # <<>> /\ Len(Closing2(c)) = 2 /\ Closing2(c)[1] = Step("close", c, 0)
             /\ Ending(c) # <<>> /\ Len(Ending(c)) = 2 /\ Ending(c)[1] = Step("clear", c, 0)
             /\ Head(Closing3(c)) = Step("clear", c, 0) /\ Head(Closing2(c)) = Step("close", c, 0)
  BY DEF Closing3, Closing2, Ending
<1>2. \A c, d : /\ Step("clear", c, 0) # Step("close", d, 0)
                /\ Step("clear", c, 0) = Step("clear", d, 0) => c = d
                /\ Step("close", c, 0) = Step("close", d, 0) => c = d
                /\ Step("clear", c, 0).do = "clear" /\ Step("close", c, 0).do = "close"
  BY DEF Step
<1>3. ASSUME NEW c, NEW d PROVE Closes(Closing3(c), d) <=> d = c
  BY <1>1, <1>2 DEF Closes
<1>4. ASSUME NEW c, NEW d PROVE Closes(Closing2(c), d) <=> d = c
  BY <1>1, <1>2 DEF Closes
<1>5. ASSUME NEW c, NEW d PROVE ~Closes(Ending(c), d)
  <2>1. Ending(c) # Closing3(d)
    BY <1>1
  <2>2. Ending(c) # Closing2(d)
    <3>1. Ending(c)[1] # Closing2(d)[1]
      BY <1>1, <1>2
    <3> QED
      BY <3>1
  <2> QED
    BY <2>1, <2>2 DEF Closes
<1>6. ASSUME NEW s, s # <<>>, Head(s).do \notin {"clear", "close"}, NEW d PROVE ~Closes(s, d)
  <2>1. s # Closing3(d) /\ s # Closing2(d)
    BY <1>1, <1>2, <1>6
  <2> QED
    BY <2>1 DEF Closes
<1>7. ASSUME NEW d PROVE ~Closes(<<>>, d)
  BY <1>1 DEF Closes
<1> QED
  BY <1>3, <1>4, <1>5, <1>6, <1>7

LEMMA LooksCalling ==
  ASSUME NEW c, NEW n,
         NEW s \in {<<Step("recved", c, n)>>, <<Step("ack", c, n)>>, Polled(c, n)}
  PROVE  Holds(s) = {} /\ \A d : (Calls(s, d) => d = c) /\ ~Closes(s, d)
<1>1. s # <<>> /\ Head(s).do \in {"recved", "ack"} /\ Head(s).client = c
  <2>1. CASE s = <<Step("recved", c, n)>> \/ s = <<Step("ack", c, n)>>
    BY <2>1 DEF Step
  <2>2. CASE s = Polled(c, n)
    <3>1. s # <<>> /\ Head(s) = Step("recved", c, n)
      BY <2>2, Rests
    <3> QED
      BY <3>1 DEF Step
  <2> QED
    BY <2>1, <2>2
<1> QED
  BY <1>1, ClosingApart DEF Holds, Calls

LEMMA Looks ==
  ASSUME NEW c
  PROVE  /\ Quiet(<<>>) /\ Quiet(CloseSteps(c)) /\ Quiet(Ending(c))
         /\ Quiet(<<Step("discard", c, 0)>>)
         /\ \A s \in {Closing3(c), Closing2(c)} :
              Holds(s) = {} /\ \A d : ~Calls(s, d) /\ (Closes(s, d) <=> d = c)
         /\ \A f : Quiet(<<Removal("remove", c, Idle, f)>>)
         /\ \A e, f : LET s == <<Removal("return", c, e, f)>> IN
              Holds(s) = {e} /\ \A d : ~Calls(s, d) /\ ~Closes(s, d)
<1>1. Quiet(<<>>)
  BY ClosingApart DEF Quiet, Holds, Calls
<1>2. Quiet(CloseSteps(c))
  <2>1. CloseSteps(c) # <<>> /\ Head(CloseSteps(c)).do = "detach"
    BY DEF CloseSteps, Step
  <2> QED
    BY <2>1, ClosingApart DEF Quiet, Holds, Calls
<1>3. Quiet(Ending(c))
  <2>1. Ending(c) # <<>> /\ Head(Ending(c)).do = "clear"
    BY DEF Ending, Step
  <2> QED
    BY <2>1, ClosingApart DEF Quiet, Holds, Calls
<1>4. Quiet(<<Step("discard", c, 0)>>)
  <2> DEFINE s == <<Step("discard", c, 0)>>
  <2>1. s # <<>> /\ Head(s).do = "discard"
    BY DEF Step
  <2> HIDE DEF s
  <2>2. Quiet(s)
    BY <2>1, ClosingApart DEF Quiet, Holds, Calls
  <2> QED
    BY <2>2 DEF s
<1>5. ASSUME NEW s \in {Closing3(c), Closing2(c)}
      PROVE  Holds(s) = {} /\ \A d : ~Calls(s, d) /\ (Closes(s, d) <=> d = c)
  <2>1. s # <<>> /\ Head(s).do \in {"clear", "close"}
    BY <1>5 DEF Closing3, Closing2, Step
  <2> QED
    BY <1>5, <2>1, ClosingApart DEF Holds, Calls
<1>6. ASSUME NEW f PROVE Quiet(<<Removal("remove", c, Idle, f)>>)
  <2> DEFINE s == <<Removal("remove", c, Idle, f)>>
  <2>1. s # <<>> /\ Head(s).do = "remove"
    BY DEF Removal
  <2> HIDE DEF s
  <2>2. Quiet(s)
    BY <2>1, ClosingApart DEF Quiet, Holds, Calls
  <2> QED
    BY <2>2 DEF s
<1>7. ASSUME NEW e, NEW f
      PROVE  LET s == <<Removal("return", c, e, f)>> IN
             Holds(s) = {e} /\ \A d : ~Calls(s, d) /\ ~Closes(s, d)
  <2> DEFINE s == <<Removal("return", c, e, f)>>
  <2>1. s # <<>> /\ Head(s).do = "return" /\ Head(s).packet = e
    BY DEF Removal
  <2> HIDE DEF s
  <2>2. Holds(s) = {e} /\ \A d : ~Calls(s, d) /\ ~Closes(s, d)
    BY <2>1, ClosingApart DEF Holds, Calls
  <2> QED
    BY <2>2 DEF s
<1> QED
  BY <1>1, <1>2, <1>3, <1>4, <1>5, <1>6, <1>7

\* x is in the queue once at most.
Unique(q, x) == \A i, j \in 1..Len(q) : q[i] = x /\ q[j] = x => i = j

LEMMA InQueue ==
  ASSUME NEW q \in Seq(Events)
  PROVE  /\ Len(q) \in Nat /\ DOMAIN q = 1..Len(q)
         /\ \A x : x \in Range(q) <=> \E i \in 1..Len(q) : q[i] = x
BY LenProperties DEF Range

LEMMA PutBehind ==
  ASSUME NEW q \in Seq(Events), NEW e \in Events
  PROVE  /\ Append(q, e) \in Seq(Events)
         /\ \A x : x \in Range(Append(q, e)) <=> x \in Range(q) \/ x = e
         /\ \A x : Unique(q, x) /\ (e = x => x \notin Range(q)) => Unique(Append(q, e), x)
<1> DEFINE r == Append(q, e)
<1>1. /\ r \in Seq(Events) /\ Len(r) = Len(q) + 1
      /\ \A i \in 1..Len(q) : r[i] = q[i]
      /\ r[Len(q) + 1] = e
  BY AppendProperties
<1> HIDE DEF r
<1>2. /\ Len(q) \in Nat /\ 1..Len(r) = 1..(Len(q) + 1)
      /\ \A x : x \in Range(q) <=> \E i \in 1..Len(q) : q[i] = x
      /\ \A x : x \in Range(r) <=> \E i \in 1..Len(r) : r[i] = x
  BY <1>1, InQueue
<1>3. \A i \in 1..Len(r) : i \in 1..Len(q) \/ i = Len(q) + 1
  BY <1>2
<1>4. \A i \in 1..Len(q) : i \in 1..Len(r)
  BY <1>2
<1>5. Len(q) + 1 \in 1..Len(r)
  BY <1>2
<1>6. ASSUME NEW x PROVE x \in Range(r) <=> x \in Range(q) \/ x = e
  BY <1>1, <1>2, <1>3, <1>4, <1>5
<1>7. ASSUME NEW x, Unique(q, x), e = x => x \notin Range(q) PROVE Unique(r, x)
  <2> SUFFICES ASSUME NEW i \in 1..Len(r), NEW j \in 1..Len(r), r[i] = x, r[j] = x PROVE i = j
    BY DEF Unique
  <2>1. CASE e = x
    BY <1>1, <1>2, <1>3, <1>7, <2>1
  <2>2. CASE e # x
    BY <1>1, <1>3, <1>7, <2>2 DEF Unique
  <2> QED
    BY <2>1, <2>2
<1> QED
  BY <1>1, <1>6, <1>7 DEF r

LEMMA PutInFront ==
  ASSUME NEW q \in Seq(Events), NEW e \in Events
  PROVE  /\ <<e>> \o q \in Seq(Events)
         /\ \A x : x \in Range(<<e>> \o q) <=> x \in Range(q) \/ x = e
         /\ \A x : Unique(q, x) /\ (e = x => x \notin Range(q)) => Unique(<<e>> \o q, x)
<1> DEFINE s == <<e>>
           r == s \o q
<1>1. s \in Seq(Events) /\ Len(s) = 1 /\ s[1] = e
  OBVIOUS
<1>2. Len(q) \in Nat
  BY LenProperties
<1> HIDE DEF s
<1>3. /\ r \in Seq(Events) /\ Len(r) = Len(s) + Len(q)
      /\ \A i \in 1..(Len(s) + Len(q)) : r[i] = IF i <= Len(s) THEN s[i] ELSE q[i - Len(s)]
  BY <1>1, ConcatProperties
<1> HIDE DEF r
<1>4. /\ Len(r) = Len(q) + 1 /\ 1..Len(r) = 1..(Len(q) + 1)
      /\ \A i \in 1..(Len(q) + 1) : r[i] = IF i <= 1 THEN e ELSE q[i - 1]
  <2>1. Len(s) + Len(q) = Len(q) + 1
    BY <1>1, <1>2
  <2>2. ASSUME NEW i \in 1..(Len(q) + 1) PROVE r[i] = IF i <= 1 THEN e ELSE q[i - 1]
    <3>1. r[i] = IF i <= 1 THEN s[i] ELSE q[i - 1]
      BY <1>1, <1>3, <2>1
    <3>2. i <= 1 => i = 1
      BY <1>2
    <3> QED
      BY <1>1, <3>1, <3>2
  <2> QED
    BY <1>3, <2>1, <2>2
<1>5. /\ \A x : x \in Range(q) <=> \E i \in 1..Len(q) : q[i] = x
      /\ \A x : x \in Range(r) <=> \E i \in 1..Len(r) : r[i] = x
  BY <1>3, InQueue
<1>6. \A i \in 1..Len(r) : (i = 1 /\ r[i] = e) \/ (i - 1 \in 1..Len(q) /\ r[i] = q[i - 1])
  BY <1>2, <1>4
<1>7. \A i \in 1..Len(q) : i + 1 \in 1..Len(r) /\ r[i + 1] = q[i]
  <2> TAKE i \in 1..Len(q)
  <2>1. i + 1 \in 1..(Len(q) + 1) /\ ~(i + 1 <= 1) /\ (i + 1) - 1 = i
    BY <1>2
  <2> QED
    BY <1>4, <2>1
<1>8. 1 \in 1..Len(r) /\ r[1] = e
  BY <1>2, <1>4
<1>9. ASSUME NEW x PROVE x \in Range(r) <=> x \in Range(q) \/ x = e
  BY <1>5, <1>6, <1>7, <1>8
<1>10. ASSUME NEW x, Unique(q, x), e = x => x \notin Range(q) PROVE Unique(r, x)
  <2> SUFFICES ASSUME NEW i \in 1..Len(r), NEW j \in 1..Len(r), r[i] = x, r[j] = x PROVE i = j
    BY DEF Unique
  <2>1. CASE e = x
    <3>1. ~(i - 1 \in 1..Len(q) /\ r[i] = q[i - 1]) /\ ~(j - 1 \in 1..Len(q) /\ r[j] = q[j - 1])
      BY <1>5, <1>10, <2>1
    <3> QED
      BY <1>6, <3>1
  <2>2. CASE e # x
    <3>1. /\ i - 1 \in 1..Len(q) /\ q[i - 1] = x
          /\ j - 1 \in 1..Len(q) /\ q[j - 1] = x
      BY <1>6, <2>2
    <3>2. i - 1 = j - 1
      BY <1>10, <3>1 DEF Unique
    <3> QED
      BY <1>2, <1>4, <3>2
  <2> QED
    BY <2>1, <2>2
<1> QED
  BY <1>3, <1>9, <1>10 DEF r, s

LEMMA TakeAway ==
  ASSUME NEW q \in Seq(Events), q # <<>>
  PROVE  /\ Head(q) \in Events /\ Tail(q) \in Seq(Events)
         /\ \A x : x \in Range(q) <=> x \in Range(Tail(q)) \/ x = Head(q)
         /\ \A x : Unique(q, x) =>
              Unique(Tail(q), x) /\ (Head(q) = x => x \notin Range(Tail(q)))
<1> DEFINE r == Tail(q)
           e == Head(q)
<1>1. /\ e \in Events /\ r \in Seq(Events) /\ Len(r) = Len(q) - 1
      /\ \A i \in 1..Len(r) : r[i] = q[i + 1]
  BY HeadTailProperties
<1>2. /\ Len(q) \in Nat /\ Len(q) # 0 /\ e = q[1]
      /\ \A x : x \in Range(q) <=> \E i \in 1..Len(q) : q[i] = x
  BY InQueue, EmptySeq
<1> HIDE DEF r, e
<1>3. \A x : x \in Range(r) <=> \E i \in 1..Len(r) : r[i] = x
  BY <1>1, InQueue
<1>4. \A i \in 1..Len(q) : (i = 1 /\ q[i] = e) \/ (i - 1 \in 1..Len(r) /\ r[i - 1] = q[i])
  <2> TAKE i \in 1..Len(q)
  <2>1. i = 1 \/ (i - 1 \in 1..Len(r) /\ (i - 1) + 1 = i)
    BY <1>1, <1>2
  <2> QED
    BY <1>1, <1>2, <2>1
<1>5. \A i \in 1..Len(r) : i + 1 \in 1..Len(q) /\ i + 1 # 1 /\ q[i + 1] = r[i]
  BY <1>1, <1>2
<1>6. 1 \in 1..Len(q) /\ q[1] = e
  BY <1>2
<1>7. ASSUME NEW x PROVE x \in Range(q) <=> x \in Range(r) \/ x = e
  BY <1>2, <1>3, <1>4, <1>5, <1>6
<1>8. ASSUME NEW x, Unique(q, x) PROVE Unique(r, x) /\ (e = x => x \notin Range(r))
  <2>1. ASSUME NEW i \in 1..Len(r), NEW j \in 1..Len(r), r[i] = x, r[j] = x PROVE i = j
    <3>1. i + 1 = j + 1
      BY <1>5, <1>8, <2>1 DEF Unique
    <3> QED
      BY <1>1, <1>2, <3>1
  <2>2. ASSUME e = x, NEW i \in 1..Len(r), r[i] = x PROVE FALSE
    BY <1>5, <1>6, <1>8, <2>2 DEF Unique
  <2> QED
    BY <1>3, <2>1, <2>2 DEF Unique
<1> QED
  BY <1>1, <1>7, <1>8 DEF r, e

-----------------------------------------------------------------------------
(* The invariant.                                                           *)

Error(c) == Event("ERROR", c, 0)

Calling(c) == Calls(steps, c)
Closing(c) == Closes(steps, c)

\* An event waits in one place.
OnceOf(x) ==
  /\ Unique(queue, x)
  /\ lwip = x \/ x \in Holds(steps) => x \notin Range(queue)
  /\ ~(lwip = x /\ x \in Holds(steps))

\* CONNECTED, which sets _pcb, comes before anything has been done with the pcb.
Fresh(c) ==
  Connected(c) \in Waiting =>
    /\ ~client[c].pcb /\ conn[c].is \in {"open", "half", "reset"}
    /\ conn[c].is # "reset" => client[c].attached

\* ERROR comes of a pcb that lwIP has freed.
Errors(c) == Error(c) \in Waiting => conn[c].is = "reset"

Opening(c) == conn[c].is = "opening" => client[c].attached /\ ~client[c].pcb

\* While lwIP has the pcb, its callbacks are removed only by the handler that
\* closes it, which has found _pcb set.
Detached(c) ==
  /\ conn[c].is \in {"open", "half"} /\ ~client[c].attached => Closing(c)
  /\ Closing(c) => client[c].pcb /\ ~client[c].attached

\* What calls lwIP or may call it has a pcb that is, or was, connected.
Late(c) ==
  client[c].pcb \/ Calling(c) => conn[c].is \in {"open", "half", "finished", "reset", "closed"}

NoneStale(c) == conn[c].is \notin {"finished", "reset", "closed"} => stale[c] = 0

\* After a FIN has closed the pcb, one call at most is made or to be made.
LastCall(c) ==
  conn[c].is = "finished" =>
    /\ stale[c] <= 1
    /\ client[c].pcb => Closing(c) /\ stale[c] = 0
    /\ Calling(c) => stale[c] = 0

Fine(c) ==
  /\ Fresh(c) /\ Errors(c) /\ Opening(c) /\ Detached(c) /\ Late(c) /\ NoneStale(c) /\ LastCall(c)

CallInv == Typed /\ Shaped /\ \A c \in Clients : OnceOf(Connected(c)) /\ Fine(c)

-----------------------------------------------------------------------------
(* What is left as it is.                                                   *)

\* No CONNECTED or ERROR of c is put.
Carried(c) ==
  /\ OnceOf(Connected(c)) => OnceOf(Connected(c))'
  /\ Connected(c) \in Waiting' => Connected(c) \in Waiting
  /\ Error(c) \in Waiting' => Error(c) \in Waiting

\* The step does nothing with c.
Same(c) ==
  /\ client'[c].pcb = client[c].pcb /\ client'[c].attached = client[c].attached
  /\ conn'[c].is = conn[c].is /\ stale'[c] = stale[c]
  /\ Calling(c)' => Calling(c)
  /\ Closing(c)' <=> Closing(c)
  /\ Carried(c)

LEMMA SameFine ==
  ASSUME NEW c \in Clients, OnceOf(Connected(c)), Fine(c), Same(c)
  PROVE  OnceOf(Connected(c))' /\ Fine(c)'
<1>1. OnceOf(Connected(c))'
  BY DEF Same, Carried
<1>2. Fresh(c)' /\ Errors(c)'
  BY DEF Same, Carried, Fine, Fresh, Errors
<1>3. Opening(c)' /\ Detached(c)'
  BY DEF Same, Fine, Opening, Detached
<1>4. Late(c)' /\ NoneStale(c)' /\ LastCall(c)'
  BY DEF Same, Fine, Late, NoneStale, LastCall
<1> QED
  BY <1>1, <1>2, <1>3, <1>4 DEF Fine

LEMMA OneMoves ==
  ASSUME CallInv, Typed', Shaped', NEW c \in Clients, OnceOf(Connected(c))', Fine(c)',
         \A d \in Clients : d # c => Same(d)
  PROVE  CallInv'
<1>1. ASSUME NEW d \in Clients PROVE OnceOf(Connected(d))' /\ Fine(d)'
  <2>1. CASE d = c
    BY <2>1
  <2>2. CASE d # c
    BY <2>2, SameFine DEF CallInv
  <2> QED
    BY <2>1, <2>2
<1> QED
  BY <1>1 DEF CallInv

LEMMA NoneMoves ==
  ASSUME CallInv, Typed', Shaped', \A d \in Clients : Same(d)
  PROVE  CallInv'
<1>1. ASSUME NEW d \in Clients PROVE OnceOf(Connected(d))' /\ Fine(d)'
  BY SameFine DEF CallInv
<1> QED
  BY <1>1 DEF CallInv

\* The events of a client, and those of others, are different.
LEMMA EventsApart ==
  /\ \A c, d : Connected(c) # Error(d) /\ Connected(c) # Idle /\ Error(c) # Idle
  /\ \A c, d : (Connected(c) = Connected(d) => c = d) /\ (Error(c) = Error(d) => c = d)
  /\ \A t, c, n, d : /\ t # "CONNECTED" => Event(t, c, n) # Connected(d)
                     /\ t # "ERROR" => Event(t, c, n) # Error(d)
<1>1. /\ \A t, c, n : /\ Event(t, c, n).type = t /\ Event(t, c, n).client = c
                      /\ Event(t, c, n).n = n
      /\ Idle.type = "idle"
  BY DEF Event, Idle
<1> QED
  BY <1>1 DEF Connected, Error

\* lwIP's thread has an event to put, of client c.
LEMMA PutsOne ==
  ASSUME lwip = Idle, UNCHANGED <<queue, steps>>, NEW c \in Clients, NEW t, NEW n,
         lwip' \in {Event(t, c, n), Idle}
  PROVE  /\ \A d \in Clients : d # c => Carried(d)
         /\ t # "CONNECTED" /\ OnceOf(Connected(c)) => OnceOf(Connected(c))'
         /\ t = "CONNECTED" /\ n = 0 /\ OnceOf(Connected(c)) /\ Connected(c) \notin Waiting
              => OnceOf(Connected(c))'
         /\ t # "CONNECTED" /\ Connected(c) \in Waiting' => Connected(c) \in Waiting
         /\ t # "ERROR" /\ Error(c) \in Waiting' => Error(c) \in Waiting
<1>1. /\ \A x : x \in Waiting' => x \in Waiting \/ x = lwip'
      /\ \A x : x # lwip' /\ OnceOf(x) => OnceOf(x)'
      /\ \A x : x \notin Waiting /\ OnceOf(x) => OnceOf(x)'
  BY DEF Waiting, OnceOf
<1>2. ASSUME NEW d \in Clients, d # c
      PROVE  lwip' # Connected(d) /\ lwip' # Error(d)
  <2>1. CASE t = "CONNECTED"
    <3>1. Event(t, c, n).client # Connected(d).client /\ Event(t, c, n).client # Error(d).client
      BY <1>2 DEF Connected, Error, Event
    <3> QED
      BY <3>1, EventsApart
  <2>2. CASE t # "CONNECTED"
    <3>1. Event(t, c, n).client # Error(d).client
      BY <1>2 DEF Error, Event
    <3> QED
      BY <2>2, <3>1, EventsApart
  <2> QED
    BY <2>1, <2>2
<1>3. (t # "CONNECTED" => lwip' # Connected(c)) /\ (t # "ERROR" => lwip' # Error(c))
  BY EventsApart
<1> QED
  BY <1>1, <1>2, <1>3 DEF Carried

\* Steps of lwIP's thread leave the other clients alone.
LEMMA OthersKept ==
  ASSUME lwip = Idle, UNCHANGED <<queue, steps, stale>>, NEW c \in Clients, NEW t, NEW n,
         lwip' \in {Event(t, c, n), Idle}, NEW p, NEW a, NEW s, Moved(c, p, a, s)
  PROVE  \A d \in Clients : d # c => Same(d)
<1>1. \A d : Calling(d)' = Calling(d) /\ Closing(d)' = Closing(d)
  BY DEF Calling, Closing
<1>2. \A d \in Clients : d # c => Carried(d)
  BY PutsOne
<1> QED
  BY <1>1, <1>2 DEF Same, Moved

-----------------------------------------------------------------------------
(* The steps of lwIP's thread.                                              *)

LEMMA ConnectKeeps ==
  ASSUME CallInv, NEW c \in Clients, Connect(c)
  PROVE  CallInv'
<1>1. lwip = Idle /\ UNCHANGED <<queue, steps, stale>>
  BY DEF Connect, Callback
<1>2. Typed' /\ lwip' = Idle /\ conn[c].is = "none" /\ Moved(c, FALSE, TRUE, "opening")
  BY ConnectMoves DEF CallInv
<1>3. Shaped' /\ Calling(c)' = Calling(c) /\ Closing(c)' = Closing(c)
  BY <1>1 DEF CallInv, Shaped, Calling, Closing
<1>4. lwip' \in {Event("DNS", c, 0), Idle}
  BY <1>2
<1>5. \A d \in Clients : d # c => Same(d)
  BY <1>1, <1>2, <1>4, OthersKept
<1>6. /\ OnceOf(Connected(c))' /\ (Connected(c) \in Waiting' => Connected(c) \in Waiting)
      /\ Error(c) \in Waiting' => Error(c) \in Waiting
  BY <1>1, <1>4, PutsOne DEF CallInv
<1>7. Fine(c)'
  BY <1>1, <1>2, <1>3, <1>6
  DEF CallInv, Moved, Fine, Fresh, Errors, Opening, Detached, Late, NoneStale, LastCall
<1> QED
  BY <1>2, <1>3, <1>5, <1>6, <1>7, OneMoves

LEMMA LookupKeeps ==
  ASSUME CallInv, NEW c \in Clients, Lookup(c)
  PROVE  CallInv'
<1>1. lwip = Idle /\ UNCHANGED <<queue, steps, stale>>
  BY DEF Lookup, Callback
<1>2. Typed' /\ lwip' = Idle /\ conn[c].is = "none" /\ Moved(c, FALSE, FALSE, "resolving")
  BY LookupMoves DEF CallInv
<1>3. Shaped' /\ Calling(c)' = Calling(c) /\ Closing(c)' = Closing(c)
  BY <1>1 DEF CallInv, Shaped, Calling, Closing
<1>4. lwip' \in {Event("DNS", c, 0), Idle}
  BY <1>2
<1>5. \A d \in Clients : d # c => Same(d)
  BY <1>1, <1>2, <1>4, OthersKept
<1>6. /\ OnceOf(Connected(c))' /\ (Connected(c) \in Waiting' => Connected(c) \in Waiting)
      /\ Error(c) \in Waiting' => Error(c) \in Waiting
  BY <1>1, <1>4, PutsOne DEF CallInv
<1>7. Fine(c)'
  BY <1>1, <1>2, <1>3, <1>6
  DEF CallInv, Moved, Fine, Fresh, Errors, Opening, Detached, Late, NoneStale, LastCall
<1> QED
  BY <1>2, <1>3, <1>5, <1>6, <1>7, OneMoves

LEMMA DnsKeeps ==
  ASSUME CallInv, NEW c \in Clients, DnsFound(c)
  PROVE  CallInv'
<1>1. lwip = Idle /\ UNCHANGED <<queue, steps, stale>>
  BY DEF DnsFound, Callback
<1>2. /\ Typed' /\ lwip' = Event("DNS", c, 0) /\ conn[c].is = "resolving"
      /\ Moved(c, client[c].pcb, client[c].attached, "resolved")
  BY DnsMoves DEF CallInv
<1>3. Shaped' /\ Calling(c)' = Calling(c) /\ Closing(c)' = Closing(c)
  BY <1>1 DEF CallInv, Shaped, Calling, Closing
<1>4. lwip' \in {Event("DNS", c, 0), Idle}
  BY <1>2
<1>5. \A d \in Clients : d # c => Same(d)
  BY <1>1, <1>2, <1>4, OthersKept
<1>6. /\ OnceOf(Connected(c))' /\ (Connected(c) \in Waiting' => Connected(c) \in Waiting)
      /\ Error(c) \in Waiting' => Error(c) \in Waiting
  BY <1>1, <1>4, PutsOne DEF CallInv
<1>7. Fine(c)'
  BY <1>1, <1>2, <1>3, <1>6
  DEF CallInv, Moved, Fine, Fresh, Errors, Opening, Detached, Late, NoneStale, LastCall
<1> QED
  BY <1>2, <1>3, <1>5, <1>6, <1>7, OneMoves

LEMMA AcceptKeeps ==
  ASSUME CallInv, NEW c \in Clients, Accept(c)
  PROVE  CallInv'
<1>1. lwip = Idle /\ UNCHANGED <<queue, steps, stale>>
  BY DEF Accept, Callback
<1>2. /\ Typed' /\ lwip' = Event("ACCEPT", c, 0) /\ conn[c].is = "none"
      /\ Moved(c, TRUE, TRUE, "open")
  BY AcceptMoves DEF CallInv
<1>3. Shaped' /\ Calling(c)' = Calling(c) /\ Closing(c)' = Closing(c)
  BY <1>1 DEF CallInv, Shaped, Calling, Closing
<1>4. lwip' \in {Event("ACCEPT", c, 0), Idle}
  BY <1>2
<1>5. \A d \in Clients : d # c => Same(d)
  <2>1. PICK p, a, s : Moved(c, p, a, s)
    BY <1>2
  <2> QED
    BY <1>1, <1>4, <2>1, OthersKept
<1>6. /\ OnceOf(Connected(c))' /\ (Connected(c) \in Waiting' => Connected(c) \in Waiting)
      /\ Error(c) \in Waiting' => Error(c) \in Waiting
  BY <1>1, <1>4, PutsOne DEF CallInv
<1>7. Fine(c)'
  BY <1>1, <1>2, <1>3, <1>6
  DEF CallInv, Moved, Fine, Fresh, Errors, Opening, Detached, Late, NoneStale, LastCall
<1> QED
  BY <1>2, <1>3, <1>5, <1>6, <1>7, OneMoves

LEMMA EstablishedKeeps ==
  ASSUME CallInv, NEW c \in Clients, Established(c)
  PROVE  CallInv'
<1>1. lwip = Idle /\ UNCHANGED <<queue, steps, stale>>
  BY DEF Established, Callback
<1>2. /\ Typed' /\ lwip' \in {Event("CONNECTED", c, 0), Idle} /\ conn[c].is = "opening"
      /\ Moved(c, client[c].pcb, client[c].attached, "open")
  BY EstablishedMoves DEF CallInv, Connected
<1>3. Shaped' /\ Calling(c)' = Calling(c) /\ Closing(c)' = Closing(c)
  BY <1>1 DEF CallInv, Shaped, Calling, Closing
<1>4. \A d \in Clients : d # c => Same(d)
  BY <1>1, <1>2, OthersKept
<1>5. Connected(c) \notin Waiting /\ OnceOf(Connected(c))
  BY <1>2 DEF CallInv, Fine, Fresh
<1>6. OnceOf(Connected(c))' /\ (Error(c) \in Waiting' => Error(c) \in Waiting)
  BY <1>1, <1>2, <1>5, PutsOne
<1>7. client[c].attached /\ ~client[c].pcb
  BY <1>2 DEF CallInv, Fine, Opening
<1>8. Fine(c)'
  BY <1>1, <1>2, <1>3, <1>6, <1>7
  DEF CallInv, Moved, Fine, Fresh, Errors, Opening, Detached, Late, NoneStale, LastCall
<1> QED
  BY <1>2, <1>3, <1>4, <1>6, <1>8, OneMoves

\* What puts data or a poll: nothing of the client changes that matters here.
LEMMA PutKeeps ==
  ASSUME CallInv, Typed', lwip = Idle, UNCHANGED <<queue, steps, stale>>, Kept, NEW c \in Clients,
         NEW t \in {"RECV", "POLL"}, NEW n, lwip' \in {Event(t, c, n), Idle}
  PROVE  CallInv'
<1>1. Shaped' /\ \A d : Calling(d)' = Calling(d) /\ Closing(d)' = Closing(d)
  BY DEF CallInv, Shaped, Calling, Closing
<1>2. Carried(c) /\ \A d \in Clients : d # c => Carried(d)
  <2>1. t # "CONNECTED" /\ t # "ERROR"
    OBVIOUS
  <2> QED
    BY <2>1, PutsOne DEF Carried
<1>3. \A d \in Clients : Same(d)
  BY <1>1, <1>2 DEF Same, Kept
<1> QED
  BY <1>1, <1>3, NoneMoves

LEMMA DataKeeps ==
  ASSUME CallInv, NEW c \in Clients, Data(c) \/ PollTimer(c)
  PROVE  CallInv'
<1>1. lwip = Idle /\ UNCHANGED <<queue, steps, stale>>
  BY DEF Data, PollTimer, Callback
<1>2. CASE Data(c)
  <2>1. Typed' /\ Kept /\ \E n \in Nat : lwip' \in {Event("RECV", c, n), Idle}
    BY <1>2, DataMoves DEF CallInv
  <2> QED
    BY <1>1, <2>1, PutKeeps
<1>3. CASE PollTimer(c)
  <2>1. Typed' /\ Kept /\ \E n \in Nat : lwip' \in {Event("POLL", c, n), Idle}
    BY <1>3, PollMoves DEF CallInv
  <2> QED
    BY <1>1, <2>1, PutKeeps
<1> QED
  BY <1>2, <1>3

LEMMA FinKeeps ==
  ASSUME CallInv, NEW c \in Clients, Fin(c)
  PROVE  CallInv'
<1>1. lwip = Idle /\ UNCHANGED <<queue, steps, stale>>
  BY DEF Fin, Callback
<1>2. /\ Typed' /\ lwip' \in {Event("FIN", c, 0), Idle} /\ conn[c].is = "open"
      /\ \/ client[c].pcb /\ client[c].attached /\ Moved(c, FALSE, FALSE, "finished")
         \/ ~client[c].attached /\ Moved(c, client[c].pcb, client[c].attached, "finished")
         \/ /\ ~client[c].pcb /\ client[c].attached
            /\ Moved(c, client[c].pcb, client[c].attached, "half")
  BY FinMoves DEF CallInv
<1>3. Shaped' /\ Calling(c)' = Calling(c) /\ Closing(c)' = Closing(c)
  BY <1>1 DEF CallInv, Shaped, Calling, Closing
<1>4. \A d \in Clients : d # c => Same(d)
  <2>1. PICK p, a, s : Moved(c, p, a, s)
    BY <1>2
  <2> QED
    BY <1>1, <1>2, <2>1, OthersKept
<1>5. /\ OnceOf(Connected(c))' /\ (Connected(c) \in Waiting' => Connected(c) \in Waiting)
      /\ Error(c) \in Waiting' => Error(c) \in Waiting
  BY <1>1, <1>2, PutsOne DEF CallInv
<1>6. ASSUME client[c].pcb /\ client[c].attached /\ Moved(c, FALSE, FALSE, "finished")
      PROVE  Fine(c)'
  BY <1>1, <1>2, <1>3, <1>5, <1>6
  DEF CallInv, Moved, Fine, Fresh, Errors, Opening, Detached, Late, NoneStale, LastCall
<1>7. ASSUME ~client[c].attached /\ Moved(c, client[c].pcb, client[c].attached, "finished")
      PROVE  Fine(c)'
  BY <1>1, <1>2, <1>3, <1>5, <1>7
  DEF CallInv, Moved, Fine, Fresh, Errors, Opening, Detached, Late, NoneStale, LastCall
<1>8. ASSUME ~client[c].pcb, client[c].attached,
             Moved(c, client[c].pcb, client[c].attached, "half")
      PROVE  Fine(c)'
  BY <1>1, <1>2, <1>3, <1>5, <1>8
  DEF CallInv, Moved, Fine, Fresh, Errors, Opening, Detached, Late, NoneStale, LastCall
<1>9. Fine(c)'
  BY <1>2, <1>6, <1>7, <1>8
<1> QED
  BY <1>2, <1>3, <1>4, <1>5, <1>9, OneMoves

LEMMA ResetKeeps ==
  ASSUME CallInv, NEW c \in Clients, Reset(c)
  PROVE  CallInv'
<1>1. lwip = Idle /\ UNCHANGED <<queue, steps, stale>>
  BY DEF Reset, Callback
<1>2. /\ Typed' /\ lwip' \in {Event("ERROR", c, 0), Idle} /\ conn[c].is \in {"opening", "open", "half"}
      /\ Moved(c, client[c].pcb, client[c].attached, "reset")
  BY ResetMoves DEF CallInv
<1>3. Shaped' /\ Calling(c)' = Calling(c) /\ Closing(c)' = Closing(c)
  BY <1>1 DEF CallInv, Shaped, Calling, Closing
<1>4. \A d \in Clients : d # c => Same(d)
  BY <1>1, <1>2, OthersKept
<1>5. OnceOf(Connected(c))' /\ (Connected(c) \in Waiting' => Connected(c) \in Waiting)
  BY <1>1, <1>2, PutsOne DEF CallInv
<1>6. Fine(c)'
  BY <1>1, <1>2, <1>3, <1>5
  DEF CallInv, Moved, Fine, Fresh, Errors, Opening, Detached, Late, NoneStale, LastCall
<1> QED
  BY <1>2, <1>3, <1>4, <1>5, <1>6, OneMoves

\* xQueueSend and xQueueSendToFront.
LEMMA DeliverKeeps ==
  ASSUME CallInv, Deliver
  PROVE  CallInv'
<1>1. /\ lwip # Idle /\ lwip' = Idle /\ UNCHANGED <<steps, client, conn, stale, polls>>
      /\ queue' = <<lwip>> \o queue \/ queue' = Append(queue, lwip)
  BY DEF Deliver
<1>2. queue \in Seq(Events) /\ lwip \in Events
  BY <1>1 DEF CallInv, Typed
<1>3. /\ queue' \in Seq(Events)
      /\ \A x : x \in Range(queue') <=> x \in Range(queue) \/ x = lwip
      /\ \A x : Unique(queue, x) /\ (lwip = x => x \notin Range(queue)) => Unique(queue', x)
  <2>1. CASE queue' = <<lwip>> \o queue
    BY <1>2, <2>1, PutInFront
  <2>2. CASE queue' = Append(queue, lwip)
    BY <1>2, <2>2, PutBehind
  <2> QED
    BY <1>1, <2>1, <2>2
<1>4. Typed' /\ Shaped'
  BY <1>1, <1>3 DEF CallInv, Typed, Shaped
<1>5. \A d : /\ Calling(d)' = Calling(d) /\ Closing(d)' = Closing(d)
             /\ Connected(d) # lwip' /\ Error(d) # lwip'
  BY <1>1, EventsApart DEF Calling, Closing
<1>6. Holds(steps') = Holds(steps) /\ \A x : x \in Waiting' /\ x # lwip' => x \in Waiting
  BY <1>1, <1>3 DEF Waiting
<1>7. ASSUME NEW x, x # lwip', OnceOf(x) PROVE OnceOf(x)'
  BY <1>3, <1>6, <1>7 DEF OnceOf
<1>8. \A d \in Clients : Same(d)
  BY <1>1, <1>5, <1>6, <1>7 DEF Same, Carried
<1> QED
  BY <1>4, <1>8, NoneMoves

-----------------------------------------------------------------------------
(* The async task takes an event.                                           *)

ClientKept == \A d \in Clients : /\ client'[d].pcb = client[d].pcb
                                 /\ client'[d].attached = client[d].attached

LEMMA NoneKept ==
  ASSUME UNCHANGED client
  PROVE  ClientKept
BY DEF ClientKept

\* Fields that only the user sees.
LEMMA UserFields ==
  /\ \A r \in ClientRecords, a \in BOOLEAN :
       /\ [r EXCEPT !.known = a] \in ClientRecords
       /\ [r EXCEPT !.known = a].pcb = r.pcb /\ [r EXCEPT !.known = a].attached = r.attached
  /\ \A r \in ClientRecords, a, b \in BOOLEAN :
       /\ [r EXCEPT !.told = a, !.exists = b] \in ClientRecords
       /\ [r EXCEPT !.told = a, !.exists = b].pcb = r.pcb
       /\ [r EXCEPT !.told = a, !.exists = b].attached = r.attached
  /\ \A r \in ClientRecords, n \in Int :
       /\ [r EXCEPT !.later = n] \in ClientRecords
       /\ [r EXCEPT !.later = n].pcb = r.pcb /\ [r EXCEPT !.later = n].attached = r.attached
BY DEF ClientRecords

LEMMA OneClient ==
  ASSUME client \in [Clients -> ClientRecords], NEW c \in Clients, NEW r \in ClientRecords,
         client' = [client EXCEPT ![c] = r]
  PROVE  /\ client' \in [Clients -> ClientRecords] /\ client'[c] = r
         /\ \A d \in Clients : d # c => client'[d] = client[d]
         /\ r.pcb = client[c].pcb /\ r.attached = client[c].attached => ClientKept
BY DEF ClientKept

\* An event of the type CONNECTED or ERROR is known by its client.
LEMMA EventIs ==
  ASSUME NEW e \in Events, e.type \in {"CONNECTED", "ERROR"}
  PROVE  e = Event(e.type, e.client, 0)
<1>1. e \in [type : EventTypes, client : Clients, n : Nat] /\ e.n = 0
  BY DEF Events
<1>2. e = [type |-> e.type, client |-> e.client, n |-> e.n]
  BY <1>1
<1> QED
  BY <1>1, <1>2 DEF Event

LEMMA Takes ==
  ASSUME CallInv, NEW c \in Clients, NEW t, Taking(t, c), Holds(steps') = {}
  PROVE  /\ steps = <<>> /\ queue' \in Seq(Events) /\ UNCHANGED <<lwip, conn, stale, polls>>
         /\ \A d : ~Calling(d) /\ ~Closing(d)
         /\ \A d \in Clients : Carried(d)
         /\ t = "CONNECTED" => Connected(c) \in Waiting /\ Connected(c) \notin Waiting'
         /\ t = "ERROR" => Error(c) \in Waiting
<1>1. /\ steps = <<>> /\ queue # <<>> /\ queue' = Tail(queue)
      /\ Head(queue).type = t /\ Head(queue).client = c
      /\ UNCHANGED <<lwip, conn, stale, polls>>
  BY DEF Taking
<1>2. queue \in Seq(Events)
  BY DEF CallInv, Typed
<1>3. /\ Head(queue) \in Events /\ queue' \in Seq(Events)
      /\ \A x : x \in Range(queue) <=> x \in Range(queue') \/ x = Head(queue)
      /\ \A x : Unique(queue, x) =>
           Unique(queue', x) /\ (Head(queue) = x => x \notin Range(queue'))
  BY <1>1, <1>2, TakeAway
<1>4. Quiet(steps)
  BY <1>1, Looks
<1>5. Holds(steps) = {} /\ \A d : ~Calling(d) /\ ~Closing(d)
  BY <1>4 DEF Quiet, Calling, Closing
<1>6. /\ \A x : x \in Waiting <=> x \in Range(queue) \/ x = lwip
      /\ \A x : x \in Waiting' <=> x \in Range(queue') \/ x = lwip
  BY <1>1, <1>5 DEF Waiting
<1>7. \A x : OnceOf(x) => OnceOf(x)' /\ (Head(queue) = x => x \notin Waiting')
  BY <1>1, <1>3, <1>5, <1>6 DEF OnceOf
<1>8. \A d \in Clients : Carried(d)
  BY <1>3, <1>6, <1>7 DEF Carried
<1>9. Head(queue) \in Waiting
  BY <1>3, <1>6
<1>10. t = "CONNECTED" => Connected(c) \in Waiting /\ Connected(c) \notin Waiting'
  <2> SUFFICES ASSUME t = "CONNECTED" PROVE Connected(c) \in Waiting /\ Connected(c) \notin Waiting'
    OBVIOUS
  <2>1. Head(queue) = Connected(c)
    BY <1>1, <1>3, EventIs DEF Connected
  <2> QED
    BY <1>7, <1>9, <2>1 DEF CallInv
<1>11. t = "ERROR" => Error(c) \in Waiting
  BY <1>1, <1>3, <1>9, EventIs DEF Error
<1> QED
  BY <1>1, <1>3, <1>5, <1>8, <1>10, <1>11

\* A handler that begins a call only when _pcb is set, and changes neither that
\* nor the callbacks.
LEMMA Handled ==
  ASSUME CallInv, NEW c \in Clients, NEW t, Taking(t, c),
         client' \in [Clients -> ClientRecords], ClientKept,
         Shape(steps'), Holds(steps') = {}, \A d : ~Closes(steps', d),
         \A d : Calls(steps', d) => d = c /\ client[c].pcb
  PROVE  CallInv'
<1>1. /\ steps = <<>> /\ queue' \in Seq(Events) /\ UNCHANGED <<lwip, conn, stale, polls>>
      /\ \A d : ~Calling(d) /\ ~Closing(d)
      /\ \A d \in Clients : Carried(d)
  BY Takes
<1>2. Typed' /\ Shaped'
  BY <1>1 DEF CallInv, Typed, Shaped
<1>3. \A d : ~Closing(d)' /\ (Calling(d)' => d = c /\ client[c].pcb)
  BY DEF Closing, Calling
<1>4. \A d \in Clients : d # c => Same(d)
  BY <1>1, <1>3 DEF Same, ClientKept
<1>5. OnceOf(Connected(c))' /\ Fine(c)'
  <2>1. OnceOf(Connected(c))' /\ (Connected(c) \in Waiting' => Connected(c) \in Waiting)
        /\ (Error(c) \in Waiting' => Error(c) \in Waiting)
    BY <1>1 DEF CallInv, Carried
  <2>2. Fine(c)'
    BY <1>1, <1>3, <2>1
    DEF CallInv, ClientKept, Fine, Fresh, Errors, Opening, Detached, Late, NoneStale, LastCall
  <2> QED
    BY <2>1, <2>2
<1> QED
  BY <1>2, <1>4, <1>5, OneMoves

\* Handlers that begin no call and do not close.
LEMMA HandledQuietly ==
  ASSUME CallInv, NEW c \in Clients, NEW t, Taking(t, c),
         client' \in [Clients -> ClientRecords], ClientKept, Shape(steps'), Quiet(steps')
  PROVE  CallInv'
<1>1. Holds(steps') = {} /\ \A d : ~Calls(steps', d) /\ ~Closes(steps', d)
  BY DEF Quiet
<1> QED
  BY <1>1, Handled

LEMMA QuietKeeps ==
  ASSUME CallInv, NEW c \in Clients, Stray(c) \/ HandleDns(c) \/ HandleFin(c) \/ HandleClear(c)
  PROVE  CallInv'
<1>1. ClientKept /\ client' \in [Clients -> ClientRecords]
  <2>1. UNCHANGED client
    BY DEF Stray, HandleDns, HandleFin, HandleClear
  <2> QED
    BY <2>1, NoneKept DEF CallInv, Typed
<1>2. PICK t : Taking(t, c)
  BY DEF Stray, HandleDns, HandleFin, HandleClear
<1>3. \/ steps' = <<>> \/ steps' = Ending(c) \/ steps' = <<Removal("remove", c, Idle, Idle)>>
  BY <1>2 DEF Stray, HandleDns, HandleFin, HandleClear, Ending, Taking
<1>4. Shape(steps') /\ Quiet(steps')
  <2>1. CASE steps' = <<>>
    BY <2>1, ShapesOf, Looks
  <2>2. CASE steps' = Ending(c)
    BY <2>2, ShapesOf, Looks
  <2>3. CASE steps' = <<Removal("remove", c, Idle, Idle)>>
    BY <2>3, ShapesOf, Looks
  <2> QED
    BY <1>3, <2>1, <2>2, <2>3
<1> QED
  BY <1>1, <1>2, <1>4, HandledQuietly

LEMMA AcceptHandled ==
  ASSUME CallInv, NEW c \in Clients, HandleAccept(c)
  PROVE  CallInv'
<1> DEFINE r == [client[c] EXCEPT !.known = TRUE]
<1>1. client \in [Clients -> ClientRecords] /\ client[c] \in ClientRecords
  BY DEF CallInv, Typed
<1>2. Taking("ACCEPT", c) /\ steps' = <<>> /\ client' = [client EXCEPT ![c] = r]
  BY DEF HandleAccept, Taking
<1>3. r \in ClientRecords /\ r.pcb = client[c].pcb /\ r.attached = client[c].attached
  BY <1>1, UserFields
<1> HIDE DEF r
<1>4. client' \in [Clients -> ClientRecords] /\ ClientKept
  BY <1>1, <1>2, <1>3, OneClient
<1>5. Shape(steps') /\ Quiet(steps')
  BY <1>2, ShapesOf, Looks
<1> QED
  BY <1>2, <1>4, <1>5, HandledQuietly

LEMMA RecvHandled ==
  ASSUME CallInv, NEW c \in Clients, HandleRecv(c)
  PROVE  CallInv'
<1>1. client \in [Clients -> ClientRecords] /\ client[c] \in ClientRecords
  BY DEF CallInv, Typed
<1>2. PICK later \in BOOLEAN :
        /\ Taking("RECV", c) /\ client' = [client EXCEPT ![c] = Assimilated(c, later)]
        /\ steps' = IF AcksNow(c, later) THEN <<Step("recved", c, 1)>> ELSE <<>>
  BY DEF HandleRecv
<1>3. PICK n \in Int : Assimilated(c, later) = [client[c] EXCEPT !.later = n]
  <2>1. client[c].later \in Int /\ client[c].later + 1 \in Int
    BY <1>1 DEF ClientRecords
  <2>2. Assimilated(c, later) = [client[c] EXCEPT !.later = IF later THEN client[c].later + 1
                                                           ELSE client[c].later]
    BY DEF Assimilated
  <2> QED
    BY <2>1, <2>2
<1>4. client' \in [Clients -> ClientRecords] /\ ClientKept
  <2> DEFINE r == [client[c] EXCEPT !.later = n]
  <2>1. r \in ClientRecords /\ r.pcb = client[c].pcb /\ r.attached = client[c].attached
    BY <1>1, UserFields
  <2>2. client' = [client EXCEPT ![c] = r]
    BY <1>2, <1>3
  <2> HIDE DEF r
  <2> QED
    BY <1>1, <2>1, <2>2, OneClient
<1>5. CASE AcksNow(c, later)
  <2>1. steps' = <<Step("recved", c, 1)>> /\ client[c].pcb
    BY <1>2, <1>5 DEF AcksNow
  <2>2. Shape(steps') /\ Holds(steps') = {} /\ \A d : (Calls(steps', d) => d = c) /\ ~Closes(steps', d)
    <3>1. steps' \in {<<Step("recved", c, 1)>>, <<Step("ack", c, 1)>>, Polled(c, 1)}
      BY <2>1
    <3>2. Holds(steps') = {} /\ \A d : (Calls(steps', d) => d = c) /\ ~Closes(steps', d)
      BY <3>1, LooksCalling
    <3>3. Shape(steps')
      <4>1. 1 \in Int
        OBVIOUS
      <4> QED
        BY <2>1, <4>1, ShapesOf
    <3> QED
      BY <3>2, <3>3
  <2> QED
    BY <1>2, <1>4, <2>1, <2>2, Handled
<1>6. CASE ~AcksNow(c, later)
  <2>1. Shape(steps') /\ Quiet(steps')
    BY <1>2, <1>6, ShapesOf, Looks
  <2> QED
    BY <1>2, <1>4, <2>1, HandledQuietly
<1> QED
  BY <1>5, <1>6

LEMMA PollHandled ==
  ASSUME CallInv, NEW c \in Clients, HandlePoll(c)
  PROVE  CallInv'
<1>1. Taking("POLL", c) /\ UNCHANGED client
  BY DEF HandlePoll
<1>2. client' \in [Clients -> ClientRecords] /\ ClientKept
  BY <1>1, NoneKept DEF CallInv, Typed
<1>3. CASE UNCHANGED steps
  <2>1. Shape(steps') /\ Quiet(steps')
    BY <1>1, <1>3, ShapesOf, Looks DEF Taking
  <2> QED
    BY <1>1, <1>2, <2>1, HandledQuietly
<1>4. CASE \/ client[c].pcb /\ steps' = <<Step("ack", c, client[c].later)>>
           \/ client[c].pcb /\ steps' = Polled(c, client[c].later)
  <2>1. PICK n \in Int : n = client[c].later
    BY DEF CallInv, Typed, ClientRecords
  <2>2. client[c].pcb /\ steps' \in {<<Step("recved", c, n)>>, <<Step("ack", c, n)>>, Polled(c, n)}
    BY <1>4, <2>1
  <2>3. Shape(steps')
    BY <2>2, ShapesOf
  <2>4. Holds(steps') = {} /\ \A d : (Calls(steps', d) => d = c) /\ ~Closes(steps', d)
    BY <2>2, LooksCalling
  <2> QED
    BY <1>1, <1>2, <2>2, <2>3, <2>4, Handled
<1> QED
  BY <1>3, <1>4 DEF HandlePoll, Polled

LEMMA ConnectedHandled ==
  ASSUME CallInv, NEW c \in Clients, HandleConnected(c)
  PROVE  CallInv'
<1> DEFINE r == [client[c] EXCEPT !.pcb = TRUE]
<1>1. client \in [Clients -> ClientRecords] /\ client[c] \in ClientRecords
  BY DEF CallInv, Typed
<1>2. Taking("CONNECTED", c) /\ steps' = steps /\ steps = <<>> /\ client' = [client EXCEPT ![c] = r]
  BY DEF HandleConnected, Taking
<1>3. r \in ClientRecords /\ r.pcb = TRUE /\ r.attached = client[c].attached
  BY <1>1 DEF ClientRecords
<1> HIDE DEF r
<1>4. /\ client' \in [Clients -> ClientRecords] /\ client'[c] = r
      /\ \A d \in Clients : d # c => client'[d] = client[d]
  BY <1>1, <1>2, <1>3, OneClient
<1>5. Holds(steps') = {}
  BY <1>2, Looks DEF Quiet
<1>6. /\ queue' \in Seq(Events) /\ UNCHANGED <<lwip, conn, stale, polls>>
      /\ \A d : ~Calling(d) /\ ~Closing(d)
      /\ \A d \in Clients : Carried(d)
      /\ Connected(c) \in Waiting /\ Connected(c) \notin Waiting'
  BY <1>2, <1>5, Takes
<1>7. Typed' /\ Shaped'
  BY <1>2, <1>4, <1>6 DEF CallInv, Typed, Shaped
<1>8. \A d : Calling(d)' = Calling(d) /\ Closing(d)' = Closing(d)
  BY <1>2 DEF Calling, Closing
<1>9. \A d \in Clients : d # c => Same(d)
  BY <1>4, <1>6, <1>8 DEF Same
<1>10. OnceOf(Connected(c))' /\ (Error(c) \in Waiting' => Error(c) \in Waiting)
  BY <1>6 DEF CallInv, Carried
<1>11. Fine(c)'
  BY <1>3, <1>4, <1>6, <1>8, <1>10
  DEF CallInv, Fine, Fresh, Errors, Opening, Detached, Late, NoneStale, LastCall
<1> QED
  BY <1>7, <1>9, <1>10, <1>11, OneMoves

LEMMA ErrorHandled ==
  ASSUME CallInv, NEW c \in Clients, HandleError(c)
  PROVE  CallInv'
<1> DEFINE r == [client[c] EXCEPT !.pcb = FALSE, !.attached = FALSE]
<1>1. client \in [Clients -> ClientRecords] /\ client[c] \in ClientRecords
  BY DEF CallInv, Typed
<1>2. /\ Taking("ERROR", c) /\ steps' = <<Step("discard", c, 0)>>
      /\ client' = [client EXCEPT ![c] = r]
  BY DEF HandleError
<1>3. r \in ClientRecords /\ r.pcb = FALSE /\ r.attached = FALSE
  BY <1>1 DEF ClientRecords
<1> HIDE DEF r
<1>4. /\ client' \in [Clients -> ClientRecords] /\ client'[c] = r
      /\ \A d \in Clients : d # c => client'[d] = client[d]
  BY <1>1, <1>2, <1>3, OneClient
<1>5. Shape(steps') /\ Quiet(steps')
  BY <1>2, ShapesOf, Looks
<1>6. Holds(steps') = {} /\ \A d : ~Calling(d)' /\ ~Closing(d)'
  BY <1>5 DEF Quiet, Calling, Closing
<1>7. /\ queue' \in Seq(Events) /\ UNCHANGED <<lwip, conn, stale, polls>>
      /\ \A d : ~Calling(d) /\ ~Closing(d)
      /\ \A d \in Clients : Carried(d)
      /\ Error(c) \in Waiting
  BY <1>2, <1>6, Takes
<1>8. Typed' /\ Shaped'
  BY <1>4, <1>5, <1>7 DEF CallInv, Typed, Shaped
<1>9. \A d \in Clients : d # c => Same(d)
  BY <1>4, <1>6, <1>7 DEF Same
<1>10. OnceOf(Connected(c))' /\ conn[c].is = "reset"
  BY <1>7 DEF CallInv, Carried, Fine, Errors
<1>11. Fine(c)'
  BY <1>3, <1>4, <1>6, <1>7, <1>10
  DEF Fine, Fresh, Errors, Opening, Detached, Late, NoneStale, LastCall
<1> QED
  BY <1>8, <1>9, <1>10, <1>11, OneMoves

-----------------------------------------------------------------------------
(* The async task goes on with a handler.                                   *)

\* A step that puts and takes nothing.
LEMMA QueueKept ==
  ASSUME UNCHANGED <<queue, lwip>>, Holds(steps) = {}, Holds(steps') = {}
  PROVE  \A d : Carried(d)
<1>1. \A x : (OnceOf(x) => OnceOf(x)') /\ (x \in Waiting' => x \in Waiting)
  BY DEF OnceOf, Waiting
<1> QED
  BY <1>1 DEF Carried

\* What a handler looks like before each of its steps.
LEMMA Before ==
  ASSUME CallInv, steps # <<>>, NEW c, Head(steps).client = c
  PROVE  /\ Head(steps).do \in {"recved", "ack"} =>
              Holds(steps) = {} /\ Calling(c) /\ \A d : ~Closing(d)
         /\ Head(steps).do \in {"detach", "discard", "remove"} => Quiet(steps)
         /\ Head(steps).do = "clear" => Holds(steps) = {} /\ \A d : ~Calling(d)
         /\ Head(steps).do = "close" =>
              Holds(steps) = {} /\ \A d : ~Calling(d) /\ (Closing(d) <=> d = c)
         /\ Head(steps).do = "return" =>
              Holds(steps) = {Head(steps).packet} /\ \A d : ~Calling(d) /\ ~Closing(d)
<1>1. Head(steps).do # "return" => Holds(steps) = {}
  BY DEF Holds
<1>2. Head(steps).do \notin {"recved", "ack"} => \A d : ~Calling(d)
  BY DEF Calling, Calls
<1>3. Head(steps).do \notin {"clear", "close"} => \A d : ~Closing(d)
  BY ClosingApart DEF Closing
<1>4. Head(steps).do \in {"recved", "ack"} => Calling(c)
  BY DEF Calling, Calls
<1>5. Head(steps).do = "return" => Holds(steps) = {Head(steps).packet}
  BY DEF Holds
<1>6. Head(steps).do = "close" => \A d : Closing(d) <=> d = c
  <2>1. Head(steps).do = "close" => steps = Closing2(c)
    BY NextSteps DEF CallInv
  <2> QED
    BY <2>1, ClosingApart DEF Closing
<1> QED
  BY <1>1, <1>2, <1>3, <1>4, <1>5, <1>6 DEF Quiet, Calling, Closing

\* tcp_recved and tcp_close are counted when lwIP has freed the pcb.
LEMMA StaleTyped ==
  ASSUME Typed, NEW c \in Clients, StaleCall(c)
  PROVE  /\ stale' \in [Clients -> Nat]
         /\ \A d \in Clients : d # c => stale'[d] = stale[d]
         /\ stale'[c] = IF Freed(c) THEN stale[c] + 1 ELSE stale[c]
BY DEF Typed, StaleCall

LEMMA RecvedKeeps ==
  ASSUME CallInv, Recved
  PROVE  CallInv'
<1>0. PICK c, n : c = Head(steps).client /\ n = Head(steps).n
  OBVIOUS
<1>1. PICK do \in {"recved", "ack"} :
        /\ Doing(do) /\ ApiCall /\ StaleCall(c)
        /\ conn' = IF Freed(c) THEN conn ELSE [conn EXCEPT ![c].window = @ - n]
        /\ client' = IF do = "ack" THEN [client EXCEPT ![c].later = @ - n] ELSE client
        /\ steps' = Tail(steps)
  BY <1>0 DEF Recved
<1>2. steps # <<>> /\ Head(steps).do \in {"recved", "ack"} /\ UNCHANGED <<queue, lwip, polls>>
  BY <1>1 DEF Doing, ApiCall
<1>3. c \in Clients /\ n \in Int /\ steps' \in {<<>>, CloseSteps(c)}
  BY <1>0, <1>1, <1>2, NextSteps DEF CallInv
<1>4. Shape(steps') /\ Quiet(steps')
  <2>1. CASE steps' = <<>>
    BY <1>3, <2>1, ShapesOf, Looks
  <2>2. CASE steps' = CloseSteps(c)
    BY <1>3, <2>2, ShapesOf, Looks
  <2> QED
    BY <1>3, <2>1, <2>2
<1>5. Holds(steps) = {} /\ Calling(c) /\ \A d : ~Closing(d)
  BY <1>0, <1>2, Before
<1>6. Holds(steps') = {} /\ \A d : ~Calling(d)' /\ ~Closing(d)'
  BY <1>4 DEF Quiet, Calling, Closing
<1>7. \A d : Carried(d)
  BY <1>2, <1>5, <1>6, QueueKept
<1>8. client' \in [Clients -> ClientRecords] /\ ClientKept
  <2>1. client \in [Clients -> ClientRecords] /\ client[c] \in ClientRecords
    BY <1>3 DEF CallInv, Typed
  <2>2. CASE do # "ack"
    BY <1>1, <2>1, <2>2, NoneKept
  <2>3. CASE do = "ack"
    <3>1. PICK k \in Int : k = client[c].later - n
      BY <1>3, <2>1 DEF ClientRecords
    <3>2. client' = [client EXCEPT ![c] = [client[c] EXCEPT !.later = k]]
      BY <1>1, <2>1, <2>3, <3>1
    <3> QED
      <4> DEFINE r == [client[c] EXCEPT !.later = k]
      <4>1. r \in ClientRecords /\ r.pcb = client[c].pcb /\ r.attached = client[c].attached
        BY <2>1, UserFields
      <4>2. client' = [client EXCEPT ![c] = r]
        BY <3>2
      <4> HIDE DEF r
      <4> QED
        BY <1>3, <2>1, <4>1, <4>2, OneClient
  <2> QED
    BY <2>2, <2>3
<1>9. conn' \in [Clients -> ConnRecords] /\ \A d \in Clients : conn'[d].is = conn[d].is
  <2>1. conn \in [Clients -> ConnRecords] /\ conn[c] \in ConnRecords
    BY <1>3 DEF CallInv, Typed
  <2>2. CASE Freed(c)
    BY <1>1, <2>1, <2>2
  <2>3. CASE ~Freed(c)
    <3>1. PICK k \in Int : k = conn[c].window - n
      BY <1>3, <2>1 DEF ConnRecords
    <3> DEFINE r == [conn[c] EXCEPT !.window = k]
    <3>2. conn' = [conn EXCEPT ![c] = r]
      BY <1>1, <2>1, <2>3, <3>1
    <3>3. r \in ConnRecords /\ r.is = conn[c].is
      BY <2>1, ConnTyped
    <3> HIDE DEF r
    <3> QED
      BY <1>3, <2>1, <3>2, <3>3
  <2> QED
    BY <2>2, <2>3
<1>10. /\ stale' \in [Clients -> Nat]
       /\ \A d \in Clients : d # c => stale'[d] = stale[d]
       /\ stale'[c] = IF Freed(c) THEN stale[c] + 1 ELSE stale[c]
  BY <1>1, <1>3, StaleTyped DEF CallInv
<1>11. Typed' /\ Shaped'
  BY <1>2, <1>4, <1>8, <1>9, <1>10 DEF CallInv, Typed, Shaped
<1>12. \A d \in Clients : d # c => Same(d)
  BY <1>5, <1>6, <1>7, <1>8, <1>9, <1>10 DEF Same, ClientKept
<1>13. OnceOf(Connected(c))' /\ Fine(c)'
  <2>1. /\ OnceOf(Connected(c))' /\ (Connected(c) \in Waiting' => Connected(c) \in Waiting)
        /\ Error(c) \in Waiting' => Error(c) \in Waiting
    BY <1>3, <1>7 DEF CallInv, Carried
  <2>2. /\ client'[c].pcb = client[c].pcb /\ client'[c].attached = client[c].attached
        /\ conn'[c].is = conn[c].is
    BY <1>3, <1>8, <1>9 DEF ClientKept
  <2>3. Fresh(c)' /\ Errors(c)' /\ Opening(c)' /\ Detached(c)' /\ Late(c)'
    BY <1>3, <1>5, <1>6, <2>1, <2>2
    DEF CallInv, Fine, Fresh, Errors, Opening, Detached, Late
  <2>4. conn[c].is \in {"open", "half", "finished", "reset", "closed"}
    BY <1>3, <1>5 DEF CallInv, Fine, Late
  <2>5. NoneStale(c)'
    BY <1>3, <1>10, <2>2, <2>4 DEF CallInv, Fine, NoneStale, Freed
  <2>6. conn[c].is = "finished" => stale[c] = 0 /\ ~client[c].pcb
    BY <1>3, <1>5 DEF CallInv, Fine, LastCall
  <2>7. LastCall(c)'
    BY <1>6, <1>10, <2>2, <2>6 DEF LastCall
  <2> QED
    BY <2>1, <2>3, <2>5, <2>7 DEF Fine
<1> QED
  BY <1>3, <1>11, <1>12, <1>13, OneMoves

LEMMA DetachKeeps ==
  ASSUME CallInv, Detach
  PROVE  CallInv'
<1>0. PICK c, r : c = Head(steps).client /\ r = [client[c] EXCEPT !.attached = FALSE]
  OBVIOUS
<1>1. /\ steps # <<>> /\ Head(steps).do = "detach" /\ UNCHANGED <<queue, lwip, conn, stale, polls>>
      /\ \/ client[c].pcb /\ client' = [client EXCEPT ![c] = r] /\ steps' = Tail(steps)
         \/ ~client[c].pcb /\ steps' = <<>> /\ UNCHANGED client
  BY <1>0 DEF Detach, Doing
<1>2. c \in Clients /\ Tail(steps) = Closing3(c)
  BY <1>0, <1>1, NextSteps DEF CallInv
<1>3. Quiet(steps)
  BY <1>1, Before
<1>4. Holds(steps) = {} /\ \A d : ~Calling(d) /\ ~Closing(d)
  BY <1>3 DEF Quiet, Calling, Closing
<1>5. client \in [Clients -> ClientRecords] /\ client[c] \in ClientRecords
  BY <1>2 DEF CallInv, Typed
<1>6. r \in ClientRecords /\ r.pcb = client[c].pcb /\ r.attached = FALSE
  BY <1>0, <1>5 DEF ClientRecords
<1>7. CASE client[c].pcb /\ client' = [client EXCEPT ![c] = r] /\ steps' = Tail(steps)
  <2>1. /\ client' \in [Clients -> ClientRecords] /\ client'[c] = r
        /\ \A d \in Clients : d # c => client'[d] = client[d]
    BY <1>2, <1>5, <1>6, <1>7, OneClient
  <2>2. Shape(steps') /\ Holds(steps') = {} /\ \A d : ~Calling(d)' /\ (Closing(d)' <=> d = c)
    <3>1. steps' = Closing3(c) /\ Closing3(c) \in {Closing3(c), Closing2(c)}
      BY <1>2, <1>7
    <3>2. /\ Shape(steps') /\ Holds(steps') = {}
          /\ \A d : ~Calls(steps', d) /\ (Closes(steps', d) <=> d = c)
      BY <1>2, <3>1, ShapesOf, Looks
    <3> QED
      BY <3>2 DEF Calling, Closing
  <2>3. Typed' /\ Shaped'
    BY <1>1, <2>1, <2>2 DEF CallInv, Typed, Shaped
  <2>4. \A d : Carried(d)
    BY <1>1, <1>4, <2>2, QueueKept
  <2>5. \A d \in Clients : d # c => Same(d)
    BY <1>1, <1>4, <2>1, <2>2, <2>4 DEF Same
  <2>6. /\ OnceOf(Connected(c))' /\ (Connected(c) \in Waiting' => Connected(c) \in Waiting)
        /\ Error(c) \in Waiting' => Error(c) \in Waiting
    BY <1>2, <2>4 DEF CallInv, Carried
  <2>7. Fine(c)'
    BY <1>1, <1>2, <1>4, <1>6, <1>7, <2>1, <2>2, <2>6
    DEF CallInv, Fine, Fresh, Errors, Opening, Detached, Late, NoneStale, LastCall
  <2> QED
    BY <1>2, <2>3, <2>5, <2>6, <2>7, OneMoves
<1>8. CASE ~client[c].pcb /\ steps' = <<>> /\ UNCHANGED client
  <2>1. Shape(steps') /\ Quiet(steps')
    BY <1>2, <1>8, ShapesOf, Looks
  <2>2. Holds(steps') = {} /\ \A d : ~Calling(d)' /\ ~Closing(d)'
    BY <2>1 DEF Quiet, Calling, Closing
  <2>3. Typed' /\ Shaped'
    BY <1>1, <1>8, <2>1 DEF CallInv, Typed, Shaped
  <2>4. \A d : Carried(d)
    BY <1>1, <1>4, <2>2, QueueKept
  <2>5. \A d \in Clients : Same(d)
    BY <1>1, <1>4, <1>8, <2>2, <2>4 DEF Same
  <2> QED
    BY <2>3, <2>5, NoneMoves
<1> QED
  BY <1>1, <1>7, <1>8

LEMMA ClearKeeps ==
  ASSUME CallInv, Clear
  PROVE  CallInv'
<1>0. PICK c, e : c = Head(steps).client /\ e = Event("CLEAR", c, 0)
  OBVIOUS
<1>1. /\ steps # <<>> /\ Head(steps).do = "clear" /\ steps' = Tail(steps)
      /\ queue' = <<e>> \o queue /\ UNCHANGED <<lwip, client, conn, stale, polls>>
  BY <1>0 DEF Clear, Doing
<1>2. /\ c \in Clients
      /\ \/ steps = Closing3(c) /\ steps' = Closing2(c)
         \/ steps = Ending(c) /\ steps' = <<Step("discard", c, 0)>>
  BY <1>0, <1>1, NextSteps DEF CallInv
<1>3. e \in Events /\ \A d : e # Connected(d) /\ e # Error(d)
  <2>1. "CLEAR" \in EventTypes
    BY DEF EventTypes
  <2> QED
    BY <1>0, <1>2, <2>1, EventTyped, EventsApart
<1>4. Holds(steps) = {} /\ \A d : ~Calling(d)
  BY <1>1, Before
<1>5. Shape(steps') /\ Holds(steps') = {} /\ \A d : ~Calling(d)' /\ (Closing(d)' <=> Closing(d))
  <2>1. CASE steps = Closing3(c) /\ steps' = Closing2(c)
    BY <1>2, <2>1, ShapesOf, Looks DEF Calling, Closing
  <2>2. CASE steps = Ending(c) /\ steps' = <<Step("discard", c, 0)>>
    <3>1. Quiet(steps) /\ Quiet(steps') /\ Shape(steps')
      BY <1>2, <2>2, ShapesOf, Looks
    <3> QED
      BY <3>1 DEF Quiet, Calling, Closing
  <2> QED
    BY <1>2, <2>1, <2>2
<1>6. queue \in Seq(Events)
  BY DEF CallInv, Typed
<1>7. /\ queue' \in Seq(Events)
      /\ \A x : x \in Range(queue') <=> x \in Range(queue) \/ x = e
      /\ \A x : Unique(queue, x) /\ (e = x => x \notin Range(queue)) => Unique(queue', x)
  BY <1>1, <1>3, <1>6, PutInFront
<1>8. Typed' /\ Shaped'
  BY <1>1, <1>5, <1>7 DEF CallInv, Typed, Shaped
<1>9. \A x : x # e => (OnceOf(x) => OnceOf(x)') /\ (x \in Waiting' => x \in Waiting)
  BY <1>1, <1>4, <1>5, <1>7 DEF OnceOf, Waiting
<1>10. \A d \in Clients : Same(d)
  BY <1>1, <1>3, <1>4, <1>5, <1>9 DEF Same, Carried
<1> QED
  BY <1>8, <1>10, NoneMoves

LEMMA CloseKeeps ==
  ASSUME CallInv, Close
  PROVE  CallInv'
<1>0. PICK c, r : c = Head(steps).client /\ r = [client[c] EXCEPT !.pcb = FALSE]
  OBVIOUS
<1>1. /\ steps # <<>> /\ Head(steps).do = "close" /\ UNCHANGED <<queue, lwip, polls>>
      /\ StaleCall(c) /\ conn' = IF Freed(c) THEN conn ELSE [conn EXCEPT ![c].is = "closed"]
      /\ client' = [client EXCEPT ![c] = r] /\ steps' = Tail(steps)
  BY <1>0 DEF Close, Doing, ApiCall
<1>2. c \in Clients /\ steps' = <<Step("discard", c, 0)>>
  BY <1>0, <1>1, NextSteps DEF CallInv
<1>3. Holds(steps) = {} /\ \A d : ~Calling(d) /\ (Closing(d) <=> d = c)
  BY <1>0, <1>1, Before
<1>4. client \in [Clients -> ClientRecords] /\ client[c] \in ClientRecords
  BY <1>2 DEF CallInv, Typed
<1>5. r \in ClientRecords /\ r.pcb = FALSE /\ r.attached = client[c].attached
  BY <1>0, <1>4 DEF ClientRecords
<1>6. /\ client' \in [Clients -> ClientRecords] /\ client'[c] = r
      /\ \A d \in Clients : d # c => client'[d] = client[d]
  BY <1>1, <1>2, <1>4, <1>5, OneClient
<1>7. Shape(steps') /\ Quiet(steps')
  BY <1>2, ShapesOf, Looks
<1>8. Holds(steps') = {} /\ \A d : ~Calling(d)' /\ ~Closing(d)'
  BY <1>7 DEF Quiet, Calling, Closing
<1>9. \A d : Carried(d)
  BY <1>1, <1>3, <1>8, QueueKept
<1>10. /\ conn' \in [Clients -> ConnRecords]
       /\ conn'[c].is = IF Freed(c) THEN conn[c].is ELSE "closed"
       /\ \A d \in Clients : d # c => conn'[d].is = conn[d].is
  <2>1. CASE Freed(c)
    BY <1>1, <2>1 DEF CallInv, Typed
  <2>2. CASE ~Freed(c)
    <3>1. "closed" \in ConnStates
      BY DEF ConnStates
    <3> QED
      BY <1>1, <1>2, <2>2, <3>1, ConnGoesOn DEF CallInv
  <2> QED
    BY <2>1, <2>2
<1>11. /\ stale' \in [Clients -> Nat]
       /\ \A d \in Clients : d # c => stale'[d] = stale[d]
       /\ stale'[c] = IF Freed(c) THEN stale[c] + 1 ELSE stale[c]
  BY <1>1, <1>2, StaleTyped DEF CallInv
<1>12. Typed' /\ Shaped'
  BY <1>1, <1>6, <1>7, <1>10, <1>11 DEF CallInv, Typed, Shaped
<1>13. \A d \in Clients : d # c => Same(d)
  BY <1>3, <1>6, <1>8, <1>9, <1>10, <1>11 DEF Same
<1>14. OnceOf(Connected(c))' /\ Fine(c)'
  <2>2. client[c].pcb /\ Connected(c) \notin Waiting
    BY <1>2, <1>3 DEF CallInv, Fine, Detached, Fresh
  <2>3. conn[c].is \in {"open", "half", "finished", "reset", "closed"}
    BY <1>2, <2>2 DEF CallInv, Fine, Late
  <2>4. /\ OnceOf(Connected(c))' /\ Connected(c) \notin Waiting'
        /\ Error(c) \in Waiting' => conn[c].is = "reset"
    BY <1>2, <1>9, <2>2 DEF CallInv, Carried, Fine, Errors
  <2>5. conn[c].is = "finished" => stale[c] = 0
    BY <1>2, <2>2 DEF CallInv, Fine, LastCall
  <2>6. Fresh(c)' /\ Errors(c)' /\ Opening(c)' /\ Detached(c)' /\ Late(c)'
    BY <1>5, <1>6, <1>8, <1>10, <2>3, <2>4 DEF Fresh, Errors, Opening, Detached, Late, Freed
  <2>7. NoneStale(c)' /\ LastCall(c)'
    BY <1>5, <1>6, <1>8, <1>10, <1>11, <2>3, <2>5 DEF NoneStale, LastCall, Freed
  <2> QED
    BY <2>4, <2>6, <2>7 DEF Fine
<1> QED
  BY <1>2, <1>12, <1>13, <1>14, OneMoves

LEMMA DiscardKeeps ==
  ASSUME CallInv, Discard
  PROVE  CallInv'
<1>0. PICK c, r : /\ c = Head(steps).client
                  /\ r = [client[c] EXCEPT !.told = client[c].known,
                                           !.exists = c \in Outgoing \/ ~client[c].known]
  OBVIOUS
<1>1. /\ steps # <<>> /\ Head(steps).do = "discard" /\ UNCHANGED <<queue, lwip, conn, stale, polls>>
      /\ steps' = Tail(steps)
      /\ client' = [client EXCEPT ![c].told = client[c].known,
                                  ![c].exists = c \in Outgoing \/ ~client[c].known]
  BY <1>0 DEF Discard, Doing
<1>2. c \in Clients /\ steps' = <<>>
  BY <1>0, <1>1, NextSteps DEF CallInv
<1>3. client \in [Clients -> ClientRecords] /\ client[c] \in ClientRecords
  BY <1>2 DEF CallInv, Typed
<1>4. client' = [client EXCEPT ![c] = r]
  BY <1>0, <1>1, <1>2, <1>3
<1>5. r \in ClientRecords /\ r.pcb = client[c].pcb /\ r.attached = client[c].attached
  <2>1. client[c].known \in BOOLEAN
    BY <1>3 DEF ClientRecords
  <2>2. (c \in Outgoing \/ ~client[c].known) \in BOOLEAN
    OBVIOUS
  <2>3. PICK a \in BOOLEAN, b \in BOOLEAN :
          a = client[c].known /\ b = (c \in Outgoing \/ ~client[c].known)
    BY <2>1, <2>2
  <2>4. r = [client[c] EXCEPT !.told = a, !.exists = b]
    BY <1>0, <2>3
  <2> QED
    BY <1>3, <2>4, UserFields
<1>6. Quiet(steps) /\ Quiet(steps') /\ Shape(steps')
  BY <1>1, <1>2, Before, ShapesOf, Looks
<1>7. client' \in [Clients -> ClientRecords] /\ ClientKept
  BY <1>2, <1>3, <1>4, <1>5, OneClient
<1>8. /\ Holds(steps) = {} /\ Holds(steps') = {}
      /\ \A d : ~Calling(d) /\ ~Closing(d) /\ ~Calling(d)' /\ ~Closing(d)'
  BY <1>6 DEF Quiet, Calling, Closing
<1>9. \A d : Carried(d)
  BY <1>1, <1>8, QueueKept
<1>10. Typed' /\ Shaped'
  BY <1>1, <1>6, <1>7 DEF CallInv, Typed, Shaped
<1>11. \A d \in Clients : Same(d)
  BY <1>1, <1>7, <1>8, <1>9 DEF Same, ClientKept
<1> QED
  BY <1>10, <1>11, NoneMoves

LEMMA RemoveKeeps ==
  ASSUME CallInv, RemoveEvent
  PROVE  CallInv'
<1>0. PICK s, c, e, f : /\ s = Head(steps) /\ c = s.client /\ e = Head(queue)
                        /\ f = IF s.first = Idle THEN e ELSE s.first
  OBVIOUS
<1>1. /\ steps # <<>> /\ s.do = "remove" /\ UNCHANGED <<lwip, client, conn, stale, polls>>
      /\ \/ steps' = <<>> /\ UNCHANGED queue
         \/ /\ queue # <<>> /\ queue' = Tail(queue)
            /\ steps' = steps \/ steps' = <<Removal("return", c, e, f)>>
  BY <1>0 DEF RemoveEvent, Doing, TurnedRound
<1>2. c \in Clients /\ s.first \in Events \cup {Idle} /\ queue \in Seq(Events)
  BY <1>0, <1>1, NextSteps DEF CallInv, Typed
<1>3. Quiet(steps)
  BY <1>0, <1>1, Before
<1>4. Holds(steps) = {} /\ \A d : ~Calling(d) /\ ~Closing(d)
  BY <1>3 DEF Quiet, Calling, Closing
<1>5. CASE steps' = <<>> /\ UNCHANGED queue
  <2>1. Shape(steps') /\ Quiet(steps')
    BY <1>2, <1>5, ShapesOf, Looks
  <2>2. Holds(steps') = {} /\ \A d : ~Calling(d)' /\ ~Closing(d)'
    BY <2>1 DEF Quiet, Calling, Closing
  <2>3. Typed' /\ Shaped'
    BY <1>1, <1>5, <2>1 DEF CallInv, Typed, Shaped
  <2>4. \A d : Carried(d)
    BY <1>1, <1>4, <1>5, <2>2, QueueKept
  <2>5. \A d \in Clients : Same(d)
    BY <1>1, <1>4, <2>2, <2>4 DEF Same
  <2> QED
    BY <2>3, <2>5, NoneMoves
<1>6. CASE /\ queue # <<>> /\ queue' = Tail(queue)
           /\ steps' = steps \/ steps' = <<Removal("return", c, e, f)>>
  <2>1. /\ e \in Events /\ queue' \in Seq(Events)
        /\ \A x : x \in Range(queue) <=> x \in Range(queue') \/ x = e
        /\ \A x : Unique(queue, x) => Unique(queue', x) /\ (e = x => x \notin Range(queue'))
    BY <1>0, <1>2, <1>6, TakeAway
  <2>2. f \in Events
    BY <1>0, <1>2, <2>1
  <2>3. Shape(steps')
    <3>1. CASE steps' = steps
      BY <3>1 DEF CallInv, Shaped
    <3>2. CASE steps' = <<Removal("return", c, e, f)>>
      BY <1>2, <2>1, <2>2, <3>2, ShapesOf
    <3> QED
      BY <1>6, <3>1, <3>2
  <2>4. Holds(steps') \subseteq {e} /\ \A d : ~Calling(d)' /\ ~Closing(d)'
    <3>1. CASE steps' = steps
      BY <1>4, <3>1 DEF Calling, Closing
    <3>2. CASE steps' = <<Removal("return", c, e, f)>>
      BY <3>2, Looks DEF Calling, Closing
    <3> QED
      BY <1>6, <3>1, <3>2
  <2>5. Typed' /\ Shaped'
    BY <1>1, <2>1, <2>3 DEF CallInv, Typed, Shaped
  <2>6. \A x : (OnceOf(x) => OnceOf(x)') /\ (x \in Waiting' => x \in Waiting)
    BY <1>1, <1>4, <2>1, <2>4 DEF OnceOf, Waiting
  <2>7. \A d \in Clients : Same(d)
    BY <1>1, <1>4, <2>4, <2>6 DEF Same, Carried
  <2> QED
    BY <2>5, <2>7, NoneMoves
<1> QED
  BY <1>1, <1>5, <1>6

LEMMA ReturnKeeps ==
  ASSUME CallInv, ReturnEvent
  PROVE  CallInv'
<1>0. PICK s, c, e, f : s = Head(steps) /\ c = s.client /\ e = s.packet /\ f = s.first
  OBVIOUS
<1>1. /\ steps # <<>> /\ s.do = "return" /\ UNCHANGED <<lwip, client, conn, stale, polls>>
      /\ queue' = Append(queue, e) /\ steps' = <<Removal("remove", c, Idle, f)>>
  BY <1>0 DEF ReturnEvent, Doing
<1>2. c \in Clients /\ e \in Events /\ f \in Events /\ queue \in Seq(Events)
  BY <1>0, <1>1, NextSteps DEF CallInv, Typed
<1>3. Holds(steps) = {e} /\ \A d : ~Calling(d) /\ ~Closing(d)
  BY <1>0, <1>1, Before
<1>4. Shape(steps') /\ Quiet(steps')
  BY <1>1, <1>2, ShapesOf, Looks
<1>5. Holds(steps') = {} /\ \A d : ~Calling(d)' /\ ~Closing(d)'
  BY <1>4 DEF Quiet, Calling, Closing
<1>6. /\ queue' \in Seq(Events)
      /\ \A x : x \in Range(queue') <=> x \in Range(queue) \/ x = e
      /\ \A x : Unique(queue, x) /\ (e = x => x \notin Range(queue)) => Unique(queue', x)
  BY <1>1, <1>2, PutBehind
<1>7. Typed' /\ Shaped'
  BY <1>1, <1>4, <1>6 DEF CallInv, Typed, Shaped
<1>8. \A x : (OnceOf(x) => OnceOf(x)') /\ (x \in Waiting' => x \in Waiting)
  BY <1>1, <1>3, <1>5, <1>6 DEF OnceOf, Waiting
<1>9. \A d \in Clients : Same(d)
  BY <1>1, <1>3, <1>5, <1>8 DEF Same, Carried
<1> QED
  BY <1>7, <1>9, NoneMoves

-----------------------------------------------------------------------------
(* The theorem.                                                             *)

LEMMA InitCallInv == Init => CallInv
<1> SUFFICES ASSUME Init PROVE CallInv
  OBVIOUS
<1>1. /\ queue = <<>> /\ lwip = Idle /\ steps = <<>> /\ polls = 0
      /\ client = [c \in Clients |-> NoClient] /\ conn = [c \in Clients |-> NoConnection]
      /\ stale = [c \in Clients |-> 0]
  BY DEF Init
<1>2. NoClient.pcb = FALSE /\ NoConnection.is = "none"
  BY DEF NoClient, NoConnection
<1>3. NoConnection \in ConnRecords
  BY DEF NoConnection, ConnRecords, ConnStates
<1>4. Typed
  <2>1. queue \in Seq(Events) /\ lwip \in Events \cup {Idle} /\ polls \in Nat
    BY <1>1
  <2>2. client \in [Clients -> ClientRecords] /\ conn \in [Clients -> ConnRecords]
    BY <1>1, <1>3, NewClient
  <2>3. stale \in [Clients -> Nat]
    BY <1>1
  <2> QED
    BY <2>1, <2>2, <2>3 DEF Typed
<1>5. Shaped
  BY <1>1 DEF Shaped, Shape
<1>6. Quiet(steps)
  BY <1>1, Looks
<1>7. Holds(steps) = {} /\ \A d : ~Calling(d) /\ ~Closing(d)
  BY <1>6 DEF Quiet, Calling, Closing
<1>8. \A x : x \notin Range(queue) /\ Unique(queue, x)
  BY <1>1 DEF Range, Unique
<1>9. ASSUME NEW c \in Clients PROVE OnceOf(Connected(c)) /\ Fine(c)
  <2>1. ~client[c].pcb /\ conn[c].is = "none" /\ stale[c] = 0
    BY <1>1, <1>2
  <2>2. Connected(c) \notin Waiting /\ Error(c) \notin Waiting /\ OnceOf(Connected(c))
    BY <1>1, <1>7, <1>8, EventsApart DEF Waiting, OnceOf
  <2>3. Fine(c)
    BY <1>7, <2>1, <2>2 DEF Fine, Fresh, Errors, Opening, Detached, Late, NoneStale, LastCall
  <2> QED
    BY <2>2, <2>3
<1> QED
  BY <1>4, <1>5, <1>9 DEF CallInv

LEMMA NextCallInv ==
  ASSUME CallInv, [Next]_vars
  PROVE  CallInv'
<1>1. CASE Lwip
  BY <1>1, ConnectKeeps, LookupKeeps, DnsKeeps, AcceptKeeps, EstablishedKeeps, DataKeeps, FinKeeps,
     ResetKeeps, DeliverKeeps DEF Lwip
<1>2. ASSUME NEW c \in Clients, Handle(c) PROVE CallInv'
  BY <1>2, QuietKeeps, AcceptHandled, RecvHandled, PollHandled, ConnectedHandled, ErrorHandled
  DEF Handle
<1>3. CASE Recved \/ Detach \/ Clear \/ Close \/ Discard \/ RemoveEvent \/ ReturnEvent
  BY <1>3, RecvedKeeps, DetachKeeps, ClearKeeps, CloseKeeps, DiscardKeeps, RemoveKeeps, ReturnKeeps
<1>4. CASE UNCHANGED vars
  <2>1. UNCHANGED <<queue, lwip, steps, client, conn, stale, polls>>
    BY <1>4 DEF vars, taskVars, history
  <2>2. Typed' /\ Shaped'
    BY <2>1 DEF CallInv, Typed, Shaped
  <2>3. \A d \in Clients : Same(d)
    BY <2>1 DEF Same, Carried, OnceOf, Waiting, Calling, Closing
  <2> QED
    BY <2>2, <2>3, NoneMoves
<1> QED
  BY <1>1, <1>2, <1>3, <1>4 DEF Next, Async

\* Lines 663-679: _pcb is tested, and used later by a call that lwIP's thread
\* does; however many clients and events, and however long the queue, when that
\* thread has closed the pcb at a FIN meanwhile, the call already begun is the
\* only one that is made on it.
THEOREM OneStaleCallOnly == Spec => []OneStaleCall
<1>1. CallInv /\ [Next]_vars => CallInv'
  BY NextCallInv
<1>2. CallInv => OneStaleCall
  BY DEF CallInv, Fine, LastCall, OneStaleCall
<1> QED
  BY InitCallInv, <1>1, <1>2, PTL DEF Spec

LEMMA IdleApart == \A e \in Events : e # Idle
<1>1. \A e \in Events : e.type \in EventTypes
  BY DEF Events
<1>2. Idle.type = "idle" /\ "idle" \notin EventTypes
  BY DEF Idle, EventTypes
<1> QED
  BY <1>1, <1>2

-----------------------------------------------------------------------------
(* The order of the events.  What has been taken out of the queue and put    *)
(* back, while the events of a client are removed, makes one line with what  *)
(* is still to be looked at.                                                *)

\* In the line, e may come before f: CONNECTED and ACCEPT come before all other
\* events of their client, ERROR after them, and so does FIN for an accepted one.
MayPrecede(e, f) ==
  /\ e # f
  /\ e.client = f.client => /\ ~InFront(f) /\ e.type # "ERROR"
                            /\ e.type = "FIN" => e.client \in Outgoing
                            /\ f.type = "RECV" => e.type # "FIN" /\ (e.type = "RECV" => e.n < f.n)

Sorted(q) == \A i, j \in 1..Len(q) : i < j => MayPrecede(q[i], q[j])

\* The first k events in the queue are still to be looked at and the others have
\* been returned: these come earlier in the line.
Earlier(i, j, k) == IF i <= k <=> j <= k THEN i < j ELSE j <= k

\* In the middle of a removal of c's events: H is the event held, if any, and f
\* the first that was kept.
Cut(q, H, c, f, k) ==
  /\ k \in 0..Len(q)
  /\ \A i, j \in 1..Len(q) : Earlier(i, j, k) => MayPrecede(q[i], q[j])
  /\ \A x \in H : \A i \in 1..Len(q) : IF i <= k THEN MayPrecede(x, q[i]) ELSE MayPrecede(q[i], x)
  /\ \A x \in H : ~Matches(x, c)
  /\ \A i \in 1..Len(q) : i > k => ~Matches(q[i], c)
  /\ f = Idle => k = Len(q) /\ H = {}
  /\ f # Idle => IF k < Len(q) THEN q[k + 1] = f ELSE H = {f}
HasCut(q, H, c, f) == \E k \in 0..Len(q) : Cut(q, H, c, f, k)

\* CLEAR, which the async task puts in front, has only new connections before it.
ClearFirst(q) == \A i, j \in 1..Len(q) : q[i].type = "CLEAR" /\ j < i => InFront(q[j])
NoClear(S) == \A e \in S : e.type # "CLEAR"

LEMMA FrontAt ==
  ASSUME NEW q \in Seq(Events), NEW e \in Events
  PROVE  LET r == <<e>> \o q IN
         /\ r \in Seq(Events) /\ Len(r) = Len(q) + 1 /\ r[1] = e
         /\ \A i \in 1..Len(r) : (i = 1 /\ r[i] = e) \/ (i - 1 \in 1..Len(q) /\ r[i] = q[i - 1])
<1> DEFINE s == <<e>>
           r == s \o q
<1>1. s \in Seq(Events) /\ Len(s) = 1 /\ s[1] = e
  OBVIOUS
<1>2. Len(q) \in Nat
  BY LenProperties
<1> HIDE DEF s
<1>3. /\ r \in Seq(Events) /\ Len(r) = Len(s) + Len(q)
      /\ \A i \in 1..(Len(s) + Len(q)) : r[i] = IF i <= Len(s) THEN s[i] ELSE q[i - Len(s)]
  BY <1>1, ConcatProperties
<1> HIDE DEF r
<1>4. /\ Len(r) = Len(q) + 1 /\ 1..Len(r) = 1..(Len(q) + 1)
      /\ \A i \in 1..(Len(q) + 1) : r[i] = IF i <= 1 THEN e ELSE q[i - 1]
  <2>1. Len(s) + Len(q) = Len(q) + 1
    BY <1>1, <1>2
  <2>2. ASSUME NEW i \in 1..(Len(q) + 1) PROVE r[i] = IF i <= 1 THEN e ELSE q[i - 1]
    <3>1. r[i] = IF i <= 1 THEN s[i] ELSE q[i - 1]
      BY <1>1, <1>3, <2>1
    <3>2. i <= 1 => i = 1
      BY <1>2
    <3> QED
      BY <1>1, <3>1, <3>2
  <2> QED
    BY <1>3, <2>1, <2>2
<1>5. \A i \in 1..Len(r) : (i = 1 /\ r[i] = e) \/ (i - 1 \in 1..Len(q) /\ r[i] = q[i - 1])
  BY <1>2, <1>4
<1>6. r[1] = e
  BY <1>2, <1>4
<1> QED
  BY <1>3, <1>4, <1>5, <1>6 DEF r, s

LEMMA BehindAt ==
  ASSUME NEW q \in Seq(Events), NEW e \in Events
  PROVE  LET r == Append(q, e) IN
         /\ r \in Seq(Events) /\ Len(q) \in Nat /\ Len(r) = Len(q) + 1 /\ r[Len(q) + 1] = e
         /\ \A i \in 1..Len(r) : (i = Len(q) + 1 /\ r[i] = e) \/ (i \in 1..Len(q) /\ r[i] = q[i])
<1> DEFINE r == Append(q, e)
<1>1. /\ r \in Seq(Events) /\ Len(r) = Len(q) + 1
      /\ \A i \in 1..Len(q) : r[i] = q[i]
      /\ r[Len(q) + 1] = e
  BY AppendProperties
<1>2. Len(q) \in Nat
  BY LenProperties
<1> HIDE DEF r
<1>3. \A i \in 1..Len(r) : i = Len(q) + 1 \/ i \in 1..Len(q)
  BY <1>1, <1>2
<1> QED
  BY <1>1, <1>2, <1>3 DEF r

LEMMA TailAt ==
  ASSUME NEW q \in Seq(Events), q # <<>>
  PROVE  LET r == Tail(q) IN
         /\ r \in Seq(Events) /\ Len(q) \in Nat /\ Len(q) > 0 /\ Len(r) = Len(q) - 1
         /\ Head(q) = q[1] /\ Head(q) \in Events
         /\ \A i \in 1..Len(r) : i + 1 \in 1..Len(q) /\ r[i] = q[i + 1]
<1>1. Len(q) \in Nat /\ Len(q) # 0 /\ Head(q) = q[1]
  BY LenProperties, EmptySeq
<1>2. /\ Head(q) \in Events /\ Tail(q) \in Seq(Events) /\ Len(Tail(q)) = Len(q) - 1
      /\ \A i \in 1..Len(Tail(q)) : Tail(q)[i] = q[i + 1]
  BY HeadTailProperties
<1>3. \A i \in 1..Len(Tail(q)) : i + 1 \in 1..Len(q)
  BY <1>1, <1>2
<1> QED
  BY <1>1, <1>2, <1>3

LEMMA SortedTail ==
  ASSUME NEW q \in Seq(Events), q # <<>>, Sorted(q)
  PROVE  Sorted(Tail(q)) /\ \A e \in Range(Tail(q)) : MayPrecede(Head(q), e)
<1> DEFINE r == Tail(q)
<1>1. /\ r \in Seq(Events) /\ Len(q) \in Nat /\ Len(q) > 0 /\ Len(r) = Len(q) - 1 /\ Head(q) = q[1]
      /\ \A i \in 1..Len(r) : i + 1 \in 1..Len(q) /\ r[i] = q[i + 1]
  BY TailAt
<1> HIDE DEF r
<1>2. ASSUME NEW i \in 1..Len(r), NEW j \in 1..Len(r), i < j PROVE MayPrecede(r[i], r[j])
  <2>1. i + 1 < j + 1
    BY <1>1, <1>2
  <2> QED
    BY <1>1, <2>1 DEF Sorted
<1>3. ASSUME NEW i \in 1..Len(r) PROVE MayPrecede(Head(q), r[i])
  <2>1. 1 \in 1..Len(q) /\ 1 < i + 1
    BY <1>1
  <2> QED
    BY <1>1, <2>1 DEF Sorted
<1>4. \A e \in Range(r) : \E i \in 1..Len(r) : e = r[i]
  BY <1>1, InQueue
<1>5. Sorted(r)
  BY <1>2 DEF Sorted
<1> QED
  BY <1>3, <1>4, <1>5 DEF r

LEMMA SortedFront ==
  ASSUME NEW q \in Seq(Events), NEW e \in Events, Sorted(q), \A x \in Range(q) : MayPrecede(e, x)
  PROVE  Sorted(<<e>> \o q)
<1> DEFINE r == <<e>> \o q
<1>1. /\ Len(r) = Len(q) + 1 /\ Len(q) \in Nat
      /\ \A i \in 1..Len(r) : (i = 1 /\ r[i] = e) \/ (i - 1 \in 1..Len(q) /\ r[i] = q[i - 1])
  BY FrontAt, LenProperties
<1>2. \A i \in 1..Len(q) : q[i] \in Range(q)
  BY InQueue
<1> HIDE DEF r
<1>3. ASSUME NEW i \in 1..Len(r), NEW j \in 1..Len(r), i < j PROVE MayPrecede(r[i], r[j])
  <2>1. j - 1 \in 1..Len(q) /\ r[j] = q[j - 1]
    BY <1>1, <1>3
  <2>2. CASE i = 1 /\ r[i] = e
    BY <1>2, <2>1, <2>2
  <2>3. CASE i - 1 \in 1..Len(q) /\ r[i] = q[i - 1]
    <3>1. i - 1 < j - 1
      BY <1>1, <1>3
    <3> QED
      BY <2>1, <2>3, <3>1 DEF Sorted
  <2> QED
    BY <1>1, <2>2, <2>3
<1>4. Sorted(r)
  BY <1>3 DEF Sorted
<1> QED
  BY <1>4 DEF r

LEMMA SortedBehind ==
  ASSUME NEW q \in Seq(Events), NEW e \in Events, Sorted(q), \A x \in Range(q) : MayPrecede(x, e)
  PROVE  Sorted(Append(q, e))
<1> DEFINE r == Append(q, e)
<1>1. /\ Len(r) = Len(q) + 1 /\ Len(q) \in Nat
      /\ \A i \in 1..Len(r) : (i = Len(q) + 1 /\ r[i] = e) \/ (i \in 1..Len(q) /\ r[i] = q[i])
  BY BehindAt
<1>2. \A i \in 1..Len(q) : q[i] \in Range(q)
  BY InQueue
<1> HIDE DEF r
<1>3. ASSUME NEW i \in 1..Len(r), NEW j \in 1..Len(r), i < j PROVE MayPrecede(r[i], r[j])
  <2>1. i \in 1..Len(q) /\ r[i] = q[i]
    BY <1>1, <1>3
  <2>2. CASE j = Len(q) + 1 /\ r[j] = e
    BY <1>2, <2>1, <2>2
  <2>3. CASE j \in 1..Len(q) /\ r[j] = q[j]
    BY <1>3, <2>1, <2>3 DEF Sorted
  <2> QED
    BY <1>1, <2>2, <2>3
<1>4. Sorted(r)
  BY <1>3 DEF Sorted
<1> QED
  BY <1>4 DEF r

\* A removal begins, and ends when the first event that was kept comes again.
LEMMA CutBegins ==
  ASSUME NEW q \in Seq(Events), NEW c, Sorted(q)
  PROVE  HasCut(q, {}, c, Idle)
<1>1. Len(q) \in Nat /\ Len(q) \in 0..Len(q)
  BY LenProperties
<1>2. \A i, j \in 1..Len(q) : Earlier(i, j, Len(q)) => i < j
  BY <1>1 DEF Earlier
<1>3. \A i \in 1..Len(q) : ~(i > Len(q))
  BY <1>1
<1>4. Cut(q, {}, c, Idle, Len(q))
  BY <1>1, <1>2, <1>3 DEF Cut, Sorted
<1> QED
  BY <1>1, <1>4 DEF HasCut

LEMMA CutEnds ==
  ASSUME NEW q \in Seq(Events), NEW c, NEW f, HasCut(q, {}, c, f), q = <<>> \/ Head(q) = f
  PROVE  Sorted(q) /\ \A e \in Range(q) : ~Matches(e, c)
<1>1. PICK k \in 0..Len(q) : Cut(q, {}, c, f, k)
  BY DEF HasCut
<1>2. Len(q) \in Nat /\ \A e \in Range(q) : \E i \in 1..Len(q) : e = q[i]
  BY InQueue
<1>3. k = 0
  <2>1. CASE q = <<>>
    BY <2>1
  <2>2. CASE q # <<>>
    <3>1. /\ Head(q) = q[1] /\ Head(q) \in Events /\ Len(q) > 0
      BY <2>2, TailAt
    <3>2. f # Idle
      BY <2>2, <3>1, IdleApart
    <3>3. k < Len(q) /\ q[k + 1] = f
      BY <1>1, <3>2 DEF Cut
    <3>4. SUFFICES ASSUME k # 0 PROVE FALSE
      OBVIOUS
    <3>5. k + 1 \in 1..Len(q) /\ 1 \in 1..Len(q) /\ Earlier(k + 1, 1, k)
      BY <1>2, <3>3, <3>4 DEF Earlier
    <3>6. MayPrecede(q[k + 1], q[1])
      BY <1>1, <3>5 DEF Cut
    <3> QED
      BY <2>2, <3>1, <3>3, <3>6 DEF MayPrecede
  <2> QED
    BY <2>1, <2>2
<1>4. \A i, j \in 1..Len(q) : i < j => Earlier(i, j, k)
  BY <1>2, <1>3 DEF Earlier
<1>5. \A i \in 1..Len(q) : i > k
  BY <1>2, <1>3
<1> QED
  BY <1>1, <1>2, <1>4, <1>5 DEF Cut, Sorted

\* An event is taken out: it is dropped, or held.
LEMMA CutTail ==
  ASSUME NEW q \in Seq(Events), NEW c, NEW f, HasCut(q, {}, c, f), q # <<>>, Head(q) # f
  PROVE  /\ HasCut(Tail(q), {}, c, f)
         /\ ~Matches(Head(q), c) =>
              HasCut(Tail(q), {Head(q)}, c, IF f = Idle THEN Head(q) ELSE f)
<1> DEFINE r == Tail(q)
           h == Head(q)
           g == IF f = Idle THEN h ELSE f
<1>1. PICK k \in 0..Len(q) : Cut(q, {}, c, f, k)
  BY DEF HasCut
<1>2. /\ r \in Seq(Events) /\ Len(q) \in Nat /\ Len(q) > 0 /\ Len(r) = Len(q) - 1
      /\ h = q[1] /\ h \in Events
      /\ \A i \in 1..Len(r) : i + 1 \in 1..Len(q) /\ r[i] = q[i + 1]
  BY TailAt
<1> HIDE DEF r, h
<1>3. k > 0 /\ (f # Idle => k < Len(q) /\ q[k + 1] = f)
  <2>1. f = Idle => k = Len(q)
    BY <1>1 DEF Cut
  <2>2. f # Idle => k < Len(q) /\ q[k + 1] = f
    BY <1>1 DEF Cut
  <2>3. f # Idle => k # 0
    BY <1>2, <2>2 DEF h
  <2> QED
    BY <1>2, <2>1, <2>2, <2>3
<1>4. k - 1 \in 0..Len(r)
  BY <1>2, <1>3
<1>5. ASSUME NEW i \in 1..Len(r), NEW j \in 1..Len(r), Earlier(i, j, k - 1)
      PROVE  MayPrecede(r[i], r[j])
  <2>1. Earlier(i + 1, j + 1, k)
    BY <1>2, <1>5 DEF Earlier
  <2> QED
    BY <1>1, <1>2, <2>1 DEF Cut
<1>6. ASSUME NEW i \in 1..Len(r), i > k - 1 PROVE ~Matches(r[i], c)
  <2>1. i + 1 > k
    BY <1>2, <1>6
  <2> QED
    BY <1>1, <1>2, <2>1 DEF Cut
<1>7. f = Idle => k - 1 = Len(r)
  BY <1>1, <1>2 DEF Cut
<1>8. f # Idle => k - 1 < Len(r) /\ r[(k - 1) + 1] = f
  <2> SUFFICES ASSUME f # Idle PROVE k - 1 < Len(r) /\ r[(k - 1) + 1] = f
    OBVIOUS
  <2>1. k \in 1..Len(r) /\ k - 1 < Len(r) /\ (k - 1) + 1 = k
    BY <1>2, <1>3
  <2> QED
    BY <1>2, <1>3, <2>1
<1>9. Cut(r, {}, c, f, k - 1)
  BY <1>4, <1>5, <1>6, <1>7, <1>8 DEF Cut
<1>10. ASSUME ~Matches(h, c) PROVE Cut(r, {h}, c, g, k - 1)
  <2>1. ASSUME NEW i \in 1..Len(r)
        PROVE  IF i <= k - 1 THEN MayPrecede(h, r[i]) ELSE MayPrecede(r[i], h)
    <3>1. 1 \in 1..Len(q) /\ i + 1 \in 1..Len(q) /\ r[i] = q[i + 1]
      BY <1>2
    <3>2. IF i <= k - 1 THEN Earlier(1, i + 1, k) ELSE Earlier(i + 1, 1, k)
      BY <1>2, <1>3 DEF Earlier
    <3> QED
      BY <1>1, <1>2, <3>1, <3>2 DEF Cut
  <2>2. g # Idle /\ (f = Idle => g = h)
    BY <1>2, IdleApart
  <2>3. IF k - 1 < Len(r) THEN r[(k - 1) + 1] = g ELSE {h} = {g}
    <3>1. CASE f = Idle
      BY <1>2, <1>4, <1>7, <2>2, <3>1
    <3>2. CASE f # Idle
      BY <1>8, <3>2
    <3> QED
      BY <3>1, <3>2
  <2> HIDE DEF g
  <2> QED
    BY <1>4, <1>5, <1>6, <1>10, <2>1, <2>2, <2>3 DEF Cut
<1> QED
  BY <1>4, <1>9, <1>10 DEF HasCut, r, h

\* The event held is put back.
LEMMA CutReturns ==
  ASSUME NEW q \in Seq(Events), NEW e \in Events, NEW c, NEW f, HasCut(q, {e}, c, f)
  PROVE  HasCut(Append(q, e), {}, c, f)
<1> DEFINE r == Append(q, e)
<1>1. PICK k \in 0..Len(q) : Cut(q, {e}, c, f, k)
  BY DEF HasCut
<1>2. /\ Len(r) = Len(q) + 1 /\ Len(q) \in Nat /\ r[Len(q) + 1] = e
      /\ \A i \in 1..Len(r) : (i = Len(q) + 1 /\ r[i] = e) \/ (i \in 1..Len(q) /\ r[i] = q[i])
  BY BehindAt
<1> HIDE DEF r
<1>3. f # Idle
  BY <1>1 DEF Cut
<1>4. k \in 0..Len(r)
  BY <1>2
<1>5. ASSUME NEW i \in 1..Len(r), NEW j \in 1..Len(r), Earlier(i, j, k)
      PROVE  MayPrecede(r[i], r[j])
  <2>1. CASE i \in 1..Len(q) /\ r[i] = q[i] /\ j \in 1..Len(q) /\ r[j] = q[j]
    BY <1>1, <1>5, <2>1 DEF Cut
  <2>2. CASE i = Len(q) + 1 /\ r[i] = e
    <3>1. j \in 1..Len(q) /\ j <= k
      BY <1>2, <1>5, <2>2 DEF Earlier
    <3>2. r[j] = q[j]
      BY <1>2, <3>1
    <3> QED
      BY <1>1, <2>2, <3>1, <3>2 DEF Cut
  <2>3. CASE i \in 1..Len(q) /\ r[i] = q[i] /\ j = Len(q) + 1 /\ r[j] = e
    <3>1. ~(i <= k)
      BY <1>2, <1>5, <2>3 DEF Earlier
    <3> QED
      BY <1>1, <2>3, <3>1 DEF Cut
  <2> QED
    BY <1>2, <2>1, <2>2, <2>3
<1>6. ASSUME NEW i \in 1..Len(r), i > k PROVE ~Matches(r[i], c)
  BY <1>1, <1>2, <1>6 DEF Cut
<1>7. k < Len(r) /\ r[k + 1] = f
  <2>1. CASE k < Len(q)
    BY <1>1, <1>2, <1>3, <2>1 DEF Cut
  <2>2. CASE ~(k < Len(q))
    <3>1. k = Len(q) /\ e = f
      BY <1>1, <1>2, <1>3, <2>2 DEF Cut
    <3> QED
      BY <1>2, <3>1
  <2> QED
    BY <2>1, <2>2
<1>8. Cut(r, {}, c, f, k)
  BY <1>3, <1>4, <1>5, <1>6, <1>7 DEF Cut
<1> QED
  BY <1>4, <1>8 DEF HasCut, r

LEMMA ClearTail ==
  ASSUME NEW q \in Seq(Events), q # <<>>, ClearFirst(q)
  PROVE  ClearFirst(Tail(q)) /\ (~InFront(Head(q)) => NoClear(Range(Tail(q))))
<1> DEFINE r == Tail(q)
<1>1. /\ r \in Seq(Events) /\ Len(q) \in Nat /\ Len(q) > 0 /\ Len(r) = Len(q) - 1 /\ Head(q) = q[1]
      /\ \A i \in 1..Len(r) : i + 1 \in 1..Len(q) /\ r[i] = q[i + 1]
  BY TailAt
<1> HIDE DEF r
<1>2. ASSUME NEW i \in 1..Len(r), NEW j \in 1..Len(r), r[i].type = "CLEAR", j < i
      PROVE  InFront(r[j])
  <2>1. j + 1 < i + 1
    BY <1>1, <1>2
  <2> QED
    BY <1>1, <1>2, <2>1 DEF ClearFirst
<1>3. ASSUME NEW i \in 1..Len(r), r[i].type = "CLEAR" PROVE InFront(Head(q))
  <2>1. 1 \in 1..Len(q) /\ 1 < i + 1
    BY <1>1
  <2> QED
    BY <1>1, <1>3, <2>1 DEF ClearFirst
<1>4. \A e \in Range(r) : \E i \in 1..Len(r) : e = r[i]
  BY <1>1, InQueue
<1>5. ClearFirst(r) /\ (~InFront(Head(q)) => NoClear(Range(r)))
  BY <1>2, <1>3, <1>4 DEF ClearFirst, NoClear
<1> QED
  BY <1>5 DEF r

LEMMA ClearFront ==
  ASSUME NEW q \in Seq(Events), NEW e \in Events, ClearFirst(q),
         InFront(e) \/ NoClear(Range(q))
  PROVE  ClearFirst(<<e>> \o q)
<1> DEFINE r == <<e>> \o q
<1>1. /\ Len(r) = Len(q) + 1 /\ Len(q) \in Nat
      /\ \A i \in 1..Len(r) : (i = 1 /\ r[i] = e) \/ (i - 1 \in 1..Len(q) /\ r[i] = q[i - 1])
  BY FrontAt, LenProperties
<1>2. \A i \in 1..Len(q) : q[i] \in Range(q)
  BY InQueue
<1> HIDE DEF r
<1>3. ASSUME NEW i \in 1..Len(r), NEW j \in 1..Len(r), r[i].type = "CLEAR", j < i
      PROVE  InFront(r[j])
  <2>1. i - 1 \in 1..Len(q) /\ q[i - 1].type = "CLEAR"
    BY <1>1, <1>3
  <2>2. InFront(e)
    BY <1>2, <2>1 DEF NoClear
  <2>3. CASE j = 1 /\ r[j] = e
    BY <2>2, <2>3
  <2>4. CASE j - 1 \in 1..Len(q) /\ r[j] = q[j - 1]
    <3>1. j - 1 < i - 1
      BY <1>1, <1>3
    <3> QED
      BY <2>1, <2>4, <3>1 DEF ClearFirst
  <2> QED
    BY <1>1, <2>3, <2>4
<1>4. ClearFirst(r)
  BY <1>3 DEF ClearFirst
<1> QED
  BY <1>4 DEF r

LEMMA ClearBehind ==
  ASSUME NEW q \in Seq(Events), NEW e \in Events, ClearFirst(q), e.type # "CLEAR"
  PROVE  ClearFirst(Append(q, e))
<1> DEFINE r == Append(q, e)
<1>1. /\ Len(r) = Len(q) + 1 /\ Len(q) \in Nat
      /\ \A i \in 1..Len(r) : (i = Len(q) + 1 /\ r[i] = e) \/ (i \in 1..Len(q) /\ r[i] = q[i])
  BY BehindAt
<1> HIDE DEF r
<1>2. ASSUME NEW i \in 1..Len(r), NEW j \in 1..Len(r), r[i].type = "CLEAR", j < i
      PROVE  InFront(r[j])
  <2>1. i \in 1..Len(q) /\ q[i].type = "CLEAR"
    BY <1>1, <1>2
  <2>2. j \in 1..Len(q) /\ r[j] = q[j]
    BY <1>1, <1>2, <2>1
  <2> QED
    BY <1>2, <2>1, <2>2 DEF ClearFirst
<1>3. ClearFirst(r)
  BY <1>2 DEF ClearFirst
<1> QED
  BY <1>3 DEF r

-----------------------------------------------------------------------------
(* The invariant.                                                           *)

\* The handler is one of c's events; it is about to tell c's user of the end; it
\* removes c's events.
Busy(s, c) == s # <<>> /\ Head(s).client = c
Finishing(s, c) == s \in {Ending(c), <<Step("discard", c, 0)>>}
Removes(s) == s # <<>> /\ Head(s).do \in {"remove", "return"}
RemovesOf(s, c) == Removes(s) /\ Head(s).client = c

InOrder ==
  IF Removes(steps)
  THEN HasCut(queue, Holds(steps), Head(steps).client, Head(steps).first)
  ELSE Sorted(queue)

\* The event that lwIP's thread has comes after all others of its client, or, if
\* it goes in front of the queue, is the first.
LwipLast ==
  lwip # Idle =>
    \A e \in Range(queue) \cup Holds(steps) :
      IF InFront(lwip) THEN e.client # lwip.client ELSE MayPrecede(e, lwip)

Clears ==
  /\ ClearFirst(queue) /\ lwip.type # "CLEAR"
  /\ steps # <<>> /\ Head(steps).do \notin {"close", "discard"} =>
       NoClear(Range(queue) \cup Holds(steps))

Of(c) == {e \in Waiting : e # Idle /\ e.client = c}
NoFront(c) == \A e \in Of(c) : ~InFront(e)
ClearOf(c) == Event("CLEAR", c, 0) \in Range(queue)

\* lwIP's thread will put no more events of c, and has none to put.
Mute(c) ==
  /\ ~client[c].attached \/ conn[c].is \in {"finished", "reset", "closed"}
  /\ lwip # Idle => lwip.client # c

\* The events of c are all removed before one of them can be handled.
Over(c) == Mute(c) /\ NoFront(c) /\ (ClearOf(c) \/ RemovesOf(steps, c) \/ Of(c) = {})

\* _pcb is not set any more, or was not set yet when the FIN came.
Unset(c) == c \in early \/ (~client[c].pcb /\ Connected(c) \notin Of(c))

NotBegun(c) ==
  conn[c].is \in {"none", "resolving", "opening"} =>
    Of(c) = {} /\ ~Busy(steps, c) /\ ~client[c].told
Accepted(c) ==
  c \notin Outgoing =>
    /\ conn[c].is \notin {"resolving", "resolved", "opening", "half"}
    /\ conn[c].is = "open" /\ client[c].attached => client[c].pcb
Numbered(c) ==
  \A e \in Of(c) : /\ e.type = "RECV" => e.n <= conn[c].sent
                   /\ e.type = "POLL" => e.n < polls
Finned(c) ==
  \A e \in Of(c) : e.type = "FIN" =>
    conn[c].is \in {"half", "finished", "reset", "closed"} /\ Unset(c)
InHand(c) ==
  /\ Busy(steps, c) => NoFront(c)
  /\ Finishing(steps, c) => Unset(c)
  /\ steps = Closing2(c) => ClearOf(c)
Told(c) == client[c].told => Unset(c)
Gone(c) ==
  LET deleted == ~client[c].exists /\ conn[c].is # "none" IN
  /\ deleted => c \notin Outgoing
  /\ c \notin Outgoing /\ (deleted \/ Finishing(steps, c)) => Over(c)

Ordered(c) ==
  NotBegun(c) /\ Accepted(c) /\ Numbered(c) /\ Finned(c) /\ InHand(c) /\ Told(c) /\ Gone(c)

Good == InOrder /\ LwipLast /\ Clears /\ strays = {} /\ \A c \in Clients : Ordered(c)
LineInv == ~raced => Good

\* What the handlers' steps are, and which ends of a handler are which.
LEMMA Phases ==
  /\ \A d : ~Busy(<<>>, d) /\ ~Finishing(<<>>, d) /\ <<>> # Closing2(d) /\ ~RemovesOf(<<>>, d)
  /\ ~Removes(<<>>)
  /\ \A s, d : Finishing(s, d) => /\ s # <<>> /\ Head(s).do \in {"clear", "discard"}
                                  /\ Head(s).client = d
  /\ \A s, d : s = Closing2(d) => s # <<>> /\ Head(s).do = "close" /\ Head(s).client = d
  /\ \A c, d : ~Finishing(Closing3(c), d)
<1>1. \A d : /\ Ending(d) # <<>> /\ Head(Ending(d)).do = "clear" /\ Head(Ending(d)).client = d
             /\ Len(Ending(d)) = 2
  BY DEF Ending, Step
<1>2. \A d : LET s == <<Step("discard", d, 0)>> IN
             s # <<>> /\ Head(s).do = "discard" /\ Head(s).client = d /\ Len(s) = 1
  BY DEF Step
<1>3. \A d : Closing2(d) # <<>> /\ Head(Closing2(d)).do = "close" /\ Head(Closing2(d)).client = d
  BY DEF Closing2, Step
<1>4. \A d : Len(Closing3(d)) = 3
  BY DEF Closing3
<1>5. \A s, d : Finishing(s, d) => /\ s # <<>> /\ Head(s).do \in {"clear", "discard"}
                                   /\ Head(s).client = d /\ Len(s) \in {1, 2}
  <2> SUFFICES ASSUME NEW s, NEW d, Finishing(s, d)
               PROVE  /\ s # <<>> /\ Head(s).do \in {"clear", "discard"}
                      /\ Head(s).client = d /\ Len(s) \in {1, 2}
    OBVIOUS
  <2>1. CASE s = Ending(d)
    BY <1>1, <2>1
  <2>2. CASE s = <<Step("discard", d, 0)>>
    BY <1>2, <2>2
  <2> QED
    BY <2>1, <2>2 DEF Finishing
<1>6. \A c, d : ~Finishing(Closing3(c), d)
  BY <1>4, <1>5
<1>7. /\ \A d : ~Busy(<<>>, d) /\ ~RemovesOf(<<>>, d)
      /\ ~Removes(<<>>)
  BY DEF Busy, RemovesOf, Removes
<1> QED
  BY <1>3, <1>5, <1>6, <1>7

LEMMA WaitingTyped ==
  ASSUME CallInv
  PROVE  /\ Range(queue) \subseteq Events /\ Holds(steps) \subseteq Events
         /\ \A c : Of(c) \subseteq Events
<1>1. queue \in Seq(Events) /\ lwip \in Events \cup {Idle}
  BY DEF CallInv, Typed
<1>2. Range(queue) \subseteq Events
  <2>1. \A i \in 1..Len(queue) : queue[i] \in Events
    BY <1>1, LenProperties
  <2> QED
    BY <1>1, <2>1, InQueue
<1>3. Holds(steps) \subseteq Events
  BY NextSteps DEF CallInv, Holds
<1> QED
  BY <1>1, <1>2, <1>3 DEF Of, Waiting

\* The step does nothing with c that matters, and may take away events of c.
Spared(c) ==
  /\ client'[c].pcb = client[c].pcb /\ client'[c].told = client[c].told
  /\ client'[c].exists = client[c].exists /\ (client'[c].attached => client[c].attached)
  /\ conn'[c].is = conn[c].is /\ conn'[c].sent >= conn[c].sent /\ polls' >= polls
  /\ early \subseteq early'
  /\ Of(c)' \subseteq Of(c)
  /\ Busy(steps', c) => Busy(steps, c)
  /\ Finishing(steps', c) => Finishing(steps, c)
  /\ steps' = Closing2(c) => steps = Closing2(c) /\ (ClearOf(c) => ClearOf(c)')
  /\ Over(c) => Over(c)'

LEMMA SparedOrdered ==
  ASSUME CallInv, Typed', NEW c \in Clients, Ordered(c), Spared(c)
  PROVE  Ordered(c)'
<1>1. NotBegun(c)' /\ Accepted(c)'
  BY DEF Ordered, Spared, NotBegun, Accepted
<1>2. Unset(c) => Unset(c)'
  BY DEF Spared, Unset
<1>3. Numbered(c)'
  <2> SUFFICES ASSUME NEW e \in Of(c)'
               PROVE  (e.type = "RECV" => e.n <= conn'[c].sent) /\ (e.type = "POLL" => e.n < polls')
    BY DEF Numbered
  <2>1. e \in Of(c)
    BY DEF Spared
  <2>2. (e.type = "RECV" => e.n <= conn[c].sent) /\ (e.type = "POLL" => e.n < polls)
    BY <2>1 DEF Ordered, Numbered
  <2>3. /\ conn[c].sent \in Nat /\ conn'[c].sent \in Nat /\ polls \in Nat /\ polls' \in Nat
    BY DEF CallInv, Typed, ConnRecords
  <2>4. e \in Events
    BY <2>1, WaitingTyped
  <2>5. e.n \in Nat
    BY <2>4 DEF Events
  <2> QED
    BY <2>2, <2>3, <2>5 DEF Spared
<1>4. Finned(c)'
  BY <1>2 DEF Ordered, Spared, Finned
<1>5. InHand(c)'
  BY <1>2 DEF Ordered, Spared, InHand, NoFront
<1>6. Told(c)'
  BY <1>2 DEF Ordered, Spared, Told
<1>7. Gone(c)'
  BY DEF Ordered, Spared, Gone
<1> QED
  BY <1>1, <1>3, <1>4, <1>5, <1>6, <1>7 DEF Ordered

LEMMA OverKept ==
  ASSUME NEW c \in Clients, Over(c), client'[c].attached => client[c].attached,
         conn'[c].is = conn[c].is, lwip' # Idle => lwip'.client # c \/ lwip' = lwip,
         Of(c)' \subseteq Of(c), ClearOf(c) => ClearOf(c)' \/ Of(c)' = {},
         RemovesOf(steps, c) => RemovesOf(steps', c) \/ Of(c)' = {}
  PROVE  Over(c)'
<1>1. Mute(c)'
  BY DEF Over, Mute
<1>2. NoFront(c)'
  BY DEF Over, NoFront
<1> QED
  BY <1>1, <1>2 DEF Over

LEMMA Changes ==
  ASSUME CallInv, Typed', Good, InOrder', LwipLast', Clears', strays' = {},
         NEW c \in Clients, Ordered(c)', \A d \in Clients : d # c => Spared(d)
  PROVE  Good'
<1>1. ASSUME NEW d \in Clients PROVE Ordered(d)'
  <2>1. CASE d = c
    BY <2>1
  <2>2. CASE d # c
    BY <2>2, SparedOrdered DEF Good
  <2> QED
    BY <2>1, <2>2
<1> QED
  BY <1>1 DEF Good

LEMMA NoChanges ==
  ASSUME CallInv, Typed', Good, InOrder', LwipLast', Clears', strays' = {},
         \A d \in Clients : Spared(d)
  PROVE  Good'
<1>1. \A d \in Clients : Ordered(d)'
  BY SparedOrdered DEF Good
<1> QED
  BY <1>1 DEF Good

-----------------------------------------------------------------------------
(* The order and the steps of lwIP's thread.                                *)

LEMMA NewEvent ==
  ASSUME CallInv, lwip = Idle, UNCHANGED <<queue, steps>>, NEW c \in Clients, NEW t, NEW n,
         lwip' \in {Event(t, c, n), Idle}
  PROVE  /\ \A d : d # c => Of(d)' = Of(d)
         /\ Of(c)' \subseteq Of(c) \cup {lwip'} /\ (lwip' = Idle => Of(c)' = Of(c))
         /\ \A d : ClearOf(d)' = ClearOf(d)
         /\ Idle \notin Of(c)'
<1>1. Waiting' \subseteq Waiting \cup {lwip'} /\ Waiting \subseteq Waiting' \cup {Idle}
  BY DEF Waiting
<1>2. lwip' # Idle => lwip'.client = c
  BY DEF Event
<1>3. \A d : d # c => Of(d)' = Of(d)
  BY <1>1, <1>2 DEF Of
<1>4. Of(c)' \subseteq Of(c) \cup {lwip'} /\ (lwip' = Idle => Of(c)' = Of(c)) /\ Idle \notin Of(c)'
  BY <1>1 DEF Of
<1> QED
  BY <1>3, <1>4 DEF ClearOf

LEMMA LwipStep ==
  ASSUME CallInv, Typed', Good, lwip = Idle, UNCHANGED <<queue, steps, strays>>, NEW c \in Clients,
         NEW t \in EventTypes \ {"CLEAR"}, NEW n, lwip' \in {Event(t, c, n), Idle},
         \A d \in Clients : d # c => client'[d] = client[d] /\ conn'[d] = conn[d],
         early \subseteq early', polls' \in {polls, polls + 1},
         lwip' # Idle => IF InFront(lwip') THEN Of(c) = {}
                         ELSE \A e \in Of(c) : MayPrecede(e, lwip'),
         Ordered(c)'
  PROVE  Good'
<1>1. InOrder' /\ strays' = {}
  BY DEF Good, InOrder
<1>2. /\ lwip' # Idle => lwip'.client = c /\ lwip'.type = t
      /\ Idle.type # "CLEAR"
  BY DEF Event, Idle
<1>3. Clears'
  BY <1>2 DEF Good, Clears
<1>4. LwipLast'
  <2> SUFFICES ASSUME lwip' # Idle, NEW e \in Range(queue) \cup Holds(steps)
               PROVE  IF InFront(lwip') THEN e.client # lwip'.client ELSE MayPrecede(e, lwip')
    BY DEF LwipLast
  <2>1. e \in Events /\ e # Idle /\ (e.client = c => e \in Of(c))
    BY WaitingTyped, IdleApart DEF Of, Waiting
  <2>2. e.client # c => e # lwip'
    BY <1>2
  <2> QED
    BY <1>2, <2>1, <2>2 DEF MayPrecede
<1>5. ASSUME NEW d \in Clients, d # c PROVE Spared(d)
  <2>1. Of(d)' = Of(d) /\ ClearOf(d)' = ClearOf(d)
    BY <1>5, NewEvent
  <2>2. Over(d) => Over(d)'
    BY <1>2, <1>5, <2>1, OverKept
  <2>3. conn[d].sent \in Nat /\ polls \in Nat
    BY DEF CallInv, Typed, ConnRecords
  <2>4. conn'[d].sent >= conn[d].sent /\ polls' >= polls
    BY <1>5, <2>3
  <2> QED
    BY <1>5, <2>1, <2>2, <2>4 DEF Spared
<1> QED
  BY <1>1, <1>3, <1>4, <1>5, Changes

\* A client that has no pcb yet, of which nothing waits.
LEMMA Beginning ==
  ASSUME NEW c \in Clients, Ordered(c), conn[c].is \in {"none", "resolving", "opening"}
  PROVE  Of(c) = {} /\ ~Busy(steps, c) /\ ~client[c].told /\ ~Finishing(steps, c) /\ steps # Closing2(c)
<1>1. Of(c) = {} /\ ~Busy(steps, c) /\ ~client[c].told
  BY DEF Ordered, NotBegun
<1> QED
  BY <1>1, Phases DEF Busy

\* It connects, or is accepted, and has at most that event.
LEMMA BegunOrdered ==
  ASSUME CallInv, NEW c \in Clients, Ordered(c), conn[c].is \in {"none", "resolving", "opening"},
         lwip = Idle, UNCHANGED <<queue, steps>>,
         NEW t \in {"DNS", "ACCEPT", "CONNECTED"}, lwip' \in {Event(t, c, 0), Idle},
         client'[c].exists, ~client'[c].told, Accepted(c)',
         conn'[c].is \in {"none", "resolving", "opening"} => lwip' = Idle
  PROVE  Ordered(c)'
<1>1. /\ Of(c) = {} /\ ~Busy(steps, c) /\ ~client[c].told /\ ~Finishing(steps, c)
      /\ steps # Closing2(c)
  BY Beginning
<1>2. Of(c)' \subseteq {lwip'} /\ Idle \notin Of(c)' /\ (lwip' = Idle => Of(c)' = {})
  BY <1>1, NewEvent
<1>3. \A e \in Of(c)' : e.type = t
  BY <1>2 DEF Event
<1>4. Numbered(c)' /\ Finned(c)'
  BY <1>3 DEF Numbered, Finned
<1>5. InHand(c)' /\ Told(c)' /\ Gone(c)'
  BY <1>1 DEF InHand, Told, Gone
<1> QED
  BY <1>1, <1>2, <1>4, <1>5 DEF Ordered, NotBegun

LEMMA ConnectLine ==
  ASSUME CallInv, Typed', Good, NEW c \in Clients, Connect(c) \/ Lookup(c)
  PROVE  Good'
<1>1. /\ lwip = Idle /\ lwip' = Idle /\ UNCHANGED <<queue, steps, strays, early, polls>>
      /\ c \in Outgoing /\ conn[c].is = "none"
  BY DEF Connect, Lookup, Callback
<1>2. client \in [Clients -> ClientRecords] /\ conn \in [Clients -> ConnRecords]
  BY DEF CallInv, Typed
<1>3. \A d \in Clients : d # c => client'[d] = client[d] /\ conn'[d] = conn[d]
  BY <1>2 DEF Connect, Lookup
<1>4. client'[c].exists /\ ~client'[c].told
  <2>1. CASE Connect(c)
    BY <1>2, <2>1 DEF Connect, NoClient
  <2>2. CASE Lookup(c)
    BY <1>2, <2>2 DEF Lookup, NoClient
  <2> QED
    BY <2>1, <2>2
<1>5. "DNS" \in EventTypes \ {"CLEAR"}
  BY DEF EventTypes
<1>6. Accepted(c)'
  BY <1>1 DEF Accepted
<1>7. Ordered(c)'
  BY <1>1, <1>4, <1>6, BegunOrdered DEF Good
<1> QED
  BY <1>1, <1>3, <1>5, <1>7, LwipStep

LEMMA DnsLine ==
  ASSUME CallInv, Typed', Good, NEW c \in Clients, DnsFound(c)
  PROVE  Good'
<1>1. /\ lwip = Idle /\ lwip' = Event("DNS", c, 0)
      /\ UNCHANGED <<queue, steps, client, strays, early, polls>>
      /\ conn[c].is = "resolving" /\ conn' = [conn EXCEPT ![c].is = "resolved"]
  BY DEF DnsFound, Callback
<1>2. conn \in [Clients -> ConnRecords]
  BY DEF CallInv, Typed
<1>3. conn'[c].is = "resolved" /\ \A d \in Clients : d # c => conn'[d] = conn[d]
  BY <1>1, <1>2 DEF ConnRecords
<1>4. Of(c) = {} /\ ~client[c].told
  BY <1>1, Beginning DEF Good
<1>5. "DNS" \in EventTypes \ {"CLEAR"} /\ ~InFront(lwip')
  BY <1>1 DEF EventTypes, InFront, Event
<1>6. c \in Outgoing /\ client[c].exists
  BY <1>1 DEF Good, Ordered, Accepted, Gone
<1>7. Ordered(c)'
  BY <1>1, <1>3, <1>4, <1>6, BegunOrdered DEF Good, Accepted
<1> QED
  BY <1>1, <1>3, <1>4, <1>5, <1>7, LwipStep

LEMMA AcceptLine ==
  ASSUME CallInv, Typed', Good, NEW c \in Clients, Accept(c)
  PROVE  Good'
<1>1. /\ lwip = Idle /\ lwip' = Event("ACCEPT", c, 0)
      /\ UNCHANGED <<queue, steps, strays, early, polls>>
      /\ conn[c].is = "none" /\ conn' = [conn EXCEPT ![c].is = "open"]
  BY DEF Accept, Callback
<1>2. client \in [Clients -> ClientRecords] /\ conn \in [Clients -> ConnRecords]
  BY DEF CallInv, Typed
<1>3. \A d \in Clients : d # c => client'[d] = client[d] /\ conn'[d] = conn[d]
  BY <1>2 DEF Accept
<1>4. /\ conn'[c].is = "open"
      /\ client'[c].exists /\ ~client'[c].told /\ client'[c].pcb
  BY <1>1, <1>2 DEF Accept, NoClient, ConnRecords
<1>5. Of(c) = {}
  BY <1>1, Beginning DEF Good
<1>6. "ACCEPT" \in EventTypes \ {"CLEAR"} /\ InFront(lwip')
  BY <1>1 DEF EventTypes, InFront, Event
<1>7. Ordered(c)'
  BY <1>1, <1>4, BegunOrdered DEF Good, Accepted
<1> QED
  BY <1>1, <1>3, <1>5, <1>6, <1>7, LwipStep

LEMMA EstablishedLine ==
  ASSUME CallInv, Typed', Good, NEW c \in Clients, Established(c)
  PROVE  Good'
<1>1. /\ lwip = Idle /\ lwip' \in {Event("CONNECTED", c, 0), Idle}
      /\ UNCHANGED <<queue, steps, client, strays, early, polls>>
      /\ conn[c].is = "opening" /\ conn' = [conn EXCEPT ![c].is = "open"]
  BY DEF Established, Callback, Put
<1>2. conn \in [Clients -> ConnRecords]
  BY DEF CallInv, Typed
<1>3. conn'[c].is = "open" /\ \A d \in Clients : d # c => conn'[d] = conn[d]
  BY <1>1, <1>2 DEF ConnRecords
<1>4. Of(c) = {} /\ ~client[c].told
  BY <1>1, Beginning DEF Good
<1>5. "CONNECTED" \in EventTypes \ {"CLEAR"} /\ (lwip' # Idle => InFront(lwip'))
  BY <1>1 DEF EventTypes, InFront, Event
<1>6. c \in Outgoing /\ client[c].exists
  BY <1>1 DEF Good, Ordered, Accepted, Gone
<1>7. Ordered(c)'
  BY <1>1, <1>3, <1>4, <1>6, BegunOrdered DEF Good, Accepted
<1> QED
  BY <1>1, <1>3, <1>4, <1>5, <1>7, LwipStep

\* An event of a client that is connected: none is put if its callbacks have been
\* removed, so that a client that is over stays so.
LEMMA PutOrdered ==
  ASSUME CallInv, Typed', NEW c \in Clients, Ordered(c), conn[c].is \in {"opening", "open", "half"},
         lwip = Idle, UNCHANGED <<queue, steps>>,
         NEW t \in {"RECV", "POLL", "FIN", "ERROR"}, NEW n, Put(c, t, n),
         client'[c].exists = client[c].exists, client'[c].told = client[c].told,
         client'[c].pcb => client[c].pcb, client'[c].attached => client[c].attached,
         early \subseteq early', conn'[c].is \in {"open", "half", "finished", "reset"},
         Accepted(c)', Numbered(c)',
         t # "FIN" => conn'[c].is \in {conn[c].is, "reset"},
         t = "FIN" => conn[c].is = "open",
         t = "FIN" /\ lwip' # Idle => conn'[c].is \in {"half", "finished"} /\ Unset(c)',
         conn[c].is \in {"opening", "open"} => \A e \in Of(c) : e.type # "FIN"
  PROVE  Ordered(c)'
<1>1. lwip' \in {Event(t, c, n), Idle} /\ (lwip' # Idle => client[c].attached)
  BY DEF Put
<1>2. /\ Of(c)' \subseteq Of(c) \cup {lwip'} /\ (lwip' = Idle => Of(c)' = Of(c))
      /\ ClearOf(c)' = ClearOf(c) /\ Idle \notin Of(c)'
  BY <1>1, NewEvent
<1>3. lwip' # Idle => lwip'.type = t /\ ~InFront(lwip') /\ lwip' # Connected(c)
  BY <1>1 DEF Event, InFront, Connected
<1>4. (NoFront(c) => NoFront(c)') /\ (Unset(c) => Unset(c)')
  BY <1>2, <1>3 DEF NoFront, Unset
<1>5. Over(c) => Over(c)'
  <2> SUFFICES ASSUME Over(c) PROVE Over(c)'
    OBVIOUS
  <2>1. ~client[c].attached /\ ~client'[c].attached
    BY DEF Over, Mute
  <2>2. lwip' = Idle
    BY <1>1, <2>1
  <2> QED
    BY <1>2, <1>4, <2>1, <2>2 DEF Over, Mute
<1>6. NotBegun(c)'
  BY DEF NotBegun
<1>7. Finned(c)'
  <2> SUFFICES ASSUME NEW e \in Of(c)', e.type = "FIN"
               PROVE  conn'[c].is \in {"half", "finished", "reset", "closed"} /\ Unset(c)'
    BY DEF Finned
  <2>1. CASE e = lwip'
    BY <1>2, <1>3, <2>1
  <2>2. CASE e \in Of(c)
    <3>1. conn[c].is = "half" /\ Unset(c)
      BY <2>2 DEF Ordered, Finned
    <3> QED
      BY <1>4, <2>2, <3>1 DEF Ordered, Finned
  <2> QED
    BY <1>2, <2>1, <2>2
<1>8. InHand(c)' /\ Told(c)' /\ Gone(c)'
  BY <1>2, <1>4, <1>5 DEF Ordered, InHand, Told, Gone
<1> QED
  BY <1>6, <1>7, <1>8 DEF Ordered

LEMMA NoFinYet ==
  ASSUME NEW c \in Clients, Ordered(c), conn[c].is \in {"opening", "open"}
  PROVE  \A e \in Of(c) : e.type # "FIN"
BY DEF Ordered, Finned

\* What waits of a client whose pcb lwIP still has is not an ERROR.
LEMMA NoErrorYet ==
  ASSUME CallInv, NEW c \in Clients, conn[c].is # "reset"
  PROVE  \A e \in Of(c) : e.type # "ERROR"
<1> SUFFICES ASSUME NEW e \in Of(c), e.type = "ERROR" PROVE FALSE
  OBVIOUS
<1>1. e \in Events /\ e \in Waiting /\ e.client = c
  BY WaitingTyped DEF Of
<1>2. e = Error(c)
  BY <1>1, EventIs DEF Error
<1> QED
  BY <1>1, <1>2 DEF CallInv, Fine, Errors

LEMMA DataLine ==
  ASSUME CallInv, Typed', Good, NEW c \in Clients, Data(c)
  PROVE  Good'
<1>1. /\ lwip = Idle /\ Put(c, "RECV", conn[c].sent + 1)
      /\ UNCHANGED <<queue, steps, client, strays, early, polls>>
      /\ conn[c].is = "open" /\ conn' = [conn EXCEPT ![c].sent = @ + 1, ![c].window = @ + 1]
  BY DEF Data, Callback
<1>2. conn \in [Clients -> ConnRecords] /\ conn[c].sent \in Nat
  BY DEF CallInv, Typed, ConnRecords
<1>3. /\ conn'[c].is = "open" /\ conn'[c].sent = conn[c].sent + 1
      /\ \A d \in Clients : d # c => conn'[d] = conn[d]
  BY <1>1, <1>2 DEF ConnRecords
<1>4. lwip' \in {Event("RECV", c, conn[c].sent + 1), Idle}
  BY <1>1 DEF Put
<1>5. lwip' # Idle => lwip'.type = "RECV" /\ lwip'.n = conn[c].sent + 1 /\ ~InFront(lwip')
  BY <1>4 DEF Event, InFront
<1>6. /\ Of(c)' \subseteq Of(c) \cup {lwip'} /\ (lwip' = Idle => Of(c)' = Of(c))
      /\ Idle \notin Of(c)'
  BY <1>1, <1>4, NewEvent
<1>7. Ordered(c)
  BY DEF Good
<1>8. ASSUME NEW e \in Of(c)
      PROVE  /\ e.type = "RECV" => /\ e.n <= conn[c].sent /\ e.n <= conn[c].sent + 1
                                /\ e.n < conn[c].sent + 1
             /\ e.type = "POLL" => e.n < polls
  <2>1. e.n \in Nat
    BY WaitingTyped DEF Events
  <2> QED
    BY <1>2, <1>7, <2>1 DEF Ordered, Numbered
<1>9. Numbered(c)'
  BY <1>1, <1>2, <1>3, <1>5, <1>6, <1>8 DEF Numbered
<1>10. ASSUME lwip' # Idle, NEW e \in Of(c) PROVE MayPrecede(e, lwip')
  <2>1. e # lwip'
    BY <1>2, <1>5, <1>8, <1>10
  <2>2. e.type # "ERROR" /\ e.type # "FIN"
    BY <1>1, <1>7, NoErrorYet, NoFinYet
  <2>3. e.type = "RECV" => e.n < lwip'.n
    BY <1>5, <1>8, <1>10
  <2> QED
    BY <1>5, <1>10, <2>1, <2>2, <2>3 DEF MayPrecede
<1>11. Accepted(c)'
  BY <1>1, <1>3, <1>7 DEF Ordered, Accepted
<1>12. Ordered(c)'
  BY <1>1, <1>3, <1>7, <1>9, <1>11, PutOrdered, NoFinYet
<1>13. "RECV" \in EventTypes \ {"CLEAR"}
  BY DEF EventTypes
<1>14. PICK n : lwip' \in {Event("RECV", c, n), Idle}
  BY <1>4
<1>15. early \subseteq early' /\ polls' \in {polls, polls + 1}
  BY <1>1
<1>16. \A d \in Clients : d # c => client'[d] = client[d] /\ conn'[d] = conn[d]
  BY <1>1, <1>3
<1>17. lwip' # Idle => IF InFront(lwip') THEN Of(c) = {} ELSE \A e \in Of(c) : MayPrecede(e, lwip')
  BY <1>5, <1>10
<1>18. lwip = Idle /\ UNCHANGED <<queue, steps, strays>>
  BY <1>1
<1> QED
  BY <1>12, <1>13, <1>14, <1>15, <1>16, <1>17, <1>18, LwipStep

LEMMA PollLine ==
  ASSUME CallInv, Typed', Good, NEW c \in Clients, PollTimer(c)
  PROVE  Good'
<1>1. /\ lwip = Idle /\ Put(c, "POLL", polls)
      /\ UNCHANGED <<queue, steps, client, conn, strays, early>>
      /\ conn[c].is \in {"open", "half"} /\ polls' = polls + 1
  BY DEF PollTimer, Callback
<1>2. polls \in Nat
  BY DEF CallInv, Typed
<1>3. lwip' \in {Event("POLL", c, polls), Idle}
  BY <1>1 DEF Put
<1>4. lwip' # Idle => lwip'.type = "POLL" /\ lwip'.n = polls /\ ~InFront(lwip')
  BY <1>3 DEF Event, InFront
<1>5. /\ Of(c)' \subseteq Of(c) \cup {lwip'} /\ (lwip' = Idle => Of(c)' = Of(c))
      /\ Idle \notin Of(c)'
  BY <1>1, <1>3, NewEvent
<1>6. Ordered(c)
  BY DEF Good
<1>7. ASSUME NEW e \in Of(c)
      PROVE  /\ e.type = "RECV" => e.n <= conn[c].sent
             /\ e.type = "POLL" => e.n < polls /\ e.n < polls + 1 /\ e.n # polls
  <2>1. e.n \in Nat
    BY WaitingTyped DEF Events
  <2> QED
    BY <1>2, <1>6, <2>1 DEF Ordered, Numbered
<1>8. Numbered(c)'
  BY <1>1, <1>2, <1>4, <1>5, <1>7 DEF Numbered
<1>9. ASSUME lwip' # Idle, NEW e \in Of(c) PROVE MayPrecede(e, lwip')
  <2>1. e # lwip'
    BY <1>4, <1>7, <1>9
  <2>2. e.type # "ERROR"
    BY <1>1, NoErrorYet
  <2>3. e.type = "FIN" => e.client \in Outgoing
    <3>1. e.client = c
      BY DEF Of
    <3>2. c \notin Outgoing => conn[c].is = "open"
      BY <1>1, <1>6 DEF Ordered, Accepted
    <3> QED
      BY <1>6, <3>1, <3>2, NoFinYet
  <2> QED
    BY <1>4, <1>9, <2>1, <2>2, <2>3 DEF MayPrecede
<1>10. Accepted(c)'
  BY <1>1, <1>6 DEF Ordered, Accepted
<1>11. Ordered(c)'
  BY <1>1, <1>6, <1>8, <1>10, PutOrdered, NoFinYet
<1>12. "POLL" \in EventTypes \ {"CLEAR"}
  BY DEF EventTypes
<1> QED
  BY <1>1, <1>3, <1>4, <1>9, <1>11, <1>12, LwipStep

LEMMA FinLine ==
  ASSUME CallInv, Typed', Good, NEW c \in Clients, Fin(c)
  PROVE  Good'
<1> DEFINE closes == client[c].pcb \/ ~client[c].attached
<1>1. /\ lwip = Idle /\ Put(c, "FIN", 0) /\ conn[c].is = "open"
      /\ UNCHANGED <<queue, steps, strays, polls>>
      /\ early' = IF closes THEN early ELSE early \cup {c}
      /\ conn' = [conn EXCEPT ![c].is = IF closes THEN "finished" ELSE "half"]
      /\ client' = IF client[c].pcb /\ client[c].attached
                   THEN [client EXCEPT ![c] = Finished(c)] ELSE client
  BY DEF Fin, Callback
<1>2. client \in [Clients -> ClientRecords] /\ conn \in [Clients -> ConnRecords]
  BY DEF CallInv, Typed
<1>3. /\ conn'[c].is = (IF closes THEN "finished" ELSE "half") /\ conn'[c].sent = conn[c].sent
      /\ \A d \in Clients : d # c => conn'[d] = conn[d]
  BY <1>1, <1>2 DEF ConnRecords
<1>4. /\ \A d \in Clients : d # c => client'[d] = client[d]
      /\ client'[c].exists = client[c].exists /\ client'[c].told = client[c].told
      /\ client[c].pcb /\ client[c].attached => ~client'[c].pcb /\ ~client'[c].attached
      /\ ~(client[c].pcb /\ client[c].attached) => client' = client
  BY <1>1, <1>2 DEF Finished, ClientRecords
<1>5. lwip' \in {Event("FIN", c, 0), Idle} /\ (lwip' # Idle => client[c].attached)
  BY <1>1 DEF Put
<1>6. lwip' # Idle => lwip'.type = "FIN" /\ ~InFront(lwip')
  BY <1>5 DEF Event, InFront
<1>7. /\ Of(c)' \subseteq Of(c) \cup {lwip'} /\ (lwip' = Idle => Of(c)' = Of(c))
      /\ Idle \notin Of(c)'
  BY <1>1, <1>5, NewEvent
<1>8. Ordered(c)
  BY DEF Good
<1>9. Numbered(c)'
  BY <1>1, <1>3, <1>6, <1>7, <1>8 DEF Ordered, Numbered
<1>10. ASSUME lwip' # Idle, NEW e \in Of(c) PROVE MayPrecede(e, lwip')
  <2>1. e.type # "ERROR" /\ e.type # "FIN"
    BY <1>1, <1>8, NoErrorYet, NoFinYet
  <2> QED
    BY <1>6, <1>10, <2>1 DEF MayPrecede
<1>11. Accepted(c)'
  BY <1>1, <1>3, <1>8 DEF Ordered, Accepted
<1>12. lwip' # Idle => conn'[c].is \in {"half", "finished"} /\ Unset(c)'
  <2> SUFFICES ASSUME lwip' # Idle PROVE Unset(c)'
    BY <1>3
  <2>1. CASE client[c].pcb
    <3>1. ~client'[c].pcb
      BY <1>4, <1>5, <2>1
    <3>2. Connected(c) \notin Of(c)
      BY <2>1 DEF CallInv, Fine, Fresh, Of
    <3>3. Connected(c) # lwip'
      BY <1>6 DEF Connected, Event
    <3> QED
      BY <1>7, <3>1, <3>2, <3>3 DEF Unset
  <2>2. CASE ~client[c].pcb
    BY <1>1, <1>5, <2>2 DEF Unset
  <2> QED
    BY <2>1, <2>2
<1>13. Ordered(c)'
  <2>1. /\ client'[c].pcb => client[c].pcb
        /\ client'[c].attached => client[c].attached
    BY <1>4
  <2>2. early \subseteq early' /\ conn'[c].is \in {"open", "half", "finished", "reset"}
    BY <1>1, <1>3
  <2> QED
    BY <1>1, <1>4, <1>8, <1>9, <1>11, <1>12, <2>1, <2>2, PutOrdered, NoFinYet
<1>14. "FIN" \in EventTypes \ {"CLEAR"}
  BY DEF EventTypes
<1>15. early \subseteq early'
  BY <1>1
<1> QED
  BY <1>1, <1>3, <1>4, <1>5, <1>6, <1>10, <1>13, <1>14, <1>15, LwipStep

LEMMA ResetLine ==
  ASSUME CallInv, Typed', Good, NEW c \in Clients, Reset(c)
  PROVE  Good'
<1>1. /\ lwip = Idle /\ Put(c, "ERROR", 0) /\ conn[c].is \in {"opening", "open", "half"}
      /\ UNCHANGED <<queue, steps, client, strays, early, polls>>
      /\ conn' = [conn EXCEPT ![c].is = "reset"]
  BY DEF Reset, Callback
<1>2. conn \in [Clients -> ConnRecords]
  BY DEF CallInv, Typed
<1>3. /\ conn'[c].is = "reset" /\ conn'[c].sent = conn[c].sent
      /\ \A d \in Clients : d # c => conn'[d] = conn[d]
  BY <1>1, <1>2 DEF ConnRecords
<1>4. lwip' \in {Event("ERROR", c, 0), Idle}
  BY <1>1 DEF Put
<1>5. lwip' # Idle => lwip'.type = "ERROR" /\ ~InFront(lwip')
  BY <1>4 DEF Event, InFront
<1>6. /\ Of(c)' \subseteq Of(c) \cup {lwip'} /\ (lwip' = Idle => Of(c)' = Of(c))
      /\ Idle \notin Of(c)'
  BY <1>1, <1>4, NewEvent
<1>7. Ordered(c)
  BY DEF Good
<1>8. Numbered(c)'
  BY <1>1, <1>3, <1>5, <1>6, <1>7 DEF Ordered, Numbered
<1>9. ASSUME lwip' # Idle, NEW e \in Of(c) PROVE MayPrecede(e, lwip')
  <2>1. e.type # "ERROR"
    BY <1>1, NoErrorYet
  <2>2. e.type = "FIN" => e.client \in Outgoing
    <3>1. e.client = c
      BY DEF Of
    <3>2. c \notin Outgoing => conn[c].is = "open"
      BY <1>1, <1>7 DEF Ordered, Accepted
    <3> QED
      BY <1>7, <3>1, <3>2, NoFinYet
  <2> QED
    BY <1>5, <1>9, <2>1, <2>2 DEF MayPrecede
<1>10. Accepted(c)'
  BY <1>3 DEF Accepted
<1>11. Ordered(c)'
  BY <1>1, <1>3, <1>7, <1>8, <1>10, PutOrdered, NoFinYet
<1>12. "ERROR" \in EventTypes \ {"CLEAR"}
  BY DEF EventTypes
<1> QED
  BY <1>1, <1>3, <1>4, <1>5, <1>9, <1>11, <1>12, LwipStep

\* The queue is not being turned round, or the order is lost.
LEMMA DeliverLine ==
  ASSUME CallInv, Typed', Good, ~Removing, Deliver
  PROVE  Good'
<1>1. /\ lwip # Idle /\ lwip' = Idle
      /\ queue' = IF InFront(lwip) THEN <<lwip>> \o queue ELSE Append(queue, lwip)
      /\ UNCHANGED <<steps, client, conn, strays, early, polls>>
  BY DEF Deliver
<1>2. queue \in Seq(Events) /\ lwip \in Events
  BY <1>1 DEF CallInv, Typed
<1>3. ~Removes(steps) /\ Sorted(queue) /\ ClearFirst(queue) /\ lwip.type # "CLEAR"
  BY DEF Good, InOrder, Removing, Removes, Clears
<1>4. \A x : x \in Range(queue') <=> x \in Range(queue) \/ x = lwip
  BY <1>1, <1>2, PutInFront, PutBehind
<1>5. Sorted(queue') /\ ClearFirst(queue')
  <2>1. CASE InFront(lwip)
    <3>1. \A x \in Range(queue) : MayPrecede(lwip, x)
      <4> TAKE x \in Range(queue)
      <4>1. x.client # lwip.client
        BY <1>1, <2>1 DEF Good, LwipLast
      <4> QED
        BY <4>1 DEF MayPrecede
    <3> QED
      BY <1>1, <1>2, <1>3, <2>1, <3>1, SortedFront, ClearFront
  <2>2. CASE ~InFront(lwip)
    <3>1. \A x \in Range(queue) : MayPrecede(x, lwip)
      BY <1>1, <2>2 DEF Good, LwipLast
    <3> QED
      BY <1>1, <1>2, <1>3, <2>2, <3>1, SortedBehind, ClearBehind
  <2> QED
    BY <2>1, <2>2
<1>6. InOrder' /\ LwipLast'
  BY <1>1, <1>3, <1>5 DEF InOrder, LwipLast
<1>7. Clears'
  <2>1. lwip'.type # "CLEAR"
    BY <1>1 DEF Idle
  <2>2. NoClear(Range(queue) \cup Holds(steps)) => NoClear(Range(queue') \cup Holds(steps'))
    BY <1>1, <1>3, <1>4 DEF NoClear
  <2> QED
    BY <1>1, <1>5, <2>1, <2>2 DEF Good, Clears
<1>8. Waiting' \ {Idle} = Waiting \ {Idle}
  BY <1>1, <1>4 DEF Waiting
<1>9. ASSUME NEW d \in Clients PROVE Spared(d)
  <2>1. Of(d)' = Of(d) /\ (ClearOf(d) => ClearOf(d)')
    BY <1>4, <1>8 DEF Of, ClearOf
  <2>2. Over(d) => Over(d)'
    BY <1>1, <2>1, OverKept
  <2>3. conn[d].sent \in Nat /\ polls \in Nat
    BY DEF CallInv, Typed, ConnRecords
  <2> QED
    BY <1>1, <2>1, <2>2, <2>3 DEF Spared
<1> QED
  BY <1>1, <1>6, <1>7, <1>9, NoChanges DEF Good

-----------------------------------------------------------------------------
(* The order and the events that the async task takes.                      *)

\* No event of a client that has been deleted comes to the front.
LEMMA TookExisting ==
  ASSUME CallInv, Good, NEW c \in Clients, NEW t, Taking(t, c), t # "CLEAR"
  PROVE  client[c].exists
<1> SUFFICES ASSUME ~client[c].exists PROVE FALSE
  OBVIOUS
<1>1. /\ steps = <<>> /\ queue # <<>> /\ queue \in Seq(Events)
      /\ Head(queue).type = t /\ Head(queue).client = c
  BY DEF Taking, CallInv, Typed
<1>2. Head(queue) \in Events /\ Head(queue) \in Of(c)
  BY <1>1, TakeAway, IdleApart DEF Of, Waiting
<1>3. Ordered(c) /\ conn[c].is # "none"
  BY <1>2 DEF Good, Ordered, NotBegun
<1>4. Over(c)
  BY <1>3 DEF Ordered, Gone
<1>5. ~InFront(Head(queue)) /\ ~RemovesOf(steps, c)
  BY <1>1, <1>2, <1>4, Phases DEF Over, NoFront
<1>6. Event("CLEAR", c, 0) \in Range(Tail(queue))
  <2>1. Head(queue) # Event("CLEAR", c, 0)
    BY <1>1 DEF Event
  <2> QED
    BY <1>1, <1>2, <1>4, <1>5, <2>1, TakeAway DEF Over, ClearOf
<1>7. NoClear(Range(Tail(queue)))
  BY <1>1, <1>5, ClearTail DEF Good, Clears
<1> QED
  BY <1>6, <1>7 DEF NoClear, Event

LEMMA Took ==
  ASSUME CallInv, Good, NEW c \in Clients, NEW t, Taking(t, c), Holds(steps') = {}
  PROVE  /\ steps = <<>> /\ UNCHANGED <<lwip, conn, early, polls>>
         /\ Sorted(queue') /\ ClearFirst(queue')
         /\ t \notin {"ACCEPT", "CONNECTED"} => NoClear(Range(queue'))
         /\ LwipLast' /\ strays' = {}
         /\ \A d : Of(d)' \subseteq Of(d)
         /\ \A d : (d # c \/ t # "CLEAR") /\ ClearOf(d) => ClearOf(d)'
         /\ \E e \in Of(c) : /\ e.type = t /\ e \notin Of(c)'
                             /\ \A f \in Of(c)' : MayPrecede(e, f)
         /\ conn[c].is \notin {"none", "resolving", "opening"}
<1> DEFINE e == Head(queue)
<1>1. /\ steps = <<>> /\ queue # <<>> /\ queue' = Tail(queue) /\ e.type = t /\ e.client = c
      /\ UNCHANGED <<lwip, conn, early, polls>>
      /\ strays' = IF client[c].exists \/ t = "CLEAR" THEN strays ELSE strays \cup {c}
  BY DEF Taking
<1>2. queue \in Seq(Events)
  BY DEF CallInv, Typed
<1>3. e \in Events /\ \A x : x \in Range(queue) <=> x \in Range(queue') \/ x = e
  BY <1>1, <1>2, TakeAway
<1> HIDE DEF e
<1>4. Sorted(queue) /\ ClearFirst(queue) /\ LwipLast /\ strays = {}
  BY <1>1, Phases DEF Good, InOrder, Clears
<1>5. Sorted(queue') /\ \A f \in Range(queue') : MayPrecede(e, f)
  BY <1>1, <1>2, <1>4, SortedTail DEF e
<1>6. ClearFirst(queue') /\ (t \notin {"ACCEPT", "CONNECTED"} => NoClear(Range(queue')))
  BY <1>1, <1>2, <1>4, ClearTail DEF e, InFront
<1>7. LwipLast' /\ strays' = {}
  BY <1>1, <1>3, <1>4, TookExisting DEF LwipLast
<1>8. Waiting' \subseteq Waiting /\ Waiting' = Range(queue') \cup {lwip} /\ e \in Waiting
  BY <1>1, <1>3 DEF Waiting
<1>9. \A d : Of(d)' \subseteq Of(d)
  BY <1>8 DEF Of
<1>10. ASSUME NEW d, d # c \/ t # "CLEAR", ClearOf(d) PROVE ClearOf(d)'
  <2>1. Event("CLEAR", d, 0) # e
    BY <1>1, <1>10 DEF Event
  <2> QED
    BY <1>3, <1>10, <2>1 DEF ClearOf
<1>11. e \in Of(c)
  BY <1>1, <1>3, <1>8, IdleApart DEF Of
<1>12. ASSUME NEW f \in Of(c)' PROVE MayPrecede(e, f)
  <2>1. f # Idle /\ f.client = c /\ f \in Waiting'
    BY DEF Of
  <2>2. CASE f \in Range(queue')
    BY <1>5, <2>2
  <2>3. CASE f = lwip
    BY <1>1, <1>3, <1>4, <2>1, <2>3 DEF LwipLast
  <2> QED
    BY <1>8, <2>1, <2>2, <2>3
<1>13. e \notin Of(c)'
  BY <1>12 DEF MayPrecede
<1>14. conn[c].is \notin {"none", "resolving", "opening"}
  BY <1>11 DEF Good, Ordered, NotBegun
<1> QED
  BY <1>1, <1>5, <1>6, <1>7, <1>9, <1>10, <1>11, <1>12, <1>13, <1>14

LEMMA TookLine ==
  ASSUME CallInv, Typed', Good, NEW c \in Clients, NEW t, Taking(t, c), Holds(steps') = {},
         \A d \in Clients : d # c => client'[d] = client[d],
         \/ steps' = <<>>
         \/ steps' # <<>> /\ Head(steps').client = c /\ t \notin {"ACCEPT", "CONNECTED"},
         Removes(steps') => HasCut(queue', {}, Head(steps').client, Head(steps').first),
         Ordered(c)'
  PROVE  Good'
<1>1. /\ steps = <<>> /\ UNCHANGED <<lwip, conn, early, polls>>
      /\ Sorted(queue') /\ ClearFirst(queue')
      /\ t \notin {"ACCEPT", "CONNECTED"} => NoClear(Range(queue'))
      /\ LwipLast' /\ strays' = {}
      /\ \A d : Of(d)' \subseteq Of(d)
      /\ \A d : (d # c \/ t # "CLEAR") /\ ClearOf(d) => ClearOf(d)'
  BY Took
<1>2. InOrder'
  BY <1>1 DEF InOrder
<1>3. Clears'
  BY <1>1 DEF Good, Clears, NoClear
<1>4. ASSUME NEW d \in Clients, d # c PROVE Spared(d)
  <2>1. ~Busy(steps', d) /\ ~Finishing(steps', d) /\ steps' # Closing2(d)
    BY <1>4, Phases DEF Busy
  <2>2. Over(d) => Over(d)'
    BY <1>1, <1>4, OverKept, Phases
  <2>3. conn[d].sent \in Nat /\ polls \in Nat
    BY DEF CallInv, Typed, ConnRecords
  <2> QED
    BY <1>1, <1>4, <2>1, <2>2, <2>3 DEF Spared
<1> QED
  BY <1>1, <1>2, <1>3, <1>4, Changes

\* A handler that leaves alone what matters of its client here.
LEMMA TookOrdered ==
  ASSUME CallInv, Good, NEW c \in Clients, NEW t, Taking(t, c), t # "CLEAR", Holds(steps') = {},
         client'[c].pcb = client[c].pcb, client'[c].told = client[c].told,
         client'[c].exists = client[c].exists, client'[c].attached = client[c].attached,
         ~Finishing(steps', c), steps' # Closing2(c)
  PROVE  Ordered(c)'
<1>1. /\ UNCHANGED <<conn, early, polls>> /\ Of(c)' \subseteq Of(c)
      /\ conn[c].is \notin {"none", "resolving", "opening"}
      /\ \E e \in Of(c) : \A f \in Of(c)' : MayPrecede(e, f)
  BY Took
<1>2. Ordered(c) /\ client[c].exists
  BY TookExisting DEF Good
<1>3. NoFront(c)'
  BY <1>1 DEF NoFront, MayPrecede, Of
<1>4. Unset(c) => Unset(c)'
  BY <1>1 DEF Unset
<1>5. NotBegun(c)' /\ Accepted(c)' /\ Numbered(c)'
  BY <1>1, <1>2 DEF Ordered, NotBegun, Accepted, Numbered
<1>6. Finned(c)' /\ InHand(c)' /\ Told(c)' /\ Gone(c)'
  BY <1>1, <1>2, <1>3, <1>4 DEF Ordered, Finned, InHand, Told, Gone
<1> QED
  BY <1>5, <1>6 DEF Ordered

LEMMA QuietLine ==
  ASSUME CallInv, Typed', Good, NEW c \in Clients, NEW t, Taking(t, c), t # "CLEAR",
         \A d \in Clients : /\ client'[d].pcb = client[d].pcb /\ client'[d].told = client[d].told
                            /\ client'[d].exists = client[d].exists
                            /\ client'[d].attached = client[d].attached
                            /\ d # c => client'[d] = client[d],
         \/ steps' = <<>>
         \/ /\ t \notin {"ACCEPT", "CONNECTED"} /\ steps' # <<>> /\ Head(steps').client = c
            /\ Head(steps').do \in {"recved", "ack"}
  PROVE  Good'
<1>1. /\ Holds(steps') = {} /\ ~Removes(steps') /\ ~Finishing(steps', c) /\ steps' # Closing2(c)
  BY Phases DEF Holds, Removes
<1>2. Ordered(c)'
  BY <1>1, TookOrdered
<1> QED
  BY <1>1, <1>2, TookLine

LEMMA StrayLine ==
  ASSUME CallInv, Typed', Good, NEW c \in Clients, Stray(c)
  PROVE  Good'
<1>1. ~client[c].exists /\ \E t \in {"RECV", "POLL", "FIN", "ERROR"} : Taking(t, c)
  BY DEF Stray
<1> QED
  BY <1>1, TookExisting

LEMMA HandleQuietly ==
  ASSUME CallInv, Typed', Good, NEW c \in Clients,
         HandleAccept(c) \/ HandleDns(c) \/ HandleRecv(c) \/ HandlePoll(c)
  PROVE  Good'
<1>1. client \in [Clients -> ClientRecords]
  BY DEF CallInv, Typed
<1>2. CASE HandleAccept(c)
  <2>1. /\ Taking("ACCEPT", c) /\ client' = [client EXCEPT ![c].known = TRUE] /\ steps' = <<>>
    BY <1>2 DEF HandleAccept, Taking
  <2>2. \A d \in Clients : /\ client'[d].pcb = client[d].pcb /\ client'[d].told = client[d].told
                           /\ client'[d].exists = client[d].exists
                           /\ client'[d].attached = client[d].attached
                           /\ d # c => client'[d] = client[d]
    BY <1>1, <2>1 DEF ClientRecords
  <2> QED
    BY <2>1, <2>2, QuietLine
<1>3. CASE HandleDns(c)
  <2>1. Taking("DNS", c) /\ steps' = <<>> /\ client' = client
    BY <1>3 DEF HandleDns, Taking
  <2> QED
    BY <2>1, QuietLine
<1>4. CASE HandleRecv(c)
  <2>1. PICK later \in BOOLEAN :
          /\ Taking("RECV", c) /\ client' = [client EXCEPT ![c] = Assimilated(c, later)]
          /\ steps' = IF AcksNow(c, later) THEN <<Step("recved", c, 1)>> ELSE <<>>
    BY <1>4 DEF HandleRecv
  <2>2. \A d \in Clients : /\ client'[d].pcb = client[d].pcb /\ client'[d].told = client[d].told
                           /\ client'[d].exists = client[d].exists
                           /\ client'[d].attached = client[d].attached
                           /\ d # c => client'[d] = client[d]
    BY <1>1, <2>1 DEF Assimilated, ClientRecords
  <2>3. \/ steps' = <<>>
        \/ steps' # <<>> /\ Head(steps').client = c /\ Head(steps').do = "recved"
    BY <2>1 DEF Step
  <2> QED
    BY <2>1, <2>2, <2>3, QuietLine
<1>5. CASE HandlePoll(c)
  <2>1. Taking("POLL", c) /\ client' = client
    BY <1>5 DEF HandlePoll
  <2>2. \/ steps' = <<>>
        \/ steps' # <<>> /\ Head(steps').client = c /\ Head(steps').do \in {"recved", "ack"}
    <3>1. \/ steps' = <<>> \/ steps' = <<Step("ack", c, client[c].later)>>
          \/ steps' = Polled(c, client[c].later)
      BY <1>5, <2>1 DEF HandlePoll, Taking, Polled
    <3>2. CASE steps' = <<Step("ack", c, client[c].later)>>
      BY <3>2 DEF Step
    <3>3. CASE steps' = Polled(c, client[c].later)
      <4>1. steps' # <<>> /\ Head(steps') = Step("recved", c, client[c].later)
        BY <3>3, Rests
      <4> QED
        BY <4>1 DEF Step
    <3> QED
      BY <3>1, <3>2, <3>3
  <2> QED
    BY <2>1, <2>2, QuietLine
<1> QED
  BY <1>2, <1>3, <1>4, <1>5

\* CONNECTED sets _pcb: a client whose FIN came earlier than that is among the early.
LEMMA ConnectedLine ==
  ASSUME CallInv, Typed', Good, NEW c \in Clients, HandleConnected(c)
  PROVE  Good'
<1>1. /\ Taking("CONNECTED", c) /\ client' = [client EXCEPT ![c].pcb = TRUE] /\ steps' = <<>>
  BY DEF HandleConnected, Taking
<1>2. client \in [Clients -> ClientRecords]
  BY DEF CallInv, Typed
<1>3. /\ client'[c].told = client[c].told /\ client'[c].exists = client[c].exists
      /\ client'[c].pcb = TRUE
      /\ \A d \in Clients : d # c => client'[d] = client[d]
  BY <1>1, <1>2 DEF ClientRecords
<1>4. Holds(steps') = {} /\ ~Removes(steps')
  BY <1>1, Phases DEF Holds
<1>5. /\ UNCHANGED <<conn, early, polls>> /\ Of(c)' \subseteq Of(c)
      /\ conn[c].is \notin {"none", "resolving", "opening"}
      /\ \E e \in Of(c) : e.type = "CONNECTED"
  BY <1>1, <1>4, Took
<1>6. Connected(c) \in Of(c)
  <2>1. PICK e \in Of(c) : e.type = "CONNECTED"
    BY <1>5
  <2>2. e \in Events /\ e.client = c
    BY WaitingTyped DEF Of
  <2> QED
    BY <2>1, <2>2, EventIs DEF Connected
<1>7. Ordered(c) /\ client[c].exists
  BY <1>1, TookExisting DEF Good
<1>8. Unset(c) => Unset(c)'
  BY <1>5, <1>6 DEF Unset
<1>9. ~Busy(steps', c) /\ ~Finishing(steps', c) /\ steps' # Closing2(c)
  BY <1>1, Phases
<1>10. NotBegun(c)' /\ Accepted(c)' /\ Numbered(c)'
  BY <1>3, <1>5, <1>7 DEF Ordered, NotBegun, Accepted, Numbered
<1>11. Finned(c)' /\ InHand(c)' /\ Told(c)' /\ Gone(c)'
  BY <1>3, <1>5, <1>7, <1>8, <1>9 DEF Ordered, Finned, InHand, Told, Gone
<1>12. Ordered(c)'
  BY <1>10, <1>11 DEF Ordered
<1> QED
  BY <1>1, <1>3, <1>4, <1>12, TookLine

\* FIN is the last event of an accepted client.
LEMMA FinHandled ==
  ASSUME CallInv, Typed', Good, NEW c \in Clients, HandleFin(c)
  PROVE  Good'
<1>1. Taking("FIN", c) /\ steps' = Ending(c) /\ client' = client
  BY DEF HandleFin, Ending
<1>2. Finishing(steps', c)
  BY <1>1 DEF Finishing
<1>3. /\ steps' # <<>> /\ Head(steps').client = c /\ Head(steps').do \in {"clear", "discard"}
      /\ Holds(steps') = {} /\ ~Removes(steps') /\ steps' # Closing2(c)
  BY <1>2, Phases DEF Holds, Removes
<1>4. /\ UNCHANGED <<lwip, conn, early, polls>> /\ Of(c)' \subseteq Of(c)
      /\ conn[c].is \notin {"none", "resolving", "opening"}
      /\ \E e \in Of(c) : e.type = "FIN" /\ \A f \in Of(c)' : MayPrecede(e, f)
  BY <1>1, <1>3, Took
<1>5. Ordered(c) /\ client[c].exists
  BY <1>1, TookExisting DEF Good
<1>6. NoFront(c)' /\ (c \notin Outgoing => Of(c)' = {})
  BY <1>4 DEF NoFront, MayPrecede, Of
<1>7. conn[c].is \in {"half", "finished", "reset", "closed"} /\ Unset(c)
  BY <1>4, <1>5 DEF Ordered, Finned
<1>8. Unset(c)'
  BY <1>1, <1>4, <1>7 DEF Unset
<1>9. c \notin Outgoing => Over(c)'
  <2> SUFFICES ASSUME c \notin Outgoing PROVE Over(c)'
    OBVIOUS
  <2>1. conn[c].is \in {"finished", "reset", "closed"}
    BY <1>5, <1>7 DEF Ordered, Accepted
  <2>2. lwip' # Idle => lwip'.client # c
    BY <1>6 DEF Of, Waiting
  <2> QED
    BY <1>4, <1>6, <2>1, <2>2 DEF Over, Mute
<1>10. NotBegun(c)' /\ Accepted(c)' /\ Numbered(c)'
  BY <1>1, <1>4, <1>5 DEF Ordered, NotBegun, Accepted, Numbered
<1>11. Finned(c)' /\ InHand(c)' /\ Told(c)' /\ Gone(c)'
  BY <1>1, <1>3, <1>4, <1>5, <1>6, <1>7, <1>8, <1>9 DEF Ordered, Finned, InHand, Told, Gone
<1>12. Ordered(c)'
  BY <1>10, <1>11 DEF Ordered
<1> QED
  BY <1>1, <1>3, <1>12, TookLine

\* ERROR is the last event of any client.
LEMMA ErrorLine ==
  ASSUME CallInv, Typed', Good, NEW c \in Clients, HandleError(c)
  PROVE  Good'
<1>1. /\ Taking("ERROR", c) /\ steps' = <<Step("discard", c, 0)>>
      /\ client' = [client EXCEPT ![c] = [@ EXCEPT !.pcb = FALSE, !.attached = FALSE]]
  BY DEF HandleError
<1>2. client \in [Clients -> ClientRecords]
  BY DEF CallInv, Typed
<1>3. /\ client'[c].told = client[c].told /\ client'[c].exists = client[c].exists
      /\ ~client'[c].pcb /\ ~client'[c].attached
      /\ \A d \in Clients : d # c => client'[d] = client[d]
  BY <1>1, <1>2 DEF ClientRecords
<1>4. Finishing(steps', c)
  BY <1>1 DEF Finishing
<1>5. /\ steps' # <<>> /\ Head(steps').client = c /\ Head(steps').do \in {"clear", "discard"}
      /\ Holds(steps') = {} /\ ~Removes(steps') /\ steps' # Closing2(c)
  BY <1>4, Phases DEF Holds, Removes
<1>6. /\ UNCHANGED <<lwip, conn, early, polls>>
      /\ conn[c].is \notin {"none", "resolving", "opening"}
      /\ \E e \in Of(c) : e.type = "ERROR" /\ \A f \in Of(c)' : MayPrecede(e, f)
  BY <1>1, <1>5, Took
<1>7. Of(c)' = {} /\ conn[c].is = "reset"
  <2>1. Of(c)' = {}
    BY <1>6 DEF MayPrecede, Of
  <2> QED
    BY <1>6, <2>1, NoErrorYet
<1>8. Ordered(c) /\ client[c].exists
  BY <1>1, TookExisting DEF Good
<1>9. NoFront(c)' /\ Unset(c)'
  BY <1>3, <1>7 DEF NoFront, Unset
<1>10. Over(c)'
  <2>1. lwip' # Idle => lwip'.client # c
    BY <1>7 DEF Of, Waiting
  <2> QED
    BY <1>3, <1>7, <1>9, <2>1 DEF Over, Mute
<1>11. NotBegun(c)' /\ Accepted(c)' /\ Numbered(c)'
  BY <1>3, <1>6, <1>7, <1>8 DEF Ordered, NotBegun, Accepted, Numbered
<1>12. Finned(c)' /\ InHand(c)' /\ Told(c)' /\ Gone(c)'
  BY <1>3, <1>5, <1>6, <1>7, <1>8, <1>9, <1>10 DEF Ordered, Finned, InHand, Told, Gone
<1>13. Ordered(c)'
  BY <1>11, <1>12 DEF Ordered
<1> QED
  BY <1>1, <1>3, <1>5, <1>13, TookLine

\* The removal begins.
LEMMA ClearHandled ==
  ASSUME CallInv, Typed', Good, NEW c \in Clients, HandleClear(c)
  PROVE  Good'
<1>1. Taking("CLEAR", c) /\ steps' = <<Removal("remove", c, Idle, Idle)>> /\ client' = client
  BY DEF HandleClear
<1>2. /\ steps' # <<>> /\ Head(steps').client = c /\ Head(steps').do = "remove"
      /\ Head(steps').first = Idle
  BY <1>1 DEF Removal
<1>3. Holds(steps') = {} /\ RemovesOf(steps', c)
  BY <1>2 DEF Holds, Removes, RemovesOf
<1>4. /\ steps = <<>> /\ UNCHANGED <<lwip, conn, early, polls>> /\ Of(c)' \subseteq Of(c)
      /\ conn[c].is \notin {"none", "resolving", "opening"}
      /\ Sorted(queue')
      /\ \E e \in Of(c) : e.type = "CLEAR" /\ \A f \in Of(c)' : MayPrecede(e, f)
  BY <1>1, <1>3, Took
<1>5. Ordered(c)
  BY DEF Good
<1>6. NoFront(c)' /\ (Unset(c) => Unset(c)') /\ (Over(c) => Over(c)')
  <2>1. NoFront(c)' /\ (Unset(c) => Unset(c)')
    BY <1>1, <1>4 DEF NoFront, MayPrecede, Of, Unset
  <2> QED
    BY <1>1, <1>3, <1>4, <2>1 DEF Over, Mute
<1>7. ~Finishing(steps', c) /\ steps' # Closing2(c)
  BY <1>2, Phases
<1>8. NotBegun(c)' /\ Accepted(c)' /\ Numbered(c)'
  BY <1>1, <1>4, <1>5 DEF Ordered, NotBegun, Accepted, Numbered
<1>9. Finned(c)' /\ InHand(c)' /\ Told(c)' /\ Gone(c)'
  BY <1>1, <1>4, <1>5, <1>6, <1>7 DEF Ordered, Finned, InHand, Told, Gone
<1>10. Ordered(c)'
  BY <1>8, <1>9 DEF Ordered
<1>11. HasCut(queue', {}, c, Idle)
  <2>1. queue' \in Seq(Events)
    BY DEF Typed
  <2> QED
    BY <1>4, <2>1, CutBegins
<1>12. \A d \in Clients : d # c => client'[d] = client[d]
  BY <1>1
<1> QED
  BY <1>1, <1>2, <1>3, <1>10, <1>11, <1>12, TookLine

-----------------------------------------------------------------------------
(* The order and the steps of a handler.                                    *)

\* A step that leaves the events alone.
LEMMA TaskStep ==
  ASSUME CallInv, Typed', Good, steps # <<>>, NEW c \in Clients, Head(steps).client = c,
         Head(steps).do \notin {"clear", "remove", "return"},
         UNCHANGED <<queue, lwip, strays, early, polls>>,
         \A d \in Clients : d # c => client'[d] = client[d] /\ conn'[d] = conn[d],
         steps' # <<>> => /\ Head(steps').client = c
                          /\ Head(steps').do \in {"detach", "clear", "discard"}
                          /\ Head(steps').do # "discard" => Head(steps).do # "close",
         Head(steps).do = "discard" => steps' = <<>>,
         Ordered(c)'
  PROVE  Good'
<1>1. Holds(steps) = {} /\ Holds(steps') = {} /\ ~Removes(steps) /\ ~Removes(steps')
  BY DEF Holds, Removes
<1>2. InOrder' /\ LwipLast' /\ strays' = {}
  BY <1>1 DEF Good, InOrder, LwipLast
<1>3. Clears'
  BY <1>1 DEF Good, Clears, NoClear
<1>4. \A d : Of(d)' = Of(d) /\ (ClearOf(d) => ClearOf(d)')
  BY <1>1 DEF Of, Waiting, ClearOf
<1>5. ASSUME NEW d \in Clients, d # c PROVE Spared(d)
  <2>1. ~Busy(steps', d) /\ ~Finishing(steps', d) /\ steps' # Closing2(d)
    BY <1>5, Phases DEF Busy
  <2>2. ~RemovesOf(steps, d)
    BY <1>1 DEF RemovesOf
  <2>3. Over(d) => Over(d)'
    BY <1>4, <1>5, <2>2, OverKept
  <2>4. conn[d].sent \in Nat /\ polls \in Nat
    BY DEF CallInv, Typed, ConnRecords
  <2> QED
    BY <1>4, <1>5, <2>1, <2>3, <2>4 DEF Spared
<1> QED
  BY <1>2, <1>3, <1>5, Changes

LEMMA RecvedLine ==
  ASSUME CallInv, Typed', Good, Recved
  PROVE  Good'
<1>0. PICK c, n : c = Head(steps).client /\ n = Head(steps).n
  OBVIOUS
<1>1. /\ steps # <<>> /\ Head(steps).do \in {"recved", "ack"}
      /\ UNCHANGED <<queue, lwip, strays, early, polls>> /\ steps' = Tail(steps)
      /\ conn' = IF Freed(c) THEN conn ELSE [conn EXCEPT ![c].window = @ - n]
      /\ client' \in {client, [client EXCEPT ![c].later = @ - n]}
  BY <1>0 DEF Recved, Doing, ApiCall
<1>2. c \in Clients /\ steps' \in {<<>>, CloseSteps(c)}
  BY <1>0, <1>1, NextSteps DEF CallInv
<1>3. client \in [Clients -> ClientRecords] /\ conn \in [Clients -> ConnRecords]
  BY DEF CallInv, Typed
<1>4. /\ client'[c].pcb = client[c].pcb /\ client'[c].told = client[c].told
      /\ client'[c].exists = client[c].exists /\ client'[c].attached = client[c].attached
      /\ \A d \in Clients : d # c => client'[d] = client[d]
  BY <1>1, <1>2, <1>3 DEF ClientRecords
<1>5. /\ conn'[c].is = conn[c].is /\ conn'[c].sent = conn[c].sent
      /\ \A d \in Clients : d # c => conn'[d] = conn[d]
  BY <1>1, <1>2, <1>3 DEF ConnRecords
<1>6. steps' # <<>> => Head(steps').client = c /\ Head(steps').do = "detach"
  <2> SUFFICES ASSUME steps' # <<>> PROVE Head(steps').client = c /\ Head(steps').do = "detach"
    OBVIOUS
  <2>1. Head(steps') = Step("detach", c, 0)
    BY <1>2, Rests
  <2> QED
    BY <2>1 DEF Step
<1>7. Spared(c)
  <2>1. Holds(steps) = {} /\ Holds(steps') = {} /\ ~RemovesOf(steps, c)
    BY <1>1, <1>6 DEF Holds, RemovesOf, Removes
  <2>2. Of(c)' = Of(c) /\ (ClearOf(c) => ClearOf(c)')
    BY <1>1, <2>1 DEF Of, Waiting, ClearOf
  <2>3. Over(c) => Over(c)'
    BY <1>1, <1>2, <1>4, <1>5, <2>1, <2>2, OverKept
  <2>4. Busy(steps, c) /\ ~Finishing(steps', c) /\ steps' # Closing2(c)
    BY <1>0, <1>1, <1>6, Phases DEF Busy
  <2>5. conn[c].sent \in Nat /\ polls \in Nat
    BY <1>2 DEF CallInv, Typed, ConnRecords
  <2> QED
    BY <1>1, <1>4, <1>5, <2>2, <2>3, <2>4, <2>5 DEF Spared
<1>8. Ordered(c)'
  BY <1>2, <1>7, SparedOrdered DEF Good
<1> QED
  BY <1>0, <1>1, <1>2, <1>4, <1>5, <1>6, <1>8, TaskStep

LEMMA DetachLine ==
  ASSUME CallInv, Typed', Good, Detach
  PROVE  Good'
<1>0. PICK c : c = Head(steps).client
  OBVIOUS
<1>1. /\ steps # <<>> /\ Head(steps).do = "detach"
      /\ UNCHANGED <<queue, lwip, strays, early, polls, conn>>
      /\ \/ client' = [client EXCEPT ![c].attached = FALSE] /\ steps' = Tail(steps)
         \/ client' = client /\ steps' = <<>>
  BY <1>0 DEF Detach, Doing
<1>2. c \in Clients /\ steps' \in {<<>>, Closing3(c)}
  BY <1>0, <1>1, NextSteps DEF CallInv
<1>3. client \in [Clients -> ClientRecords]
  BY DEF CallInv, Typed
<1>4. /\ client'[c].pcb = client[c].pcb /\ client'[c].told = client[c].told
      /\ client'[c].exists = client[c].exists /\ (client'[c].attached => client[c].attached)
      /\ \A d \in Clients : d # c => client'[d] = client[d]
  BY <1>1, <1>2, <1>3 DEF ClientRecords
<1>5. steps' # <<>> => Head(steps').client = c /\ Head(steps').do = "clear"
  <2> SUFFICES ASSUME steps' # <<>> PROVE Head(steps').client = c /\ Head(steps').do = "clear"
    OBVIOUS
  <2>1. Head(steps') = Step("clear", c, 0)
    BY <1>2, Rests
  <2> QED
    BY <2>1 DEF Step
<1>6. Spared(c)
  <2>1. Holds(steps) = {} /\ Holds(steps') = {} /\ ~RemovesOf(steps, c)
    BY <1>1, <1>5 DEF Holds, RemovesOf, Removes
  <2>2. Of(c)' = Of(c) /\ (ClearOf(c) => ClearOf(c)')
    BY <1>1, <2>1 DEF Of, Waiting, ClearOf
  <2>3. Over(c) => Over(c)'
    BY <1>1, <1>2, <1>4, <2>1, <2>2, OverKept
  <2>4. Busy(steps, c) /\ ~Finishing(steps', c) /\ steps' # Closing2(c)
    BY <1>0, <1>1, <1>2, <1>5, Phases DEF Busy
  <2>5. conn[c].sent \in Nat /\ polls \in Nat
    BY <1>2 DEF CallInv, Typed, ConnRecords
  <2> QED
    BY <1>1, <1>4, <2>2, <2>3, <2>4, <2>5 DEF Spared
<1>7. Ordered(c)'
  BY <1>2, <1>6, SparedOrdered DEF Good
<1> QED
  BY <1>0, <1>1, <1>2, <1>4, <1>5, <1>7, TaskStep

\* The pcb is closed after the CLEAR was put, which is before all other events.
LEMMA CloseLine ==
  ASSUME CallInv, Typed', Good, Close
  PROVE  Good'
<1>0. PICK c : c = Head(steps).client
  OBVIOUS
<1>1. /\ steps # <<>> /\ Head(steps).do = "close" /\ lwip = Idle
      /\ UNCHANGED <<queue, lwip, strays, early, polls>> /\ steps' = Tail(steps)
      /\ conn' = IF Freed(c) THEN conn ELSE [conn EXCEPT ![c].is = "closed"]
      /\ client' = [client EXCEPT ![c].pcb = FALSE]
  BY <1>0 DEF Close, Doing, ApiCall
<1>2. c \in Clients /\ steps = Closing2(c) /\ steps' = <<Step("discard", c, 0)>>
  BY <1>0, <1>1, NextSteps DEF CallInv
<1>3. client \in [Clients -> ClientRecords] /\ conn \in [Clients -> ConnRecords]
  BY DEF CallInv, Typed
<1>4. /\ ~client'[c].pcb /\ client'[c].told = client[c].told
      /\ client'[c].exists = client[c].exists /\ client'[c].attached = client[c].attached
      /\ \A d \in Clients : d # c => client'[d] = client[d]
  BY <1>1, <1>2, <1>3 DEF ClientRecords
<1>5. /\ conn'[c].is \in {conn[c].is, "closed"} /\ conn'[c].sent = conn[c].sent
      /\ \A d \in Clients : d # c => conn'[d] = conn[d]
  BY <1>1, <1>2, <1>3 DEF ConnRecords
<1>6. steps' # <<>> /\ Head(steps').client = c /\ Head(steps').do = "discard"
  BY <1>2 DEF Step
<1>7. Ordered(c) /\ Busy(steps, c) /\ ~client[c].attached
  <2>1. Closing(c)
    BY <1>0, <1>1, Before
  <2> QED
    BY <1>0, <1>1, <1>2, <2>1 DEF Good, Busy, CallInv, Fine, Detached
<1>8. NoFront(c) /\ ClearOf(c) /\ conn[c].is \notin {"none", "resolving", "opening"}
  BY <1>2, <1>7 DEF Ordered, InHand, NotBegun
<1>9. Of(c)' = Of(c) /\ ClearOf(c)' /\ NoFront(c)'
  <2>1. Holds(steps) = {} /\ Holds(steps') = {}
    BY <1>1, <1>6 DEF Holds
  <2>2. Of(c)' = Of(c)
    BY <1>1, <2>1 DEF Of, Waiting
  <2> QED
    BY <1>1, <1>8, <2>2 DEF ClearOf, NoFront
<1>10. Unset(c)'
  <2>1. InFront(Connected(c))
    BY DEF Connected, Event, InFront
  <2> QED
    BY <1>4, <1>9, <2>1 DEF Unset, NoFront
<1>11. Over(c)'
  BY <1>1, <1>4, <1>7, <1>9 DEF Over, Mute
<1>12. NotBegun(c)' /\ Accepted(c)' /\ Numbered(c)'
  BY <1>1, <1>4, <1>5, <1>7, <1>8, <1>9 DEF Ordered, NotBegun, Accepted, Numbered
<1>13. Finned(c)' /\ InHand(c)' /\ Told(c)' /\ Gone(c)'
  BY <1>4, <1>5, <1>7, <1>8, <1>9, <1>10, <1>11
  DEF Ordered, Finned, InHand, Told, Gone
<1>14. Ordered(c)'
  BY <1>12, <1>13 DEF Ordered
<1> QED
  BY <1>0, <1>1, <1>2, <1>4, <1>5, <1>6, <1>14, TaskStep

\* The user is told of the end.
LEMMA DiscardLine ==
  ASSUME CallInv, Typed', Good, Discard
  PROVE  Good'
<1>0. PICK c : c = Head(steps).client
  OBVIOUS
<1>1. /\ steps # <<>> /\ Head(steps).do = "discard"
      /\ UNCHANGED <<queue, lwip, strays, early, polls, conn>> /\ steps' = Tail(steps)
      /\ client' = [client EXCEPT ![c].told = client[c].known,
                                  ![c].exists = c \in Outgoing \/ ~client[c].known]
  BY <1>0 DEF Discard, Doing
<1>2. c \in Clients /\ steps = <<Step("discard", c, 0)>> /\ steps' = <<>>
  BY <1>0, <1>1, NextSteps DEF CallInv
<1>3. client \in [Clients -> ClientRecords]
  BY DEF CallInv, Typed
<1>4. /\ client'[c].pcb = client[c].pcb /\ client'[c].attached = client[c].attached
      /\ c \in Outgoing => client'[c].exists
      /\ \A d \in Clients : d # c => client'[d] = client[d]
  BY <1>1, <1>2, <1>3 DEF ClientRecords
<1>5. Ordered(c) /\ Busy(steps, c) /\ Finishing(steps, c)
  BY <1>0, <1>1, <1>2 DEF Good, Busy, Finishing
<1>6. /\ NoFront(c) /\ Unset(c) /\ conn[c].is \notin {"none", "resolving", "opening"}
      /\ c \notin Outgoing => Over(c)
  BY <1>5 DEF Ordered, InHand, NotBegun, Gone
<1>7. Of(c)' = Of(c) /\ (ClearOf(c) => ClearOf(c)') /\ ~RemovesOf(steps, c)
  <2>1. Holds(steps) = {} /\ Holds(steps') = {}
    BY <1>1, <1>2 DEF Holds
  <2> QED
    BY <1>1, <2>1 DEF Of, Waiting, ClearOf, RemovesOf, Removes
<1>8. Unset(c)' /\ NoFront(c)'
  BY <1>1, <1>4, <1>6, <1>7 DEF Unset, NoFront
<1>9. Over(c) => Over(c)'
  BY <1>1, <1>2, <1>4, <1>7, OverKept
<1>10. ~Finishing(steps', c) /\ steps' # Closing2(c)
  BY <1>2, Phases
<1>11. NotBegun(c)' /\ Accepted(c)' /\ Numbered(c)'
  BY <1>1, <1>4, <1>5, <1>6, <1>7 DEF Ordered, NotBegun, Accepted, Numbered
<1>12. Finned(c)' /\ InHand(c)' /\ Told(c)' /\ Gone(c)'
  BY <1>1, <1>4, <1>5, <1>6, <1>7, <1>8, <1>9, <1>10 DEF Ordered, Finned, InHand, Told, Gone
<1>13. Ordered(c)'
  BY <1>11, <1>12 DEF Ordered
<1> QED
  BY <1>0, <1>1, <1>2, <1>4, <1>13, TaskStep

\* CLEAR is put before all other events of its client, none of which is a new
\* connection.
LEMMA ClearLine ==
  ASSUME CallInv, Typed', Good, Clear
  PROVE  Good'
<1>0. PICK c, e : c = Head(steps).client /\ e = Event("CLEAR", c, 0)
  OBVIOUS
<1>1. /\ steps # <<>> /\ Head(steps).do = "clear" /\ steps' = Tail(steps)
      /\ queue' = <<e>> \o queue
      /\ UNCHANGED <<lwip, client, conn, strays, early, polls>>
  BY <1>0 DEF Clear, Doing
<1>2. /\ c \in Clients
      /\ \/ steps = Closing3(c) /\ steps' = Closing2(c)
         \/ steps = Ending(c) /\ steps' = <<Step("discard", c, 0)>>
  BY <1>0, <1>1, NextSteps DEF CallInv
<1>3. e \in Events /\ e.type = "CLEAR" /\ e.client = c /\ ~InFront(e) /\ e # Idle
  <2>1. "CLEAR" \in EventTypes
    BY DEF EventTypes
  <2> QED
    BY <1>0, <1>2, <2>1, EventTyped DEF Event, InFront
<1>4. steps' # <<>> /\ Head(steps').client = c /\ Head(steps').do \in {"close", "discard"}
  <2>1. CASE steps' = Closing2(c)
    BY <2>1, Phases
  <2>2. CASE steps' = <<Step("discard", c, 0)>>
    BY <2>2 DEF Step
  <2> QED
    BY <1>2, <2>1, <2>2
<1>5. /\ Holds(steps) = {} /\ Holds(steps') = {} /\ ~Removes(steps) /\ ~Removes(steps')
      /\ \A d : ~RemovesOf(steps, d)
  BY <1>1, <1>4 DEF Holds, Removes, RemovesOf
<1>6. queue \in Seq(Events)
  BY DEF CallInv, Typed
<1>7. \A x : x \in Range(queue') <=> x \in Range(queue) \/ x = e
  BY <1>1, <1>3, <1>6, PutInFront
<1>8. /\ Sorted(queue) /\ ClearFirst(queue) /\ NoClear(Range(queue)) /\ lwip.type # "CLEAR"
      /\ LwipLast /\ strays = {} /\ Ordered(c)
  BY <1>1, <1>2, <1>5 DEF Good, InOrder, Clears, NoClear
<1>9. NoFront(c) /\ conn[c].is \notin {"none", "resolving", "opening"}
  BY <1>0, <1>1, <1>8 DEF Ordered, InHand, NotBegun, Busy
<1>10. \A x \in Range(queue) : MayPrecede(e, x)
  <2> TAKE x \in Range(queue)
  <2>1. x \in Events /\ x.type # "CLEAR"
    BY <1>8, WaitingTyped DEF NoClear
  <2>2. x.client = c => ~InFront(x)
    BY <1>9, <2>1, IdleApart DEF NoFront, Of, Waiting
  <2> QED
    BY <1>3, <2>1, <2>2 DEF MayPrecede
<1>11. Sorted(queue') /\ ClearFirst(queue')
  BY <1>1, <1>3, <1>6, <1>8, <1>10, SortedFront, ClearFront
<1>12. InOrder' /\ strays' = {}
  BY <1>1, <1>5, <1>8, <1>11 DEF InOrder
<1>13. LwipLast'
  <2> SUFFICES ASSUME lwip # Idle
               PROVE  IF InFront(lwip) THEN e.client # lwip.client ELSE MayPrecede(e, lwip)
    BY <1>1, <1>5, <1>7, <1>8 DEF LwipLast
  <2>1. lwip.client = c => ~InFront(lwip)
    BY <1>9 DEF NoFront, Of, Waiting
  <2> QED
    BY <1>3, <1>8, <2>1 DEF MayPrecede
<1>14. Clears'
  BY <1>1, <1>4, <1>8, <1>11 DEF Clears
<1>15. Waiting' = Waiting \cup {e} /\ \A d : ClearOf(d) => ClearOf(d)'
  BY <1>1, <1>5, <1>7 DEF Waiting, ClearOf
<1>16. ASSUME NEW d \in Clients, d # c PROVE Spared(d)
  <2>1. Of(d)' = Of(d)
    BY <1>3, <1>15, <1>16 DEF Of
  <2>2. ~Busy(steps', d) /\ ~Finishing(steps', d) /\ steps' # Closing2(d)
    BY <1>4, <1>16, Phases DEF Busy
  <2>3. Over(d) => Over(d)'
    BY <1>1, <1>5, <1>15, <2>1, OverKept
  <2>4. conn[d].sent \in Nat /\ polls \in Nat
    BY DEF CallInv, Typed, ConnRecords
  <2> QED
    BY <1>1, <2>1, <2>2, <2>3, <2>4 DEF Spared
<1>17. Of(c)' = Of(c) \cup {e} /\ NoFront(c)' /\ ClearOf(c)'
  <2>1. Of(c)' = Of(c) \cup {e}
    BY <1>3, <1>15 DEF Of
  <2> QED
    BY <1>0, <1>3, <1>7, <1>9, <2>1 DEF NoFront, ClearOf
<1>18. (Unset(c) => Unset(c)') /\ (Over(c) => Over(c)')
  <2>1. e # Connected(c)
    BY <1>3 DEF Connected, Event
  <2> QED
    BY <1>1, <1>17, <2>1 DEF Unset, Over, Mute
<1>19. Busy(steps, c) /\ (Finishing(steps', c) => Finishing(steps, c))
  <2>1. ~Finishing(Closing2(c), c)
    BY Phases
  <2> QED
    BY <1>0, <1>1, <1>2, <2>1 DEF Busy, Finishing
<1>20. NotBegun(c)' /\ Accepted(c)' /\ Numbered(c)'
  BY <1>1, <1>3, <1>8, <1>9, <1>17 DEF Ordered, NotBegun, Accepted, Numbered
<1>21. Finned(c)' /\ InHand(c)' /\ Told(c)' /\ Gone(c)'
  BY <1>1, <1>3, <1>8, <1>17, <1>18, <1>19 DEF Ordered, Finned, InHand, Told, Gone
<1>22. Ordered(c)'
  BY <1>20, <1>21 DEF Ordered
<1> QED
  BY <1>2, <1>12, <1>13, <1>14, <1>16, <1>22, Changes

\* A step of a removal: events are held or put back, and those of the client are
\* dropped; when it ends, none of them is left but an ACCEPT.
LEMMA RemovalStep ==
  ASSUME CallInv, Typed', Good, Removes(steps), NEW c, Head(steps).client = c,
         UNCHANGED <<lwip, client, conn, strays, early, polls>>,
         Range(queue') \cup Holds(steps') \subseteq Range(queue) \cup Holds(steps),
         ClearFirst(queue'), InOrder',
         steps' # <<>> => Removes(steps') /\ Head(steps').client = c,
         steps' = <<>> => \A e \in Range(queue') : ~Matches(e, c)
  PROVE  Good'
<1>1. /\ Head(steps).do \in {"remove", "return"} /\ steps # <<>>
      /\ NoClear(Range(queue) \cup Holds(steps)) /\ lwip.type # "CLEAR"
      /\ LwipLast /\ strays = {}
  BY DEF Removes, Good, Clears
<1>2. LwipLast' /\ strays' = {}
  BY <1>1 DEF LwipLast
<1>3. Clears'
  BY <1>1 DEF Clears, NoClear
<1>4. \A d : Of(d)' \subseteq Of(d) /\ ~ClearOf(d)
  BY <1>1 DEF Of, Waiting, ClearOf, NoClear, Event
<1>5. Holds(<<>>) = {}
  BY DEF Holds
<1>6. ASSUME NEW d \in Clients PROVE Spared(d)
  <2>1. (Busy(steps', d) => Busy(steps, d)) /\ ~Finishing(steps', d) /\ steps' # Closing2(d)
    BY <1>1, Phases DEF Busy, Removes
  <2>2. Over(d) => Over(d)'
    <3> SUFFICES ASSUME Over(d) PROVE Over(d)'
      OBVIOUS
    <3>1. RemovesOf(steps, d) => RemovesOf(steps', d) \/ Of(d)' = {}
      <4>1. CASE steps' # <<>>
        BY <4>1 DEF RemovesOf
      <4>2. CASE steps' = <<>> /\ d = c
        <5> SUFFICES ASSUME NEW x \in Of(d)' PROVE FALSE
          OBVIOUS
        <5>1. x # Idle /\ x.client = c /\ x \in Range(queue') \cup {lwip} /\ x \in Of(d)
          BY <1>4, <1>5, <4>2 DEF Of, Waiting
        <5>2. x \in Range(queue') /\ ~InFront(x)
          BY <4>2, <5>1 DEF Over, Mute, NoFront
        <5> QED
          BY <4>2, <5>1, <5>2 DEF Matches, InFront
      <4>3. CASE d # c
        BY <4>3 DEF RemovesOf
      <4> QED
        BY <4>1, <4>2, <4>3
    <3> QED
      BY <1>4, <3>1, OverKept
  <2>3. conn[d].sent \in Nat /\ polls \in Nat
    BY DEF CallInv, Typed, ConnRecords
  <2> QED
    BY <1>4, <2>1, <2>2, <2>3 DEF Spared
<1> QED
  BY <1>2, <1>3, <1>6, NoChanges

LEMMA RemoveLine ==
  ASSUME CallInv, Typed', Good, RemoveEvent
  PROVE  Good'
<1>0. PICK s, c, e, f, g : /\ s = Head(steps) /\ c = s.client /\ e = Head(queue) /\ f = s.first
                           /\ g = IF f = Idle THEN e ELSE f
  OBVIOUS
<1>1. /\ steps # <<>> /\ s.do = "remove" /\ UNCHANGED <<lwip, client, conn, strays, early, polls>>
      /\ IF TurnedRound(f)
         THEN steps' = <<>> /\ UNCHANGED queue
         ELSE /\ queue' = Tail(queue)
              /\ steps' = IF Matches(e, c) THEN steps ELSE <<Removal("return", c, e, g)>>
  BY <1>0 DEF RemoveEvent, Doing
<1>2. Removes(steps) /\ Holds(steps) = {} /\ queue \in Seq(Events)
  BY <1>0, <1>1 DEF Removes, Holds, CallInv, Typed
<1>3. HasCut(queue, {}, c, f) /\ ClearFirst(queue)
  BY <1>0, <1>2 DEF Good, InOrder, Clears
<1>4. CASE TurnedRound(f)
  <2>1. Sorted(queue) /\ \A x \in Range(queue) : ~Matches(x, c)
    BY <1>2, <1>3, <1>4, CutEnds DEF TurnedRound
  <2>2. Holds(steps') = {} /\ ~Removes(steps')
    BY <1>1, <1>4, Phases DEF Holds
  <2>3. InOrder'
    BY <1>1, <1>4, <2>1, <2>2 DEF InOrder
  <2> QED
    BY <1>0, <1>1, <1>2, <1>3, <1>4, <2>1, <2>2, <2>3, RemovalStep
<1>5. CASE ~TurnedRound(f)
  <2>1. queue # <<>> /\ e # f /\ queue' = Tail(queue)
    BY <1>0, <1>1, <1>5 DEF TurnedRound
  <2>2. /\ HasCut(queue', {}, c, f)
        /\ ~Matches(e, c) => HasCut(queue', {e}, c, g)
    BY <1>0, <1>2, <1>3, <2>1, CutTail
  <2>3. ClearFirst(queue') /\ \A x : x \in Range(queue) <=> x \in Range(queue') \/ x = e
    BY <1>0, <1>2, <1>3, <2>1, ClearTail, TakeAway
  <2>4. CASE Matches(e, c)
    <3>1. steps' = steps
      BY <1>1, <1>5, <2>4
    <3>2. InOrder'
      BY <1>0, <1>2, <2>2, <3>1 DEF InOrder
    <3> QED
      BY <1>0, <1>1, <1>2, <2>3, <3>1, <3>2, RemovalStep
  <2>5. CASE ~Matches(e, c)
    <3>1. steps' = <<Removal("return", c, e, g)>>
      BY <1>1, <1>5, <2>5
    <3>2. /\ steps' # <<>> /\ Head(steps').do = "return" /\ Head(steps').client = c
          /\ Head(steps').packet = e /\ Head(steps').first = g
      BY <3>1 DEF Removal
    <3>3. Removes(steps') /\ Holds(steps') = {e}
      BY <3>2 DEF Removes, Holds
    <3>4. InOrder'
      BY <2>2, <2>5, <3>2, <3>3 DEF InOrder
    <3> QED
      BY <1>0, <1>1, <1>2, <2>3, <3>2, <3>3, <3>4, RemovalStep
  <2> QED
    BY <2>4, <2>5
<1> QED
  BY <1>4, <1>5

LEMMA ReturnLine ==
  ASSUME CallInv, Typed', Good, ReturnEvent
  PROVE  Good'
<1>0. PICK s, c, e, f : s = Head(steps) /\ c = s.client /\ e = s.packet /\ f = s.first
  OBVIOUS
<1>1. /\ steps # <<>> /\ s.do = "return" /\ UNCHANGED <<lwip, client, conn, strays, early, polls>>
      /\ queue' = Append(queue, e) /\ steps' = <<Removal("remove", c, Idle, f)>>
  BY <1>0 DEF ReturnEvent, Doing
<1>2. e \in Events /\ queue \in Seq(Events) /\ Removes(steps) /\ Holds(steps) = {e}
  BY <1>0, <1>1, NextSteps DEF CallInv, Typed, Removes, Holds
<1>3. HasCut(queue, {e}, c, f) /\ ClearFirst(queue) /\ e.type # "CLEAR"
  BY <1>0, <1>1, <1>2 DEF Good, InOrder, Clears, NoClear
<1>4. HasCut(queue', {}, c, f)
  BY <1>1, <1>2, <1>3, CutReturns
<1>5. ClearFirst(queue') /\ \A x : x \in Range(queue') <=> x \in Range(queue) \/ x = e
  BY <1>1, <1>2, <1>3, ClearBehind, PutBehind
<1>6. /\ steps' # <<>> /\ Head(steps').do = "remove" /\ Head(steps').client = c
      /\ Head(steps').first = f
  BY <1>1 DEF Removal
<1>7. Removes(steps') /\ Holds(steps') = {}
  BY <1>6 DEF Removes, Holds
<1>8. InOrder'
  BY <1>4, <1>6, <1>7 DEF InOrder
<1> QED
  BY <1>0, <1>1, <1>2, <1>5, <1>6, <1>7, <1>8, RemovalStep

-----------------------------------------------------------------------------
(* The theorems about the order.                                            *)

LEMMA InitLineInv == Init => LineInv
<1> SUFFICES ASSUME Init PROVE Good
  BY DEF LineInv
<1>1. /\ queue = <<>> /\ lwip = Idle /\ steps = <<>> /\ strays = {} /\ early = {}
      /\ client = [c \in Clients |-> NoClient] /\ conn = [c \in Clients |-> NoConnection]
  BY DEF Init
<1>2. /\ ~NoClient.told /\ ~NoClient.pcb /\ NoConnection.is = "none" /\ Idle.type # "CLEAR"
  BY DEF NoClient, NoConnection, Idle
<1>3. Range(queue) = {} /\ Len(queue) = 0 /\ Holds(steps) = {} /\ ~Removes(steps)
  BY <1>1, Phases DEF Range, Holds
<1>4. InOrder /\ LwipLast
  BY <1>1, <1>3 DEF InOrder, Sorted, LwipLast
<1>5. Clears
  BY <1>1, <1>2, <1>3 DEF Clears, ClearFirst
<1>6. ASSUME NEW c \in Clients PROVE Ordered(c)
  <2>1. client[c] = NoClient /\ conn[c] = NoConnection
    BY <1>1
  <2>2. /\ Of(c) = {} /\ ~Busy(steps, c) /\ ~Finishing(steps, c) /\ steps # Closing2(c)
    BY <1>1, <1>3, Phases DEF Of, Waiting
  <2>3. NotBegun(c) /\ Accepted(c) /\ Numbered(c) /\ Finned(c)
    BY <1>2, <2>1, <2>2 DEF NotBegun, Accepted, Numbered, Finned
  <2>4. InHand(c) /\ Told(c) /\ Gone(c)
    BY <1>2, <2>1, <2>2 DEF InHand, Told, Gone
  <2> QED
    BY <2>3, <2>4 DEF Ordered
<1> QED
  BY <1>1, <1>4, <1>5, <1>6 DEF Good

LEMMA StaysRaced ==
  ASSUME [Next]_vars, ~raced'
  PROVE  ~raced /\ (Deliver => ~Removing)
<1>1. ASSUME Deliver PROVE ~raced /\ ~Removing
  <2>1. raced' = (raced \/ Removing)
    BY <1>1 DEF Deliver
  <2> QED
    BY <2>1
<1>2. ASSUME NEW c \in Clients,
             \/ Connect(c) \/ Lookup(c) \/ DnsFound(c) \/ Accept(c) \/ Established(c) \/ Data(c)
             \/ PollTimer(c) \/ Fin(c) \/ Reset(c)
      PROVE  raced' = raced
  BY <1>2 DEF Connect, Lookup, DnsFound, Accept, Established, Data, PollTimer, Fin, Reset, Callback
<1>3. ASSUME NEW c \in Clients, Handle(c) PROVE raced' = raced
  <2>1. \E t : Taking(t, c)
    BY <1>3 DEF Handle, Stray, HandleAccept, HandleConnected, HandleDns, HandleRecv, HandlePoll,
                HandleFin, HandleError, HandleClear
  <2> QED
    BY <2>1 DEF Taking
<1>4. CASE Recved \/ Detach \/ Clear \/ Close \/ Discard \/ RemoveEvent \/ ReturnEvent
  <2>1. raced' = raced
    BY <1>4 DEF Recved, Detach, Clear, Close, Discard, RemoveEvent, ReturnEvent, ApiCall
  <2> QED
    BY <1>1, <2>1
<1>5. CASE UNCHANGED vars
  <2>1. raced' = raced
    BY <1>5 DEF vars, history
  <2> QED
    BY <1>1, <2>1
<1> QED
  BY <1>1, <1>2, <1>3, <1>4, <1>5 DEF Next, Lwip, Async

LEMMA NextLineInv ==
  ASSUME CallInv, LineInv, [Next]_vars
  PROVE  LineInv'
<1>1. CallInv' /\ Typed'
  BY NextCallInv DEF CallInv
<1> SUFFICES ASSUME ~raced' PROVE Good'
  BY DEF LineInv
<1>2. CASE Next
  <2>1. Good /\ (Deliver => ~Removing)
    BY StaysRaced DEF LineInv
  <2>2. CASE Deliver
    BY <1>1, <2>1, <2>2, DeliverLine
  <2>3. ASSUME NEW c \in Clients,
               \/ Connect(c) \/ Lookup(c) \/ DnsFound(c) \/ Accept(c) \/ Established(c) \/ Data(c)
               \/ PollTimer(c) \/ Fin(c) \/ Reset(c)
        PROVE  Good'
    BY <1>1, <2>1, <2>3, ConnectLine, DnsLine, AcceptLine, EstablishedLine, DataLine, PollLine,
       FinLine, ResetLine
  <2>4. ASSUME NEW c \in Clients, Handle(c) PROVE Good'
    BY <1>1, <2>1, <2>4, StrayLine, HandleQuietly, ConnectedLine, FinHandled, ErrorLine, ClearHandled
    DEF Handle
  <2>5. CASE Recved \/ Detach \/ Clear \/ Close \/ Discard \/ RemoveEvent \/ ReturnEvent
    BY <1>1, <2>1, <2>5, RecvedLine, DetachLine, ClearLine, CloseLine, DiscardLine, RemoveLine,
       ReturnLine
  <2> QED
    BY <1>2, <2>2, <2>3, <2>4, <2>5 DEF Next, Lwip, Async
<1>3. CASE UNCHANGED vars
  <2>1. UNCHANGED <<queue, lwip, steps, client, conn, strays, early, polls>>
    BY <1>3 DEF vars, taskVars, history
  <2>2. Good
    BY StaysRaced DEF LineInv
  <2>3. InOrder' /\ LwipLast' /\ Clears' /\ strays' = {}
    BY <2>1, <2>2 DEF Good, InOrder, LwipLast, Clears
  <2>4. ASSUME NEW d \in Clients PROVE Spared(d)
    <3>1. Waiting' = Waiting /\ (ClearOf(d) => ClearOf(d)')
      BY <2>1 DEF Waiting, ClearOf
    <3>2. Of(d)' = Of(d)
      BY <3>1 DEF Of
    <3>3. Over(d) => Over(d)'
      BY <2>1, <3>1, <3>2, OverKept
    <3>4. conn[d].sent \in Nat /\ polls \in Nat
      BY DEF CallInv, Typed, ConnRecords
    <3> QED
      BY <2>1, <3>1, <3>2, <3>3, <3>4 DEF Spared
  <2> QED
    BY <1>1, <2>2, <2>3, <2>4, NoChanges
<1> QED
  BY <1>2, <1>3

\* Lines 598-619 and 681-688: whichever thread goes on when, however many clients
\* and events there are and however long the queue is, no event of a client that
\* the user deleted in onDisconnect reaches the client, unless lwIP's thread puts
\* an event while events are being removed.
THEOREM DeletedIsLeftAlone == Spec => []NoStrays
<1>1. CallInv /\ LineInv /\ [Next]_vars => CallInv' /\ LineInv'
  BY NextCallInv, NextLineInv
<1>2. LineInv => NoStrays
  BY DEF LineInv, Good, NoStrays
<1> QED
  BY InitCallInv, InitLineInv, <1>1, <1>2, PTL DEF Spec

\* Lines 663-688: however the threads interleave, a client whose user was told of
\* its end has no pcb, so that it can be connected again.  Excepted are a FIN that
\* came before CONNECTED was handled and an event put while events are being removed.
THEOREM ConnectsAgain == Spec => []ReadyAgain
<1>1. CallInv /\ LineInv /\ [Next]_vars => CallInv' /\ LineInv'
  BY NextCallInv, NextLineInv
<1>2. LineInv => ReadyAgain
  BY DEF LineInv, Good, Ordered, Told, Unset, ReadyAgain
<1> QED
  BY InitCallInv, InitLineInv, <1>1, <1>2, PTL DEF Spec

-----------------------------------------------------------------------------
(* The data.                                                                *)

Datum(c, n) == Event("RECV", c, n)
Upto(k) == [i \in 1..k |-> i]

\* The handler closes c and has not removed its callbacks yet.
Detaching(s, c) == s = CloseSteps(c) \/ \E n \in Int : s = Polled(c, n)
Acking(s, c) == \E n \in Int : s \in {<<Step("recved", c, n)>>, <<Step("ack", c, n)>>}

\* The user has been given c, or will be.
Introduced(c) ==
  conn[c].is # "none" => client[c].known \/ Event("ACCEPT", c, 0) \in Of(c)

Unread(c) ==
  conn[c].is \in {"none", "opening"} =>
    /\ got[c] = Upto(0) /\ conn[c].sent = 0 /\ conn[c].window = 0
    /\ conn[c].is = "opening" => client[c].later = 0

\* What c's handler was given, and what is on its way, is what came.
WholeTo(c, k) ==
  /\ got[c] = Upto(k)
  /\ \A n \in 1..conn[c].sent : k < n => Datum(c, n) \in Of(c)
  /\ \A e \in Of(c) : e.type = "RECV" => e.n > k
Whole(c) ==
  client[c].exists /\ client[c].attached => \E k \in 0..conn[c].sent : WholeTo(c, k)

\* The events of c are removed, or c's user told of the end, only when no data is
\* on its way, unless _close has removed the callbacks.
Ends(c) == ClearOf(c) \/ RemovesOf(steps, c) \/ Finishing(steps, c)
Spent(c) ==
  client[c].attached /\ Ends(c) => conn[c].is # "open" /\ \A e \in Of(c) : e.type # "RECV"

Live(c) == conn[c].is = "open" /\ client[c].attached
HasPcb(c) == Live(c) => client[c].pcb \/ Connected(c) \in Of(c)

\* What is not acknowledged yet waits, or is counted, or will be at once.
Balance(c) ==
  Live(c) /\ ~Detaching(steps, c) =>
    conn[c].window = (conn[c].sent - Len(got[c])) + client[c].later
                     + IF steps = <<Step("recved", c, 1)>> THEN 1 ELSE 0
Fit(c) ==
  /\ Detaching(steps, c) /\ Live(c) => client[c].pcb
  /\ \A n \in Int : /\ steps = <<Step("recved", c, n)>> => n = 1
                    /\ steps = <<Step("ack", c, n)>> => n = client[c].later

Flows(c) ==
  Introduced(c) /\ Unread(c) /\ Whole(c) /\ Spent(c) /\ HasPcb(c) /\ Balance(c) /\ Fit(c)
AllFlow == \A c \in Clients : Flows(c)
DataInv == got \in [Clients -> Seq(Nat)] /\ (~raced => AllFlow)

LEMMA UptoFacts ==
  /\ Upto(0) = <<>>
  /\ \A k \in Nat : /\ Upto(k) \in Seq(Nat) /\ Len(Upto(k)) = k
                    /\ Append(Upto(k), k + 1) = Upto(k + 1)
<1>1. ASSUME NEW k \in Nat
      PROVE  /\ Upto(k) \in Seq(Nat) /\ Len(Upto(k)) = k
             /\ \A i \in 1..k : Upto(k)[i] = i
  <2>1. Upto(k) \in [1..k -> Nat]
    BY DEF Upto
  <2> QED
    BY <2>1 DEF Upto
<1>2. ASSUME NEW k \in Nat PROVE Append(Upto(k), k + 1) = Upto(k + 1)
  <2> DEFINE s == Upto(k)
             t == Upto(k + 1)
             u == Append(s, k + 1)
  <2>1. /\ s \in Seq(Nat) /\ Len(s) = k /\ \A i \in 1..k : s[i] = i
        /\ t \in Seq(Nat) /\ Len(t) = k + 1 /\ \A i \in 1..(k + 1) : t[i] = i
        /\ k + 1 \in Nat
    BY <1>1
  <2> HIDE DEF s, t
  <2>2. /\ u \in Seq(Nat) /\ Len(u) = k + 1
        /\ \A i \in 1..k : u[i] = i
        /\ u[k + 1] = k + 1
    BY <2>1, AppendProperties
  <2> HIDE DEF u
  <2>3. Len(t) = Len(u) /\ \A i \in 1..Len(u) : u[i] = t[i]
    BY <2>1, <2>2
  <2>4. u = t
    BY <2>1, <2>2, <2>3, SeqEqual
  <2> QED
    BY <2>4 DEF s, t, u
<1>3. Upto(0) = <<>>
  BY DEF Upto
<1> QED
  BY <1>1, <1>2, <1>3

\* A handler that does something for c is c's.
LEMMA OnlyBusy ==
  ASSUME NEW s, NEW c, ~Busy(s, c)
  PROVE  ~Finishing(s, c) /\ ~RemovesOf(s, c) /\ ~Detaching(s, c) /\ ~Acking(s, c)
<1>1. ~Finishing(s, c) /\ ~RemovesOf(s, c)
  BY Phases DEF Busy, RemovesOf, Removes
<1>2. ~Detaching(s, c)
  <2>1. s # CloseSteps(c)
    <3>1. CloseSteps(c) # <<>> /\ Head(CloseSteps(c)).client = c
      BY DEF CloseSteps, Step
    <3> QED
      BY <3>1 DEF Busy
  <2>2. ASSUME NEW n \in Int PROVE s # Polled(c, n)
    <3>1. Polled(c, n) # <<>> /\ Head(Polled(c, n)).client = c
      BY Rests DEF Step
    <3> QED
      BY <3>1 DEF Busy
  <2> QED
    BY <2>1, <2>2 DEF Detaching
<1>3. ~Acking(s, c)
  BY DEF Acking, Busy, Step
<1> QED
  BY <1>1, <1>2, <1>3

\* What a handler that does not acknowledge and does not close has to fit.
LEMMA FitsSteps ==
  ASSUME NEW c, ~Detaching(steps, c), ~Acking(steps, c)
  PROVE  Fit(c) /\ steps # <<Step("recved", c, 1)>>
BY DEF Fit, Acking

LEMMA Alike ==
  ASSUME NEW c \in Clients, Flows(c), client'[c] = client[c], conn'[c] = conn[c],
         got'[c] = got[c], Of(c)' = Of(c), ClearOf(c)' => ClearOf(c),
         steps' = steps \/ (~Busy(steps, c) /\ ~Busy(steps', c))
  PROVE  Flows(c)'
<1>1. Introduced(c)' /\ Unread(c)' /\ Whole(c)' /\ HasPcb(c)' /\ (Live(c)' <=> Live(c))
  BY DEF Flows, Introduced, Unread, Whole, WholeTo, HasPcb, Live
<1>2. CASE steps' = steps
  <2>1. Spent(c)'
    BY <1>2 DEF Flows, Spent, Ends
  <2>2. Balance(c)' /\ Fit(c)'
    BY <1>1, <1>2 DEF Flows, Balance, Fit
  <2> QED
    BY <1>1, <2>1, <2>2 DEF Flows
<1>3. CASE ~Busy(steps, c) /\ ~Busy(steps', c)
  <2>1. /\ ~Finishing(steps', c) /\ ~RemovesOf(steps', c) /\ ~Detaching(steps', c)
        /\ ~Acking(steps', c) /\ ~Detaching(steps, c) /\ ~Acking(steps, c)
    BY <1>3, OnlyBusy
  <2>2. Spent(c)'
    BY <2>1 DEF Flows, Spent, Ends
  <2>3. /\ Fit(c)' /\ steps' # <<Step("recved", c, 1)>> /\ steps # <<Step("recved", c, 1)>>
    BY <2>1 DEF Fit, Acking
  <2>4. Balance(c)'
    BY <1>1, <2>1, <2>3 DEF Flows, Balance
  <2> QED
    BY <1>1, <2>2, <2>3, <2>4 DEF Flows
<1> QED
  BY <1>2, <1>3

-----------------------------------------------------------------------------
(* The data and the steps of lwIP's thread.                                 *)

LEMMA NewWaits ==
  ASSUME lwip = Idle, UNCHANGED <<queue, steps>>, NEW c, lwip' = Idle \/ lwip'.client = c
  PROVE  /\ \A d : ClearOf(d)' => ClearOf(d)
         /\ \A d : d # c => Of(d)' = Of(d)
         /\ Of(c)' = Of(c) \cup ({lwip'} \ {Idle})
<1>1. Waiting' \ {Idle} = (Waiting \ {Idle}) \cup ({lwip'} \ {Idle})
  BY DEF Waiting
<1>2. \A d : Of(d) = {e \in Waiting \ {Idle} : e.client = d}
  BY DEF Of
<1>3. \A d : Of(d)' = {e \in Waiting' \ {Idle} : e.client = d}
  BY DEF Of
<1>4. \A d : d # c => Of(d)' = Of(d)
  BY <1>1, <1>2, <1>3
<1>5. Of(c)' = Of(c) \cup ({lwip'} \ {Idle})
  BY <1>1, <1>2, <1>3
<1> QED
  BY <1>4, <1>5 DEF ClearOf

LEMMA CallbackFlows ==
  ASSUME AllFlow, lwip = Idle, UNCHANGED <<queue, steps, got>>, NEW c \in Clients,
         lwip' = Idle \/ lwip'.client = c,
         \A d \in Clients : d # c => client'[d] = client[d] /\ conn'[d] = conn[d],
         Flows(c)'
  PROVE  AllFlow'
<1>1. ASSUME NEW d \in Clients, d # c PROVE Flows(d)'
  <2>1. Of(d)' = Of(d) /\ (ClearOf(d)' => ClearOf(d))
    BY <1>1, NewWaits
  <2> QED
    BY <1>1, <2>1, Alike DEF AllFlow
<1> QED
  BY <1>1 DEF AllFlow

\* A callback that brings no data, of a connection that had begun.
LEMMA QuietCallback ==
  ASSUME lwip = Idle, UNCHANGED <<queue, steps, got>>, NEW c \in Clients, Flows(c),
         lwip' = Idle \/ (lwip'.client = c /\ lwip'.type # "RECV"),
         client'[c].known = client[c].known, client'[c].exists = client[c].exists,
         client'[c].later = client[c].later, client'[c].attached => client[c].attached,
         conn'[c].sent = conn[c].sent, conn'[c].window = conn[c].window,
         conn[c].is # "none", conn'[c].is \notin {"none", "opening"},
         conn'[c].is = "open" => conn[c].is = "open",
         Live(c)' => client'[c].pcb = client[c].pcb
  PROVE  Flows(c)'
<1>1. /\ Of(c) \subseteq Of(c)' /\ \A e \in Of(c)' : e.type = "RECV" => e \in Of(c)
      /\ ClearOf(c)' => ClearOf(c)
  BY NewWaits
<1>2. Introduced(c)' /\ Unread(c)' /\ HasPcb(c)' /\ (Live(c)' => Live(c))
  BY <1>1 DEF Flows, Introduced, Unread, HasPcb, Live
<1>3. Whole(c)'
  BY <1>1 DEF Flows, Whole, WholeTo
<1>4. Spent(c)'
  BY <1>1 DEF Flows, Spent, Ends
<1>5. Balance(c)' /\ Fit(c)'
  BY <1>2 DEF Flows, Balance, Fit
<1> QED
  BY <1>2, <1>3, <1>4, <1>5 DEF Flows

\* A connection that begins.
LEMMA BeginningFlows ==
  ASSUME NEW c \in Clients, CallInv, Good, Flows(c), lwip = Idle, UNCHANGED <<queue, steps, got>>,
         conn[c].is \in {"none", "opening"}, conn'[c].is # "none",
         lwip' = Idle \/ (lwip'.client = c /\ lwip'.type # "RECV"),
         conn'[c].sent = conn[c].sent, conn'[c].window = conn[c].window,
         client'[c].later = 0, Introduced(c)', HasPcb(c)'
  PROVE  Flows(c)'
<1>1. Of(c) = {} /\ ~Busy(steps, c)
  BY DEF Good, Ordered, NotBegun
<1>2. /\ \A e \in Of(c)' : e.type # "RECV"
      /\ ~ClearOf(c)'
  <2>1. (\A e \in Of(c)' : e.type # "RECV") /\ (ClearOf(c)' => ClearOf(c))
    BY <1>1, NewWaits
  <2>2. ~ClearOf(c)
    <3>1. Event("CLEAR", c, 0) # Idle /\ Event("CLEAR", c, 0).client = c
      <4>1. "CLEAR" \in EventTypes
        BY DEF EventTypes
      <4> QED
        BY <4>1, EventTyped DEF Event
    <3>2. ClearOf(c) => Event("CLEAR", c, 0) \in Of(c)
      BY <3>1 DEF ClearOf, Of, Waiting
    <3> QED
      BY <1>1, <3>2
  <2> QED
    BY <2>1, <2>2
<1>3. /\ ~Finishing(steps, c) /\ ~RemovesOf(steps, c) /\ ~Detaching(steps, c)
      /\ ~Acking(steps, c)
  BY <1>1, OnlyBusy
<1>4. got'[c] = Upto(0) /\ conn'[c].sent = 0 /\ conn'[c].window = 0 /\ Len(Upto(0)) = 0
  BY UptoFacts DEF Flows, Unread
<1>5. Unread(c)'
  BY <1>4 DEF Unread, Upto
<1>6. Whole(c)'
  <2>1. WholeTo(c, 0)'
    BY <1>2, <1>4 DEF WholeTo, Upto
  <2> QED
    BY <1>4, <2>1 DEF Whole
<1>7. Spent(c)'
  BY <1>2, <1>3 DEF Spent, Ends
<1>8. Fit(c)' /\ steps # <<Step("recved", c, 1)>>
  BY <1>3 DEF Fit, Acking
<1>9. Balance(c)'
  BY <1>4, <1>8 DEF Balance
<1> QED
  BY <1>5, <1>6, <1>7, <1>8, <1>9 DEF Flows


LEMMA ConnectFlows ==
  ASSUME CallInv, Good, AllFlow, NEW c \in Clients, Connect(c) \/ Lookup(c)
  PROVE  AllFlow'
<1>1. /\ lwip = Idle /\ lwip' = Idle /\ UNCHANGED <<queue, steps, got>> /\ conn[c].is = "none"
  BY DEF Connect, Lookup, Callback
<1>2. client \in [Clients -> ClientRecords] /\ conn \in [Clients -> ConnRecords]
  BY DEF CallInv, Typed
<1>3. \A d \in Clients : d # c => client'[d] = client[d] /\ conn'[d] = conn[d]
  BY <1>2 DEF Connect, Lookup
<1>4. client'[c].known /\ client'[c].later = 0
  <2>1. CASE Connect(c)
    BY <1>2, <2>1 DEF Connect, NoClient
  <2>2. CASE Lookup(c)
    BY <1>2, <2>2 DEF Lookup, NoClient
  <2> QED
    BY <2>1, <2>2
<1>5. /\ conn'[c].is \in {"opening", "resolving"}
      /\ conn'[c].sent = conn[c].sent /\ conn'[c].window = conn[c].window
  BY <1>2 DEF Connect, Lookup, ConnRecords
<1>6. Introduced(c)' /\ HasPcb(c)'
  BY <1>4, <1>5 DEF Introduced, HasPcb, Live
<1>7. Flows(c)'
  BY <1>1, <1>4, <1>5, <1>6, BeginningFlows DEF AllFlow
<1> QED
  BY <1>1, <1>3, <1>7, CallbackFlows

LEMMA AcceptFlows ==
  ASSUME CallInv, Good, AllFlow, NEW c \in Clients, Accept(c)
  PROVE  AllFlow'
<1>1. /\ lwip = Idle /\ lwip' = Event("ACCEPT", c, 0) /\ UNCHANGED <<queue, steps, got>>
      /\ conn[c].is = "none"
  BY DEF Accept, Callback
<1>2. client \in [Clients -> ClientRecords] /\ conn \in [Clients -> ConnRecords]
  BY DEF CallInv, Typed
<1>3. \A d \in Clients : d # c => client'[d] = client[d] /\ conn'[d] = conn[d]
  BY <1>2 DEF Accept
<1>4. client'[c].pcb /\ client'[c].later = 0
  BY <1>2 DEF Accept, NoClient
<1>5. /\ conn'[c].is = "open"
      /\ conn'[c].sent = conn[c].sent /\ conn'[c].window = conn[c].window
  BY <1>2 DEF Accept, ConnRecords
<1>6. lwip' # Idle /\ lwip'.client = c /\ lwip'.type # "RECV"
  BY <1>1 DEF Event, Idle
<1>7. Event("ACCEPT", c, 0) \in Of(c)'
  BY <1>1, <1>6 DEF Of, Waiting
<1>8. Introduced(c)' /\ HasPcb(c)'
  <2>1. Introduced(c)'
    BY <1>7 DEF Introduced
  <2> QED
    BY <1>4, <2>1 DEF HasPcb
<1>9. Flows(c)'
  BY <1>1, <1>4, <1>5, <1>6, <1>8, BeginningFlows DEF AllFlow
<1> QED
  BY <1>1, <1>3, <1>6, <1>9, CallbackFlows

LEMMA EstablishedFlows ==
  ASSUME CallInv, Good, AllFlow, NEW c \in Clients, Established(c)
  PROVE  AllFlow'
<1>1. /\ lwip = Idle /\ UNCHANGED <<queue, steps, got, client>>
      /\ conn[c].is = "opening" /\ conn' = [conn EXCEPT ![c].is = "open"]
  BY DEF Established, Callback
<1>2. conn \in [Clients -> ConnRecords]
  BY DEF CallInv, Typed
<1>3. /\ conn'[c].is = "open" /\ conn'[c].sent = conn[c].sent /\ conn'[c].window = conn[c].window
      /\ \A d \in Clients : d # c => conn'[d] = conn[d]
  BY <1>1, <1>2 DEF ConnRecords
<1>4. lwip' = Connected(c)
  BY <1>1 DEF CallInv, Fine, Opening, Established, Put, Connected
<1>5. lwip' # Idle /\ lwip'.client = c /\ lwip'.type # "RECV"
  BY <1>4 DEF Event, Idle, Connected
<1>6. Connected(c) \in Of(c)' /\ Of(c)' = Of(c) \cup {lwip'}
  <2>1. Of(c)' = Of(c) \cup ({lwip'} \ {Idle})
    BY <1>1, <1>5, NewWaits
  <2> QED
    BY <1>4, <1>5, <2>1
<1>7. Introduced(c)'
  BY <1>1, <1>6 DEF AllFlow, Flows, Introduced
<1>8. HasPcb(c)'
  BY <1>6 DEF HasPcb
<1>9. client'[c].later = 0
  BY <1>1 DEF AllFlow, Flows, Unread
<1>10. Flows(c)'
  BY <1>1, <1>3, <1>5, <1>7, <1>8, <1>9, BeginningFlows DEF AllFlow
<1> QED
  BY <1>1, <1>3, <1>5, <1>10, CallbackFlows

\* DNS, POLL and ERROR, which change nothing of the client.
LEMMA NothingNew ==
  ASSUME CallInv, AllFlow, NEW c \in Clients, DnsFound(c) \/ PollTimer(c) \/ Reset(c)
  PROVE  AllFlow'
<1>1. /\ lwip = Idle /\ UNCHANGED <<queue, steps, got, client>>
      /\ conn[c].is \in {"resolving", "opening", "open", "half"}
  BY DEF DnsFound, PollTimer, Reset, Callback
<1>2. conn \in [Clients -> ConnRecords]
  BY DEF CallInv, Typed
<1>3. /\ conn'[c].is \in {"resolved", "open", "half", "reset"}
      /\ conn'[c].is = "open" => conn[c].is = "open"
      /\ conn'[c].sent = conn[c].sent /\ conn'[c].window = conn[c].window
      /\ \A d \in Clients : d # c => conn'[d] = conn[d]
  BY <1>2 DEF DnsFound, PollTimer, Reset, ConnRecords
<1>4. lwip' = Idle \/ (lwip'.client = c /\ lwip'.type # "RECV")
  BY DEF DnsFound, PollTimer, Reset, Put, Event
<1>5. Flows(c)'
  <2>1. Flows(c)
    BY DEF AllFlow
  <2> QED
    BY <1>1, <1>3, <1>4, <2>1, QuietCallback
<1> QED
  BY <1>1, <1>3, <1>4, <1>5, CallbackFlows

LEMMA FinFlows ==
  ASSUME CallInv, AllFlow, NEW c \in Clients, Fin(c)
  PROVE  AllFlow'
<1>1. /\ lwip = Idle /\ UNCHANGED <<queue, steps, got>> /\ conn[c].is = "open"
  BY DEF Fin, Callback
<1>2. client \in [Clients -> ClientRecords] /\ conn \in [Clients -> ConnRecords]
  BY DEF CallInv, Typed
<1>3. /\ conn'[c].is \in {"finished", "half"}
      /\ conn'[c].sent = conn[c].sent /\ conn'[c].window = conn[c].window
      /\ \A d \in Clients : d # c => conn'[d] = conn[d]
  BY <1>2 DEF Fin, ConnRecords
<1>4. /\ client'[c].known = client[c].known /\ client'[c].exists = client[c].exists
      /\ client'[c].later = client[c].later /\ (client'[c].attached => client[c].attached)
      /\ \A d \in Clients : d # c => client'[d] = client[d]
  BY <1>2 DEF Fin, Finished, ClientRecords
<1>5. lwip' = Idle \/ (lwip'.client = c /\ lwip'.type # "RECV")
  BY DEF Fin, Put, Event
<1>6. Flows(c)'
  <2>1. Flows(c) /\ ~Live(c)'
    BY <1>3 DEF AllFlow, Live
  <2> QED
    BY <1>1, <1>3, <1>4, <1>5, <2>1, QuietCallback
<1> QED
  BY <1>1, <1>3, <1>4, <1>5, <1>6, CallbackFlows

LEMMA DataFlows ==
  ASSUME CallInv, AllFlow, got \in [Clients -> Seq(Nat)], NEW c \in Clients, Data(c)
  PROVE  AllFlow'
<1>1. /\ lwip = Idle /\ UNCHANGED <<queue, steps, got, client>> /\ conn[c].is = "open"
      /\ conn' = [conn EXCEPT ![c].sent = @ + 1, ![c].window = @ + 1]
  BY DEF Data, Callback
<1>2. /\ conn \in [Clients -> ConnRecords]
      /\ conn[c].sent \in Nat /\ conn[c].window \in Int /\ client[c].later \in Int
      /\ Len(got[c]) \in Nat
  BY DEF CallInv, Typed, ConnRecords, ClientRecords
<1>3. /\ conn'[c].is = "open"
      /\ conn'[c].sent = conn[c].sent + 1 /\ conn'[c].window = conn[c].window + 1
      /\ \A d \in Clients : d # c => conn'[d] = conn[d]
  BY <1>1, <1>2 DEF ConnRecords
<1>4. lwip' = IF client[c].attached THEN Datum(c, conn[c].sent + 1) ELSE Idle
  BY DEF Data, Put, Datum
<1>5. /\ client[c].attached => /\ lwip' # Idle /\ lwip'.client = c
                               /\ lwip'.type = "RECV" /\ lwip'.n = conn[c].sent + 1
      /\ ~client[c].attached => lwip' = Idle
  BY <1>4 DEF Datum, Event, Idle
<1>6. Of(c)' = Of(c) \cup ({lwip'} \ {Idle}) /\ (ClearOf(c)' => ClearOf(c))
  BY <1>1, <1>5, NewWaits
<1>7. Flows(c)
  BY DEF AllFlow
<1>8. Introduced(c)' /\ Unread(c)' /\ HasPcb(c)'
  BY <1>1, <1>3, <1>6, <1>7 DEF Flows, Introduced, Unread, HasPcb, Live
<1>9. Whole(c)'
  <2> SUFFICES ASSUME client[c].exists, client[c].attached
               PROVE  \E k \in 0..conn'[c].sent : WholeTo(c, k)'
    BY <1>1 DEF Whole
  <2>1. PICK k \in 0..conn[c].sent : WholeTo(c, k)
    BY <1>7 DEF Flows, Whole
  <2>2. k \in 0..conn'[c].sent
    BY <1>2, <1>3, <2>1
  <2> DEFINE s == conn[c].sent
             t == conn'[c].sent
  <2>6. s \in Nat /\ t = s + 1
    BY <1>2, <1>3
  <2>3. ASSUME NEW n \in 1..conn'[c].sent, k < n PROVE Datum(c, n) \in Of(c)'
    <3>1. CASE n = conn[c].sent + 1
      BY <1>4, <1>5, <1>6, <3>1
    <3>2. CASE n # conn[c].sent + 1
      <4>1. n \in 1..t /\ n # s + 1
        BY <3>2
      <4>2. n \in 1..s
        <5> HIDE DEF s, t
        <5> QED
          BY <2>6, <4>1
      <4> QED
        BY <1>6, <2>1, <2>3, <4>2 DEF WholeTo
    <3> QED
      BY <3>1, <3>2
  <2>4. ASSUME NEW e \in Of(c)', e.type = "RECV" PROVE e.n > k
    <3>1. CASE e = lwip'
      BY <1>2, <1>5, <2>1, <3>1
    <3>2. CASE e \in Of(c)
      BY <2>1, <2>4, <3>2 DEF WholeTo
    <3> QED
      BY <1>6, <3>1, <3>2
  <2>5. WholeTo(c, k)'
    BY <1>1, <2>1, <2>3, <2>4 DEF WholeTo
  <2> QED
    BY <2>2, <2>5
<1>10. Spent(c)'
  <2>1. ~(client[c].attached /\ Ends(c))
    BY <1>1, <1>7 DEF Flows, Spent
  <2> QED
    BY <1>1, <1>6, <2>1 DEF Spent, Ends
<1>11. Live(c)' <=> Live(c)
  BY <1>1, <1>3 DEF Live
<1>12. Balance(c)'
  <2> SUFFICES ASSUME Live(c), ~Detaching(steps, c)
               PROVE  conn'[c].window = (conn'[c].sent - Len(got[c])) + client[c].later
                                        + IF steps = <<Step("recved", c, 1)>> THEN 1 ELSE 0
    BY <1>1, <1>11 DEF Balance
  <2>1. conn[c].window = (conn[c].sent - Len(got[c])) + client[c].later
                         + IF steps = <<Step("recved", c, 1)>> THEN 1 ELSE 0
    BY <1>7 DEF Flows, Balance
  <2> QED
    BY <1>2, <1>3, <2>1
<1>13. Fit(c)'
  BY <1>1, <1>7, <1>11 DEF Flows, Fit
<1>14. Flows(c)'
  BY <1>8, <1>9, <1>10, <1>12, <1>13 DEF Flows
<1> QED
  BY <1>1, <1>3, <1>5, <1>14, CallbackFlows

LEMMA DeliverFlows ==
  ASSUME CallInv, Good, AllFlow, Deliver
  PROVE  AllFlow'
<1>1. /\ lwip # Idle /\ lwip' = Idle /\ UNCHANGED <<steps, client, conn, got>>
      /\ queue' = IF InFront(lwip) THEN <<lwip>> \o queue ELSE Append(queue, lwip)
  BY DEF Deliver
<1>2. queue \in Seq(Events) /\ lwip \in Events /\ lwip.type # "CLEAR"
  BY <1>1 DEF CallInv, Typed, Good, Clears
<1>3. \A x : x \in Range(queue') <=> x \in Range(queue) \/ x = lwip
  BY <1>1, <1>2, PutInFront, PutBehind
<1>4. Waiting' \ {Idle} = Waiting \ {Idle}
  BY <1>1, <1>3 DEF Waiting
<1>5. ASSUME NEW d \in Clients PROVE Flows(d)'
  <2>1. Of(d)' = Of(d)
    BY <1>4 DEF Of
  <2>2. ClearOf(d)' => ClearOf(d)
    BY <1>2, <1>3 DEF ClearOf, Event
  <2> QED
    BY <1>1, <2>1, <2>2, Alike DEF AllFlow
<1> QED
  BY <1>5 DEF AllFlow


-----------------------------------------------------------------------------
(* The data and the events that the async task takes.                       *)

LEMMA Acks ==
  ASSUME NEW c \in Clients
  PROVE  \A n \in Int :
           /\ ~Detaching(<<Step("recved", c, n)>>, c) /\ ~Detaching(<<Step("ack", c, n)>>, c)
           /\ Detaching(Polled(c, n), c) /\ ~Acking(Polled(c, n), c)
           /\ \A m : /\ <<Step("recved", c, n)>> = <<Step("recved", c, m)>> => m = n
                     /\ <<Step("ack", c, n)>> = <<Step("ack", c, m)>> => m = n
                     /\ <<Step("recved", c, n)>> # <<Step("ack", c, m)>>
<1> SUFFICES ASSUME NEW n \in Int
             PROVE  /\ ~Detaching(<<Step("recved", c, n)>>, c) /\ ~Detaching(<<Step("ack", c, n)>>, c)
                    /\ Detaching(Polled(c, n), c) /\ ~Acking(Polled(c, n), c)
                    /\ \A m : /\ <<Step("recved", c, n)>> = <<Step("recved", c, m)>> => m = n
                              /\ <<Step("ack", c, n)>> = <<Step("ack", c, m)>> => m = n
                              /\ <<Step("recved", c, n)>> # <<Step("ack", c, m)>>
  OBVIOUS
<1>1. \A m : /\ Step("recved", c, n) = Step("recved", c, m) => m = n
             /\ Step("ack", c, n) = Step("ack", c, m) => m = n
             /\ Step("recved", c, n) # Step("ack", c, m)
  BY DEF Step
<1>2. CloseSteps(c) # <<>> /\ Len(CloseSteps(c)) = 4
  BY DEF CloseSteps
<1>3. \A m : Tail(Polled(c, m)) = CloseSteps(c)
  BY Rests
<1>4. \A x : Tail(<<x>>) = <<>> /\ Len(<<x>>) = 1
  OBVIOUS
<1>5. ASSUME NEW x PROVE <<x>> # CloseSteps(c) /\ \A m : <<x>> # Polled(c, m)
  <2>1. Tail(<<x>>) = <<>> /\ Len(<<x>>) = 1
    BY <1>4
  <2>2. <<x>> # CloseSteps(c)
    BY <1>2, <2>1
  <2>3. ASSUME NEW m, <<x>> = Polled(c, m) PROVE FALSE
    BY <1>2, <1>3, <2>1, <2>3, Zenon
  <2> QED
    BY <2>2, <2>3
<1> QED
  BY <1>1, <1>5 DEF Detaching, Acking

LEMMA OtherStep ==
  ASSUME NEW s, s # <<>>, Head(s).do \notin {"recved", "ack", "detach"}, NEW c
  PROVE  ~Detaching(s, c) /\ ~Acking(s, c)
<1>1. /\ \A n : /\ Head(<<Step("recved", c, n)>>).do = "recved"
               /\ Head(<<Step("ack", c, n)>>).do = "ack"
      /\ \A n : Head(Polled(c, n)).do = "recved"
      /\ Head(CloseSteps(c)).do = "detach"
  BY Rests DEF Step
<1> QED
  BY <1>1 DEF Detaching, Acking

LEMMA TakenOf ==
  ASSUME CallInv, Good, NEW c \in Clients, NEW t, Taking(t, c), Holds(steps') = {}
  PROVE  /\ steps = <<>> /\ UNCHANGED conn /\ conn[c].is \notin {"none", "opening"}
         /\ \A d \in Clients : d # c => Of(d)' = Of(d)
         /\ \A d : ClearOf(d)' => ClearOf(d)
         /\ t \notin {"ACCEPT", "CONNECTED"} => ~ClearOf(c)'
         /\ t = "CLEAR" => ClearOf(c)
         /\ \E e \in Of(c) : /\ e = Head(queue) /\ e.type = t /\ Of(c) = Of(c)' \cup {e}
                             /\ \A f \in Of(c)' : MayPrecede(e, f)
<1> DEFINE e == Head(queue)
<1>1. /\ steps = <<>> /\ queue # <<>> /\ queue' = Tail(queue) /\ e.type = t /\ e.client = c
      /\ UNCHANGED <<lwip, conn>>
  BY DEF Taking
<1>2. queue \in Seq(Events)
  BY DEF CallInv, Typed
<1>3. e \in Events /\ \A x : x \in Range(queue) <=> x \in Range(queue') \/ x = e
  BY <1>1, <1>2, TakeAway
<1> HIDE DEF e
<1>4. /\ Sorted(queue) /\ ClearFirst(queue) /\ LwipLast
  BY <1>1, Phases DEF Good, InOrder, Clears
<1>5. \A f \in Range(queue') : MayPrecede(e, f)
  BY <1>1, <1>2, <1>4, SortedTail DEF e
<1>6. t \notin {"ACCEPT", "CONNECTED"} => ~ClearOf(c)'
  <2>1. t \notin {"ACCEPT", "CONNECTED"} => NoClear(Range(queue'))
    BY Took
  <2> QED
    BY <2>1 DEF NoClear, ClearOf, Event
<1>7. Holds(steps) = {}
  BY <1>1 DEF Holds
<1>8. Waiting = Waiting' \cup {e} /\ Waiting' = Range(queue') \cup {lwip}
  BY <1>1, <1>3, <1>7 DEF Waiting
<1>9. e # Idle
  BY <1>3, IdleApart
<1>10. e \in Of(c) /\ Of(c) = Of(c)' \cup {e} /\ \A d \in Clients : d # c => Of(d)' = Of(d)
  BY <1>1, <1>8, <1>9 DEF Of
<1>11. ASSUME NEW f \in Of(c)' PROVE MayPrecede(e, f)
  <2>1. f # Idle /\ f.client = c /\ f \in Waiting'
    BY DEF Of
  <2>2. CASE f \in Range(queue')
    BY <1>5, <2>2
  <2>3. CASE f = lwip
    BY <1>1, <1>3, <1>4, <2>1, <2>3 DEF LwipLast
  <2> QED
    BY <1>8, <2>1, <2>2, <2>3
<1>12. t = "CLEAR" => ClearOf(c)
  <2> SUFFICES ASSUME t = "CLEAR" PROVE ClearOf(c)
    OBVIOUS
  <2>1. e.n = 0 /\ e \in [type : EventTypes, client : Clients, n : Nat]
    BY <1>1, <1>3 DEF Events
  <2>2. e = [type |-> e.type, client |-> e.client, n |-> e.n]
    BY <2>1
  <2>3. e = Event("CLEAR", c, 0)
    BY <1>1, <2>1, <2>2 DEF Event
  <2> QED
    BY <1>3, <2>3 DEF ClearOf
<1>13. conn[c].is \notin {"none", "opening"}
  BY <1>10 DEF Good, Ordered, NotBegun
<1>14. \A d : ClearOf(d)' => ClearOf(d)
  BY <1>3 DEF ClearOf
<1> QED
  BY <1>1, <1>6, <1>10, <1>11, <1>12, <1>13, <1>14 DEF e

LEMMA HandledFlows ==
  ASSUME CallInv, Good, AllFlow, NEW c \in Clients, NEW t, Taking(t, c), Holds(steps') = {},
         \A d \in Clients : d # c => client'[d] = client[d] /\ got'[d] = got[d],
         steps' = <<>> \/ (steps' # <<>> /\ Head(steps').client = c),
         Flows(c)'
  PROVE  AllFlow'
<1>1. ASSUME NEW d \in Clients, d # c PROVE Flows(d)'
  <2>1. /\ steps = <<>> /\ conn' = conn /\ Of(d)' = Of(d) /\ (ClearOf(d)' => ClearOf(d))
    BY <1>1, TakenOf
  <2>2. ~Busy(steps, d) /\ ~Busy(steps', d)
    BY <1>1, <2>1 DEF Busy
  <2> QED
    BY <1>1, <2>1, <2>2, Alike DEF AllFlow
<1> QED
  BY <1>1 DEF AllFlow

\* A handler that is given no data.
LEMMA NoDatum ==
  ASSUME CallInv, Good, AllFlow, NEW c \in Clients, NEW t, Taking(t, c), t # "RECV",
         Holds(steps') = {}, got' = got,
         \A d \in Clients : d # c => client'[d] = client[d],
         client[c].known => client'[c].known, t = "ACCEPT" => client'[c].known,
         client'[c].exists = client[c].exists, client'[c].later = client[c].later,
         client'[c].attached => /\ client[c].attached
                                /\ client[c].pcb \/ t = "CONNECTED" => client'[c].pcb,
         steps' = <<>> \/ (steps' # <<>> /\ Head(steps').client = c),
         steps' # <<Step("recved", c, 1)>>, Fit(c)',
         Finishing(steps', c) \/ RemovesOf(steps', c) => Spent(c)'
  PROVE  AllFlow'
<1>1. /\ steps = <<>> /\ UNCHANGED conn /\ conn[c].is \notin {"none", "opening"}
      /\ ClearOf(c)' => ClearOf(c)
  BY TakenOf
<1>2. PICK e \in Of(c) : /\ e.type = t /\ Of(c) = Of(c)' \cup {e}
  BY TakenOf
<1>3. Flows(c) /\ (Live(c)' => Live(c)) /\ ~Detaching(steps, c) /\ steps # <<Step("recved", c, 1)>>
  <2>1. ~Busy(steps, c)
    BY <1>1 DEF Busy
  <2> QED
    BY <1>1, <2>1, OnlyBusy DEF AllFlow, Live
<1>4. Introduced(c)'
  <2>1. Event("ACCEPT", c, 0).type = "ACCEPT"
    BY DEF Event
  <2> QED
    BY <1>1, <1>2, <1>3, <2>1 DEF Flows, Introduced
<1>5. Unread(c)'
  BY <1>1 DEF Unread
<1>6. Whole(c)'
  <2> SUFFICES ASSUME client'[c].exists, client'[c].attached
               PROVE  \E k \in 0..conn[c].sent : WholeTo(c, k)'
    BY <1>1 DEF Whole
  <2>1. PICK k \in 0..conn[c].sent : WholeTo(c, k)
    BY <1>3 DEF Flows, Whole
  <2>2. \A n : Datum(c, n).type = "RECV"
    BY DEF Datum, Event
  <2>3. WholeTo(c, k)'
    BY <1>1, <1>2, <2>1, <2>2 DEF WholeTo
  <2> QED
    BY <2>3
<1>7. Spent(c)'
  BY <1>1, <1>2, <1>3 DEF Flows, Spent, Ends
<1>8. HasPcb(c)'
  <2>1. Connected(c).type = "CONNECTED"
    BY DEF Connected, Event
  <2> QED
    BY <1>2, <1>3, <2>1 DEF Flows, HasPcb, Live
<1>9. Balance(c)'
  BY <1>1, <1>3 DEF Flows, Balance
<1>10. Flows(c)'
  BY <1>4, <1>5, <1>6, <1>7, <1>8, <1>9 DEF Flows
<1> QED
  BY <1>10, HandledFlows


\* The handlers of events other than data.
LEMMA OtherHandlers ==
  ASSUME CallInv, Good, AllFlow, NEW c \in Clients,
         HandleAccept(c) \/ HandleConnected(c) \/ HandleDns(c)
  PROVE  AllFlow'
<1>1. PICK t \in {"ACCEPT", "CONNECTED", "DNS"} :
        /\ Taking(t, c) /\ steps' = <<>> /\ got' = got
        /\ IF t = "ACCEPT" THEN client' = [client EXCEPT ![c].known = TRUE]
           ELSE IF t = "CONNECTED" THEN client' = [client EXCEPT ![c].pcb = TRUE]
           ELSE client' = client
  BY DEF HandleAccept, HandleConnected, HandleDns, Taking
<1>2. client \in [Clients -> ClientRecords]
  BY DEF CallInv, Typed
<1>3. /\ \A d \in Clients : d # c => client'[d] = client[d]
      /\ client[c].known \/ t = "ACCEPT" => client'[c].known
      /\ client'[c].exists = client[c].exists /\ client'[c].later = client[c].later
      /\ client'[c].attached = client[c].attached
      /\ client[c].pcb \/ t = "CONNECTED" => client'[c].pcb
  BY <1>1, <1>2 DEF ClientRecords
<1>4. Holds(steps') = {} /\ steps' # <<Step("recved", c, 1)>>
  BY <1>1 DEF Holds
<1>5. /\ ~Finishing(steps', c) /\ ~RemovesOf(steps', c) /\ ~Detaching(steps', c)
      /\ ~Acking(steps', c)
  <2>1. ~Busy(steps', c)
    BY <1>1 DEF Busy
  <2> QED
    BY <2>1, OnlyBusy
<1>6. Fit(c)'
  BY <1>5 DEF Fit, Acking
<1> QED
  BY <1>1, <1>3, <1>4, <1>5, <1>6, NoDatum

LEMMA PollFlows ==
  ASSUME CallInv, Good, AllFlow, NEW c \in Clients, HandlePoll(c)
  PROVE  AllFlow'
<1>1. PICK n : /\ n = client[c].later /\ n \in Int
               /\ Taking("POLL", c) /\ client' = client /\ got' = got
               /\ \/ steps' = <<>>
                  \/ client[c].pcb /\ steps' \in {<<Step("ack", c, n)>>, Polled(c, n)}
  <2>1. client[c].later \in Int
    BY DEF CallInv, Typed, ClientRecords
  <2> QED
    BY <2>1 DEF HandlePoll, Taking, Polled
<1>2. /\ ~Finishing(steps', c) /\ ~RemovesOf(steps', c) /\ Holds(steps') = {}
      /\ steps' = <<>> \/ (steps' # <<>> /\ Head(steps').client = c)
      /\ steps' # <<Step("recved", c, 1)>> /\ Fit(c)'
  <2>1. CASE steps' = <<>>
    <3>1. ~Busy(steps', c)
      BY <2>1 DEF Busy
    <3>2. /\ ~Finishing(steps', c) /\ ~RemovesOf(steps', c) /\ ~Detaching(steps', c)
          /\ ~Acking(steps', c)
      BY <3>1, OnlyBusy
    <3>3. Fit(c)'
      BY <3>2 DEF Fit, Acking
    <3> QED
      BY <2>1, <3>2, <3>3 DEF Holds
  <2>2. CASE steps' = <<Step("ack", c, n)>> /\ client[c].pcb
    <3>1. steps' # <<>> /\ Head(steps').do = "ack" /\ Head(steps').client = c
      BY <2>2 DEF Step
    <3>2. /\ ~Detaching(steps', c)
          /\ \A m : steps' # <<Step("recved", c, m)>> /\ (steps' = <<Step("ack", c, m)>> => m = n)
      <4>1. n \in Int
        BY <1>1
      <4>2. /\ ~Detaching(<<Step("ack", c, n)>>, c)
            /\ \A m : <<Step("ack", c, n)>> = <<Step("ack", c, m)>> => m = n
        BY <4>1, Acks
      <4>3. \A m : <<Step("ack", c, n)>> # <<Step("recved", c, m)>>
        BY DEF Step
      <4> QED
        BY <2>2, <4>2, <4>3
    <3>3. Fit(c)'
      BY <1>1, <3>2 DEF Fit
    <3> QED
      BY <3>1, <3>2, <3>3, Phases DEF Holds, RemovesOf, Removes
  <2>3. CASE steps' = Polled(c, n) /\ client[c].pcb
    <3>1. steps' # <<>> /\ Head(steps').do = "recved" /\ Head(steps').client = c
      <4>1. steps' # <<>> /\ Head(steps') = Step("recved", c, n)
        BY <2>3, Rests
      <4> QED
        BY <4>1 DEF Step
    <3>2. ~Acking(steps', c)
      BY <1>1, <2>3, Acks
    <3>3. Fit(c)' /\ steps' # <<Step("recved", c, 1)>>
      BY <1>1, <2>3, <3>2 DEF Fit, Acking
    <3> QED
      BY <3>1, <3>3, Phases DEF Holds, RemovesOf, Removes
  <2> QED
    BY <1>1, <2>1, <2>2, <2>3
<1> QED
  BY <1>1, <1>2, NoDatum

\* Of an open connection no FIN waits, and no data comes after a FIN.
LEMMA FinishFlows ==
  ASSUME CallInv, Good, AllFlow, NEW c \in Clients, HandleFin(c)
  PROVE  AllFlow'
<1>1. Taking("FIN", c) /\ steps' = Ending(c) /\ client' = client /\ got' = got
  BY DEF HandleFin, Ending
<1>2. Finishing(steps', c)
  BY <1>1 DEF Finishing
<1>3. /\ steps' # <<>> /\ Head(steps').client = c /\ Head(steps').do = "clear"
      /\ Holds(steps') = {}
  <2>1. steps' # <<>> /\ Head(steps') = Step("clear", c, 0)
    BY <1>1, Rests, <1>2, Phases
  <2> QED
    BY <2>1 DEF Step, Holds
<1>4. UNCHANGED conn /\ \E e \in Of(c) : e.type = "FIN" /\ \A f \in Of(c)' : MayPrecede(e, f)
  BY <1>1, <1>3, TakenOf
<1>5. conn'[c].is # "open" /\ \A f \in Of(c)' : f.type # "RECV"
  BY <1>4 DEF Good, Ordered, Finned, MayPrecede, Of
<1>6. Spent(c)'
  BY <1>5 DEF Spent
<1>7. ~Detaching(steps', c) /\ ~Acking(steps', c)
  BY <1>3, OtherStep
<1>8. Fit(c)' /\ steps' # <<Step("recved", c, 1)>>
  BY <1>7 DEF Fit, Acking
<1> QED
  BY <1>1, <1>3, <1>6, <1>8, NoDatum

LEMMA ErrorFlows ==
  ASSUME CallInv, Good, AllFlow, NEW c \in Clients, HandleError(c)
  PROVE  AllFlow'
<1>1. /\ Taking("ERROR", c) /\ steps' = <<Step("discard", c, 0)>> /\ got' = got
      /\ client' = [client EXCEPT ![c] = [@ EXCEPT !.pcb = FALSE, !.attached = FALSE]]
  BY DEF HandleError
<1>2. client \in [Clients -> ClientRecords]
  BY DEF CallInv, Typed
<1>3. /\ \A d \in Clients : d # c => client'[d] = client[d]
      /\ client'[c].known = client[c].known /\ client'[c].exists = client[c].exists
      /\ client'[c].later = client[c].later /\ ~client'[c].attached
  BY <1>1, <1>2 DEF ClientRecords
<1>4. /\ steps' # <<>> /\ Head(steps').client = c /\ Head(steps').do = "discard"
      /\ Holds(steps') = {}
  BY <1>1 DEF Step, Holds
<1>5. Spent(c)'
  BY <1>3 DEF Spent
<1>6. ~Detaching(steps', c) /\ ~Acking(steps', c)
  BY <1>4, OtherStep
<1>7. Fit(c)' /\ steps' # <<Step("recved", c, 1)>>
  BY <1>6 DEF Fit, Acking
<1> QED
  BY <1>1, <1>3, <1>4, <1>5, <1>7, NoDatum

LEMMA ClearFlows ==
  ASSUME CallInv, Good, AllFlow, NEW c \in Clients, HandleClear(c)
  PROVE  AllFlow'
<1>1. Taking("CLEAR", c) /\ steps' = <<Removal("remove", c, Idle, Idle)>> /\ client' = client
      /\ got' = got
  BY DEF HandleClear
<1>2. /\ steps' # <<>> /\ Head(steps').client = c /\ Head(steps').do = "remove"
      /\ Holds(steps') = {}
  BY <1>1 DEF Removal, Holds
<1>3. UNCHANGED conn /\ ClearOf(c) /\ \E e \in Of(c) : Of(c) = Of(c)' \cup {e}
  BY <1>1, <1>2, TakenOf
<1>4. Spent(c)'
  BY <1>1, <1>3 DEF AllFlow, Flows, Spent, Ends
<1>5. ~Detaching(steps', c) /\ ~Acking(steps', c)
  BY <1>2, OtherStep
<1>6. Fit(c)' /\ steps' # <<Step("recved", c, 1)>>
  BY <1>5 DEF Fit, Acking
<1> QED
  BY <1>1, <1>2, <1>4, <1>6, NoDatum

\* Data is the piece that comes next.
LEMMA RecvFlows ==
  ASSUME CallInv, Good, AllFlow, got \in [Clients -> Seq(Nat)], NEW c \in Clients, HandleRecv(c)
  PROVE  AllFlow' /\ got' \in [Clients -> Seq(Nat)]
<1>1. /\ Taking("RECV", c) /\ client[c].exists
      /\ got' = IF client[c].known THEN [got EXCEPT ![c] = Append(@, Head(queue).n)] ELSE got
      /\ \E later \in IF client[c].known THEN BOOLEAN ELSE {FALSE} :
           /\ client' = [client EXCEPT ![c] = Assimilated(c, later)]
           /\ steps' = IF AcksNow(c, later) THEN <<Step("recved", c, 1)>> ELSE <<>>
  BY DEF HandleRecv
<1>2. /\ steps' \in {<<>>, <<Step("recved", c, 1)>>} /\ Holds(steps') = {}
      /\ steps' = <<>> \/ (steps' # <<>> /\ Head(steps').client = c)
  BY <1>1 DEF Holds, Step
<1>3. /\ steps = <<>> /\ conn' = conn /\ conn[c].is \notin {"none", "opening"} /\ ~ClearOf(c)'
  <2>1. Taking("RECV", c) /\ Holds(steps') = {} /\ "RECV" \notin {"ACCEPT", "CONNECTED"}
    BY <1>1, <1>2
  <2> QED
    BY <2>1, TakenOf
<1>4. PICK e \in Of(c) : /\ e = Head(queue) /\ e.type = "RECV" /\ Of(c) = Of(c)' \cup {e}
                         /\ \A f \in Of(c)' : MayPrecede(e, f)
  BY <1>1, <1>2, TakenOf
<1>5. e \in Events /\ e.client = c /\ e.n \in Nat /\ e.n <= conn[c].sent /\ e = Datum(c, e.n)
  <2>1. e \in Events /\ e.client = c
    BY WaitingTyped DEF Of
  <2>2. e \in [type : EventTypes, client : Clients, n : Nat]
    BY <2>1 DEF Events
  <2>3. e = [type |-> e.type, client |-> e.client, n |-> e.n]
    BY <2>2
  <2>4. e.n <= conn[c].sent
    BY <1>4 DEF Good, Ordered, Numbered
  <2> QED
    BY <1>4, <2>1, <2>2, <2>3, <2>4 DEF Datum, Event
<1>6. \A f \in Of(c)' : /\ f.client = c /\ ~InFront(f)
                        /\ f.type = "RECV" => e.n < f.n
  BY <1>4, <1>5 DEF MayPrecede, Of
<1>7. Flows(c)
  BY DEF AllFlow
<1>8. client[c].known
  <2>1. Event("ACCEPT", c, 0) # e /\ InFront(Event("ACCEPT", c, 0))
    BY <1>4 DEF Event, InFront
  <2> QED
    BY <1>3, <1>4, <1>6, <1>7, <2>1 DEF Flows, Introduced
<1>9. Live(c) => client[c].pcb
  <2>1. Connected(c) # e /\ InFront(Connected(c))
    BY <1>4 DEF Connected, Event, InFront
  <2> QED
    BY <1>4, <1>6, <1>7, <2>1 DEF Flows, HasPcb
<1>10. got' = [got EXCEPT ![c] = Append(got[c], e.n)]
  BY <1>1, <1>4, <1>8
<1>11. /\ got'[c] = Append(got[c], e.n) /\ got' \in [Clients -> Seq(Nat)]
       /\ got[c] \in Seq(Nat) /\ Len(got'[c]) = Len(got[c]) + 1
       /\ \A d \in Clients : d # c => got'[d] = got[d]
  <2>1. got[c] \in Seq(Nat)
    OBVIOUS
  <2>2. Append(got[c], e.n) \in Seq(Nat) /\ Len(Append(got[c], e.n)) = Len(got[c]) + 1
    BY <1>5, <2>1, AppendProperties
  <2> QED
    BY <1>10, <2>1, <2>2
<1>12. PICK later \in BOOLEAN :
         /\ client' = [client EXCEPT ![c] = Assimilated(c, later)]
         /\ steps' = IF AcksNow(c, later) THEN <<Step("recved", c, 1)>> ELSE <<>>
  BY <1>1, <1>8
<1>13. /\ client'[c].known = client[c].known /\ client'[c].exists = client[c].exists
       /\ client'[c].pcb = client[c].pcb /\ client'[c].attached = client[c].attached
       /\ client'[c].later = (IF later THEN client[c].later + 1 ELSE client[c].later)
       /\ \A d \in Clients : d # c => client'[d] = client[d]
  <2>1. client \in [Clients -> ClientRecords]
    BY DEF CallInv, Typed
  <2> QED
    BY <1>12, <2>1 DEF Assimilated, ClientRecords
<1>14. Introduced(c)' /\ Unread(c)'
  BY <1>3, <1>8, <1>13 DEF Introduced, Unread
<1>15. Whole(c)'
  <2> SUFFICES ASSUME client[c].attached PROVE \E k \in 0..conn[c].sent : WholeTo(c, k)'
    BY <1>3, <1>13 DEF Whole
  <2> DEFINE s == conn[c].sent
             m == e.n
  <2>1. PICK k \in 0..s : WholeTo(c, k)
    BY <1>1, <1>7 DEF Flows, Whole
  <2>2. s \in Nat /\ m \in Nat /\ m <= s /\ m > k
    BY <1>4, <1>5, <2>1 DEF CallInv, Typed, ConnRecords, WholeTo
  <2> HIDE DEF s, m
  <2>3. k + 1 \in 1..s /\ k < k + 1 /\ k + 1 \in 0..s /\ k \in Nat
    BY <2>1, <2>2
  <2>4. Datum(c, k + 1) \in Of(c)
    BY <2>1, <2>3 DEF WholeTo, s
  <2>5. Datum(c, k + 1).type = "RECV" /\ Datum(c, k + 1).n = k + 1
    BY DEF Datum, Event
  <2>6. Datum(c, k + 1) \in Of(c)' => m < k + 1
    BY <1>6, <2>5 DEF m
  <2>7. e = Datum(c, k + 1)
    BY <1>4, <2>2, <2>3, <2>4, <2>6
  <2>8. got'[c] = Upto(k + 1)
    <3>1. got[c] = Upto(k) /\ e.n = k + 1
      BY <2>1, <2>5, <2>7 DEF WholeTo
    <3> QED
      BY <1>11, <2>3, <3>1, UptoFacts
  <2>9. ASSUME NEW n \in 1..s, k + 1 < n PROVE Datum(c, n) \in Of(c)'
    <3>1. k < n /\ n # k + 1
      BY <2>3, <2>9
    <3>2. Datum(c, n) \in Of(c)
      BY <2>1, <2>9, <3>1 DEF WholeTo, s
    <3>3. Datum(c, n) # e
      BY <2>7, <3>1 DEF Datum, Event
    <3> QED
      BY <1>4, <3>2, <3>3
  <2>10. \A f \in Of(c)' : f.type = "RECV" => f.n > k + 1
    <3> SUFFICES ASSUME NEW f \in Of(c)', f.type = "RECV" PROVE f.n > k + 1
      OBVIOUS
    <3>1. e.n < f.n /\ e.n = k + 1
      BY <1>6, <2>5, <2>7
    <3>2. f \in Events
      BY <1>4, WaitingTyped
    <3>3. f.n \in Nat
      BY <3>2 DEF Events
    <3> QED
      BY <2>3, <3>1, <3>3
  <2>11. WholeTo(c, k + 1)'
    BY <1>3, <2>8, <2>9, <2>10 DEF WholeTo, s
  <2> QED
    BY <2>3, <2>11 DEF s
<1>16. ~Detaching(steps', c) /\ ~Finishing(steps', c) /\ ~RemovesOf(steps', c)
  <2>1. CASE steps' = <<>>
    <3>1. ~Busy(steps', c)
      BY <2>1 DEF Busy
    <3> QED
      BY <3>1, OnlyBusy
  <2>2. CASE steps' = <<Step("recved", c, 1)>>
    <3>1. steps' # <<>> /\ Head(steps').do = "recved"
      BY <2>2 DEF Step
    <3>2. ~Detaching(<<Step("recved", c, 1)>>, c)
      <4>1. 1 \in Int
        OBVIOUS
      <4> QED
        BY <4>1, Acks
    <3>3. ~Detaching(steps', c)
      BY <2>2, <3>2
    <3> QED
      BY <3>1, <3>3, Phases DEF RemovesOf, Removes
  <2> QED
    BY <1>2, <2>1, <2>2
<1>17. Spent(c)'
  BY <1>3, <1>16 DEF Spent, Ends
<1>18. Live(c)' <=> Live(c)
  BY <1>3, <1>13 DEF Live
<1>19. HasPcb(c)'
  BY <1>9, <1>13, <1>18 DEF HasPcb
<1>20. Balance(c)'
  <2> SUFFICES ASSUME Live(c)
               PROVE  conn[c].window = (conn[c].sent - Len(got'[c])) + client'[c].later
                                       + IF steps' = <<Step("recved", c, 1)>> THEN 1 ELSE 0
    BY <1>3, <1>18 DEF Balance
  <2>1. ~Busy(steps, c)
    BY <1>3 DEF Busy
  <2>2. ~Detaching(steps, c) /\ steps # <<Step("recved", c, 1)>>
    BY <1>3, <2>1, OnlyBusy
  <2>3. conn[c].window = (conn[c].sent - Len(got[c])) + client[c].later
    <3>1. client[c].later \in Int /\ conn[c].sent \in Nat /\ Len(got[c]) \in Nat
      BY <1>11, LenProperties DEF CallInv, Typed, ClientRecords, ConnRecords
    <3> QED
      BY <1>7, <2>2, <3>1 DEF Flows, Balance
  <2>4. AcksNow(c, later) <=> ~later
    BY <1>9 DEF AcksNow
  <2>5. client[c].later \in Int /\ conn[c].sent \in Nat /\ Len(got[c]) \in Nat
    BY <1>11, LenProperties DEF CallInv, Typed, ClientRecords, ConnRecords
  <2> DEFINE g == Len(got[c])
             h == Len(got'[c])
             s == conn[c].sent
             w == conn[c].window
             l == client[c].later
             m == client'[c].later
             x == IF steps' = <<Step("recved", c, 1)>> THEN 1 ELSE 0
  <2>6. x = IF later THEN 0 ELSE 1
    <3>1. <<>> # <<Step("recved", c, 1)>>
      OBVIOUS
    <3> QED
      BY <1>12, <2>4, <3>1
  <2>7. m = (IF later THEN l + 1 ELSE l) /\ h = g + 1 /\ w = (s - g) + l
    BY <1>11, <1>13, <2>3
  <2>8. l \in Int /\ s \in Nat /\ g \in Nat
    BY <2>5
  <2>9. w = (s - h) + m + x
    <3> HIDE DEF g, h, s, w, l, m, x
    <3> QED
      BY <2>6, <2>7, <2>8
  <2> QED
    BY <2>9
<1>21. Fit(c)'
  <2>1. ASSUME NEW n \in Int
        PROVE  steps' # <<Step("ack", c, n)>> /\ (steps' = <<Step("recved", c, n)>> => n = 1)
    <3>1. <<>> # <<Step("ack", c, n)>> /\ <<>> # <<Step("recved", c, n)>>
      OBVIOUS
    <3>2. /\ Step("recved", c, 1) # Step("ack", c, n)
          /\ Step("recved", c, 1) = Step("recved", c, n) => n = 1
      BY DEF Step
    <3>3. CASE steps' = <<>>
      BY <3>1, <3>3
    <3>4. CASE steps' = <<Step("recved", c, 1)>>
      <4>1. Head(steps') = Step("recved", c, 1)
        BY <3>4
      <4>2. /\ steps' = <<Step("ack", c, n)>> => Head(steps') = Step("ack", c, n)
            /\ steps' = <<Step("recved", c, n)>> => Head(steps') = Step("recved", c, n)
        OBVIOUS
      <4> QED
        BY <3>2, <4>1, <4>2
    <3> QED
      BY <1>2, <3>3, <3>4
  <2> QED
    BY <1>16, <2>1 DEF Fit
<1>22. Flows(c)'
  BY <1>14, <1>15, <1>17, <1>19, <1>20, <1>21 DEF Flows
<1>23. AllFlow'
  BY <1>1, <1>2, <1>11, <1>13, <1>22, HandledFlows
<1> QED
  BY <1>11, <1>23


-----------------------------------------------------------------------------
(* The data and the steps of a handler.                                     *)

LEMMA CallSteps ==
  ASSUME Shaped, steps # <<>>, Head(steps).do \in {"recved", "ack"}
  PROVE  LET c == Head(steps).client  n == Head(steps).n  do == Head(steps).do IN
         /\ c \in Clients /\ n \in Int
         /\ \/ steps = <<Step(do, c, n)>> /\ Tail(steps) = <<>>
            \/ steps = Polled(c, n) /\ Tail(steps) = CloseSteps(c) /\ do = "recved"
<1>1. PICK c \in Clients :
        \/ \E n \in Int : steps \in {<<Step("recved", c, n)>>, <<Step("ack", c, n)>>, Polled(c, n)}
        \/ steps \in {CloseSteps(c), Closing3(c), Closing2(c), Ending(c), <<Step("discard", c, 0)>>}
        \/ \E f \in Events \cup {Idle} : steps = <<Removal("remove", c, Idle, f)>>
        \/ \E e, f \in Events : steps = <<Removal("return", c, e, f)>>
  BY DEF Shaped, Shape
<1>2. /\ Head(CloseSteps(c)).do = "detach" /\ Head(Closing3(c)).do = "clear"
      /\ Head(Closing2(c)).do = "close" /\ Head(Ending(c)).do = "clear"
      /\ Head(<<Step("discard", c, 0)>>).do = "discard"
  BY DEF CloseSteps, Closing3, Closing2, Ending, Step
<1>3. /\ \A f : Head(<<Removal("remove", c, Idle, f)>>).do = "remove"
      /\ \A e, f : Head(<<Removal("return", c, e, f)>>).do = "return"
  BY DEF Removal
<1>4. PICK n \in Int : steps \in {<<Step("recved", c, n)>>, <<Step("ack", c, n)>>, Polled(c, n)}
  BY <1>1, <1>2, <1>3
<1>5. CASE steps = <<Step("recved", c, n)>>
  <2>1. Head(steps) = Step("recved", c, n) /\ Tail(steps) = <<>>
    BY <1>5, Rests
  <2>2. Head(steps).client = c /\ Head(steps).n = n /\ Head(steps).do = "recved"
    BY <2>1 DEF Step
  <2> QED
    BY <1>5, <2>1, <2>2
<1>6. CASE steps = <<Step("ack", c, n)>>
  <2>1. Head(steps) = Step("ack", c, n) /\ Tail(steps) = <<>>
    BY <1>6, Rests
  <2>2. Head(steps).client = c /\ Head(steps).n = n /\ Head(steps).do = "ack"
    BY <2>1 DEF Step
  <2> QED
    BY <1>6, <2>1, <2>2
<1>7. CASE steps = Polled(c, n)
  <2>1. Head(steps) = Step("recved", c, n) /\ Tail(steps) = CloseSteps(c)
    BY <1>7, Rests
  <2>2. Head(steps).client = c /\ Head(steps).n = n /\ Head(steps).do = "recved"
    BY <2>1 DEF Step
  <2> QED
    BY <1>7, <2>1, <2>2
<1> QED
  BY <1>4, <1>5, <1>6, <1>7

\* A step of c's handler leaves the other clients alone.
LEMMA HandlerFlows ==
  ASSUME AllFlow, NEW c \in Clients, steps # <<>>, Head(steps).client = c, UNCHANGED got,
         steps' = <<>> \/ (steps' # <<>> /\ Head(steps').client = c),
         \A d \in Clients : d # c => /\ client'[d] = client[d] /\ conn'[d] = conn[d]
                                     /\ Of(d)' = Of(d) /\ (ClearOf(d)' => ClearOf(d)),
         Flows(c)'
  PROVE  AllFlow'
<1>1. ASSUME NEW d \in Clients, d # c PROVE Flows(d)'
  <2>1. ~Busy(steps, d) /\ ~Busy(steps', d)
    BY <1>1 DEF Busy
  <2> QED
    BY <1>1, <2>1, Alike DEF AllFlow
<1> QED
  BY <1>1 DEF AllFlow

LEMMA EventsStay ==
  ASSUME UNCHANGED <<queue, lwip>>, steps # <<>>, Head(steps).do \notin {"remove", "return"},
         steps' = <<>> \/ (steps' # <<>> /\ Head(steps').do \notin {"remove", "return"})
  PROVE  \A d : Of(d)' = Of(d) /\ ClearOf(d)' = ClearOf(d)
<1>1. Holds(steps) = {} /\ Holds(steps') = {}
  BY DEF Holds
<1> QED
  BY <1>1 DEF Of, Waiting, ClearOf

LEMMA Begun ==
  ASSUME Good, NEW c \in Clients, Busy(steps, c)
  PROVE  conn[c].is \notin {"none", "resolving", "opening"} /\ NoFront(c)
BY DEF Good, Ordered, NotBegun, InHand

LEMMA NothingToFit ==
  ASSUME NEW s, NEW c, s = <<>> \/ (s # <<>> /\ Head(s).do \notin {"recved", "ack", "detach"})
  PROVE  /\ ~Detaching(s, c) /\ ~Acking(s, c)
         /\ \A n \in Int : s # <<Step("recved", c, n)>> /\ s # <<Step("ack", c, n)>>
<1>1. ~Detaching(s, c) /\ ~Acking(s, c)
  <2>1. CASE s = <<>>
    <3>1. ~Busy(s, c)
      BY <2>1 DEF Busy
    <3> QED
      BY <3>1, OnlyBusy
  <2>2. CASE s # <<>> /\ Head(s).do \notin {"recved", "ack", "detach"}
    BY <2>2, OtherStep
  <2> QED
    BY <2>1, <2>2
<1> QED
  BY <1>1 DEF Acking

LEMMA RecvedFlows ==
  ASSUME CallInv, Good, AllFlow, got \in [Clients -> Seq(Nat)], Recved
  PROVE  AllFlow'
<1>0. PICK c, n, do : c = Head(steps).client /\ n = Head(steps).n /\ do = Head(steps).do
  OBVIOUS
<1>1. /\ steps # <<>> /\ do \in {"recved", "ack"} /\ UNCHANGED <<queue, lwip, got>>
      /\ steps' = Tail(steps)
      /\ conn' = IF Freed(c) THEN conn ELSE [conn EXCEPT ![c].window = @ - n]
      /\ client' = IF do = "ack" THEN [client EXCEPT ![c].later = @ - n] ELSE client
  BY <1>0 DEF Recved, Doing, ApiCall
<1>2. /\ c \in Clients /\ n \in Int
      /\ \/ steps = <<Step(do, c, n)>> /\ steps' = <<>>
         \/ steps = Polled(c, n) /\ steps' = CloseSteps(c) /\ do = "recved"
  BY <1>0, <1>1, CallSteps DEF CallInv
<1>3. client \in [Clients -> ClientRecords] /\ conn \in [Clients -> ConnRecords]
  BY DEF CallInv, Typed
<1>4. /\ client'[c].pcb = client[c].pcb /\ client'[c].known = client[c].known
      /\ client'[c].exists = client[c].exists /\ client'[c].attached = client[c].attached
      /\ client'[c].later = (IF do = "ack" THEN client[c].later - n ELSE client[c].later)
      /\ \A d \in Clients : d # c => client'[d] = client[d]
  BY <1>1, <1>2, <1>3 DEF ClientRecords
<1>5. /\ conn'[c].is = conn[c].is /\ conn'[c].sent = conn[c].sent
      /\ ~Freed(c) => conn'[c].window = conn[c].window - n
      /\ \A d \in Clients : d # c => conn'[d] = conn[d]
  BY <1>1, <1>2, <1>3 DEF ConnRecords
<1>6. steps' = <<>> \/ (steps' # <<>> /\ Head(steps').client = c /\ Head(steps').do = "detach")
  <2>1. CloseSteps(c) # <<>> /\ Head(CloseSteps(c)).client = c /\ Head(CloseSteps(c)).do = "detach"
    BY DEF CloseSteps, Step
  <2> QED
    BY <1>2, <2>1
<1>7. \A d : Of(d)' = Of(d) /\ ClearOf(d)' = ClearOf(d)
  <2>1. Head(steps).do \notin {"remove", "return"}
    BY <1>0, <1>1
  <2> QED
    BY <1>1, <1>6, <2>1, EventsStay
<1>8. Flows(c) /\ conn[c].is \notin {"none", "resolving", "opening"}
  <2>1. Busy(steps, c)
    BY <1>0, <1>1 DEF Busy
  <2> QED
    BY <1>2, <2>1, Begun DEF AllFlow
<1>9. Introduced(c)' /\ Unread(c)' /\ Whole(c)' /\ HasPcb(c)' /\ (Live(c)' <=> Live(c))
  BY <1>1, <1>4, <1>5, <1>7, <1>8 DEF Flows, Introduced, Unread, Whole, WholeTo, HasPcb, Live
<1>10. Spent(c)'
  <2>1. ~Finishing(steps', c) /\ ~RemovesOf(steps', c)
    BY <1>6, Phases DEF RemovesOf, Removes
  <2> QED
    BY <1>4, <1>5, <1>7, <1>8, <2>1 DEF Flows, Spent, Ends
<1>11. CASE steps = <<Step(do, c, n)>> /\ steps' = <<>>
  <2>1. /\ ~Detaching(steps', c)
        /\ \A m \in Int : steps' # <<Step("recved", c, m)>> /\ steps' # <<Step("ack", c, m)>>
    BY <1>11, NothingToFit
  <2>2. Fit(c)'
    BY <2>1 DEF Fit
  <2>3. ~Detaching(steps, c)
    BY <1>1, <1>2, <1>11, Acks
  <2>4. Balance(c)'
    <3> DEFINE y == IF steps' = <<Step("recved", c, 1)>> THEN 1 ELSE 0
    <3> SUFFICES ASSUME Live(c)
                 PROVE  conn'[c].window = (conn[c].sent - Len(got[c])) + client'[c].later + y
      BY <1>1, <1>5, <1>9 DEF Balance
    <3>0. y = 0
      <4>1. steps' # <<Step("recved", c, 1)>>
        BY <2>1
      <4> QED
        BY <4>1
    <3> HIDE DEF y
    <3> DEFINE w == conn[c].window
               s == conn[c].sent
               g == Len(got[c])
               l == client[c].later
               x == IF steps = <<Step("recved", c, 1)>> THEN 1 ELSE 0
    <3>1. w = (s - g) + l + x
      BY <1>8, <2>3 DEF Flows, Balance
    <3>2. w \in Int /\ s \in Nat /\ g \in Nat /\ l \in Int
      <4>1. got[c] \in Seq(Nat)
        BY <1>2
      <4> QED
        BY <1>2, <1>3, <4>1, LenProperties DEF ClientRecords, ConnRecords
    <3>3. conn'[c].window = w - n
      <4>1. ~Freed(c)
        BY DEF Live, Freed
      <4> QED
        BY <1>5, <4>1
    <3>4. CASE do = "recved"
      <4>1. n = 1
        BY <1>2, <1>8, <1>11, <3>4 DEF Flows, Fit
      <4>2. x = 1 /\ client'[c].later = l
        BY <1>4, <1>11, <3>4, <4>1
      <4> HIDE DEF w, s, g, l, x
      <4>3. w - n = (s - g) + l + 0
        BY <3>1, <3>2, <4>1, <4>2
      <4> QED
        BY <3>0, <3>3, <4>2, <4>3 DEF w, s, g, l
    <3>5. CASE do = "ack"
      <4>1. n = l
        BY <1>2, <1>8, <1>11, <3>5 DEF Flows, Fit
      <4>2. x = 0 /\ client'[c].later = l - n
        <5>1. <<Step("ack", c, n)>> # <<Step("recved", c, 1)>>
          BY DEF Step
        <5> QED
          BY <1>4, <1>11, <3>5, <5>1
      <4> HIDE DEF w, s, g, l, x
      <4>3. w - n = (s - g) + (l - n) + 0
        BY <3>1, <3>2, <4>1, <4>2
      <4> QED
        BY <3>0, <3>3, <4>2, <4>3 DEF w, s, g, l
    <3> QED
      BY <1>1, <3>4, <3>5
  <2>5. Flows(c)'
    BY <1>9, <1>10, <2>2, <2>4 DEF Flows
  <2> QED
    BY <1>0, <1>1, <1>2, <1>4, <1>5, <1>6, <1>7, <2>5, HandlerFlows
<1>12. CASE steps = Polled(c, n) /\ steps' = CloseSteps(c) /\ do = "recved"
  <2>1. Detaching(steps', c) /\ Detaching(steps, c)
    BY <1>2, <1>12 DEF Detaching
  <2>2. \A m : steps' # <<Step("recved", c, m)>> /\ steps' # <<Step("ack", c, m)>>
    <3>1. Head(steps').do = "detach"
      BY <1>12 DEF CloseSteps, Step
    <3>2. \A m : /\ Head(<<Step("recved", c, m)>>).do = "recved"
                 /\ Head(<<Step("ack", c, m)>>).do = "ack"
      BY DEF Step
    <3> QED
      BY <3>1, <3>2
  <2>3. Fit(c)'
    BY <1>4, <1>8, <1>9, <2>1, <2>2 DEF Flows, Fit
  <2>4. Balance(c)'
    BY <2>1 DEF Balance
  <2>5. Flows(c)'
    BY <1>9, <1>10, <2>3, <2>4 DEF Flows
  <2> QED
    BY <1>0, <1>1, <1>2, <1>4, <1>5, <1>6, <1>7, <2>5, HandlerFlows
<1> QED
  BY <1>2, <1>11, <1>12

LEMMA DetachSteps ==
  ASSUME Shaped, steps # <<>>, Head(steps).do = "detach"
  PROVE  steps = CloseSteps(Head(steps).client)
<1>1. PICK c \in Clients :
        \/ \E n \in Int : steps \in {<<Step("recved", c, n)>>, <<Step("ack", c, n)>>, Polled(c, n)}
        \/ steps \in {CloseSteps(c), Closing3(c), Closing2(c), Ending(c), <<Step("discard", c, 0)>>}
        \/ \E f \in Events \cup {Idle} : steps = <<Removal("remove", c, Idle, f)>>
        \/ \E e, f \in Events : steps = <<Removal("return", c, e, f)>>
  BY DEF Shaped, Shape
<1>2. /\ Head(CloseSteps(c)).client = c /\ Head(Closing3(c)).do = "clear"
      /\ Head(Closing2(c)).do = "close" /\ Head(Ending(c)).do = "clear"
      /\ Head(<<Step("discard", c, 0)>>).do = "discard"
  BY DEF CloseSteps, Closing3, Closing2, Ending, Step
<1>3. /\ \A f : Head(<<Removal("remove", c, Idle, f)>>).do = "remove"
      /\ \A e, f : Head(<<Removal("return", c, e, f)>>).do = "return"
  BY DEF Removal
<1>4. \A n : /\ Head(<<Step("recved", c, n)>>).do = "recved"
             /\ Head(<<Step("ack", c, n)>>).do = "ack" /\ Head(Polled(c, n)).do = "recved"
  BY Rests DEF Step
<1> QED
  BY <1>1, <1>2, <1>3, <1>4

LEMMA DetachFlows ==
  ASSUME CallInv, Good, AllFlow, Detach
  PROVE  AllFlow'
<1>0. PICK c : c = Head(steps).client
  OBVIOUS
<1>1. /\ steps # <<>> /\ Head(steps).do = "detach" /\ UNCHANGED <<queue, lwip, conn, got>>
      /\ \/ client' = [client EXCEPT ![c].attached = FALSE] /\ steps' = Tail(steps)
         \/ client' = client /\ steps' = <<>> /\ ~client[c].pcb
  BY <1>0 DEF Detach, Doing
<1>2. c \in Clients /\ Tail(steps) = Closing3(c)
  BY <1>0, <1>1, NextSteps DEF CallInv
<1>3. client \in [Clients -> ClientRecords]
  BY DEF CallInv, Typed
<1>4. /\ client'[c].known = client[c].known
      /\ \A d \in Clients : d # c => client'[d] = client[d]
  BY <1>1, <1>2, <1>3 DEF ClientRecords
<1>5. steps' = <<>> \/ (steps' # <<>> /\ Head(steps').client = c /\ Head(steps').do = "clear")
  <2>1. Closing3(c) # <<>> /\ Head(Closing3(c)).client = c /\ Head(Closing3(c)).do = "clear"
    BY DEF Closing3, Step
  <2> QED
    BY <1>1, <1>2, <2>1
<1>6. \A d : Of(d)' = Of(d) /\ ClearOf(d)' = ClearOf(d)
  BY <1>1, <1>5, EventsStay
<1>7. Flows(c) /\ conn[c].is \notin {"none", "resolving", "opening"}
  <2>1. Busy(steps, c)
    BY <1>0, <1>1 DEF Busy
  <2> QED
    BY <1>2, <2>1, Begun DEF AllFlow
<1>8. Introduced(c)' /\ Unread(c)'
  BY <1>1, <1>4, <1>6, <1>7 DEF Flows, Introduced, Unread
<1>9. /\ ~Detaching(steps', c)
      /\ \A m \in Int : steps' # <<Step("recved", c, m)>> /\ steps' # <<Step("ack", c, m)>>
  BY <1>5, NothingToFit
<1>10. Fit(c)'
  BY <1>9 DEF Fit
<1>11. Flows(c)'
  <2>1. CASE client' = [client EXCEPT ![c].attached = FALSE]
    <3>1. ~client'[c].attached
      BY <1>2, <1>3, <2>1 DEF ClientRecords
    <3> QED
      BY <1>8, <1>10, <3>1 DEF Flows, Whole, Spent, HasPcb, Live, Balance
  <2>2. CASE client' = client /\ steps' = <<>> /\ ~client[c].pcb
    <3>1. Detaching(steps, c)
      BY <1>0, <1>1, DetachSteps DEF CallInv, Detaching
    <3>2. ~Live(c)
      BY <1>7, <2>2, <3>1 DEF Flows, Fit
    <3>3. Whole(c)' /\ HasPcb(c)' /\ Balance(c)'
      BY <1>1, <1>6, <1>7, <2>2, <3>2 DEF Flows, Whole, WholeTo, HasPcb, Live, Balance
    <3>4. Spent(c)'
      <4>1. ~Finishing(steps', c) /\ ~RemovesOf(steps', c)
        BY <2>2, Phases
      <4> QED
        BY <1>1, <1>6, <1>7, <2>2, <4>1 DEF Flows, Spent, Ends
    <3> QED
      BY <1>8, <1>10, <3>3, <3>4 DEF Flows
  <2> QED
    BY <1>1, <2>1, <2>2
<1> QED
  BY <1>0, <1>1, <1>2, <1>4, <1>5, <1>6, <1>11, HandlerFlows


LEMMA ClearPut ==
  ASSUME CallInv, Good, AllFlow, Clear
  PROVE  AllFlow'
<1>0. PICK c, e : c = Head(steps).client /\ e = Event("CLEAR", c, 0)
  OBVIOUS
<1>1. /\ steps # <<>> /\ Head(steps).do = "clear" /\ steps' = Tail(steps)
      /\ queue' = <<e>> \o queue /\ UNCHANGED <<lwip, client, conn, got>>
  BY <1>0 DEF Clear, Doing
<1>2. /\ c \in Clients
      /\ \/ steps = Closing3(c) /\ steps' = Closing2(c)
         \/ steps = Ending(c) /\ steps' = <<Step("discard", c, 0)>>
  BY <1>0, <1>1, NextSteps DEF CallInv
<1>3. e \in Events /\ e.type = "CLEAR" /\ e.client = c /\ e # Idle
  <2>1. "CLEAR" \in EventTypes
    BY DEF EventTypes
  <2> QED
    BY <1>0, <1>2, <2>1, EventTyped DEF Event
<1>4. steps' # <<>> /\ Head(steps').client = c /\ Head(steps').do \in {"close", "discard"}
  <2>1. CASE steps' = Closing2(c)
    BY <2>1, Phases
  <2>2. CASE steps' = <<Step("discard", c, 0)>>
    BY <2>2 DEF Step
  <2> QED
    BY <1>2, <2>1, <2>2
<1>5. Holds(steps) = {} /\ Holds(steps') = {}
  BY <1>1, <1>4 DEF Holds
<1>6. \A x : x \in Range(queue') <=> x \in Range(queue) \/ x = e
  <2>1. queue \in Seq(Events)
    BY DEF CallInv, Typed
  <2> QED
    BY <1>1, <1>3, <2>1, PutInFront
<1>7. Waiting' = Waiting \cup {e}
  BY <1>1, <1>5, <1>6 DEF Waiting
<1>8. Of(c)' = Of(c) \cup {e}
  BY <1>3, <1>7 DEF Of
<1>9. ASSUME NEW d \in Clients, d # c PROVE Of(d)' = Of(d) /\ (ClearOf(d)' => ClearOf(d))
  <2>1. Of(d)' = Of(d)
    BY <1>3, <1>7, <1>9 DEF Of
  <2>2. Event("CLEAR", d, 0) # e
    BY <1>3, <1>9 DEF Event
  <2> QED
    BY <1>6, <2>1, <2>2 DEF ClearOf
<1>10. Flows(c) /\ conn[c].is \notin {"none", "resolving", "opening"}
  <2>1. Busy(steps, c)
    BY <1>0, <1>1 DEF Busy
  <2> QED
    BY <1>2, <2>1, Begun DEF AllFlow
<1>11. Introduced(c)' /\ Unread(c)' /\ Whole(c)'
  BY <1>1, <1>3, <1>8, <1>10 DEF Flows, Introduced, Unread, Whole, WholeTo
<1>12. client[c].attached => conn[c].is # "open" /\ \A x \in Of(c) : x.type # "RECV"
  <2>1. CASE steps = Closing3(c)
    <3>1. ~client[c].attached
      BY <1>2, <2>1 DEF CallInv, Fine, Detached, Closing, Closes
    <3> QED
      BY <3>1
  <2>2. CASE steps = Ending(c)
    BY <1>10, <2>2 DEF Flows, Spent, Ends, Finishing
  <2> QED
    BY <1>2, <2>1, <2>2
<1>13. Spent(c)'
  BY <1>1, <1>3, <1>8, <1>12 DEF Spent
<1>14. HasPcb(c)' /\ Balance(c)'
  BY <1>1, <1>12 DEF HasPcb, Balance, Live
<1>15. Fit(c)'
  <2>1. /\ ~Detaching(steps', c)
        /\ \A m \in Int : steps' # <<Step("recved", c, m)>> /\ steps' # <<Step("ack", c, m)>>
    BY <1>4, NothingToFit
  <2> QED
    BY <2>1 DEF Fit
<1>16. Flows(c)'
  BY <1>11, <1>13, <1>14, <1>15 DEF Flows
<1> QED
  BY <1>0, <1>1, <1>2, <1>4, <1>9, <1>16, HandlerFlows

LEMMA CloseFlows ==
  ASSUME CallInv, Good, AllFlow, Close
  PROVE  AllFlow'
<1>0. PICK c : c = Head(steps).client
  OBVIOUS
<1>1. /\ steps # <<>> /\ Head(steps).do = "close" /\ UNCHANGED <<queue, lwip, got>>
      /\ steps' = Tail(steps)
      /\ conn' = IF Freed(c) THEN conn ELSE [conn EXCEPT ![c].is = "closed"]
      /\ client' = [client EXCEPT ![c].pcb = FALSE]
  BY <1>0 DEF Close, Doing, ApiCall
<1>2. c \in Clients /\ steps = Closing2(c) /\ steps' = <<Step("discard", c, 0)>>
  BY <1>0, <1>1, NextSteps DEF CallInv
<1>3. client \in [Clients -> ClientRecords] /\ conn \in [Clients -> ConnRecords]
  BY DEF CallInv, Typed
<1>4. /\ client'[c].known = client[c].known /\ client'[c].attached = client[c].attached
      /\ \A d \in Clients : d # c => client'[d] = client[d]
  BY <1>1, <1>2, <1>3 DEF ClientRecords
<1>5. /\ conn'[c].is \in {conn[c].is, "closed"}
      /\ \A d \in Clients : d # c => conn'[d] = conn[d]
  BY <1>1, <1>2, <1>3 DEF ConnRecords
<1>6. steps' # <<>> /\ Head(steps').client = c /\ Head(steps').do = "discard"
  BY <1>2 DEF Step
<1>7. \A d : Of(d)' = Of(d) /\ ClearOf(d)' = ClearOf(d)
  <2>1. Head(steps).do \notin {"remove", "return"} /\ Head(steps').do \notin {"remove", "return"}
    BY <1>1, <1>6
  <2> QED
    BY <1>1, <1>6, <2>1, EventsStay
<1>8. Flows(c) /\ conn[c].is \notin {"none", "resolving", "opening"}
  <2>1. Busy(steps, c)
    BY <1>0, <1>1 DEF Busy
  <2> QED
    BY <1>2, <2>1, Begun DEF AllFlow
<1>9. ~client'[c].attached
  BY <1>2, <1>4 DEF CallInv, Fine, Detached, Closing, Closes
<1>10. Introduced(c)' /\ Unread(c)'
  BY <1>4, <1>5, <1>7, <1>8 DEF Flows, Introduced, Unread
<1>11. Fit(c)'
  <2>1. /\ ~Detaching(steps', c)
        /\ \A m \in Int : steps' # <<Step("recved", c, m)>> /\ steps' # <<Step("ack", c, m)>>
    BY <1>6, NothingToFit
  <2> QED
    BY <2>1 DEF Fit
<1>12. Flows(c)'
  BY <1>9, <1>10, <1>11 DEF Flows, Whole, Spent, HasPcb, Live, Balance
<1> QED
  BY <1>0, <1>1, <1>2, <1>4, <1>5, <1>6, <1>7, <1>12, HandlerFlows

LEMMA DiscardFlows ==
  ASSUME CallInv, Good, AllFlow, Discard
  PROVE  AllFlow'
<1>0. PICK c : c = Head(steps).client
  OBVIOUS
<1>1. /\ steps # <<>> /\ Head(steps).do = "discard" /\ UNCHANGED <<queue, lwip, conn, got>>
      /\ steps' = Tail(steps)
      /\ client' = [client EXCEPT ![c].told = client[c].known,
                                  ![c].exists = c \in Outgoing \/ ~client[c].known]
  BY <1>0 DEF Discard, Doing
<1>2. c \in Clients /\ steps = <<Step("discard", c, 0)>> /\ steps' = <<>>
  BY <1>0, <1>1, NextSteps DEF CallInv
<1>3. client \in [Clients -> ClientRecords]
  BY DEF CallInv, Typed
<1>4. /\ client'[c].known = client[c].known /\ client'[c].attached = client[c].attached
      /\ client'[c].later = client[c].later
      /\ client'[c].exists = (c \in Outgoing \/ ~client[c].known)
      /\ \A d \in Clients : d # c => client'[d] = client[d]
  BY <1>1, <1>2, <1>3 DEF ClientRecords
<1>5. \A d : Of(d)' = Of(d) /\ ClearOf(d)' = ClearOf(d)
  BY <1>1, <1>2, EventsStay
<1>6. Flows(c) /\ conn[c].is \notin {"none", "resolving", "opening"} /\ NoFront(c)
  <2>1. Busy(steps, c)
    BY <1>0, <1>1 DEF Busy
  <2> QED
    BY <1>2, <2>1, Begun DEF AllFlow
<1>7. Introduced(c)' /\ Unread(c)'
  BY <1>1, <1>4, <1>5, <1>6 DEF Flows, Introduced, Unread
<1>8. client[c].known
  <2>1. InFront(Event("ACCEPT", c, 0))
    BY DEF Event, InFront
  <2> QED
    BY <1>6, <2>1 DEF Flows, Introduced, NoFront
<1>9. client'[c].exists => client[c].exists
  BY <1>2, <1>4, <1>6, <1>8 DEF Good, Ordered, Gone
<1>10. Whole(c)'
  BY <1>1, <1>4, <1>5, <1>6, <1>9 DEF Flows, Whole, WholeTo
<1>11. client[c].attached => conn[c].is # "open" /\ \A x \in Of(c) : x.type # "RECV"
  BY <1>2, <1>6 DEF Flows, Spent, Ends, Finishing
<1>12. Spent(c)' /\ HasPcb(c)' /\ Balance(c)'
  BY <1>1, <1>4, <1>5, <1>11 DEF Spent, HasPcb, Balance, Live
<1>13. Fit(c)'
  <2>1. /\ ~Detaching(steps', c)
        /\ \A m \in Int : steps' # <<Step("recved", c, m)>> /\ steps' # <<Step("ack", c, m)>>
    BY <1>2, NothingToFit
  <2> QED
    BY <2>1 DEF Fit
<1>14. Flows(c)'
  BY <1>7, <1>10, <1>12, <1>13 DEF Flows
<1> QED
  BY <1>0, <1>1, <1>2, <1>4, <1>5, <1>14, HandlerFlows

\* While c's events are removed, nothing of the others is lost, and no data of c
\* is among them unless c's callbacks have been removed.
LEMMA RemovalFlows ==
  ASSUME CallInv, Good, AllFlow, Removes(steps), NEW c \in Clients, Head(steps).client = c,
         UNCHANGED <<lwip, client, conn, got>>,
         Range(queue') \cup Holds(steps') \subseteq Range(queue) \cup Holds(steps),
         \A e \in (Range(queue) \cup Holds(steps)) \ (Range(queue') \cup Holds(steps')) : e.client = c,
         steps' = <<>> \/ (Removes(steps') /\ Head(steps').client = c)
  PROVE  AllFlow'
<1>1. steps # <<>> /\ Busy(steps, c) /\ NoClear(Range(queue) \cup Holds(steps))
  BY DEF Removes, Busy, Good, Clears
<1>2. \A d : Of(d)' \subseteq Of(d) /\ (d # c => Of(d)' = Of(d))
  BY DEF Of, Waiting
<1>3. \A d : ~ClearOf(d)'
  BY <1>1 DEF ClearOf, NoClear, Event
<1>4. Flows(c) /\ conn[c].is \notin {"none", "resolving", "opening"} /\ NoFront(c)
  BY <1>1, Begun DEF AllFlow
<1>5. client[c].known
  <2>1. InFront(Event("ACCEPT", c, 0))
    BY DEF Event, InFront
  <2> QED
    BY <1>4, <2>1 DEF Flows, Introduced, NoFront
<1>6. client[c].attached => conn[c].is # "open" /\ \A x \in Of(c) : x.type # "RECV"
  BY <1>4 DEF Flows, Spent, Ends, RemovesOf
<1>7. Introduced(c)' /\ Unread(c)'
  BY <1>4, <1>5 DEF Introduced, Unread
<1>8. Whole(c)'
  <2> SUFFICES ASSUME client[c].exists, client[c].attached
               PROVE  \E k \in 0..conn[c].sent : WholeTo(c, k)'
    BY DEF Whole
  <2>1. PICK k \in 0..conn[c].sent : WholeTo(c, k)
    BY <1>4 DEF Flows, Whole
  <2>2. \A n : Datum(c, n).type = "RECV"
    BY DEF Datum, Event
  <2>3. \A n \in 1..conn[c].sent : ~(k < n)
    BY <1>6, <2>1, <2>2 DEF WholeTo
  <2>4. WholeTo(c, k)'
    BY <1>2, <2>1, <2>3 DEF WholeTo
  <2> QED
    BY <2>4
<1>9. Spent(c)' /\ HasPcb(c)' /\ Balance(c)'
  BY <1>2, <1>6 DEF Spent, HasPcb, Balance, Live
<1>10. Fit(c)'
  <2>1. steps' = <<>> \/ (steps' # <<>> /\ Head(steps').do \notin {"recved", "ack", "detach"})
    BY DEF Removes
  <2>2. /\ ~Detaching(steps', c)
        /\ \A m \in Int : steps' # <<Step("recved", c, m)>> /\ steps' # <<Step("ack", c, m)>>
    BY <2>1, NothingToFit
  <2> QED
    BY <2>2 DEF Fit
<1>11. Flows(c)'
  BY <1>7, <1>8, <1>9, <1>10 DEF Flows
<1>12. steps' = <<>> \/ (steps' # <<>> /\ Head(steps').client = c)
  BY DEF Removes
<1>13. \A d \in Clients : d # c => /\ client'[d] = client[d] /\ conn'[d] = conn[d]
                                   /\ Of(d)' = Of(d) /\ (ClearOf(d)' => ClearOf(d))
  BY <1>2, <1>3
<1> QED
  BY <1>1, <1>11, <1>12, <1>13, HandlerFlows

LEMMA RemoveFlows ==
  ASSUME CallInv, Good, AllFlow, RemoveEvent
  PROVE  AllFlow'
<1>0. PICK s, c, e, f, g : /\ s = Head(steps) /\ c = s.client /\ e = Head(queue) /\ f = s.first
                           /\ g = IF f = Idle THEN e ELSE f
  OBVIOUS
<1>1. /\ steps # <<>> /\ s.do = "remove" /\ UNCHANGED <<lwip, client, conn, got>>
      /\ IF TurnedRound(f)
         THEN steps' = <<>> /\ UNCHANGED queue
         ELSE /\ queue' = Tail(queue)
              /\ steps' = IF Matches(e, c) THEN steps ELSE <<Removal("return", c, e, g)>>
  BY <1>0 DEF RemoveEvent, Doing
<1>2. Removes(steps) /\ Holds(steps) = {} /\ queue \in Seq(Events) /\ c \in Clients
  BY <1>0, <1>1, NextSteps DEF Removes, Holds, CallInv, Typed
<1>3. CASE TurnedRound(f)
  <2>1. steps' = <<>> /\ queue' = queue /\ Holds(steps') = {}
    BY <1>1, <1>3 DEF Holds
  <2> QED
    BY <1>0, <1>1, <1>2, <2>1, RemovalFlows
<1>4. CASE ~TurnedRound(f)
  <2>1. queue # <<>> /\ queue' = Tail(queue)
    BY <1>1, <1>4 DEF TurnedRound
  <2>2. \A x : x \in Range(queue) <=> x \in Range(queue') \/ x = e
    BY <1>0, <1>2, <2>1, TakeAway
  <2>3. CASE Matches(e, c)
    <3>1. steps' = steps /\ e.client = c
      BY <1>1, <1>4, <2>3 DEF Matches
    <3> QED
      BY <1>0, <1>1, <1>2, <2>2, <3>1, RemovalFlows
  <2>4. CASE ~Matches(e, c)
    <3>1. steps' = <<Removal("return", c, e, g)>>
      BY <1>1, <1>4, <2>4
    <3>2. /\ steps' # <<>> /\ Head(steps').do = "return" /\ Head(steps').client = c
          /\ Head(steps').packet = e
      BY <3>1 DEF Removal
    <3>3. Removes(steps') /\ Holds(steps') = {e}
      BY <3>2 DEF Removes, Holds
    <3> QED
      BY <1>0, <1>1, <1>2, <2>2, <3>2, <3>3, RemovalFlows
  <2> QED
    BY <2>3, <2>4
<1> QED
  BY <1>3, <1>4

LEMMA ReturnFlows ==
  ASSUME CallInv, Good, AllFlow, ReturnEvent
  PROVE  AllFlow'
<1>0. PICK s, c, e, f : s = Head(steps) /\ c = s.client /\ e = s.packet /\ f = s.first
  OBVIOUS
<1>1. /\ steps # <<>> /\ s.do = "return" /\ UNCHANGED <<lwip, client, conn, got>>
      /\ queue' = Append(queue, e) /\ steps' = <<Removal("remove", c, Idle, f)>>
  BY <1>0 DEF ReturnEvent, Doing
<1>2. /\ e \in Events /\ queue \in Seq(Events) /\ Removes(steps) /\ Holds(steps) = {e}
      /\ c \in Clients
  BY <1>0, <1>1, NextSteps DEF CallInv, Typed, Removes, Holds
<1>3. \A x : x \in Range(queue') <=> x \in Range(queue) \/ x = e
  BY <1>1, <1>2, PutBehind
<1>4. steps' # <<>> /\ Head(steps').do = "remove" /\ Head(steps').client = c
  BY <1>1 DEF Removal
<1>5. Removes(steps') /\ Holds(steps') = {}
  BY <1>4 DEF Removes, Holds
<1> QED
  BY <1>0, <1>1, <1>2, <1>3, <1>4, <1>5, RemovalFlows


-----------------------------------------------------------------------------
(* The theorems about the data.                                             *)

LEMMA InitDataInv == Init => DataInv
<1> SUFFICES ASSUME Init PROVE DataInv
  OBVIOUS
<1>1. /\ queue = <<>> /\ steps = <<>> /\ got = [c \in Clients |-> <<>>]
      /\ client = [c \in Clients |-> NoClient] /\ conn = [c \in Clients |-> NoConnection]
  BY DEF Init
<1>2. /\ ~NoClient.attached /\ NoConnection.is = "none"
      /\ NoConnection.sent = 0 /\ NoConnection.window = 0
  BY DEF NoClient, NoConnection
<1>3. ASSUME NEW c \in Clients PROVE Flows(c)
  <2>1. client[c] = NoClient /\ conn[c] = NoConnection /\ got[c] = Upto(0)
    BY <1>1, UptoFacts
  <2>2. Introduced(c) /\ Unread(c)
    BY <1>2, <2>1 DEF Introduced, Unread
  <2>3. Fit(c)
    <3>1. /\ ~Detaching(steps, c)
          /\ \A m \in Int : steps # <<Step("recved", c, m)>> /\ steps # <<Step("ack", c, m)>>
      BY <1>1, NothingToFit
    <3> QED
      BY <3>1 DEF Fit
  <2> QED
    BY <1>2, <2>1, <2>2, <2>3 DEF Flows, Whole, Spent, HasPcb, Balance, Live
<1>4. got \in [Clients -> Seq(Nat)]
  BY <1>1
<1> QED
  BY <1>3, <1>4 DEF DataInv, AllFlow

LEMMA GotTyped ==
  ASSUME CallInv, got \in [Clients -> Seq(Nat)], [Next]_vars
  PROVE  got' \in [Clients -> Seq(Nat)]
<1>1. ASSUME NEW c \in Clients,
             \/ Connect(c) \/ Lookup(c) \/ DnsFound(c) \/ Accept(c) \/ Established(c) \/ Data(c)
             \/ PollTimer(c) \/ Fin(c) \/ Reset(c)
      PROVE  got' = got
  BY <1>1 DEF Connect, Lookup, DnsFound, Accept, Established, Data, PollTimer, Fin, Reset, Callback
<1>2. ASSUME NEW c \in Clients, Handle(c) PROVE got' \in [Clients -> Seq(Nat)]
  <2>1. CASE HandleRecv(c)
    <3>1. /\ queue # <<>> /\ queue \in Seq(Events)
          /\ got' = got \/ got' = [got EXCEPT ![c] = Append(@, Head(queue).n)]
      BY <2>1 DEF HandleRecv, Taking, CallInv, Typed
    <3>2. Head(queue) \in Events
      BY <3>1, TakeAway
    <3>3. Head(queue).n \in Nat
      BY <3>2 DEF Events
    <3>4. got[c] \in Seq(Nat)
      OBVIOUS
    <3>5. Append(got[c], Head(queue).n) \in Seq(Nat)
      BY <3>3, <3>4, AppendProperties
    <3> QED
      BY <3>1, <3>5
  <2>2. CASE ~HandleRecv(c)
    BY <1>2, <2>2 DEF Handle, Stray, HandleAccept, HandleConnected, HandleDns, HandlePoll,
                      HandleFin, HandleError, HandleClear
  <2> QED
    BY <2>1, <2>2
<1>3. CASE Deliver \/ Recved \/ Detach \/ Clear \/ Close \/ Discard \/ RemoveEvent \/ ReturnEvent
  BY <1>3 DEF Deliver, Recved, Detach, Clear, Close, Discard, RemoveEvent, ReturnEvent, Doing
<1>4. CASE UNCHANGED vars
  BY <1>4 DEF vars, history
<1> QED
  BY <1>1, <1>2, <1>3, <1>4 DEF Next, Lwip, Async

LEMMA NextDataInv ==
  ASSUME CallInv, LineInv, DataInv, [Next]_vars
  PROVE  DataInv'
<1>1. got \in [Clients -> Seq(Nat)] /\ got' \in [Clients -> Seq(Nat)]
  BY GotTyped DEF DataInv
<1> SUFFICES ASSUME ~raced' PROVE AllFlow'
  BY <1>1 DEF DataInv
<1>2. Good /\ AllFlow
  BY StaysRaced DEF LineInv, DataInv
<1>3. CASE Deliver
  BY <1>2, <1>3, DeliverFlows
<1>4. ASSUME NEW c \in Clients,
             \/ Connect(c) \/ Lookup(c) \/ DnsFound(c) \/ Accept(c) \/ Established(c) \/ Data(c)
             \/ PollTimer(c) \/ Fin(c) \/ Reset(c)
      PROVE  AllFlow'
  BY <1>1, <1>2, <1>4, ConnectFlows, AcceptFlows, EstablishedFlows, NothingNew, FinFlows, DataFlows
<1>5. ASSUME NEW c \in Clients, Handle(c) PROVE AllFlow'
  <2>1. ~Stray(c)
    <3> SUFFICES ASSUME Stray(c) PROVE FALSE
      OBVIOUS
    <3>1. ~client[c].exists /\ \E t \in {"RECV", "POLL", "FIN", "ERROR"} : Taking(t, c)
      BY DEF Stray
    <3> QED
      BY <1>2, <3>1, TookExisting
  <2> QED
    BY <1>1, <1>2, <1>5, <2>1, OtherHandlers, RecvFlows, PollFlows, FinishFlows, ErrorFlows,
       ClearFlows DEF Handle
<1>6. CASE Recved \/ Detach \/ Clear \/ Close \/ Discard \/ RemoveEvent \/ ReturnEvent
  BY <1>1, <1>2, <1>6, RecvedFlows, DetachFlows, ClearPut, CloseFlows, DiscardFlows, RemoveFlows,
     ReturnFlows
<1>7. CASE UNCHANGED vars
  <2>1. UNCHANGED <<queue, lwip, steps, client, conn, got>>
    BY <1>7 DEF vars, taskVars, history
  <2>2. ASSUME NEW d \in Clients PROVE Flows(d)'
    <3>1. Of(d)' = Of(d) /\ (ClearOf(d)' => ClearOf(d))
      BY <2>1 DEF Of, Waiting, ClearOf
    <3> QED
      BY <1>2, <2>1, <3>1, Alike DEF AllFlow
  <2> QED
    BY <2>2 DEF AllFlow
<1> QED
  BY <1>3, <1>4, <1>5, <1>6, <1>7 DEF Next, Lwip, Async

\* The data on its way is what follows what the handler was given.
LEMMA ComingIs ==
  ASSUME CallInv, Good, NEW c \in Clients, NEW k \in 0..conn[c].sent, WholeTo(c, k)
  PROVE  /\ Len(got[c]) = k /\ got[c] = Upto(k) /\ k \in Nat /\ conn[c].sent \in Nat
         /\ \A e \in Coming(c) : e.n \in (k + 1)..conn[c].sent /\ e = Datum(c, e.n)
         /\ \A n \in (k + 1)..conn[c].sent : Datum(c, n) \in Coming(c) /\ Datum(c, n).n = n
<1>1. conn[c].sent \in Nat /\ k \in Nat
  BY DEF CallInv, Typed, ConnRecords
<1>2. got[c] = Upto(k) /\ Len(got[c]) = k
  BY <1>1, UptoFacts DEF WholeTo
<1>3. ASSUME NEW e \in Coming(c)
      PROVE  e.n \in (k + 1)..conn[c].sent /\ e = Datum(c, e.n)
  <2>1. e \in Of(c) /\ e.type = "RECV" /\ e.client = c
    <3>1. Idle.type # "RECV"
      BY DEF Idle
    <3> QED
      BY <3>1 DEF Coming, Of
  <2>2. e \in [type : EventTypes, client : Clients, n : Nat]
    BY <2>1, WaitingTyped DEF Events
  <2>3. e = [type |-> e.type, client |-> e.client, n |-> e.n] /\ e.n \in Nat
    BY <2>2
  <2>4. e.n <= conn[c].sent /\ e.n > k
    BY <2>1 DEF Good, Ordered, Numbered, WholeTo
  <2> QED
    BY <1>1, <2>1, <2>3, <2>4 DEF Datum, Event
<1>4. ASSUME NEW n \in (k + 1)..conn[c].sent
      PROVE  Datum(c, n) \in Coming(c) /\ Datum(c, n).n = n
  <2>1. n \in 1..conn[c].sent /\ k < n
    BY <1>1
  <2>2. Datum(c, n) \in Of(c)
    BY <2>1 DEF WholeTo
  <2> QED
    BY <2>2 DEF Coming, Of, Datum, Event
<1> QED
  BY <1>1, <1>2, <1>3, <1>4

LEMMA LineInOrder ==
  ASSUME CallInv, Good, ~Removing, NEW c \in Clients
  PROVE  LET line == Append(queue, lwip) IN
         \A i, j \in DOMAIN line :
           i < j /\ {line[i], line[j]} \subseteq Coming(c) => line[i].n < line[j].n
<1> DEFINE line == Append(queue, lwip)
           m == Len(queue)
<1>1. queue \in Seq(Events \cup {Idle}) /\ lwip \in Events \cup {Idle}
  <2>1. Events \subseteq Events \cup {Idle} /\ queue \in Seq(Events) /\ lwip \in Events \cup {Idle}
    BY DEF CallInv, Typed
  <2> QED
    BY <2>1
<1>2. /\ line \in Seq(Events \cup {Idle}) /\ Len(line) = m + 1 /\ m \in Nat
      /\ \A i \in 1..m : line[i] = queue[i]
      /\ line[m + 1] = lwip
  BY <1>1, AppendProperties, LenProperties
<1>3. DOMAIN line = 1..(m + 1)
  BY <1>2, LenProperties
<1>4. Sorted(queue) /\ LwipLast
  BY DEF Good, InOrder, Removing, Removes
<1>5. \A i \in 1..m : queue[i] \in Range(queue)
  <2>1. queue \in Seq(Events)
    BY DEF CallInv, Typed
  <2> QED
    BY <2>1, InQueue
<1> HIDE DEF line, m
<1>6. ASSUME NEW i \in 1..(m + 1), NEW j \in 1..(m + 1), i < j,
             line[i] \in Coming(c), line[j] \in Coming(c)
      PROVE  line[i].n < line[j].n
  <2>1. i \in 1..m /\ (j \in 1..m \/ j = m + 1)
    BY <1>2, <1>6
  <2>2. /\ line[i].type = "RECV" /\ line[i].client = c
        /\ line[j].type = "RECV" /\ line[j].client = c
    BY <1>6 DEF Coming
  <2>3. MayPrecede(line[i], line[j])
    <3>1. CASE j \in 1..m
      BY <1>2, <1>4, <1>6, <2>1, <3>1 DEF Sorted, m
    <3>2. CASE j = m + 1
      <4>1. lwip # Idle /\ ~InFront(lwip) /\ line[j] = lwip
        BY <1>2, <2>2, <3>2 DEF Idle, InFront
      <4> QED
        BY <1>2, <1>4, <1>5, <2>1, <4>1 DEF LwipLast
    <3> QED
      BY <2>1, <3>1, <3>2
  <2> QED
    BY <2>2, <2>3 DEF MayPrecede
<1> QED
  BY <1>3, <1>6 DEF line

\* Lines 103-138 and 184-204: however many clients there are, however long the
\* queue is and however the threads interleave, what a client's handler was given
\* and what is on its way to it are all that came, once each and in order, unless
\* lwIP's thread puts an event while events are being removed.
THEOREM DataStaysWhole == Spec => []DataInOrder
<1>1. CallInv /\ LineInv /\ DataInv /\ [Next]_vars => CallInv' /\ LineInv' /\ DataInv'
  BY NextCallInv, NextLineInv, NextDataInv
<1>2. CallInv /\ LineInv /\ DataInv => DataInOrder
  <2> SUFFICES ASSUME CallInv, LineInv, DataInv, NEW c \in Clients,
                      ~raced, ~Removing, client[c].exists, client[c].attached
               PROVE  LET n == Len(got[c])  line == Append(queue, lwip) IN
                      /\ got[c] = [i \in 1..n |-> i] /\ n <= conn[c].sent
                      /\ {e.n : e \in Coming(c)} = (n + 1)..conn[c].sent
                      /\ \A i, j \in DOMAIN line :
                           i < j /\ {line[i], line[j]} \subseteq Coming(c) => line[i].n < line[j].n
    BY DEF DataInOrder
  <2>1. Good /\ Whole(c)
    BY DEF LineInv, DataInv, AllFlow, Flows
  <2>2. PICK k \in 0..conn[c].sent : WholeTo(c, k)
    BY <2>1 DEF Whole
  <2>3. /\ Len(got[c]) = k /\ got[c] = Upto(k) /\ k \in Nat /\ conn[c].sent \in Nat
        /\ \A e \in Coming(c) : e.n \in (k + 1)..conn[c].sent
        /\ \A n \in (k + 1)..conn[c].sent : Datum(c, n) \in Coming(c) /\ Datum(c, n).n = n
    BY <2>1, <2>2, ComingIs
  <2>4. {e.n : e \in Coming(c)} = (k + 1)..conn[c].sent
    BY <2>3
  <2>5. got[c] = [i \in 1..k |-> i] /\ k <= conn[c].sent
    BY <2>2, <2>3 DEF Upto
  <2> QED
    BY <2>1, <2>3, <2>4, <2>5, LineInOrder
<1> QED
  BY InitCallInv, InitLineInv, InitDataInv, <1>1, <1>2, PTL DEF Spec

LEMMA ComingCount ==
  ASSUME CallInv, Good, NEW c \in Clients, NEW k \in 0..conn[c].sent, WholeTo(c, k)
  PROVE  Cardinality(Coming(c)) = conn[c].sent - k
<1> DEFINE s == conn[c].sent
           S == (k + 1)..s
           T == Coming(c)
           F == [n \in S |-> Datum(c, n)]
<1>1. /\ k \in Nat /\ s \in Nat /\ k <= s
      /\ \A e \in T : e.n \in S /\ e = Datum(c, e.n)
      /\ \A n \in S : Datum(c, n) \in T /\ Datum(c, n).n = n
  BY ComingIs
<1> HIDE DEF s, T
<1>2. F \in Bijection(S, T)
  <2>1. F \in [S -> T] /\ \A n \in S : F[n] = Datum(c, n)
    BY <1>1
  <2>2. \A m, n \in S : F[m] = F[n] => m = n
    BY <1>1, <2>1
  <2>3. \A e \in T : \E n \in S : F[n] = e
    BY <1>1, <2>1
  <2> HIDE DEF F, S
  <2> QED
    BY <2>1, <2>2, <2>3, Fun_IsBij
<1>3. ExistsBijection(S, T)
  BY <1>2 DEF ExistsBijection
<1>4. IsFiniteSet(S) /\ Cardinality(S) = s - k
  <2>1. k + 1 \in Int /\ s \in Int
    BY <1>1
  <2>2. IsFiniteSet(S) /\ Cardinality(S) = IF k + 1 > s THEN 0 ELSE s - (k + 1) + 1
    BY <2>1, FS_Interval
  <2> QED
    BY <1>1, <2>2
<1> HIDE DEF S
<1>5. Cardinality(T) = Cardinality(S)
  BY <1>3, <1>4, FS_Bijection
<1> QED
  BY <1>4, <1>5 DEF s, T

LEMMA DetachAhead ==
  ASSUME NEW c \in Clients, \A i \in DOMAIN steps : steps[i].do # "detach"
  PROVE  ~Detaching(steps, c)
<1>1. steps # CloseSteps(c)
  <2>1. 1 \in DOMAIN CloseSteps(c) /\ CloseSteps(c)[1].do = "detach"
    BY DEF CloseSteps, Step
  <2> QED
    BY <2>1
<1>2. ASSUME NEW n \in Int PROVE steps # Polled(c, n)
  <2> DEFINE r == <<Step("recved", c, n)>>
             t == CloseSteps(c)
             S == {Step("recved", c, n), Step("detach", c, 0), Step("clear", c, 0),
                   Step("close", c, 0), Step("discard", c, 0)}
  <2>1. r \in Seq(S) /\ Len(r) = 1
    OBVIOUS
  <2>2. t \in Seq(S) /\ Len(t) = 4 /\ t[1] = Step("detach", c, 0)
    BY DEF CloseSteps
  <2>3. Polled(c, n) = r \o t
    BY DEF Polled
  <2> HIDE DEF r, t, S
  <2>4. 2 \in DOMAIN (r \o t) /\ (r \o t)[2] = t[1]
    <3>1. /\ Len(r \o t) = Len(r) + Len(t) /\ r \o t \in Seq(S)
          /\ \A i \in 1..Len(r) + Len(t) :
               (r \o t)[i] = IF i <= Len(r) THEN r[i] ELSE t[i - Len(r)]
      BY <2>1, <2>2, ConcatProperties, Zenon
    <3>2. Len(r) + Len(t) = 5 /\ 2 \in 1..5 /\ ~(2 <= Len(r)) /\ 2 - Len(r) = 1
      BY <2>1, <2>2
    <3>3. DOMAIN (r \o t) = 1..5
      BY <3>1, <3>2, LenProperties
    <3> QED
      BY <3>1, <3>2, <3>3
  <2>5. t[1].do = "detach"
    BY <2>2 DEF Step
  <2> QED
    BY <2>3, <2>4, <2>5
<1> QED
  BY <1>1, <1>2 DEF Detaching

\* Lines 690-713 and 782-862: however many clients and pieces of data there are,
\* what lwIP's window lacks is the data that waits, that is being acknowledged or
\* that ackLater() has counted: each piece is acknowledged once, unless lwIP's
\* thread puts an event while events are being removed.
THEOREM AcknowledgedOnce == Spec => []WindowAccounted
<1>1. CallInv /\ LineInv /\ DataInv /\ [Next]_vars => CallInv' /\ LineInv' /\ DataInv'
  BY NextCallInv, NextLineInv, NextDataInv
<1>2. CallInv /\ LineInv /\ DataInv => WindowAccounted
  <2> SUFFICES ASSUME CallInv, LineInv, DataInv, NEW c \in Clients,
                      ~raced, conn[c].is = "open", client[c].attached,
                      \A i \in DOMAIN steps : steps[i].do # "detach"
               PROVE  conn[c].window = Cardinality(Coming(c)) + client[c].later
                                       + IF steps = <<Step("recved", c, 1)>> THEN 1 ELSE 0
    BY DEF WindowAccounted
  <2>1. Good /\ Whole(c) /\ Balance(c)
    BY DEF LineInv, DataInv, AllFlow, Flows
  <2>2. client[c].exists
    <3> SUFFICES ASSUME ~client[c].exists PROVE FALSE
      OBVIOUS
    <3>1. Over(c)
      BY <2>1 DEF Good, Ordered, Gone
    <3> QED
      BY <3>1 DEF Over, Mute
  <2>3. PICK k \in 0..conn[c].sent : WholeTo(c, k)
    BY <2>1, <2>2 DEF Whole
  <2>4. Cardinality(Coming(c)) = conn[c].sent - Len(got[c])
    BY <2>1, <2>3, ComingCount, ComingIs
  <2>5. ~Detaching(steps, c)
    BY DetachAhead
  <2> QED
    BY <2>1, <2>4, <2>5 DEF Balance, Live
<1> QED
  BY InitCallInv, InitLineInv, InitDataInv, <1>1, <1>2, PTL DEF Spec

-----------------------------------------------------------------------------
(* The bounds, which hold also after an event was put during a removal.      *)

\* A piece of data was handed over and is to be acknowledged now; the handler is
\* going to close c; it closes c and has acknowledged what was kept.
Taken(s, c) == Calls(s, c) /\ Head(s).do = "recved" /\ Tail(s) = <<>>
Leaves(s, c) == s = CloseSteps(c) \/ (Calls(s, c) /\ Tail(s) = CloseSteps(c))
Past(s, c) == s = CloseSteps(c) \/ Closes(s, c)

\* The data of c that is not acknowledged, nor lost in a removal.
Owed(c) == Cardinality(Coming(c)) + client[c].later + IF Taken(steps, c) THEN 1 ELSE 0

Fits(c) == Calls(steps, c) =>
  IF Taken(steps, c) THEN Head(steps).n = 1 ELSE Head(steps).n \in 0..client[c].later
Is(c, S) == conn[c].is \in S
Left(c) == client[c].pcb \/ Is(c, {"finished", "reset", "closed"})

\* A piece of data waits in one place, and was sent.
DataOnce(c) == /\ \A x : x.type = "RECV" /\ x.client = c => OnceOf(x)
               /\ \A e \in Coming(c) : e.n <= conn[c].sent

Bounded(c) ==
  /\ Is(c, {"none", "opening"}) => conn[c].sent = 0
  /\ conn[c].sent <= MaxData /\ conn[c].window \in 0..conn[c].sent
  /\ client[c].later >= 0 /\ Owed(c) <= conn[c].sent
  /\ Is(c, {"open", "half"}) /\ ~Past(steps, c) => Owed(c) <= conn[c].window
  /\ Fits(c) /\ (Leaves(steps, c) => Left(c)) /\ DataOnce(c)
AllBounded == \A c \in Clients : Bounded(c)

\* No data of c is put.
Thins(c) == \A x : x.type = "RECV" /\ x.client = c =>
  (OnceOf(x) => OnceOf(x)') /\ (x \in Waiting' => x \in Waiting)

LEMMA ComingFinite ==
  ASSUME CallInv, NEW c \in Clients
  PROVE  /\ IsFiniteSet(Coming(c)) /\ Cardinality(Coming(c)) \in Nat
         /\ \A e \in Coming(c) : e = Datum(c, e.n) /\ e.n \in Nat
<1>1. queue \in Seq(Events) /\ Len(queue) \in Nat
  BY LenProperties DEF CallInv, Typed
<1>2. IsFiniteSet(Range(queue))
  <2> DEFINE f == [i \in 1..Len(queue) |-> queue[i]]
  <2>1. f \in Surjection(1..Len(queue), Range(queue))
    <3>1. \A x : x \in Range(queue) <=> \E i \in 1..Len(queue) : queue[i] = x
      BY <1>1, InQueue
    <3>2. f \in [1..Len(queue) -> Range(queue)]
      BY <3>1
    <3> QED
      BY <3>1, <3>2 DEF Surjection
  <2>2. 1 \in Int /\ IsFiniteSet(1..Len(queue))
    BY <1>1, FS_Interval
  <2> HIDE DEF f
  <2> QED
    BY <2>1, <2>2, FS_Surjection
<1>3. Holds(steps) = {} \/ \E e : Holds(steps) = {e}
  BY DEF Holds
<1>4. IsFiniteSet(Waiting)
  <2>1. IsFiniteSet({lwip}) /\ IsFiniteSet(Holds(steps))
    BY <1>3, FS_EmptySet, FS_Singleton
  <2> QED
    BY <1>2, <2>1, FS_Union DEF Waiting
<1>5. Coming(c) \subseteq Waiting
  BY DEF Coming
<1>6. IsFiniteSet(Coming(c)) /\ Cardinality(Coming(c)) \in Nat
  BY <1>4, <1>5, FS_Subset, FS_CardinalityType
<1>7. ASSUME NEW e \in Coming(c) PROVE e = Datum(c, e.n) /\ e.n \in Nat
  <2>1. e \in Waiting /\ e.type = "RECV" /\ e.client = c /\ Idle.type = "idle"
    BY DEF Coming, Idle
  <2>2. e \in [type : EventTypes, client : Clients, n : Nat]
    BY <2>1, WaitingTyped DEF Events, Of
  <2>3. e = [type |-> e.type, client |-> e.client, n |-> e.n] /\ e.n \in Nat
    BY <2>2
  <2> QED
    BY <2>1, <2>3 DEF Datum, Event
<1> QED
  BY <1>6, <1>7

LEMMA OwedTyped ==
  ASSUME CallInv, NEW c \in Clients
  PROVE  /\ Cardinality(Coming(c)) \in Nat /\ client[c].later \in Int /\ Owed(c) \in Int
         /\ conn[c].sent \in Nat /\ conn[c].window \in Int
         /\ client[c].later >= 0 => Owed(c) >= client[c].later
BY ComingFinite DEF Owed, CallInv, Typed, ClientRecords, ConnRecords

\* What is owed does not become more when no data is put or handed over.
LEMMA OwedLess ==
  ASSUME CallInv, CallInv', NEW c \in Clients, Thins(c), client'[c].later <= client[c].later,
         Taken(steps', c) => Taken(steps, c)
  PROVE  Owed(c)' \in Int /\ Owed(c)' <= Owed(c)
<1>1. Coming(c)' \subseteq Coming(c)
  BY DEF Coming, Thins
<1>2. IsFiniteSet(Coming(c)) /\ Cardinality(Coming(c)) \in Nat
  BY ComingFinite
<1>3. /\ Cardinality(Coming(c)') <= Cardinality(Coming(c))
      /\ Cardinality(Coming(c)') \in Nat
  BY <1>1, <1>2, FS_Subset, FS_CardinalityType
<1>4. client[c].later \in Int /\ client'[c].later \in Int
  BY DEF CallInv, Typed, ClientRecords
<1> DEFINE t == IF Taken(steps, c) THEN 1 ELSE 0
           u == IF Taken(steps', c) THEN 1 ELSE 0
           m == Cardinality(Coming(c))
           n == Cardinality(Coming(c)')
           k == client[c].later
           l == client'[c].later
<1>5. t \in Int /\ u \in Int /\ u <= t
  OBVIOUS
<1>6. Owed(c) = m + k + t /\ Owed(c)' = n + l + u
  BY DEF Owed
<1>7. m \in Nat /\ n \in Nat /\ n <= m /\ k \in Int /\ l \in Int /\ l <= k
  BY <1>2, <1>3, <1>4
<1> HIDE DEF t, u, m, n, k, l
<1>8. n + l + u \in Int /\ n + l + u <= m + k + t
  BY <1>5, <1>7
<1> QED
  BY <1>6, <1>8

LEMMA OnceStill ==
  ASSUME NEW c \in Clients, DataOnce(c), Thins(c), conn'[c].sent = conn[c].sent
  PROVE  DataOnce(c)'
<1>1. \A x : x.type = "RECV" /\ x.client = c => OnceOf(x)'
  BY DEF DataOnce, Thins
<1>2. Coming(c)' \subseteq Coming(c)
  BY DEF Coming, Thins
<1> QED
  BY <1>1, <1>2 DEF DataOnce

\* A client of which no more is owed, and whose window is as before.
LEMMA OwedBounded ==
  ASSUME CallInv, NEW c \in Clients, Bounded(c), Thins(c),
         client'[c].later >= 0, Owed(c)' \in Int, Owed(c)' <= Owed(c),
         conn'[c].sent = conn[c].sent, conn'[c].window = conn[c].window,
         Is(c, {"none", "opening"})' => Is(c, {"none", "opening"}),
         Is(c, {"open", "half"})' => Is(c, {"open", "half", "none", "opening"}),
         Is(c, {"open", "half"})' /\ Past(steps, c) => Past(steps', c),
         Fits(c)', Leaves(steps', c) => Left(c)'
  PROVE  Bounded(c)'
<1>1. Owed(c) \in Int /\ conn[c].sent \in Nat /\ conn[c].window \in Int
  BY OwedTyped
<1>2. DataOnce(c)'
  BY OnceStill DEF Bounded
<1>3. (Is(c, {"none", "opening"}) => conn[c].sent = 0)'
  BY DEF Bounded
<1>4. (conn[c].sent <= MaxData /\ conn[c].window \in 0..conn[c].sent)'
  BY DEF Bounded
<1>5. (client[c].later >= 0 /\ Owed(c) <= conn[c].sent)'
  BY <1>1 DEF Bounded
<1>6. ASSUME Is(c, {"open", "half"})', ~Past(steps', c) PROVE Owed(c)' <= conn'[c].window
  <2>1. CASE Is(c, {"open", "half"})
    BY <1>1, <1>6, <2>1 DEF Bounded
  <2>2. CASE Is(c, {"none", "opening"})
    BY <1>1, <2>2 DEF Bounded
  <2> QED
    BY <1>6, <2>1, <2>2 DEF Is
<1> QED
  BY <1>2, <1>3, <1>4, <1>5, <1>6 DEF Bounded

LEMMA StaysBounded ==
  ASSUME CallInv, CallInv', NEW c \in Clients, Bounded(c), Thins(c),
         client'[c].later \in 0..client[c].later, Taken(steps', c) => Taken(steps, c),
         conn'[c].sent = conn[c].sent, conn'[c].window = conn[c].window,
         Is(c, {"none", "opening"})' => Is(c, {"none", "opening"}),
         Is(c, {"open", "half"})' => Is(c, {"open", "half", "none", "opening"}),
         Is(c, {"open", "half"})' /\ Past(steps, c) => Past(steps', c),
         Fits(c)', Leaves(steps', c) => Left(c)'
  PROVE  Bounded(c)'
<1>1. client[c].later \in Int
  BY OwedTyped
<1>2. client'[c].later <= client[c].later /\ client'[c].later >= 0
  BY <1>1
<1>3. Owed(c)' \in Int /\ Owed(c)' <= Owed(c)
  BY <1>2, OwedLess
<1> QED
  BY <1>2, <1>3, OwedBounded

\* A client that the step has nothing to do with.
LEMMA OtherBounded ==
  ASSUME CallInv, CallInv', NEW c \in Clients, Bounded(c), Thins(c),
         client'[c] = client[c], conn'[c] = conn[c],
         steps' = steps \/ (~Busy(steps, c) /\ ~Busy(steps', c))
  PROVE  Bounded(c)'
<1>1. client[c].later \in Int /\ client[c].later >= 0
  BY OwedTyped DEF Bounded
<1>2. CASE steps' = steps
  <2>1. Fits(c)' /\ (Leaves(steps', c) => Left(c)')
    BY <1>2 DEF Bounded, Fits, Left, Is
  <2> QED
    BY <1>1, <1>2, <2>1, StaysBounded DEF Is
<1>3. CASE ~Busy(steps, c) /\ ~Busy(steps', c)
  <2>1. \A s : ~Busy(s, c) => ~Calls(s, c) /\ ~Leaves(s, c) /\ ~Past(s, c)
    <3>1. CloseSteps(c) # <<>> /\ Head(CloseSteps(c)).client = c
      BY DEF CloseSteps, Step
    <3>2. /\ Closing3(c) # <<>> /\ Head(Closing3(c)).client = c
          /\ Closing2(c) # <<>> /\ Head(Closing2(c)).client = c
      BY DEF Closing3, Closing2, Step
    <3> QED
      BY <3>1, <3>2 DEF Busy, Calls, Leaves, Past, Closes
  <2>2. Fits(c)' /\ ~Leaves(steps', c) /\ ~Taken(steps', c) /\ ~Past(steps, c)
    BY <1>3, <2>1 DEF Fits, Taken
  <2> QED
    BY <1>1, <2>2, StaysBounded DEF Is
<1> QED
  BY <1>2, <1>3

-----------------------------------------------------------------------------
(* The bounds and the steps of lwIP's thread.                                *)

LEMMA CallbackThins ==
  ASSUME lwip = Idle, UNCHANGED <<queue, steps>>, NEW c, lwip' = Idle \/ lwip'.client = c
  PROVE  /\ \A d : d # c => Thins(d)
         /\ lwip' = Idle \/ lwip'.type # "RECV" => Thins(c)
<1>1. /\ \A x : x \in Waiting' => x \in Waiting \/ x = lwip'
      /\ \A x : x # lwip' /\ OnceOf(x) => OnceOf(x)'
  BY DEF Waiting, OnceOf
<1>2. Idle.type = "idle"
  BY DEF Idle
<1>3. ASSUME NEW d, d # c \/ lwip' = Idle \/ lwip'.type # "RECV" PROVE Thins(d)
  <2>1. ASSUME NEW x, x.type = "RECV", x.client = d PROVE x # lwip'
    BY <1>2, <1>3, <2>1
  <2> QED
    BY <1>1, <2>1 DEF Thins
<1> QED
  BY <1>3

\* A callback that brings no data.
LEMMA CallbackBounds ==
  ASSUME CallInv, CallInv', AllBounded, NEW c \in Clients, lwip = Idle, UNCHANGED <<queue, steps>>,
         lwip' = Idle \/ (lwip'.client = c /\ lwip'.type # "RECV"),
         \A d \in Clients : d # c => client'[d] = client[d] /\ conn'[d] = conn[d],
         \/ client'[c].later = client[c].later
         \/ client'[c].later = 0 /\ conn[c].is = "none",
         conn'[c].sent = conn[c].sent, conn'[c].window = conn[c].window,
         Is(c, {"none", "opening"})' => Is(c, {"none", "opening"}),
         Is(c, {"open", "half"})' => Is(c, {"open", "half", "none", "opening"}),
         Left(c) /\ ~Is(c, {"none", "resolving", "opening"}) => Left(c)'
  PROVE  AllBounded'
<1>1. \A d : Thins(d)
  BY CallbackThins
<1>2. ASSUME NEW d \in Clients, d # c PROVE Bounded(d)'
  BY <1>1, <1>2, OtherBounded DEF AllBounded
<1>3. Bounded(c)
  BY DEF AllBounded
<1>4. client[c].later \in Int /\ client[c].later >= 0
  BY <1>3, OwedTyped DEF Bounded
<1>5. client'[c].later \in 0..client[c].later
  BY <1>4
<1>6. Left(c) \/ Calls(steps, c) => ~Is(c, {"none", "resolving", "opening"})
  BY DEF CallInv, Fine, Late, Calling, Left, Is
<1>7. Fits(c)'
  BY <1>3, <1>6 DEF Bounded, Fits, Is
<1>8. Leaves(steps', c) => Left(c)'
  BY <1>3, <1>6 DEF Bounded
<1>9. Bounded(c)'
  BY <1>1, <1>3, <1>5, <1>7, <1>8, StaysBounded
<1> QED
  BY <1>2, <1>9 DEF AllBounded

LEMMA ConnectBounds ==
  ASSUME CallInv, CallInv', AllBounded, NEW c \in Clients, Connect(c) \/ Lookup(c)
  PROVE  AllBounded'
<1>1. /\ lwip = Idle /\ lwip' = Idle /\ UNCHANGED <<queue, steps>> /\ conn[c].is = "none"
  BY DEF Connect, Lookup, Callback
<1>2. client \in [Clients -> ClientRecords] /\ conn \in [Clients -> ConnRecords]
  BY DEF CallInv, Typed
<1>3. \A d \in Clients : d # c => client'[d] = client[d] /\ conn'[d] = conn[d]
  BY <1>2 DEF Connect, Lookup
<1>4. client'[c].later = 0
  <2>1. CASE Connect(c)
    BY <1>2, <2>1 DEF Connect, NoClient
  <2>2. CASE Lookup(c)
    BY <1>2, <2>2 DEF Lookup, NoClient
  <2> QED
    BY <2>1, <2>2
<1>5. /\ conn'[c].is \in {"opening", "resolving"}
      /\ conn'[c].sent = conn[c].sent /\ conn'[c].window = conn[c].window
  BY <1>2 DEF Connect, Lookup, ConnRecords
<1>6. /\ Is(c, {"none", "opening"}) /\ Is(c, {"none", "resolving", "opening"})
      /\ ~Is(c, {"open", "half"})'
  BY <1>1, <1>5 DEF Is
<1> QED
  BY <1>1, <1>3, <1>4, <1>5, <1>6, CallbackBounds

LEMMA AcceptBounds ==
  ASSUME CallInv, CallInv', AllBounded, NEW c \in Clients, Accept(c)
  PROVE  AllBounded'
<1>1. /\ lwip = Idle /\ lwip' = Event("ACCEPT", c, 0) /\ UNCHANGED <<queue, steps>>
      /\ conn[c].is = "none"
  BY DEF Accept, Callback
<1>2. client \in [Clients -> ClientRecords] /\ conn \in [Clients -> ConnRecords]
  BY DEF CallInv, Typed
<1>3. \A d \in Clients : d # c => client'[d] = client[d] /\ conn'[d] = conn[d]
  BY <1>2 DEF Accept
<1>4. client'[c].later = 0
  BY <1>2 DEF Accept, NoClient
<1>5. conn'[c].is = "open" /\ conn'[c].sent = conn[c].sent /\ conn'[c].window = conn[c].window
  BY <1>2 DEF Accept, ConnRecords
<1>6. /\ Is(c, {"none", "opening"}) /\ Is(c, {"none", "resolving", "opening"})
      /\ Is(c, {"open", "half", "none", "opening"})
  BY <1>1 DEF Is
<1>7. lwip'.client = c /\ lwip'.type # "RECV"
  BY <1>1 DEF Event
<1> QED
  BY <1>1, <1>3, <1>4, <1>5, <1>6, <1>7, CallbackBounds

\* What changes the state of the connection alone, and _pcb of a FIN.
LEMMA StateBounds ==
  ASSUME CallInv, CallInv', AllBounded, NEW c \in Clients,
         DnsFound(c) \/ Established(c) \/ PollTimer(c) \/ Reset(c) \/ Fin(c)
  PROVE  AllBounded'
<1>1. /\ lwip = Idle /\ UNCHANGED <<queue, steps>>
  BY DEF DnsFound, Established, PollTimer, Reset, Fin, Callback
<1>2. client \in [Clients -> ClientRecords] /\ conn \in [Clients -> ConnRecords]
  BY DEF CallInv, Typed
<1>3. /\ \A d \in Clients : d # c => client'[d] = client[d]
      /\ client'[c].later = client[c].later
      /\ client'[c].pcb = client[c].pcb \/ conn'[c].is = "finished"
  <2>1. CASE DnsFound(c) \/ Established(c) \/ PollTimer(c) \/ Reset(c)
    BY <2>1 DEF DnsFound, Established, PollTimer, Reset
  <2>2. CASE Fin(c)
    BY <1>2, <2>2 DEF Fin, Finished, ClientRecords, ConnRecords
  <2> QED
    BY <2>1, <2>2
<1>4. /\ \A d \in Clients : d # c => conn'[d] = conn[d]
      /\ conn'[c].sent = conn[c].sent /\ conn'[c].window = conn[c].window
      /\ conn'[c].is \notin {"none", "opening"}
      /\ conn'[c].is \in {"open", "half"} => conn[c].is \in {"open", "half", "opening"}
      /\ conn[c].is \notin {"finished", "reset", "closed"}
  BY <1>2 DEF DnsFound, Established, PollTimer, Reset, Fin, ConnRecords
<1>5. lwip' = Idle \/ (lwip'.client = c /\ lwip'.type # "RECV")
  BY DEF DnsFound, Established, PollTimer, Reset, Fin, Put, Event
<1>6. /\ Is(c, {"none", "opening"})' => Is(c, {"none", "opening"})
      /\ Is(c, {"open", "half"})' => Is(c, {"open", "half", "none", "opening"})
  BY <1>4 DEF Is
<1>7. Left(c) => Left(c)'
  BY <1>3, <1>4 DEF Left, Is
<1> QED
  BY <1>1, <1>3, <1>4, <1>5, <1>6, <1>7, CallbackBounds

LEMMA DeliverBounds ==
  ASSUME CallInv, CallInv', AllBounded, Deliver
  PROVE  AllBounded'
<1>1. /\ lwip # Idle /\ lwip' = Idle /\ UNCHANGED <<steps, client, conn>>
      /\ queue' = <<lwip>> \o queue \/ queue' = Append(queue, lwip)
  BY DEF Deliver
<1>2. queue \in Seq(Events) /\ lwip \in Events
  BY <1>1 DEF CallInv, Typed
<1>3. /\ \A x : x \in Range(queue') <=> x \in Range(queue) \/ x = lwip
      /\ \A x : Unique(queue, x) /\ (lwip = x => x \notin Range(queue)) => Unique(queue', x)
  <2>1. CASE queue' = <<lwip>> \o queue
    BY <1>2, <2>1, PutInFront
  <2>2. CASE queue' = Append(queue, lwip)
    BY <1>2, <2>2, PutBehind
  <2> QED
    BY <1>1, <2>1, <2>2
<1>4. Holds(steps') = Holds(steps) /\ \A x : x \in Waiting' /\ x # Idle => x \in Waiting
  BY <1>1, <1>3 DEF Waiting
<1>5. ASSUME NEW x, x # Idle, OnceOf(x) PROVE OnceOf(x)'
  BY <1>1, <1>3, <1>4, <1>5 DEF OnceOf
<1>6. \A d : Thins(d)
  <2>1. Idle.type = "idle"
    BY DEF Idle
  <2> QED
    BY <1>4, <1>5, <2>1 DEF Thins
<1>7. ASSUME NEW d \in Clients PROVE Bounded(d)'
  BY <1>1, <1>6, OtherBounded DEF AllBounded
<1> QED
  BY <1>7 DEF AllBounded

\* A piece of data comes: there is one more to acknowledge, if it is put at all.
LEMMA DataBounds ==
  ASSUME CallInv, CallInv', AllBounded, NEW c \in Clients, Data(c)
  PROVE  AllBounded'
<1>1. /\ lwip = Idle /\ UNCHANGED <<queue, steps, client>> /\ conn[c].is = "open"
      /\ conn[c].sent < MaxData
      /\ conn' = [conn EXCEPT ![c].sent = @ + 1, ![c].window = @ + 1]
  BY DEF Data, Callback
<1>2. /\ conn \in [Clients -> ConnRecords]
      /\ conn[c].sent \in Nat /\ conn[c].window \in Int /\ client[c].later \in Int
      /\ Owed(c) \in Int /\ Cardinality(Coming(c)) \in Nat /\ IsFiniteSet(Coming(c))
  BY OwedTyped, ComingFinite DEF CallInv, Typed
<1>3. /\ conn'[c].is = "open"
      /\ conn'[c].sent = conn[c].sent + 1 /\ conn'[c].window = conn[c].window + 1
      /\ \A d \in Clients : d # c => conn'[d] = conn[d]
  BY <1>1, <1>2 DEF ConnRecords
<1> DEFINE s == conn[c].sent
           x == Datum(c, s + 1)
<1>4. lwip' \in {x, Idle} /\ x.type = "RECV" /\ x.client = c /\ x.n = s + 1 /\ Idle.type = "idle"
  BY DEF Data, Put, Datum, Event, Idle
<1>5. Bounded(c)
  BY DEF AllBounded
<1>6. \A d \in Clients : d # c => Thins(d)
  <2>1. lwip' = Idle \/ lwip'.client = c
    BY <1>4
  <2> QED
    BY <1>1, <2>1, CallbackThins
<1>7. ASSUME NEW d \in Clients, d # c PROVE Bounded(d)'
  BY <1>1, <1>3, <1>6, <1>7, OtherBounded DEF AllBounded
<1>8. x \notin Coming(c)
  <2>1. ASSUME x \in Coming(c) PROVE FALSE
    <3>1. x.n <= s
      BY <1>5, <2>1 DEF Bounded, DataOnce
    <3> QED
      BY <1>2, <1>4, <3>1
  <2> QED
    BY <2>1
<1>9. x \notin Waiting
  BY <1>4, <1>8 DEF Coming
<1>10. Coming(c)' \subseteq Coming(c) \cup {x}
  <2>1. ASSUME NEW e \in Coming(c)' PROVE e \in Coming(c) \cup {x}
    <3>1. e \in Waiting' /\ e.type = "RECV" /\ e.client = c
      BY <2>1 DEF Coming
    <3>2. e \in Waiting \/ e = lwip'
      BY <1>1, <3>1 DEF Waiting
    <3> QED
      BY <1>4, <3>1, <3>2 DEF Coming
  <2> QED
    BY <2>1
<1>11. Cardinality(Coming(c)') \in Nat /\ Cardinality(Coming(c)') <= Cardinality(Coming(c)) + 1
  <2>1. /\ IsFiniteSet(Coming(c) \cup {x})
        /\ Cardinality(Coming(c) \cup {x}) = Cardinality(Coming(c)) + 1
    BY <1>2, <1>8, FS_AddElement
  <2>2. /\ IsFiniteSet(Coming(c)')
        /\ Cardinality(Coming(c)') <= Cardinality(Coming(c) \cup {x})
    BY <1>10, <2>1, FS_Subset
  <2> QED
    BY <2>1, <2>2, FS_CardinalityType
<1> DEFINE t == IF Taken(steps, c) THEN 1 ELSE 0
           m == Cardinality(Coming(c))
           n == Cardinality(Coming(c)')
           k == client[c].later
           w == conn[c].window
<1>12. Owed(c) = m + k + t /\ Owed(c)' = n + k + t /\ t \in Int
  BY <1>1 DEF Owed
<1>13. Owed(c)' \in Int /\ Owed(c)' <= Owed(c) + 1
  <2>1. m \in Nat /\ n \in Nat /\ n <= m + 1 /\ k \in Int
    BY <1>2, <1>11
  <2> HIDE DEF t, m, n, k
  <2>2. n + k + t \in Int /\ n + k + t <= (m + k + t) + 1
    BY <1>12, <2>1
  <2> QED
    BY <1>12, <2>2
<1>14. DataOnce(c)'
  <2>1. ASSUME NEW y, y.type = "RECV", y.client = c PROVE OnceOf(y)'
    <3>1. OnceOf(y)
      BY <1>5, <2>1 DEF Bounded, DataOnce
    <3>2. y # lwip' \/ y \notin Waiting
      BY <1>4, <1>9, <2>1
    <3> QED
      BY <1>1, <3>1, <3>2 DEF OnceOf, Waiting
  <2>2. ASSUME NEW e \in Coming(c)' PROVE e.n <= conn'[c].sent
    <3>1. CASE e = x
      BY <1>2, <1>3, <1>4, <3>1
    <3>2. CASE e \in Coming(c)
      <4>1. e.n \in Nat /\ e.n <= s
        BY <1>5, <3>2, ComingFinite DEF Bounded, DataOnce
      <4> QED
        BY <1>2, <1>3, <4>1
    <3> QED
      BY <1>10, <3>1, <3>2
  <2> QED
    BY <2>1, <2>2 DEF DataOnce
<1>15. Fits(c)' /\ (Leaves(steps', c) => Left(c)')
  BY <1>1, <1>3, <1>5 DEF Bounded, Fits, Left, Is
<1>16. conn'[c].sent <= MaxData /\ conn'[c].window \in 0..conn'[c].sent
  <2>1. w \in 0..s /\ s < MaxData /\ MaxData \in Nat
    BY <1>1, <1>5 DEF Bounded
  <2> QED
    BY <1>2, <1>3, <2>1
<1>17. client'[c].later >= 0 /\ Owed(c)' <= conn'[c].sent
  <2>1. k >= 0 /\ Owed(c) <= s
    BY <1>5 DEF Bounded
  <2> QED
    BY <1>1, <1>2, <1>3, <1>13, <2>1
<1>18. ASSUME ~Past(steps', c) PROVE Owed(c)' <= conn'[c].window
  <2>1. Owed(c) <= w
    BY <1>1, <1>5, <1>18 DEF Bounded, Is
  <2> QED
    BY <1>2, <1>3, <1>13, <2>1
<1>19. Is(c, {"none", "opening"})' => conn'[c].sent = 0
  BY <1>3 DEF Is
<1>20. Bounded(c)'
  BY <1>14, <1>15, <1>16, <1>17, <1>18, <1>19 DEF Bounded
<1> QED
  BY <1>7, <1>20 DEF AllBounded

-----------------------------------------------------------------------------
(* The bounds and the async task.                                            *)

LEMMA NoSuchCall ==
  ASSUME NEW s, NEW c, s = <<>> \/ (s # <<>> /\ Head(s).do \notin {"recved", "ack", "detach"})
  PROVE  ~Calls(s, c) /\ ~Taken(s, c) /\ ~Leaves(s, c)
<1>1. ~Calls(s, c)
  BY DEF Calls
<1>2. CloseSteps(c) # <<>> /\ Head(CloseSteps(c)).do = "detach"
  BY DEF CloseSteps, Step
<1> QED
  BY <1>1, <1>2 DEF Taken, Leaves

\* A step of c's handler leaves the other clients alone.
LEMMA TaskBounds ==
  ASSUME CallInv, CallInv', AllBounded, NEW c \in Clients,
         steps = <<>> \/ Head(steps).client = c, steps' = <<>> \/ Head(steps').client = c,
         \A d : Thins(d),
         \A d \in Clients : d # c => client'[d] = client[d] /\ conn'[d] = conn[d],
         Bounded(c)'
  PROVE  AllBounded'
<1>1. ASSUME NEW d \in Clients, d # c PROVE Bounded(d)'
  <2>1. ~Busy(steps, d) /\ ~Busy(steps', d)
    BY <1>1 DEF Busy
  <2> QED
    BY <1>1, <2>1, OtherBounded DEF AllBounded
<1> QED
  BY <1>1 DEF AllBounded

\* One that calls lwIP no more and keeps what ackLater() has counted.
LEMMA QuietBounds ==
  ASSUME CallInv, CallInv', AllBounded, NEW c \in Clients,
         steps = <<>> \/ Head(steps).client = c,
         steps' = <<>> \/ (/\ steps' # <<>> /\ Head(steps').client = c
                           /\ Head(steps').do \notin {"recved", "ack", "detach"}),
         \A d : Thins(d),
         \A d \in Clients : d # c => client'[d] = client[d] /\ conn'[d] = conn[d],
         client'[c].later = client[c].later,
         conn'[c].sent = conn[c].sent, conn'[c].window = conn[c].window,
         conn'[c].is = conn[c].is \/ conn'[c].is = "closed",
         Past(steps, c) => Past(steps', c) \/ conn'[c].is \notin {"open", "half"}
  PROVE  AllBounded'
<1>1. ~Calls(steps', c) /\ ~Taken(steps', c) /\ ~Leaves(steps', c)
  BY NoSuchCall
<1>2. Fits(c)'
  BY <1>1 DEF Fits
<1>3. Bounded(c)
  BY DEF AllBounded
<1>4. client'[c].later \in 0..client[c].later
  BY <1>3, OwedTyped DEF Bounded
<1>5. /\ Is(c, {"none", "opening"})' => Is(c, {"none", "opening"})
      /\ Is(c, {"open", "half"})' => Is(c, {"open", "half", "none", "opening"})
      /\ Is(c, {"open", "half"})' /\ Past(steps, c) => Past(steps', c)
  BY DEF Is
<1>6. Bounded(c)'
  BY <1>1, <1>2, <1>3, <1>4, <1>5, StaysBounded
<1> QED
  BY <1>6, TaskBounds

LEMMA TakingThins ==
  ASSUME CallInv, NEW c \in Clients, NEW t, Taking(t, c), Holds(steps') = {}
  PROVE  /\ steps = <<>> /\ UNCHANGED conn /\ \A d : Thins(d) /\ ~Past(steps, d)
         /\ Head(queue) \in Events /\ Head(queue) \in Waiting
         /\ Head(queue).type = t /\ Head(queue).client = c
         /\ OnceOf(Head(queue)) => Head(queue) \notin Waiting'
<1>1. /\ steps = <<>> /\ queue # <<>> /\ queue' = Tail(queue)
      /\ Head(queue).type = t /\ Head(queue).client = c /\ UNCHANGED <<lwip, conn>>
  BY DEF Taking
<1>2. queue \in Seq(Events)
  BY DEF CallInv, Typed
<1>3. /\ Head(queue) \in Events
      /\ \A x : x \in Range(queue) <=> x \in Range(queue') \/ x = Head(queue)
      /\ \A x : Unique(queue, x) =>
           Unique(queue', x) /\ (Head(queue) = x => x \notin Range(queue'))
  BY <1>1, <1>2, TakeAway
<1>4. Holds(steps) = {}
  BY <1>1 DEF Holds
<1>5. /\ \A x : x \in Waiting <=> x \in Range(queue) \/ x = lwip
      /\ \A x : x \in Waiting' <=> x \in Range(queue') \/ x = lwip
  BY <1>1, <1>4 DEF Waiting
<1>6. \A x : OnceOf(x) => OnceOf(x)' /\ (Head(queue) = x => x \notin Waiting')
  BY <1>1, <1>3, <1>4, <1>5 DEF OnceOf
<1>7. \A d : Thins(d)
  BY <1>3, <1>5, <1>6 DEF Thins
<1>8. ASSUME NEW d PROVE ~Past(steps, d)
  <2>1. CloseSteps(d) # <<>> /\ ~Closes(<<>>, d)
    BY ClosingApart DEF CloseSteps
  <2> QED
    BY <1>1, <2>1 DEF Past
<1> QED
  BY <1>1, <1>3, <1>5, <1>6, <1>7, <1>8

\* Handlers that have nothing to acknowledge.
LEMMA HandleBounds ==
  ASSUME CallInv, CallInv', AllBounded, NEW c \in Clients,
         \/ Stray(c) \/ HandleAccept(c) \/ HandleConnected(c) \/ HandleDns(c) \/ HandleFin(c)
         \/ HandleError(c) \/ HandleClear(c)
  PROVE  AllBounded'
<1>1. PICK t : Taking(t, c)
  BY DEF Stray, HandleAccept, HandleConnected, HandleDns, HandleFin, HandleError, HandleClear
<1>2. steps = <<>>
  BY <1>1 DEF Taking
<1>3. steps' = <<>> \/ (/\ steps' # <<>> /\ Head(steps').client = c
                        /\ Head(steps').do \in {"clear", "discard", "remove"})
  BY <1>2 DEF Stray, HandleAccept, HandleConnected, HandleDns, HandleFin, HandleError, HandleClear,
              Step, Removal
<1>4. Holds(steps') = {}
  BY <1>3 DEF Holds
<1>5. UNCHANGED conn /\ \A d : Thins(d) /\ ~Past(steps, d)
  BY <1>1, <1>4, TakingThins
<1>6. client \in [Clients -> ClientRecords]
  BY DEF CallInv, Typed
<1>7. /\ \A d \in Clients : d # c => client'[d] = client[d]
      /\ client'[c].later = client[c].later
  <2>1. CASE HandleAccept(c)
    BY <1>6, <2>1 DEF HandleAccept, ClientRecords
  <2>2. CASE HandleConnected(c)
    BY <1>6, <2>2 DEF HandleConnected, ClientRecords
  <2>3. CASE HandleError(c)
    <3>1. client' = [client EXCEPT ![c] = [client[c] EXCEPT !.pcb = FALSE, !.attached = FALSE]]
      BY <1>6, <2>3 DEF HandleError
    <3> QED
      BY <1>6, <3>1 DEF ClientRecords
  <2>4. CASE Stray(c) \/ HandleDns(c) \/ HandleFin(c) \/ HandleClear(c)
    BY <2>4 DEF Stray, HandleDns, HandleFin, HandleClear
  <2> QED
    BY <2>1, <2>2, <2>3, <2>4
<1> QED
  BY <1>2, <1>3, <1>5, <1>7, QuietBounds

LEMMA PollBounds ==
  ASSUME CallInv, CallInv', AllBounded, NEW c \in Clients, HandlePoll(c)
  PROVE  AllBounded'
<1> DEFINE k == client[c].later
<1>1. /\ Taking("POLL", c) /\ steps = <<>> /\ UNCHANGED client
      /\ \/ UNCHANGED steps
         \/ steps' = <<Step("ack", c, k)>>
         \/ client[c].pcb /\ steps' = Polled(c, k)
  BY DEF HandlePoll, Taking, Polled
<1>2. CASE UNCHANGED steps
  <2>1. Holds(steps') = {}
    BY <1>1, <1>2 DEF Holds
  <2> QED
    BY <1>1, <1>2, <2>1, TakingThins, QuietBounds
<1>3. CASE steps' = <<Step("ack", c, k)>> \/ (client[c].pcb /\ steps' = Polled(c, k))
  <2>1. /\ steps' # <<>> /\ Head(steps').client = c /\ Head(steps').do \in {"recved", "ack"}
        /\ Head(steps').n = k
        /\ Head(steps').do = "ack" => Tail(steps') = <<>>
        /\ Head(steps').do = "recved" => Tail(steps') = CloseSteps(c) /\ client[c].pcb
    <3>1. CASE steps' = <<Step("ack", c, k)>>
      BY <3>1, Rests DEF Step
    <3>2. CASE client[c].pcb /\ steps' = Polled(c, k)
      <4>1. steps' # <<>> /\ Head(steps') = Step("recved", c, k) /\ Tail(steps') = CloseSteps(c)
        BY <3>2, Rests
      <4> QED
        BY <3>2, <4>1 DEF Step
    <3> QED
      BY <1>3, <3>1, <3>2
  <2>2. Holds(steps') = {}
    BY <2>1 DEF Holds
  <2>3. UNCHANGED conn /\ \A d : Thins(d) /\ ~Past(steps, d)
    BY <1>1, <2>2, TakingThins
  <2>4. CloseSteps(c) # <<>> /\ Head(CloseSteps(c)).do = "detach"
    BY DEF CloseSteps, Step
  <2>5. ~Taken(steps', c)
    BY <2>1, <2>4 DEF Taken
  <2>6. Leaves(steps', c) => Left(c)'
    <3>1. steps' # CloseSteps(c)
      BY <2>1, <2>4
    <3> QED
      BY <1>1, <2>1, <2>4, <3>1 DEF Leaves, Left
  <2>7. Bounded(c) /\ k \in Int /\ k >= 0
    BY OwedTyped DEF AllBounded, Bounded
  <2>8. Fits(c)' /\ client'[c].later \in 0..k
    <3>1. client'[c].later = k /\ k \in 0..k
      BY <1>1, <2>7
    <3>2. Head(steps').n \in 0..client'[c].later
      BY <2>1, <3>1
    <3> QED
      BY <2>5, <3>1, <3>2 DEF Fits
  <2>9. Bounded(c)'
    BY <1>1, <2>3, <2>5, <2>6, <2>7, <2>8, StaysBounded DEF Is
  <2> QED
    BY <1>1, <2>1, <2>3, <2>9, TaskBounds
<1> QED
  BY <1>1, <1>2, <1>3

\* Data is handed over: it waits no more, and is acknowledged now or counted.
LEMMA RecvBounds ==
  ASSUME CallInv, CallInv', AllBounded, NEW c \in Clients, HandleRecv(c)
  PROVE  AllBounded'
<1>1. /\ client \in [Clients -> ClientRecords] /\ client[c] \in ClientRecords
      /\ client[c].later \in Int
  BY DEF CallInv, Typed, ClientRecords
<1>2. PICK later \in BOOLEAN :
        /\ Taking("RECV", c) /\ client' = [client EXCEPT ![c] = Assimilated(c, later)]
        /\ steps' = IF AcksNow(c, later) THEN <<Step("recved", c, 1)>> ELSE <<>>
  BY DEF HandleRecv
<1> DEFINE k == client[c].later
           l == client'[c].later
           u == IF Taken(steps', c) THEN 1 ELSE 0
           m == Cardinality(Coming(c))
           n == Cardinality(Coming(c)')
           e == Head(queue)
<1>3. /\ \A d \in Clients : d # c => client'[d] = client[d]
      /\ l = IF later THEN k + 1 ELSE k
  <2>1. client'[c] = Assimilated(c, later)
    BY <1>1, <1>2
  <2>2. Assimilated(c, later).later = IF later THEN k + 1 ELSE k
    BY <1>1 DEF Assimilated, ClientRecords
  <2> QED
    BY <1>1, <1>2, <2>1, <2>2
<1>4. /\ \/ steps' = <<>>
         \/ steps' # <<>> /\ Head(steps') = Step("recved", c, 1) /\ Tail(steps') = <<>>
      /\ later => steps' = <<>>
  BY <1>2, Rests DEF AcksNow
<1>5. Holds(steps') = {}
  BY <1>4 DEF Holds, Step
<1>6. /\ steps = <<>> /\ UNCHANGED conn /\ \A d : Thins(d) /\ ~Past(steps, d)
      /\ e \in Events /\ e \in Waiting /\ e.type = "RECV" /\ e.client = c
      /\ OnceOf(e) => e \notin Waiting'
  BY <1>2, <1>5, TakingThins
<1>7. Bounded(c)
  BY DEF AllBounded
<1>8. e \in Coming(c) /\ e \notin Coming(c)' /\ Coming(c)' \subseteq Coming(c)
  BY <1>6, <1>7 DEF Bounded, DataOnce, Coming, Thins
<1>9. m \in Nat /\ n \in Nat /\ n <= m - 1
  <2>1. IsFiniteSet(Coming(c)) /\ m \in Nat
    BY ComingFinite
  <2>2. IsFiniteSet(Coming(c) \ {e}) /\ Cardinality(Coming(c) \ {e}) = m - 1
    BY <1>8, <2>1, FS_RemoveElement
  <2>3. Coming(c)' \subseteq Coming(c) \ {e}
    BY <1>8
  <2>4. IsFiniteSet(Coming(c)') /\ n <= Cardinality(Coming(c) \ {e})
    BY <2>2, <2>3, FS_Subset
  <2> QED
    BY <2>1, <2>2, <2>4, FS_CardinalityType
<1>10. l \in Int /\ u \in 0..1 /\ l >= 0 /\ l + u <= k + 1
  <2>1. k >= 0
    BY <1>7 DEF Bounded
  <2>2. later => u = 0
    <3>1. ~Calls(<<>>, c)
      BY DEF Calls
    <3> QED
      BY <1>4, <3>1 DEF Taken
  <2>3. u \in 0..1
    OBVIOUS
  <2> HIDE DEF u, k, l
  <2> QED
    BY <1>1, <1>3, <2>1, <2>2, <2>3 DEF k
<1>11. Owed(c)' \in Int /\ Owed(c)' <= Owed(c)
  <2>1. ~Taken(steps, c)
    BY <1>6 DEF Taken, Calls
  <2>2. Owed(c) = m + k + 0 /\ Owed(c)' = n + l + u
    BY <2>1 DEF Owed
  <2> HIDE DEF u, k, l, m, n
  <2>3. k \in Int
    BY <1>1 DEF k
  <2>4. n + l + u \in Int /\ n + l + u <= m + k + 0
    BY <1>9, <1>10, <2>3
  <2> QED
    BY <2>2, <2>4
<1>12. Fits(c)' /\ ~Leaves(steps', c)
  <2>1. CloseSteps(c) # <<>> /\ Head(CloseSteps(c)).do = "detach"
    BY DEF CloseSteps, Step
  <2>2. Calls(steps', c) => Taken(steps', c) /\ Head(steps').n = 1
    BY <1>4 DEF Calls, Taken, Step
  <2>3. ~Leaves(steps', c)
    BY <1>4, <2>1 DEF Leaves, Calls, Step
  <2> QED
    BY <2>2, <2>3 DEF Fits
<1>13. Bounded(c)'
  BY <1>6, <1>7, <1>10, <1>11, <1>12, OwedBounded DEF Is
<1>14. steps' = <<>> \/ Head(steps').client = c
  BY <1>4 DEF Step
<1> QED
  BY <1>3, <1>6, <1>13, <1>14, TaskBounds

LEMMA EventsThin ==
  ASSUME UNCHANGED <<queue, lwip>>, Holds(steps) = {}, Holds(steps') = {}
  PROVE  \A d : Thins(d) /\ Coming(d)' = Coming(d)
BY DEF Thins, OnceOf, Waiting, Coming

\* What is acknowledged was owed, and is less than the window.
LEMMA RecvedBounds ==
  ASSUME CallInv, CallInv', AllBounded, Recved
  PROVE  AllBounded'
<1>0. PICK c, j : c = Head(steps).client /\ j = Head(steps).n
  OBVIOUS
<1>1. PICK do \in {"recved", "ack"} :
        /\ Doing(do) /\ ApiCall /\ StaleCall(c)
        /\ conn' = IF Freed(c) THEN conn ELSE [conn EXCEPT ![c].window = @ - j]
        /\ client' = IF do = "ack" THEN [client EXCEPT ![c].later = @ - j] ELSE client
        /\ steps' = Tail(steps)
  BY <1>0 DEF Recved
<1>2. steps # <<>> /\ Head(steps).do = do /\ UNCHANGED <<queue, lwip>>
  BY <1>1 DEF Doing, ApiCall
<1>3. /\ c \in Clients /\ j \in Int
      /\ \/ steps = <<Step(do, c, j)>> /\ steps' = <<>>
         \/ steps = Polled(c, j) /\ steps' = CloseSteps(c) /\ do = "recved"
  BY <1>0, <1>1, <1>2, CallSteps DEF CallInv
<1>4. Calls(steps, c) /\ Holds(steps) = {}
  BY <1>0, <1>2 DEF Calls, Holds
<1>5. CloseSteps(c) # <<>> /\ Head(CloseSteps(c)).do = "detach" /\ Head(CloseSteps(c)).client = c
  BY DEF CloseSteps, Step
<1>6. /\ Holds(steps') = {} /\ ~Calls(steps', c) /\ ~Taken(steps', c) /\ ~Past(steps, c)
      /\ steps' = <<>> \/ Head(steps').client = c
  <2>1. Holds(steps') = {} /\ ~Calls(steps', c)
    BY <1>3, <1>5 DEF Holds, Calls
  <2>2. ~Past(steps, c)
    BY <1>2, <1>5, ClosingApart DEF Past
  <2> QED
    BY <1>3, <1>5, <2>1, <2>2 DEF Taken
<1>7. \A d : Thins(d) /\ Coming(d)' = Coming(d)
  BY <1>2, <1>4, <1>6, EventsThin
<1>8. Bounded(c)
  BY <1>3 DEF AllBounded
<1> DEFINE k == client[c].later
           l == client'[c].later
           t == IF Taken(steps, c) THEN 1 ELSE 0
           m == Cardinality(Coming(c))
           w == conn[c].window
           v == conn'[c].window
<1>9. /\ client \in [Clients -> ClientRecords] /\ conn \in [Clients -> ConnRecords]
      /\ client[c] \in ClientRecords /\ conn[c] \in ConnRecords
      /\ k \in Int /\ w \in Int /\ m \in Nat /\ conn[c].sent \in Nat /\ Owed(c) \in Int
  BY <1>3, OwedTyped DEF CallInv, Typed
<1>10. /\ \A d \in Clients : d # c => client'[d] = client[d]
       /\ client'[c].pcb = client[c].pcb /\ l = IF do = "ack" THEN k - j ELSE k
  BY <1>1, <1>3, <1>9 DEF ClientRecords
<1>11. /\ \A d \in Clients : d # c => conn'[d] = conn[d]
       /\ conn'[c].is = conn[c].is /\ conn'[c].sent = conn[c].sent
       /\ v = IF Freed(c) THEN w ELSE w - j
  BY <1>1, <1>3, <1>9 DEF ConnRecords
<1>12. /\ Taken(steps, c) <=> do = "recved" /\ steps' = <<>>
       /\ IF Taken(steps, c) THEN j = 1 ELSE j \in 0..k
  <2>1. Taken(steps, c) <=> do = "recved" /\ steps' = <<>>
    BY <1>1, <1>2, <1>4 DEF Taken
  <2> QED
    BY <1>0, <1>4, <1>8, <2>1 DEF Bounded, Fits
<1>13. /\ Owed(c) = m + k + t /\ Owed(c)' = m + l + 0
       /\ t \in 0..1 /\ (Taken(steps, c) <=> t = 1)
  BY <1>6, <1>7 DEF Owed
<1>14. k >= 0 /\ Owed(c) <= conn[c].sent /\ w \in 0..conn[c].sent
  BY <1>8 DEF Bounded
<1>15. Is(c, {"open", "half"}) => Owed(c) <= w
  BY <1>6, <1>8 DEF Bounded
<1>16. steps' = <<>> \/ Past(steps', c)
  BY <1>3 DEF Past
<1> HIDE DEF k, l, t, m, w, v
<1>17. /\ Owed(c)' \in Int /\ Owed(c)' <= Owed(c) /\ l >= 0
       /\ steps' = <<>> => Owed(c)' = Owed(c) - j
       /\ j >= 0 /\ j <= Owed(c)
  <2>1. CASE Taken(steps, c)
    <3>1. l = k /\ t = 1 /\ j = 1
      BY <1>10, <1>12, <1>13, <2>1
    <3> QED
      BY <1>9, <1>13, <1>14, <3>1
  <2>2. CASE ~Taken(steps, c) /\ do = "ack"
    <3>1. l = k - j /\ t = 0 /\ j \in 0..k
      BY <1>10, <1>12, <1>13, <2>2
    <3> QED
      BY <1>9, <1>13, <1>14, <3>1
  <2>3. CASE ~Taken(steps, c) /\ do = "recved"
    <3>1. l = k /\ t = 0 /\ j \in 0..k /\ steps' # <<>>
      BY <1>10, <1>12, <1>13, <2>3
    <3> QED
      BY <1>9, <1>13, <1>14, <3>1
  <2> QED
    BY <2>1, <2>2, <2>3
<1>18. Fits(c)' /\ (Leaves(steps', c) => Left(c)')
  <2>1. Left(c) => Left(c)'
    BY <1>10, <1>11 DEF Left, Is
  <2>2. Leaves(steps', c) => Leaves(steps, c)
    BY <1>1, <1>4, <1>5, <1>6 DEF Leaves
  <2> QED
    BY <1>6, <1>8, <2>1, <2>2 DEF Fits, Bounded
<1>19. Bounded(c)'
  <2>1. CASE Freed(c)
    <3>1. v = w /\ ~Is(c, {"open", "half"}) /\ ~Is(c, {"open", "half"})'
      BY <1>11, <2>1 DEF Freed, Is
    <3>2. Is(c, {"none", "opening"})' => Is(c, {"none", "opening"})
      BY <1>11 DEF Is
    <3> QED
      BY <1>3, <1>7, <1>8, <1>11, <1>17, <1>18, <3>1, <3>2, OwedBounded DEF v, w, l
  <2>2. CASE ~Freed(c)
    <3>1. Is(c, {"open", "half"}) /\ ~Is(c, {"none", "opening"})' /\ v = w - j
      BY <1>11, <2>2 DEF Freed, Is
    <3>2. Owed(c) <= w
      BY <1>15, <3>1
    <3>3. v \in 0..conn[c].sent
      BY <1>3, <1>9, <1>14, <1>17, <3>1, <3>2
    <3>4. steps' = <<>> => Owed(c)' <= v
      BY <1>3, <1>9, <1>17, <3>1, <3>2
    <3>5. Owed(c)' <= conn[c].sent
      BY <1>9, <1>14, <1>17
    <3>6. DataOnce(c)'
      BY <1>3, <1>7, <1>8, <1>11, OnceStill DEF Bounded
    <3>7. conn[c].sent <= MaxData
      BY <1>8 DEF Bounded
    <3>8. /\ conn'[c].sent <= MaxData /\ conn'[c].window \in 0..conn'[c].sent
          /\ client'[c].later >= 0 /\ Owed(c)' <= conn'[c].sent
      BY <1>11, <1>17, <3>3, <3>5, <3>7 DEF v, l
    <3>9. ~Past(steps', c) => Owed(c)' <= conn'[c].window
      BY <1>16, <3>4 DEF v
    <3> QED
      BY <1>18, <3>1, <3>6, <3>8, <3>9 DEF Bounded
  <2> QED
    BY <2>1, <2>2
<1> QED
  BY <1>0, <1>3, <1>6, <1>7, <1>10, <1>11, <1>19, TaskBounds

LEMMA DetachBounds ==
  ASSUME CallInv, CallInv', AllBounded, Detach
  PROVE  AllBounded'
<1>0. PICK c : c = Head(steps).client
  OBVIOUS
<1>1. /\ steps # <<>> /\ Head(steps).do = "detach" /\ UNCHANGED <<queue, lwip, conn>>
      /\ \/ client' = [client EXCEPT ![c].attached = FALSE] /\ steps' = Tail(steps)
         \/ ~client[c].pcb /\ steps' = <<>> /\ UNCHANGED client
  BY <1>0 DEF Detach, Doing
<1>2. c \in Clients /\ Tail(steps) = Closing3(c) /\ steps = CloseSteps(c)
  BY <1>0, <1>1, NextSteps, DetachSteps DEF CallInv
<1>3. /\ Closing3(c) # <<>> /\ Head(Closing3(c)).client = c /\ Head(Closing3(c)).do = "clear"
  BY DEF Closing3, Step
<1>4. Holds(steps) = {} /\ Holds(steps') = {}
  BY <1>1, <1>2, <1>3 DEF Holds
<1>5. \A d : Thins(d)
  BY <1>1, <1>4, EventsThin
<1>6. /\ \A d \in Clients : d # c => client'[d] = client[d]
      /\ client'[c].later = client[c].later
  <2>1. client \in [Clients -> ClientRecords]
    BY DEF CallInv, Typed
  <2> QED
    BY <1>1, <1>2, <2>1 DEF ClientRecords
<1>7. Past(steps', c) \/ conn'[c].is \notin {"open", "half"}
  <2>1. CASE steps' = Tail(steps)
    BY <1>2, <2>1 DEF Past, Closes
  <2>2. CASE ~client[c].pcb
    BY <1>1, <1>2, <2>2 DEF AllBounded, Bounded, Leaves, Left, Is
  <2> QED
    BY <1>1, <2>1, <2>2
<1> QED
  BY <1>0, <1>1, <1>2, <1>3, <1>5, <1>6, <1>7, QuietBounds

LEMMA ClearBounds ==
  ASSUME CallInv, CallInv', AllBounded, Clear
  PROVE  AllBounded'
<1>0. PICK c, e : c = Head(steps).client /\ e = Event("CLEAR", c, 0)
  OBVIOUS
<1>1. /\ steps # <<>> /\ Head(steps).do = "clear" /\ steps' = Tail(steps)
      /\ queue' = <<e>> \o queue /\ UNCHANGED <<lwip, client, conn>>
  BY <1>0 DEF Clear, Doing
<1>2. /\ c \in Clients
      /\ \/ steps = Closing3(c) /\ steps' = Closing2(c)
         \/ steps = Ending(c) /\ steps' = <<Step("discard", c, 0)>>
  BY <1>0, <1>1, NextSteps DEF CallInv
<1>3. /\ steps' # <<>> /\ Head(steps').client = c /\ Head(steps').do \in {"close", "discard"}
  BY <1>2 DEF Closing2, Step
<1>4. Holds(steps) = {} /\ Holds(steps') = {}
  BY <1>1, <1>3 DEF Holds
<1>5. e \in Events /\ e.type = "CLEAR"
  <2>1. "CLEAR" \in EventTypes
    BY DEF EventTypes
  <2> QED
    BY <1>0, <1>2, <2>1, EventTyped DEF Event
<1>6. queue \in Seq(Events)
  BY DEF CallInv, Typed
<1>7. /\ \A x : x \in Range(queue') <=> x \in Range(queue) \/ x = e
      /\ \A x : Unique(queue, x) /\ (e = x => x \notin Range(queue)) => Unique(queue', x)
  BY <1>1, <1>5, <1>6, PutInFront
<1>8. \A x : x # e => (OnceOf(x) => OnceOf(x)') /\ (x \in Waiting' => x \in Waiting)
  BY <1>1, <1>4, <1>7 DEF OnceOf, Waiting
<1>9. \A d : Thins(d)
  <2>1. \A x : x.type = "RECV" => x # e
    BY <1>5
  <2> QED
    BY <1>8, <2>1 DEF Thins
<1>10. Past(steps, c) => Past(steps', c)
  <2>1. CASE steps = Closing3(c) /\ steps' = Closing2(c)
    BY <2>1 DEF Past, Closes
  <2>2. CASE steps = Ending(c)
    <3>1. steps # CloseSteps(c)
      <4>1. Head(CloseSteps(c)).do = "detach"
        BY DEF CloseSteps, Step
      <4> QED
        BY <1>1, <4>1
    <3> QED
      BY <2>2, <3>1, ClosingApart DEF Past
  <2> QED
    BY <1>2, <2>1, <2>2
<1> QED
  BY <1>0, <1>1, <1>2, <1>3, <1>9, <1>10, QuietBounds

LEMMA CloseBounds ==
  ASSUME CallInv, CallInv', AllBounded, Close \/ Discard
  PROVE  AllBounded'
<1>0. PICK c : c = Head(steps).client
  OBVIOUS
<1>1. /\ steps # <<>> /\ Head(steps).do \in {"close", "discard"} /\ UNCHANGED <<queue, lwip>>
      /\ steps' = Tail(steps)
  BY <1>0 DEF Close, Discard, Doing, ApiCall
<1>2. /\ c \in Clients
      /\ \/ Head(steps).do = "close" /\ steps' = <<Step("discard", c, 0)>>
         \/ Head(steps).do = "discard" /\ steps' = <<>>
  BY <1>0, <1>1, NextSteps DEF CallInv
<1>3. steps' = <<>> \/ (/\ steps' # <<>> /\ Head(steps').client = c
                        /\ Head(steps').do = "discard")
  BY <1>2 DEF Step
<1>4. Holds(steps) = {} /\ Holds(steps') = {}
  BY <1>1, <1>3 DEF Holds
<1>5. \A d : Thins(d)
  BY <1>1, <1>4, EventsThin
<1>6. client \in [Clients -> ClientRecords] /\ conn \in [Clients -> ConnRecords]
  BY DEF CallInv, Typed
<1>7. CASE Close
  <2>1. /\ conn' = IF Freed(c) THEN conn ELSE [conn EXCEPT ![c].is = "closed"]
        /\ client' = [client EXCEPT ![c].pcb = FALSE]
    BY <1>0, <1>7 DEF Close
  <2>2. /\ \A d \in Clients : d # c => client'[d] = client[d]
        /\ client'[c].later = client[c].later
    BY <1>2, <1>6, <2>1 DEF ClientRecords
  <2>3. /\ \A d \in Clients : d # c => conn'[d] = conn[d]
        /\ conn'[c].sent = conn[c].sent /\ conn'[c].window = conn[c].window
        /\ conn'[c].is = conn[c].is \/ conn'[c].is = "closed"
        /\ conn'[c].is \notin {"open", "half"}
    BY <1>2, <1>6, <2>1 DEF ConnRecords, Freed
  <2> QED
    BY <1>0, <1>1, <1>2, <1>3, <1>5, <2>2, <2>3, QuietBounds
<1>8. CASE Discard
  <2>1. /\ Head(steps).do = "discard" /\ UNCHANGED conn
        /\ client' = [client EXCEPT ![c].told = client[c].known,
                                    ![c].exists = c \in Outgoing \/ ~client[c].known]
    BY <1>0, <1>8 DEF Discard, Doing
  <2>2. /\ \A d \in Clients : d # c => client'[d] = client[d]
        /\ client'[c].later = client[c].later
    BY <1>2, <1>6, <2>1 DEF ClientRecords
  <2>3. ~Past(steps, c)
    <3>1. Head(CloseSteps(c)).do = "detach"
      BY DEF CloseSteps, Step
    <3> QED
      BY <1>1, <2>1, <3>1, ClosingApart DEF Past
  <2> QED
    BY <1>0, <1>1, <1>2, <1>3, <1>5, <2>1, <2>2, <2>3, QuietBounds
<1> QED
  BY <1>7, <1>8

LEMMA RemovalBounds ==
  ASSUME CallInv, CallInv', AllBounded, RemoveEvent \/ ReturnEvent
  PROVE  AllBounded'
<1>0. PICK s, c, e, f, g : /\ s = Head(steps) /\ c = s.client /\ e = Head(queue)
                           /\ f = IF s.first = Idle THEN e ELSE s.first
                           /\ g = s.packet
  OBVIOUS
<1>1. /\ steps # <<>> /\ s.do \in {"remove", "return"} /\ UNCHANGED <<lwip, client, conn>>
  BY <1>0 DEF RemoveEvent, ReturnEvent, Doing
<1>2. c \in Clients /\ queue \in Seq(Events) /\ (s.do = "return" => g \in Events)
  BY <1>0, <1>1, NextSteps DEF CallInv, Typed
<1>3. /\ steps' = <<>> \/ (/\ steps' # <<>> /\ Head(steps').client = c
                           /\ Head(steps').do \in {"remove", "return"})
      /\ \A d : Thins(d)
  <2>1. CASE RemoveEvent /\ steps' = <<>> /\ UNCHANGED queue
    <3>1. Holds(steps) = {} /\ Holds(steps') = {}
      BY <1>0, <2>1 DEF RemoveEvent, Doing, Holds
    <3> QED
      BY <1>1, <2>1, <3>1, EventsThin
  <2>2. CASE /\ s.do = "remove" /\ queue # <<>> /\ queue' = Tail(queue)
             /\ steps' = steps \/ steps' = <<Removal("return", c, e, f)>>
    <3>1. /\ \A x : x \in Range(queue) <=> x \in Range(queue') \/ x = e
          /\ \A x : Unique(queue, x) => Unique(queue', x) /\ (e = x => x \notin Range(queue'))
      BY <1>0, <1>2, <2>2, TakeAway
    <3>2. Holds(steps) = {}
      BY <1>0, <2>2 DEF Holds
    <3>3. /\ Holds(steps') \subseteq {e}
          /\ steps' # <<>> /\ Head(steps').client = c /\ Head(steps').do \in {"remove", "return"}
      <4>1. CASE steps' = steps
        BY <1>0, <1>1, <3>2, <4>1
      <4>2. CASE steps' = <<Removal("return", c, e, f)>>
        <5>1. Holds(steps') = {e}
          BY <4>2, Looks
        <5>2. steps' # <<>> /\ Head(steps').client = c /\ Head(steps').do = "return"
          BY <4>2 DEF Removal
        <5> QED
          BY <5>1, <5>2
      <4> QED
        BY <2>2, <4>1, <4>2
    <3>4. \A x : (OnceOf(x) => OnceOf(x)') /\ (x \in Waiting' => x \in Waiting)
      BY <1>1, <3>1, <3>2, <3>3 DEF OnceOf, Waiting
    <3> QED
      BY <3>3, <3>4 DEF Thins
  <2>3. CASE ReturnEvent
    <3>1. /\ s.do = "return" /\ queue' = Append(queue, g)
          /\ steps' = <<Removal("remove", c, Idle, s.first)>>
      BY <1>0, <2>3 DEF ReturnEvent, Doing
    <3>2. /\ \A x : x \in Range(queue') <=> x \in Range(queue) \/ x = g
          /\ \A x : Unique(queue, x) /\ (g = x => x \notin Range(queue)) => Unique(queue', x)
      BY <1>2, <3>1, PutBehind
    <3>3. steps' # <<>> /\ Head(steps').client = c /\ Head(steps').do = "remove"
      BY <3>1 DEF Removal
    <3>4. Holds(steps) = {g} /\ Holds(steps') = {}
      BY <1>0, <1>1, <3>1, <3>3 DEF Holds
    <3>5. \A x : (OnceOf(x) => OnceOf(x)') /\ (x \in Waiting' => x \in Waiting)
      BY <1>1, <3>2, <3>4 DEF OnceOf, Waiting
    <3> QED
      BY <3>3, <3>5 DEF Thins
  <2>4. CASE RemoveEvent
    <3>1. \/ steps' = <<>> /\ UNCHANGED queue
          \/ /\ s.do = "remove" /\ queue # <<>> /\ queue' = Tail(queue)
             /\ steps' = steps \/ steps' = <<Removal("return", c, e, f)>>
      BY <1>0, <2>4 DEF RemoveEvent, Doing, TurnedRound
    <3> QED
      BY <2>1, <2>2, <2>4, <3>1
  <2> QED
    BY <2>3, <2>4
<1>4. ~Past(steps, c)
  <2>1. Head(CloseSteps(c)).do = "detach"
    BY DEF CloseSteps, Step
  <2> QED
    BY <1>0, <1>1, <2>1, ClosingApart DEF Past
<1> QED
  BY <1>0, <1>1, <1>2, <1>3, <1>4, QuietBounds

-----------------------------------------------------------------------------
(* The theorem about the types.                                              *)

LEMMA InitBounds == Init => AllBounded
<1> SUFFICES ASSUME Init, NEW c \in Clients PROVE Bounded(c)
  BY DEF AllBounded
<1>1. /\ queue = <<>> /\ lwip = Idle /\ steps = <<>>
      /\ client[c].later = 0 /\ conn[c].is = "none" /\ conn[c].sent = 0 /\ conn[c].window = 0
  BY DEF Init, NoClient, NoConnection
<1>2. /\ ~Calls(steps, c) /\ ~Taken(steps, c) /\ ~Leaves(steps, c)
  BY <1>1, NoSuchCall
<1>3. Holds(steps) = {} /\ \A x : x \notin Range(queue) /\ Unique(queue, x)
  BY <1>1 DEF Holds, Range, Unique
<1>4. Coming(c) = {}
  BY <1>1, <1>3 DEF Coming, Waiting, Idle
<1>5. DataOnce(c)
  BY <1>1, <1>3, <1>4 DEF DataOnce, OnceOf
<1>6. Owed(c) = 0
  <2>1. Cardinality(Coming(c)) = 0
    BY <1>4, FS_EmptySet
  <2> QED
    BY <1>1, <1>2, <2>1 DEF Owed
<1>7. /\ Is(c, {"none", "opening"}) => conn[c].sent = 0
      /\ conn[c].sent <= MaxData /\ conn[c].window \in 0..conn[c].sent
      /\ client[c].later >= 0 /\ Owed(c) <= conn[c].sent /\ Owed(c) <= conn[c].window
  <2>1. 0 <= MaxData /\ 0 \in 0..0
    OBVIOUS
  <2> QED
    BY <1>1, <1>6, <2>1
<1>8. Fits(c) /\ (Leaves(steps, c) => Left(c))
  BY <1>2 DEF Fits
<1> QED
  BY <1>5, <1>7, <1>8 DEF Bounded

LEMMA NextBounds ==
  ASSUME CallInv, AllBounded, [Next]_vars
  PROVE  AllBounded'
<1>0. CallInv'
  BY NextCallInv
<1>1. CASE Lwip
  BY <1>0, <1>1, ConnectBounds, AcceptBounds, StateBounds, DataBounds, DeliverBounds DEF Lwip
<1>2. ASSUME NEW c \in Clients, Handle(c) PROVE AllBounded'
  BY <1>0, <1>2, HandleBounds, PollBounds, RecvBounds DEF Handle
<1>3. CASE Recved \/ Detach \/ Clear \/ Close \/ Discard \/ RemoveEvent \/ ReturnEvent
  BY <1>0, <1>3, RecvedBounds, DetachBounds, ClearBounds, CloseBounds, RemovalBounds
<1>4. CASE UNCHANGED vars
  <2>1. UNCHANGED <<queue, lwip, steps, client, conn>>
    BY <1>4 DEF vars, taskVars
  <2>2. \A d : Thins(d)
    BY <2>1 DEF Thins, OnceOf, Waiting
  <2>3. ASSUME NEW d \in Clients PROVE Bounded(d)'
    BY <1>0, <2>1, <2>2, OtherBounded DEF AllBounded
  <2> QED
    BY <2>3 DEF AllBounded
<1> QED
  BY <1>1, <1>2, <1>3, <1>4 DEF Next, Async

\* The queue is never longer than it may be, and polls are counted.
Counted ==
  Len(queue) <= QueueSize /\ strays \cup early \subseteq Clients /\ polls \in 0..MaxPolls

LEMMA NextRaced ==
  ASSUME raced \in BOOLEAN, [Next]_vars
  PROVE  raced' \in BOOLEAN
<1>1. raced' = raced \/ raced' = (raced \/ Removing)
  <2>1. CASE Lwip
    BY <2>1 DEF Lwip, Deliver, Connect, Lookup, DnsFound, Accept, Established, Data, PollTimer, Fin,
                Reset, Callback
  <2>2. ASSUME NEW c \in Clients, Handle(c) PROVE raced' = raced
    BY <2>2 DEF Handle, Stray, HandleAccept, HandleConnected, HandleDns, HandleRecv, HandlePoll,
                HandleFin, HandleError, HandleClear, Taking
  <2>3. CASE Recved \/ Detach \/ Clear \/ Close \/ Discard \/ RemoveEvent \/ ReturnEvent
    BY <2>3 DEF Recved, Detach, Clear, Close, Discard, RemoveEvent, ReturnEvent, ApiCall
  <2>4. CASE UNCHANGED vars
    BY <2>4 DEF vars, history
  <2> QED
    BY <2>1, <2>2, <2>3, <2>4 DEF Next, Async
<1>2. (raced \/ Removing) \in BOOLEAN
  OBVIOUS
<1> QED
  BY <1>1, <1>2

LEMMA InitCounted == Init => Counted
BY EmptySeq DEF Init, Counted

LEMMA PutLength ==
  ASSUME NEW q \in Seq(Events), NEW e \in Events
  PROVE  Len(<<e>> \o q) = Len(q) + 1 /\ Len(Append(q, e)) = Len(q) + 1
<1>1. <<e>> \in Seq(Events) /\ Len(<<e>>) = 1 /\ Len(q) \in Nat
  BY LenProperties
<1>2. Len(<<e>> \o q) = Len(<<e>>) + Len(q)
  BY <1>1, ConcatProperties
<1>3. Len(Append(q, e)) = Len(q) + 1
  BY AppendProperties
<1> QED
  BY <1>1, <1>2, <1>3

LEMMA TailLength ==
  ASSUME NEW q \in Seq(Events)
  PROVE  Len(q) \in Nat /\ (q # <<>> => Len(Tail(q)) \in Int /\ Len(Tail(q)) <= Len(q))
BY HeadTailProperties, LenProperties

LEMMA NextCounted ==
  ASSUME CallInv, Counted, [Next]_vars
  PROVE  Counted'
<1>1. queue \in Seq(Events) /\ Len(queue) \in Nat
  BY LenProperties DEF CallInv, Typed
<1>2. CASE Deliver
  <2>1. /\ lwip # Idle /\ Len(queue) < QueueSize
        /\ queue' = <<lwip>> \o queue \/ queue' = Append(queue, lwip)
        /\ UNCHANGED <<strays, early, polls>>
    BY <1>2 DEF Deliver, HasRoom
  <2>2. lwip \in Events
    BY <2>1 DEF CallInv, Typed
  <2>3. Len(queue') = Len(queue) + 1
    BY <1>1, <2>1, <2>2, PutLength
  <2> QED
    BY <1>1, <2>1, <2>3 DEF Counted
<1>3. ASSUME NEW c \in Clients,
             \/ Connect(c) \/ Lookup(c) \/ DnsFound(c) \/ Accept(c) \/ Established(c) \/ Data(c)
             \/ Reset(c)
      PROVE  Counted'
  BY <1>3 DEF Connect, Lookup, DnsFound, Accept, Established, Data, Reset, Callback, Counted
<1>4. ASSUME NEW c \in Clients, PollTimer(c) PROVE Counted'
  BY <1>4 DEF PollTimer, Callback, Counted
<1>5. ASSUME NEW c \in Clients, Fin(c) PROVE Counted'
  BY <1>5 DEF Fin, Callback, Counted
<1>6. ASSUME NEW c \in Clients, Handle(c) PROVE Counted'
  <2>1. PICK t : Taking(t, c)
    BY <1>6 DEF Handle, Stray, HandleAccept, HandleConnected, HandleDns, HandleRecv, HandlePoll,
                HandleFin, HandleError, HandleClear
  <2>2. /\ queue # <<>> /\ queue' = Tail(queue) /\ UNCHANGED <<early, polls>>
        /\ strays' = strays \/ strays' = strays \cup {c}
    BY <2>1 DEF Taking
  <2>3. Len(queue') <= Len(queue)
    BY <1>1, <2>2, TailLength
  <2>4. Len(queue') \in Int
    BY <1>1, <2>2, TailLength
  <2> QED
    BY <1>1, <2>2, <2>3, <2>4 DEF Counted
<1>7. CASE Recved \/ Detach \/ Close \/ Discard
  BY <1>7 DEF Recved, Detach, Close, Discard, Doing, ApiCall, Counted
<1>8. CASE Clear
  <2>1. PICK e : e = Event("CLEAR", Head(steps).client, 0)
    OBVIOUS
  <2>2. /\ steps # <<>> /\ Head(steps).do = "clear" /\ Len(queue) < QueueSize
        /\ queue' = <<e>> \o queue /\ UNCHANGED <<strays, early, polls>>
    BY <1>8, <2>1 DEF Clear, Doing, HasRoom
  <2>3. Head(steps).client \in Clients /\ "CLEAR" \in EventTypes
    BY <2>2, NextSteps DEF CallInv, EventTypes
  <2>4. e \in Events
    BY <2>1, <2>3, EventTyped
  <2>5. Len(queue') = Len(queue) + 1
    BY <1>1, <2>2, <2>4, PutLength
  <2> QED
    BY <1>1, <2>2, <2>5 DEF Counted
<1>9. CASE RemoveEvent
  <2>1. /\ UNCHANGED queue \/ (queue # <<>> /\ queue' = Tail(queue))
        /\ UNCHANGED <<strays, early, polls>>
    BY <1>9 DEF RemoveEvent, Doing, TurnedRound
  <2>2. Len(queue') \in Int /\ Len(queue') <= Len(queue)
    BY <1>1, <2>1, TailLength
  <2> QED
    BY <1>1, <2>1, <2>2 DEF Counted
<1>10. CASE ReturnEvent
  <2>1. PICK e : e = Head(steps).packet
    OBVIOUS
  <2>2. /\ steps # <<>> /\ Head(steps).do = "return" /\ Len(queue) < QueueSize
        /\ queue' = Append(queue, e) /\ UNCHANGED <<strays, early, polls>>
    BY <1>10, <2>1 DEF ReturnEvent, Doing, HasRoom
  <2>3. e \in Events
    BY <2>1, <2>2, NextSteps DEF CallInv
  <2>4. Len(queue') = Len(queue) + 1
    BY <1>1, <2>2, <2>3, PutLength
  <2> QED
    BY <1>1, <2>2, <2>4 DEF Counted
<1>11. CASE UNCHANGED vars
  BY <1>11 DEF vars, taskVars, history, Counted
<1> QED
  BY <1>2, <1>3, <1>4, <1>5, <1>6, <1>7, <1>8, <1>9, <1>10, <1>11 DEF Next, Lwip, Async

LEMMA StepsLength ==
  ASSUME Shaped
  PROVE  Len(steps) <= 5
<1>1. PICK c : \/ steps = <<>>
               \/ \E n \in Int :
                    steps \in {<<Step("recved", c, n)>>, <<Step("ack", c, n)>>, Polled(c, n)}
               \/ steps \in {CloseSteps(c), Closing3(c), Closing2(c), Ending(c),
                             <<Step("discard", c, 0)>>}
               \/ \E f \in Events \cup {Idle} : steps = <<Removal("remove", c, Idle, f)>>
               \/ \E e, f \in Events : steps = <<Removal("return", c, e, f)>>
  BY DEF Shaped, Shape
<1>2. ASSUME NEW n PROVE Len(Polled(c, n)) = 5
  <2> DEFINE r == <<Step("recved", c, n)>>
             t == CloseSteps(c)
             S == {Step("recved", c, n), Step("detach", c, 0), Step("clear", c, 0),
                   Step("close", c, 0), Step("discard", c, 0)}
  <2>1. r \in Seq(S) /\ Len(r) = 1
    OBVIOUS
  <2>2. t \in Seq(S) /\ Len(t) = 4
    BY DEF CloseSteps
  <2>3. Polled(c, n) = r \o t
    BY DEF Polled
  <2> HIDE DEF r, t, S
  <2>4. Len(r \o t) = Len(r) + Len(t)
    BY <2>1, <2>2, ConcatProperties, Zenon
  <2> QED
    BY <2>1, <2>2, <2>3, <2>4
<1>3. /\ Len(CloseSteps(c)) = 4 /\ Len(Closing3(c)) = 3 /\ Len(Closing2(c)) = 2
      /\ Len(Ending(c)) = 2
  BY DEF CloseSteps, Closing3, Closing2, Ending
<1>4. \A x : Len(<<x>>) = 1
  OBVIOUS
<1>5. Len(<<>>) = 0
  BY EmptySeq
<1>6. Len(steps) \in {0, 1, 2, 3, 4, 5}
  BY <1>1, <1>2, <1>3, <1>4, <1>5
<1>7. \A k \in {0, 1, 2, 3, 4, 5} : k <= 5
  OBVIOUS
<1> QED
  BY <1>6, <1>7

\* Every variable has its type, whatever the number of clients, events and pieces
\* of data: the queue is never longer than it may be (lines 103-138), lwIP's
\* thread is never told that more was read than it passed on, and _rx_ack_len
\* never counts more than that (lines 690-713 and 782-862), also when an event was
\* put while events were being removed.
THEOREM AsyncTypeCorrect == Spec => []TypeOK
<1> DEFINE TInv == CallInv /\ AllBounded /\ Counted /\ raced \in BOOLEAN
<1>1. TInv /\ [Next]_vars => TInv'
  BY NextCallInv, NextBounds, NextCounted, NextRaced
<1>2. TInv => TypeOK
  <2> SUFFICES ASSUME CallInv, AllBounded, Counted, raced \in BOOLEAN PROVE TypeOK
    OBVIOUS
  <2>1. Len(queue) <= QueueSize /\ strays \cup early \subseteq Clients /\ polls \in 0..MaxPolls
        /\ Len(steps) <= 5
    BY StepsLength DEF Counted, CallInv
  <2>2. ASSUME NEW e \in Range(queue) \cup {lwip}, e # Idle
        PROVE  e.type \in EventTypes /\ e.client \in Clients
    <3>1. queue \in Seq(Events) /\ lwip \in Events \cup {Idle}
      BY DEF CallInv, Typed
    <3>2. \A x \in Range(queue) : x \in Events
      BY <3>1, InQueue
    <3> QED
      BY <2>2, <3>1, <3>2 DEF Events
  <2>3. ASSUME NEW c \in Clients
        PROVE  /\ conn[c].is \in ConnStates
               /\ conn[c].sent \in 0..MaxData /\ conn[c].window \in 0..MaxData
               /\ client[c].later \in 0..MaxData
    <3>1. conn[c] \in ConnRecords
      BY DEF CallInv, Typed
    <3>2. /\ conn[c].sent <= MaxData /\ conn[c].window \in 0..conn[c].sent
          /\ client[c].later >= 0 /\ Owed(c) <= conn[c].sent
      BY DEF AllBounded, Bounded
    <3>3. /\ conn[c].sent \in Nat /\ conn[c].window \in Int /\ client[c].later \in Int
          /\ Owed(c) \in Int /\ Owed(c) >= client[c].later
      BY <3>2, OwedTyped
    <3>4. conn[c].is \in ConnStates
      BY <3>1 DEF ConnRecords
    <3>5. client[c].later \in 0..MaxData
      BY <3>2, <3>3
    <3>6. conn[c].sent \in 0..MaxData /\ conn[c].window \in 0..MaxData
      BY <3>2, <3>3
    <3> QED
      BY <3>4, <3>5, <3>6
  <2> QED
    BY <2>1, <2>2, <2>3 DEF TypeOK, ConnStates
<1>3. Init => TInv
  <2>1. Init => raced \in BOOLEAN
    BY DEF Init
  <2> QED
    BY <2>1, InitCallInv, InitBounds, InitCounted
<1> QED
  BY <1>1, <1>2, <1>3, PTL DEF Spec
=============================================================================
