---------------------------- MODULE EspTcpBuffer ----------------------------
(***************************************************************************)
(* AsyncTCPbuffer on the ESP8266's AsyncClient: a user that writes and     *)
(* reads a connection through buffers.  There is one thread: lwIP's        *)
(* callbacks run when the program yields, which is between the user's      *)
(* calls, and inside flush().  A call is a sequence of steps here; the     *)
(* user's own callbacks may ask for the next read or stop the buffer.      *)
(*                                                                         *)
(* The bytes of each direction are numbered, so that their order shows.    *)
(***************************************************************************)
EXTENDS Integers, Sequences, SequencesExt, FiniteSetsExt

CONSTANTS
  Capacity,  \* bytes in a cbuf of the chain (1460)
  SendRoom,  \* bytes lwIP takes before they are acknowledged
  MaxBytes,  \* bound: bytes written and received together
  MaxRead,   \* bound: bytes asked for by one readBytes()
  MaxFails   \* bound: failures of tcp_output

\* lwIP has room for less than _tx_unacked_len counts: tcp_sndbuf() is a u16_t.
ASSUME BufferAssumption == Capacity \in Nat \ {0} /\ SendRoom \in Nat \ {0} /\ SendRoom < 65536
ASSUME BufferBoundAssumption == MaxBytes \in Nat /\ MaxRead \in Nat /\ MaxFails \in Nat

VARIABLES
  pcb,       \* lwIP: "none", "opening", "open" or "ended"
  wire,      \* lwIP: the bytes given to tcp_write, the last `queued' unacknowledged
  queued,
  client,    \* AsyncClient: _pcb_busy, _close_pcb and _tx_unacked_len
  buf,       \* AsyncTCPbuffer: exists, _client is set, _RXmode, _rxSize, _cbRX is set
  chain,     \* the cbufs from _TXbufferRead to _TXbufferWrite
  rx,        \* _RXbuffer
  call,      \* the call of the user's that goes on, and what it has left to write
  sending,   \* _sendBuffer goes on in it, or in a callback
  input,     \* what _rxData goes on with
  written,   \* history: bytes written to the chain
  received,  \* history: the kinds of the bytes that _rxData was given
  given,     \* history: the bytes that the user was given
  read,      \* history: the read that was asked for, and the bytes it was given
  answers,   \* history: the last read that was answered
  failed     \* history: how often tcp_output has failed

tx == <<wire, queued, client, chain, written, failed>>
rxVars == <<rx, received, given, read, answers>>
vars == <<pcb, buf, call, sending, input, tx, rxVars>>

Word == 65536  \* bound: stands for the 2^32 of _tx_unacked_len

NoCall == [do |-> "none", left |-> 0]
NoInput == [at |-> "none", left |-> <<>>]
\* A read asked for when the user had been given `at' bytes; onData was given
\* `passed' more before it, `between' the two calls that _handleRxBuffer makes of it.
NewRead(at, asked, between) ==
  [at |-> at, asked |-> asked, between |-> between, passed |-> 0, bytes |-> <<>>]
Reading == {"READ_BYTES", "TERMINATOR_STRING"}

Init ==
  /\ pcb = "none" /\ wire = <<>> /\ queued = 0
  /\ client = [busy |-> FALSE, closing |-> FALSE, unacked |-> 0]
  /\ buf = [exists |-> FALSE, client |-> FALSE, mode |-> "FREE", size |-> 0, onData |-> FALSE]
  /\ chain = << <<>> >> /\ rx = <<>>
  /\ call = NoCall /\ sending = FALSE /\ input = NoInput
  /\ written = 0 /\ received = <<>> /\ given = <<>>
  /\ read = NewRead(0, 0, FALSE) /\ answers = [mode |-> "NONE", read |-> read]
  /\ failed = 0

Numbers(from, n) == [i \in 1..n |-> from + i]
Space_all == IF pcb = "open" THEN SendRoom ELSE 0  \* fault: what is unacknowledged is left out
Space == IF pcb = "open" THEN SendRoom - queued ELSE 0
CanSend == ~client.busy /\ Space > 0

-----------------------------------------------------------------------------
(* Calls.                                                                   *)

Free == call = NoCall /\ ~sending /\ input = NoInput

\* flush() lets callbacks run while it cannot send.
Yielding ==
  \/ Free
  \/ call.do = "flush" /\ ~sending /\ input = NoInput
     /\ buf.client /\ Last(chain) # <<>> /\ ~CanSend

Connect ==
  /\ Free /\ pcb = "none" /\ pcb' = "opening"
  /\ UNCHANGED <<buf, call, sending, input, tx, rxVars>>

\* write(): nothing unless connected.
Write(n) ==
  /\ Free /\ buf.exists /\ buf.client /\ pcb = "open"
  /\ written + Len(received) + n <= MaxBytes
  /\ call' = [do |-> "fill", left |-> n]
  /\ UNCHANGED <<pcb, buf, sending, input, tx, rxVars>>

Room == Capacity - Len(Last(chain))

Fill ==
  /\ call.do = "fill" /\ ~sending
  /\ LET n == Min({call.left, Room}) IN
     /\ chain' = [chain EXCEPT ![Len(chain)] = @ \o Numbers(written, n)]
     /\ written' = written + n
     /\ call' = [do |-> "grow", left |-> call.left - n]
  /\ sending' = TRUE
  /\ UNCHANGED <<pcb, buf, input, wire, queued, client, failed, rxVars>>

\* Another cbuf if the last is full, or the end for want of memory.
Grow ==
  /\ call.do = "grow" /\ ~sending
  /\ \/ call.left = 0 /\ call' = NoCall /\ UNCHANGED chain
     \/ /\ call.left > 0 /\ Room > 0
        /\ call' = [call EXCEPT !.do = "fill"] /\ UNCHANGED chain
     \/ /\ call.left > 0 /\ Room = 0
        /\ \/ call' = NoCall /\ UNCHANGED chain
           \/ call' = [call EXCEPT !.do = "fill"] /\ chain' = Append(chain, <<>>)
  /\ UNCHANGED <<pcb, buf, sending, input, wire, queued, client, written, failed, rxVars>>

Flush ==
  /\ Free /\ buf.exists /\ buf.client
  /\ call' = [do |-> "flush", left |-> 0]
  /\ UNCHANGED <<pcb, buf, sending, input, tx, rxVars>>

\* One round of flush(); it uses _client, and the buffer itself, though they may
\* be gone: the program has crashed.
FlushRound ==
  /\ call.do = "flush" /\ ~sending /\ input = NoInput
  /\ \/ ~buf.exists /\ call' = [call EXCEPT !.do = "crashed"] /\ UNCHANGED sending
     \/ buf.exists /\ Last(chain) = <<>> /\ call' = NoCall /\ UNCHANGED sending
     \/ /\ buf.exists /\ Last(chain) # <<>> /\ ~buf.client
        /\ call' = [call EXCEPT !.do = "crashed"] /\ UNCHANGED sending
     \/ /\ buf.exists /\ Last(chain) # <<>> /\ buf.client /\ CanSend
        /\ sending' = TRUE /\ UNCHANGED call
  /\ UNCHANGED <<pcb, buf, input, tx, rxVars>>

-----------------------------------------------------------------------------
(* _sendBuffer with AsyncClient::write.                                     *)

\* What is left of the chain when n bytes of its first cbuf were sent.
Sent_unlinked(n) ==  \* fault: the others are dropped
  <<SubSeq(Head(chain), n + 1, Len(Head(chain)))>>
Sent(n) ==
  LET rest == SubSeq(Head(chain), n + 1, Len(Head(chain))) IN
  IF rest = <<>> /\ Len(chain) > 1 THEN Tail(chain) ELSE <<rest>> \o Tail(chain)

\* tcp_write takes the bytes; if tcp_output fails write() returns 0 and they stay
\* in the cbuf.  If tcp_write fails nothing changes, and the loop tries again
\* without yielding: a step that stutters.
SendSome ==
  /\ sending /\ buf.client /\ CanSend /\ Head(chain) # <<>>
  /\ LET n == Min({Len(Head(chain)), Space}) IN
     /\ wire' = wire \o SubSeq(Head(chain), 1, n)
     /\ queued' = queued + n
     /\ \/ /\ client' = [client EXCEPT !.busy = TRUE, !.unacked = (@ + n) % Word]
           /\ chain' = Sent(n)
           /\ UNCHANGED failed
        \/ failed < MaxFails /\ failed' = failed + 1 /\ UNCHANGED <<client, chain>>
  /\ UNCHANGED <<pcb, buf, call, sending, input, written, rxVars>>

SendEnds ==
  /\ sending /\ ~(buf.client /\ CanSend /\ Head(chain) # <<>>)
  /\ sending' = FALSE
  /\ UNCHANGED <<pcb, buf, call, input, tx, rxVars>>

-----------------------------------------------------------------------------
(* lwIP's callbacks.                                                        *)

\* _connected: the user makes the buffer in onConnect.
Connected ==
  /\ Free /\ pcb = "opening"
  /\ pcb' = "open" /\ buf' = [buf EXCEPT !.exists = TRUE, !.client = TRUE]
  /\ UNCHANGED <<call, sending, input, tx, rxVars>>

\* _sent: onAck when all that was sent is acknowledged.
Ack(n) ==
  /\ Yielding /\ pcb = "open" /\ n <= queued
  /\ queued' = queued - n
  /\ LET unacked == (client.unacked - n) % Word IN
     /\ client' = [client EXCEPT !.unacked = unacked, !.busy = @ /\ unacked # 0]
     /\ sending' = (unacked = 0)
  /\ UNCHANGED <<pcb, buf, call, input, wire, chain, written, failed, rxVars>>

\* onDisconnect: the user says whether the buffer is to be deleted.
Discarded ==
  /\ pcb' = "ended" /\ client' = [client EXCEPT !.closing = FALSE]
  /\ \E delete \in BOOLEAN : buf' = [buf EXCEPT !.client = FALSE, !.exists = @ /\ ~delete]
  /\ UNCHANGED <<call, sending, input, wire, queued, chain, written, failed, rxVars>>

\* A FIN, through _recv and _close, or an error, through _error.
Ended == Yielding /\ pcb \in {"opening", "open"} /\ Discarded

PollCloses == Yielding /\ pcb = "open" /\ client.closing /\ Discarded

\* _poll with onTimeout, which closes at the next poll.
PollTimeout ==
  /\ Yielding /\ pcb = "open" /\ ~client.closing /\ client.busy
  /\ client' = [client EXCEPT !.busy = FALSE, !.closing = TRUE]
  /\ UNCHANGED <<pcb, buf, call, sending, input, wire, queued, chain, written, failed, rxVars>>

\* _poll with onPoll.
Poll ==
  /\ Yielding /\ pcb = "open" /\ ~client.closing /\ Head(chain) # <<>>
  /\ sending' = TRUE
  /\ UNCHANGED <<pcb, buf, call, input, tx, rxVars>>

\* _recv with onData: _rxData drops the data if stop() was called.
Receive(segment) ==
  /\ Yielding /\ pcb = "open"
  /\ written + Len(received) + Len(segment) <= MaxBytes
  /\ IF buf.client
     THEN /\ received' = received \o segment
          /\ input' = [at |-> "first", left |-> Numbers(Len(received), Len(segment))]
     ELSE UNCHANGED <<received, input>>
  /\ UNCHANGED <<pcb, buf, call, sending, tx, rx, given, read, answers>>

-----------------------------------------------------------------------------
(* Reading.                                                                 *)

\* The calls that set _RXmode.
Asking(b) ==
  {[b EXCEPT !.mode = "NONE"], [b EXCEPT !.mode = "TERMINATOR_STRING", !.size = 0],
   [b EXCEPT !.mode = "FREE", !.onData = TRUE]}
  \cup {[b EXCEPT !.mode = "READ_BYTES", !.size = n] : n \in 1..MaxRead}

\* stop(): a read that goes on is answered with false.
Stopped(b) == [b EXCEPT !.client = FALSE, !.mode = "NONE"]

\* What the user may do, in a callback or by itself, that finds the buffer as b and
\* the read that goes on as r.
Asks(b, r, between) ==
  /\ \/ buf' = b /\ read' = r
     \/ /\ b.client /\ buf' \in {Stopped(b)} \cup Asking(b)
        /\ read' = NewRead(Len(given'), buf'.size, between)
  /\ client' = [client EXCEPT !.closing = @ \/ (b.client /\ ~buf'.client)]

Ask ==
  /\ Free /\ buf.exists /\ buf.client /\ UNCHANGED given
  /\ Asks(buf, read, FALSE)
  /\ UNCHANGED <<pcb, call, sending, input, wire, queued, chain, written, failed, rx, received,
                 answers>>

\* How many bytes of s readStringUntil takes: to the first terminator, if any.
ToTerminator(s) ==
  LET ends == {i \in DOMAIN s : received[s[i]] = "terminator"} IN
  IF ends = {} THEN Len(s) ELSE Min(ends)

Terminated(s, n) == n > 0 /\ received[s[n]] = "terminator"

\* readBytes and readStringUntil: what is taken of the buffer, then of the data.
FromBuffer == IF buf.mode = "READ_BYTES" THEN Min({buf.size, Len(rx)}) ELSE ToTerminator(rx)
FromData ==
  IF buf.mode = "READ_BYTES"
  THEN IF FromBuffer = Len(rx) THEN Min({buf.size - FromBuffer, Len(input.left)}) ELSE 0
  ELSE IF Terminated(rx, FromBuffer) THEN 0 ELSE ToTerminator(input.left)

Answer ==
  \/ buf.mode = "READ_BYTES" /\ buf.size = FromBuffer + FromData
  \/ buf.mode = "TERMINATOR_STRING"
     /\ (Terminated(rx, FromBuffer) \/ Terminated(input.left, FromData))

\* The user is given r bytes of the buffer and n of the data.
Give(r, n) ==
  /\ rx' = SubSeq(rx, r + 1, Len(rx))
  /\ given' = given \o SubSeq(rx, 1, r) \o SubSeq(input.left, 1, n)

\* _handleRxBuffer in each mode.  A read that is answered may be followed by
\* another that its callback asks for.
Read ==
  LET b == [buf EXCEPT !.size = IF buf.mode = "READ_BYTES" THEN @ - FromBuffer - FromData ELSE @]
      r == [read EXCEPT !.bytes = @ \o SubSeq(rx, 1, FromBuffer) \o SubSeq(input.left, 1, FromData)]
  IN /\ Give(FromBuffer, FromData)
     /\ IF Answer
        THEN /\ answers' = [mode |-> buf.mode, read |-> r]
             /\ Asks([b EXCEPT !.mode = "NONE"], r, FALSE)
        ELSE buf' = b /\ read' = r /\ UNCHANGED <<client, answers>>

\* onData's first call, with what the buffer has, of which it takes r bytes.
GiveBuffer(r, between) ==
  /\ Give(r, 0) /\ UNCHANGED answers
  /\ Asks(buf, read, between)

\* Its second call, with the data: though the first may have asked for a read, or
\* stopped the buffer.
GiveData(n) ==
  /\ Give(0, n) /\ UNCHANGED answers
  /\ Asks(buf, IF buf.mode = "FREE" THEN read ELSE [read EXCEPT !.passed = @ + n], FALSE)

Step(at, left) == [at |-> at, left |-> left]
RxStep(at) ==
  /\ input.at = at /\ ~sending
  /\ UNCHANGED <<pcb, call, sending, wire, queued, chain, written, failed, received>>

Reads == buf.client /\ buf.mode \in Reading
CallsUser == buf.client /\ buf.mode = "FREE" /\ buf.onData

\* The data is offered until nothing more of it is taken.
GoesOn(handled) ==
  LET left == SubSeq(input.left, handled + 1, Len(input.left)) IN
  input' = IF rx' = <<>> /\ buf'.mode # "NONE" /\ handled > 0 /\ left # <<>>
           THEN Step("first", left) ELSE Step("rest", left)

OfferFirst ==
  /\ RxStep("first")
  /\ \/ Reads /\ Read /\ GoesOn(FromData)
     \/ /\ CallsUser /\ rx # <<>>
        /\ \E r \in 0..Len(rx) :
             /\ GiveBuffer(r, r = Len(rx))
             /\ input' = Step(IF r = Len(rx) THEN "second" ELSE "rest", input.left)
     \/ /\ CallsUser /\ rx = <<>>
        /\ \E n \in 0..Len(input.left) : GiveData(n) /\ GoesOn(n)
     \/ /\ ~Reads /\ ~CallsUser
        /\ input' = Step("rest", input.left) /\ UNCHANGED <<buf, client, rx, given, read, answers>>

OfferSecond ==
  /\ RxStep("second")
  /\ \E n \in 0..Len(input.left) : GiveData(n) /\ GoesOn(n)

\* The rest goes behind what the buffer has.
Stored_inFront(left) == left \o rx  \* fault: in front of it
Stored(left) == rx \o left

Store ==
  /\ RxStep("rest")
  /\ rx' = Stored(input.left)
  /\ input' = Step("buffer", <<>>)
  /\ UNCHANGED <<buf, client, given, read, answers>>

\* The buffer is offered once: with no data _handleRxBuffer returns 0.
OfferBuffer ==
  /\ RxStep("buffer")
  /\ \/ rx # <<>> /\ Reads /\ Read
     \/ rx # <<>> /\ CallsUser /\ \E r \in 0..Len(rx) : GiveBuffer(r, FALSE)
     \/ /\ rx = <<>> \/ (~Reads /\ ~CallsUser)
        /\ UNCHANGED <<buf, client, rx, given, read, answers>>
  /\ input' = NoInput

-----------------------------------------------------------------------------
Kinds == {"terminator", "other"}

User == Connect \/ Ask \/ Flush \/ \E n \in 1..MaxBytes : Write(n)
Lwip ==
  \/ Connected \/ Ended \/ PollCloses \/ PollTimeout \/ Poll
  \/ \E n \in 1..SendRoom : Ack(n)
  \/ \E segment \in SeqOf(Kinds, 2) \ {<<>>} : Receive(segment)
Library == Fill \/ Grow \/ FlushRound \/ SendSome \/ SendEnds
           \/ OfferFirst \/ OfferSecond \/ Store \/ OfferBuffer

Next == User \/ Lwip \/ Library

Spec == Init /\ [][Next]_vars

-----------------------------------------------------------------------------
(* Properties.                                                              *)

\* Every variable has its type; lwIP's room and the cbufs are kept to, and what
\* tcp_output has not failed for is counted as unacknowledged exactly.
TypeOK ==
  /\ pcb \in {"none", "opening", "open", "ended"}
  /\ queued \in 0..SendRoom /\ client.unacked \in 0..(Word - 1)
  /\ failed \in 0..MaxFails /\ (failed = 0 => client.unacked = queued)
  /\ chain # <<>> /\ \A i \in DOMAIN chain : Len(chain[i]) <= Capacity
  /\ buf.size \in 0..MaxRead /\ buf.mode \in Reading \cup {"NONE", "FREE"}
  /\ call.do \in {"none", "fill", "grow", "flush", "crashed"}
  /\ input.at \in {"none", "first", "second", "rest", "buffer"}

\* Lines 103-143 and 326-370: each byte that write() took is given to TCP once and
\* in order, over any partial sends, full buffers and acknowledgements; after
\* tcp_output has failed bytes may be given twice, but none is left out.
StreamKept ==
  IF failed > 0 THEN ToSet(wire) \cup ToSet(FlattenSeq(chain)) = 1..written
  ELSE wire \o FlattenSeq(chain) = Numbers(0, written)

\* Lines 377-541: however segments are cut and reads are asked for, in callbacks
\* too, each byte that came is given to the user once and in order or waits in
\* the buffer.  readBytes is answered with as many bytes as were asked for,
\* readStringUntil with those up to the first terminator; they are those that
\* come next when it is asked for, unless onData asks for it between the two
\* calls that _handleRxBuffer makes of it: what onData takes in the second is
\* lost to the read (and given to it even after stop() or noCallback()).
ReadsKept ==
  /\ given \o rx \o input.left = Numbers(0, Len(received))
  /\ read.passed > 0 => read.between
  /\ LET r == answers.read IN
     /\ r.bytes = Numbers(r.at + r.passed, Len(r.bytes)) /\ (r.passed > 0 => r.between)
     /\ answers.mode = "READ_BYTES" => Len(r.bytes) = r.asked
     /\ answers.mode = "TERMINATOR_STRING" =>
          \A i \in DOMAIN r.bytes :
            received[r.bytes[i]] = "terminator" <=> i = Len(r.bytes)
=============================================================================
