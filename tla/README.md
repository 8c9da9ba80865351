# MQTT timing test bench: verification project

Models, model-checking runs and proofs for a test bench that measures the time
between MQTT packets: two ESP32 boards publish, a Kotlin server records and
stores, a PHP page shows. Paths below are relative to the repository.

## 1. Inventory

| Part | Source | State | Operations |
|---|---|---|---|
| Measuring server | `src/main/kotlin/Main.kt` | tables `Devices`, `Times`, `Sessions`; lists `packetsAMO`, `packetsALO`; `mesToDevIdMap`; `pubackSent`; per connection `devId`, `prev` | accept a connection, handle a PUBLISH (QoS 0, 1, 2), disconnect, one task a second that writes to the database |
| Monitoring page | `test/index.php`, `api.php`, `cancel.php` | what is shown, the series of losses; requests under way | ask every 2 s, two SELECTs, show, reset |
| Sketch | `MQTT/src/main.cpp` | two FreeRTOS timers, button state | Wi-Fi events, MQTT callbacks, timer callbacks, publish in `loop()` |
| AsyncMqttClient | `MQTT/.piolibdeps/AsyncMqttClient_ID346/src` | `_connected`, `_disconnectFlagged`, three clocks, `_toSendAcks`, `_pendingPubRels`, `_nextPacketId`, parser | connect, publish, disconnect, a handler for each packet, `_onPoll` |
| AsyncTCP | `MQTT/.piolibdeps/AsyncTCP_ID1826/src` | `_pcb`, `_pcb_busy`, `_pcb_sent_at`, the event queue | lwIP's callbacks put events in the queue, the async task takes them |
| Simulated client | `src/main/kotlin/Tests.kt` | none | publish, sleep |
| AsyncServer | `AsyncTCP.cpp` | the listening pcb | makes an `AsyncClient` of each connection and hands it to the user |
| ESPAsyncTCP | `MQTT/.piolibdeps/ESPAsyncTCP_ID305/src` | `AsyncClient`; `AsyncTCPbuffer`'s chain of cbufs, receive buffer and `_RXmode` | write, flush, four ways to read, stop; the ESP8266's library, not linked into the ESP32 firmware |
| Not linked | examples, `.pio` | | |

How they interact:

- The boards and the server exchange MQTT packets. Server and page share only the
  database.
- In the server a Vert.x event loop runs the handlers, a `java.util.Timer` thread
  the task. Both use the lists and the map under `lock`; `pubackSent` is written
  by both, by the event loop without the lock.
- On the board four tasks share `AsyncMqttClient` and `AsyncClient` with no lock:
  the Arduino event task (`WiFiEvent`), the FreeRTOS timer daemon (the two timer
  callbacks), lwIP's thread (callbacks), and the async task (events of the queue).
  The sketch's `loop()` is a fifth, which publishes.

What is hard: the two threads around `lock` and `pubackSent`; transactions that
are tried again or fail; message ids shared by devices; requests that overlap; a
vector erased while it is walked over; duplicates and lost connections in QoS 2
handshakes; keep-alive timeouts with no room to send; attempts to connect that
overlap, with events handled after their connection is gone. `PROJECT.json` lists
each under `hazards`, at its line, with the property that covers it or a note.

What makes each part correct:

- server: each recorded packet is stored exactly once, under the right device, and
  the counters agree with the rows; the event loop never blocks for ever;
- page: an answer agrees with itself; a reset loses and adds no packet;
- packet handlers: each message delivered once, each handshake ends, each
  acknowledgement is sent once;
- keep-alive: the server hears in time, a living server is not given up, a dead one is;
- connection: `connected()` tells the truth, and the board connects again;
- parser: every packet's handler is called once, whatever the segments; a packet
  cut off by a lost connection does not disturb the next connection;
- event queue: a client's events are handled in order, none of a deleted client;
  the receive window is given back; the user is told of every end;
- ESPAsyncTCP's buffer: each byte is sent once and in order, each read gets the
  bytes it asked for.

## 2. Modules

| Module | Models | Extends |
|---|---|---|
| `PacketLog` | abstract specification: a write-behind log, whose pending packets are stored all at once | |
| `Server` | `Main.kt` | |
| `ServerProofs` | theorems about `Server` (exactly once, counters, `PacketLog`, devices and connections) and about the page beside it | `Monitoring`, `TLAPS` |
| `MqttClientProofs`, `KeepAliveProofs`, `ReconnectProofs`, `AsyncTcpProofs` | theorems about the module of that name | it, `TLAPS` |
| `FlattenLemmas` | lemmas: induction over numbers, prefixes, `FlattenSeq` | `TLAPS` |
| `EspTcpBufferProofs`, `PacketParserProofs` | theorems about the module of that name | it, `FlattenLemmas` |
| `Monitoring` | `test/` beside the server: a composition, each server step is one of `Server` | `Server` |
| `MqttClient` | packet handlers, publishing, subscribing and `_sendAcks` of AsyncMqttClient, with a broker | |
| `PacketReader` | abstract specification: the handlers called for what a broker sends | |
| `PacketParser` | `_onData` and the packet classes | |
| `KeepAlive` | `_onPoll`, `_sendPing`, `disconnect`, `AsyncClient::_poll` | |
| `Reconnect` | `main.cpp`'s events and timers, connection life cycle in both libraries | |
| `AsyncTcp` | AsyncTCP's two threads and the queue between them | |
| `EspTcpBuffer` | `AsyncTCPbuffer` on ESPAsyncTCP's `AsyncClient` | |
| `MC*` | constants for TLC | the module of that name |

Operators named `X_fault` are plausible faults of `X`; each property is violated
when the one fault meant for it takes `X`'s place (`mutants` in `PROJECT.json`).

### Server

A step is one piece of a thread that touches unguarded shared data once, or a whole
synchronized block of the event loop. The timer holds the lock through several
steps, because its transaction may fail and reads the unguarded counter.

- `Accept`, `Refuse`: `endpointHandler` with its transaction, or that transaction
  throwing. `Disconnect`: only logs, but no packet follows.
- `ReceiveQoS0`, `ReceiveQoS1`, `CountPuback`, `Record`: `publishHandler`. The two
  halves of `++pubackSent` are two steps. `Record(near)` decides freely whether the
  packet came within 700 ms.
- `StartFlush`, `CrashOnEmpty`, `ReadPubackSent`, `CommitFlush`, `AbortFlush`,
  `ClearFlushed`: the task.

An interval is abstracted to a serial number, so the lists are sets; `qos` and
`from` of a packet are history. `received`, `recorded` and `acked` are history.
QoS 2 packets are answered and change no state. A restart is `Init`: `main` drops
all tables. External and assumed: Exposed 0.13.6 runs a transaction's body up to
three times and reports its outcome truthfully; the database driver returns the
rows matched, not changed, by an UPDATE; an id is not deleted from `Devices`.

`mesToDevIdMap` is keyed by the message id alone: when two devices use one id
between two flushes, as all QoS 0 packets do, the rows of both go to the device
that used it last. The page splits rows "a seconda del client"
(`test/index.php:195`) all the same. `LastSenderWins` states what does hold.

`Server` implements `PacketLog` (`LogSpec`): the mapping takes the packets out of
`pending` at the commit, when the lists still hold them.

### Monitoring

Requests start by the clock, so several may be open, and `Show` may take any of
them. `Times` rows are abstracted to ids. The page's loss series is
`QOS1Packets - packetsSent`, which counts intervals against PUBACKs and so is below
zero after the first packet of each connection; no property is stated of it. The
titles of the charts speak of 500 packets (`index.php:65`, `125`), the query
returns 1000 rows over all clients (`api.php:16`); this needs no model to see.

### MqttClient

Both directions of QoS 1 and 2 over a TCP connection, which loses and reorders
nothing, and which may end (`Drop`, `_clear`). `Sendable`, `SentAcks`, `KeptAcks`
say what the loop of `_sendAcks` does: it erases entry i and then increments i, so
with room it sends every other entry, so that a PUBACK may leave before one that was
queued in front of it. `room` is what the send buffer allows. The
broker follows MQTT 3.1.1 with a clean session. `PublishQoS` takes the next id,
`PublishAgain` is `publish()` with `dup` and a `message_id`, as the library's
reference describes it (`docs/2.-API-reference.md:159`): the caller's id is used, and
`_getNextPacketId` neither gives nor skips it. So an id may have several packets
under way: the first one and those sent again, or one numbered since the connection
began and one sent again from the connection before. `unconfirmed` counts them for
each id, and `HandshakeKept` says that as many packets and queue entries carry them
on. `Subscribe` and `Unsubscribe` take
their packet ids from the same counter. The sketch subscribes before it is
connected, which returns 0, so on the boards only the publishing side is exercised;
the library is modelled whole. The parser's callbacks are atomic here.

### KeepAlive

Time is counted in polls of 500 ms; a clock is the number of polls since it was
set, and stops past the last limit it is compared with (`Forever`). The send
buffer is counted in packets. Packets have 11 to 14 bytes (and 2 for a PINGREQ), and
their mixtures can fill it to less than two bytes, so a full buffer means no room.
`_sendPing` and `_sendDisconnect` both need room: when the sketch has filled the
buffer and the server is silent neither is sent, `_lastPingRequestTime` stays 0, and
the connection stays open, though `_onPoll` means to "avoid half open connections"
(`AsyncMqttClient.cpp:446`). `HalfOpenClosedGivenRoom` states the promise with its
condition, and to the poll.
An acknowledgement timeout (`PollTimeout`) takes the place of a poll of the MQTT
client. A living server answers within `MaxDelay` polls, less than the two keep-alives that
`_onPoll` waits for it; lwIP's own limit on retransmissions, minutes later, is left
out.

### Reconnect

Events carry their pcb except ERROR, as in AsyncTCP; CONNECTED and CLEAR go in
front of the queue. `connect()` refuses when `_connected`, or when `_pcb` is set,
which happens only when CONNECTED is handled. `_lwip_fin` closes the pcb in lwIP's
thread, `_fin` runs later in the async task. `overlapped` is history: an attempt
began while another, or its events, were not over. A pcb freed by lwIP whose
events are not yet handled counts as one not ESTABLISHED. Timing assumed: one
second is enough for the events queued when `mqttReconnectTimer` is started, and the
server's 6 s for an idle connection are longer than that timer. A timer that is
stopped may already have fired or may still fire (`OnWifiLost`). `_error` does not
know which pcb had the error: of two overlapping attempts the error of one detaches
the other, whose CONNACK, already queued, sets `_connected` with no connection left
(`ConnectedAlone` excepts `overlapped`).

### PacketParser

One action for each state of `_onData` and each method of a packet class; a step
takes a byte, or the piece of a payload that a segment holds. `Receive` brings a
segment of any of the sizes, `Lose` ends the connection when all that arrived is
parsed, which may be in any byte of a packet. Header bytes have their values, with
the remaining length by MQTT's definition against `decodeRemainingLength`; a byte
of a topic or payload is known by its place in the stream, so that `calls` shows
which bytes a handler was given. `_bytePosition` is counted modulo 256. The broker
keeps to MQTT (`BrokerAssumption`): a connection begins with its only CONNACK, topics
are not empty, and ids, codes and the remaining length have the width MQTT gives them.

`PacketParser` implements `PacketReader` (`ReaderSpec`). What that leaves out:

- a topic of 253 bytes or more with QoS 1 or 2, of 255 or more with QoS 0, makes
  `_bytePosition` wrap (`long_topic_ignored`); the passing run goes up to 252 and 254;
- `parseVariableHeader` increments `_bytePosition` of an object its own complete
  callback has deleted (`PublishPacket.cpp:61`, `72`, `63`; no payload, QoS 1 or 2);
- an ignored message's packet object is never freed (`OnlyIgnoredLeak` shows that
  nothing else is lost);
- `_clear` does not reset `_remainingLengthBufferPosition`. After a connection lost
  inside a remaining length the next one's first length goes to a wrong place; that
  is a CONNACK's, whose length is not used, and then the position is 0 again.

### AsyncTcp

lwIP's thread does one callback at a time and holds its event (`lwip`) until the
queue has room (`Deliver`). The async task takes an event and does the steps of its
handler (`steps`), with lwIP's thread free to act between any two; a call into lwIP
(`ApiCall`) waits until lwIP's thread is back in its loop. The user deletes an
accepted client in onDisconnect, keeps its own, and in onPoll closes a client or
acknowledges data late. One client connects (by address or by name), one is
accepted by `AsyncServer`. `RemoveEvent` and `ReturnEvent` are the loop of
`_remove_events_with_arg`. SENT events and sending are left to `KeepAlive`; an
address used again, a client deleted with its `_pcb` set, and the value
`_rx_ack_len` has before its first use (the constructor does not set it) are left
out. What the runs and the exceptions in the properties show:

- an event put while others are removed comes in the wrong order (`raced`,
  `order_kept`); RECV may be handled before ACCEPT or CONNECTED, and with a third
  client CONNECTED after ERROR, so that `_pcb` of a freed pcb is set, or after data,
  which is then not acknowledged;
- with a full queue the async task may wait for itself (`WaitsForItself`): for a
  place, in CLEAR or when it returns an event, or for lwIP's thread, which waits
  for a place;
- a FIN that comes before CONNECTED is handled is taken for another pcb's
  (`early`): the pcb is never closed, the user is told of the end with `_pcb` set,
  and `connect()` refuses for ever after;
- `_handle_async_event` has no branch for DNS: `connect()` by name never goes on
  when the address was not known at once.

### EspTcpBuffer

One thread: callbacks run between the calls of the user and inside `flush()`. A call
is a sequence of steps, `write` fills and grows the chain, `SendSome` is one round of
`_sendBuffer` with `AsyncClient::write`. `OfferFirst`, `OfferSecond`, `Store` and
`OfferBuffer` are the parts of `_rxData`, each with what the user does in its
callback (`Asks`). When `_RXbuffer` holds bytes and `onData` is set,
`_handleRxBuffer` calls `onData` twice, first with those (`OfferFirst`) and, if all
are taken, with the data (`OfferSecond`); each call is a step. Bytes are numbered.
The buffer has all the memory it asks for, except where `write()` reports the want of it. Observed:

- `tcp_output` failing makes `write()` return 0 though `tcp_write` took the bytes:
  they are sent twice, and `_tx_unacked_len` goes below zero (`failed`);
- `flush()` goes on using `_client` or the buffer after a disconnect
  (`call.do = "crashed"`);
- a read or `stop()` that `onData` asks for in the first of its two calls does not keep
  the second from being made (`AsyncTCPbuffer.cpp:462`): what `onData` takes there was
  wanted by the read, which may miss its terminator, or comes after the stop.
  `ReadsKept` names the case (`between`) and shows that it is the only one;
- a read that is asked for while data waits in `_RXbuffer` is answered at the next
  segment; a read that waits when the connection ends is never answered.

## 3. Runs

Passing runs:

| Run | Bounds | Properties |
|---|---|---|
| `server` | 3 connections from 2 addresses, 2 names, 1 message id, 4 packets, 2 attempts; 1.7 M states | types; `PersistedExactlyOnce`; `CountersMatchRows`; `DeviceOfPendingKnown`; `LastSenderWins`; `OneRowPerIp`; `EndpointOnItsRow`; `IntervalWithinConnection`; refinement `LogSpec` |
| `monitoring` | 1 connection, 3 packets, 2 requests, 1 reset, LIMIT 2; 353 k states | `CountersSinceReset`, `TotalsCoverTimes`; of the server beside the page `FlushedUnlessDead`, `HandlerReturns` |
| `mqtt_client` | 2 packet ids, 3 messages (QoS 2, 2, 1), 2 packets that the client sends or either side sends again, 1 drop; 925 k states | types; `DeliveredOnce`, `HandshakeKept`, `AllSettled` |
| `keep_alive` | 8 polls (4 s), timeout 10 polls (5 s), 6 packets, delay 15, one less than `_onPoll` waits; 1.1 M states | types; `ServerHearsInTime`, `NeverGivesUpOnLiving`, `HalfOpenClosedGivenRoom` |
| `reconnect` | 4 pcbs, 1 Wi-Fi loss, 2 failures; 167 k states | `ConnectedAlone`, `NoLostReconnect`, `ConnectedInTheEnd` |
| `packet_parser` | 5 connections of up to 6 packets, segments of 1, 7 and 300 bytes, topics up to 4 bytes kept, 2 losses; 2.9 M states | `InSync`, `OnlyIgnoredLeak`, refinement `ReaderSpec` |
| `async_tcp` | 2 clients, queue of 4, 2 pieces of data each, 1 poll; 1.3 M states | `DataInOrder`, `NoStrays`, `WindowAccounted`, `OneStaleCall`, `ReadyAgain`, `ToldInTheEnd` |
| `esp_tcp_buffer` | cbufs of 2 bytes, lwIP's room 3, 5 bytes in all, reads of 2, 1 failure; 6.4 M states | `StreamKept`, `ReadsKept` |

Why the bounds are enough: the hazards need two packets of one device and one of
another, a flush between them, and a second flush; two requests and one reset
between their queries; a queue of three acknowledgements, for `_sendAcks` to skip
one; a packet id used again; two packets of the client's with one id under way, the
second by `dup` or by `_getNextPacketId` after it; two attempts to connect and the
failure of one. A drop puts everything back but the bounds, so that what is sent again
from the connection before is any id of the next one.
`keep_alive` runs with the firmware's real limits; with a delay of 16 polls
`NeverGivesUpOnLiving` fails. Four pcbs stand for lwIP's
sixteen: within the bounds of the run an attempt always finds a free one. The
parser's segments of one byte cut every packet everywhere, of seven they cut at
changing places, and of 300 they bring several packets; its two losses are one more
than the state kept over a loss needs. A queue of four fills with the events of
one client's life and has room for the other's, so that removals return events and
meet a full queue, as with 32. A write of five bytes passes three cbufs of two and
lwIP's room of three; two bytes of a segment are enough for a terminator before the
end and at it.

Runs that show where the code does not do what is said of it (`findings`):

| Run | What happens |
|---|---|
| `minimum_exists` | a QoS 1 packet that gives no interval, alone at a tick, makes `min()!!` throw; the Timer thread ends and nothing more is stored |
| `acks_counted` | PUBACKs counted outside the lock are lost or counted twice |
| `order_kept` | a client's data is handled out of order when lwIP's thread puts an event while the queue is turned round "so we can keep the order" |
| `long_topic_ignored` | a message with QoS 1 and a topic of 253 bytes is not "ignored": the parser loses its place in the stream |

Deadlock checking is off in every run: inputs are bounded, so each model may come
to an end, as may the server when its Timer thread has died and no client sends.

The Java memory model: `pubackSent` is neither volatile nor always under the lock.
The model lets the threads' single reads and writes interleave, which is what the
build produces, since the threads pass the lock again and again; a read that is
stale for longer gives the same wrong counts as `acks_counted`.

## 4. Fairness

- `Server!FairSpec`: the Timer thread is a running thread (weak fairness of its
  steps), and a handler the event loop has begun is carried on. Packets need not
  arrive.
- `MqttClient!FairSpec`: the async task handles what arrives and is polled; a poll
  with room for at least one acknowledgement comes again; the broker answers.
- `Reconnect!FairSpec`: every task runs; joining the Wi-Fi succeeds when it no longer
  fails; a server that is there answers, and closes what is idle.
- `KeepAlive` has no fairness: its promises have time limits and are invariants
  over the number of polls. `PacketParser` and `EspTcpBuffer` have none either: their
  properties are about safety.
- `Monitoring!MonFairSpec`: the fairness of `Server`, beside the page, whose requests
  are made by a reader and may stop at any time.
- `AsyncTcp!FairSpec`: both are FreeRTOS tasks that run when they can (weak fairness of
  the async task's steps, and of lwIP's thread when the queue has room for its event).
  Nothing need arrive.

## 5. Proofs

Each theorem is `Spec => []P` (of `MonSpec` for the page, and a refinement for
`ImplementsLog` and `ParserImplementsReader`), for any values of the constants that satisfy the assumptions
named in the module it is about. The constants are sets of clients, packets and
ids, limits and bounds; the assumptions say that limits are numbers, that `Outgoing`
are clients, that a value which stands for none is not one of the others
(`PcbAssumption`, ...), and that a broker keeps to MQTT (`BrokerAssumption`). `HalfOpenClosed` and the theorems about the parser have a hypothesis of their own, below.

| Module | Theorem | Property | Inductive invariant |
|---|---|---|---|
| `ServerProofs` | `TypeCorrect` | `TypeOK` | `Typed` |
| | `ExactlyOnce` | `PersistedExactlyOnce` | with `Typed` |
| | `CountersAreRows` | `CountersMatchRows` | with the two above |
| | `ImplementsLog` | `LogSpec` | `LogInv` |
| | `OneRow`, `OnItsRow` | `OneRowPerIp`, `EndpointOnItsRow` | `Devices` |
| | `DeviceKnown`, `LastSender` | `DeviceOfPendingKnown`, `LastSenderWins` | with those before it |
| | `IntervalOfConnection` | `IntervalWithinConnection` | `Counted` |
| | `MonTypeCorrect`, `SinceReset`, `TotalsCover`, `MonExactlyOnce` | `MonTypeOK`, `CountersSinceReset`, `TotalsCoverTimes`, `PersistedExactlyOnce` | `MonInv` |
| `MqttClientProofs` | `MqttTypeCorrect` | `TypeOK` | `TypeOK` |
| | `PassedOnOnce` | `DeliveredOnce` | `Delivery` |
| | `EachConfirmedOnce` | `HandshakeKept` | `Acked`, `Handshakes` |
| `KeepAliveProofs` | `KeepAliveTypeCorrect`, `LivingKept` | `TypeOK`, `NeverGivesUpOnLiving` | `Living` |
| | `ServerHears` | `ServerHearsInTime` | `Living` |
| | `HalfOpenClosed` | `HalfOpenClosedGivenRoom` | `Living`, `Silent` |
| `ReconnectProofs` | `ReconnectTypeCorrect`, `ConnectedTruly` | `TypeOK`, `ConnectedAlone` | `ConnInv` |
| | `ReconnectsAgain` | `NoLostReconnect` | `WayInv` |
| `AsyncTcpProofs` | `OneStaleCallOnly` | `OneStaleCall` | `CallInv` |
| | `DeletedIsLeftAlone`, `ConnectsAgain` | `NoStrays`, `ReadyAgain` | `CallInv`, `LineInv` |
| | `DataStaysWhole`, `AcknowledgedOnce` | `DataInOrder`, `WindowAccounted` | with the two above, `DataInv` |
| | `AsyncTypeCorrect` | `TypeOK` | `CallInv`, `AllBounded`, `Counted` |
| `EspTcpBufferProofs` | `StreamIsKept`, `BufferTypeCorrect` | `StreamKept`, `TypeOK` | `TxInv` |
| | `ReadsAreKept` | `ReadsKept` | `RxInv` |
| `PacketParserProofs` | `ParserInSync`, `ParserLeaks`, `ParserTypeCorrect` | `InSync`, `OnlyIgnoredLeak`, `TypeOK` | `Inv` |
| | `ParserImplementsReader` | `ReaderSpec` | `Inv` |

The arguments, and why the properties are not inductive as they stand:

- **Server, types.** That the attempts stay within `MaxAttempts` needs that fewer were
  made while a transaction runs, and the batch is a sequence only if the pending lists
  are finite; `Typed` adds both.
- **Server, exactly once.** `Record` needs the lock, so it never happens between the
  commit and the clearing; a new serial number is in neither place; the commit turns
  the pending set into rows, one for each packet (`BatchFacts`, `CommitRows`,
  `CommitPersists`); clearing removes only what `Persisted` holds.
- **Server, the log.** Init and every step map to the log's Init, one of its steps or a
  stutter. The mapping looks at the pending lists only when they are not stored yet,
  so that `CommitFlush` is the step that stores and `ClearFlushed` a stutter.
- **Server, devices.** A connection keeps the id of its row, not the row: renaming
  changes a row that may be in use, but never its address. `LastSenderWins` follows
  because an entry of the map is written after the packet it is about is received.
- **Page.** An answer's counters are read after its times; between a reset and the next
  commit the counters start from what is stored then (`CountersSinceReset`), and the
  loss chart has a point for each answer (`OnePointEach`). `MonExactlyOnce` shows that
  the page leaves the server's invariant alone.
- **QoS 2, `PassedOnOnce`.** `Delivery` says of the stream towards the client what
  `_pendingPubRels` must hold when a packet's turn comes: between two PUBLISH of
  different messages with one id there is the PUBREL that frees it, and between two
  copies of one message there is none (`Apart`, `Together`); whether the id is pending
  now tells whether the first copy in the stream is fresh (`SeenPending`,
  `FreshReleased`).
- **Acknowledgements, `EachConfirmedOnce`.** For each id the packets and queue entries
  that bring it nearer to its confirmation are counted: a packet sent with it adds one
  to the sum and to what is unconfirmed, a callback takes one from both, and every other
  step turns one carrier into the next. `_sendAcks` deals its entries out to those it sends and
  those it keeps, wherever it stops (`Dealt`, `CountSplit`, `FlushCount`).
- **Keep-alive.** `LivingKept`: the PINGREQ whose answer `_onPoll` awaits was sent less
  than a delay ago, and a delay is less than two keep-alives. What
  `ServerHearsInTime` excepts is a packet under way for all that the factor 0.7 leaves of
  the server's patience, and `Living` bounds the server's wait by `PingAfter` and that
  packet's time; `HalfOpenClosed` assumes `AckTimeout > 1`. TLC finds counterexamples
  where either is missed by one.
- **Life cycle.** `Single` says that, while no attempts have overlapped, one pcb is in
  use, and ties `_pcb`, `_connected` and what is queued to it; the places of CLEAR and
  CONNECTED, which go in front of the queue, are part of it (`ClearFirst`).
  `OnItsWay` says of each state of the two timers and four tasks what will make the
  next connection.
- **Event queue, calls.** A handler begins a call only when `_pcb` is set, and `_close`
  removes the callbacks before it, so that a FIN that comes later does not set `_pcb`
  to NULL (`Detached`); CONNECTED, which sets it, waits in one place only (`OnceOf`) and
  comes before anything is done with the pcb (`Fresh`). So when a FIN has closed the
  pcb, either `_pcb` is NULL and no new call begins, or the call is the `tcp_close` of
  the handler that removed the callbacks (`LastCall`).
- **Event queue, order.** While `_remove_events_with_arg` turns the queue round, its
  first part is still to be looked at and the rest has been returned; the returned
  part, the event held and the first part, in this order, are one line, and it is the
  order in which the events came (`Cut`). In it new connections and CONNECTED come
  before the other events of their client, and ERROR, or the FIN of an accepted client,
  comes last (`MayPrecede`). The handler of FIN or ERROR therefore leaves no events of
  its client to come, and `_close`, which removes the callbacks first and puts CLEAR
  before all that waits, leaves only events that are removed before one can be handled
  (`Over`). An event that lwIP's thread puts during a removal goes to the end of the
  queue, which is not the end of the line: `LineInv` holds while that has not happened
  (`raced`), as the properties say.
- **Event queue, data.** While no event was put during a removal, a client's handler has
  been given the pieces 1..k of what came, and k+1..`sent` wait (`Whole`). A handler
  takes the piece k+1, because no other is before it in the line. What could break this
  is a removal that finds data: the handler of ERROR or FIN comes after all of its
  client's data, and a CLEAR or `_close` after the callbacks are gone (`Spent`). Lost
  data would also be that of a client whose user does not have it yet, or whose `_pcb`
  is not set: its ACCEPT or CONNECTED waits before the data (`Introduced`, `HasPcb`).
  Then the window lacks what was not handed over and what `ackLater()` counted, but
  between the two calls of a poll handler that acknowledges and closes (`Balance`), and
  a handler that acknowledges fits what is counted (`Fit`). The cardinality of what
  waits is that of k+1..`sent`, by a bijection (`ComingCount`).
- **Event queue, types.** `WindowAccounted` is an equation, which a race ends: data that
  comes before CONNECTED is then handed over and never acknowledged, and data may be
  removed while the pcb is open. The bounds need only that no piece is acknowledged
  twice. What is owed (`Owed`: the data that waits, the piece being acknowledged and
  what `ackLater()` counted) is never more than was sent, nor than the window while lwIP
  has the pcb and the handler has not begun to close it (`Bounded`). A poll handler
  acknowledges what is counted and leaves the count as it is, so that from then on what
  is owed may exceed the window; it then finds `_pcb` set, and closes, or the pcb is gone
  (`Leaves`, `Left`), and nothing is taken from the window after that.
- **Buffer, sending.** What a chain holds, `FlattenSeq`, is defined by recursion. The
  library's induction takes an operator; here induction is stated for a set of numbers
  (`FlattenLemmas`: `Induction`, from the least element of its complement), which is enough to show what
  a cbuf added at the end or taken from the front does to the contents (`FlattenAppend`,
  `FlattenCons`). `Kept` then follows a byte from the chain to the wire: `_sendBuffer`
  takes a piece of the first cbuf and gives it to `tcp_write`, and puts back what was
  not taken; a failure of `tcp_output` puts back bytes that are on the wire already, so
  that from then on only the set of bytes is kept. `SendRoom < 65536` is assumed:
  `tcp_sndbuf()` is a `u16_t`, and the count of unacknowledged bytes must not wrap.
- **Buffer, reading.** The bytes the user was given, those in `_RXbuffer` and those in
  hand are three consecutive intervals of what came (`InOrder`). A read records what it
  was given: an interval of its own (`Recorded`), from where it was asked for, or from
  what `onData` took in its second call. While it goes on the interval ends where the
  next byte is given. What is still wanted and what it has are what `readBytes` asked;
  what `readStringUntil` has holds no terminator, so that the first one found ends the
  answer. Between the two calls `_RXbuffer` is empty and a read just asked for has
  nothing yet (`SecondKept`), so that what the second call takes may still move the
  start of its interval.
- **Parser, its place.** `InSync` speaks only of the moments between packets; `Inv` says
  at every byte where in which packet the parser is (`Between`, `Inside`) and what each
  variable then holds: the bytes of the length read so far, the first of two bytes, the
  part of the topic that is stored and its terminator, how much of the payload was
  given away. `decodeRemainingLength` inverts MQTT's digits (`RoundTrip`). After a
  connection was lost inside a length, the position in `_remainingLengthBuffer` is wrong,
  but only until the CONNACK's single byte: then what is decoded is not 0
  (`DecodedPositive`), and a CONNACK's handler asks no more of it. A packet has at least two
  bytes, so no two places in the stream are the same (`EndsGrow`).
- **Parser, its hypothesis.** `Countable`: the topic and what is before the payload
  have at most 256 bytes in each message. Beyond it `InSync` fails
  (`long_topic_ignored`); the passing run has both longest topics.
- **Parser, the reader.** A step of the parser that calls a handler adds exactly the next
  of the calls that are due (`Due`), because `Inv` fixes the calls made at every place;
  every other step but `Lose` leaves the reader alone.

Every invariant and every action property of the passing runs is proved, and the
refinements of the log and of the reader. Only model-checked: liveness, as the prover
handles neither fairness nor ENABLED.

## 6. Not modelled

- Publishing while the async task sends: the several `add()` calls of one packet are a
  step of `KeepAlive` and `MqttClient`; the library has no lock around them.
- In `AsyncTcp`: what lwIP's thread does between the five `tcp_*` writes of `_close`
  (`AsyncTCP.cpp:601`), which `Detach` takes as one step, and the branch of `_close` in
  which `tcp_close` fails and `abort()` ends the pcb as it would.
- In `Reconnect`: the pcb that `connect()` loses when `tcp_connect` fails with the Wi-Fi
  down (`AsyncTCP.cpp:594`), and `tcp_new` finding no pcb.
- In `PacketParser`: `onMessage` is called for each piece of a payload; `calls` has the
  message when its last piece is given, so the calls for a message that a lost
  connection cuts off do not show.
- In `EspTcpBuffer`: `tcp_write` failing (`ESPAsyncTCP.cpp:255`). No byte is taken and
  `_sendBuffer` tries again at once: a step that changes nothing.
- Three hazards no property covers, because the code does go wrong there and no doc or
  comment promises the contrary; the property about the same matter excepts exactly that
  case and shows that there is no other: a server that vanishes before CONNACK strands
  the board (`NoLostReconnect`, `gone /\ wired`); the two tasks of AsyncTCP wait for each
  other at a full queue (`ToldInTheEnd`, `WaitsForItself`); a FIN before CONNECTED
  leaves a pcb that is never closed (`ReadyAgain`, `early`).
- Wills, credentials and TLS: the sketch does not use them, and they add no state to
  the handlers. `AsyncServer::begin` and `end`: called once.
- `SyncClient` and `AsyncPrinter` of ESPAsyncTCP, its server and `tcp_axtls.c`: the
  firmware is built for the ESP32 and links none of it; `EspTcpBuffer` takes the part
  with the most state.
- `encodeRemainingLength` and the composition of packets to be sent: no state.
- Minimum, maximum, mean, charts, printing, buttons and LEDs: no state others use.
- Restarts: the server drops its tables (`Main.kt:52`), so a restart is `Init`.
- That `api.php:16` limits the rows of both clients together, while each chart is
  titled for one: it needs no model to see.
- `Tests.kt`: a script; its packets are among those `Server` receives.

## 7. Plan

All modules of the plan are written: server and its log, page, packet handlers,
keep-alive, connection life cycle, parser and its reader, event queue, the ESP8266's
buffer. The safety properties of all are proved; what is left is listed in section 6.
