--------------------------- MODULE KeepAliveProofs ---------------------------
(***************************************************************************)
(* Proofs about the keep-alive, for every keep-alive and acknowledgement   *)
(* timeout, size of the send buffer and delay of the server.               *)
(***************************************************************************)
EXTENDS KeepAlive, TLAPS

\* A server that is there: with nothing under way the client is not waiting for
\* anything, and what is under way has been so for less than the server's delay.
Living ==
  alive = TRUE =>
    /\ connected = TRUE /\ flagged = FALSE
    /\ sinceDead = 0
    /\ used = 0 => /\ sinceSent = NotBusy /\ sincePing = NoPing /\ oldest = 0
                   /\ sinceHeard <= sinceClient /\ sinceHeard < PingAfter
    /\ used > 0 => oldest <= MaxDelay /\ sinceHeard <= PingAfter + oldest
    /\ sincePing # NoPing => pongDue = TRUE /\ used > 0 /\ sincePing <= oldest

\* A server that is gone, and a client that found room at every poll since: a
\* PINGREQ goes out within PingAfter polls, its answer is awaited for
\* GiveUpAfter polls, and each of the two can be put off by one poll, when that
\* reports an acknowledgement timeout.
Silent ==
  connected = TRUE /\ alive = FALSE /\ starved = FALSE =>
    /\ flagged = FALSE
    /\ sinceDead <= sinceServer
    /\ sincePing = NoPing => sinceDead < PingAfter \/ (sinceDead = PingAfter /\ ~AckTimedOut)
    /\ sincePing # NoPing =>
         /\ sinceDead <= PingAfter + 1 + sincePing
         /\ sincePing < GiveUpAfter \/ (sincePing = GiveUpAfter /\ ~AckTimedOut)

-----------------------------------------------------------------------------
(* Clocks.                                                                  *)

LEMMA Limits ==
  /\ PingAfter \in Nat \ {0} /\ GiveUpAfter \in Nat /\ Forever \in Nat
  /\ MaxDelay < GiveUpAfter
  /\ Forever = PingAfter + GiveUpAfter + MaxDelay + 3
<1>1. KeepAlivePolls \in Nat /\ KeepAlivePolls >= 1
  BY KeepAliveAssumption
<1>2. PingAfter \in Nat \ {0}
  <2>1. 7 * KeepAlivePolls + 9 \in Nat /\ 7 * KeepAlivePolls + 9 >= 16
    BY <1>1
  <2> QED  BY <2>1 DEF PingAfter
<1> QED  BY <1>1, <1>2, KeepAliveAssumption DEF GiveUpAfter, Forever

LEMMA LaterType ==
  ASSUME NEW t \in 0..Forever
  PROVE  /\ Later(t) \in 0..Forever /\ Later(t) >= t
         /\ Later(t) <= t + 1
         /\ t < Forever => Later(t) = t + 1
BY Limits DEF Later

LEMMA WaitingType ==
  ASSUME NEW t \in {-1} \cup 0..Forever
  PROVE  /\ Waiting(t) \in {-1} \cup 0..Forever
         /\ t = -1 => Waiting(t) = -1
         /\ t # -1 => Waiting(t) = Later(t)
BY LaterType DEF Waiting

-----------------------------------------------------------------------------

\* A poll that finds no disconnect asked for leaves the connection open.
LEMMA NotFlagged ==
  ASSUME NEW room, flagged = FALSE, HandleDisconnect(room)
  PROVE  connected' = TRUE /\ flagged' = FALSE
BY Zenon DEF HandleDisconnect

LEMMA InitType == Init => TypeOK
<1> SUFFICES ASSUME Init PROVE TypeOK
  OBVIOUS
<1>1. 0 \in 0..Forever /\ 0 \in 0..Buffer
  BY Limits, KeepAliveAssumption
<1> QED  BY <1>1 DEF Init, TypeOK, NoPing, NotBusy

LEMMA NextType == TypeOK /\ [Next]_vars => TypeOK'
<1> SUFFICES ASSUME TypeOK, [Next]_vars PROVE TypeOK'
  OBVIOUS
<1> USE DEF clientVars, netVars, serverVars
<1>1. /\ connected \in BOOLEAN /\ flagged \in BOOLEAN /\ alive \in BOOLEAN
      /\ starved \in BOOLEAN /\ pongDue \in BOOLEAN
      /\ used \in 0..Buffer /\ oldest \in 0..Forever
      /\ sincePing \in {-1} \cup 0..Forever /\ sinceSent \in {-1} \cup 0..Forever
      /\ sinceClient \in 0..Forever /\ sinceServer \in 0..Forever
      /\ sinceHeard \in 0..Forever /\ sinceDead \in 0..Forever
  BY DEF TypeOK, NoPing, NotBusy
<1>2. 0 \in 0..Forever /\ 0 \in 0..Buffer /\ Buffer \in Nat
  BY Limits, KeepAliveAssumption
<1>3. CASE Publish
  BY <1>1, <1>2, <1>3 DEF Publish, Send, Room, TypeOK, NoPing, NotBusy
<1>4. CASE Receive
  BY <1>1, <1>2, <1>4 DEF Receive, Acknowledged, TypeOK, NoPing, NotBusy
<1>5. CASE FallSilent
  BY <1>1, <1>5 DEF FallSilent, TypeOK
<1>6. CASE Poll
  <2>1. /\ sinceServer' \in 0..Forever /\ oldest' \in 0..Forever
        /\ sinceHeard' \in 0..Forever /\ sinceDead' \in 0..Forever
        /\ alive' \in BOOLEAN /\ starved' \in BOOLEAN
    BY <1>1, <1>2, <1>6, LaterType DEF Poll
  <2>2. /\ connected' \in BOOLEAN /\ flagged' \in BOOLEAN /\ pongDue' \in BOOLEAN
        /\ used' \in 0..Buffer
        /\ sincePing' \in {-1} \cup 0..Forever /\ sinceSent' \in {-1} \cup 0..Forever
        /\ sinceClient' \in 0..Forever
    <3>1. CASE PollTimeout
      BY <1>1, <3>1, LaterType, WaitingType DEF PollTimeout, NotBusy
    <3>2. CASE PollPing
      BY <1>1, <1>2, <3>2 DEF PollPing, Send, Room, HandleDisconnect
    <3>3. CASE PollIdle
      BY <1>1, <3>3, LaterType, WaitingType DEF PollIdle, HandleDisconnect
    <3>4. CASE PollGiveUp
      <4>1. sincePing \in 0..Forever
        BY <1>1, <3>4 DEF PollGiveUp, PingTimedOut, NoPing
      <4> QED  BY <1>1, <1>2, <3>4, <4>1, LaterType DEF PollGiveUp, Room
    <3> QED  BY <1>6, <3>1, <3>2, <3>3, <3>4 DEF Poll
  <2> QED  BY <2>1, <2>2 DEF TypeOK, NoPing, NotBusy
<1>7. CASE UNCHANGED vars
  BY <1>7 DEF vars, TypeOK
<1> QED  BY <1>3, <1>4, <1>5, <1>6, <1>7 DEF Next

\* Clocks and buffer stay within their bounds: add() is never called without
\* room.
THEOREM KeepAliveTypeCorrect == Spec => []TypeOK
BY InitType, NextType, PTL DEF Spec

-----------------------------------------------------------------------------
(* A living server.                                                         *)

LEMMA InitLiving == Init => Living
BY Limits DEF Init, Living, NoPing, NotBusy

LEMMA NextLiving == TypeOK /\ Living /\ [Next]_vars => Living'
<1> SUFFICES ASSUME TypeOK, Living, [Next]_vars PROVE Living'
  OBVIOUS
<1> USE DEF clientVars, netVars, serverVars
<1>1. /\ used \in 0..Buffer /\ oldest \in 0..Forever /\ alive \in BOOLEAN
      /\ sincePing \in {-1} \cup 0..Forever /\ sinceSent \in {-1} \cup 0..Forever
      /\ sinceClient \in 0..Forever /\ sinceServer \in 0..Forever
      /\ sinceHeard \in 0..Forever /\ sinceDead \in 0..Forever
  BY DEF TypeOK, NoPing, NotBusy
<1>2. CASE alive' # TRUE
  BY <1>2 DEF Living
<1>3. CASE Publish
  BY <1>1, <1>3, Limits, KeepAliveAssumption DEF Publish, Send, Living
<1>4. CASE Receive
  BY <1>1, <1>4, Limits DEF Receive, Acknowledged, Living, NoPing, NotBusy
<1>5. CASE Poll /\ alive = TRUE
  <2>1. /\ connected = TRUE /\ flagged = FALSE /\ (used = 0 \/ oldest < MaxDelay)
        /\ sinceDead' = 0 /\ alive' = TRUE
        /\ sinceHeard' = Later(sinceHeard)
        /\ oldest' = IF used > 0 THEN Later(oldest) ELSE 0
    BY <1>5 DEF Poll, InTime, Living
  <2>2. /\ oldest <= MaxDelay
        /\ sinceHeard <= PingAfter + oldest
        /\ used > 0 => oldest < MaxDelay
    BY <1>1, <1>5, <2>1, Limits, KeepAliveAssumption DEF Living
  <2>3. ~PingTimedOut
    <3>1. CASE sincePing = NoPing
      BY <3>1 DEF PingTimedOut
    <3>2. CASE sincePing # NoPing
      <4>1. sincePing \in 0..Forever /\ sincePing < MaxDelay
        BY <1>1, <1>5, <2>2, <3>2, KeepAliveAssumption DEF Living, NoPing
      <4>2. Later(sincePing) <= MaxDelay
        BY <4>1, LaterType, KeepAliveAssumption
      <4> QED  BY <4>1, <4>2, Limits, LaterType, KeepAliveAssumption DEF PingTimedOut
    <3> QED  BY <3>1, <3>2
  <2>4. /\ used > 0 => oldest' <= MaxDelay /\ oldest' = oldest + 1
        /\ sinceHeard' <= sinceHeard + 1 /\ sinceHeard' \in 0..Forever
        /\ oldest' \in 0..Forever
    <3>1. MaxDelay <= Forever /\ MaxDelay \in Nat
      BY Limits, KeepAliveAssumption
    <3>2. sinceHeard' <= sinceHeard + 1 /\ sinceHeard' \in 0..Forever
      BY <1>1, <2>1, LaterType
    <3>3. oldest' \in 0..Forever
      BY <1>1, <2>1, Limits, LaterType
    <3>4. ASSUME used > 0 PROVE oldest' <= MaxDelay /\ oldest' = oldest + 1
      <4>1. oldest' = Later(oldest) /\ oldest < MaxDelay
        BY <2>1, <2>2, <3>4
      <4>2. Forever \in Nat /\ oldest \in Nat /\ oldest < Forever
        BY <1>1, <3>1, <4>1, Limits
      <4> QED  BY <3>1, <4>1, <4>2 DEF Later
    <3> QED  BY <3>2, <3>3, <3>4
  \* Nothing under way: a poll without a PINGREQ leaves PingAfter ahead.
  <2>5. CASE PollPing
    <3>1. /\ connected' = TRUE /\ flagged' = FALSE /\ used' = used + 1
          /\ pongDue' = TRUE /\ sincePing' = 0
      BY <2>1, <2>5, NotFlagged DEF PollPing, Send
    <3>2. sinceHeard' <= PingAfter + oldest' /\ oldest' <= MaxDelay
      <4>1. CASE used > 0
        BY <1>1, <2>2, <2>4, <4>1, Limits
      <4>2. CASE used = 0
        BY <1>1, <1>5, <2>1, <2>4, <4>2, Limits, KeepAliveAssumption DEF Living
      <4> QED  BY <1>1, <4>1, <4>2
    <3> QED  BY <1>1, <2>1, <2>4, <3>1, <3>2 DEF Living
  <2>6. CASE PollTimeout \/ PollIdle
    <3>1. /\ connected' = TRUE /\ flagged' = FALSE /\ used' = used /\ pongDue' = pongDue
          /\ sincePing' = Waiting(sincePing) /\ sinceClient' = Later(sinceClient)
          /\ sinceSent' = NotBusy \/ sinceSent' = Waiting(sinceSent)
      <4>1. CASE PollTimeout
        BY <2>1, <4>1 DEF PollTimeout
      <4>2. CASE PollIdle
        BY <2>1, <4>2, NotFlagged DEF PollIdle
      <4> QED  BY <2>6, <4>1, <4>2
    <3>2. CASE used > 0
      <4>1. sinceHeard' <= PingAfter + oldest' /\ oldest' <= MaxDelay
        BY <1>1, <2>2, <2>4, <3>2, Limits
      <4>2. sincePing' # NoPing => pongDue' = TRUE /\ sincePing' <= oldest'
        <5>1. CASE sincePing = NoPing
          BY <3>1, <5>1 DEF Waiting, NoPing
        <5>2. CASE sincePing # NoPing
          <6>1. sincePing \in 0..Forever /\ sincePing <= oldest /\ pongDue = TRUE
            BY <1>1, <1>5, <5>2 DEF Living, NoPing
          <6>2. sincePing' = Later(sincePing)
            BY <3>1, <5>2 DEF Waiting, NoPing
          <6> QED  BY <1>1, <2>4, <3>1, <3>2, <6>1, <6>2, LaterType
        <5> QED  BY <5>1, <5>2
      <4> QED  BY <1>1, <2>1, <3>1, <3>2, <4>1, <4>2 DEF Living
    <3>3. CASE used = 0
      <4>1. /\ sinceSent = NotBusy /\ sincePing = NoPing
            /\ sinceHeard <= sinceClient /\ sinceHeard < PingAfter
        BY <1>5, <3>3 DEF Living
      <4>2. ~AckTimedOut /\ Room
        BY <3>3, <4>1, KeepAliveAssumption DEF AckTimedOut, Room
      <4>3. PollIdle /\ ~PingWanted
        BY <2>6, <4>2 DEF PollTimeout, PollIdle
      <4>4. Later(sinceClient) < PingAfter
        BY <1>1, <4>1, <4>3, Limits, LaterType DEF PingWanted
      <4>5. sinceHeard' <= sinceClient'
        BY <1>1, <2>1, <3>1, <4>1, Limits DEF Later
      <4>6. sinceSent' = NotBusy /\ sincePing' = NoPing
        BY <3>1, <4>1 DEF Waiting, NotBusy, NoPing
      <4>7. sinceHeard' < PingAfter
        BY <1>1, <2>4, <3>1, <4>4, <4>5, Limits, LaterType
      <4> QED  BY <2>1, <3>1, <3>3, <4>5, <4>6, <4>7 DEF Living
    <3> QED  BY <1>1, <3>2, <3>3
  <2>7. ~PollGiveUp
    BY <2>3 DEF PollGiveUp
  <2> QED  BY <1>5, <2>5, <2>6, <2>7 DEF Poll
<1>6. CASE UNCHANGED vars
  BY <1>6 DEF vars, Living
<1> QED  BY <1>1, <1>2, <1>3, <1>4, <1>5, <1>6 DEF Next, Poll, FallSilent

LEMMA LivingAlways == Spec => [](TypeOK /\ Living)
<1>1. Init => TypeOK /\ Living
  BY InitType, InitLiving
<1>2. TypeOK /\ Living /\ [Next]_vars => (TypeOK /\ Living)'
  BY NextType, NextLiving
<1> QED  BY <1>1, <1>2, PTL DEF Spec

\* _onPoll (lines 446-449) never gives up on a server that answers within a
\* keep-alive: the PINGREQ whose answer it awaits is younger than that.
THEOREM LivingKept == Spec => []NeverGivesUpOnLiving
<1>1. Living => NeverGivesUpOnLiving
  BY DEF Living, NeverGivesUpOnLiving
<1> QED  BY <1>1, LivingAlways, PTL

\* "Ensure the server will receive at least one message inside keepalive
\* window" (lines 450-457) holds, for a server of 1.5 keep-alives' patience, unless
\* a packet is under way for longer than the factor 0.7 leaves of that.
THEOREM ServerHears == Spec => []ServerHearsInTime
<1>1. TypeOK /\ Living => ServerHearsInTime
  <2> SUFFICES ASSUME TypeOK, Living, connected, alive, PingAfter + oldest < ServerPatience
               PROVE  sinceHeard < ServerPatience
    BY DEF ServerHearsInTime
  <2>1. /\ used \in Nat /\ oldest \in Nat /\ sinceHeard \in Nat
        /\ PingAfter \in Nat /\ ServerPatience \in Nat
    BY Limits, KeepAliveAssumption DEF TypeOK, ServerPatience
  <2>2. sinceHeard <= PingAfter + oldest
    BY <2>1 DEF Living
  <2> QED  BY <2>1, <2>2
<1> QED  BY <1>1, LivingAlways, PTL

-----------------------------------------------------------------------------
(* A silent server.                                                         *)

\* A publish, or a poll that reported a timeout, starts the acknowledgement
\* clock again.
LEMMA NotTimedOutAgain ==
  ASSUME AckTimeout > 1, sinceSent' \in {0, NotBusy}
  PROVE  ~AckTimedOut'
<1>1. Later(0) = 1
  BY Limits, KeepAliveAssumption DEF Later
<1> QED  BY <1>1, KeepAliveAssumption DEF AckTimedOut, NotBusy

LEMMA NextSilent ==
  ASSUME AckTimeout > 1, TypeOK, Living, Silent, [Next]_vars
  PROVE  Silent'
<1> USE DEF clientVars, netVars, serverVars
<1>1. /\ used \in 0..Buffer /\ oldest \in 0..Forever
      /\ alive \in BOOLEAN /\ starved \in BOOLEAN
      /\ sincePing \in {-1} \cup 0..Forever /\ sinceSent \in {-1} \cup 0..Forever
      /\ sinceClient \in 0..Forever /\ sinceServer \in 0..Forever
      /\ sinceDead \in 0..Forever
  BY DEF TypeOK, NoPing, NotBusy
<1>2. CASE ~(connected' = TRUE /\ alive' = FALSE /\ starved' = FALSE)
  BY <1>2 DEF Silent
<1>3. CASE FallSilent
  <2>1. alive = TRUE
    BY <1>1, <1>3 DEF FallSilent
  <2>2. flagged = FALSE /\ sinceDead = 0 /\ sinceDead <= sinceServer
    BY <1>1, <2>1 DEF Living
  <2>3. sincePing # NoPing => sincePing \in 0..Forever /\ sincePing < GiveUpAfter
    <3>1. oldest <= MaxDelay
      BY <1>1, <2>1, KeepAliveAssumption DEF Living
    <3> QED  BY <1>1, <2>1, <3>1, Limits, KeepAliveAssumption DEF Living, NoPing
  <2> QED  BY <1>3, <2>2, <2>3, Limits DEF FallSilent, Silent, NoPing
<1>4. CASE Publish /\ alive = FALSE /\ starved = FALSE
  <2>1. ~AckTimedOut'
    BY <1>4, NotTimedOutAgain DEF Publish, Send
  <2>2. UNCHANGED <<flagged, sinceServer, sincePing, sinceDead>>
    BY <1>4 DEF Publish
  <2>3. connected = TRUE
    BY <1>4 DEF Publish, TypeOK
  <2> QED  BY <1>4, <2>1, <2>2, <2>3 DEF Silent
<1>5. CASE Poll /\ alive = FALSE /\ starved' = FALSE /\ connected' = TRUE
  <2>1. /\ connected = TRUE /\ Room /\ starved = FALSE
        /\ sinceServer' = Later(sinceServer) /\ sinceDead' = Later(sinceDead)
        /\ PollTimeout \/ PollPing \/ PollIdle \/ PollGiveUp
    <3>1. starved' = (starved \/ (~alive /\ ~Room))
      BY <1>5 DEF Poll
    <3>2. starved = FALSE /\ Room
      BY <1>1, <1>5, <3>1
    <3> QED  BY <1>5, <3>2 DEF Poll, TypeOK
  <2>2. /\ flagged = FALSE /\ sinceDead <= sinceServer
        /\ sincePing = NoPing => sinceDead < PingAfter \/ (sinceDead = PingAfter /\ ~AckTimedOut)
        /\ sincePing # NoPing =>
             /\ sinceDead <= PingAfter + 1 + sincePing
             /\ sincePing < GiveUpAfter \/ (sincePing = GiveUpAfter /\ ~AckTimedOut)
    BY <1>5, <2>1 DEF Silent
  <2>3. sinceDead' = sinceDead + 1
    BY <1>1, <2>1, <2>2, Limits, LaterType, KeepAliveAssumption DEF NoPing
  <2>4. sinceDead' <= sinceServer'
    BY <1>1, <2>1, <2>2, Limits DEF Later
  <2>5. sincePing # NoPing => Later(sincePing) = sincePing + 1 /\ Waiting(sincePing) = Later(sincePing)
    BY <1>1, <2>2, Limits, KeepAliveAssumption DEF Later, Waiting, NoPing
  <2>6. CASE PollTimeout
    <3>1. AckTimedOut /\ sincePing' = Waiting(sincePing) /\ flagged' = flagged /\ ~AckTimedOut'
      BY <2>6, NotTimedOutAgain DEF PollTimeout
    <3>2. CASE sincePing = NoPing
      <4>1. sincePing' = NoPing
        BY <3>1, <3>2 DEF Waiting, NoPing
      <4>2. sinceDead' < PingAfter \/ sinceDead' = PingAfter
        BY <1>1, <2>2, <2>3, <3>1, <3>2, Limits
      <4> QED  BY <2>2, <2>4, <3>1, <4>1, <4>2 DEF Silent
    <3>3. CASE sincePing # NoPing
      <4>1. sincePing' = sincePing + 1 /\ sincePing \in 0..Forever /\ sincePing < GiveUpAfter
        BY <1>1, <2>2, <2>5, <3>1, <3>3 DEF NoPing
      <4>2. sincePing' < GiveUpAfter \/ sincePing' = GiveUpAfter
        BY <4>1, Limits
      <4>3. sinceDead' <= PingAfter + 1 + sincePing' /\ sincePing' # NoPing
        BY <1>1, <2>2, <2>3, <3>3, <4>1, Limits DEF NoPing
      <4> QED  BY <2>2, <2>4, <3>1, <4>2, <4>3 DEF Silent
    <3> QED  BY <3>2, <3>3
  <2>7. CASE PollPing
    <3>1. /\ sincePing = NoPing /\ sincePing' = 0 /\ flagged' = FALSE
      BY <2>2, <2>7, NotFlagged DEF PollPing, PingWanted
    <3>2. sinceDead' <= PingAfter + 1 /\ 0 < GiveUpAfter
      BY <1>1, <2>2, <2>3, <3>1, Limits, KeepAliveAssumption
    <3> QED  BY <1>1, <2>3, <2>4, <3>1, <3>2, Limits DEF Silent, NoPing
  <2>8. CASE PollIdle
    <3>1. /\ ~PingTimedOut /\ ~PingWanted /\ sincePing' = Waiting(sincePing) /\ flagged' = FALSE
      BY <2>1, <2>2, <2>8, NotFlagged DEF PollIdle
    <3>2. CASE sincePing = NoPing
      <4>1. sincePing' = NoPing
        BY <3>1, <3>2 DEF Waiting, NoPing
      <4>2. sinceServer' < PingAfter
        BY <1>1, <2>1, <3>1, <3>2, Limits, LaterType DEF PingWanted
      <4>3. sinceDead' < PingAfter
        BY <1>1, <2>1, <2>3, <2>4, <4>2, Limits, LaterType
      <4> QED  BY <2>4, <3>1, <4>1, <4>3 DEF Silent
    <3>3. CASE sincePing # NoPing
      <4>1. sincePing' = sincePing + 1 /\ sincePing \in 0..Forever
        BY <1>1, <2>5, <3>1, <3>3 DEF NoPing
      <4>2. sincePing' < GiveUpAfter
        BY <2>5, <3>1, <3>3, <4>1, Limits DEF PingTimedOut
      <4>3. sinceDead' <= PingAfter + 1 + sincePing' /\ sincePing' # NoPing
        BY <1>1, <2>2, <2>3, <3>3, <4>1, Limits DEF NoPing
      <4> QED  BY <2>4, <3>1, <4>2, <4>3 DEF Silent
    <3> QED  BY <3>2, <3>3
  <2>9. ~PollGiveUp
    BY <1>5, <2>1 DEF PollGiveUp
  <2> QED  BY <2>1, <2>6, <2>7, <2>8, <2>9
<1>6. CASE UNCHANGED vars
  <2>1. AckTimedOut' = AckTimedOut
    BY <1>6 DEF vars, AckTimedOut, Later
  <2> QED  BY <1>6, <2>1 DEF vars, Silent
<1>7. CASE Receive \/ (Publish /\ ~(alive = FALSE /\ starved = FALSE))
  <2>1. ~(alive' = FALSE /\ starved' = FALSE)
    BY <1>1, <1>7 DEF Receive, Publish
  <2> QED  BY <1>2, <2>1
<1>8. CASE Poll /\ alive # FALSE
  BY <1>2, <1>8 DEF Poll
<1> QED
  BY <1>2, <1>3, <1>4, <1>5, <1>6, <1>7, <1>8 DEF Next

\* Lines 446-457 with AsyncTCP's _poll: a connection whose server has gone is
\* closed within 2.7 keep-alives and a poll, if there is always room and
\* two polls in succession cannot both report an acknowledgement timeout.
THEOREM HalfOpenClosed ==
  ASSUME AckTimeout > 1
  PROVE  Spec => []HalfOpenClosedGivenRoom
<1> DEFINE Inv == TypeOK /\ Living /\ Silent
<1>1. Init => Inv
  <2>1. Init => Silent
    BY DEF Init, Silent
  <2> QED  BY <2>1, InitType, InitLiving
<1>2. Inv /\ [Next]_vars => Inv'
  BY NextType, NextLiving, NextSilent
<1>3. Inv => HalfOpenClosedGivenRoom
  <2> SUFFICES ASSUME TypeOK, Living, Silent, ~starved, connected,
                      sinceDead > PingAfter + GiveUpAfter + 1
               PROVE  FALSE
    BY DEF HalfOpenClosedGivenRoom
  <2>1. /\ connected = TRUE /\ starved = FALSE /\ (alive = TRUE \/ alive = FALSE)
        /\ sinceDead \in Nat /\ (sincePing = NoPing \/ sincePing \in Nat)
    BY Limits DEF TypeOK
  <2>2. alive = FALSE
    BY <2>1, Limits, KeepAliveAssumption DEF Living
  <2>3. sinceDead <= PingAfter + 1 + GiveUpAfter
    BY <2>1, <2>2, Limits DEF Silent, NoPing
  <2> QED  BY <2>1, <2>3, Limits, KeepAliveAssumption
<1> QED  BY <1>1, <1>2, <1>3, PTL DEF Spec
=============================================================================
