----------------------------- MODULE UsrpBridge -----------------------------
(***************************************************************************)
(* AsteriskUsrpBridge (src/asterisk-usrp.js): the bounded queue of voice   *)
(* packets for chan_usrp, the pump that paces them (and sends silence      *)
(* while the transmission is active), the unkey packet, and the socket     *)
(* that is closed and bound again when it fails.                           *)
(*                                                                         *)
(* Time is a counter.  The pump is a chain of setImmediate callbacks that  *)
(* polls the clock; the loop may stall, so time may pass while it is due.  *)
(* Definitions named Bad... are not the code: each has one mistake in it,  *)
(* which a property below must notice.                                     *)
(***************************************************************************)
EXTENDS Integers, Sequences

CONSTANTS
    AutoReconnect,      \* config.asterisk.usrp.autoReconnect !== false
    PacketMs,           \* config.asterisk.packetMs
    MaxQueue,           \* config.asterisk.rtpMaxQueuePackets
    Chunks,             \* voice packets in a PCM frame given to sendPcm()
    StartMayFail,       \* the first bind may be refused
    Frames,             \* bound: voice packets queued in a behaviour
    MaxTime             \* bound: the last instant considered

ASSUME UsrpSwitches == AutoReconnect \in BOOLEAN /\ StartMayFail \in BOOLEAN
ASSUME UsrpSizes ==
    /\ PacketMs \in Nat \ {0} /\ MaxQueue \in Nat /\ Chunks \subseteq Nat
    /\ Frames \in Nat /\ MaxTime \in Nat

VARIABLES
    running,
    crashed,            \* an exception nobody catches has ended the process
    socket,             \* "none", "new", "binding" or "bound"
    restartingSocket,
    restartDelay,       \* restartSocket() is in its delay
    inFlight,           \* a send() callback is still to come
    txQueue,
    txActive,
    txTimer,            \* the pump's next callback is scheduled
    nextTxAt,
    now,
    queued,             \* voice packets queued so far; a packet is its number
    sent,               \* the voice packets given to a socket, in that order
    peerKeyed,          \* the last packet given to a socket had keyup set
    unkeyLost,          \* that packet should have been followed by an unkey
    burst,              \* packets sent since the pump was started ...
    burstFrom,          \* ... which was then
    atOnce              \* packets sent at this instant by this pump

socketVars == <<running, crashed, socket, restartingSocket, restartDelay>>
txVars == <<txQueue, txActive, txTimer, nextTxAt>>
peerVars == <<sent, peerKeyed, unkeyLost, inFlight>>
rateVars == <<burst, burstFrom, atOnce>>
vars == <<socketVars, txVars, now, queued, peerVars, rateVars>>

-----------------------------------------------------------------------------

\* The constructor creates the socket; start() binds it.
Init ==
    /\ running = FALSE /\ crashed = FALSE
    /\ socket = "new"
    /\ restartingSocket = FALSE /\ restartDelay = FALSE
    /\ inFlight = FALSE
    /\ txQueue = <<>> /\ txActive = FALSE /\ txTimer = FALSE
    /\ nextTxAt = 0 /\ now = 0 /\ queued = 0
    /\ sent = <<>> /\ peerKeyed = FALSE /\ unkeyLost = FALSE
    /\ burst = 0 /\ burstFrom = 0 /\ atOnce = 0

Start ==
    /\ ~running /\ socket = "new"
    /\ running' = TRUE
    /\ socket' = "binding"
    /\ UNCHANGED <<crashed, restartingSocket, restartDelay, txVars, now, queued,
                   peerVars, rateVars>>

\* restartSocket() up to its delay: one restart at a time.
RestartSocket ==
    IF restartingSocket
      THEN UNCHANGED <<socket, restartingSocket, restartDelay>>
      ELSE /\ restartingSocket' = TRUE
           /\ restartDelay' = TRUE
           /\ socket' = "none"

\* 'listening': bindSocket() resolves, and a restart is over with it.
Bound ==
    /\ socket = "binding"
    /\ socket' = "bound"
    /\ restartingSocket' = FALSE
    /\ UNCHANGED <<running, crashed, restartDelay, txVars, now, queued,
                   peerVars, rateVars>>

\* start() is waiting for its bind; main() does nothing else until then.
Starting == socket = "binding" /\ ~restartingSocket

\* 'error' while binding in start().  handleSocketError() runs first and
\* begins a restart, which clears this.socket; onError() then dereferences it.
\* Without autoReconnect the rejection makes main() exit.
StartBindFails ==
    /\ StartMayFail
    /\ Starting
    /\ crashed' = TRUE
    /\ IF AutoReconnect THEN RestartSocket
       ELSE UNCHANGED <<socket, restartingSocket, restartDelay>>
    /\ UNCHANGED <<running, txVars, now, queued, peerVars, rateVars>>

BadRestartBindFails ==
    /\ socket = "binding" /\ restartingSocket
    /\ socket' = "none"
    /\ UNCHANGED <<running, crashed, restartingSocket, restartDelay, txVars, now,
                   queued, peerVars, rateVars>>

\* 'error' while binding in a restart: the restart ends and another begins.
RestartBindFails ==
    /\ socket = "binding" /\ restartingSocket
    /\ socket' = "none"
    /\ restartDelay' = TRUE
    /\ UNCHANGED <<running, crashed, restartingSocket, txVars, now, queued,
                   peerVars, rateVars>>

\* 'error' of a bound socket: handleSocketError().
SocketError ==
    /\ socket = "bound"
    /\ IF running /\ AutoReconnect THEN RestartSocket
       ELSE UNCHANGED <<socket, restartingSocket, restartDelay>>
    /\ UNCHANGED <<running, crashed, txVars, now, queued, peerVars, rateVars>>

\* The callback of a send(); an error restarts the socket, whichever it is now.
\* (A send() that throws is one whose callback comes at once, with an error.)
SendDone(failed) ==
    /\ inFlight
    /\ inFlight' = FALSE
    /\ IF failed /\ running /\ AutoReconnect THEN RestartSocket
       ELSE UNCHANGED <<socket, restartingSocket, restartDelay>>
    /\ UNCHANGED <<running, crashed, txVars, now, queued, sent, peerKeyed,
                   unkeyLost, rateVars>>

\* The restart's delay is over.  A close() has failed the pending sends by then.
RestartDelayOver ==
    /\ restartDelay /\ ~inFlight
    /\ restartDelay' = FALSE
    /\ IF running
         THEN socket' = "binding" /\ UNCHANGED restartingSocket
         ELSE restartingSocket' = FALSE /\ UNCHANGED socket
    /\ UNCHANGED <<running, crashed, txVars, now, queued, peerVars, rateVars>>

-----------------------------------------------------------------------------
SuffixFrom(s, n) == SubSeq(s, n + 1, Len(s))

BadDropExcess(s) == IF Len(s) <= MaxQueue THEN s ELSE SubSeq(s, 1, MaxQueue)

\* dropExcessQueuedAudio(): the oldest packets go.
DropExcess(s) == IF Len(s) <= MaxQueue THEN s ELSE SuffixFrom(s, Len(s) - MaxQueue)

\* sendPacket(): silently skipped while there is no socket.
SendPacket(payload, keyup) ==
    IF socket = "none"
      THEN /\ unkeyLost' = (unkeyLost \/ (~keyup /\ peerKeyed))
           /\ UNCHANGED <<sent, peerKeyed, inFlight>>
      ELSE /\ sent' = sent \o payload
           /\ peerKeyed' = keyup
           /\ inFlight' = TRUE
           /\ unkeyLost' = FALSE

BadStartTxPump ==
    IF txTimer \/ txActive'
      THEN UNCHANGED <<txTimer, nextTxAt, rateVars>>
      ELSE /\ txTimer' = TRUE
           /\ nextTxAt' = now
           /\ burst' = 0 /\ burstFrom' = now /\ atOnce' = 0

\* startTxPump(): at once, unless the pump is going already.
StartTxPump ==
    IF txTimer
      THEN UNCHANGED <<txTimer, nextTxAt, rateVars>>
      ELSE /\ txTimer' = TRUE
           /\ nextTxAt' = now
           /\ burst' = 0 /\ burstFrom' = now /\ atOnce' = 0

\* sendPcm() with n whole voice packets in its frame (none if it is short).
SendPcm(n) ==
    /\ running /\ ~Starting
    /\ queued + n <= Frames
    /\ queued' = queued + n
    /\ txQueue' = DropExcess(txQueue \o [i \in 1 .. n |-> queued + i])
    /\ txActive' = TRUE
    /\ StartTxPump
    /\ UNCHANGED <<socketVars, now, peerVars>>

BadSendUnkey ==
    /\ running /\ ~Starting
    /\ txActive' = FALSE
    /\ SendPacket(<<>>, FALSE)
    /\ UNCHANGED <<socketVars, txQueue, txTimer, nextTxAt, now, queued, rateVars>>

\* sendUnkey(): what is still queued is thrown away.
SendUnkey ==
    /\ running /\ ~Starting
    /\ txActive' = FALSE
    /\ txQueue' = <<>>
    /\ SendPacket(<<>>, FALSE)
    /\ UNCHANGED <<socketVars, txTimer, nextTxAt, now, queued, rateVars>>

\* The pump finds nothing to send: it ends.
PumpEnds ==
    /\ txTimer
    /\ txQueue = <<>> /\ ~txActive
    /\ txTimer' = FALSE
    /\ UNCHANGED <<socketVars, txQueue, txActive, nextTxAt, now, queued,
                   peerVars, rateVars>>

BadNextSlot == nextTxAt + PacketMs

\* The slot after this one; a pump that is too late starts afresh.
NextSlot == IF nextTxAt + PacketMs < now - PacketMs THEN now + PacketMs
            ELSE nextTxAt + PacketMs

\* (A tolerance of a quarter of a millisecond is below the model's clock.)
Due == now >= nextTxAt

BadShifted(s) == s

\* txQueue.shift().
Shifted(s) == IF s = <<>> THEN <<>> ELSE Tail(s)

\* The pump is due: the head of the queue, or silence, goes out.  (A callback
\* that finds it is too early only schedules itself again.)
PumpSends ==
    /\ txTimer
    /\ txQueue # <<>> \/ txActive
    /\ Due
    /\ LET queue == DropExcess(txQueue)
       IN /\ txQueue' = Shifted(queue)
          /\ SendPacket(IF queue = <<>> THEN <<>> ELSE <<Head(queue)>>, TRUE)
    /\ nextTxAt' = NextSlot
    /\ txTimer' = (txQueue' # <<>> \/ txActive)
    /\ burst' = burst + 1
    /\ atOnce' = atOnce + 1
    /\ UNCHANGED <<socketVars, txActive, now, queued, burstFrom>>

\* stop().
Stop ==
    /\ running
    /\ running' = FALSE
    /\ txTimer' = FALSE
    /\ socket' = "none"
    /\ UNCHANGED <<crashed, restartingSocket, restartDelay, txQueue, txActive,
                   nextTxAt, now, queued, peerVars, rateVars>>

\* Time goes on, whether or not the event loop keeps up.
Tick ==
    /\ now < MaxTime
    /\ now' = now + 1
    /\ atOnce' = 0
    /\ UNCHANGED <<socketVars, txVars, queued, peerVars, burst, burstFrom>>

SocketStep ==
    \/ Start \/ Bound \/ StartBindFails \/ RestartBindFails \/ SocketError
    \/ RestartDelayOver \/ Stop \/ \E failed \in BOOLEAN : SendDone(failed)

PumpStep == PumpEnds \/ PumpSends

Next ==
    /\ ~crashed
    /\ \/ SocketStep \/ PumpStep \/ Tick \/ SendUnkey
       \/ \E n \in Chunks : SendPcm(n)

Spec == Init /\ [][Next]_vars

\* The loop delivers what is pending; a refused bind is not refused for ever.
FairSpec ==
    /\ Spec
    /\ WF_vars(~crashed /\ RestartDelayOver)
    /\ WF_vars(~crashed /\ \E failed \in BOOLEAN : SendDone(failed))
    /\ SF_vars(~crashed /\ Bound)

-----------------------------------------------------------------------------
TypeOK ==
    /\ running \in BOOLEAN /\ crashed \in BOOLEAN
    /\ socket \in {"none", "new", "binding", "bound"}
    /\ restartingSocket \in BOOLEAN /\ restartDelay \in BOOLEAN
    /\ inFlight \in BOOLEAN
    /\ txQueue \in Seq(1 .. Frames)
    /\ txActive \in BOOLEAN /\ txTimer \in BOOLEAN
    /\ nextTxAt \in 0 .. MaxTime + PacketMs /\ now \in 0 .. MaxTime /\ queued \in 0 .. Frames
    /\ sent \in Seq(1 .. Frames)
    /\ peerKeyed \in BOOLEAN /\ unkeyLost \in BOOLEAN
    /\ burst \in Nat /\ burstFrom \in 0 .. MaxTime /\ atOnce \in Nat

Ascending(s) == \A i, j \in 1 .. Len(s) : i < j => s[i] < s[j]

\* Voice leaves in the order it came, each packet at most once, and what is
\* queued is later than all that has been sent: only whole runs are lost.
InOrder == Ascending(sent \o txQueue)

\* The queue never holds more than its limit, and what it holds is the newest.
NewestKept ==
    /\ Len(txQueue) <= MaxQueue
    /\ txQueue # <<>> => txQueue[Len(txQueue)] = queued

\* The pump never stalls: while there is something to send it is scheduled.
PumpNeverStalls == running /\ (txQueue # <<>> \/ txActive) => txTimer

\* Asterisk is keyed only while the transmission is active: no keyed packet
\* follows an unkey until the next sendPcm(), unless that unkey met no socket.
KeyedOnlyWhileActive == peerKeyed => txActive \/ unkeyLost

\* Over any run of the pump the packet rate is not exceeded, and a stalled
\* event loop catches up with at most three packets at once.
PacedOutput ==
    /\ txTimer => burst * PacketMs <= now - burstFrom + PacketMs
    /\ atOnce <= 3

\* A socket that fails while the bridge runs is bound again (if it can be).
SocketRecovers ==
    running /\ restartingSocket ~> socket = "bound" \/ ~running \/ crashed

\* With autoReconnect a bind that is refused does not end the process.
SurvivesBindFailure == ~crashed
=============================================================================
