---------------------------- MODULE SvxReflector ----------------------------
(***************************************************************************)
(* SvxReflectorClient (src/svxreflector.js): the TCP control connection    *)
(* and the UDP audio socket to an SvxReflector, the login handshake, the   *)
(* heartbeat interval and the reconnect timer with its backoff.            *)
(*                                                                         *)
(* Every action is one callback of the Node event loop (or one call from   *)
(* the rest of the bridge) run to completion together with the promise     *)
(* continuations it resolves.  Two facts of Node's sockets are used:       *)
(*   - destroy() makes 'close' fire exactly once, later but in the same    *)
(*     turn of the loop (so before any timer); `closing' counts the        *)
(*     'close' events still to come;                                       *)
(*   - destroy() on a socket that is still connecting fires neither        *)
(*     'connect' nor 'error', so a promise that waits for one of the two   *)
(*     is never settled.                                                   *)
(***************************************************************************)
EXTENDS Integers

CONSTANTS
    AutoReconnect,      \* config.reflector.autoReconnect !== false
    InitialMs,          \* config.reflector.reconnectInitialMs
    MaxMs,              \* config.reflector.reconnectMaxMs
    ClientIds,          \* the client ids a reflector hands out
    SeqMod,             \* 2^16 in the code: UDP sequence numbers are & 0xffff
    UdpFaultPhases      \* the states of the TCP socket in which the UDP
                        \* socket may report an error

TcpStates == {"none", "connecting", "open", "destroyed"}

\* "failed" is a socket whose bind was refused and that nobody closed.
UdpStates == {"none", "binding", "ready", "failed"}

FrameTypes == {"PROTO_VER", "AUTH_RESPONSE", "NODE_INFO", "SELECT_TG",
               "TG_MONITOR", "TX_STATUS", "HEARTBEAT"}

ASSUME AutoReconnectAssumption == AutoReconnect \in BOOLEAN
ASSUME BackoffAssumption == InitialMs \in Nat /\ MaxMs \in Nat
ASSUME ClientIdsAssumption == ClientIds \subseteq Nat \ {0}
ASSUME SeqModAssumption == SeqMod \in Nat \ {0}
ASSUME PhasesAssumption == UdpFaultPhases \subseteq TcpStates

VARIABLES
    started,            \* connect() has been called
    exited,             \* a failed first connect made main() exit
    stopping,
    connecting,
    connected,
    tcp,                \* this.tcp: null, or the state of that socket
    closing,            \* 'close' events of destroyed sockets still to fire
    udp,                \* this.udp with this.udpReady
    reconnectTimer,     \* this.reconnectTimer !== null
    reconnectDelayMs,
    heartbeatTimer,     \* this.heartbeatTimer !== null
    intervals,          \* heartbeat intervals alive in the event loop
    clientId,
    udpSequence,
    wire                \* types of the frames written to the current socket

timerVars == <<reconnectTimer, reconnectDelayMs>>
heartbeatVars == <<heartbeatTimer, intervals>>
socketVars == <<tcp, closing, udp>>
flagVars == <<started, exited, stopping>>

vars == <<started, exited, stopping, connecting, connected, tcp, closing, udp,
          reconnectTimer, reconnectDelayMs, heartbeatTimer, intervals,
          clientId, udpSequence, wire>>

-----------------------------------------------------------------------------

(***************************************************************************)
(* Definitions named Bad... are not the code: each is a definition of this *)
(* module with one mistake in it, which a property below must notice.      *)
(***************************************************************************)

TcpLive == tcp \in {"connecting", "open"}

BadShouldReconnectStopped == AutoReconnect
BadShouldReconnectAlways == ~stopping

ShouldReconnect == ~stopping /\ AutoReconnect

Init ==
    /\ started = FALSE
    /\ exited = FALSE
    /\ stopping = FALSE
    /\ connecting = FALSE
    /\ connected = FALSE
    /\ tcp = "none"
    /\ closing = 0
    /\ udp = "none"
    /\ reconnectTimer = FALSE
    /\ reconnectDelayMs = InitialMs
    /\ heartbeatTimer = FALSE
    /\ intervals = 0
    /\ clientId = 0
    /\ udpSequence = 0
    /\ wire = {}

BadNextReconnectDelay == reconnectDelayMs' = 2 * reconnectDelayMs

\* nextReconnectDelay(): the delay in force is used, then doubled.
NextReconnectDelay ==
    reconnectDelayMs' = IF 2 * reconnectDelayMs < MaxMs
                          THEN 2 * reconnectDelayMs ELSE MaxMs

BadScheduleReconnect ==
    IF ShouldReconnect /\ ~reconnectTimer /\ connected
      THEN reconnectTimer' = TRUE /\ NextReconnectDelay
      ELSE UNCHANGED timerVars

\* scheduleReconnect(reason) called without a delay of its own.
ScheduleReconnect ==
    IF ShouldReconnect /\ ~reconnectTimer
      THEN reconnectTimer' = TRUE /\ NextReconnectDelay
      ELSE UNCHANGED timerVars

\* clearInterval reaches only the interval whose handle was kept.
StopHeartbeat ==
    /\ heartbeatTimer' = FALSE
    /\ intervals' = intervals - (IF heartbeatTimer THEN 1 ELSE 0)

BadStartHeartbeat == heartbeatTimer' = TRUE /\ intervals' = intervals + 1

\* startHeartbeat() calls stopHeartbeat() before it sets the new interval.
StartHeartbeat ==
    /\ heartbeatTimer' = TRUE
    /\ intervals' = intervals - (IF heartbeatTimer THEN 1 ELSE 0) + 1

BadDestroyTcpForgotten == UNCHANGED <<tcp, closing>>

BadDestroyTcpOpenOnly ==
    /\ tcp' = IF tcp = "open" THEN "destroyed" ELSE tcp
    /\ closing' = IF tcp = "open" THEN closing + 1 ELSE closing

\* tcp?.destroy(): a second destroy() of the same socket does nothing.
DestroyTcp ==
    /\ tcp' = IF TcpLive THEN "destroyed" ELSE tcp
    /\ closing' = IF TcpLive THEN closing + 1 ELSE closing

BadSendFrames(types) ==
    wire' = IF TcpLive /\ connected THEN wire \cup types ELSE wire

\* sendFrame() drops a frame that finds no socket or a destroyed one.
SendFrames(types) ==
    wire' = IF TcpLive THEN wire \cup types ELSE wire

BadNextSequence == udpSequence' = udpSequence + 1

\* The 16-bit number of every datagram, & 0xffff in the code.
NextSequence == udpSequence' = (udpSequence + 1) % SeqMod

SendProtoVer == SendFrames({"PROTO_VER"})

SendAuthResponse == SendFrames({"AUTH_RESPONSE"})

\* sendNodeInfo(), sendSelectTalkgroup(), sendMonitorTalkgroups().
LoginFrames == {"NODE_INFO", "SELECT_TG", "TG_MONITOR"}

\* sendUdpHeartbeat() is numbered too, and only sent when logged in.
SendUdpHeartbeat == IF connected THEN NextSequence ELSE UNCHANGED udpSequence

\* connectTcp() up to its await: nothing at all while one is in progress.
ConnectTcp ==
    IF connecting
      THEN UNCHANGED <<connecting, connected, tcp, closing, heartbeatVars,
                       clientId, wire>>
      ELSE /\ connecting' = TRUE
           /\ connected' = FALSE
           /\ clientId' = 0
           /\ StopHeartbeat
           /\ closing' = IF TcpLive THEN closing + 1 ELSE closing
           /\ tcp' = "connecting"
           /\ wire' = {}

\* connect(), called once by main(): UDP first, TCP when it is bound.
Connect ==
    /\ ~started /\ ~stopping
    /\ started' = TRUE
    /\ udp' = "binding"
    /\ reconnectTimer' = FALSE
    /\ UNCHANGED <<exited, stopping, connecting, connected, tcp, closing,
                   reconnectDelayMs, heartbeatVars, clientId, udpSequence, wire>>

\* ensureUdpSocket() continues into connectTcp() once the socket is bound.
UdpBound ==
    /\ udp = "binding"
    /\ udp' = "ready"
    /\ ConnectTcp
    /\ UNCHANGED <<flagVars, timerVars, udpSequence>>

\* The reconnect timer's callback; it waits for a bind if UDP is down.
ReconnectTimerFires ==
    /\ reconnectTimer
    /\ closing = 0
    /\ reconnectTimer' = FALSE
    /\ \/ /\ udp = "ready"
          /\ ConnectTcp
          /\ UNCHANGED udp
       \/ /\ udp # "ready"
          /\ udp' = "binding"
          /\ UNCHANGED <<connecting, connected, tcp, closing, heartbeatVars,
                         clientId, wire>>
    /\ UNCHANGED <<flagVars, reconnectDelayMs, udpSequence>>

\* 'connect': the backoff is reset and the version goes out first.
TcpConnected ==
    /\ tcp = "connecting"
    /\ tcp' = "open"
    /\ connecting' = FALSE
    /\ reconnectDelayMs' = InitialMs
    /\ SendProtoVer
    /\ UNCHANGED <<flagVars, connected, closing, udp, reconnectTimer,
                   heartbeatVars, clientId, udpSequence>>

\* 'error' before 'connect'.  The catch block takes a delay even when a timer
\* is armed already; without reconnection the error reaches main(), which exits.
ConnectFails ==
    /\ tcp = "connecting"
    /\ tcp' = "destroyed"
    /\ closing' = closing + 1
    /\ connecting' = FALSE
    /\ IF ShouldReconnect
         THEN reconnectTimer' = TRUE /\ NextReconnectDelay /\ UNCHANGED exited
         ELSE exited' = TRUE /\ UNCHANGED timerVars
    /\ UNCHANGED <<started, stopping, connected, udp, heartbeatVars, clientId,
                   udpSequence, wire>>

\* The peer, or the network, ends an established connection.
TcpLost ==
    /\ tcp = "open"
    /\ DestroyTcp
    /\ UNCHANGED <<flagVars, connecting, connected, udp, timerVars,
                   heartbeatVars, clientId, udpSequence, wire>>

\* The 'close' handler, which acts on the client whichever socket it was.
CloseEvent ==
    /\ closing > 0
    /\ closing' = closing - 1
    /\ connected' = FALSE
    /\ StopHeartbeat
    /\ ScheduleReconnect
    /\ UNCHANGED <<flagVars, connecting, tcp, udp, clientId, udpSequence, wire>>

-----------------------------------------------------------------------------
\* handleUdpError().  Without reconnection it only reports the error, and a
\* bind that was refused is then never completed.
UdpError ==
    /\ udp \in {"binding", "ready"}
    /\ tcp \in UdpFaultPhases
    /\ IF ShouldReconnect
         THEN /\ connected' = FALSE
              /\ StopHeartbeat
              /\ DestroyTcp
              /\ udp' = "none"
              /\ ScheduleReconnect
         ELSE /\ udp' = IF udp = "binding" THEN "failed" ELSE udp
              /\ UNCHANGED <<connected, heartbeatVars, tcp, closing, timerVars>>
    /\ UNCHANGED <<flagVars, connecting, clientId, udpSequence, wire>>

\* AUTH_CHALLENGE; the reflector sends it in answer to the version.
RecvAuthChallenge ==
    /\ tcp = "open"
    /\ "PROTO_VER" \in wire
    /\ SendAuthResponse
    /\ UNCHANGED <<flagVars, connecting, connected, socketVars, timerVars,
                   heartbeatVars, clientId, udpSequence>>

\* SERVER_INFO; the reflector sends it once it has accepted the digest, and
\* may send it again.
RecvServerInfo(id) ==
    /\ tcp = "open"
    /\ "AUTH_RESPONSE" \in wire
    /\ clientId' = id
    /\ connected' = TRUE
    /\ StartHeartbeat
    /\ NextSequence
    /\ SendFrames(LoginFrames \cup {"HEARTBEAT"})
    /\ UNCHANGED <<flagVars, connecting, socketVars, timerVars>>

\* close(): connecting and connected keep their values.
CloseEffect ==
    /\ stopping' = TRUE
    /\ reconnectTimer' = FALSE
    /\ StopHeartbeat
    /\ DestroyTcp
    /\ udp' = "none"
    /\ UNCHANGED <<connecting, connected, reconnectDelayMs, clientId,
                   udpSequence, wire>>

\* close() called by shutdown().
Close ==
    /\ ~stopping
    /\ CloseEffect
    /\ UNCHANGED <<started, exited>>

\* A frame header above MAX_FRAME_BYTES makes handleTcp() close the client.
RecvOversized ==
    /\ tcp = "open"
    /\ CloseEffect
    /\ UNCHANGED <<started, exited>>

\* A heartbeat interval fires: TCP always, UDP only when logged in.
HeartbeatTick ==
    /\ intervals > 0
    /\ SendFrames({"HEARTBEAT"})
    /\ SendUdpHeartbeat
    /\ UNCHANGED <<flagVars, connecting, connected, socketVars, timerVars,
                   heartbeatVars, clientId>>

\* A datagram is numbered even if the UDP socket is gone.
NumberedDatagram ==
    /\ connected
    /\ NextSequence
    /\ UNCHANGED <<flagVars, connecting, connected, socketVars, timerVars,
                   heartbeatVars, clientId, wire>>

SendOpus == NumberedDatagram

SendFlushSamples == NumberedDatagram

BadSendPtt ==
    /\ SendFrames({"TX_STATUS"})
    /\ UNCHANGED <<flagVars, connecting, connected, socketVars, timerVars,
                   heartbeatVars, clientId, udpSequence>>

\* sendPtt(active) is silently dropped while not logged in.
SendPtt ==
    /\ connected
    /\ SendFrames({"TX_STATUS"})
    /\ UNCHANGED <<flagVars, connecting, connected, socketVars, timerVars,
                   heartbeatVars, clientId, udpSequence>>

-----------------------------------------------------------------------------
\* What the environment does to a session.
Fault == ConnectFails \/ TcpLost \/ UdpError \/ RecvOversized

\* What the client does of its own accord.
Client ==
    \/ Connect
    \/ UdpBound
    \/ ReconnectTimerFires
    \/ TcpConnected
    \/ CloseEvent
    \/ RecvAuthChallenge
    \/ \E id \in ClientIds : RecvServerInfo(id)
    \/ HeartbeatTick

\* What the rest of the bridge asks of it, at any time.
Calls == SendOpus \/ SendFlushSamples \/ SendPtt \/ Close

\* The process does nothing once main() has made it exit.
Next == ~exited /\ (Fault \/ Client \/ Calls)

Spec == Init /\ [][Next]_vars

\* Timers fire, pending events are delivered, a bind completes, a connection
\* attempt ends one way or the other, and the reflector answers.
Fairness ==
    /\ WF_vars(~exited /\ Connect)
    /\ WF_vars(~exited /\ UdpBound)
    /\ WF_vars(~exited /\ ReconnectTimerFires)
    /\ WF_vars(~exited /\ (TcpConnected \/ ConnectFails))
    /\ WF_vars(~exited /\ CloseEvent)
    /\ WF_vars(~exited /\ RecvAuthChallenge)
    /\ WF_vars(~exited /\ \E id \in ClientIds : RecvServerInfo(id))

FairSpec == Spec /\ Fairness

-----------------------------------------------------------------------------
FlagTypes ==
    /\ started \in BOOLEAN /\ exited \in BOOLEAN /\ stopping \in BOOLEAN
    /\ connecting \in BOOLEAN /\ connected \in BOOLEAN
    /\ reconnectTimer \in BOOLEAN /\ heartbeatTimer \in BOOLEAN

DataTypes ==
    /\ tcp \in TcpStates
    /\ closing \in Nat
    /\ udp \in UdpStates
    /\ reconnectDelayMs \in Nat
    /\ intervals \in Int
    /\ clientId \in ClientIds \cup {0}
    /\ udpSequence \in 0 .. SeqMod - 1
    /\ wire \subseteq FrameTypes

\* The fields hold what their types say.
TypeOK == FlagTypes /\ DataTypes

\* Every heartbeat interval that runs is the one whose handle is kept.
HeartbeatOwned == intervals = IF heartbeatTimer THEN 1 ELSE 0

\* Heartbeats are sent exactly while logged in on a live connection, and never
\* with the client id 0 of a session that has not logged in.
HeartbeatFollowsLogin ==
    /\ heartbeatTimer => connected /\ clientId # 0
    /\ connected /\ tcp = "open" => heartbeatTimer

\* Through any order of logins, losses and UDP errors one heartbeat interval
\* runs during a login and none outside of it, none out of stopHeartbeat()'s reach.
OneHeartbeat == HeartbeatOwned /\ HeartbeatFollowsLogin

\* No retry is pending while a connection is in use or being made, so a stale
\* timer never makes connectTcp() destroy a working connection, and no 'close'
\* of an earlier socket is left to reset the state of the present one.
NoReconnectWhileLive == TcpLive => ~reconnectTimer /\ closing = 0

\* While the client runs, whenever it may send audio or has a TCP connection
\* its UDP socket is bound (line 137 reads this.udp.address() on that ground).
AudioSocketUp == (TcpLive \/ connected) /\ ~stopping => udp = "ready"

\* What goes out on each new TCP connection starts with the protocol version,
\* and nothing but the answer to the challenge precedes the login: no heartbeat
\* or TX status of the previous session leaks into the new socket's buffer.
HandshakeOrder ==
    /\ tcp = "connecting" => wire = {}
    /\ wire # {} => "PROTO_VER" \in wire
    /\ wire \ {"PROTO_VER", "AUTH_RESPONSE"} # {} => "AUTH_RESPONSE" \in wire

\* After close() nothing is left running: no timer, no interval, no socket,
\* whatever events of the closed sockets are still delivered.
StoppedIsQuiet ==
    stopping => /\ ~reconnectTimer /\ ~heartbeatTimer /\ intervals = 0
                /\ udp = "none" /\ ~TcpLive

\* Without autoReconnect no retry is ever armed, after any failure.
RetryWanted == reconnectTimer => AutoReconnect

\* With autoReconnect a started client always has something that will carry it
\* on: a retry timer, a bind, a live connection, or a 'close' to be delivered.
NeverStranded ==
    started /\ ShouldReconnect =>
        reconnectTimer \/ udp = "binding" \/ TcpLive \/ closing > 0

LoggedIn == tcp = "open" /\ udp = "ready" /\ connected /\ heartbeatTimer

\* Once the reflector and the network stop failing, the client is logged in
\* again for good, unless it was told to stop.
Recovers == []<><<Fault>>_vars \/ <>[](LoggedIn \/ stopping)

\* The phases of a session, as ReflectorSession sees them.
sessionPhase ==
    IF stopping \/ exited THEN "stopped"
    ELSE IF ~started THEN "idle"
    ELSE IF tcp = "open" /\ connected THEN "online"
    ELSE IF TcpLive \/ udp \in {"binding", "failed"} THEN "attempt"
    ELSE "waiting"

Session == INSTANCE ReflectorSession
             WITH session <- sessionPhase, armed <- reconnectTimer,
                  delay <- reconnectDelayMs

\* The client implements the abstract session: a retry per loss, one step of
\* backoff per retry, and no way online but through an attempt of its own.
SessionSpec == Session!Spec
=============================================================================
