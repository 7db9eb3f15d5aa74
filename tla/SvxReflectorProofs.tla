------------------------- MODULE SvxReflectorProofs -------------------------
(***************************************************************************)
(* Proofs about the reflector client, for every value of the constants.    *)
(*                                                                         *)
(* On its own (SvxReflector): the types, the safety invariants, that an    *)
(* autoReconnect client is never stranded as long as UDP does not fail in  *)
(* the middle of a TCP connect, and that the client implements             *)
(* ReflectorSession under the same condition.                              *)
(*                                                                         *)
(* Under the bridge (BridgeTx), for every hang time, refresh period and    *)
(* gate: the reflector never takes a closed TX for an open one, TX ends    *)
(* the hang time after the last voice, and a TX the reflector has not      *)
(* heard of is announced within one refresh period of the login.  They     *)
(* rest on the session's own invariant, which the bridge's calls keep.     *)
(***************************************************************************)
EXTENDS BridgeTx, TLAPS

-----------------------------------------------------------------------------
(* Types.  The flags come first and on their own: they are closed under    *)
(* every step without help from the other fields.                          *)

LEMMA FlagsStep == FlagTypes /\ [Next]_vars => FlagTypes'
<1> SUFFICES ASSUME FlagTypes, [Next]_vars
             PROVE  FlagTypes'
  OBVIOUS
<1> USE DEF FlagTypes, StopHeartbeat, flagVars, timerVars, heartbeatVars,
            socketVars
<1>1. CASE Connect
  BY <1>1 DEF Connect
<1>2. CASE UdpBound
  BY <1>2 DEF UdpBound, ConnectTcp
<1>3. CASE ReconnectTimerFires
  BY <1>3 DEF ReconnectTimerFires, ConnectTcp
<1>4. CASE TcpConnected
  BY <1>4 DEF TcpConnected, SendProtoVer
<1>5. CASE ConnectFails
  BY <1>5 DEF ConnectFails
<1>6. CASE TcpLost
  BY <1>6 DEF TcpLost, DestroyTcp
<1>7. CASE CloseEvent
  BY <1>7 DEF CloseEvent, ScheduleReconnect
<1>8. CASE UdpError
  BY <1>8 DEF UdpError, DestroyTcp, ScheduleReconnect
<1>9. CASE RecvAuthChallenge
  BY <1>9 DEF RecvAuthChallenge, SendAuthResponse
<1>10. ASSUME NEW id \in ClientIds, RecvServerInfo(id)
      PROVE  FlagTypes'
  BY <1>10 DEF RecvServerInfo, StartHeartbeat, LoginFrames
<1>11. CASE Close
  BY <1>11 DEF Close, CloseEffect, DestroyTcp
<1>12. CASE RecvOversized
  BY <1>12 DEF RecvOversized, CloseEffect, DestroyTcp
<1>13. CASE HeartbeatTick
  BY <1>13 DEF HeartbeatTick, SendUdpHeartbeat
<1>14. CASE SendOpus
  BY <1>14 DEF SendOpus, NumberedDatagram
<1>15. CASE SendFlushSamples
  BY <1>15 DEF SendFlushSamples, NumberedDatagram
<1>16. CASE SendPtt
  BY <1>16 DEF SendPtt
<1>17. CASE UNCHANGED vars
  BY <1>17 DEF vars
<1> QED
  BY <1>1, <1>2, <1>3, <1>4, <1>5, <1>6, <1>7, <1>8, <1>9, <1>10, <1>11,
     <1>12, <1>13, <1>14, <1>15, <1>16, <1>17 DEF Next, Fault, Client, Calls

LEMMA DataStep == TypeOK /\ [Next]_vars => DataTypes'
<1> SUFFICES ASSUME TypeOK, [Next]_vars
             PROVE  DataTypes'
  OBVIOUS
<1> USE BackoffAssumption, SeqModAssumption
    DEF TypeOK, FlagTypes, DataTypes, TcpStates, UdpStates, FrameTypes,
        TcpLive, SendFrames, StopHeartbeat, NextReconnectDelay, NextSequence,
        flagVars, timerVars, heartbeatVars, socketVars
<1>1. CASE Connect
  BY <1>1 DEF Connect
<1>2. CASE UdpBound
  <2>1. CASE connecting
    BY <1>2, <2>1 DEF UdpBound, ConnectTcp
  <2>2. CASE ~connecting
    BY <1>2, <2>2 DEF UdpBound, ConnectTcp
  <2> QED
    BY <2>1, <2>2
<1>3. CASE ReconnectTimerFires
  <2>1. CASE udp # "ready"
    BY <1>3, <2>1 DEF ReconnectTimerFires, ConnectTcp
  <2>2. CASE udp = "ready" /\ connecting
    BY <1>3, <2>2 DEF ReconnectTimerFires, ConnectTcp
  <2>3. CASE udp = "ready" /\ ~connecting
    BY <1>3, <2>3 DEF ReconnectTimerFires, ConnectTcp
  <2> QED
    BY <2>1, <2>2, <2>3
<1>4. CASE TcpConnected
  BY <1>4 DEF TcpConnected, SendProtoVer
<1>5. CASE ConnectFails
  BY <1>5 DEF ConnectFails
<1>6. CASE TcpLost
  BY <1>6 DEF TcpLost, DestroyTcp
<1>7. CASE CloseEvent
  BY <1>7 DEF CloseEvent, ScheduleReconnect
<1>8. CASE UdpError
  BY <1>8 DEF UdpError, DestroyTcp, ScheduleReconnect
<1>9. CASE RecvAuthChallenge
  BY <1>9 DEF RecvAuthChallenge, SendAuthResponse
<1>10. ASSUME NEW id \in ClientIds, RecvServerInfo(id)
      PROVE  DataTypes'
  BY <1>10 DEF RecvServerInfo, StartHeartbeat, LoginFrames
<1>11. CASE Close
  BY <1>11 DEF Close, CloseEffect, DestroyTcp
<1>12. CASE RecvOversized
  BY <1>12 DEF RecvOversized, CloseEffect, DestroyTcp
<1>13. CASE HeartbeatTick
  BY <1>13 DEF HeartbeatTick, SendUdpHeartbeat
<1>14. CASE SendOpus
  BY <1>14 DEF SendOpus, NumberedDatagram
<1>15. CASE SendFlushSamples
  BY <1>15 DEF SendFlushSamples, NumberedDatagram
<1>16. CASE SendPtt
  BY <1>16 DEF SendPtt
<1>17. CASE UNCHANGED vars
  BY <1>17 DEF vars
<1> QED
  BY <1>1, <1>2, <1>3, <1>4, <1>5, <1>6, <1>7, <1>8, <1>9, <1>10, <1>11,
     <1>12, <1>13, <1>14, <1>15, <1>16, <1>17 DEF Next, Fault, Client, Calls

\* Every field of the client keeps its type.
THEOREM TypeCorrect == Spec => []TypeOK
<1>1. Init => TypeOK
  <2> SUFFICES ASSUME Init
               PROVE  TypeOK
    OBVIOUS
  <2>1. FlagTypes
    BY DEF Init, FlagTypes
  <2>2. DataTypes
    BY BackoffAssumption, SeqModAssumption
       DEF Init, DataTypes, TcpStates, UdpStates
  <2> QED
    BY <2>1, <2>2 DEF TypeOK
<1>2. TypeOK /\ [Next]_vars => TypeOK'
  BY FlagsStep, DataStep DEF TypeOK
<1> QED
  BY <1>1, <1>2, PTL DEF Spec

-----------------------------------------------------------------------------
(* Safety.  The invariants of the runs are not inductive: they need to     *)
(* know which socket a pending 'close' belongs to, what goes on during a   *)
(* bind, and how long connected may outlive its socket.                    *)

\* 'close' is pending for one socket at most, the current one.
OneClose == closing > 0 => closing = 1 /\ tcp = "destroyed"

AttemptInProgress == tcp = "connecting" => connecting /\ ~connected

\* A bind is awaited by one caller only, with nothing else going on.
BindAlone == udp = "binding" => ~reconnectTimer /\ closing = 0 /\ ~TcpLive

\* connected outlives its socket until 'close' fires, and no longer.
ConnectedOnce ==
    connected => \/ tcp = "open" /\ {"PROTO_VER", "AUTH_RESPONSE"} \subseteq wire
                 \/ tcp = "destroyed" /\ closing > 0

Untouched ==
    ~started => tcp = "none" /\ udp = "none" /\ closing = 0 /\ ~reconnectTimer

\* Only a client that will not reconnect leaves a refused bind behind.
FailedBind == udp = "failed" => ~AutoReconnect

SessionInv ==
    /\ HeartbeatOwned
    /\ HeartbeatFollowsLogin
    /\ NoReconnectWhileLive
    /\ AudioSocketUp
    /\ HandshakeOrder
    /\ StoppedIsQuiet
    /\ OneClose
    /\ AttemptInProgress
    /\ BindAlone
    /\ ConnectedOnce
    /\ Untouched
    /\ FailedBind
    /\ RetryWanted

LEMMA SessionInvStep ==
    TypeOK /\ SessionInv /\ [Next]_vars => SessionInv'
<1> SUFFICES ASSUME TypeOK, SessionInv, [Next]_vars
             PROVE  SessionInv'
  OBVIOUS
<1> USE ClientIdsAssumption
    DEF TypeOK, FlagTypes, DataTypes, TcpStates, UdpStates, FrameTypes,
        TcpLive, ShouldReconnect, SendFrames, StopHeartbeat,
        NextReconnectDelay, NextSequence, flagVars, timerVars, heartbeatVars,
        socketVars, SessionInv, HeartbeatOwned, HeartbeatFollowsLogin,
        NoReconnectWhileLive, AudioSocketUp, HandshakeOrder, StoppedIsQuiet,
        OneClose, AttemptInProgress, BindAlone, ConnectedOnce, Untouched,
        FailedBind, RetryWanted
<1>1. CASE Connect
  BY <1>1 DEF Connect
<1>2. CASE UdpBound
  BY <1>2 DEF UdpBound, ConnectTcp
<1>3. CASE ReconnectTimerFires
  <2>1. CASE udp # "ready"
    BY <1>3, <2>1 DEF ReconnectTimerFires, ConnectTcp
  <2>2. CASE udp = "ready" /\ connecting
    BY <1>3, <2>2 DEF ReconnectTimerFires, ConnectTcp
  <2>3. CASE udp = "ready" /\ ~connecting
    BY <1>3, <2>3 DEF ReconnectTimerFires, ConnectTcp
  <2> QED
    BY <2>1, <2>2, <2>3
<1>4. CASE TcpConnected
  BY <1>4 DEF TcpConnected, SendProtoVer
<1>5. CASE ConnectFails
  BY <1>5 DEF ConnectFails
<1>6. CASE TcpLost
  BY <1>6 DEF TcpLost, DestroyTcp
<1>7. CASE CloseEvent
  BY <1>7 DEF CloseEvent, ScheduleReconnect
<1>8. CASE UdpError
  BY <1>8 DEF UdpError, DestroyTcp, ScheduleReconnect
<1>9. CASE RecvAuthChallenge
  BY <1>9 DEF RecvAuthChallenge, SendAuthResponse
<1>10. ASSUME NEW id \in ClientIds, RecvServerInfo(id)
      PROVE  SessionInv'
  BY <1>10 DEF RecvServerInfo, StartHeartbeat, LoginFrames
<1>11. CASE Close
  BY <1>11 DEF Close, CloseEffect, DestroyTcp
<1>12. CASE RecvOversized
  BY <1>12 DEF RecvOversized, CloseEffect, DestroyTcp
<1>13. CASE HeartbeatTick
  BY <1>13 DEF HeartbeatTick, SendUdpHeartbeat
<1>14. CASE SendOpus
  BY <1>14 DEF SendOpus, NumberedDatagram
<1>15. CASE SendFlushSamples
  BY <1>15 DEF SendFlushSamples, NumberedDatagram
<1>16. CASE SendPtt
  BY <1>16 DEF SendPtt
<1>17. CASE UNCHANGED vars
  BY <1>17 DEF vars
<1> QED
  BY <1>1, <1>2, <1>3, <1>4, <1>5, <1>6, <1>7, <1>8, <1>9, <1>10, <1>11,
     <1>12, <1>13, <1>14, <1>15, <1>16, <1>17 DEF Next, Fault, Client, Calls

LEMMA SessionInvariant == Spec => []SessionInv
<1>1. Init => SessionInv
  BY DEF Init, SessionInv, HeartbeatOwned, HeartbeatFollowsLogin,
         NoReconnectWhileLive, AudioSocketUp, HandshakeOrder, StoppedIsQuiet,
         OneClose, AttemptInProgress, BindAlone, ConnectedOnce, Untouched,
        FailedBind, RetryWanted,
         TcpLive
<1> QED
  BY <1>1, SessionInvStep, TypeCorrect, PTL DEF Spec

\* One heartbeat interval during a login, none outside of it, and never one that
\* cannot be stopped.
THEOREM OneHeartbeatPerLogin == Spec => []OneHeartbeat
BY SessionInvariant, PTL DEF SessionInv, OneHeartbeat

\* No pending retry or 'close' can hit a connection that is in use.
THEOREM LiveConnectionUndisturbed == Spec => []NoReconnectWhileLive
BY SessionInvariant, PTL DEF SessionInv

\* The UDP socket is there whenever the TCP one or the login is.
THEOREM AudioHasItsSocket == Spec => []AudioSocketUp
BY SessionInvariant, PTL DEF SessionInv

\* Frames of one session never precede the handshake of the next.
THEOREM HandshakeComesFirst == Spec => []HandshakeOrder
BY SessionInvariant, PTL DEF SessionInv

\* A retry is armed only where the configuration wants one.
THEOREM RetryOnlyIfWanted == Spec => []RetryWanted
BY SessionInvariant, PTL DEF SessionInv

\* After close() nothing runs, whatever is delivered later.
THEOREM StopIsFinal == Spec => []StoppedIsQuiet
BY SessionInvariant, PTL DEF SessionInv

-----------------------------------------------------------------------------
(* Progress.  connecting is cleared only by the events of the socket it    *)
(* was set for.  If no UDP error comes during a connect, it never outlives *)
(* that socket, and then every step leaves something that carries on.      *)

AttemptOwnsFlag == connecting => tcp = "connecting" \/ stopping

LEMMA AttemptStep ==
    ASSUME "connecting" \notin UdpFaultPhases,
           TypeOK, SessionInv, AttemptOwnsFlag, NeverStranded, [Next]_vars
    PROVE  (AttemptOwnsFlag /\ NeverStranded)'
<1> USE DEF TypeOK, FlagTypes, TcpLive, ShouldReconnect, flagVars,
        timerVars, heartbeatVars, socketVars, AttemptOwnsFlag, NeverStranded,
        DataTypes, TcpStates, UdpStates
<1>1. CASE Connect
  BY <1>1 DEF SessionInv, Untouched, Connect
<1>2. CASE UdpBound
  BY <1>2 DEF SessionInv, BindAlone, StoppedIsQuiet, UdpBound, ConnectTcp
<1>3. CASE ReconnectTimerFires
  BY <1>3 DEF SessionInv, NoReconnectWhileLive, StoppedIsQuiet,
              ReconnectTimerFires, ConnectTcp
<1>4. CASE TcpConnected
  BY <1>4 DEF TcpConnected, SendProtoVer
<1>5. CASE ConnectFails
  BY <1>5 DEF ConnectFails
<1>6. CASE TcpLost
  BY <1>6 DEF TcpLost, DestroyTcp
<1>7. CASE CloseEvent
  BY <1>7 DEF SessionInv, OneClose, CloseEvent, ScheduleReconnect
<1>8. CASE UdpError
  BY <1>8 DEF UdpError, DestroyTcp, ScheduleReconnect
<1>9. CASE RecvAuthChallenge
  BY <1>9 DEF RecvAuthChallenge, SendAuthResponse
<1>10. ASSUME NEW id \in ClientIds, RecvServerInfo(id)
      PROVE  (AttemptOwnsFlag /\ NeverStranded)'
  BY <1>10 DEF RecvServerInfo, StartHeartbeat, LoginFrames
<1>11. CASE Close
  BY <1>11 DEF Close, CloseEffect, DestroyTcp
<1>12. CASE RecvOversized
  BY <1>12 DEF RecvOversized, CloseEffect, DestroyTcp
<1>13. CASE HeartbeatTick
  BY <1>13 DEF HeartbeatTick, SendUdpHeartbeat
<1>14. CASE SendOpus
  BY <1>14 DEF SendOpus, NumberedDatagram
<1>15. CASE SendFlushSamples
  BY <1>15 DEF SendFlushSamples, NumberedDatagram
<1>16. CASE SendPtt
  BY <1>16 DEF SendPtt
<1>17. CASE UNCHANGED vars
  BY <1>17 DEF vars
<1> QED
  BY <1>1, <1>2, <1>3, <1>4, <1>5, <1>6, <1>7, <1>8, <1>9, <1>10, <1>11,
     <1>12, <1>13, <1>14, <1>15, <1>16, <1>17 DEF Next, Fault, Client, Calls

\* With autoReconnect, a client whose UDP socket does not fail while TCP is
\* connecting always has a retry, a bind, a connection or a 'close' to come.
THEOREM ReconnectNeverStranded ==
    ASSUME "connecting" \notin UdpFaultPhases
    PROVE  Spec => [](AttemptOwnsFlag /\ NeverStranded)
<1>1. Init => AttemptOwnsFlag /\ NeverStranded
  BY DEF Init, AttemptOwnsFlag, NeverStranded
<1>2. TypeOK /\ SessionInv /\ (AttemptOwnsFlag /\ NeverStranded) /\ [Next]_vars
        => (AttemptOwnsFlag /\ NeverStranded)'
  BY AttemptStep
<1> QED
  BY <1>1, <1>2, TypeCorrect, SessionInvariant, PTL DEF Spec

-----------------------------------------------------------------------------
(* Refinement.  Under the same condition, each step is a step of the       *)
(* abstract session or leaves it alone.                                    *)

LEMMA SessionStep ==
    ASSUME "connecting" \notin UdpFaultPhases,
           TypeOK, SessionInv, AttemptOwnsFlag, Next
    PROVE  [Session!Next]_(Session!vars)
<1>0. ~exited
  BY DEF Next
<1> USE <1>0, BackoffAssumption
    DEF TypeOK, FlagTypes, DataTypes, TcpStates, UdpStates, TcpLive,
        ShouldReconnect, NextReconnectDelay, flagVars, timerVars,
        heartbeatVars, socketVars, AttemptOwnsFlag, sessionPhase,
        Session!vars, Session!Next, Session!Begin, Session!Established,
        Session!Login, Session!Arm, Session!Drop, Session!ArmLater,
        Session!Stop, Session!Doubled
<1>1. CASE Connect
  BY <1>1 DEF SessionInv, Untouched, Connect
<1>2. CASE UdpBound
  BY <1>2 DEF SessionInv, BindAlone, StoppedIsQuiet, ConnectedOnce, UdpBound,
              ConnectTcp
<1>3. CASE ReconnectTimerFires
  <2>1. reconnectTimer /\ closing = 0 /\ ~TcpLive /\ ~stopping /\ started
    BY <1>3 DEF ReconnectTimerFires, SessionInv, NoReconnectWhileLive,
                StoppedIsQuiet, Untouched
  <2>2. sessionPhase = "waiting"
    BY <2>1 DEF SessionInv, BindAlone, FailedBind, RetryWanted
  <2>3. sessionPhase' = "attempt"
    BY <1>3, <2>1 DEF ReconnectTimerFires, ConnectTcp
  <2>4. reconnectTimer' = FALSE /\ UNCHANGED reconnectDelayMs
    BY <1>3 DEF ReconnectTimerFires
  <2> QED
    BY <2>1, <2>2, <2>3, <2>4
<1>4. CASE TcpConnected
  <2>1. ~stopping /\ ~connected /\ started
    BY <1>4 DEF TcpConnected, SessionInv, AttemptInProgress, StoppedIsQuiet,
                Untouched
  <2>2. sessionPhase = "attempt" /\ sessionPhase' = "attempt"
    BY <1>4, <2>1 DEF TcpConnected
  <2> QED
    BY <1>4, <2>2 DEF TcpConnected
<1>5. CASE ConnectFails
  <2>1. ~stopping /\ started /\ udp = "ready" /\ ~reconnectTimer
    BY <1>5 DEF ConnectFails, SessionInv, StoppedIsQuiet, Untouched,
                AudioSocketUp, NoReconnectWhileLive
  <2>2. sessionPhase = "attempt"
    BY <1>5, <2>1 DEF ConnectFails
  <2>3. CASE ShouldReconnect
    <3>1. sessionPhase' = "waiting"
      BY <1>5, <2>1, <2>3 DEF ConnectFails
    <3>2. reconnectTimer' /\ NextReconnectDelay
      BY <1>5, <2>3 DEF ConnectFails
    <3> QED
      BY <2>1, <2>2, <3>1, <3>2
  <2>4. CASE ~ShouldReconnect
    <3>1. sessionPhase' = "stopped" /\ UNCHANGED timerVars
      BY <1>5, <2>4 DEF ConnectFails
    <3> QED
      BY <2>1, <2>2, <3>1
  <2> QED
    BY <2>3, <2>4
<1>6. CASE TcpLost
  BY <1>6 DEF SessionInv, StoppedIsQuiet, AudioSocketUp, NoReconnectWhileLive,
              TcpLost, DestroyTcp
<1>7. CASE CloseEvent
  <2>1. tcp = "destroyed" /\ started /\ udp # "binding"
    BY <1>7 DEF CloseEvent, SessionInv, OneClose, Untouched, BindAlone
  <2>2. UNCHANGED sessionPhase
    BY <1>7, <2>1 DEF CloseEvent
  <2>3. CASE ShouldReconnect /\ ~reconnectTimer
    <3>1. sessionPhase = "waiting"
      BY <2>1, <2>3 DEF SessionInv, FailedBind
    <3>2. reconnectTimer' /\ NextReconnectDelay
      BY <1>7, <2>3 DEF CloseEvent, ScheduleReconnect
    <3> QED
      BY <2>2, <2>3, <3>1, <3>2
  <2>4. CASE ~(ShouldReconnect /\ ~reconnectTimer)
    <3>1. UNCHANGED timerVars
      BY <1>7, <2>4 DEF CloseEvent, ScheduleReconnect
    <3> QED
      BY <2>2, <3>1
  <2> QED
    BY <2>3, <2>4
<1>8. CASE UdpError
  <2>1. started /\ ~stopping /\ udp \in {"binding", "ready"}
    BY <1>8 DEF UdpError, SessionInv, Untouched, StoppedIsQuiet
  <2>2. CASE ShouldReconnect
    <3>1. sessionPhase' = "waiting"
      BY <1>8, <2>1, <2>2 DEF UdpError, DestroyTcp
    <3>2. CASE reconnectTimer
      <4>1. sessionPhase = "waiting"
        BY <2>1, <3>2 DEF SessionInv, BindAlone, NoReconnectWhileLive
      <4>2. UNCHANGED timerVars
        BY <1>8, <2>2, <3>2 DEF UdpError, ScheduleReconnect
      <4> QED
        BY <3>1, <4>1, <4>2
    <3>3. CASE ~reconnectTimer
      <4>1. sessionPhase \in {"attempt", "online", "waiting"}
        BY <2>1
      <4>2. reconnectTimer' /\ NextReconnectDelay
        BY <1>8, <2>2, <3>3 DEF UdpError, ScheduleReconnect
      <4> QED
        BY <3>1, <3>3, <4>1, <4>2
    <3> QED
      BY <3>2, <3>3
  <2>3. CASE ~ShouldReconnect
    <3>1. UNCHANGED timerVars /\ UNCHANGED sessionPhase
      BY <1>8, <2>1, <2>3 DEF UdpError
    <3> QED
      BY <3>1
  <2> QED
    BY <2>2, <2>3
<1>9. CASE RecvAuthChallenge
  BY <1>9 DEF RecvAuthChallenge, SendAuthResponse
<1>10. ASSUME NEW id \in ClientIds, RecvServerInfo(id)
      PROVE  [Session!Next]_(Session!vars)
  BY <1>10 DEF SessionInv, StoppedIsQuiet, RecvServerInfo, StartHeartbeat,
               LoginFrames
<1>11. CASE Close
  BY <1>11 DEF Close, CloseEffect, DestroyTcp
<1>12. CASE RecvOversized
  BY <1>12 DEF SessionInv, StoppedIsQuiet, RecvOversized, CloseEffect,
               DestroyTcp
<1>13. CASE HeartbeatTick
  BY <1>13 DEF HeartbeatTick, SendUdpHeartbeat
<1>14. CASE SendOpus
  BY <1>14 DEF SendOpus, NumberedDatagram
<1>15. CASE SendFlushSamples
  BY <1>15 DEF SendFlushSamples, NumberedDatagram
<1>16. CASE SendPtt
  BY <1>16 DEF SendPtt
<1> QED
  BY <1>1, <1>2, <1>3, <1>4, <1>5, <1>6, <1>7, <1>8, <1>9, <1>10, <1>11,
     <1>12, <1>13, <1>14, <1>15, <1>16 DEF Next, Fault, Client, Calls

\* With autoReconnect or without, the client is a refinement of the abstract
\* session as long as no UDP error comes during a TCP connect.
THEOREM ClientImplementsSession ==
    ASSUME "connecting" \notin UdpFaultPhases
    PROVE  Spec => SessionSpec
<1>1. Init => Session!Init
  BY DEF Init, Session!Init, sessionPhase
<1>2. TypeOK /\ SessionInv /\ (AttemptOwnsFlag /\ NeverStranded) /\ [Next]_vars
        => [Session!Next]_(Session!vars)
  <2>1. ASSUME UNCHANGED vars
        PROVE  UNCHANGED Session!vars
    BY <2>1 DEF vars, Session!vars, sessionPhase, TcpLive
  <2> QED
    BY <2>1, SessionStep
<1> QED
  BY <1>1, <1>2, TypeCorrect, SessionInvariant, ReconnectNeverStranded, PTL
     DEF Spec, SessionSpec, Session!Spec

-----------------------------------------------------------------------------
(* The reflector client under the bridge's calls.                          *)

\* Voice, announcements and flushes touch the numbering and the wire only, and
\* a TX status is written only while logged in.
LEMMA CallKeepsSession ==
    ASSUME TypeOK, SessionInv, UNCHANGED clientVars,
           udpSequence' \in 0 .. SeqMod - 1,
           \/ wire' = wire
           \/ connected /\ TcpLive /\ wire' = wire \cup {"TX_STATUS"}
    PROVE  TypeOK' /\ SessionInv'
<1> USE DEF clientVars, flagVars, socketVars, timerVars, heartbeatVars, TcpLive
<1>1. FlagTypes' BY DEF TypeOK, FlagTypes
<1>2. DataTypes' BY DEF TypeOK, DataTypes, FrameTypes
<1>3. SessionInv'
  BY DEF TypeOK, FlagTypes, DataTypes, TcpStates, SessionInv, HeartbeatOwned,
         HeartbeatFollowsLogin, NoReconnectWhileLive, AudioSocketUp,
         HandshakeOrder, StoppedIsQuiet, OneClose, AttemptInProgress, BindAlone,
         ConnectedOnce, Untouched, FailedBind, RetryWanted
<1> QED BY <1>1, <1>2, <1>3 DEF TypeOK

LEMMA DatagramsNumbered ==
    ASSUME TypeOK, NEW n \in Nat, SendDatagrams(n)
    PROVE  udpSequence' \in 0 .. SeqMod - 1
BY SeqModAssumption DEF SendDatagrams, TypeOK, DataTypes

LEMMA AnnouncedOnline ==
    ASSUME NEW active, SendPttIfConnected(active)
    PROVE  \/ wire' = wire
           \/ connected /\ TcpLive /\ wire' = wire \cup {"TX_STATUS"}
BY DEF SendPttIfConnected

LEMMA ShutdownKeepsSession ==
    ASSUME TypeOK, SessionInv, Shutdown
    PROVE  TypeOK' /\ SessionInv'
<1> USE DEF Shutdown, StopHeartbeat, DestroyTcp, TcpLive, flagVars, timerVars,
            heartbeatVars, socketVars
<1>1. FlagTypes' BY DEF TypeOK, FlagTypes
<1>2. udpSequence' \in 0 .. SeqMod - 1
  <2>1. PICK n \in {0, 1} : SendDatagrams(n) OBVIOUS
  <2> QED BY <2>1, DatagramsNumbered
<1>3. DataTypes'
  BY <1>2 DEF TypeOK, FlagTypes, DataTypes, TcpStates, UdpStates, FrameTypes
<1>4. SessionInv'
  BY DEF TypeOK, FlagTypes, DataTypes, TcpStates, SessionInv, HeartbeatOwned,
         HeartbeatFollowsLogin, NoReconnectWhileLive, AudioSocketUp,
         HandshakeOrder, StoppedIsQuiet, OneClose, AttemptInProgress, BindAlone,
         ConnectedOnce, Untouched, FailedBind, RetryWanted
<1> QED BY <1>1, <1>3, <1>4 DEF TypeOK

\* The client's invariant holds in the bridge too.
LEMMA ClientStep ==
    TypeOK /\ SessionInv /\ [TxNext]_txVars => TypeOK' /\ SessionInv'
<1> SUFFICES ASSUME TypeOK, SessionInv, [TxNext]_txVars
             PROVE  TypeOK' /\ SessionInv'
  OBVIOUS
<1>1. CASE ~exited /\ ReflectorStep
  <2>1. [Next]_vars BY <1>1 DEF ReflectorStep, Next
  <2> QED BY <2>1, FlagsStep, DataStep, SessionInvStep DEF TypeOK
<1>2. ASSUME NEW voice \in BOOLEAN, AsteriskPcm(voice) PROVE TypeOK' /\ SessionInv'
  <2>1. udpSequence' \in 0 .. SeqMod - 1
    <3>1. PICK n \in {0, 1} : SendDatagrams(n) BY <1>2 DEF AsteriskPcm
    <3> QED BY <3>1, DatagramsNumbered
  <2>2. \/ wire' = wire
        \/ connected /\ TcpLive /\ wire' = wire \cup {"TX_STATUS"}
    BY <1>2, AnnouncedOnline DEF AsteriskPcm, OpenReflectorTx
  <2>3. UNCHANGED clientVars BY <1>2 DEF AsteriskPcm
  <2> QED BY <2>1, <2>2, <2>3, CallKeepsSession
<1>3. CASE TxTimerFires
  <2>1. udpSequence' \in 0 .. SeqMod - 1
    <3>1. PICK n \in {0, 1} : SendDatagrams(n)
      BY <1>3 DEF TxTimerFires, CloseReflectorTx
    <3> QED BY <3>1, DatagramsNumbered
  <2>2. \/ wire' = wire
        \/ connected /\ TcpLive /\ wire' = wire \cup {"TX_STATUS"}
    BY <1>3, AnnouncedOnline DEF TxTimerFires, CloseReflectorTx
  <2>3. UNCHANGED clientVars BY <1>3 DEF TxTimerFires
  <2> QED BY <2>1, <2>2, <2>3, CallKeepsSession
<1>4. CASE RefreshFires
  <2>1. \/ wire' = wire
        \/ connected /\ TcpLive /\ wire' = wire \cup {"TX_STATUS"}
    BY <1>4, AnnouncedOnline DEF RefreshFires
  <2>2. UNCHANGED clientVars /\ udpSequence' \in 0 .. SeqMod - 1
    BY <1>4 DEF RefreshFires, TypeOK, DataTypes
  <2> QED BY <2>1, <2>2, CallKeepsSession
<1>5. CASE CallEstablished \/ Tick \/ UNCHANGED txVars
  <2>1. [Next]_vars BY <1>5 DEF CallEstablished, Tick, txVars
  <2> QED BY <2>1, FlagsStep, DataStep, SessionInvStep DEF TypeOK
<1>6. CASE Shutdown BY <1>6, ShutdownKeepsSession
<1> QED BY <1>1, <1>2, <1>3, <1>4, <1>5, <1>6 DEF TxNext

\* A login ends with its connection, and not before.
LEMMA LoginLastsAsTcp ==
    ASSUME TypeOK, SessionInv, ReflectorStep, connected, tcp = "open",
           tcp' = "open"
    PROVE  connected'
<1> USE DEF TypeOK, FlagTypes, DataTypes, TcpLive, SessionInv,
            NoReconnectWhileLive, BindAlone, AttemptInProgress, flagVars,
            socketVars, timerVars, heartbeatVars
<1>1. CASE Fault
  BY <1>1 DEF ReflectorStep, Fault, ConnectFails, TcpLost, UdpError,
              RecvOversized, CloseEffect, DestroyTcp
<1>2. CASE Client
  <2>1. CASE UdpBound BY <2>1 DEF UdpBound, ConnectTcp
  <2>2. CASE ReconnectTimerFires
    BY <2>2 DEF ReconnectTimerFires, ConnectTcp
  <2>3. CASE Connect \/ TcpConnected \/ CloseEvent
    BY <2>3 DEF Connect, TcpConnected, CloseEvent
  <2>4. CASE RecvAuthChallenge \/ HeartbeatTick
    BY <2>4 DEF RecvAuthChallenge, HeartbeatTick
  <2>5. CASE \E id \in ClientIds : RecvServerInfo(id)
    BY <2>5 DEF RecvServerInfo
  <2> QED BY <1>2, <2>1, <2>2, <2>3, <2>4, <2>5 DEF Client
<1> QED BY <1>1, <1>2 DEF ReflectorStep

-----------------------------------------------------------------------------
(* The transmission.                                                       *)

TxFlags == reflectorTx \in BOOLEAN /\ peerTx \in BOOLEAN

TxTimers ==
    /\ txTimer \in Int /\ Off <= txTimer /\ txTimer <= Hang
    /\ refreshTimer \in Int /\ Off <= refreshTimer /\ refreshTimer <= Refresh
    /\ gate \in Int /\ 0 <= gate /\ gate <= Gate
    /\ silence \in Nat /\ unannounced \in Nat

\* While TX is open the hang timer and the silence add up to the hang time and
\* the refresh timer runs; it bounds how long the reflector can be unaware.
TxInv ==
    /\ reflectorTx => txTimer # Off /\ silence + txTimer = Hang
    /\ ~reflectorTx => txTimer = Off
    /\ reflectorTx /\ Refresh > 0 => refreshTimer # Off
    /\ peerTx => reflectorTx /\ Online
    /\ ~Online /\ ~exited => unannounced = 0
    /\ Refresh > 0 => unannounced <= Refresh
    /\ Refresh > 0 /\ reflectorTx /\ Online /\ ~peerTx
         => unannounced + refreshTimer <= Refresh

LEMMA TxTypeParts == (TxTypeOK <=> TypeOK /\ TxFlags /\ TxTimers)
                     /\ (TxTypeOK' <=> TypeOK' /\ TxFlags' /\ TxTimers')
BY TimesAssumption DEF TxTypeOK, TxFlags, TxTimers, Off

LEMMA TxFlagsStep == TxFlags /\ [TxNext]_txVars => TxFlags'
<1> SUFFICES ASSUME TxFlags, [TxNext]_txVars PROVE TxFlags' OBVIOUS
<1> USE DEF TxFlags, bridgeVars
<1>1. CASE ReflectorStep BY <1>1 DEF ReflectorStep
<1>2. ASSUME NEW voice \in BOOLEAN, AsteriskPcm(voice) PROVE TxFlags'
  BY <1>2 DEF AsteriskPcm, OpenReflectorTx, SendPttIfConnected
<1>3. CASE TxTimerFires
  BY <1>3 DEF TxTimerFires, CloseReflectorTx, SendPttIfConnected
<1>4. CASE RefreshFires BY <1>4 DEF RefreshFires, SendPttIfConnected
<1>5. CASE CallEstablished BY <1>5 DEF CallEstablished
<1>6. CASE Shutdown BY <1>6 DEF Shutdown
<1>7. CASE Tick BY <1>7 DEF Tick
<1>8. CASE UNCHANGED txVars BY <1>8 DEF txVars
<1> QED BY <1>1, <1>2, <1>3, <1>4, <1>5, <1>6, <1>7, <1>8 DEF TxNext

LEMMA TxTimersStep ==
    TxFlags /\ TxTimers /\ TxInv /\ [TxNext]_txVars => TxTimers'
<1> SUFFICES ASSUME TxFlags, TxTimers, TxInv, [TxNext]_txVars PROVE TxTimers'
  OBVIOUS
<1> USE TimesAssumption DEF TxFlags, TxTimers, bridgeVars, historyVars, Off
<1>1. CASE ReflectorStep BY <1>1 DEF ReflectorStep
<1>2. ASSUME NEW voice \in BOOLEAN, AsteriskPcm(voice) PROVE TxTimers'
  <2>1. CASE ~voice BY <1>2, <2>1 DEF AsteriskPcm, VoiceGate
  <2>2. CASE voice
    <3>1. txTimer' = Hang /\ silence' = 0
      BY <1>2, <2>2 DEF AsteriskPcm, VoiceGate, ScheduleReflectorTxClose
    <3>2. UNCHANGED <<gate, unannounced>> BY <1>2 DEF AsteriskPcm
    <3>3. refreshTimer' \in {refreshTimer, Refresh, Off}
      BY <1>2, <2>2 DEF AsteriskPcm, VoiceGate, OpenReflectorTx
    <3> QED BY <3>1, <3>2, <3>3
  <2> QED BY <2>1, <2>2
<1>3. CASE TxTimerFires BY <1>3 DEF TxTimerFires, CloseReflectorTx
<1>4. CASE RefreshFires BY <1>4 DEF RefreshFires
<1>5. CASE CallEstablished BY <1>5 DEF CallEstablished
<1>6. CASE Shutdown BY <1>6 DEF Shutdown
<1>7. CASE Tick BY <1>7 DEF Tick, Elapsed
<1>8. CASE UNCHANGED txVars BY <1>8 DEF txVars
<1> QED BY <1>1, <1>2, <1>3, <1>4, <1>5, <1>6, <1>7, <1>8 DEF TxNext

LEMMA TxInvStep ==
    /\ TypeOK /\ SessionInv /\ TxFlags /\ TxTimers /\ TxInv
    /\ [TxNext]_txVars
    => TxInv'
<1> SUFFICES ASSUME TypeOK, SessionInv, TxFlags, TxTimers, TxInv,
                    [TxNext]_txVars
             PROVE  TxInv'
  OBVIOUS
<1> USE TimesAssumption
    DEF TxFlags, TxTimers, TxInv, Online, Off, bridgeVars, historyVars,
        clientVars, flagVars, socketVars
<1>1. CASE ~exited /\ ReflectorStep
  <2>1. connected' \in BOOLEAN BY <1>1, ClientStep DEF TypeOK, FlagTypes, TxNext
  <2>2. connected /\ tcp = "open" /\ tcp' = "open" => connected'
    BY <1>1, LoginLastsAsTcp
  <2>3. UNCHANGED <<bridgeVars, silence>> BY <1>1 DEF ReflectorStep
  <2>4. peerTx' <=> peerTx /\ tcp' = "open" BY <1>1 DEF ReflectorStep
  <2>5. unannounced' = IF tcp' = "open" /\ connected' THEN unannounced ELSE 0
    BY <1>1 DEF ReflectorStep
  <2> QED BY <1>1, <2>1, <2>2, <2>3, <2>4, <2>5
<1>2. ASSUME ~exited, NEW voice \in BOOLEAN, AsteriskPcm(voice) PROVE TxInv'
  <2>1. CASE ~voice BY <1>2, <2>1 DEF AsteriskPcm, VoiceGate
  <2>2. CASE voice
    <3>1. txTimer' = Hang /\ silence' = 0 /\ reflectorTx' = TRUE
      BY <1>2, <2>2 DEF AsteriskPcm, VoiceGate, OpenReflectorTx,
                        ScheduleReflectorTxClose
    <3>2. UNCHANGED <<connected, tcp, exited, unannounced>>
      BY <1>2 DEF AsteriskPcm
    <3>3. CASE reflectorTx
      <4>1. UNCHANGED <<refreshTimer, peerTx>>
        BY <1>2, <2>2, <3>3 DEF AsteriskPcm, VoiceGate, OpenReflectorTx
      <4> QED BY <3>1, <3>2, <3>3, <4>1
    <3>4. CASE ~reflectorTx
      <4>1. /\ refreshTimer' = IF Refresh > 0 THEN Refresh ELSE Off
            /\ peerTx' = IF Online THEN TRUE ELSE peerTx
        BY <1>2, <2>2, <3>4
           DEF AsteriskPcm, VoiceGate, OpenReflectorTx, SendPttIfConnected
      <4> QED BY <1>2, <3>1, <3>2, <3>4, <4>1
    <3> QED BY <3>3, <3>4
  <2> QED BY <2>1, <2>2
<1>3. CASE ~exited /\ TxTimerFires
  BY <1>3 DEF TxTimerFires, CloseReflectorTx, SendPttIfConnected
<1>4. CASE ~exited /\ RefreshFires
  <2>1. /\ UNCHANGED <<connected, tcp, exited, reflectorTx, txTimer, silence,
                      unannounced>>
        /\ refreshTimer' = Refresh
    BY <1>4 DEF RefreshFires
  <2>2. peerTx' = IF reflectorTx /\ Online THEN TRUE ELSE peerTx
    BY <1>4 DEF RefreshFires, SendPttIfConnected
  <2>3. refreshTimer = 0 BY <1>4 DEF RefreshFires
  <2> QED BY <1>4, <2>1, <2>2, <2>3
<1>5. CASE CallEstablished BY <1>5 DEF CallEstablished, vars
<1>6. CASE Shutdown BY <1>6 DEF Shutdown
<1>7. CASE ~exited /\ Tick BY <1>7 DEF Tick, Elapsed, vars
<1>8. CASE UNCHANGED txVars BY <1>8 DEF txVars, vars
<1> QED BY <1>1, <1>2, <1>3, <1>4, <1>5, <1>6, <1>7, <1>8 DEF TxNext

LEMMA TxInvariant ==
    TxSpec => [](TypeOK /\ SessionInv /\ TxFlags /\ TxTimers /\ TxInv)
<1>1. TxInit => TypeOK /\ SessionInv /\ TxFlags /\ TxTimers /\ TxInv
  <2> SUFFICES ASSUME TxInit
               PROVE  TypeOK /\ SessionInv /\ TxFlags /\ TxTimers /\ TxInv
    OBVIOUS
  <2>1. FlagTypes BY DEF TxInit, Init, FlagTypes
  <2>2. DataTypes
    BY BackoffAssumption, SeqModAssumption
       DEF TxInit, Init, DataTypes, TcpStates, UdpStates
  <2>3. SessionInv
    BY DEF TxInit, Init, SessionInv, HeartbeatOwned, HeartbeatFollowsLogin,
           NoReconnectWhileLive, AudioSocketUp, HandshakeOrder, StoppedIsQuiet,
           OneClose, AttemptInProgress, BindAlone, ConnectedOnce, Untouched,
           FailedBind, RetryWanted, TcpLive
  <2>4. TxFlags BY DEF TxInit, TxFlags
  <2>5. TxTimers BY TimesAssumption DEF TxInit, TxTimers, Off
  <2>6. TxInv BY TimesAssumption DEF TxInit, Init, TxInv, Online, Off
  <2> QED BY <2>1, <2>2, <2>3, <2>4, <2>5, <2>6 DEF TypeOK
<1>2. /\ TypeOK /\ SessionInv /\ TxFlags /\ TxTimers /\ TxInv
      /\ [TxNext]_txVars
      => (TypeOK /\ SessionInv /\ TxFlags /\ TxTimers /\ TxInv)'
  BY ClientStep, TxFlagsStep, TxTimersStep, TxInvStep
<1> QED BY <1>1, <1>2, PTL DEF TxSpec

\* The fields of the bridge hold what their types say.
THEOREM TxTypeCorrect == TxSpec => []TxTypeOK
BY TxInvariant, TxTypeParts, PTL

\* The reflector never holds a closed TX for an open one.
THEOREM NoTalkerWithoutTx == TxSpec => []PeerTxImpliesTx
<1>1. TxInv => PeerTxImpliesTx BY DEF TxInv, PeerTxImpliesTx
<1> QED BY <1>1, TxInvariant, PTL

\* The hang time after the last voice frame TX is over.
THEOREM SilenceEndsTx == TxSpec => []TxEndsAfterSilence
<1>1. TxTimers /\ TxInv => TxEndsAfterSilence
  BY TimesAssumption DEF TxTimers, TxInv, TxEndsAfterSilence, Off
<1> QED BY <1>1, TxInvariant, PTL

\* One refresh period after a login the reflector knows of an open TX.
THEOREM LoginHearsOfTx == TxSpec => []ReannouncedInTime
<1>1. TxInv => ReannouncedInTime BY DEF TxInv, ReannouncedInTime
<1> QED BY <1>1, TxInvariant, PTL

\* Nothing but the hang time's silence, or the end of the process, closes TX.
THEOREM PausesBridged == TxSpec => TxOutlastsPauses
<1>1. /\ TypeOK /\ SessionInv /\ TxFlags /\ TxTimers /\ TxInv
      /\ [TxNext]_txVars
      => [reflectorTx /\ ~reflectorTx' => silence >= Hang \/ exited']_txVars
  <2> SUFFICES ASSUME TxFlags, TxTimers, TxInv, TxNext, reflectorTx, ~reflectorTx'
               PROVE  silence >= Hang \/ exited'
    OBVIOUS
  <2> USE DEF bridgeVars
  <2>1. CASE TxTimerFires
    BY <2>1, TimesAssumption DEF TxTimerFires, TxTimers, TxInv
  <2>2. CASE Shutdown BY <2>2 DEF Shutdown
  <2>3. CASE ReflectorStep \/ RefreshFires \/ CallEstablished \/ Tick
    BY <2>3 DEF ReflectorStep, RefreshFires, CallEstablished, Tick
  <2>4. ASSUME NEW voice \in BOOLEAN, AsteriskPcm(voice) PROVE FALSE
    BY <2>4 DEF AsteriskPcm, OpenReflectorTx
  <2> QED BY <2>1, <2>2, <2>3, <2>4 DEF TxNext
<1> QED BY <1>1, TxInvariant, PTL DEF TxSpec, TxOutlastsPauses
=============================================================================
