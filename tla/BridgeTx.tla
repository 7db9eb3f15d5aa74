------------------------------ MODULE BridgeTx ------------------------------
(***************************************************************************)
(* The Asterisk-to-SVXLink half of src/index.js on top of SvxReflector:    *)
(* voice from Asterisk opens the transmission ("TX") towards the reflector,*)
(* silence closes it, and a refresh interval announces it again, since     *)
(* sendPtt() is silently dropped while the client is not logged in.        *)
(*                                                                         *)
(* Time is counted in ticks.  A timer holds the ticks it still has to run, *)
(* Off when it is not set, and fires at 0 before time goes on: the bridge  *)
(* never keeps the event loop busy for a tick.  The reflector client's own *)
(* timers may fire at any time, as in SvxReflector.                        *)
(***************************************************************************)
EXTENDS SvxReflector

CONSTANTS
    Hang,           \* config.asterisk.svxPttHangMs
    Refresh,        \* config.asterisk.svxPttRefreshMs; 0 disables it
    Gate            \* config.asterisk.asteriskToReflectorDelayMs

Off == -1

ASSUME TimesAssumption ==
    Hang \in Nat \ {0} /\ Refresh \in Nat /\ Gate \in Nat

VARIABLES
    reflectorTx,
    txTimer,            \* reflectorTxTimer
    refreshTimer,       \* reflectorTxRefreshTimer
    gate,               \* allowAsteriskToReflectorAt - now, not below 0
    peerTx,             \* what the reflector has been told about our TX
    silence,            \* ticks since the last voice frame, while TX is open
    unannounced         \* ticks logged in with TX open, the reflector not told

bridgeVars == <<reflectorTx, txTimer, refreshTimer, gate>>
historyVars == <<silence, unannounced>>
clientVars == <<flagVars, connecting, connected, socketVars, timerVars,
                heartbeatVars, clientId>>
txVars == <<vars, bridgeVars, peerTx, historyVars>>

-----------------------------------------------------------------------------

TxInit ==
    /\ Init
    /\ reflectorTx = FALSE
    /\ txTimer = Off
    /\ refreshTimer = Off
    /\ gate = 0
    /\ peerTx = FALSE
    /\ silence = 0 /\ unannounced = 0

\* The reflector has an answering session with us.
Online == tcp = "open" /\ connected

\* reflector.sendPtt(active): dropped unless logged in.
SendPttIfConnected(active) ==
    /\ wire' = IF connected /\ TcpLive THEN wire \cup {"TX_STATUS"} ELSE wire
    /\ peerTx' = IF Online THEN active ELSE peerTx

\* n datagrams, numbered only while logged in.
SendDatagrams(n) ==
    udpSequence' = IF connected THEN (udpSequence + n) % SeqMod ELSE udpSequence

\* openReflectorTx(): announced once; the interval repeats it.
OpenReflectorTx ==
    IF reflectorTx
      THEN UNCHANGED <<reflectorTx, refreshTimer, wire, peerTx>>
      ELSE /\ reflectorTx' = TRUE
           /\ refreshTimer' = IF Refresh > 0 THEN Refresh ELSE Off
           /\ SendPttIfConnected(TRUE)

BadScheduleReflectorTxClose == txTimer' = IF txTimer = Off THEN Hang ELSE txTimer

\* scheduleReflectorTxClose(): every voice frame restarts the hang time.
ScheduleReflectorTxClose == txTimer' = Hang

BadVoiceGate(voice) == TRUE

\* A frame keeps TX open only if it is loud enough.
VoiceGate(voice) == voice

\* asterisk.on('pcm'): gated frames are ignored.  The encoder may need more
\* samples before it gives a frame.
AsteriskPcm(voice) ==
    /\ gate = 0
    /\ IF VoiceGate(voice)
         THEN OpenReflectorTx /\ ScheduleReflectorTxClose
         ELSE UNCHANGED <<reflectorTx, txTimer, refreshTimer, wire, peerTx>>
    /\ silence' = IF voice THEN 0 ELSE silence
    /\ \E n \in IF reflectorTx' THEN {0, 1} ELSE {0} : SendDatagrams(n)
    /\ UNCHANGED <<clientVars, gate, unannounced>>

BadCloseReflectorTx ==
    /\ txTimer' = Off
    /\ refreshTimer' = Off
    /\ reflectorTx' = FALSE
    /\ SendDatagrams(IF reflectorTx THEN 1 ELSE 0)
    /\ UNCHANGED <<wire, peerTx>>

\* closeReflectorTx().
CloseReflectorTx ==
    /\ txTimer' = Off
    /\ refreshTimer' = Off
    /\ reflectorTx' = FALSE
    /\ IF reflectorTx THEN SendPttIfConnected(FALSE) ELSE UNCHANGED <<wire, peerTx>>
    /\ SendDatagrams(IF reflectorTx THEN 1 ELSE 0)

TxTimerFires ==
    /\ txTimer = 0
    /\ CloseReflectorTx
    /\ UNCHANGED <<clientVars, gate, historyVars>>

BadRefreshFires ==
    /\ refreshTimer = 0
    /\ refreshTimer' = Off
    /\ IF reflectorTx THEN SendPttIfConnected(TRUE) ELSE UNCHANGED <<wire, peerTx>>
    /\ UNCHANGED <<clientVars, reflectorTx, txTimer, gate, udpSequence, historyVars>>

\* The refresh interval: announced again whether it was lost or not.
RefreshFires ==
    /\ refreshTimer = 0
    /\ refreshTimer' = Refresh
    /\ IF reflectorTx THEN SendPttIfConnected(TRUE) ELSE UNCHANGED <<wire, peerTx>>
    /\ UNCHANGED <<clientVars, reflectorTx, txTimer, gate, udpSequence, historyVars>>

\* sip.on('call-established'), once more for each retransmitted answer.
CallEstablished ==
    /\ gate' = Gate
    /\ UNCHANGED <<vars, reflectorTx, txTimer, refreshTimer, peerTx, historyVars>>

\* shutdown(): TX is closed, the client is, and the process exits.
Shutdown ==
    /\ txTimer' = Off
    /\ refreshTimer' = Off
    /\ reflectorTx' = FALSE
    /\ peerTx' = FALSE
    /\ SendDatagrams(IF reflectorTx THEN 1 ELSE 0)
    /\ wire' = IF reflectorTx /\ connected /\ TcpLive
                 THEN wire \cup {"TX_STATUS"} ELSE wire
    /\ stopping' = TRUE
    /\ reconnectTimer' = FALSE
    /\ StopHeartbeat
    /\ DestroyTcp
    /\ udp' = "none"
    /\ exited' = TRUE
    /\ UNCHANGED <<started, connecting, connected, reconnectDelayMs, clientId,
                   gate, historyVars>>

\* The reflector forgets a talker whose connection has gone.
ReflectorStep ==
    /\ Fault \/ Client
    /\ peerTx' = (peerTx /\ tcp' = "open")
    /\ UNCHANGED <<bridgeVars, silence>>
    /\ unannounced' = IF tcp' = "open" /\ connected' THEN unannounced ELSE 0

Elapsed(timer) == IF timer = Off THEN Off ELSE timer - 1

\* A tick passes when no timer of the bridge is due.
Tick ==
    /\ txTimer # 0 /\ refreshTimer # 0
    /\ txTimer' = Elapsed(txTimer)
    /\ refreshTimer' = Elapsed(refreshTimer)
    /\ gate' = IF gate > 0 THEN gate - 1 ELSE 0
    /\ silence' = IF reflectorTx THEN silence + 1 ELSE 0
    /\ unannounced' = IF reflectorTx /\ Online /\ ~peerTx THEN unannounced + 1 ELSE 0
    /\ UNCHANGED <<vars, reflectorTx, peerTx>>

TxNext ==
    /\ ~exited
    /\ \/ ReflectorStep
       \/ \E voice \in BOOLEAN : AsteriskPcm(voice)
       \/ TxTimerFires
       \/ RefreshFires
       \/ CallEstablished
       \/ Shutdown
       \/ Tick

TxSpec == TxInit /\ [][TxNext]_txVars

-----------------------------------------------------------------------------
TxTypeOK ==
    /\ TypeOK
    /\ reflectorTx \in BOOLEAN /\ peerTx \in BOOLEAN
    /\ txTimer \in Off .. Hang
    /\ refreshTimer \in Off .. Refresh
    /\ gate \in 0 .. Gate
    /\ silence \in Nat /\ unannounced \in Nat

\* The reflector never takes us for a talker when TX is closed, through any
\* sequence of losses, retries and dropped announcements.
PeerTxImpliesTx == peerTx => reflectorTx

\* TX stays open for at most the hang time after the last frame that was loud
\* enough and came with the gate open: one that the gate holds off counts as
\* silence, and starting the gate afresh keeps TX open no longer.
TxEndsAfterSilence == reflectorTx => silence <= Hang

\* A TX that is interrupted or opened while the client is logged out is known
\* to the reflector no later than one refresh period after the login.
ReannouncedInTime == Refresh > 0 => unannounced <= Refresh

\* Voice frames less than the hang time apart keep TX open: it is closed only
\* after that much silence, or at shutdown.
TxOutlastsPauses ==
    [][reflectorTx /\ ~reflectorTx' => silence >= Hang \/ exited']_txVars
=============================================================================
