---------------------------- MODULE AsteriskPtt ----------------------------
(***************************************************************************)
(* The SVXLink-to-Asterisk half of src/index.js: each decoded frame runs   *)
(* an async handler that opens Asterisk's PTT (with DTMF digits in RTP     *)
(* mode), may have to wait for the digits and for an extra delay, restarts *)
(* the hang timer and hands its frame to the Asterisk side.                *)
(*                                                                         *)
(* Several handlers are suspended at once.  A handler waits at its first   *)
(* await (the promise of the start digits, in `waiting', resumed in order) *)
(* or, if it is the one that opened PTT, at its second (the open delay, in *)
(* `delayed').  Time is counted in ticks; a timer holds the ticks it still *)
(* has to run, Off when it is not set, and fires at 0 before time goes on. *)
(* The digits are not one timer but a chain of them, which may fall behind *)
(* by any time; the stop digits, awaited by nobody, are RtpPtt's.          *)
(***************************************************************************)
EXTENDS Integers, Sequences, FiniteSets

CONSTANTS
    HasDtmf,        \* RTP mode with pttStartDtmf; FALSE in USRP mode
    RemoteKnown,    \* the Asterisk endpoint is known from the start
    Hang,           \* config.asterisk.pttHangMs
    OpenDelay,      \* config.asterisk.pttOpenDelayMs
    StartTime,      \* how long the start digits take at the least
    Frames          \* bound: frames received from the reflector

Off == -1

\* Definitions named Bad... are not the code: each has one mistake in it, which
\* a property below must notice.

ASSUME ModeAssumption == HasDtmf \in BOOLEAN /\ RemoteKnown \in BOOLEAN
ASSUME PttTimesAssumption ==
    /\ Hang \in Nat \ {0} /\ OpenDelay \in Nat
    /\ StartTime \in Nat \ {0} /\ Frames \in Nat
\* The defaults are 250 and 700 ms.  A longer open delay would let PTT close
\* and open again under a suspended handler, which is outside this module.
ASSUME OpenDelayAssumption == OpenDelay < Hang

VARIABLES
    asteriskPtt,
    pttTimer,       \* asteriskPttTimer
    startDtmf,      \* asteriskPttOpenPromise: digits still to be played
    remote,         \* remoteRtpHost and remoteRtpPort are set
    waiting,        \* handlers at the first await, oldest first
    delayed,        \* handlers in the open delay: [frame, left]
    received,       \* frames received so far; a frame is its number
    openers,        \* the frames that opened PTT
    delivered,      \* frames handed to Asterisk, in that order
    dropped,        \* frames sendPcm() refused, no endpoint being known
    keyed           \* Asterisk has been told of the over by start digits

pttVars == <<asteriskPtt, pttTimer, startDtmf>>
frameVars == <<waiting, delayed, received, openers>>
outVars == <<delivered, dropped>>
vars == <<pttVars, remote, frameVars, outVars, keyed>>

-----------------------------------------------------------------------------

Init ==
    /\ asteriskPtt = FALSE
    /\ pttTimer = Off /\ startDtmf = Off
    /\ remote = RemoteKnown
    /\ waiting = <<>> /\ delayed = {} /\ received = 0 /\ openers = {}
    /\ delivered = <<>> /\ dropped = 0
    /\ keyed = FALSE

BadFinishHang(frames) ==
    /\ pttTimer' = IF frames = <<>> THEN pttTimer ELSE OpenDelay
    /\ delivered' = IF remote THEN delivered \o frames ELSE delivered
    /\ dropped' = IF remote THEN dropped ELSE dropped + Len(frames)

\* The end of openAsteriskPtt() and the sendPcm() after it, for each of the
\* frames in turn: the hang timer is restarted and the frame goes out.
Finish(frames) ==
    /\ pttTimer' = IF frames = <<>> THEN pttTimer ELSE Hang
    /\ delivered' = IF remote THEN delivered \o frames ELSE delivered
    /\ dropped' = IF remote THEN dropped ELSE dropped + Len(frames)

\* Past the start digits, the opener still has the open delay to wait.
OpenersDelay(frame) == IF OpenDelay > 0 THEN {[frame |-> frame, left |-> OpenDelay]}
                       ELSE {}

\* The frame opens PTT.  sendDtmfSequence() returns at once when no endpoint
\* is known; in USRP mode there are no digits.
OpenPtt(frame) ==
    /\ asteriskPtt' = TRUE
    /\ openers' = openers \cup {frame}
    /\ IF HasDtmf /\ remote
         THEN /\ startDtmf' = StartTime
              /\ waiting' = Append(waiting, frame)
              /\ UNCHANGED <<pttTimer, delayed, outVars>>
         ELSE /\ delayed' = delayed \cup OpenersDelay(frame)
              /\ Finish(IF OpenDelay > 0 THEN <<>> ELSE <<frame>>)
              /\ UNCHANGED <<startDtmf, waiting>>

BadJoinPtt(frame) ==
    /\ IF startDtmf # Off
         THEN waiting' = <<frame>> \o waiting /\ UNCHANGED <<pttTimer, outVars>>
         ELSE Finish(<<frame>>) /\ UNCHANGED waiting
    /\ UNCHANGED <<asteriskPtt, startDtmf, delayed, openers>>

\* A later frame waits for the start digits only, if they are being played.
JoinPtt(frame) ==
    /\ IF startDtmf # Off
         THEN waiting' = Append(waiting, frame) /\ UNCHANGED <<pttTimer, outVars>>
         ELSE Finish(<<frame>>) /\ UNCHANGED waiting
    /\ UNCHANGED <<asteriskPtt, startDtmf, delayed, openers>>

\* reflector.on('opus') with a frame that decodes to PCM.
ReflectorOpus ==
    /\ received < Frames
    /\ received' = received + 1
    /\ IF asteriskPtt THEN JoinPtt(received') ELSE OpenPtt(received')
    /\ UNCHANGED <<remote, keyed>>

BadStartDtmfDone ==
    /\ startDtmf = 0
    /\ startDtmf' = Off
    /\ keyed' = TRUE
    /\ delayed' = delayed \cup OpenersDelay(Head(waiting))
    /\ Finish(waiting)
    /\ waiting' = <<>>
    /\ UNCHANGED <<asteriskPtt, remote, received, openers>>

\* The start digits are out: the handlers resume, the opener at its head.
StartDtmfDone ==
    /\ startDtmf = 0
    /\ startDtmf' = Off
    /\ keyed' = TRUE
    /\ delayed' = delayed \cup OpenersDelay(Head(waiting))
    /\ Finish(IF OpenDelay > 0 THEN Tail(waiting) ELSE waiting)
    /\ waiting' = <<>>
    /\ UNCHANGED <<asteriskPtt, remote, received, openers>>

BadOpenDelayOver ==
    \E d \in delayed :
        /\ d.left = 0
        /\ delayed' = delayed \ {d}
        /\ delivered' = IF remote THEN delivered \o <<d.frame>> ELSE delivered
        /\ dropped' = IF remote THEN dropped ELSE dropped + 1
        /\ UNCHANGED <<pttVars, remote, waiting, received, openers, keyed>>

\* The open delay of an opener is over.
OpenDelayOver ==
    \E d \in delayed :
        /\ d.left = 0
        /\ delayed' = delayed \ {d}
        /\ Finish(<<d.frame>>)
        /\ UNCHANGED <<asteriskPtt, startDtmf, remote, waiting, received, openers,
                       keyed>>

\* The hang timer: stop digits, which nothing here waits for, or one USRP unkey
\* packet.
PttTimerFires ==
    /\ pttTimer = 0
    /\ pttTimer' = Off
    /\ asteriskPtt' = FALSE
    /\ keyed' = FALSE
    /\ UNCHANGED <<startDtmf, remote, frameVars, outVars>>

\* setRemote(): the SIP answer, or a first RTP packet, names the endpoint.
SetRemote ==
    /\ ~remote
    /\ remote' = TRUE
    /\ UNCHANGED <<pttVars, frameVars, outVars, keyed>>

Elapsed(timer) == IF timer > 0 THEN timer - 1 ELSE timer

\* Time passes when nothing is due.  One of the digits' delays may be late, and
\* then their end is as far away as it was.
Tick ==
    /\ 0 \notin {pttTimer} \cup {d.left : d \in delayed}
    /\ pttTimer' = Elapsed(pttTimer)
    /\ startDtmf' \in {startDtmf, Elapsed(startDtmf)}
    /\ delayed' = {[d EXCEPT !.left = @ - 1] : d \in delayed}
    /\ UNCHANGED <<asteriskPtt, remote, waiting, received, openers, outVars, keyed>>

TimerStep == StartDtmfDone \/ OpenDelayOver \/ PttTimerFires

Next == ReflectorOpus \/ TimerStep \/ SetRemote \/ Tick

Spec == Init /\ [][Next]_vars

\* Node's clock goes on and its timers fire.
FairSpec == Spec /\ WF_vars(Tick) /\ WF_vars(TimerStep)

-----------------------------------------------------------------------------
TypeOK ==
    /\ asteriskPtt \in BOOLEAN /\ remote \in BOOLEAN /\ keyed \in BOOLEAN
    /\ pttTimer \in Off .. Hang
    /\ startDtmf \in Off .. StartTime
    /\ waiting \in Seq(1 .. Frames)
    /\ delayed \subseteq [frame : 1 .. Frames, left : 0 .. OpenDelay]
    /\ received \in 0 .. Frames
    /\ openers \subseteq 1 .. received
    /\ delivered \in Seq(1 .. Frames)
    /\ dropped \in Nat

\* An open PTT always has something that will lead to its closing: the hang
\* timer, or a handler that will set it.
PttAlwaysTimed ==
    asteriskPtt => pttTimer # Off \/ startDtmf # Off \/ delayed # {}

\* Every frame is handed over once: none is lost or duplicated by a handler
\* that was suspended.
EveryFrameOnce ==
    received = Len(delivered) + dropped + Len(waiting) + Cardinality(delayed)

\* Only a frame that opened PTT can be overtaken by later ones.
OnlyOpenersOvertaken ==
    \A i, j \in 1 .. Len(delivered) :
        i < j /\ delivered[i] > delivered[j] => delivered[j] \in openers

\* No frame goes out with PTT closed: a handler suspended in the open delay
\* finds PTT still open.
KeyedDelivery == [][Len(delivered') > Len(delivered) => asteriskPtt']_vars

\* "Opening Asterisk PTT before sending SVXLink audio": no audio of an over
\* goes out before its start digits.
AudioAfterStartDigits ==
    [][HasDtmf /\ Len(delivered') > Len(delivered) => keyed']_vars
=============================================================================
