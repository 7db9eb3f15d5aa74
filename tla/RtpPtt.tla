------------------------------- MODULE RtpPtt -------------------------------
(***************************************************************************)
(* The SVXLink-to-Asterisk wiring on top of the RTP bridge: AsteriskPtt    *)
(* decides when digits are sent and frames handed over, RtpBridge sends    *)
(* the digits' packets and queues and paces the voice.  A frame is one     *)
(* voice packet and the reflector sends one in a tick (20 ms) at most, but *)
(* the network may bring up to Burst of them at once.                      *)
(*                                                                         *)
(* The pump and the digits set their next timer when they are served, so   *)
(* that a timer served late puts off all that follow: what they lose over  *)
(* an over, a little each time, is not made up until all is silent.        *)
(*                                                                         *)
(* Definitions named Bad... are not the code: each has one mistake in it,  *)
(* which a property below must notice.                                     *)
(***************************************************************************)
EXTENDS AsteriskPtt

CONSTANTS
    Period, MaxQueue, PacketSamples, DigitPackets, DigitSamples, Gap, SeqMod,
    Chunks, Events, AtOnce,
    StartDigits,    \* the length of config.asterisk.pttStartDtmf
    StopDigits,     \* the length of config.asterisk.pttStopDtmf
    Burst,          \* frames the network may bring at once
    MaxLate         \* bound: ticks lost between two silences

VARIABLES
    open, txQueue, txTimer, sequence, timestamp, playing, events, endedAt,
    queued, sent, sinceSent,
    underway,       \* frames that the network may bring now
    opening,        \* asteriskPttOpenPromise: the first of its digits, 0 if null
    late            \* ticks lost by the pump or the digits since all was silent

rtpVars == <<open, txQueue, txTimer, sequence, timestamp, playing, events, endedAt,
             queued, sent, sinceSent>>
jointVars == <<vars, rtpVars, underway, opening, late>>

Rtp == INSTANCE RtpBridge

\* AsteriskPtt's durations are those of the packets and gaps of the digits, and
\* a frame is one packet since config.asterisk.packetMs is a tick as well.
ASSUME JointAssumption ==
    /\ StartDigits \in Nat /\ StopDigits \in Nat \ {0}
    /\ StartTime = StartDigits * (DigitPackets + Gap)
    /\ Period = 1 /\ Burst \in Nat \ {0} /\ MaxLate \in Nat

\* RtpBridge's own assumptions hold of the constants it is given.
ASSUME RtpAssumption ==
    Rtp!QueueAssumption /\ Rtp!RtpTimesAssumption /\ Rtp!RtpBoundsAssumption

\* RtpBridge's inputs by itself include those it gets from the wiring.
ASSUME RtpInputsAssumption ==
    1 .. Frames \subseteq Chunks /\ {StartDigits, StopDigits} \subseteq 1 .. Events

-----------------------------------------------------------------------------

JointInit == Init /\ Rtp!Init /\ underway = Burst /\ opening = 0 /\ late = 0

\* sendPcm() for each of the frames handed over in this step.
HandOver ==
    LET frames == Len(delivered') - Len(delivered)
    IN IF frames > 0 THEN Rtp!SendPcm(frames) ELSE UNCHANGED rtpVars

\* sendDtmfSequence() with the start digits.
SendStartDigits ==
    /\ Rtp!SendDtmfSequence(StartDigits)
    /\ opening' = events'

BadOpusArrives ==
    /\ underway > 0
    /\ underway' = underway - 1
    /\ ReflectorOpus
    /\ IF startDtmf' # Off THEN SendStartDigits ELSE HandOver /\ UNCHANGED opening
    /\ UNCHANGED late

\* reflector.on('opus'): the frame that opens PTT sends the start digits.
OpusArrives ==
    /\ underway > 0
    /\ underway' = underway - 1
    /\ ReflectorOpus
    /\ IF startDtmf' # startDtmf THEN SendStartDigits
                                 ELSE HandOver /\ UNCHANGED opening
    /\ UNCHANGED late

\* The start digits that are still to be played, at most one of them at a time.
StartPlaying == {d \in playing : d.first = opening}

\* The promise of the start digits is settled when the last gap is over.
StartDigitsDone ==
    /\ StartPlaying = {}
    /\ StartDtmfDone /\ HandOver
    /\ opening' = 0
    /\ UNCHANGED <<underway, late>>

OpenersDelayOver == OpenDelayOver /\ HandOver /\ UNCHANGED <<underway, opening, late>>

\* The hang timer's stop digits join whatever is queued or being played.
HangOver ==
    /\ PttTimerFires
    /\ IF HasDtmf /\ remote THEN Rtp!SendDtmfSequence(StopDigits) ELSE UNCHANGED rtpVars
    /\ UNCHANGED <<underway, opening, late>>

EndpointLearnt == SetRemote /\ Rtp!SetRemote /\ UNCHANGED <<underway, opening, late>>

\* The pump and the digits' own delays.
RtpStep ==
    /\ Rtp!PumpSends \/ Rtp!PumpEnds \/ Rtp!DtmfStep
    /\ UNCHANGED <<pttVars, frameVars, outVars, keyed, underway, opening, late>>

\* The pump has a packet to send, or a digit goes on, later than it should.
DigitDue == \E d \in playing : d.wait = 0
Behind == DigitDue \/ (txTimer = 0 /\ txQueue # <<>>)

Silent == playing = {} /\ txQueue = <<>> /\ waiting = <<>> /\ delayed = {}

\* Time goes on, also when the pump or a digit is due, but not between the end of
\* the start digits and the handlers that await it.
JointTick ==
    /\ startDtmf = 0 => StartPlaying # {}
    /\ Behind => late < MaxLate
    /\ Tick /\ Rtp!Tick
    /\ startDtmf' = IF \E d \in StartPlaying : d.wait = 0
                      THEN startDtmf ELSE Elapsed(startDtmf)
    /\ late' = IF Behind THEN late + 1 ELSE IF Silent THEN 0 ELSE late
    /\ underway' = IF underway < Burst THEN underway + 1 ELSE underway
    /\ UNCHANGED opening

Due == StartDigitsDone \/ OpenersDelayOver \/ HangOver \/ RtpStep

JointNext == OpusArrives \/ EndpointLearnt \/ Due \/ JointTick

JointSpec == JointInit /\ [][JointNext]_jointVars

\* The clock goes on and what is due is served.
FairJointSpec == JointSpec /\ WF_jointVars(JointTick) /\ WF_jointVars(Due)

-----------------------------------------------------------------------------
\* What the start digits, a burst of the network and lost time can hold back.
HeldBack == StartTime + Burst + late

\* The hang time does not wait for it.
LateVoice == IF HeldBack > Hang THEN HeldBack - Hang ELSE 0

\* The stop digits do not wait for the queue: voice that belongs before them
\* follows them, but no more than is held back beyond the hang time, which grows
\* with the time that the pump loses in a long over.
TailBounded == ~asteriskPtt => Len(txQueue) <= LateVoice

\* The packets that were queued but neither sent nor are queued still.
Lost == queued - Len(sent) - Len(txQueue)

\* Voice is lost only if the queue is too short for what the digits, a burst and
\* the time lost since all was silent hold back.
LostOnlyIfLate == [][Lost' > Lost => HeldBack > MaxQueue]_jointVars

\* No more than two sequences of digits, the stop digits of one over and the
\* start digits of the next, are played at a time unless so much time is lost
\* that stop digits outlast the whole over that follows.
StopTime == StopDigits * (DigitPackets + Gap)
OverlapBounded ==
    StopTime + late < StartTime + Hang => Cardinality(playing) <= 2

\* When the reflector falls silent, PTT closes, the queue drains and the last
\* digit is played to its end, whatever was in progress.
FallsSilent == <>[](~asteriskPtt /\ txQueue = <<>> /\ playing = {})
=============================================================================
