----------------------------- MODULE RtpBridge -----------------------------
(***************************************************************************)
(* AsteriskRtpBridge (src/asterisk-rtp.js): the queue of voice packets and *)
(* the timer that paces them, and the DTMF sequences, async functions that *)
(* send their packets between those of the voice and of one another.  All  *)
(* of them number and date their packets from the same two counters.       *)
(*                                                                         *)
(* Time is counted in ticks of 20 ms.  A timer holds the ticks it still    *)
(* has to run, Off when it is not set; one that is due may be served late. *)
(* Definitions named Bad... are not the code: each has one mistake in it,  *)
(* which a property below must notice.                                     *)
(***************************************************************************)
EXTENDS Integers, Sequences, FiniteSets

CONSTANTS
    Period,             \* config.asterisk.packetMs, in ticks
    MaxQueue,           \* config.asterisk.rtpMaxQueuePackets
    PacketSamples,      \* the samples, and bytes, of one voice packet
    DigitPackets,       \* packets of a digit, the three end packets included
    DigitSamples,       \* (digitMs + 60 + gapMs) * 8, added after a digit
    Gap,                \* gapMs, in ticks
    SeqMod,             \* 2^16 in the code: RTP sequence numbers are & 0xffff
    Chunks,             \* voice packets in a PCM frame given to sendPcm()
    Frames,             \* bound: voice packets queued in a behaviour
    Events,             \* bound: digits played in a behaviour
    AtOnce              \* bound: DTMF sequences in progress at a time

Off == -1

\* With a limit of 0 the pump would shift an empty queue and throw.
ASSUME QueueAssumption == MaxQueue \in Nat \ {0}
ASSUME RtpTimesAssumption ==
    /\ Period \in Nat \ {0} /\ Gap \in Nat /\ SeqMod \in Nat \ {0}
    /\ PacketSamples \in Nat \ {0} /\ DigitSamples \in Nat \ {0}
    /\ DigitPackets \in Nat \ {0}
ASSUME RtpBoundsAssumption ==
    Chunks \subseteq Nat /\ Frames \in Nat /\ Events \in Nat /\ AtOnce \in Nat

VARIABLES
    open,               \* between start() and stop()
    remote,             \* remoteRtpHost and remoteRtpPort are set
    txQueue,
    txTimer,
    sequence,
    timestamp,          \* from 0, without its wrap at 2^32
    playing,            \* the DTMF sequences in progress, see Digit
    events,             \* digits begun so far
    endedAt,            \* the timestamps of the digits that are over
    queued,             \* voice packets queued so far; a packet is its number
    sent,               \* the voice packets sent, in that order
    sinceSent           \* ticks since the last of them, not above Period

queueVars == <<txQueue, txTimer, queued, sent, sinceSent>>
dtmfVars == <<playing, events, endedAt>>
vars == <<open, remote, queueVars, dtmfVars, sequence, timestamp>>

-----------------------------------------------------------------------------

\* A digit being played: its number, the first of its sequence, which stands for
\* the promise of that call of sendDtmfSequence(), its timestamp, the packets
\* still to be sent, whether it is in the gap after it, the digits that follow,
\* and the ticks to its next step.
Digit == [id : 1 .. Events, first : 1 .. Events, ts : Nat,
          packets : 0 .. DigitPackets, phase : {"tone", "gap"},
          digits : 0 .. Events, wait : 0 .. Gap + 1]

\* The constructor, and start() with its bind; the endpoint may be configured.
Init ==
    /\ open = TRUE /\ remote \in BOOLEAN
    /\ txQueue = <<>> /\ txTimer = Off
    /\ sequence = 0 /\ timestamp = 0
    /\ playing = {} /\ events = 0 /\ endedAt = {}
    /\ queued = 0 /\ sent = <<>> /\ sinceSent = Period

BadNumberPacket == sequence' = sequence + 1

\* buildRtpPacket() numbers every packet.
NumberPacket == sequence' = (sequence + 1) % SeqMod

BadStartTxPump == txTimer' = IF txTimer = Off /\ txQueue # <<>> THEN 0 ELSE txTimer

\* startTxPump(): at once, unless the pump is going already.
StartTxPump == txTimer' = IF txTimer = Off THEN 0 ELSE txTimer

\* sendPcm() with n whole voice packets in its frame.
SendPcm(n) ==
    /\ remote /\ queued + n <= Frames
    /\ queued' = queued + n
    /\ txQueue' = txQueue \o [i \in 1 .. n |-> queued + i]
    /\ StartTxPump
    /\ UNCHANGED <<open, remote, dtmfVars, sent, sinceSent, sequence, timestamp>>

BadDropExcess(s) == s

BadDropOneMore(s) ==
    IF Len(s) < MaxQueue THEN s ELSE SubSeq(s, Len(s) - MaxQueue + 2, Len(s))

\* dropExcessQueuedAudio(), called by the pump alone: the oldest packets go.
DropExcess(s) ==
    IF Len(s) <= MaxQueue THEN s ELSE SubSeq(s, Len(s) - MaxQueue + 1, Len(s))

BadPumpSends ==
    /\ txTimer = 0 /\ txQueue # <<>>
    /\ LET queue == DropExcess(txQueue)
       IN sent' = Append(sent, Head(queue)) /\ txQueue' = Tail(queue)
    /\ txTimer' = IF txQueue' = <<>> THEN Off ELSE Period
    /\ sinceSent' = 0
    /\ NumberPacket
    /\ timestamp' = timestamp + PacketSamples
    /\ UNCHANGED <<open, remote, dtmfVars, queued>>

BadPumpSendsLast ==
    /\ txTimer = 0 /\ txQueue # <<>>
    /\ LET queue == DropExcess(txQueue)
       IN /\ sent' = Append(sent, queue[Len(queue)])
          /\ txQueue' = SubSeq(queue, 1, Len(queue) - 1)
    /\ txTimer' = Period
    /\ sinceSent' = 0
    /\ NumberPacket
    /\ timestamp' = timestamp + PacketSamples
    /\ UNCHANGED <<open, remote, dtmfVars, queued>>

\* The pump's timer: one packet, and the timer again even if it was the last.
PumpSends ==
    /\ txTimer = 0 /\ txQueue # <<>>
    /\ LET queue == DropExcess(txQueue)
       IN sent' = Append(sent, Head(queue)) /\ txQueue' = Tail(queue)
    /\ txTimer' = Period
    /\ sinceSent' = 0
    /\ NumberPacket
    /\ timestamp' = timestamp + PacketSamples
    /\ UNCHANGED <<open, remote, dtmfVars, queued>>

\* The pump's timer finds nothing to send: it is not set again.
PumpEnds ==
    /\ txTimer = 0 /\ txQueue = <<>>
    /\ txTimer' = Off
    /\ UNCHANGED <<open, remote, dtmfVars, txQueue, queued, sent, sinceSent,
                   sequence, timestamp>>

-----------------------------------------------------------------------------
\* sendDtmfDigit() up to its first delay: the digit keeps the time it began.
Begun(first, digits) ==
    [id |-> events + 1, first |-> first, ts |-> timestamp,
     packets |-> DigitPackets - 1, phase |-> "tone", digits |-> digits - 1, wait |-> 1]

\* sendDtmfSequence() with that many digits it knows: others are skipped.
SendDtmfSequence(digits) ==
    /\ remote
    /\ Cardinality(playing) < AtOnce /\ events < Events
    /\ events' = events + 1
    /\ playing' = playing \cup {Begun(events + 1, digits)}
    /\ NumberPacket
    /\ UNCHANGED <<open, remote, queueVars, endedAt, timestamp>>

\* A digit with one packet fewer to send, and one in the gap after it.
Shorter(d) == [d EXCEPT !.packets = @ - 1, !.wait = 1]
Silent(d) == [d EXCEPT !.phase = "gap", !.wait = Gap]

\* The next packet of a digit carries the digit's timestamp.
NextPacket(d) ==
    /\ d.phase = "tone" /\ d.packets > 0
    /\ playing' = (playing \ {d}) \cup {Shorter(d)}
    /\ NumberPacket
    /\ UNCHANGED <<events, endedAt, timestamp>>

BadDigitOver(d) ==
    /\ d.phase = "tone" /\ d.packets = 0
    /\ playing' = (playing \ {d}) \cup {Silent(d)}
    /\ endedAt' = endedAt \cup {d.ts}
    /\ UNCHANGED <<events, sequence, timestamp>>

\* Its last packet is out: the clock is moved past it, and the gap begins.
DigitOver(d) ==
    /\ d.phase = "tone" /\ d.packets = 0
    /\ playing' = (playing \ {d}) \cup {Silent(d)}
    /\ endedAt' = endedAt \cup {d.ts}
    /\ timestamp' = timestamp + DigitSamples
    /\ UNCHANGED <<events, sequence>>

\* The gap is over: the next digit of the sequence, or its end.
GapOver(d) ==
    /\ d.phase = "gap"
    /\ IF d.digits > 0
         THEN /\ events < Events
              /\ events' = events + 1
              /\ playing' = (playing \ {d}) \cup {Begun(d.first, d.digits)}
              /\ NumberPacket
         ELSE /\ playing' = playing \ {d}
              /\ UNCHANGED <<events, sequence>>
    /\ UNCHANGED <<endedAt, timestamp>>

\* A DTMF sequence resumes from one of its delays.
DtmfStep ==
    \E d \in playing :
        /\ d.wait = 0
        /\ NextPacket(d) \/ DigitOver(d) \/ GapOver(d)
        /\ UNCHANGED <<open, remote, queueVars>>

\* setRemote(), for a SIP answer or the first RTP packet that comes in.
SetRemote ==
    /\ ~remote
    /\ remote' = TRUE
    /\ UNCHANGED <<open, queueVars, dtmfVars, sequence, timestamp>>

\* stop(), after which the process exits.
Stop ==
    /\ open' = FALSE
    /\ txTimer' = Off
    /\ UNCHANGED <<remote, dtmfVars, txQueue, queued, sent, sinceSent, sequence,
                   timestamp>>

Elapsed(timer) == IF timer > 0 THEN timer - 1 ELSE timer

Tick ==
    /\ txTimer' = Elapsed(txTimer)
    /\ playing' = {[d EXCEPT !.wait = Elapsed(@)] : d \in playing}
    /\ sinceSent' = IF sinceSent < Period THEN sinceSent + 1 ELSE sinceSent
    /\ UNCHANGED <<open, remote, txQueue, queued, sent, events, endedAt, sequence,
                   timestamp>>

Next ==
    /\ open
    /\ \/ \E n \in Chunks : SendPcm(n)
       \/ \E digits \in 1 .. Events : SendDtmfSequence(digits)
       \/ PumpSends \/ PumpEnds \/ DtmfStep \/ SetRemote \/ Stop \/ Tick

Spec == Init /\ [][Next]_vars

-----------------------------------------------------------------------------
TypeOK ==
    /\ open \in BOOLEAN /\ remote \in BOOLEAN
    /\ txQueue \in Seq(1 .. Frames)
    /\ txTimer \in Off .. Period
    /\ sequence \in 0 .. SeqMod - 1
    /\ timestamp \in 0 .. Frames * PacketSamples + Events * DigitSamples
    /\ playing \subseteq Digit
    /\ events \in 0 .. Events
    /\ endedAt \subseteq 0 .. timestamp
    /\ queued \in 0 .. Frames
    /\ sent \in Seq(1 .. Frames)
    /\ sinceSent \in 0 .. Period

Ascending(s) == \A i, j \in 1 .. Len(s) : i < j => s[i] < s[j]

\* Voice leaves in the order it came, each packet once at most, and what is
\* queued is later than all that has been sent.
VoiceInOrder == Ascending(sent \o txQueue)

\* However far the queue has grown between two turns of the pump, what it
\* sends is one of the MaxQueue newest packets.
NeverStale ==
    [][Len(sent') > Len(sent) => sent'[Len(sent')] + MaxQueue > queued]_vars

\* The pump keeps two voice packets a period apart, also when the queue runs
\* empty in between and sendPcm() starts the pump again.
VoiceSpaced == [][Len(sent') > Len(sent) => sinceSent >= Period]_vars

\* A digit is told from an earlier one by its timestamp, whatever voice and
\* other sequences are sent meanwhile: only digits that overlap may share one.
DigitsDistinct ==
    [][\A d \in playing' : d.id > events => d.ts \notin endedAt]_vars
=============================================================================
