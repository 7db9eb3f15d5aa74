-------------------------- MODULE RtpBridgeProofs --------------------------
(***************************************************************************)
(* Proofs about RtpBridge, for every period, queue limit and digit length  *)
(* and any number of packets, digits and overlapping sequences: voice      *)
(* packets are a period apart, in order and of the newest, a digit never   *)
(* has the timestamp of one that is over, and all of the state stays in    *)
(* its ranges.                                                             *)
(***************************************************************************)
EXTENDS RtpBridge, FiniteSetTheorems, SequenceTheorems, TLAPS

-----------------------------------------------------------------------------
(* The pace of the voice.  The time since the last packet and the time the *)
(* pump still waits make up a period; without a timer it has all passed.   *)

PaceInv ==
    /\ txTimer \in Off .. Period
    /\ sinceSent \in 0 .. Period
    /\ open => sinceSent + (IF txTimer = Off THEN 0 ELSE txTimer) >= Period

LEMMA PaceInit == Init => PaceInv
  BY RtpTimesAssumption DEF Init, PaceInv, Off

LEMMA PaceStep == PaceInv /\ [Next]_vars => PaceInv'
<1> SUFFICES ASSUME PaceInv, [Next]_vars
             PROVE  PaceInv'
  OBVIOUS
<1> USE RtpTimesAssumption DEF PaceInv, Off
<1>1. ASSUME NEW n \in Chunks, SendPcm(n)
      PROVE  PaceInv'
  BY <1>1 DEF SendPcm, StartTxPump
<1>2. ASSUME NEW digits \in 1 .. Events, SendDtmfSequence(digits)
      PROVE  PaceInv'
  BY <1>2 DEF SendDtmfSequence, queueVars
<1>3. CASE PumpSends
  BY <1>3 DEF PumpSends
<1>4. CASE PumpEnds
  BY <1>4 DEF PumpEnds
<1>5. CASE DtmfStep
  BY <1>5 DEF DtmfStep, queueVars
<1>6. CASE SetRemote
  BY <1>6 DEF SetRemote, queueVars
<1>7. CASE Stop
  BY <1>7 DEF Stop
<1>8. CASE Tick
  BY <1>8 DEF Tick, Elapsed
<1>9. CASE UNCHANGED vars
  BY <1>9 DEF vars, queueVars
<1> QED
  BY <1>1, <1>2, <1>3, <1>4, <1>5, <1>6, <1>7, <1>8, <1>9 DEF Next

\* VoiceSpaced: a voice packet goes out no sooner than a period after the
\* one before it, even if the queue ran empty in between.
THEOREM VoiceAlwaysSpaced == Spec => VoiceSpaced
<1>1. PaceInv /\ [Next]_vars => [Len(sent') > Len(sent) => sinceSent >= Period]_vars
  <2> SUFFICES ASSUME PaceInv, Next
               PROVE  Len(sent') > Len(sent) => sinceSent >= Period
    OBVIOUS
  <2>1. CASE PumpSends
    BY <2>1, RtpTimesAssumption DEF PumpSends, PaceInv, Off, Next
  <2>2. CASE ~PumpSends
    <3>1. UNCHANGED sent
      BY <2>2 DEF Next, SendPcm, SendDtmfSequence, PumpEnds, DtmfStep, SetRemote,
                  Stop, Tick, queueVars
    <3> QED
      BY <3>1
  <2> QED
    BY <2>1, <2>2
<1> QED
  BY <1>1, PaceInit, PaceStep, PTL DEF Spec, VoiceSpaced

-----------------------------------------------------------------------------
(* The timestamps of the digits.  A digit in progress has one that is not  *)
(* in the future; it is moved past as soon as the digit is over.           *)

DigitsInv ==
    /\ timestamp \in Int
    /\ events \in Int
    /\ \A d \in playing : d.ts \in Int /\ d.ts <= timestamp
    /\ \A d \in playing : d.id \in Int /\ d.id <= events
    /\ \A t \in endedAt : t \in Int /\ t < timestamp

\* A digit in progress is a record with these fields.
DigitRecord == [id : Int, first : Int, ts : Int, packets : Int,
                phase : {"tone", "gap"}, digits : Int, wait : Int]

LEMMA DigitsInit == Init => DigitsInv /\ playing \subseteq DigitRecord
  BY DEF Init, DigitsInv

LEMMA BegunDigit ==
    ASSUME timestamp \in Int, events \in Int, NEW first \in Int, NEW digits \in Int
    PROVE  /\ Begun(first, digits) \in DigitRecord
           /\ Begun(first, digits).ts = timestamp
           /\ Begun(first, digits).id = events + 1
  BY RtpTimesAssumption DEF Begun, DigitRecord

\* A step of its sequence leaves a digit its number and its timestamp.
LEMMA WaitChanged ==
    ASSUME NEW d \in DigitRecord, NEW n \in Int
    PROVE  LET e == [d EXCEPT !.wait = n]
           IN e \in DigitRecord /\ e.ts = d.ts /\ e.id = d.id
  BY DEF DigitRecord

LEMMA ShorterDigit ==
    ASSUME NEW d \in DigitRecord
    PROVE  Shorter(d) \in DigitRecord /\ Shorter(d).ts = d.ts /\ Shorter(d).id = d.id
<1> DEFINE p == [d EXCEPT !.packets = @ - 1]
<1>1. p \in DigitRecord /\ p.ts = d.ts /\ p.id = d.id
  BY DEF DigitRecord
<1>2. Shorter(d) = [p EXCEPT !.wait = 1]
  BY DEF Shorter
<1> HIDE DEF p
<1> QED
  BY <1>1, <1>2, WaitChanged

LEMMA SilentDigit ==
    ASSUME NEW d \in DigitRecord
    PROVE  Silent(d) \in DigitRecord /\ Silent(d).ts = d.ts /\ Silent(d).id = d.id
<1> DEFINE p == [d EXCEPT !.phase = "gap"]
<1>1. p \in DigitRecord /\ p.ts = d.ts /\ p.id = d.id
  BY DEF DigitRecord
<1>2. Silent(d) = [p EXCEPT !.wait = Gap]
  BY DEF Silent
<1> HIDE DEF p
<1> QED
  BY <1>1, <1>2, WaitChanged, RtpTimesAssumption

LEMMA DigitsStep ==
    ASSUME DigitsInv, playing \subseteq DigitRecord, [Next]_vars
    PROVE  DigitsInv' /\ (playing \subseteq DigitRecord)'
<1> USE RtpTimesAssumption DEF DigitsInv
<1>1. ASSUME NEW n \in Chunks, SendPcm(n)
      PROVE  DigitsInv' /\ (playing \subseteq DigitRecord)'
  BY <1>1 DEF SendPcm, dtmfVars, DigitRecord
<1>2. ASSUME NEW digits \in 1 .. Events, SendDtmfSequence(digits)
      PROVE  DigitsInv' /\ (playing \subseteq DigitRecord)'
  <2>1. digits \in Int
    BY RtpBoundsAssumption
  <2>2. /\ playing' = playing \cup {Begun(events + 1, digits)}
        /\ events' = events + 1
        /\ endedAt' = endedAt /\ timestamp' = timestamp
    BY <1>2 DEF SendDtmfSequence
  <2> QED
    BY <2>1, <2>2, BegunDigit
<1>3. CASE PumpSends
  BY <1>3 DEF PumpSends, dtmfVars, DigitRecord
<1>4. CASE PumpEnds
  BY <1>4 DEF PumpEnds, dtmfVars, DigitRecord
<1>5. CASE DtmfStep
  <2> PICK d \in playing : NextPacket(d) \/ DigitOver(d) \/ GapOver(d)
    BY <1>5 DEF DtmfStep
  <2>1. d \in DigitRecord
    OBVIOUS
  <2>2. CASE NextPacket(d)
    <3>1. /\ playing' = (playing \ {d}) \cup {Shorter(d)} /\ events' = events
          /\ endedAt' = endedAt /\ timestamp' = timestamp
      BY <2>2 DEF NextPacket
    <3> QED
      BY <2>1, <3>1, ShorterDigit
  <2>3. CASE DigitOver(d)
    <3>1. /\ playing' = (playing \ {d}) \cup {Silent(d)} /\ events' = events
          /\ endedAt' = endedAt \cup {d.ts}
          /\ timestamp' = timestamp + DigitSamples
      BY <2>3 DEF DigitOver
    <3> QED
      BY <2>1, <3>1, SilentDigit
  <2>4. CASE GapOver(d) /\ d.digits > 0
    <3>1. d.first \in Int /\ d.digits \in Int
      BY <2>1 DEF DigitRecord
    <3>2. /\ playing' = (playing \ {d}) \cup {Begun(d.first, d.digits)}
          /\ events' = events + 1
          /\ endedAt' = endedAt /\ timestamp' = timestamp
      BY <2>4 DEF GapOver
    <3> QED
      BY <3>1, <3>2, BegunDigit
  <2>5. CASE GapOver(d) /\ ~(d.digits > 0)
    BY <2>5 DEF GapOver
  <2> QED
    BY <2>2, <2>3, <2>4, <2>5
<1>6. CASE SetRemote
  BY <1>6 DEF SetRemote, dtmfVars, DigitRecord
<1>7. CASE Stop
  BY <1>7 DEF Stop, dtmfVars, DigitRecord
<1>8. CASE Tick
  <2>1. /\ playing' = {[d EXCEPT !.wait = Elapsed(@)] : d \in playing}
        /\ events' = events /\ endedAt' = endedAt /\ timestamp' = timestamp
    BY <1>8 DEF Tick
  <2>2. ASSUME NEW d \in playing
        PROVE  LET e == [d EXCEPT !.wait = Elapsed(@)]
               IN e \in DigitRecord /\ e.ts = d.ts /\ e.id = d.id
    <3>1. d \in DigitRecord /\ Elapsed(d.wait) \in Int
      BY DEF DigitRecord, Elapsed
    <3> QED
      BY <3>1 DEF DigitRecord
  <2> QED
    BY <2>1, <2>2
<1>9. CASE UNCHANGED vars
  BY <1>9 DEF vars, dtmfVars, DigitRecord
<1> QED
  BY <1>1, <1>2, <1>3, <1>4, <1>5, <1>6, <1>7, <1>8, <1>9 DEF Next

\* DigitsDistinct: a digit that begins has a later timestamp than every digit
\* that is over, whatever voice and other sequences were sent meanwhile.
THEOREM DigitsAlwaysDistinct == Spec => DigitsDistinct
<1> DEFINE Fresh == \A d \in playing' : d.id > events => d.ts \notin endedAt
<1>1. DigitsInv /\ playing \subseteq DigitRecord /\ [Next]_vars => [Fresh]_vars
  <2> SUFFICES ASSUME DigitsInv, playing \subseteq DigitRecord, Next,
                      NEW d \in playing', d.id > events
               PROVE  d.ts = timestamp
    BY DEF DigitsInv
  <2>1. ASSUME NEW c \in playing, NEW e, d = e, e.id = c.id
        PROVE  FALSE
    BY <2>1 DEF DigitsInv
  <2>2. d \notin playing
    BY DEF DigitsInv
  <2> USE <2>2 DEF DigitsInv
  <2>3. ASSUME NEW digits \in 1 .. Events, SendDtmfSequence(digits)
        PROVE  d.ts = timestamp
    BY <2>3 DEF SendDtmfSequence, Begun
  <2>4. CASE DtmfStep
    <3> PICK c \in playing : NextPacket(c) \/ DigitOver(c) \/ GapOver(c)
      BY <2>4 DEF DtmfStep
    <3>1. c \in DigitRecord
      OBVIOUS
    <3>2. CASE NextPacket(c)
      <4>1. d = Shorter(c)
        BY <3>2 DEF NextPacket
      <4> QED
        BY <4>1, <3>1, <2>1, ShorterDigit
    <3>3. CASE DigitOver(c)
      <4>1. d = Silent(c)
        BY <3>3 DEF DigitOver
      <4> QED
        BY <4>1, <3>1, <2>1, SilentDigit
    <3>4. CASE GapOver(c)
      BY <3>4 DEF GapOver, Begun
    <3> QED
      BY <3>2, <3>3, <3>4
  <2>5. CASE Tick
    <3>1. PICK c \in playing : d = [c EXCEPT !.wait = Elapsed(@)]
      BY <2>5 DEF Tick
    <3>2. c \in DigitRecord /\ d.id = c.id
      BY <3>1 DEF DigitRecord
    <3> QED
      BY <3>1, <3>2, <2>1
  <2>6. CASE ~DtmfStep /\ ~Tick /\ ~\E digits \in 1 .. Events : SendDtmfSequence(digits)
    <3>1. playing' = playing
      BY <2>6 DEF Next, SendPcm, PumpSends, PumpEnds, SetRemote, Stop, dtmfVars
    <3> QED
      BY <3>1
  <2> QED
    BY <2>3, <2>4, <2>5, <2>6
<1> QED
  BY <1>1, DigitsInit, DigitsStep, PTL DEF Spec, DigitsDistinct
-----------------------------------------------------------------------------
(* The order of the voice.  The queue is the newest packets without a gap: *)
(* those that were dropped and those that were sent came before them.      *)

Contiguous(s, last) == \A i \in 1 .. Len(s) : s[i] = last - Len(s) + i

UpTo(s, n) == \A i \in 1 .. Len(s) : s[i] <= n

VoiceInv ==
    /\ queued \in Int
    /\ txQueue \in Seq(Int) /\ Contiguous(txQueue, queued)
    /\ sent \in Seq(Int) /\ Ascending(sent) /\ UpTo(sent, queued - Len(txQueue))

\* What is dropped leaves the queue without a gap, and within its limit.
LEMMA DropExcessContiguous ==
    ASSUME NEW s \in Seq(Int), NEW last \in Int, Contiguous(s, last), s # <<>>
    PROVE  LET d == DropExcess(s)
           IN /\ d \in Seq(Int) /\ d # <<>> /\ Contiguous(d, last)
              /\ Len(d) <= Len(s) /\ Len(d) <= MaxQueue
<1> USE QueueAssumption
<1>1. CASE Len(s) <= MaxQueue
  BY <1>1 DEF DropExcess
<1>2. CASE ~(Len(s) <= MaxQueue)
  <2> DEFINE k == Len(s) - MaxQueue
             d == SubSeq(s, k + 1, Len(s))
  <2>1. DropExcess(s) = d
    BY <1>2 DEF DropExcess
  <2>2. k \in 0 .. Len(s) /\ Len(s) \in Nat
    BY <1>2
  <2>3. /\ d \in Seq(Int) /\ Len(d) = MaxQueue
        /\ \A i \in 1 .. Len(d) : d[i] = s[i + k]
    BY <2>2
  <2> HIDE DEF d
  <2>4. ASSUME NEW i \in 1 .. Len(d)
        PROVE  d[i] = last - Len(d) + i
    <3>1. i + k \in 1 .. Len(s)
      BY <1>2, <2>3
    <3>2. d[i] = last - Len(s) + (i + k)
      BY <2>3, <3>1 DEF Contiguous
    <3> QED
      BY <2>2, <2>3, <3>2
  <2>5. d # <<>> /\ Len(d) <= Len(s)
    BY <1>2, <2>3
  <2> QED
    BY <2>1, <2>3, <2>4, <2>5 DEF Contiguous
<1> QED
  BY <1>1, <1>2

\* The pump's turn: the oldest packet that is left follows what has been sent.
LEMMA HeadFollows ==
    ASSUME NEW p \in Seq(Int), NEW q \in Seq(Int), q # <<>>, NEW last \in Int,
           NEW n \in Int, n <= last - Len(q),
           Ascending(p), UpTo(p, n), Contiguous(q, last)
    PROVE  /\ Append(p, Head(q)) \in Seq(Int) /\ Ascending(Append(p, Head(q)))
           /\ UpTo(Append(p, Head(q)), last - Len(Tail(q)))
           /\ Tail(q) \in Seq(Int) /\ Contiguous(Tail(q), last)
           /\ Append(p, Head(q))[Len(Append(p, Head(q)))] = last - Len(q) + 1
<1> DEFINE s == Append(p, Head(q))
           t == Tail(q)
<1>1. /\ Len(p) \in Nat /\ Len(q) \in Nat /\ Len(q) >= 1
      /\ Head(q) = last - Len(q) + 1 /\ Head(q) \in Int
  BY DEF Contiguous
<1>2. /\ t \in Seq(Int) /\ Len(t) = Len(q) - 1
      /\ \A i \in 1 .. Len(t) : t[i] = q[i + 1]
  OBVIOUS
<1>3. /\ s \in Seq(Int) /\ Len(s) = Len(p) + 1
      /\ \A i \in 1 .. Len(p) : s[i] = p[i]
      /\ s[Len(p) + 1] = Head(q)
  BY <1>1
<1> HIDE DEF s, t
<1>4. ASSUME NEW i \in 1 .. Len(s)
      PROVE  IF i <= Len(p) THEN i \in 1 .. Len(p) /\ s[i] = p[i]
             ELSE i = Len(p) + 1 /\ s[i] = Head(q)
  BY <1>3
<1>5. Ascending(s)
  <2> SUFFICES ASSUME NEW i \in 1 .. Len(s), NEW j \in 1 .. Len(s), i < j
               PROVE  s[i] < s[j]
    BY DEF Ascending
  <2>0. i <= Len(p)
    BY <1>3
  <2>1. i \in 1 .. Len(p) /\ s[i] = p[i]
    BY <2>0, <1>4
  <2>2. CASE j <= Len(p)
    BY <1>4, <2>1, <2>2 DEF Ascending
  <2>3. CASE ~(j <= Len(p))
    <3>1. p[i] <= n /\ p[i] \in Int
      BY <2>1 DEF UpTo
    <3> QED
      BY <1>1, <1>4, <2>1, <2>3, <3>1
  <2> QED
    BY <2>2, <2>3
<1>6. UpTo(s, last - Len(t))
  <2> SUFFICES ASSUME NEW i \in 1 .. Len(s)
               PROVE  s[i] <= last - Len(t)
    BY DEF UpTo
  <2>1. CASE i \in 1 .. Len(p) /\ s[i] = p[i]
    <3>1. p[i] <= n /\ p[i] \in Int
      BY <2>1 DEF UpTo
    <3> QED
      BY <1>1, <1>2, <2>1, <3>1
  <2>2. CASE i = Len(p) + 1 /\ s[i] = Head(q)
    BY <1>1, <1>2, <2>2
  <2> QED
    BY <1>4, <2>1, <2>2
<1>7. Contiguous(t, last)
  <2> SUFFICES ASSUME NEW i \in 1 .. Len(t)
               PROVE  t[i] = last - Len(t) + i
    BY DEF Contiguous
  <2>1. i + 1 \in 1 .. Len(q) /\ t[i] = q[i + 1]
    BY <1>1, <1>2
  <2>2. q[i + 1] = last - Len(q) + (i + 1)
    BY <2>1 DEF Contiguous
  <2> QED
    BY <1>1, <1>2, <2>1, <2>2
<1> QED
  BY <1>1, <1>2, <1>3, <1>5, <1>6, <1>7 DEF s, t

\* Packets are numbered on from the last one queued.
LEMMA NewPacketsFollow ==
    ASSUME NEW q \in Seq(Int), NEW n \in Int, NEW m \in Nat, Contiguous(q, n)
    PROVE  LET s == q \o [i \in 1 .. m |-> n + i]
           IN s \in Seq(Int) /\ Contiguous(s, n + m) /\ Len(s) = Len(q) + m
<1> DEFINE new == [i \in 1 .. m |-> n + i]
           s == q \o new
<1>1. /\ new \in Seq(Int) /\ Len(new) = m
      /\ \A i \in 1 .. m : new[i] = n + i
  OBVIOUS
<1> HIDE DEF new
<1>2. /\ s \in Seq(Int) /\ Len(s) = Len(q) + Len(new) /\ Len(q) \in Nat
      /\ \A i \in 1 .. Len(q) + Len(new) :
            s[i] = IF i <= Len(q) THEN q[i] ELSE new[i - Len(q)]
  <2> HIDE DEF s
  <2>1. /\ s \in Seq(Int) /\ Len(s) = Len(q) + Len(new)
        /\ \A i \in 1 .. Len(q) + Len(new) :
              s[i] = IF i <= Len(q) THEN q[i] ELSE new[i - Len(q)]
    BY <1>1, ConcatProperties, ZenonT(20) DEF s
  <2> QED
    BY <2>1
<1> HIDE DEF s
<1>3. ASSUME NEW i \in 1 .. Len(s)
      PROVE  s[i] = (n + m) - Len(s) + i
  <2>1. CASE i <= Len(q)
    <3>1. s[i] = q[i] /\ i \in 1 .. Len(q)
      BY <1>2, <2>1
    <3>2. q[i] = n - Len(q) + i
      BY <3>1 DEF Contiguous
    <3> QED
      BY <1>1, <1>2, <3>1, <3>2
  <2>2. CASE ~(i <= Len(q))
    <3>1. s[i] = new[i - Len(q)] /\ i - Len(q) \in 1 .. m
      BY <1>1, <1>2, <2>2
    <3> QED
      BY <1>1, <1>2, <3>1
  <2> QED
    BY <2>1, <2>2
<1> QED
  BY <1>1, <1>2, <1>3 DEF s, new, Contiguous

LEMMA VoiceStep == VoiceInv /\ [Next]_vars => VoiceInv'
<1> SUFFICES ASSUME VoiceInv, [Next]_vars
             PROVE  VoiceInv'
  OBVIOUS
<1> USE DEF VoiceInv
<1>1. ASSUME NEW n \in Chunks, SendPcm(n)
      PROVE  VoiceInv'
  <2> DEFINE s == txQueue \o [i \in 1 .. n |-> queued + i]
  <2>1. n \in Nat
    BY RtpBoundsAssumption
  <2>2. s \in Seq(Int) /\ Contiguous(s, queued + n) /\ Len(s) = Len(txQueue) + n
    BY <2>1, NewPacketsFollow
  <2>3. txQueue' = s /\ queued' = queued + n /\ sent' = sent
    BY <1>1 DEF SendPcm
  <2> HIDE DEF s
  <2>4. queued + n \in Int /\ (queued + n) - Len(s) = queued - Len(txQueue)
    <3>1. Len(txQueue) \in Nat
      OBVIOUS
    <3> QED
      BY <2>1, <2>2, <3>1
  <2>5. UpTo(sent, (queued + n) - Len(s))
    BY <2>4
  <2> QED
    BY <2>2, <2>3, <2>4, <2>5 DEF Ascending, Contiguous, UpTo
<1>2. CASE PumpSends
  <2> DEFINE q == DropExcess(txQueue)
  <2>1. /\ txQueue # <<>> /\ sent' = Append(sent, Head(q)) /\ txQueue' = Tail(q)
        /\ queued' = queued
    BY <1>2 DEF PumpSends
  <2>2. q \in Seq(Int) /\ q # <<>> /\ Contiguous(q, queued) /\ Len(q) <= Len(txQueue)
    BY <2>1, DropExcessContiguous
  <2> HIDE DEF q
  <2>3. queued - Len(txQueue) \in Int /\ queued - Len(txQueue) <= queued - Len(q)
    BY <2>2
  <2> QED
    BY <2>1, <2>2, <2>3, HeadFollows
<1>3. CASE UNCHANGED <<txQueue, queued, sent>>
  BY <1>3 DEF Ascending, Contiguous, UpTo
<1>4. ASSUME ~PumpSends, ~\E n \in Chunks : SendPcm(n)
      PROVE  UNCHANGED <<txQueue, queued, sent>>
  BY <1>4 DEF Next, SendDtmfSequence, PumpEnds, DtmfStep, SetRemote, Stop, Tick,
              vars, queueVars
<1> QED
  BY <1>1, <1>2, <1>3, <1>4

LEMMA VoiceInvariant == Spec => []VoiceInv
<1>1. Init => VoiceInv
  BY DEF Init, VoiceInv, Contiguous, Ascending, UpTo
<1> QED
  BY <1>1, VoiceStep, PTL DEF Spec

\* VoiceInOrder: voice leaves in the order it came and the queue is later than
\* all of it, for every limit, however packets are dropped between two turns.
THEOREM VoiceAlwaysInOrder == Spec => []VoiceInOrder
<1>1. VoiceInv => VoiceInOrder
  <2> SUFFICES ASSUME VoiceInv
               PROVE  Ascending(sent \o txQueue)
    BY DEF VoiceInOrder
  <2> PICK p \in Seq(Int) : p = sent
    BY DEF VoiceInv
  <2> PICK q \in Seq(Int) : q = txQueue
    BY DEF VoiceInv
  <2>1. Ascending(p) /\ UpTo(p, queued - Len(q)) /\ Contiguous(q, queued)
    BY DEF VoiceInv
  <2> DEFINE s == p \o q
  <2>2. /\ Len(s) = Len(p) + Len(q)
        /\ \A i \in 1 .. Len(p) + Len(q) :
              s[i] = IF i <= Len(p) THEN p[i] ELSE q[i - Len(p)]
    BY ConcatProperties, ZenonT(20)
  <2> HIDE DEF s
  <2>3. Len(p) \in Nat /\ Len(q) \in Nat /\ queued \in Int
    BY DEF VoiceInv
  <2>4. ASSUME NEW i \in 1 .. Len(s), NEW j \in 1 .. Len(s), i < j
        PROVE  s[i] < s[j]
    <3>1. CASE j <= Len(p)
      <4>1. s[i] = p[i] /\ s[j] = p[j] /\ i \in 1 .. Len(p) /\ j \in 1 .. Len(p)
        BY <2>2, <2>3, <2>4, <3>1
      <4> QED
        BY <2>1, <2>4, <4>1 DEF Ascending
    <3>2. CASE ~(j <= Len(p))
      <4>1. s[j] = q[j - Len(p)] /\ j - Len(p) \in 1 .. Len(q)
        BY <2>2, <2>3, <3>2
      <4>2. s[j] = queued - Len(q) + (j - Len(p))
        BY <2>1, <4>1 DEF Contiguous
      <4>3. CASE i <= Len(p)
        <5>1. s[i] = p[i] /\ i \in 1 .. Len(p) /\ p[i] \in Int
          BY <2>2, <2>3, <4>3
        <5>2. p[i] <= queued - Len(q)
          BY <2>1, <5>1 DEF UpTo
        <5> QED
          BY <2>3, <3>2, <4>2, <5>1, <5>2
      <4>4. CASE ~(i <= Len(p))
        <5>0. i \in 1 .. Len(p) + Len(q)
          BY <2>2
        <5>1. i - Len(p) \in 1 .. Len(q)
          BY <2>3, <4>4, <5>0
        <5>2. s[i] = q[i - Len(p)]
          BY <2>2, <4>4, <5>0
        <5>3. s[i] = queued - Len(q) + (i - Len(p))
          BY <2>1, <5>1, <5>2 DEF Contiguous
        <5> QED
          BY <2>3, <2>4, <4>2, <5>1, <5>3
      <4> QED
        BY <4>3, <4>4
    <3> QED
      BY <3>1, <3>2
  <2> QED
    BY <2>4 DEF Ascending, s
<1> QED
  BY <1>1, VoiceInvariant, PTL

\* NeverStale: whatever is queued between two turns of the pump, a turn sends
\* one of the MaxQueue newest packets.
THEOREM VoiceNeverStale == Spec => NeverStale
<1> DEFINE Fresh == Len(sent') > Len(sent) => sent'[Len(sent')] + MaxQueue > queued
<1>1. VoiceInv /\ [Next]_vars => [Fresh]_vars
  <2> SUFFICES ASSUME VoiceInv, Next
               PROVE  Fresh
    OBVIOUS
  <2>1. CASE PumpSends
    <3> DEFINE q == DropExcess(txQueue)
    <3>1. txQueue # <<>> /\ sent' = Append(sent, Head(q))
      BY <2>1 DEF PumpSends
    <3>2. /\ q \in Seq(Int) /\ q # <<>> /\ Contiguous(q, queued)
          /\ Len(q) <= Len(txQueue) /\ Len(q) <= MaxQueue
      BY <3>1, DropExcessContiguous DEF VoiceInv
    <3> HIDE DEF q
    <3>3. queued - Len(txQueue) \in Int /\ queued - Len(txQueue) <= queued - Len(q)
      BY <3>2 DEF VoiceInv
    <3>4. sent'[Len(sent')] = queued - Len(q) + 1
      BY <3>1, <3>2, <3>3, HeadFollows DEF VoiceInv
    <3> QED
      BY <3>2, <3>4, QueueAssumption DEF VoiceInv
  <2>2. CASE ~PumpSends
    <3>1. sent' = sent
      BY <2>2 DEF Next, SendPcm, SendDtmfSequence, PumpEnds, DtmfStep, SetRemote,
                  Stop, Tick, queueVars
    <3>2. Len(sent) \in Int
      BY DEF VoiceInv
    <3> QED
      BY <3>1, <3>2
  <2> QED
    BY <2>1, <2>2
<1> QED
  BY <1>1, VoiceInvariant, PTL DEF Spec, NeverStale

-----------------------------------------------------------------------------
(* The ranges.  The clock is the voice packets sent and the digits that    *)
(* are over; a digit is counted once, for no two in progress share a       *)
(* number.                                                                 *)

\* The digits begun that are no longer being sent.
Over == {i \in 1 .. events : \A d \in playing : d.id = i => d.phase = "gap"}

VoiceRanges ==
    /\ open \in BOOLEAN /\ remote \in BOOLEAN
    /\ sequence \in 0 .. SeqMod - 1
    /\ queued \in 0 .. Frames
    /\ txQueue \in Seq(1 .. Frames) /\ sent \in Seq(1 .. Frames)
    /\ Len(sent) + Len(txQueue) <= queued

DigitRanges ==
    /\ events \in 0 .. Events
    /\ playing \subseteq Digit
    /\ endedAt \subseteq Nat
    /\ \A d \in playing : d.id <= events
    /\ \A d, e \in playing : d.id = e.id => d = e

ClockInv ==
    timestamp = Len(sent) * PacketSamples + Cardinality(Over) * DigitSamples

\* What the pump leaves of the queue is of the queue.
LEMMA DropExcessWithin ==
    ASSUME NEW S, NEW s \in Seq(S), s # <<>>
    PROVE  LET d == DropExcess(s)
           IN d \in Seq(S) /\ d # <<>> /\ Len(d) <= Len(s)
<1> USE QueueAssumption
<1>1. CASE Len(s) <= MaxQueue
  BY <1>1 DEF DropExcess
<1>2. CASE ~(Len(s) <= MaxQueue)
  <2> DEFINE k == Len(s) - MaxQueue
             d == SubSeq(s, k + 1, Len(s))
  <2>1. DropExcess(s) = d
    BY <1>2 DEF DropExcess
  <2>2. k \in 0 .. Len(s) /\ Len(s) \in Nat
    BY <1>2
  <2>3. d \in Seq(S) /\ Len(d) = MaxQueue
    BY <2>2
  <2> HIDE DEF d
  <2>4. d # <<>> /\ Len(d) <= Len(s)
    BY <1>2, <2>3
  <2> QED
    BY <2>1, <2>3, <2>4
<1> QED
  BY <1>1, <1>2

\* Sequence numbers wrap below SeqMod.
LEMMA SequenceNumber ==
    ASSUME sequence \in 0 .. SeqMod - 1, NumberPacket
    PROVE  sequence' \in 0 .. SeqMod - 1
<1>1. SeqMod \in Nat /\ SeqMod > 0 /\ sequence + 1 \in Int
  BY RtpTimesAssumption
<1>2. (sequence + 1) % SeqMod \in 0 .. SeqMod - 1
  BY <1>1
<1> QED
  BY <1>2 DEF NumberPacket

LEMMA VoiceRangesStep == VoiceRanges /\ [Next]_vars => VoiceRanges'
<1> SUFFICES ASSUME VoiceRanges, [Next]_vars
             PROVE  VoiceRanges'
  OBVIOUS
<1> USE DEF VoiceRanges
<1>0. Frames \in Nat /\ Len(sent) \in Nat /\ Len(txQueue) \in Nat
  BY RtpBoundsAssumption
<1>1. ASSUME NEW n \in Chunks, SendPcm(n)
      PROVE  VoiceRanges'
  <2> DEFINE new == [i \in 1 .. n |-> queued + i]
  <2>1. n \in Nat /\ queued + n <= Frames /\ queued \in Nat
    BY <1>1, RtpBoundsAssumption DEF SendPcm
  <2>2. new \in Seq(1 .. Frames) /\ Len(new) = n
    <3>1. \A i \in 1 .. n : queued + i \in 1 .. Frames
      BY <1>0, <2>1
    <3> QED
      BY <2>1, <3>1
  <2>3. /\ txQueue' = txQueue \o new /\ queued' = queued + n
        /\ UNCHANGED <<sent, open, remote, sequence>>
    BY <1>1 DEF SendPcm
  <2> HIDE DEF new
  <2>4. txQueue' \in Seq(1 .. Frames) /\ Len(txQueue') = Len(txQueue) + n
    <3>1. txQueue \in Seq(1 .. Frames)
      OBVIOUS
    <3>2. /\ txQueue \o new \in Seq(1 .. Frames)
          /\ Len(txQueue \o new) = Len(txQueue) + Len(new)
      BY <2>2, <3>1, ConcatProperties, ZenonT(20)
    <3> QED
      BY <2>2, <2>3, <3>2
  <2>5. Len(sent) + Len(txQueue') <= queued + n /\ queued + n \in 0 .. Frames
    BY <1>0, <2>1, <2>4
  <2> QED
    BY <2>3, <2>4, <2>5
<1>2. CASE PumpSends
  <2> DEFINE q == DropExcess(txQueue)
  <2>1. /\ txQueue # <<>> /\ sent' = Append(sent, Head(q)) /\ txQueue' = Tail(q)
        /\ UNCHANGED <<queued, open, remote>> /\ NumberPacket
    BY <1>2 DEF PumpSends
  <2>2. q \in Seq(1 .. Frames) /\ q # <<>> /\ Len(q) <= Len(txQueue)
    BY <2>1, DropExcessWithin
  <2> HIDE DEF q
  <2>3. /\ txQueue' \in Seq(1 .. Frames) /\ Len(txQueue') = Len(q) - 1
        /\ sent' \in Seq(1 .. Frames) /\ Len(sent') = Len(sent) + 1
    <3>1. Head(q) \in 1 .. Frames
      BY <2>2, HeadTailProperties, Zenon
    <3>2. Tail(q) \in Seq(1 .. Frames) /\ Len(Tail(q)) = Len(q) - 1
      BY <2>2
    <3>3. /\ Append(sent, Head(q)) \in Seq(1 .. Frames)
          /\ Len(Append(sent, Head(q))) = Len(sent) + 1
      BY <3>1
    <3> QED
      BY <2>1, <3>2, <3>3
  <2>4. Len(sent') + Len(txQueue') <= queued
    <3>1. Len(q) \in Nat
      BY <2>2
    <3> QED
      BY <1>0, <2>2, <2>3, <3>1
  <2> QED
    BY <2>1, <2>3, <2>4, SequenceNumber
<1>3. CASE UNCHANGED <<txQueue, sent, queued>> /\ ~PumpSends
  <2>1. sequence' = sequence \/ NumberPacket
    BY <1>3 DEF Next, SendPcm, SendDtmfSequence, PumpEnds, DtmfStep, NextPacket,
                DigitOver, GapOver, SetRemote, Stop, Tick, vars, queueVars
  <2>2. open' \in BOOLEAN /\ remote' \in BOOLEAN
    BY <1>3 DEF Next, SendPcm, SendDtmfSequence, PumpEnds, DtmfStep, SetRemote,
                Stop, Tick, vars, queueVars
  <2> QED
    BY <1>3, <2>1, <2>2, SequenceNumber
<1>4. ASSUME ~PumpSends, ~\E n \in Chunks : SendPcm(n)
      PROVE  UNCHANGED <<txQueue, sent, queued>>
  BY <1>4 DEF Next, SendDtmfSequence, PumpEnds, DtmfStep, SetRemote, Stop, Tick,
              vars, queueVars
<1> QED
  BY <1>1, <1>2, <1>3, <1>4

\* What a step of its sequence makes of a digit.
LEMMA BegunWithin ==
    ASSUME events \in 0 .. Events, events < Events, timestamp \in Nat,
           NEW first \in 1 .. Events, NEW digits \in 1 .. Events
    PROVE  /\ Begun(first, digits) \in Digit
           /\ Begun(first, digits).id = events + 1
           /\ Begun(first, digits).phase = "tone"
  BY RtpTimesAssumption, RtpBoundsAssumption DEF Begun, Digit

LEMMA WaitWithin ==
    ASSUME NEW d \in Digit, NEW n \in 0 .. Gap + 1
    PROVE  LET e == [d EXCEPT !.wait = n]
           IN e \in Digit /\ e.id = d.id /\ e.phase = d.phase
  BY DEF Digit

LEMMA ShorterWithin ==
    ASSUME NEW d \in Digit, d.packets > 0
    PROVE  /\ Shorter(d) \in Digit
           /\ Shorter(d).id = d.id /\ Shorter(d).phase = d.phase
<1> DEFINE p == [d EXCEPT !.packets = d.packets - 1]
<1>0. d.packets - 1 \in 0 .. DigitPackets /\ 1 \in 0 .. Gap + 1
  BY RtpTimesAssumption DEF Digit
<1>1. p \in Digit /\ p.id = d.id /\ p.phase = d.phase
  BY <1>0 DEF Digit
<1>2. Shorter(d) = [p EXCEPT !.wait = 1]
  BY DEF Shorter
<1> HIDE DEF p
<1> QED
  BY <1>0, <1>1, <1>2, WaitWithin

LEMMA SilentWithin ==
    ASSUME NEW d \in Digit
    PROVE  Silent(d) \in Digit /\ Silent(d).id = d.id /\ Silent(d).phase = "gap"
<1> DEFINE p == [d EXCEPT !.phase = "gap"]
<1>0. Gap \in 0 .. Gap + 1
  BY RtpTimesAssumption
<1>1. p \in Digit /\ p.id = d.id /\ p.phase = "gap"
  BY DEF Digit
<1>2. Silent(d) = [p EXCEPT !.wait = Gap]
  BY DEF Silent
<1> HIDE DEF p
<1> QED
  BY <1>0, <1>1, <1>2, WaitWithin

LEMMA TickWithin ==
    ASSUME NEW d \in Digit
    PROVE  LET e == [d EXCEPT !.wait = Elapsed(@)]
           IN e \in Digit /\ e.id = d.id /\ e.phase = d.phase
<1>1. Elapsed(d.wait) \in 0 .. Gap + 1
  BY RtpTimesAssumption DEF Digit, Elapsed
<1> QED
  BY <1>1, WaitWithin

\* A step keeps the digits apart, and what it makes of them shows on the clock.
OverStep ==
    \/ Over' = Over /\ timestamp' = timestamp /\ sent' = sent
    \/ Over' = Over /\ PumpSends
    \/ /\ \E i \in 1 .. events : i \notin Over /\ Over' = Over \cup {i}
       /\ timestamp' = timestamp + DigitSamples /\ sent' = sent

LEMMA DigitRangesStep ==
    ASSUME DigitRanges, timestamp \in Nat, [Next]_vars
    PROVE  DigitRanges' /\ OverStep
<1> USE DEF DigitRanges
<1>0. /\ Events \in Nat /\ events \in Nat
      /\ \A d \in playing : d \in Digit /\ d.id \in Int /\ d.id <= events /\ d.ts \in Nat
  BY RtpBoundsAssumption DEF Digit
\* A digit begins: in place of one that is done, or of none.
<1>1. ASSUME NEW e \in Digit, e.id = events + 1, e.phase = "tone", events < Events,
             NEW P \in SUBSET playing, \A d \in playing \ P : d.phase = "gap",
             playing' = P \cup {e}, events' = events + 1, endedAt' = endedAt
      PROVE  DigitRanges' /\ Over' = Over
  <2>1. events' \in 0 .. Events
    BY <1>1, RtpBoundsAssumption
  <2>2. \A d \in playing' : d.id <= events'
    BY <1>0, <1>1
  <2>3. \A d \in P : d.id # e.id
    BY <1>0, <1>1
  <2>4. \A c, d \in playing' : c.id = d.id => c = d
    BY <1>1, <2>3
  <2>5. ASSUME NEW i
        PROVE  i \in Over' <=> i \in Over
    <3>1. CASE i = events + 1
      BY <1>0, <1>1, <3>1 DEF Over
    <3>2. CASE i # events + 1
      <4>1. i \in 1 .. events' <=> i \in 1 .. events
        BY <1>0, <1>1, <3>2
      <4>2. (\A d \in playing' : d.id = i => d.phase = "gap")
              <=> (\A d \in playing : d.id = i => d.phase = "gap")
        BY <1>1, <3>2
      <4> QED
        BY <4>1, <4>2 DEF Over
    <3> QED
      BY <3>1, <3>2
  <2> QED
    BY <1>1, <2>1, <2>2, <2>4, <2>5
\* A digit goes on, as f.
<1>2. ASSUME NEW d \in playing, NEW f \in Digit, f.id = d.id,
             playing' = (playing \ {d}) \cup {f}, events' = events,
             endedAt' \subseteq endedAt \cup {d.ts}
      PROVE  /\ DigitRanges'
             /\ f.phase = d.phase => Over' = Over
             /\ d.phase = "tone" /\ f.phase = "gap" =>
                  \E i \in 1 .. events : i \notin Over /\ Over' = Over \cup {i}
  <2>1. endedAt' \subseteq Nat
    BY <1>0, <1>2
  <2>2. \A c \in playing' : c.id <= events'
    BY <1>0, <1>2
  <2>3. \A c, e \in playing' : c.id = e.id => c = e
    BY <1>2
  <2>4. DigitRanges'
    BY <1>2, <2>1, <2>2, <2>3
  <2>5. ASSUME NEW i, i # d.id
        PROVE  i \in Over' <=> i \in Over
    BY <1>2, <2>5 DEF Over
  <2>6. d.id \in Over' <=> f.phase = "gap"
    BY <1>0, <1>2, <2>3 DEF Over, Digit
  <2>7. d.id \in Over <=> d.phase = "gap"
    BY <1>0, <1>2 DEF Over, Digit
  <2>8. d.id \in 1 .. events
    BY <1>0 DEF Digit
  <2>9. ASSUME f.phase = d.phase
        PROVE  Over' = Over
    BY <2>5, <2>6, <2>7, <2>9
  <2>10. ASSUME d.phase = "tone", f.phase = "gap"
         PROVE  d.id \notin Over /\ Over' = Over \cup {d.id}
    BY <2>5, <2>6, <2>7, <2>10
  <2> QED
    BY <2>4, <2>8, <2>9, <2>10
\* A sequence ends.
<1>3. ASSUME NEW d \in playing, d.phase = "gap", playing' = playing \ {d},
             events' = events, endedAt' = endedAt
      PROVE  DigitRanges' /\ Over' = Over
  BY <1>3 DEF Over
<1>4. ASSUME UNCHANGED dtmfVars
      PROVE  DigitRanges' /\ Over' = Over
  BY <1>4 DEF Over, dtmfVars
<1>5. ASSUME NEW digits \in 1 .. Events, SendDtmfSequence(digits)
      PROVE  DigitRanges' /\ OverStep
  <2>1. /\ playing' = playing \cup {Begun(events + 1, digits)}
        /\ events' = events + 1
        /\ endedAt' = endedAt /\ timestamp' = timestamp /\ sent' = sent
        /\ events < Events
    BY <1>5 DEF SendDtmfSequence, queueVars
  <2>2. /\ Begun(events + 1, digits) \in Digit
        /\ Begun(events + 1, digits).id = events + 1
        /\ Begun(events + 1, digits).phase = "tone"
    <3>1. events + 1 \in 1 .. Events BY <1>0, <2>1
    <3> QED BY <2>1, <3>1, BegunWithin
  <2>3. DigitRanges' /\ Over' = Over
    BY <2>1, <2>2, <1>1
  <2> QED
    BY <2>1, <2>3 DEF OverStep
<1>6. CASE DtmfStep
  <2> PICK d \in playing : /\ NextPacket(d) \/ DigitOver(d) \/ GapOver(d)
                           /\ sent' = sent
    BY <1>6 DEF DtmfStep, queueVars
  <2>1. d \in Digit
    OBVIOUS
  <2>2. CASE NextPacket(d)
    <3>1. /\ playing' = (playing \ {d}) \cup {Shorter(d)} /\ events' = events
          /\ endedAt' = endedAt /\ timestamp' = timestamp /\ d.packets > 0
      BY <2>2 DEF NextPacket
    <3>2. DigitRanges' /\ Over' = Over
      BY <2>1, <3>1, <1>2, ShorterWithin
    <3> QED
      BY <3>1, <3>2 DEF OverStep
  <2>3. CASE DigitOver(d)
    <3>1. /\ playing' = (playing \ {d}) \cup {Silent(d)} /\ events' = events
          /\ endedAt' = endedAt \cup {d.ts} /\ d.phase = "tone"
          /\ timestamp' = timestamp + DigitSamples
      BY <2>3 DEF DigitOver
    <3>2. DigitRanges' /\ \E i \in 1 .. events : i \notin Over /\ Over' = Over \cup {i}
      BY <2>1, <3>1, <1>2, SilentWithin
    <3> QED
      BY <3>1, <3>2 DEF OverStep
  <2>4. CASE GapOver(d) /\ d.digits > 0
    <3>1. /\ playing' = (playing \ {d}) \cup {Begun(d.first, d.digits)}
          /\ d.phase = "gap"
          /\ events' = events + 1 /\ events < Events
          /\ endedAt' = endedAt /\ timestamp' = timestamp
      BY <2>4 DEF GapOver
    <3>2. d.first \in 1 .. Events /\ d.digits \in 1 .. Events
      BY <2>1, <2>4 DEF Digit
    <3>3. /\ Begun(d.first, d.digits) \in Digit
          /\ Begun(d.first, d.digits).id = events + 1
          /\ Begun(d.first, d.digits).phase = "tone"
      BY <3>1, <3>2, BegunWithin
    <3>4. /\ playing \ {d} \in SUBSET playing
          /\ \A c \in playing \ (playing \ {d}) : c.phase = "gap"
      BY <3>1
    <3>5. DigitRanges' /\ Over' = Over
      BY <3>1, <3>3, <3>4, <1>1, Zenon
    <3> QED
      BY <3>1, <3>5 DEF OverStep
  <2>5. CASE GapOver(d) /\ ~(d.digits > 0)
    <3>1. /\ playing' = playing \ {d} /\ d.phase = "gap" /\ events' = events
          /\ endedAt' = endedAt /\ timestamp' = timestamp
      BY <2>5 DEF GapOver
    <3> QED
      BY <3>1, <1>3 DEF OverStep
  <2> QED
    BY <2>2, <2>3, <2>4, <2>5
<1>7. CASE Tick
  <2>1. /\ playing' = {[d EXCEPT !.wait = Elapsed(@)] : d \in playing}
        /\ events' = events /\ endedAt' = endedAt /\ timestamp' = timestamp
        /\ sent' = sent
    BY <1>7 DEF Tick
  <2> DEFINE W(d) == [d EXCEPT !.wait = Elapsed(@)]
  <2>2. \A d \in playing : W(d) \in Digit /\ W(d).id = d.id /\ W(d).phase = d.phase
    BY TickWithin
  <2>3. playing' = {W(d) : d \in playing}
    BY <2>1
  <2> HIDE DEF W
  <2>4. /\ playing' \subseteq Digit
        /\ \A d \in playing' : d.id <= events'
        /\ \A c, d \in playing' : c.id = d.id => c = d
    BY <2>1, <2>2, <2>3
  <2>5. Over' = Over
    BY <2>1, <2>2, <2>3 DEF Over
  <2> QED
    BY <2>1, <2>4, <2>5 DEF OverStep
<1>8. CASE PumpSends
  <2>1. UNCHANGED dtmfVars
    BY <1>8 DEF PumpSends
  <2> QED
    BY <1>4, <1>8, <2>1 DEF OverStep
<1>9. CASE UNCHANGED <<dtmfVars, timestamp, sent>>
  BY <1>4, <1>9 DEF OverStep
<1>10. ASSUME ~PumpSends, ~DtmfStep, ~Tick,
              ~\E digits \in 1 .. Events : SendDtmfSequence(digits)
       PROVE  UNCHANGED <<dtmfVars, timestamp, sent>>
  BY <1>10 DEF Next, SendPcm, PumpEnds, SetRemote, Stop, vars, queueVars
<1> QED
  BY <1>5, <1>6, <1>7, <1>8, <1>9, <1>10

\* Neither counter of the clock is past its bound, so neither is the clock.
LEMMA ClockWithin ==
    ASSUME VoiceRanges, DigitRanges, ClockInv
    PROVE  timestamp \in 0 .. Frames * PacketSamples + Events * DigitSamples
<1>1. /\ Frames \in Nat /\ Events \in Nat
      /\ PacketSamples \in Nat /\ DigitSamples \in Nat
  BY RtpBoundsAssumption, RtpTimesAssumption
<1>2. PICK k \in Nat : k = Len(sent) /\ k <= Frames
  <2>1. Len(sent) \in Nat /\ Len(txQueue) \in Nat /\ queued \in Nat
    BY <1>1 DEF VoiceRanges
  <2>2. Len(sent) <= Frames
    BY <1>1, <2>1 DEF VoiceRanges
  <2> QED
    BY <2>1, <2>2
<1>3. PICK c \in Nat : c = Cardinality(Over) /\ c <= Events
  <2>1. events \in Nat /\ events <= Events
    BY <1>1 DEF DigitRanges
  <2>2. IsFiniteSet(1 .. events) /\ Cardinality(1 .. events) = events
    BY <2>1, FS_Interval
  <2>3. Over \in SUBSET (1 .. events)
    BY DEF Over
  <2>4. IsFiniteSet(Over) /\ Cardinality(Over) <= events
    BY <2>2, <2>3, FS_Subset
  <2>5. Cardinality(Over) \in Nat
    BY <2>4, FS_CardinalityType
  <2> QED
    BY <1>1, <2>1, <2>4, <2>5
<1>4. timestamp = k * PacketSamples + c * DigitSamples
  BY <1>2, <1>3 DEF ClockInv
<1>5. \A a, b, n \in Nat : a <= b => a * n \in Nat /\ b * n \in Nat /\ a * n <= b * n
  <2> SUFFICES ASSUME NEW a \in Nat, NEW b \in Nat, NEW n \in Nat, a <= b
               PROVE  a * n \in Nat /\ b * n \in Nat /\ a * n <= b * n
    OBVIOUS
  <2>1. PICK e \in Nat : b = a + e
    BY b - a \in Nat
  <2>2. b * n = a * n + e * n /\ a * n \in Nat /\ e * n \in Nat
    BY <2>1
  <2> QED
    BY <2>2
<1>6. /\ k * PacketSamples \in Nat /\ Frames * PacketSamples \in Nat
      /\ k * PacketSamples <= Frames * PacketSamples
  BY <1>1, <1>2, <1>5
<1>7. /\ c * DigitSamples \in Nat /\ Events * DigitSamples \in Nat
      /\ c * DigitSamples <= Events * DigitSamples
  BY <1>1, <1>3, <1>5
<1> QED
  BY <1>4, <1>6, <1>7

\* The clock goes on by what a step sends or ends.
LEMMA ClockStep ==
    ASSUME VoiceRanges, DigitRanges, ClockInv, OverStep
    PROVE  ClockInv'
<1>1. /\ PacketSamples \in Nat /\ DigitSamples \in Nat /\ Len(sent) \in Nat
  BY RtpTimesAssumption DEF VoiceRanges
<1>2. IsFiniteSet(Over) /\ Cardinality(Over) \in Nat
  <2>1. events \in Int
    BY DEF DigitRanges
  <2>2. Over \in SUBSET (1 .. events)
    BY DEF Over
  <2>3. IsFiniteSet(1 .. events)
    BY <2>1, FS_Interval
  <2>4. IsFiniteSet(Over)
    BY <2>2, <2>3, FS_Subset
  <2> QED
    BY <2>4, FS_CardinalityType
<1>3. CASE Over' = Over /\ timestamp' = timestamp /\ sent' = sent
  BY <1>3 DEF ClockInv
<1>4. CASE Over' = Over /\ PumpSends
  <2>1. sent' = Append(sent, Head(DropExcess(txQueue)))
        /\ timestamp' = timestamp + PacketSamples
    BY <1>4 DEF PumpSends
  <2>2. Len(sent') = Len(sent) + 1
    BY <2>1 DEF VoiceRanges
  <2>3. (Len(sent) + 1) * PacketSamples = Len(sent) * PacketSamples + PacketSamples
    BY <1>1
  <2>4. \A a, b, p \in Nat : (a + b) + p = (a + p) + b
    OBVIOUS
  <2>5. Len(sent) * PacketSamples \in Nat /\ Cardinality(Over) * DigitSamples \in Nat
    BY <1>1, <1>2
  <2> QED
    BY <1>1, <1>4, <2>1, <2>2, <2>3, <2>4, <2>5 DEF ClockInv
<1>5. ASSUME NEW i, i \notin Over, Over' = Over \cup {i},
             timestamp' = timestamp + DigitSamples, sent' = sent
      PROVE  ClockInv'
  <2>1. Cardinality(Over') = Cardinality(Over) + 1
    BY <1>2, <1>5, FS_AddElement
  <2>2. (Cardinality(Over) + 1) * DigitSamples = Cardinality(Over) * DigitSamples + DigitSamples
    BY <1>1, <1>2
  <2>3. Len(sent) * PacketSamples \in Nat /\ Cardinality(Over) * DigitSamples \in Nat
    BY <1>1, <1>2
  <2> QED
    BY <1>1, <1>5, <2>1, <2>2, <2>3 DEF ClockInv
<1> QED
  BY <1>3, <1>4, <1>5 DEF OverStep

\* TypeOK: whatever voice and digits are sent, every counter, timer and record
\* of the bridge stays in its range; no more is on the clock than the voice
\* packets sent and the digits that are over.
THEOREM TypeCorrect == Spec => []TypeOK
<1> DEFINE Ranges == VoiceRanges /\ DigitRanges /\ ClockInv
<1>1. Init => Ranges
  <2> SUFFICES ASSUME Init
               PROVE  Ranges
    OBVIOUS
  <2> USE RtpTimesAssumption, RtpBoundsAssumption DEF Init
  <2>1. VoiceRanges
    BY DEF VoiceRanges
  <2>2. DigitRanges
    BY DEF DigitRanges
  <2>3. Over = {}
    BY DEF Over
  <2>4. ClockInv
    BY <2>3, FS_EmptySet DEF ClockInv
  <2> QED
    BY <2>1, <2>2, <2>4
<1>2. Ranges => timestamp \in Nat
  BY ClockWithin, RtpBoundsAssumption, RtpTimesAssumption
<1>3. Ranges /\ [Next]_vars => Ranges'
  BY <1>2, VoiceRangesStep, DigitRangesStep, ClockStep
<1>4. Ranges /\ PaceInv /\ DigitsInv => TypeOK
  <2> SUFFICES ASSUME Ranges, PaceInv, DigitsInv
               PROVE  TypeOK
    OBVIOUS
  <2>1. endedAt \subseteq 0 .. timestamp
    BY <1>2 DEF DigitRanges, DigitsInv
  <2> QED
    BY <2>1, ClockWithin DEF TypeOK, VoiceRanges, DigitRanges, PaceInv
<1>5. Spec => []PaceInv
  BY PaceInit, PaceStep, PTL DEF Spec
<1>6. Spec => [](DigitsInv /\ playing \subseteq DigitRecord)
  BY DigitsInit, DigitsStep, PTL DEF Spec
<1> QED
  BY <1>1, <1>3, <1>4, <1>5, <1>6, PTL DEF Spec
=============================================================================
