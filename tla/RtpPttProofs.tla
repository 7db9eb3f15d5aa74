---------------------------- MODULE RtpPttProofs ----------------------------
(***************************************************************************)
(* Proofs about RtpPtt, for all lengths of the digits, the hang time and   *)
(* the bursts of the network: the composition implements the wiring and    *)
(* the RTP bridge, no more voice than the digits and the time lost hold    *)
(* back is sent after PTT has closed or waits in the queue, and no more    *)
(* than two sequences of digits are played at a time unless they are late. *)
(***************************************************************************)
EXTENDS RtpPtt, AsteriskPttProofs

-----------------------------------------------------------------------------
(* The wiring.                                                             *)

LEMMA JointIsWiring == [JointNext]_jointVars => [Next]_vars
<1> SUFFICES ASSUME JointNext \/ UNCHANGED jointVars PROVE Next \/ UNCHANGED vars
  OBVIOUS
<1>1. CASE OpusArrives BY <1>1 DEF OpusArrives, Next
<1>2. CASE EndpointLearnt BY <1>2 DEF EndpointLearnt, Next
<1>3. CASE StartDigitsDone BY <1>3 DEF StartDigitsDone, Next, TimerStep
<1>4. CASE OpenersDelayOver BY <1>4 DEF OpenersDelayOver, Next, TimerStep
<1>5. CASE HangOver BY <1>5 DEF HangOver, Next, TimerStep
<1>6. CASE RtpStep
  <2>1. UNCHANGED remote BY <1>6 DEF RtpStep, Rtp!PumpSends, Rtp!PumpEnds, Rtp!DtmfStep
  <2> QED BY <1>6, <2>1 DEF RtpStep, vars
<1>7. CASE JointTick BY <1>7 DEF JointTick, Next
<1>8. CASE UNCHANGED jointVars BY <1>8 DEF jointVars
<1> QED
  BY <1>1, <1>2, <1>3, <1>4, <1>5, <1>6, <1>7, <1>8 DEF JointNext, Due

\* On top of the RTP bridge the wiring does nothing it cannot do alone, so that
\* all that is proved of it alone holds there too.
THEOREM WiringOnRtp == JointSpec => Spec
<1>1. JointInit => Init BY DEF JointInit
<1> QED BY <1>1, JointIsWiring, PTL DEF JointSpec, Spec

Wiring == PttTypes /\ PttInv /\ FrameInv

LEMMA WiringStep == Wiring /\ [JointNext]_jointVars => Wiring'
BY PttTypesStep, PttInvStep, FrameStep, JointIsWiring DEF Wiring

LEMMA WiringInvariant == JointSpec => []Wiring
<1>1. PttTypes /\ PttInv /\ FrameInv => Wiring BY DEF Wiring
<1> QED BY <1>1, WiringOnRtp, FrameInvariant, PTL

-----------------------------------------------------------------------------
(* The digits.  One digit at most of the start digits is being played; the *)
(* sequence lasts as long as the wiring awaits it, however late it is.     *)

DigitTime == DigitPackets + Gap

\* How long a sequence whose digit is d still takes, if nothing is late.
Remaining(d) ==
    IF d.phase = "tone" THEN d.wait + d.packets + Gap + d.digits * DigitTime
                        ELSE d.wait + d.digits * DigitTime

Tone == [id : Int, first : Int, ts : Int, packets : Nat, phase : {"tone", "gap"},
         digits : Nat, wait : Nat]

TonesTyped ==
    /\ playing \subseteq Tone
    /\ events \in Nat /\ timestamp \in Int
    /\ \A d \in playing : 0 < d.first /\ d.first <= events

\* One sequence at most, which ends when the timer does.
IsPlayed(part, timer) ==
    /\ \A d, e \in part : d = e
    /\ \A d \in part : Remaining(d) = timer

DigitInv ==
    /\ startDtmf = Off => opening = 0
    /\ IsPlayed(StartPlaying, startDtmf)

LEMMA DigitTimes ==
    ASSUME NEW n \in Nat, n > 0
    PROVE  /\ DigitTime \in Nat /\ n - 1 \in Nat
           /\ (n - 1) * DigitTime \in Nat
           /\ (n - 1) * DigitTime + DigitTime = n * DigitTime
<1>1. DigitTime \in Nat BY RtpAssumption DEF Rtp!RtpTimesAssumption, DigitTime
<1>2. ASSUME NEW t \in Nat
      PROVE  (n - 1) * t \in Nat /\ (n - 1) * t + t = n * t
  OBVIOUS
<1> QED BY <1>1, <1>2

LEMMA RemainingType ==
    ASSUME NEW d \in Tone
    PROVE  Remaining(d) \in Nat /\ Remaining(d) >= d.wait
<1>1. DigitTime \in Nat /\ Gap \in Nat
  BY RtpAssumption DEF Rtp!RtpTimesAssumption, DigitTime
<1>2. ASSUME NEW x \in Nat, NEW y \in Nat PROVE x * y \in Nat OBVIOUS
<1>3. d.digits * DigitTime \in Nat BY <1>1, <1>2 DEF Tone
<1>4. d.wait \in Nat /\ d.packets \in Nat BY DEF Tone
<1>5. PICK m \in Nat : m = d.digits * DigitTime BY <1>3
<1> QED BY <1>1, <1>4, <1>5 DEF Remaining

\* A sequence begins with all its time before it.
LEMMA BegunLasts ==
    ASSUME TonesTyped, NEW first \in Int, NEW n \in Nat, n > 0
    PROVE  /\ Rtp!Begun(first, n) \in Tone
           /\ Rtp!Begun(first, n).first = first
           /\ Remaining(Rtp!Begun(first, n)) = n * DigitTime
<1>1. /\ DigitPackets \in Nat /\ DigitPackets > 0 /\ Gap \in Nat
  BY RtpAssumption DEF Rtp!RtpTimesAssumption
<1>2. PICK m \in Nat : m = (n - 1) * DigitTime BY DigitTimes
<1>3. n * DigitTime = m + DigitTime BY <1>2, DigitTimes
<1>4. Rtp!Begun(first, n) \in Tone BY <1>1 DEF Rtp!Begun, TonesTyped, Tone
<1>5. Remaining(Rtp!Begun(first, n)) = 1 + (DigitPackets - 1) + Gap + m
  BY <1>2 DEF Rtp!Begun, Remaining
<1>6. Rtp!Begun(first, n).first = first BY DEF Rtp!Begun
<1> QED BY <1>1, <1>3, <1>4, <1>5, <1>6 DEF DigitTime

\* The digit d is replaced by one of the same sequence that keeps its end, or the
\* sequence is over.
GoesOn(d) ==
    /\ \/ \E e \in Tone : /\ playing' = (playing \ {d}) \cup {e}
                          /\ e.first = d.first /\ Remaining(e) = Remaining(d)
       \/ playing' = playing \ {d}
    /\ events' \in Nat /\ events' >= events /\ timestamp' \in Int

LEMMA SequenceGoesOn ==
    ASSUME TonesTyped, NEW d \in playing, d.wait = 0,
           Rtp!NextPacket(d) \/ Rtp!DigitOver(d) \/ Rtp!GapOver(d)
    PROVE  GoesOn(d)
<1>1. /\ DigitPackets \in Nat /\ Gap \in Nat /\ DigitSamples \in Nat
  BY RtpAssumption DEF Rtp!RtpTimesAssumption
<1>2. d \in Tone BY DEF TonesTyped
<1>3. CASE Rtp!NextPacket(d)
  <2> PICK e : e = Rtp!Shorter(d) OBVIOUS
  <2>1. d.phase = "tone" /\ d.packets > 0 /\ playing' = (playing \ {d}) \cup {e}
        /\ UNCHANGED <<events, timestamp>>
    BY <1>3 DEF Rtp!NextPacket
  <2>2. e \in Tone /\ e.phase = "tone" /\ e.packets = d.packets - 1 /\ e.wait = 1
        /\ e.digits = d.digits /\ e.first = d.first
    <3>1. d.packets - 1 \in Nat BY <1>2, <2>1 DEF Tone
    <3>2. e = [d EXCEPT !.packets = d.packets - 1, !.wait = 1] BY DEF Rtp!Shorter
    <3>3. /\ DOMAIN d = {"id", "first", "ts", "packets", "phase", "digits", "wait"}
          /\ d.id \in Int /\ d.first \in Int /\ d.ts \in Int /\ d.digits \in Nat
      BY <1>2 DEF Tone
    <3>4. e = [id |-> d.id, first |-> d.first, ts |-> d.ts,
               packets |-> d.packets - 1, phase |-> "tone", digits |-> d.digits,
               wait |-> 1]
      BY <1>2, <2>1, <3>2 DEF Tone
    <3> QED BY <3>1, <3>3, <3>4 DEF Tone
  <2>3. Remaining(e) = Remaining(d)
    <3>1. d.packets \in Nat BY <1>2 DEF Tone
    <3>2. e.wait + e.packets = d.wait + d.packets BY <2>2, <3>1
    <3> QED BY <2>1, <2>2, <3>2 DEF Remaining
  <2> QED BY <2>1, <2>2, <2>3 DEF TonesTyped, GoesOn
<1>4. CASE Rtp!DigitOver(d)
  <2> DEFINE e == Rtp!Silent(d)
  <2>1. d.phase = "tone" /\ d.packets = 0 /\ playing' = (playing \ {d}) \cup {e}
        /\ events' = events /\ timestamp' = timestamp + DigitSamples
    BY <1>4 DEF Rtp!DigitOver
  <2>2. e \in Tone /\ e.phase = "gap" /\ e.wait = Gap /\ e.digits = d.digits
        /\ e.first = d.first
    BY <1>1, <1>2 DEF Rtp!Silent, Tone
  <2> HIDE DEF e
  <2>3. Remaining(e) = Remaining(d)
    <3>1. d.wait + d.packets + Gap = e.wait BY <1>1, <2>1, <2>2
    <3> QED BY <2>1, <2>2, <3>1 DEF Remaining
  <2> QED BY <1>1, <2>1, <2>2, <2>3 DEF TonesTyped, GoesOn
<1>5. CASE Rtp!GapOver(d) /\ d.digits > 0
  <2>1. d.phase = "gap"
        /\ playing' = (playing \ {d}) \cup {Rtp!Begun(d.first, d.digits)}
        /\ events' = events + 1 /\ timestamp' = timestamp
    BY <1>5 DEF Rtp!GapOver
  <2>2. d.digits \in Nat /\ d.first \in Int BY <1>2 DEF Tone
  <2>3. /\ Rtp!Begun(d.first, d.digits) \in Tone
        /\ Rtp!Begun(d.first, d.digits).first = d.first
        /\ Remaining(Rtp!Begun(d.first, d.digits)) = d.digits * DigitTime
    BY <1>5, <2>2, BegunLasts
  <2>4. d.digits * DigitTime \in Nat
    BY <1>5, <2>2, <2>3, RemainingType
  <2>5. Remaining(d) = d.digits * DigitTime BY <2>1, <2>4 DEF Remaining
  <2>6. PICK e \in Tone : e = Rtp!Begun(d.first, d.digits) BY <2>3
  <2> QED BY <2>1, <2>3, <2>5, <2>6 DEF TonesTyped, GoesOn
<1>6. CASE Rtp!GapOver(d) /\ ~(d.digits > 0)
  BY <1>6 DEF Rtp!GapOver, TonesTyped, GoesOn
<1> QED BY <1>3, <1>4, <1>5, <1>6

LEMMA DtmfGoesOn ==
    ASSUME TonesTyped, Rtp!DtmfStep
    PROVE  \E d \in playing : d.wait = 0 /\ GoesOn(d) /\ TonesTyped'
<1>1. PICK d \in playing :
           /\ d.wait = 0
           /\ Rtp!NextPacket(d) \/ Rtp!DigitOver(d) \/ Rtp!GapOver(d)
  BY DEF Rtp!DtmfStep
<1>2. GoesOn(d) BY <1>1, SequenceGoesOn
<1>3. d \in Tone /\ 0 < d.first /\ d.first <= events /\ events \in Nat
  BY DEF TonesTyped
<1>4. \A e \in playing : e.first \in Int BY DEF TonesTyped, Tone
<1>5. TonesTyped' BY <1>2, <1>3, <1>4 DEF GoesOn, TonesTyped, Tone
<1> QED BY <1>1, <1>2, <1>5

\* A sequence of n digits, n * DigitTime long, joins what is played.
LEMMA NewlyPlayed ==
    ASSUME TonesTyped, NEW n \in Nat, n > 0, Rtp!SendDtmfSequence(n)
    PROVE  /\ events' = events + 1 /\ TonesTyped'
           /\ \E d \in Tone : /\ playing' = playing \cup {d}
                              /\ d.first = events' /\ Remaining(d) = n * DigitTime
<1>1. /\ playing' = playing \cup {Rtp!Begun(events + 1, n)}
      /\ events' = events + 1 /\ timestamp' = timestamp
  BY DEF Rtp!SendDtmfSequence
<1>2. events \in Nat /\ events + 1 \in Nat BY DEF TonesTyped
<1>3. PICK d \in Tone : /\ d = Rtp!Begun(events + 1, n) /\ d.first = events + 1
                        /\ Remaining(d) = n * DigitTime
  BY <1>2, BegunLasts
<1>4. TonesTyped'
  <2>1. \A e \in playing : e.first \in Int BY DEF TonesTyped, Tone
  <2> QED BY <1>1, <1>2, <1>3, <2>1 DEF TonesTyped
<1> QED BY <1>1, <1>3, <1>4

\* The start and stop digits take some time, so there are some.
LEMMA SomeDigits ==
    /\ StartDigits \in Nat /\ StartDigits > 0
    /\ StopDigits \in Nat /\ StopDigits > 0
    /\ StartTime = StartDigits * DigitTime /\ StopTime = StopDigits * DigitTime
<1>1. DigitTime \in Nat BY RtpAssumption DEF Rtp!RtpTimesAssumption, DigitTime
<1>2. StartTime = StartDigits * DigitTime /\ StopTime = StopDigits * DigitTime
  BY JointAssumption DEF DigitTime, StopTime
<1>3. 0 * DigitTime = 0 BY <1>1
<1>4. StartDigits # 0 BY <1>2, <1>3, PttTimesAssumption
<1> QED BY <1>2, <1>4, JointAssumption

LEMMA HandOverTones ==
    ASSUME HandOver
    PROVE  UNCHANGED <<playing, events>> /\ timestamp' = timestamp
<1>1. CASE Len(delivered') - Len(delivered) > 0
  BY <1>1 DEF HandOver, Rtp!SendPcm, Rtp!dtmfVars
<1>2. CASE ~(Len(delivered') - Len(delivered) > 0)
  BY <1>2 DEF HandOver, rtpVars
<1> QED BY <1>1, <1>2

\* The frame that opens PTT with digits: nothing of the start digits was left.
LEMMA OpeningFrame ==
    ASSUME Wiring, DigitInv, OpusArrives, startDtmf' # startDtmf
    PROVE  /\ ~asteriskPtt /\ asteriskPtt' /\ startDtmf = Off /\ opening = 0
           /\ startDtmf' = StartTime /\ SendStartDigits /\ pttTimer' = pttTimer
           /\ UNCHANGED <<remote, late>>
<1>1. ReflectorOpus /\ SendStartDigits /\ UNCHANGED <<remote, late>>
  BY DEF OpusArrives, ReflectorOpus
<1>2. ~asteriskPtt BY <1>1 DEF ReflectorOpus, JoinPtt
<1>3. OpenPtt(received') BY <1>1, <1>2 DEF ReflectorOpus
<1>4. startDtmf = Off BY <1>2 DEF Wiring, PttInv
<1> QED BY <1>1, <1>2, <1>3, <1>4 DEF OpenPtt, DigitInv

\* One tick of the digits: all get on with their delays but those that are late.
After(d) == [d EXCEPT !.wait = Rtp!Elapsed(@)]

LEMMA AfterTick ==
    ASSUME NEW d \in Tone
    PROVE  /\ After(d) \in Tone /\ After(d).first = d.first
           /\ d.wait = 0 => Remaining(After(d)) = Remaining(d)
           /\ d.wait # 0 => Remaining(After(d)) = Remaining(d) - 1
<1> PICK e : e = After(d) OBVIOUS
<1> DEFINE w1 == IF d.wait > 0 THEN d.wait - 1 ELSE d.wait
<1>1. w1 \in Nat BY DEF Tone
<1>2. e = [d EXCEPT !.wait = w1] BY DEF After, Rtp!Elapsed
<1>3. w1 = (IF d.wait = 0 THEN 0 ELSE d.wait - 1) BY DEF Tone
<1> HIDE DEF w1
<1>4. /\ e \in Tone /\ e.wait = w1 /\ e.phase = d.phase
      /\ e.packets = d.packets /\ e.digits = d.digits /\ e.first = d.first
  BY <1>1, <1>2 DEF Tone
<1>5. d.digits * DigitTime \in Nat /\ Gap \in Nat
  <2>1. ASSUME NEW x \in Nat, NEW y \in Nat PROVE x * y \in Nat OBVIOUS
  <2> QED BY <2>1, RtpAssumption DEF Tone, Rtp!RtpTimesAssumption, DigitTime
<1>6. PICK m \in Nat, w \in Nat, k \in Nat, g \in Nat, v \in Nat :
           /\ m = d.digits * DigitTime /\ w = d.wait /\ k = d.packets /\ g = Gap
           /\ v = w1
  BY <1>1, <1>5 DEF Tone
<1>7. v = IF w = 0 THEN 0 ELSE w - 1 BY <1>3, <1>6
<1>8. CASE d.phase = "tone"
  <2>1. Remaining(d) = w + k + g + m /\ Remaining(e) = v + k + g + m
    BY <1>4, <1>6, <1>8 DEF Remaining
  <2> QED BY <1>4, <1>6, <1>7, <2>1
<1>9. CASE d.phase # "tone"
  <2>1. Remaining(d) = w + m /\ Remaining(e) = v + m
    BY <1>4, <1>6, <1>9 DEF Remaining
  <2> QED BY <1>4, <1>6, <1>7, <2>1
<1> QED BY <1>8, <1>9

\* A tick takes one off the time of the start digits unless they are late.
LEMMA TickTones ==
    ASSUME Wiring, TonesTyped, DigitInv, JointTick
    PROVE  /\ TonesTyped' /\ DigitInv'
           /\ playing' = {After(d) : d \in playing} /\ opening' = opening
           /\ startDtmf = Off => startDtmf' = Off
           /\ startDtmf # Off =>
                \/ startDtmf' = startDtmf - 1 /\ startDtmf > 0
                \/ startDtmf' = startDtmf /\ DigitDue
<1> DEFINE lateStart == \E d \in StartPlaying : d.wait = 0
<1>1. /\ playing' = {After(d) : d \in playing} /\ opening' = opening
      /\ UNCHANGED <<events, timestamp>>
      /\ startDtmf' = IF lateStart THEN startDtmf ELSE Elapsed(startDtmf)
      /\ startDtmf = 0 => StartPlaying # {}
  BY DEF JointTick, Rtp!Tick, After
<1>2. startDtmf \in Int /\ startDtmf >= Off BY DEF Wiring, PttTypes
<1>3. \A d \in playing : d \in Tone /\ d.first \in Int BY DEF TonesTyped, Tone
<1>4. TonesTyped'
  <2>1. ASSUME NEW e \in playing'
        PROVE  e \in Tone /\ 0 < e.first /\ e.first <= events
    <3>1. PICK d \in playing : e = After(d) BY <1>1
    <3>2. d \in Tone /\ 0 < d.first /\ d.first <= events BY DEF TonesTyped
    <3> QED BY <3>1, <3>2, AfterTick
  <2>2. events' \in Nat /\ timestamp' \in Int /\ events' = events
    BY <1>1 DEF TonesTyped
  <2>3. playing' \subseteq Tone /\ \A d \in playing' : 0 < d.first /\ d.first <= events'
    BY <2>1, <2>2
  <2> QED BY <2>2, <2>3 DEF TonesTyped
<1>5. \A d \in StartPlaying :
          d \in playing /\ d \in Tone /\ Remaining(d) = startDtmf
  BY <1>3 DEF StartPlaying, DigitInv, IsPlayed
<1>6. ASSUME NEW e \in StartPlaying' PROVE \E d \in StartPlaying : e = After(d)
  <2>1. PICK d \in playing : e = After(d) BY <1>1 DEF StartPlaying
  <2>2. d.first = opening BY <1>1, <1>3, <2>1, AfterTick DEF StartPlaying
  <2> QED BY <2>1, <2>2 DEF StartPlaying
<1>7. \A d, e \in StartPlaying' : d = e BY <1>6 DEF DigitInv, IsPlayed
<1>8. ASSUME startDtmf # Off
      PROVE  \/ startDtmf' = startDtmf - 1 /\ startDtmf > 0
             \/ startDtmf' = startDtmf /\ DigitDue
  <2>1. CASE lateStart
    BY <1>1, <1>5, <2>1 DEF DigitDue
  <2>2. CASE ~lateStart
    <3>1. startDtmf # 0
      <4> SUFFICES ASSUME startDtmf = 0 PROVE FALSE OBVIOUS
      <4>1. PICK d \in StartPlaying : TRUE BY <1>1
      <4>2. d \in Tone /\ Remaining(d) = 0 BY <1>5
      <4>3. d.wait \in Nat /\ 0 >= d.wait BY <4>2, RemainingType DEF Tone
      <4>4. d.wait = 0 BY <4>3
      <4> QED BY <2>2, <4>4
    <3> QED BY <1>1, <1>2, <1>8, <2>2, <3>1 DEF Elapsed, Off
  <2> QED BY <2>1, <2>2
<1>9. startDtmf = Off => startDtmf' = Off BY <1>1 DEF Elapsed, Off
<1>10. ASSUME NEW e \in StartPlaying' PROVE Remaining(e) = startDtmf'
  <2>1. PICK d \in StartPlaying : e = After(d) BY <1>6
  <2>2. d \in Tone /\ Remaining(d) = startDtmf /\ d.wait \in Nat BY <1>5 DEF Tone
  <2>3. \A c \in StartPlaying : c = d BY DEF DigitInv, IsPlayed
  <2>4. CASE d.wait = 0
    <3>1. startDtmf' = startDtmf BY <1>1, <2>4
    <3> QED BY <2>1, <2>2, <2>4, <3>1, AfterTick
  <2>5. CASE d.wait # 0
    <3>1. ~lateStart BY <2>3, <2>5
    <3>2. startDtmf \in Nat /\ startDtmf > 0 BY <1>2, <2>2, <2>5, RemainingType
    <3>3. startDtmf' = startDtmf - 1 BY <1>1, <3>1, <3>2 DEF Elapsed
    <3> QED BY <2>1, <2>2, <2>5, <3>3, AfterTick
  <2> QED BY <2>4, <2>5
<1>11. DigitInv'
  <2>1. startDtmf' = Off => opening' = 0
    BY <1>1, <1>2, <1>8 DEF DigitInv, Off
  <2> QED BY <1>7, <1>10, <2>1 DEF DigitInv, IsPlayed
<1> QED BY <1>1, <1>4, <1>8, <1>9, <1>11

LEMMA DigitStep ==
    Wiring /\ TonesTyped /\ DigitInv /\ [JointNext]_jointVars
        => TonesTyped' /\ DigitInv'
<1> SUFFICES ASSUME Wiring, TonesTyped, DigitInv, [JointNext]_jointVars
             PROVE  TonesTyped' /\ DigitInv'
  OBVIOUS
<1>1. CASE UNCHANGED <<playing, events, timestamp, startDtmf, opening>>
  BY <1>1 DEF TonesTyped, DigitInv, IsPlayed, StartPlaying
<1>2. CASE OpusArrives
  <2>1. CASE startDtmf' = startDtmf
    <3>1. HandOver /\ opening' = opening BY <1>2, <2>1 DEF OpusArrives
    <3> QED BY <1>1, <2>1, <3>1, HandOverTones
  <2>2. CASE startDtmf' # startDtmf
    <3>1. /\ startDtmf' = StartTime /\ Rtp!SendDtmfSequence(StartDigits)
          /\ opening' = events'
      BY <1>2, <2>2, OpeningFrame DEF SendStartDigits
    <3>2. /\ events' = events + 1 /\ TonesTyped'
          /\ \E d \in Tone : /\ playing' = playing \cup {d}
                             /\ d.first = events'
                             /\ Remaining(d) = StartDigits * DigitTime
      BY <3>1, SomeDigits, NewlyPlayed
    <3>3. PICK d \in Tone : /\ playing' = playing \cup {d} /\ d.first = events'
                            /\ Remaining(d) = startDtmf'
      BY <3>1, <3>2, SomeDigits
    <3>4. \A e \in playing : e.first # events'
      <4>1. \A e \in playing : e.first \in Int /\ e.first <= events /\ events \in Nat
        BY DEF TonesTyped, Tone
      <4> QED BY <3>2, <4>1
    <3>5. StartPlaying' = {d} BY <3>1, <3>3, <3>4 DEF StartPlaying
    <3>6. startDtmf' # Off BY <3>1, PttTimesAssumption DEF Off
    <3> QED BY <3>2, <3>3, <3>5, <3>6 DEF DigitInv, IsPlayed
  <2> QED BY <2>1, <2>2
<1>3. CASE StartDigitsDone
  <2>1. HandOver /\ opening' = 0 BY <1>3 DEF StartDigitsDone
  <2>2. UNCHANGED <<playing, events>> /\ timestamp' = timestamp
    BY <2>1, HandOverTones
  <2>3. TonesTyped' BY <2>2 DEF TonesTyped
  <2>4. StartPlaying' = {} BY <2>1, <2>3 DEF StartPlaying, TonesTyped
  <2> QED BY <2>1, <2>3, <2>4 DEF DigitInv, IsPlayed
<1>4. CASE OpenersDelayOver
  <2>1. HandOver /\ UNCHANGED <<startDtmf, opening>>
    BY <1>4 DEF OpenersDelayOver, OpenDelayOver
  <2> QED BY <1>1, <2>1, HandOverTones
<1>5. CASE HangOver
  <2>1. /\ pttTimer = 0 /\ UNCHANGED <<startDtmf, opening>>
        /\ IF HasDtmf /\ remote THEN Rtp!SendDtmfSequence(StopDigits)
                                ELSE UNCHANGED rtpVars
    BY <1>5 DEF HangOver, PttTimerFires
  <2>2. CASE HasDtmf /\ remote
    <3>1. events' = events + 1 /\ TonesTyped'
          /\ \E d \in Tone : playing' = playing \cup {d} /\ d.first = events'
      BY <2>1, <2>2, SomeDigits, NewlyPlayed
    <3>2. startDtmf = Off /\ opening = 0
      BY <2>1 DEF Wiring, PttInv, DigitInv, Off
    <3>3. StartPlaying' = {} BY <2>1, <3>1, <3>2 DEF StartPlaying, TonesTyped
    <3> QED BY <2>1, <3>1, <3>2, <3>3 DEF DigitInv, IsPlayed
  <2>3. CASE ~(HasDtmf /\ remote)
    BY <1>1, <2>1, <2>3 DEF rtpVars
  <2> QED BY <2>2, <2>3
<1>6. CASE EndpointLearnt
  BY <1>1, <1>6 DEF EndpointLearnt, SetRemote, Rtp!SetRemote, Rtp!dtmfVars, pttVars
<1>7. CASE RtpStep
  <2>1. UNCHANGED <<startDtmf, opening>> BY <1>7 DEF RtpStep, pttVars
  <2>2. CASE Rtp!PumpSends
    <3>1. UNCHANGED <<playing, events>> /\ timestamp' = timestamp + PacketSamples
      BY <2>2 DEF Rtp!PumpSends, Rtp!dtmfVars
    <3>2. timestamp' \in Int
      BY <3>1, RtpAssumption DEF Rtp!RtpTimesAssumption, TonesTyped
    <3>3. TonesTyped' BY <3>1, <3>2 DEF TonesTyped
    <3> QED BY <2>1, <3>1, <3>3 DEF DigitInv, IsPlayed, StartPlaying
  <2>3. CASE Rtp!PumpEnds
    BY <1>1, <2>1, <2>3 DEF Rtp!PumpEnds, Rtp!dtmfVars
  <2>4. CASE Rtp!DtmfStep
    <3>1. TonesTyped' /\ \E d \in playing : GoesOn(d) BY <2>4, DtmfGoesOn
    <3>2. PICK d \in playing : GoesOn(d) BY <3>1
    <3>3. CASE playing' = playing \ {d}
      <4>1. StartPlaying' \subseteq StartPlaying BY <2>1, <3>3 DEF StartPlaying
      <4> QED BY <2>1, <3>1, <4>1 DEF DigitInv, IsPlayed
    <3>4. CASE \E e \in Tone : /\ playing' = (playing \ {d}) \cup {e}
                               /\ e.first = d.first /\ Remaining(e) = Remaining(d)
      <4>1. PICK e \in Tone : /\ playing' = (playing \ {d}) \cup {e}
                              /\ e.first = d.first /\ Remaining(e) = Remaining(d)
        BY <3>4
      <4>2. CASE d.first # opening
        <5>1. StartPlaying' \subseteq StartPlaying
          BY <2>1, <4>1, <4>2 DEF StartPlaying
        <5> QED BY <2>1, <3>1, <5>1 DEF DigitInv, IsPlayed
      <4>3. CASE d.first = opening
        <5>1. StartPlaying = {d} /\ Remaining(d) = startDtmf
          BY <4>3 DEF StartPlaying, DigitInv, IsPlayed
        <5>2. StartPlaying' = {e} BY <2>1, <4>1, <4>3, <5>1 DEF StartPlaying
        <5> QED BY <2>1, <3>1, <4>1, <5>1, <5>2 DEF DigitInv, IsPlayed
      <4> QED BY <4>2, <4>3
    <3> QED BY <3>2, <3>3, <3>4 DEF GoesOn
  <2> QED BY <1>7, <2>2, <2>3, <2>4 DEF RtpStep
<1>8. CASE JointTick BY <1>8, TickTones
<1>9. CASE UNCHANGED jointVars
  BY <1>1, <1>9 DEF jointVars, rtpVars, vars, pttVars
<1> QED
  BY <1>2, <1>3, <1>4, <1>5, <1>6, <1>7, <1>8, <1>9 DEF JointNext, Due

LEMMA DigitInvariant == JointSpec => [](TonesTyped /\ DigitInv)
<1>1. JointInit => TonesTyped /\ DigitInv
  BY DEF JointInit, Rtp!Init, TonesTyped, DigitInv, IsPlayed, StartPlaying
<1> QED BY <1>1, DigitStep, WiringInvariant, PTL DEF JointSpec

-----------------------------------------------------------------------------
(* The queue of the composition.  A packet sent since the last tick counts *)
(* as queued until the tick, so that the pump's turn and the tick that     *)
(* makes room for another frame balance.                                   *)

Backlog == Len(txQueue) + (IF txTimer = 1 THEN 1 ELSE 0)

Suspended == Len(waiting) + Held

\* What may still be handed over before the tick.
Ahead == Suspended + underway

VoiceTypes ==
    /\ txQueue \in Seq(Int) /\ sent \in Seq(Int) /\ queued \in Int
    /\ txTimer \in {Off, 0, 1}
    /\ txTimer = Off => txQueue = <<>>
    /\ underway \in 0 .. Burst /\ late \in Nat

\* What is suspended, queued or still to come is held back by the digits, a burst
\* or lost time; while the hang timer runs the queue empties, or time is lost.
BacklogInv ==
    /\ startDtmf # Off => Ahead + startDtmf <= HeldBack
    /\ Backlog + Ahead <= HeldBack
    /\ pttTimer # Off => Backlog = 0 \/ Backlog + Hang <= HeldBack + pttTimer
    /\ ~asteriskPtt => Backlog <= LateVoice

LEMMA HeldBackType ==
    ASSUME late \in Nat
    PROVE  /\ HeldBack \in Nat /\ LateVoice \in Nat
           /\ HeldBack > Hang => LateVoice = HeldBack - Hang
BY JointAssumption, PttTimesAssumption DEF HeldBack, LateVoice

\* The frames suspended are those received and not yet handed over.
LEMMA SuspendedCount ==
    ASSUME PttTypes, FrameInv
    PROVE  /\ Suspended \in Nat /\ Len(delivered) \in Nat /\ dropped \in Nat
           /\ Suspended = received - Len(delivered) - dropped
BY DEF PttTypes, FrameInv, Suspended, HandedOver, Held

\* n more frames are handed over: the hang timer runs from the last of them.
Delivers(n) ==
    /\ Len(delivered') = Len(delivered) + n /\ dropped' >= dropped
    /\ n > 0 => remote
    /\ \/ n = 0 /\ pttTimer' = pttTimer
       \/ pttTimer' = Hang

LEMMA FinishDelivers ==
    ASSUME FrameInv, NEW frames \in Seq(Int), Finish(frames)
    PROVE  \E n \in Nat : Delivers(n)
<1>1. Len(frames) \in Nat /\ Len(delivered \o frames) = Len(delivered) + Len(frames)
      /\ (frames = <<>> <=> Len(frames) = 0) /\ Len(delivered) \in Nat
      /\ dropped \in Nat
  BY DEF FrameInv
<1>2. pttTimer' = (IF Len(frames) = 0 THEN pttTimer ELSE Hang) BY <1>1 DEF Finish
<1>3. CASE remote
  <2>1. Len(delivered') = Len(delivered) + Len(frames) /\ dropped' = dropped
    BY <1>3, <1>1 DEF Finish
  <2>2. Delivers(Len(frames)) BY <1>1, <1>2, <1>3, <2>1 DEF Delivers
  <2> QED BY <1>1, <2>2
<1>4. CASE ~remote
  <2>1. delivered' = delivered /\ dropped' = dropped + Len(frames)
    BY <1>4 DEF Finish
  <2>2. pttTimer' \in {pttTimer, Hang} BY <1>2
  <2>3. Delivers(0) BY <1>1, <2>1, <2>2 DEF Delivers
  <2> QED BY <2>3
<1> QED BY <1>3, <1>4

LEMMA NothingDelivered ==
    ASSUME FrameInv, UNCHANGED <<delivered, dropped, pttTimer>>
    PROVE  Delivers(0)
BY DEF Delivers, FrameInv

\* What frames that are handed over do to the bridge.
Queues(n) ==
    /\ txQueue' \in Seq(Int) /\ Len(txQueue') = Len(txQueue) + n
    /\ queued' = queued + n /\ sent' = sent
    /\ txTimer' = IF n > 0 /\ txTimer = Off THEN 0 ELSE txTimer

LEMMA HandOverQueues ==
    ASSUME VoiceTypes, FrameInv, NEW n \in Nat, Delivers(n), HandOver
    PROVE  Queues(n) /\ playing' = playing
<1>1. Len(delivered) \in Nat BY DEF FrameInv
<1>2. Len(delivered') - Len(delivered) = n BY <1>1 DEF Delivers
<1>3. CASE n > 0
  <2>1. Rtp!SendPcm(n) BY <1>2, <1>3 DEF HandOver
  <2>2. [i \in 1 .. n |-> queued + i] \in Seq(Int)
        /\ Len([i \in 1 .. n |-> queued + i]) = n
    BY DEF VoiceTypes
  <2>3. /\ txQueue \o [i \in 1 .. n |-> queued + i] \in Seq(Int)
        /\ Len(txQueue \o [i \in 1 .. n |-> queued + i]) = Len(txQueue) + n
    BY <2>2 DEF VoiceTypes
  <2>4. txTimer' = IF txTimer = Off THEN 0 ELSE txTimer
    BY <2>1 DEF Rtp!SendPcm, Rtp!StartTxPump, Rtp!Off, Off
  <2> QED
    BY <1>3, <2>1, <2>3, <2>4 DEF Rtp!SendPcm, Rtp!dtmfVars, Queues
<1>4. CASE n = 0
  <2>1. UNCHANGED rtpVars BY <1>2, <1>4 DEF HandOver
  <2> QED BY <1>4, <2>1 DEF rtpVars, Queues, VoiceTypes
<1> QED BY <1>3, <1>4

\* A frame that comes in is handed over, or suspended, or opens PTT.
LEMMA ArrivalStep ==
    ASSUME Wiring, VoiceTypes, OpusArrives
    PROVE  /\ \E n \in Nat : Delivers(n) /\ Queues(n)
           /\ underway > 0 /\ underway' = underway - 1
           /\ received' = received + 1 /\ asteriskPtt' /\ late' = late
           /\ asteriskPtt => startDtmf' = startDtmf
           /\ ~asteriskPtt => startDtmf' \in {startDtmf, StartTime}
<1> USE DEF Wiring, pttVars, frameVars, outVars
<1>1. /\ ReflectorOpus /\ underway > 0 /\ underway' = underway - 1
      /\ received' = received + 1 /\ late' = late
  BY DEF OpusArrives, ReflectorOpus
<1>2. CASE asteriskPtt
  <2>1. JoinPtt(received') BY <1>1, <1>2 DEF ReflectorOpus
  <2>2. HandOver BY <2>1 DEF OpusArrives, JoinPtt
  <2>3. <<received'>> \in Seq(Int) BY <1>1 DEF PttTypes
  <2>4. \E n \in Nat : Delivers(n)
    <3>1. CASE startDtmf # Off
      <4>1. UNCHANGED <<delivered, dropped, pttTimer>> BY <2>1, <3>1 DEF JoinPtt
      <4> QED BY <4>1, NothingDelivered
    <3>2. CASE startDtmf = Off
      <4>1. Finish(<<received'>>) BY <2>1, <3>2 DEF JoinPtt
      <4> QED BY <2>3, <4>1, FinishDelivers
    <3> QED BY <3>1, <3>2
  <2> QED BY <1>1, <1>2, <2>1, <2>2, <2>4, HandOverQueues DEF JoinPtt
<1>3. CASE ~asteriskPtt
  <2>1. OpenPtt(received') /\ startDtmf = Off
    BY <1>1, <1>3 DEF ReflectorOpus, PttInv
  <2>2. asteriskPtt' /\ startDtmf' \in {startDtmf, StartTime}
    BY <2>1 DEF OpenPtt
  <2>3. CASE startDtmf' # startDtmf
    <3>1. Rtp!SendDtmfSequence(StartDigits)
      BY <2>3 DEF OpusArrives, SendStartDigits
    <3>2. Queues(0)
      BY <3>1 DEF Rtp!SendDtmfSequence, Rtp!queueVars, Queues, VoiceTypes
    <3>3. HasDtmf /\ remote BY <2>1, <2>3 DEF OpenPtt
    <3>4. Delivers(0) BY <2>1, <3>3, NothingDelivered DEF OpenPtt
    <3> QED BY <1>1, <1>3, <2>2, <3>2, <3>4
  <2>4. CASE startDtmf' = startDtmf
    <3>1. HandOver BY <2>4 DEF OpusArrives
    <3>2. ~(HasDtmf /\ remote)
      BY <2>1, <2>4, PttTimesAssumption DEF OpenPtt, Off
    <3>3. PICK frames \in {<<>>, <<received'>>} : Finish(frames)
      BY <2>1, <3>2 DEF OpenPtt
    <3>4. frames \in Seq(Int)
      <4>1. <<received'>> \in Seq(Int) /\ <<>> \in Seq(Int) BY <1>1 DEF PttTypes
      <4> QED BY <3>3, <4>1
    <3>5. PICK n \in Nat : Delivers(n) BY <3>3, <3>4, FinishDelivers
    <3> QED BY <1>1, <1>3, <2>2, <3>1, <3>5, HandOverQueues
  <2> QED BY <2>3, <2>4
<1> QED BY <1>2, <1>3

\* Handlers resume while PTT is open.
LEMMA ResumeStep ==
    ASSUME Wiring, VoiceTypes, StartDigitsDone \/ OpenersDelayOver
    PROVE  /\ \E n \in Nat : Delivers(n) /\ Queues(n)
           /\ UNCHANGED <<underway, received, asteriskPtt, late>>
           /\ asteriskPtt /\ startDtmf' = Off
<1> USE DEF Wiring, frameVars, outVars
<1>1. CASE StartDigitsDone
  <2>1. StartDtmfDone /\ HandOver /\ UNCHANGED <<underway, late>>
    BY <1>1 DEF StartDigitsDone
  <2>2. waiting \in Seq(Int) /\ waiting # <<>> /\ asteriskPtt
    BY <2>1 DEF StartDtmfDone, PttTypes, PttInv, Off
  <2>3. Tail(waiting) \in Seq(Int) BY <2>2
  <2>4. PICK n \in Nat : Delivers(n)
    BY <2>1, <2>2, <2>3, FinishDelivers DEF StartDtmfDone
  <2> QED BY <2>1, <2>2, <2>4, HandOverQueues DEF StartDtmfDone
<1>2. CASE OpenersDelayOver
  <2>1. OpenDelayOver /\ HandOver /\ UNCHANGED <<underway, late>>
    BY <1>2 DEF OpenersDelayOver
  <2>2. PICK d \in delayed : Finish(<<d.frame>>) BY <2>1 DEF OpenDelayOver
  <2>3. <<d.frame>> \in Seq(Int) BY DEF PttTypes, Pending
  <2>4. PICK n \in Nat : Delivers(n) BY <2>2, <2>3, FinishDelivers
  <2>5. asteriskPtt /\ startDtmf = Off BY <2>2 DEF PttInv
  <2> QED BY <2>1, <2>4, <2>5, HandOverQueues DEF OpenDelayOver
<1> QED BY <1>1, <1>2

\* Frames that are handed over were suspended or have just come.
LEMMA HandedOverBacklog ==
    ASSUME Wiring, Wiring', VoiceTypes, NEW n \in Nat, Delivers(n), Queues(n),
           \/ underway > 0 /\ underway' = underway - 1 /\ received' = received + 1
           \/ underway' = underway /\ received' = received,
           late' = late
    PROVE  /\ VoiceTypes' /\ Backlog \in Nat /\ Backlog' = Backlog + n
           /\ Ahead \in Nat /\ Ahead' \in Nat /\ Ahead' + n <= Ahead
<1> USE DEF Wiring
<1>1. /\ Suspended \in Nat /\ Len(delivered) \in Nat /\ dropped \in Nat
      /\ Suspended = received - Len(delivered) - dropped
  BY SuspendedCount
<1>2. /\ Suspended' \in Nat /\ Len(delivered') \in Nat /\ dropped' \in Nat
      /\ Suspended' = received' - Len(delivered') - dropped'
  <2>1. PttTypes' /\ FrameInv' OBVIOUS
  <2>2. Len(waiting') \in Nat /\ Len(delivered') \in Nat /\ dropped' \in Nat
    BY <2>1 DEF PttTypes, FrameInv
  <2>3. Held' \in {0, 1} BY DEF Held
  <2>4. received' = Len(delivered') + dropped' + Len(waiting') + Held'
    BY <2>1 DEF FrameInv, HandedOver
  <2>5. Suspended' = Len(waiting') + Held' BY DEF Suspended
  <2>6. Suspended' \in Nat BY <2>2, <2>3, <2>5
  <2>7. Suspended' = received' - Len(delivered') - dropped'
    BY <2>2, <2>3, <2>4, <2>5
  <2> QED BY <2>2, <2>6, <2>7
<1>3. received \in Nat /\ underway \in Nat BY JointAssumption DEF PttTypes, VoiceTypes
<1>4. Len(txQueue) \in Nat /\ Len(sent) \in Nat BY DEF VoiceTypes
<1>5. Suspended' + underway' + n <= Suspended + underway
  BY <1>1, <1>2, <1>3 DEF Delivers
<1>6. txTimer' \in {Off, 0, 1} /\ (txTimer' = Off => txQueue' = <<>>)
  <2>1. CASE n > 0 BY <2>1 DEF Queues, VoiceTypes, Off
  <2>2. CASE n = 0
    <3>1. Len(txQueue') = Len(txQueue) BY <1>4, <2>2 DEF Queues
    <3> QED BY <2>2, <3>1 DEF Queues, VoiceTypes
  <2> QED BY <2>1, <2>2
<1>7. VoiceTypes'
  <2>1. txQueue' \in Seq(Int) /\ sent' \in Seq(Int) /\ queued' \in Int
    BY DEF Queues, VoiceTypes
  <2>2. underway' \in 0 .. Burst /\ late' \in Nat BY JointAssumption DEF VoiceTypes
  <2> QED BY <1>6, <2>1, <2>2 DEF VoiceTypes
<1>8. Backlog \in Nat /\ Backlog' = Backlog + n
  <2>1. txTimer' = 1 <=> txTimer = 1 BY DEF Queues, VoiceTypes, Off
  <2> QED BY <1>4, <2>1 DEF Backlog, Queues
<1>9. /\ Ahead \in Nat /\ Ahead' \in Nat /\ Ahead' + n <= Ahead
  <2>1. underway' \in Nat BY <1>3
  <2>2. PICK s \in Nat, s1 \in Nat, u \in Nat, u1 \in Nat :
             s = Suspended /\ s1 = Suspended' /\ u = underway /\ u1 = underway'
    BY <1>1, <1>2, <1>3, <2>1
  <2>3. Ahead = s + u /\ Ahead' = s1 + u1 /\ s1 + u1 + n <= s + u
    BY <1>5, <2>2 DEF Ahead
  <2>4. s + u \in Nat /\ s1 + u1 \in Nat /\ (s1 + u1) + n <= s + u BY <2>3
  <2> QED BY <2>3, <2>4
<1> QED BY <1>7, <1>8, <1>9

\* The pump drops nothing if all that is queued is in the queue's limit.
LEMMA PumpBacklog ==
    ASSUME VoiceTypes, Rtp!PumpSends, UNCHANGED <<underway, late>>
    PROVE  /\ VoiceTypes' /\ Backlog \in Nat /\ Backlog' \in Nat
           /\ Backlog' <= Backlog
           /\ Backlog <= MaxQueue => Lost' = Lost
<1>1. MaxQueue \in Nat /\ MaxQueue > 0 /\ Period = 1
  BY RtpAssumption, JointAssumption DEF Rtp!QueueAssumption
<1>2. /\ txTimer = 0 /\ txQueue # <<>> /\ txTimer' = 1 /\ queued' = queued
  BY <1>1 DEF Rtp!PumpSends
<1> DEFINE q == Rtp!DropExcess(txQueue)
<1>3. sent' = Append(sent, Head(q)) /\ txQueue' = Tail(q) BY DEF Rtp!PumpSends
<1>4. Len(txQueue) \in Nat /\ Len(txQueue) > 0 /\ Len(sent) \in Nat
  BY <1>2 DEF VoiceTypes
<1>5. /\ q \in Seq(Int) /\ Len(q) \in Nat /\ Len(q) > 0 /\ Len(q) <= Len(txQueue)
      /\ Len(txQueue) <= MaxQueue => q = txQueue
  <2>1. CASE Len(txQueue) <= MaxQueue BY <1>4, <2>1 DEF Rtp!DropExcess, VoiceTypes
  <2>2. CASE ~(Len(txQueue) <= MaxQueue)
    <3>1. \A i \in Len(txQueue) - MaxQueue + 1 .. Len(txQueue) : txQueue[i] \in Int
      BY <1>1, <1>4, <2>2 DEF VoiceTypes
    <3>2. q = SubSeq(txQueue, Len(txQueue) - MaxQueue + 1, Len(txQueue))
      BY <2>2 DEF Rtp!DropExcess
    <3>3. /\ q \in Seq(Int)
          /\ Len(q) = Len(txQueue) - (Len(txQueue) - MaxQueue + 1) + 1
      BY <1>1, <1>4, <2>2, <3>1, <3>2, SubSeqProperties
    <3> QED BY <1>1, <1>4, <2>2, <3>3
  <2> QED BY <2>1, <2>2
<1> HIDE DEF q
<1>6. Head(q) \in Int /\ Tail(q) \in Seq(Int) /\ Len(Tail(q)) = Len(q) - 1
  BY <1>5
<1>7. VoiceTypes' BY <1>2, <1>3, <1>6 DEF VoiceTypes, Off
<1>8. Backlog = Len(txQueue) /\ Backlog' = Len(q)
  BY <1>2, <1>3, <1>4, <1>5, <1>6 DEF Backlog
<1>9. ASSUME Backlog <= MaxQueue PROVE Lost' = Lost
  <2>1. q = txQueue BY <1>5, <1>8, <1>9
  <2>2. Len(sent') = Len(sent) + 1 BY <1>3, <1>6 DEF VoiceTypes
  <2>3. Len(txQueue') = Len(txQueue) - 1 BY <1>3, <1>6, <2>1
  <2>4. queued \in Int BY DEF VoiceTypes
  <2> QED BY <1>2, <1>4, <2>2, <2>3, <2>4 DEF Lost
<1> QED BY <1>4, <1>5, <1>7, <1>8, <1>9

\* Handing over keeps the balance: what is queued was suspended or underway.
LEMMA HandOverBalance ==
    ASSUME Wiring, Wiring', VoiceTypes, BacklogInv, NEW n \in Nat,
           Delivers(n), Queues(n),
           \/ underway > 0 /\ underway' = underway - 1 /\ received' = received + 1
           \/ underway' = underway /\ received' = received,
           asteriskPtt',
           asteriskPtt => startDtmf' \in {startDtmf, Off},
           ~asteriskPtt => startDtmf' \in {startDtmf, StartTime},
           late' = late
    PROVE  VoiceTypes' /\ BacklogInv'
<1>1. /\ VoiceTypes' /\ Backlog \in Nat /\ Backlog' = Backlog + n
      /\ Ahead \in Nat /\ Ahead' \in Nat /\ Ahead' + n <= Ahead
  BY HandedOverBacklog
<1>2. /\ Burst \in Nat /\ StartTime \in Nat /\ Hang \in Nat
      /\ startDtmf' \in Int /\ Backlog' \in Nat /\ HeldBack \in Nat
      /\ late \in Nat /\ HeldBack' = HeldBack
  BY <1>1, JointAssumption, PttTimesAssumption, HeldBackType
  DEF Wiring, PttTypes, VoiceTypes, HeldBack
<1>3. PICK b \in Nat, b1 \in Nat, a \in Nat, a1 \in Nat, most \in Nat, d \in Int :
           /\ b = Backlog /\ b1 = Backlog' /\ a = Ahead /\ a1 = Ahead'
           /\ most = HeldBack /\ d = startDtmf'
  BY <1>1, <1>2
<1>4. b1 = b + n /\ a1 + n <= a /\ b + a <= most BY <1>1, <1>3 DEF BacklogInv
<1>5. b1 + a1 <= most /\ b1 <= most /\ a1 <= a BY <1>4
<1>6. ASSUME startDtmf' # Off PROVE a1 + d <= most
  <2>1. CASE startDtmf # Off
    <3>1. startDtmf' = startDtmf BY <1>6, <2>1 DEF Wiring, PttInv
    <3>2. a + d <= most BY <1>3, <2>1, <3>1 DEF BacklogInv
    <3> QED BY <1>5, <3>2
  <2>2. CASE startDtmf = Off
    <3>1. ~asteriskPtt /\ startDtmf' = StartTime BY <1>6, <2>2
    <3>2. waiting = <<>> /\ delayed = {} BY <2>2, <3>1 DEF Wiring, PttInv
    <3>3. Ahead = underway /\ underway <= Burst
      BY <3>2 DEF Ahead, Suspended, Held, VoiceTypes
    <3>4. PICK burst \in Nat, start \in Nat, lost \in Nat :
               burst = Burst /\ start = StartTime /\ lost = late
      BY <1>2 DEF VoiceTypes
    <3>5. a <= burst /\ d = start /\ most = start + burst + lost
      BY <1>3, <3>1, <3>3, <3>4 DEF HeldBack
    <3> QED BY <1>5, <3>5
  <2> QED BY <2>1, <2>2
<1>7. ASSUME pttTimer' # Off
      PROVE  Backlog' = 0 \/ Backlog' + Hang <= HeldBack + pttTimer'
  <2>1. CASE n = 0 /\ pttTimer' = pttTimer
    <3>1. Backlog' = Backlog BY <1>3, <1>4, <2>1
    <3> QED BY <1>7, <2>1, <3>1 DEF BacklogInv
  <2>2. CASE pttTimer' = Hang
    <3>1. PICK h \in Nat : h = Hang BY <1>2
    <3>2. b1 + h <= most + h BY <1>5
    <3> QED BY <1>3, <2>2, <3>1, <3>2
  <2> QED BY <2>1, <2>2 DEF Delivers
<1>8. /\ startDtmf' # Off => Ahead' + startDtmf' <= HeldBack
      /\ Backlog' + Ahead' <= HeldBack
  BY <1>3, <1>5, <1>6
<1> QED BY <1>1, <1>2, <1>7, <1>8 DEF BacklogInv

\* A step that only lets the queue shrink, and may close PTT, keeps it too.
LEMMA ShrinkingBalance ==
    ASSUME Wiring, BacklogInv, VoiceTypes,
           Backlog \in Nat, Backlog' \in Nat, Backlog' <= Backlog,
           UNCHANGED <<waiting, delayed, startDtmf, underway, late>>,
           \/ UNCHANGED <<asteriskPtt, pttTimer>>
           \/ pttTimer = 0 /\ pttTimer' = Off
    PROVE  BacklogInv'
<1> USE DEF Off
<1>1. Ahead' = Ahead /\ Ahead \in Nat
  <2>1. Ahead' = Ahead BY DEF Ahead, Suspended, Held
  <2>2. Suspended \in Nat /\ underway \in Nat
    BY SuspendedCount, JointAssumption DEF Wiring, VoiceTypes
  <2> QED BY <2>1, <2>2 DEF Ahead
<1>2. /\ Burst \in Nat /\ StartTime \in Nat /\ Hang \in Nat /\ pttTimer \in Int
      /\ HeldBack \in Nat /\ HeldBack' = HeldBack /\ LateVoice' = LateVoice
  BY JointAssumption, PttTimesAssumption, HeldBackType
  DEF Wiring, PttTypes, VoiceTypes, HeldBack, LateVoice
<1>3. PICK b \in Nat, b1 \in Nat, a \in Nat, most \in Nat, p \in Int, h \in Nat :
           /\ b = Backlog /\ b1 = Backlog' /\ a = Ahead
           /\ most = HeldBack /\ p = pttTimer /\ h = Hang
  BY <1>1, <1>2
<1>4. b1 <= b /\ b + a <= most BY <1>3 DEF BacklogInv
<1>5. b1 + a <= most BY <1>4
<1>6. /\ startDtmf' # Off => Ahead' + startDtmf' <= HeldBack
      /\ Backlog' + Ahead' <= HeldBack
  BY <1>1, <1>3, <1>5 DEF BacklogInv
<1>7. LateVoice \in Nat /\ (most > h => LateVoice = most - h)
  BY <1>3, HeldBackType DEF VoiceTypes
<1>8. PICK l \in Nat : l = LateVoice BY <1>7
<1>9. CASE UNCHANGED <<asteriskPtt, pttTimer>>
  <2>1. ASSUME p # Off PROVE b1 = 0 \/ b1 + h <= most + p
    <3>1. b = 0 \/ b + h <= most + p BY <1>3, <2>1 DEF BacklogInv
    <3> QED BY <1>4, <3>1
  <2>2. ASSUME ~asteriskPtt' PROVE b1 <= l
    <3>1. b <= l BY <1>3, <1>8, <1>9, <2>2 DEF BacklogInv
    <3> QED BY <1>4, <3>1
  <2>3. pttTimer' # Off => Backlog' = 0 \/ Backlog' + Hang <= HeldBack + pttTimer'
    BY <1>3, <1>9, <2>1
  <2>4. ~asteriskPtt' => Backlog' <= LateVoice BY <1>3, <1>8, <2>2
  <2> QED BY <1>2, <1>6, <2>3, <2>4 DEF BacklogInv
<1>10. CASE pttTimer = 0 /\ pttTimer' = Off
  <2>1. b = 0 \/ b + h <= most
    <3>1. p = 0 /\ (b = 0 \/ b + h <= most + p) BY <1>3, <1>10 DEF BacklogInv
    <3> QED BY <3>1
  <2>2. b1 <= l BY <1>4, <1>7, <1>8, <2>1
  <2>3. Backlog' <= LateVoice BY <1>3, <1>8, <2>2
  <2> QED BY <1>2, <1>6, <1>10, <2>3 DEF BacklogInv
<1> QED BY <1>9, <1>10

\* A tick makes room for a frame to come, and takes one off the backlog unless it
\* is lost.
LEMMA TickBalance ==
    ASSUME Wiring, TonesTyped, DigitInv, VoiceTypes, BacklogInv, JointTick
    PROVE  VoiceTypes' /\ BacklogInv'
<1> USE DEF Wiring, Off
<1>1. /\ Tick /\ UNCHANGED <<asteriskPtt, waiting, txQueue, queued, sent>>
      /\ txTimer' = IF txTimer > 0 THEN txTimer - 1 ELSE txTimer
      /\ underway' = IF underway < Burst THEN underway + 1 ELSE underway
      /\ late' = IF Behind THEN late + 1 ELSE IF Silent THEN 0 ELSE late
  BY DEF JointTick, Tick, Rtp!Tick, Rtp!Elapsed
<1>2. /\ underway \in Nat /\ Burst \in Nat /\ StartTime \in Nat /\ StartTime > 0
      /\ underway <= Burst /\ Hang \in Nat /\ late \in Nat /\ HeldBack \in Nat
      /\ startDtmf \in Int /\ startDtmf >= Off /\ pttTimer \in Int
  BY JointAssumption, PttTimesAssumption, HeldBackType DEF VoiceTypes, PttTypes
<1>3. /\ pttTimer' = IF pttTimer = Off THEN Off ELSE pttTimer - 1
      /\ pttTimer # 0
  BY <1>1, <1>2 DEF Tick, Elapsed, PttTypes
<1>4. /\ startDtmf = Off => startDtmf' = Off
      /\ startDtmf # Off => \/ startDtmf' = startDtmf - 1 /\ startDtmf > 0
                            \/ startDtmf' = startDtmf /\ Behind
  BY TickTones DEF Behind
<1>5. Suspended' = Suspended /\ Suspended \in Nat
  <2>1. delayed' = {[d EXCEPT !.left = @ - 1] : d \in delayed} BY <1>1 DEF Tick
  <2>2. delayed' = {} <=> delayed = {} BY <2>1
  <2>3. Suspended' = Suspended BY <1>1, <2>2 DEF Suspended, Held
  <2> QED BY <2>3, SuspendedCount
<1>6. underway' \in 0 .. Burst /\ underway' <= underway + 1 BY <1>1, <1>2
<1>7. /\ late' \in Nat
      /\ HeldBack' \in Nat /\ LateVoice' \in Nat /\ LateVoice \in Nat
  <2>1. late' \in Nat BY <1>1, <1>2
  <2> QED BY <1>2, <2>1, JointAssumption, PttTimesAssumption DEF HeldBack, LateVoice
<1>8. VoiceTypes' BY <1>1, <1>6, <1>7 DEF VoiceTypes
<1>9. /\ Backlog \in Nat /\ Backlog' \in Nat /\ Backlog' <= Backlog
      /\ ~Behind => Backlog' = 0 \/ Backlog' = Backlog - 1
  <2>1. Len(txQueue) \in Nat /\ (txQueue = <<>> => Len(txQueue) = 0)
    BY DEF VoiceTypes
  <2> QED BY <1>1, <2>1 DEF Backlog, Behind, VoiceTypes
<1>10. PICK b \in Nat, b1 \in Nat, s \in Nat, u \in Nat, u1 \in Nat, most \in Nat,
            most1 \in Nat, p \in Int, d \in Int, h \in Nat, start \in Nat,
            burst \in Nat, lost \in Nat, lost1 \in Nat :
            /\ b = Backlog /\ b1 = Backlog' /\ s = Suspended /\ u = underway
            /\ u1 = underway' /\ most = HeldBack /\ most1 = HeldBack'
            /\ p = pttTimer /\ d = startDtmf /\ h = Hang /\ start = StartTime
            /\ burst = Burst /\ lost = late /\ lost1 = late'
  <2>1. underway' \in Nat BY <1>2, <1>6
  <2> QED BY <1>2, <1>5, <1>7, <1>9, <2>1
<1>11. /\ most = start + burst + lost /\ most1 = start + burst + lost1
       /\ u1 <= u + 1 /\ u1 <= burst /\ b1 <= b /\ start > 0 /\ d >= -1 /\ p # 0
  BY <1>2, <1>3, <1>6, <1>9, <1>10 DEF HeldBack
<1>12. Ahead = s + u /\ Ahead' = s + u1 BY <1>5, <1>10 DEF Ahead
<1>13. /\ b + (s + u) <= most
       /\ d # Off => s + u + d <= most
       /\ p # Off => b = 0 \/ b + h <= most + p
  BY <1>10, <1>12 DEF BacklogInv
<1>14. PICK d1 \in Int :
            /\ d1 = startDtmf' /\ (d = Off => d1 = Off)
            /\ d # Off => (d1 = d - 1 /\ d > 0) \/ (d1 = d /\ Behind)
  BY <1>4, <1>10
\* The balance after the tick.
<1> DEFINE Balanced == /\ d1 # Off => s + u1 + d1 <= most1
                       /\ b1 + (s + u1) <= most1
                       /\ p # Off => b1 = 0 \/ b1 + h <= most1 + (p - 1)
                       /\ most <= most1 \/ b1 = 0
<1>15. ASSUME Behind PROVE Balanced
  <2>1. most1 = most + 1 BY <1>1, <1>10, <1>11, <1>15
  <2>2. d1 # Off => s + u1 + d1 <= most1
    <3>1. d1 # Off => d1 <= d /\ d # Off BY <1>14
    <3> QED BY <1>11, <1>13, <2>1, <3>1
  <2>3. b1 + (s + u1) <= most1 BY <1>11, <1>13, <2>1
  <2>4. p # Off => b1 = 0 \/ b1 + h <= most1 + (p - 1) BY <1>11, <1>13, <2>1
  <2>5. most <= most1 BY <2>1
  <2> QED BY <2>2, <2>3, <2>4, <2>5
<1>16. ASSUME ~Behind, Silent PROVE Balanced
  <2>1. txQueue = <<>> /\ s = 0 /\ d = Off
    BY <1>10, <1>16 DEF Silent, PttInv, Suspended, Held
  <2>2. b1 = 0
    BY <1>1, <1>10, <2>1 DEF Backlog, VoiceTypes
  <2>3. d1 = Off BY <1>14, <2>1
  <2>4. u1 <= most1 BY <1>11
  <2> QED BY <2>1, <2>2, <2>3, <2>4
<1>17. ASSUME ~Behind, ~Silent PROVE Balanced
  <2>1. most1 = most BY <1>1, <1>10, <1>11, <1>17
  <2>2. b1 = 0 \/ b1 = b - 1 BY <1>9, <1>10, <1>17
  <2>3. d # Off => d1 = d - 1 /\ d > 0 BY <1>14, <1>17
  <2>4. d1 # Off => s + u1 + d1 <= most1
    <3>1. d1 # Off => d # Off BY <1>14
    <3> QED BY <1>11, <1>13, <2>1, <2>3, <3>1
  <2>5. b1 + (s + u1) <= most1
    <3>1. CASE b1 # 0 BY <1>11, <1>13, <2>1, <2>2, <3>1
    <3>2. CASE b1 = 0 /\ d # Off
      <4>1. s + u1 + (d - 1) <= most /\ d - 1 >= 0 BY <1>11, <1>13, <2>3, <3>2
      <4> QED BY <2>1, <3>2, <4>1
    <3>3. CASE b1 = 0 /\ d = Off
      <4>1. s <= 1 BY <1>10, <3>3 DEF PttInv, Suspended, Held
      <4> QED BY <1>11, <2>1, <3>3, <4>1
    <3> QED BY <3>1, <3>2, <3>3
  <2>6. p # Off => b1 = 0 \/ b1 + h <= most1 + (p - 1)
    BY <1>11, <1>13, <2>1, <2>2
  <2> QED BY <2>1, <2>4, <2>5, <2>6
<1>18. Balanced BY <1>15, <1>16, <1>17
<1>19. /\ startDtmf' # Off => Ahead' + startDtmf' <= HeldBack'
       /\ Backlog' + Ahead' <= HeldBack'
       /\ pttTimer' # Off => Backlog' = 0 \/ Backlog' + Hang <= HeldBack' + pttTimer'
  <2>1. pttTimer' # Off => p # Off /\ pttTimer' = p - 1 BY <1>3, <1>10
  <2> QED BY <1>10, <1>12, <1>14, <1>18, <2>1
<1>20. ~asteriskPtt' => Backlog' <= LateVoice'
  <2>1. PICK l \in Nat, l1 \in Nat : l = LateVoice /\ l1 = LateVoice' BY <1>7
  <2>2. /\ l = IF most > h THEN most - h ELSE 0
        /\ l1 = IF most1 > h THEN most1 - h ELSE 0
    BY <1>10, <2>1 DEF LateVoice
  <2>3. b1 = 0 \/ l <= l1 BY <1>18, <2>2
  <2>4. ~asteriskPtt => b <= l BY <1>10, <2>1 DEF BacklogInv
  <2>5. ~asteriskPtt => b1 <= l1 BY <1>11, <2>3, <2>4
  <2> QED BY <1>1, <1>10, <2>1, <2>5
<1> QED BY <1>8, <1>19, <1>20 DEF BacklogInv

LEMMA BacklogStep ==
    Wiring /\ TonesTyped /\ DigitInv /\ VoiceTypes /\ BacklogInv
    /\ [JointNext]_jointVars
        => VoiceTypes' /\ BacklogInv'
<1> SUFFICES ASSUME Wiring, TonesTyped, DigitInv, VoiceTypes, BacklogInv,
                    [JointNext]_jointVars
             PROVE  VoiceTypes' /\ BacklogInv'
  OBVIOUS
<1>1. Wiring' BY WiringStep
<1>2. CASE OpusArrives
  <2>1. /\ \E n \in Nat : Delivers(n) /\ Queues(n)
        /\ underway > 0 /\ underway' = underway - 1 /\ received' = received + 1
        /\ asteriskPtt' /\ late' = late
        /\ asteriskPtt => startDtmf' \in {startDtmf, Off}
        /\ ~asteriskPtt => startDtmf' \in {startDtmf, StartTime}
    BY <1>2, ArrivalStep
  <2>2. PICK n \in Nat : Delivers(n) /\ Queues(n) BY <2>1
  <2> QED BY <1>1, <2>1, <2>2, HandOverBalance
<1>3. CASE StartDigitsDone \/ OpenersDelayOver
  <2>1. /\ \E n \in Nat : Delivers(n) /\ Queues(n)
        /\ UNCHANGED <<underway, received, asteriskPtt, late>>
        /\ asteriskPtt /\ startDtmf' = Off
    BY <1>3, ResumeStep
  <2>2. PICK n \in Nat : Delivers(n) /\ Queues(n) BY <2>1
  <2>3. /\ asteriskPtt' /\ underway' = underway /\ received' = received
        /\ startDtmf' \in {startDtmf, Off} /\ late' = late
    BY <2>1
  <2> QED BY <1>1, <2>1, <2>2, <2>3, HandOverBalance
<1>4. CASE /\ UNCHANGED <<txQueue, txTimer, queued, sent, waiting, delayed,
                          startDtmf, underway, late>>
           /\ \/ UNCHANGED <<asteriskPtt, pttTimer>>
              \/ pttTimer = 0 /\ pttTimer' = Off
  <2>1. VoiceTypes' BY <1>4 DEF VoiceTypes
  <2>2. Backlog' = Backlog /\ Backlog \in Nat
    <3>1. Len(txQueue) \in Nat BY DEF VoiceTypes
    <3> QED BY <1>4, <3>1 DEF Backlog
  <2>3. Backlog' <= Backlog /\ Backlog' \in Nat BY <2>2
  <2> QED BY <1>4, <2>1, <2>2, <2>3, ShrinkingBalance
<1>5. CASE HangOver
  BY <1>4, <1>5 DEF HangOver, PttTimerFires, Rtp!SendDtmfSequence, Rtp!queueVars,
                    rtpVars, frameVars
<1>6. CASE EndpointLearnt
  BY <1>4, <1>6 DEF EndpointLearnt, SetRemote, Rtp!SetRemote, Rtp!queueVars,
                    frameVars, pttVars
<1>7. CASE RtpStep
  <2>1. UNCHANGED <<waiting, delayed, startDtmf, underway, late, asteriskPtt, pttTimer>>
    BY <1>7 DEF RtpStep, pttVars, frameVars
  <2>2. CASE Rtp!PumpSends
    <3>1. /\ VoiceTypes' /\ Backlog \in Nat /\ Backlog' \in Nat
          /\ Backlog' <= Backlog
      BY <2>1, <2>2, PumpBacklog
    <3> QED BY <2>1, <3>1, ShrinkingBalance
  <2>3. CASE Rtp!PumpEnds
    <3>1. /\ txTimer = 0 /\ txTimer' = Off /\ txQueue = <<>>
          /\ UNCHANGED <<txQueue, queued, sent>>
      BY <2>3 DEF Rtp!PumpEnds, Rtp!Off, Off
    <3>2. VoiceTypes' BY <2>1, <3>1 DEF VoiceTypes
    <3>3. Backlog = 0 /\ Backlog' = 0 BY <3>1 DEF Backlog, Off
    <3> QED BY <2>1, <3>2, <3>3, ShrinkingBalance
  <2>4. CASE Rtp!DtmfStep
    BY <1>4, <2>1, <2>4 DEF Rtp!DtmfStep, Rtp!queueVars
  <2> QED BY <1>7, <2>2, <2>3, <2>4 DEF RtpStep
<1>8. CASE JointTick BY <1>8, TickBalance
<1>9. CASE UNCHANGED jointVars
  BY <1>4, <1>9 DEF jointVars, vars, rtpVars, frameVars, pttVars
<1> QED
  BY <1>2, <1>3, <1>5, <1>6, <1>7, <1>8, <1>9 DEF JointNext, Due

LEMMA BacklogInvariant ==
    JointSpec => [](Wiring /\ TonesTyped /\ DigitInv /\ VoiceTypes /\ BacklogInv)
<1>1. JointInit => VoiceTypes /\ BacklogInv
  <2> SUFFICES ASSUME JointInit PROVE VoiceTypes /\ BacklogInv OBVIOUS
  <2> USE JointAssumption, PttTimesAssumption DEF JointInit, Init, Rtp!Init, Off, Rtp!Off
  <2>1. VoiceTypes BY DEF VoiceTypes
  <2>2. Backlog = 0 /\ Suspended = 0 BY DEF Backlog, Suspended, Held
  <2>3. Ahead = Burst /\ Burst <= HeldBack /\ 0 <= LateVoice
    BY <2>2 DEF Ahead, HeldBack, LateVoice
  <2> QED BY <2>1, <2>2, <2>3 DEF BacklogInv
<1> QED BY <1>1, WiringInvariant, DigitInvariant, BacklogStep, PTL DEF JointSpec

\* Once PTT is closed, no more voice is still to be sent than the start digits, a
\* burst and the time lost hold back beyond the hang time, however much time the
\* pump and the digits lose in an over.
THEOREM VoiceTailBounded == JointSpec => []TailBounded
<1>1. VoiceTypes /\ BacklogInv => TailBounded
  <2> SUFFICES ASSUME VoiceTypes, BacklogInv, ~asteriskPtt
               PROVE  Len(txQueue) <= LateVoice
    BY DEF TailBounded
  <2>1. LateVoice \in Nat BY HeldBackType DEF VoiceTypes
  <2>2. Len(txQueue) \in Nat BY DEF VoiceTypes
  <2>3. PICK l \in Nat, q \in Nat : l = LateVoice /\ q = Len(txQueue)
    BY <2>1, <2>2
  <2>4. q <= Backlog /\ Backlog \in Nat /\ Backlog <= l
    BY <2>2, <2>3 DEF Backlog, BacklogInv
  <2>5. q <= l BY <2>4
  <2> QED BY <2>3, <2>5
<1> QED BY <1>1, BacklogInvariant, PTL

\* What is queued is no more than is held back.
LEMMA BacklogHeldBack ==
    ASSUME Wiring, VoiceTypes, BacklogInv
    PROVE  Backlog \in Nat /\ Backlog <= HeldBack
<1>1. Suspended \in Nat /\ underway \in Nat /\ Backlog \in Nat /\ HeldBack \in Nat
  <2>1. Len(txQueue) \in Nat BY DEF VoiceTypes
  <2> QED BY <2>1, SuspendedCount, JointAssumption, HeldBackType
          DEF Wiring, VoiceTypes, Backlog
<1>2. PICK b \in Nat, s \in Nat, u \in Nat, most \in Nat :
           b = Backlog /\ s = Suspended /\ u = underway /\ most = HeldBack
  BY <1>1
<1>3. b + (s + u) <= most BY <1>2 DEF BacklogInv, Ahead
<1>4. b <= most BY <1>3
<1> QED BY <1>2, <1>4

\* Only the pump's turn can lose voice, and only of a queue that has grown beyond
\* its limit.
LEMMA LostStep ==
    Wiring /\ VoiceTypes /\ BacklogInv /\ [JointNext]_jointVars
        => (Lost' > Lost => HeldBack > MaxQueue)
<1> SUFFICES ASSUME Wiring, VoiceTypes, BacklogInv, [JointNext]_jointVars
             PROVE  Lost' > Lost => HeldBack > MaxQueue
  OBVIOUS
<1>1. Lost \in Int BY DEF Lost, VoiceTypes
<1>2. CASE Lost' = Lost BY <1>1, <1>2
<1>3. CASE UNCHANGED <<queued, sent, txQueue>> BY <1>2, <1>3 DEF Lost
<1>4. ASSUME NEW n \in Nat, Queues(n) PROVE Lost' = Lost
  <2>1. Len(txQueue) \in Nat /\ Len(sent) \in Nat /\ queued \in Int
    BY DEF VoiceTypes
  <2> QED BY <1>4, <2>1 DEF Queues, Lost
<1>5. CASE OpusArrives BY <1>2, <1>4, <1>5, ArrivalStep
<1>6. CASE StartDigitsDone \/ OpenersDelayOver BY <1>2, <1>4, <1>6, ResumeStep
<1>7. CASE HangOver
  BY <1>3, <1>7 DEF HangOver, Rtp!SendDtmfSequence, Rtp!queueVars, rtpVars
<1>8. CASE EndpointLearnt
  BY <1>3, <1>8 DEF EndpointLearnt, Rtp!SetRemote, Rtp!queueVars
<1>9. CASE RtpStep
  <2>1. CASE Rtp!PumpSends
    <3>1. Backlog <= MaxQueue => Lost' = Lost
      BY <1>9, <2>1, PumpBacklog DEF RtpStep
    <3>2. CASE ~(Backlog <= MaxQueue)
      <4>1. Backlog \in Nat /\ Backlog <= HeldBack BY BacklogHeldBack
      <4>2. MaxQueue \in Nat /\ HeldBack \in Nat
        BY RtpAssumption, HeldBackType DEF Rtp!QueueAssumption, VoiceTypes
      <4> QED BY <3>2, <4>1, <4>2
    <3> QED BY <1>2, <3>1, <3>2
  <2>2. CASE Rtp!PumpEnds BY <1>3, <2>2 DEF Rtp!PumpEnds
  <2>3. CASE Rtp!DtmfStep BY <1>3, <2>3 DEF Rtp!DtmfStep, Rtp!queueVars
  <2> QED BY <1>9, <2>1, <2>2, <2>3 DEF RtpStep
<1>10. CASE JointTick BY <1>3, <1>10 DEF JointTick, Rtp!Tick
<1>11. CASE UNCHANGED jointVars BY <1>3, <1>11 DEF jointVars, rtpVars
<1> QED
  BY <1>5, <1>6, <1>7, <1>8, <1>9, <1>10, <1>11 DEF JointNext, Due

\* The queue overflows only by what the start digits, a burst and the time lost
\* hold back, however overs, digits and the pump's turns fall together.
THEOREM VoiceLostOnlyIfLate == JointSpec => LostOnlyIfLate
<1>1. Wiring /\ VoiceTypes /\ BacklogInv /\ [JointNext]_jointVars
        => [Lost' > Lost => HeldBack > MaxQueue]_jointVars
  BY LostStep
<1> QED BY <1>1, BacklogInvariant, PTL DEF JointSpec, LostOnlyIfLate

-----------------------------------------------------------------------------
(* The stop digits.  They end before the over that follows does, unless so *)
(* much time is lost that they do not.                                     *)

StopPlaying == {d \in playing : d.first # opening}

StartLeft == IF startDtmf = Off THEN 0 ELSE startDtmf

\* What is left of the stop digits when the start digits and then the hang time
\* of the next over have gone by.
StopEnds(d) ==
    /\ Remaining(d) <= StopTime
    /\ asteriskPtt => Remaining(d) + StartTime <= StopTime + late + StartLeft
    /\ pttTimer # Off => Remaining(d) + StartTime + Hang <= StopTime + late + pttTimer

StopDigitInv ==
    /\ StopPlaying # {} => HasDtmf /\ remote
    /\ \A d \in StopPlaying : StopEnds(d)
    /\ StopTime + late < StartTime + Hang => \A d, e \in StopPlaying : d = e

LEMMA StopTimes ==
    ASSUME Wiring, late \in Nat
    PROVE  /\ StopTime \in Nat /\ StartTime \in Nat /\ Hang \in Nat
           /\ StartLeft \in Nat /\ pttTimer \in Int /\ startDtmf \in Int
<1>1. DigitTime \in Nat BY RtpAssumption DEF Rtp!RtpTimesAssumption, DigitTime
<1>2. ASSUME NEW x \in Nat, NEW y \in Nat PROVE x * y \in Nat OBVIOUS
<1>3. StopTime \in Nat BY <1>1, <1>2, SomeDigits
<1> QED BY <1>3, PttTimesAssumption DEF Wiring, PttTypes, StartLeft, Off

\* Steps that begin no sequence and do not open PTT: the stop digits keep their
\* ends, and the hang timer is restarted only when no start digits are played.
LEMMA StopDigitsKept ==
    ASSUME Wiring, TonesTyped, StopDigitInv, late \in Nat, late' = late,
           \A d \in StopPlaying' :
               \E e \in StopPlaying : Remaining(d) = Remaining(e),
           (\A d, e \in StopPlaying : d = e) => \A d, e \in StopPlaying' : d = e,
           remote => remote', asteriskPtt' => asteriskPtt, StartLeft' = StartLeft,
           \/ pttTimer' \in {pttTimer, Off}
           \/ pttTimer' = Hang /\ asteriskPtt /\ StartLeft = 0
    PROVE  StopDigitInv'
<1>1. ASSUME NEW d \in StopPlaying' PROVE StopEnds(d)'
  <2>1. PICK e \in StopPlaying : Remaining(d) = Remaining(e) OBVIOUS
  <2>2. e \in Tone BY DEF StopPlaying, TonesTyped
  <2>3. PICK r \in Nat, stop \in Nat, start \in Nat, hang \in Nat, lost \in Nat,
             left \in Nat, p \in Int :
             /\ r = Remaining(e) /\ stop = StopTime /\ start = StartTime
             /\ hang = Hang /\ lost = late /\ left = StartLeft /\ p = pttTimer
    BY <2>2, RemainingType, StopTimes
  <2>4. /\ r <= stop /\ (asteriskPtt => r + start <= stop + lost + left)
        /\ p # Off => r + start + hang <= stop + lost + p
    BY <2>1, <2>3 DEF StopDigitInv, StopEnds
  <2>5. CASE pttTimer' \in {pttTimer, Off}
    BY <2>1, <2>3, <2>4, <2>5 DEF StopEnds
  <2>6. CASE pttTimer' = Hang /\ asteriskPtt /\ StartLeft = 0
    <3>1. r + start + hang <= stop + lost + hang BY <2>3, <2>4, <2>6
    <3> QED BY <2>1, <2>3, <2>4, <2>6, <3>1 DEF StopEnds
  <2> QED BY <2>5, <2>6
<1>2. StopPlaying' # {} => HasDtmf /\ remote'
  <2>1. StopPlaying' # {} => StopPlaying # {} OBVIOUS
  <2> QED BY <2>1 DEF StopDigitInv
<1>3. StopTime + late' < StartTime + Hang => \A d, e \in StopPlaying' : d = e
  BY DEF StopDigitInv
<1> QED BY <1>1, <1>2, <1>3 DEF StopDigitInv

LEMMA FinishTimer ==
    ASSUME FrameInv, NEW frames \in Seq(Int), Finish(frames)
    PROVE  pttTimer' \in {pttTimer, Hang}
BY DEF Finish

\* A handler that hands frames over finds the start digits over.
LEMMA StopDigitsAndFrames ==
    ASSUME Wiring, TonesTyped, DigitInv, StopDigitInv, late \in Nat,
           \/ (OpusArrives /\ asteriskPtt)
           \/ StartDigitsDone \/ OpenersDelayOver
    PROVE  StopDigitInv'
<1> USE DEF Wiring
<1>1. ASSUME StopPlaying' \subseteq StopPlaying, late' = late, remote' = remote,
             asteriskPtt, StartLeft' = StartLeft,
             pttTimer' = pttTimer \/ (pttTimer' = Hang /\ StartLeft = 0)
      PROVE  StopDigitInv'
  BY <1>1, StopDigitsKept
<1>2. CASE OpusArrives /\ asteriskPtt
  <2>1. /\ JoinPtt(received') /\ UNCHANGED <<remote, late, startDtmf>>
        /\ received' = received + 1 /\ HandOver /\ opening' = opening
    BY <1>2 DEF OpusArrives, ReflectorOpus, JoinPtt
  <2>2. StopPlaying' = StopPlaying BY <2>1, HandOverTones DEF StopPlaying
  <2>3. StartLeft' = StartLeft BY <2>1 DEF StartLeft
  <2>4. pttTimer' = pttTimer \/ (pttTimer' = Hang /\ StartLeft = 0)
    <3>1. CASE startDtmf # Off BY <2>1, <3>1 DEF JoinPtt
    <3>2. CASE startDtmf = Off
      <4>1. Finish(<<received'>>) BY <2>1, <3>2 DEF JoinPtt
      <4>2. <<received'>> \in Seq(Int) BY <2>1 DEF PttTypes
      <4> QED BY <3>2, <4>1, <4>2, FinishTimer DEF StartLeft
    <3> QED BY <3>1, <3>2
  <2> QED BY <1>1, <1>2, <2>1, <2>2, <2>3, <2>4
<1>3. CASE StartDigitsDone
  <2>1. /\ StartDtmfDone /\ HandOver /\ StartPlaying = {} /\ opening' = 0
        /\ UNCHANGED <<remote, late>> /\ startDtmf = 0 /\ startDtmf' = Off
    BY <1>3 DEF StartDigitsDone, StartDtmfDone
  <2>2. StopPlaying' \subseteq StopPlaying
    BY <2>1, HandOverTones DEF StopPlaying, StartPlaying
  <2>3. StartLeft' = 0 /\ StartLeft = 0 BY <2>1 DEF StartLeft, Off
  <2>4. waiting \in Seq(Int) /\ waiting # <<>> /\ asteriskPtt
    BY <2>1 DEF PttTypes, PttInv, Off
  <2>5. pttTimer' \in {pttTimer, Hang}
    <3>1. Tail(waiting) \in Seq(Int) BY <2>4
    <3> QED BY <2>1, <2>4, <3>1, FinishTimer DEF StartDtmfDone
  <2> QED BY <1>1, <2>1, <2>2, <2>3, <2>4, <2>5
<1>4. CASE OpenersDelayOver
  <2>1. OpenDelayOver /\ HandOver /\ UNCHANGED <<opening, late>>
    BY <1>4 DEF OpenersDelayOver
  <2>2. PICK d \in delayed : Finish(<<d.frame>>) BY <2>1 DEF OpenDelayOver
  <2>3. <<d.frame>> \in Seq(Int) BY DEF PttTypes, Pending
  <2>4. pttTimer' \in {pttTimer, Hang} BY <2>2, <2>3, FinishTimer
  <2>5. asteriskPtt /\ startDtmf = Off BY <2>2 DEF PttInv
  <2>6. UNCHANGED <<startDtmf, remote>> BY <2>1 DEF OpenDelayOver
  <2>7. StopPlaying' = StopPlaying BY <2>1, HandOverTones DEF StopPlaying
  <2>8. StartLeft' = 0 /\ StartLeft = 0 BY <2>5, <2>6 DEF StartLeft
  <2> QED BY <1>1, <2>1, <2>4, <2>5, <2>6, <2>7, <2>8
<1> QED BY <1>2, <1>3, <1>4

\* The over begins with all its start digits before it.
LEMMA StopDigitsAtOpening ==
    ASSUME Wiring, TonesTyped, DigitInv, StopDigitInv, late \in Nat,
           OpusArrives, ~asteriskPtt
    PROVE  StopDigitInv'
<1>1. CASE startDtmf' # startDtmf
  <2>1. /\ startDtmf = Off /\ opening = 0 /\ startDtmf' = StartTime
        /\ Rtp!SendDtmfSequence(StartDigits) /\ opening' = events'
        /\ pttTimer' = pttTimer /\ UNCHANGED <<remote, late>>
    BY <1>1, OpeningFrame DEF SendStartDigits
  <2>2. /\ events' = events + 1 /\ TonesTyped'
        /\ \E d \in Tone : playing' = playing \cup {d} /\ d.first = events'
    BY <2>1, SomeDigits, NewlyPlayed
  <2>3. PICK d \in Tone : playing' = playing \cup {d} /\ d.first = events' BY <2>2
  <2>4. StopPlaying = playing BY <2>1 DEF StopPlaying, TonesTyped
  <2>5. StopPlaying' \subseteq StopPlaying BY <2>1, <2>3, <2>4 DEF StopPlaying
  <2>6. pttTimer = Off BY DEF Wiring, PttInv
  <2>7. StartLeft' = StartTime
    BY <2>1, PttTimesAssumption DEF StartLeft, Off
  <2>8. ASSUME NEW e \in StopPlaying' PROVE StopEnds(e)'
    <3>1. e \in Tone /\ Remaining(e) <= StopTime
      BY <2>5 DEF StopDigitInv, StopEnds, StopPlaying, TonesTyped
    <3>2. PICK r \in Nat, stop \in Nat, start \in Nat, lost \in Nat :
               /\ r = Remaining(e) /\ stop = StopTime /\ start = StartTime
               /\ lost = late
      BY <3>1, RemainingType, StopTimes
    <3>3. r + start <= stop + lost + start BY <3>1, <3>2
    <3> QED BY <2>1, <2>6, <2>7, <3>1, <3>2, <3>3 DEF StopEnds
  <2> QED BY <2>1, <2>5, <2>8 DEF StopDigitInv
<1>2. CASE startDtmf' = startDtmf
  <2>1. /\ OpenPtt(received') /\ HandOver /\ opening' = opening
    BY <1>2 DEF OpusArrives, ReflectorOpus
  <2>2. ~(HasDtmf /\ remote)
    <3>1. startDtmf = Off BY DEF Wiring, PttInv
    <3> QED BY <1>2, <2>1, <3>1, PttTimesAssumption DEF OpenPtt, Off
  <2>3. StopPlaying' = {} BY <2>1, <2>2, HandOverTones DEF StopDigitInv, StopPlaying
  <2> QED BY <2>3 DEF StopDigitInv
<1> QED BY <1>1, <1>2

\* The stop digits of the last over are done when those of the next begin.
LEMMA StopDigitsAtClosing ==
    ASSUME Wiring, TonesTyped, DigitInv, StopDigitInv, late \in Nat, HangOver
    PROVE  StopDigitInv'
<1>1. /\ pttTimer = 0 /\ pttTimer' = Off /\ ~asteriskPtt'
      /\ UNCHANGED <<startDtmf, remote, opening, late>>
      /\ IF HasDtmf /\ remote THEN Rtp!SendDtmfSequence(StopDigits)
                              ELSE UNCHANGED rtpVars
  BY DEF HangOver, PttTimerFires
<1>2. CASE ~(HasDtmf /\ remote)
  <2>1. StopPlaying' = {} BY <1>1, <1>2 DEF StopDigitInv, StopPlaying, rtpVars
  <2> QED BY <2>1 DEF StopDigitInv
<1>3. CASE HasDtmf /\ remote
  <2>1. /\ events' = events + 1 /\ TonesTyped'
        /\ \E d \in Tone : /\ playing' = playing \cup {d} /\ d.first = events'
                           /\ Remaining(d) = StopDigits * DigitTime
    BY <1>1, <1>3, SomeDigits, NewlyPlayed
  <2>2. PICK d \in Tone : /\ playing' = playing \cup {d} /\ d.first = events'
                          /\ Remaining(d) = StopTime
    BY <2>1, SomeDigits
  <2>3. StopPlaying' \subseteq StopPlaying \cup {d}
    BY <1>1, <2>2 DEF StopPlaying
  <2>4. ASSUME NEW e \in StopPlaying' PROVE StopEnds(e)'
    <3>1. Remaining(e) <= StopTime
      <4>1. StopTime \in Nat BY StopTimes
      <4> QED BY <2>2, <2>3, <4>1 DEF StopDigitInv, StopEnds
    <3> QED BY <1>1, <3>1 DEF StopEnds
  <2>5. ASSUME StopTime + late < StartTime + Hang PROVE StopPlaying = {}
    <3> SUFFICES ASSUME NEW e \in StopPlaying PROVE FALSE OBVIOUS
    <3>1. e \in Tone BY DEF StopPlaying, TonesTyped
    <3>2. PICK r \in Nat, stop \in Nat, start \in Nat, hang \in Nat, lost \in Nat :
               /\ r = Remaining(e) /\ stop = StopTime /\ start = StartTime
               /\ hang = Hang /\ lost = late
      BY <3>1, RemainingType, StopTimes
    <3>3. r + start + hang <= stop + lost + 0
      BY <1>1, <3>2 DEF StopDigitInv, StopEnds, Off
    <3> QED BY <2>5, <3>2, <3>3
  <2>6. StopTime + late' < StartTime + Hang => \A c, e \in StopPlaying' : c = e
    BY <1>1, <2>3, <2>5
  <2> QED BY <1>1, <1>3, <2>4, <2>6 DEF StopDigitInv
<1> QED BY <1>2, <1>3

\* A sequence that goes on keeps its end.
LEMMA StopDigitsGoOn ==
    ASSUME Wiring, TonesTyped, StopDigitInv, late \in Nat, RtpStep
    PROVE  StopDigitInv'
<1>1. /\ UNCHANGED <<pttTimer, startDtmf, asteriskPtt, remote, opening, late>>
      /\ StartLeft' = StartLeft
  BY DEF RtpStep, Rtp!PumpSends, Rtp!PumpEnds, Rtp!DtmfStep, pttVars, StartLeft
<1>2. CASE playing' = playing
  <2>1. StopPlaying' = StopPlaying BY <1>1, <1>2 DEF StopPlaying
  <2> QED BY <1>1, <2>1, StopDigitsKept
<1>3. CASE Rtp!PumpSends \/ Rtp!PumpEnds
  BY <1>2, <1>3 DEF Rtp!PumpSends, Rtp!PumpEnds, Rtp!dtmfVars
<1>4. CASE Rtp!DtmfStep
  <2>1. PICK d \in playing : GoesOn(d) BY <1>4, DtmfGoesOn
  <2>2. CASE playing' = playing \ {d}
    <3>1. StopPlaying' \subseteq StopPlaying BY <1>1, <2>2 DEF StopPlaying
    <3> QED BY <1>1, <3>1, StopDigitsKept
  <2>3. CASE \E e \in Tone : /\ playing' = (playing \ {d}) \cup {e}
                             /\ e.first = d.first /\ Remaining(e) = Remaining(d)
    <3>1. PICK e \in Tone : /\ playing' = (playing \ {d}) \cup {e}
                            /\ e.first = d.first /\ Remaining(e) = Remaining(d)
      BY <2>3
    <3>2. CASE d.first = opening
      <4>1. StopPlaying' \subseteq StopPlaying BY <1>1, <3>1, <3>2 DEF StopPlaying
      <4> QED BY <1>1, <4>1, StopDigitsKept
    <3>3. CASE d.first # opening
      <4>1. d \in StopPlaying /\ StopPlaying' = (StopPlaying \ {d}) \cup {e}
        BY <1>1, <3>1, <3>3 DEF StopPlaying
      <4>2. \A c \in StopPlaying' : \E b \in StopPlaying : Remaining(c) = Remaining(b)
        BY <3>1, <4>1
      <4>3. (\A b, c \in StopPlaying : b = c) => \A b, c \in StopPlaying' : b = c
        BY <4>1
      <4> QED BY <1>1, <4>2, <4>3, StopDigitsKept
    <3> QED BY <3>2, <3>3
  <2> QED BY <2>1, <2>2, <2>3 DEF GoesOn
<1> QED BY <1>3, <1>4 DEF RtpStep

\* Time that the stop digits lose is counted, and so is time that they alone do
\* not lose.
LEMMA StopDigitsInTime ==
    ASSUME Wiring, TonesTyped, DigitInv, StopDigitInv, late \in Nat, JointTick
    PROVE  StopDigitInv'
<1>1. /\ late' = IF Behind THEN late + 1 ELSE IF Silent THEN 0 ELSE late
      /\ Tick /\ UNCHANGED <<asteriskPtt, remote>>
  BY DEF JointTick, Tick
<1>2. /\ playing' = {After(d) : d \in playing} /\ opening' = opening
      /\ startDtmf = Off => startDtmf' = Off
      /\ startDtmf # Off =>
           \/ startDtmf' = startDtmf - 1 /\ startDtmf > 0
           \/ startDtmf' = startDtmf /\ DigitDue
  BY TickTones
<1>3. ASSUME NEW e \in StopPlaying' PROVE \E d \in StopPlaying : e = After(d)
  <2>1. PICK d \in playing : e = After(d) BY <1>2 DEF StopPlaying
  <2>2. d.first # opening BY <1>2, <2>1, AfterTick DEF StopPlaying, TonesTyped
  <2> QED BY <2>1, <2>2 DEF StopPlaying
<1>4. late' \in Nat /\ (StopPlaying # {} => late' >= late)
  BY <1>1 DEF Silent, StopPlaying
<1>5. StartLeft' \in Nat /\ StartLeft' >= StartLeft - 1
  <2>1. startDtmf \in Int /\ startDtmf >= -1 BY DEF Wiring, PttTypes, Off
  <2>2. CASE startDtmf = Off
    <3>1. StartLeft = 0 /\ StartLeft' = 0 BY <1>2, <2>2 DEF StartLeft
    <3> QED BY <3>1
  <2>3. CASE startDtmf # Off
    <3>1. startDtmf' # Off /\ startDtmf' >= startDtmf - 1 /\ startDtmf' \in Nat
      BY <1>2, <2>1, <2>3 DEF Off
    <3>2. StartLeft = startDtmf /\ StartLeft' = startDtmf'
      BY <2>3, <3>1 DEF StartLeft
    <3> QED BY <3>1, <3>2
  <2> QED BY <2>2, <2>3
<1>6. /\ pttTimer' = IF pttTimer = Off THEN Off ELSE pttTimer - 1
      /\ pttTimer # 0
  BY <1>1 DEF Tick, Elapsed, Wiring, PttTypes, Off
<1>7. ASSUME NEW e \in StopPlaying' PROVE StopEnds(e)'
  <2>1. PICK d \in StopPlaying : e = After(d) BY <1>3
  <2>2. d \in Tone /\ d \in playing BY DEF StopPlaying, TonesTyped
  <2>3. /\ e \in Tone
        /\ d.wait = 0 => Remaining(e) = Remaining(d)
        /\ d.wait # 0 => Remaining(e) = Remaining(d) - 1
    BY <2>1, <2>2, AfterTick
  <2>4. d.wait = 0 => Behind BY <2>2 DEF Behind, DigitDue
  <2>5. PICK r \in Nat, r1 \in Nat, stop \in Nat, start \in Nat, hang \in Nat,
             lost \in Nat, lost1 \in Nat, left \in Nat, left1 \in Nat, p \in Int :
             /\ r = Remaining(d) /\ r1 = Remaining(e) /\ stop = StopTime
             /\ start = StartTime /\ hang = Hang /\ lost = late /\ lost1 = late'
             /\ left = StartLeft /\ left1 = StartLeft' /\ p = pttTimer
    BY <1>4, <1>5, <2>2, <2>3, RemainingType, StopTimes
  <2>6. /\ r <= stop /\ (asteriskPtt => r + start <= stop + lost + left)
        /\ p # Off => r + start + hang <= stop + lost + p
    BY <2>5 DEF StopDigitInv, StopEnds
  <2>7. \/ lost1 = lost + 1 /\ r1 <= r
        \/ lost1 >= lost /\ r1 = r - 1
    <3>1. CASE Behind BY <1>1, <2>3, <2>5, <3>1
    <3>2. CASE ~Behind BY <1>4, <2>3, <2>4, <2>5, <3>2
    <3> QED BY <3>1, <3>2
  <2>8. left1 >= left - 1 BY <1>5, <2>5
  <2>9. /\ r1 <= stop /\ (asteriskPtt => r1 + start <= stop + lost1 + left1)
        /\ p # Off => r1 + start + hang <= stop + lost1 + (p - 1)
    BY <2>6, <2>7, <2>8
  <2> QED BY <1>1, <1>6, <2>5, <2>9 DEF StopEnds
<1>8. ASSUME StopTime + late' < StartTime + Hang, NEW c \in StopPlaying',
             NEW e \in StopPlaying'
      PROVE  c = e
  <2>1. StopPlaying # {} BY <1>3
  <2>2. StopTime + late < StartTime + Hang BY <1>4, <1>8, <2>1, StopTimes
  <2>3. \A b, d \in StopPlaying : b = d BY <2>2 DEF StopDigitInv
  <2> QED BY <1>3, <2>3
<1>9. StopPlaying' # {} => HasDtmf /\ remote'
  BY <1>1, <1>3 DEF StopDigitInv
<1> QED BY <1>7, <1>8, <1>9 DEF StopDigitInv

LEMMA StopDigitStep ==
    /\ Wiring /\ TonesTyped /\ DigitInv /\ VoiceTypes /\ StopDigitInv
    /\ [JointNext]_jointVars
    => StopDigitInv'
<1> SUFFICES ASSUME Wiring, TonesTyped, DigitInv, VoiceTypes, StopDigitInv,
                    [JointNext]_jointVars
             PROVE  StopDigitInv'
  OBVIOUS
<1>1. late \in Nat BY DEF VoiceTypes
<1>2. CASE OpusArrives BY <1>1, <1>2, StopDigitsAndFrames, StopDigitsAtOpening
<1>3. CASE StartDigitsDone \/ OpenersDelayOver BY <1>1, <1>3, StopDigitsAndFrames
<1>4. CASE HangOver BY <1>1, <1>4, StopDigitsAtClosing
<1>5. CASE EndpointLearnt
  <2>1. ~remote BY <1>5 DEF EndpointLearnt, SetRemote
  <2>2. UNCHANGED <<playing, opening>>
    BY <1>5 DEF EndpointLearnt, Rtp!SetRemote, Rtp!dtmfVars
  <2>3. StopPlaying' = {} BY <2>1, <2>2 DEF StopDigitInv, StopPlaying
  <2> QED BY <2>3 DEF StopDigitInv
<1>6. CASE RtpStep BY <1>1, <1>6, StopDigitsGoOn
<1>7. CASE JointTick BY <1>1, <1>7, StopDigitsInTime
<1>8. CASE UNCHANGED jointVars
  BY <1>8 DEF jointVars, rtpVars, vars, pttVars, StopDigitInv, StopEnds, StopPlaying,
              StartLeft
<1> QED
  BY <1>2, <1>3, <1>4, <1>5, <1>6, <1>7, <1>8 DEF JointNext, Due

LEMMA StopDigitInvariant == JointSpec => [](DigitInv /\ StopDigitInv)
<1>1. JointInit => StopDigitInv
  BY DEF JointInit, Rtp!Init, StopDigitInv, StopPlaying
<1> QED BY <1>1, StopDigitStep, BacklogInvariant, PTL DEF JointSpec

\* The digits of two sequences at most are played at a time, the stop digits of
\* one over and the start digits of the next, whatever their lengths, unless the
\* time lost makes stop digits outlast the over after theirs.
THEOREM TwoSequencesAtMost == JointSpec => []OverlapBounded
<1>1. DigitInv /\ StopDigitInv => OverlapBounded
  <2> SUFFICES ASSUME DigitInv, StopDigitInv, StopTime + late < StartTime + Hang
               PROVE  Cardinality(playing) <= 2
    BY DEF OverlapBounded
  <2>1. /\ playing = StartPlaying \cup StopPlaying
        /\ \A d, e \in StartPlaying : d = e
        /\ \A d, e \in StopPlaying : d = e
    BY DEF StartPlaying, StopPlaying, DigitInv, StopDigitInv, IsPlayed
  <2>2. ASSUME NEW part, \A d, e \in part : d = e
        PROVE  IsFiniteSet(part) /\ Cardinality(part) \in {0, 1}
    <3>1. CASE part = {} BY <3>1, FS_EmptySet
    <3>2. CASE part # {}
      <4>1. PICK d \in part : TRUE BY <3>2
      <4>2. part = {d} BY <2>2
      <4> QED BY <4>2, FS_Singleton
    <3> QED BY <3>1, <3>2
  <2> PICK s, t : s = StartPlaying /\ t = StopPlaying OBVIOUS
  <2>3. /\ IsFiniteSet(s) /\ Cardinality(s) \in {0, 1}
        /\ IsFiniteSet(t) /\ Cardinality(t) \in {0, 1}
    BY <2>1, <2>2
  <2>4. /\ Cardinality(s \cup t)
             = Cardinality(s) + Cardinality(t) - Cardinality(s \cap t)
        /\ Cardinality(s \cap t) \in Nat
    BY <2>3, FS_Union, FS_Intersection, FS_CardinalityType
  <2> QED BY <2>1, <2>3, <2>4
<1> QED BY <1>1, StopDigitInvariant, PTL

-----------------------------------------------------------------------------
(* What the wiring makes the RTP bridge do is what the bridge can do by    *)
(* itself.                                                                 *)

LEMMA HandOverIsRtp ==
    ASSUME FrameInv, FrameInv', received' \in 0 .. Frames, waiting' \in Seq(Int),
           open = TRUE, HandOver, remote' = remote
    PROVE  [Rtp!Next]_(Rtp!vars) /\ open' = TRUE
<1>1. CASE Len(delivered') - Len(delivered) > 0
  <2>1. PICK n \in Int : n = Len(delivered') - Len(delivered)
    <3>1. Len(delivered) \in Int /\ Len(delivered') \in Int BY DEF FrameInv
    <3>2. Len(delivered') - Len(delivered) \in Int BY <3>1
    <3> QED BY <3>2
  <2>2. n \in 1 .. Frames
    <3>1. /\ Len(delivered) \in Nat /\ Len(delivered') \in Nat /\ dropped' \in Nat
          /\ Len(waiting') \in Nat /\ Held' \in {0, 1} /\ received' \in Nat
          /\ Frames \in Nat
      BY PttTimesAssumption DEF FrameInv, Held
    <3>2. PICK a \in Nat, b \in Nat, c \in Nat, w \in Nat, h \in Nat, r \in Nat :
               /\ a = Len(delivered) /\ b = Len(delivered') /\ c = dropped'
               /\ w = Len(waiting') /\ h = Held' /\ r = received'
      BY <3>1
    <3>3. r = b + c + w + h /\ r <= Frames /\ n = b - a /\ n > 0
      BY <1>1, <2>1, <3>2 DEF FrameInv, HandedOver
    <3> QED BY <3>1, <3>3
  <2>3. Rtp!SendPcm(n) BY <1>1, <2>1 DEF HandOver
  <2>4. n \in Chunks BY <2>2, RtpInputsAssumption
  <2>5. open' = TRUE BY <2>3 DEF Rtp!SendPcm
  <2> QED BY <2>3, <2>4, <2>5 DEF Rtp!Next
<1>2. CASE ~(Len(delivered') - Len(delivered) > 0)
  BY <1>2 DEF HandOver, rtpVars, Rtp!vars, Rtp!queueVars, Rtp!dtmfVars
<1> QED BY <1>1, <1>2

LEMMA JointIsRtp ==
    ASSUME FrameInv, FrameInv', received' \in 0 .. Frames, waiting' \in Seq(Int),
           open = TRUE, [JointNext]_jointVars
    PROVE  [Rtp!Next]_(Rtp!vars) /\ open' = TRUE
<1>0. StartDigits \in 1 .. Events /\ StopDigits \in 1 .. Events
  BY RtpInputsAssumption
<1>1. ASSUME NEW n \in 1 .. Events, Rtp!SendDtmfSequence(n)
      PROVE  [Rtp!Next]_(Rtp!vars) /\ open' = TRUE
  <2>1. open' = TRUE BY <1>1 DEF Rtp!SendDtmfSequence
  <2> QED BY <1>1, <2>1 DEF Rtp!Next
<1>2. ASSUME UNCHANGED <<rtpVars, remote>>
      PROVE  [Rtp!Next]_(Rtp!vars) /\ open' = TRUE
  BY <1>2 DEF rtpVars, Rtp!vars, Rtp!queueVars, Rtp!dtmfVars
<1>3. CASE OpusArrives
  <2>1. remote' = remote BY <1>3 DEF OpusArrives, ReflectorOpus
  <2>2. Rtp!SendDtmfSequence(StartDigits) \/ HandOver
    BY <1>3 DEF OpusArrives, SendStartDigits
  <2> QED BY <1>0, <1>1, <2>1, <2>2, HandOverIsRtp
<1>4. CASE StartDigitsDone
  BY <1>4, HandOverIsRtp DEF StartDigitsDone, StartDtmfDone
<1>5. CASE OpenersDelayOver
  BY <1>5, HandOverIsRtp DEF OpenersDelayOver, OpenDelayOver
<1>6. CASE HangOver
  <2>1. remote' = remote BY <1>6 DEF HangOver, PttTimerFires
  <2> QED BY <1>0, <1>1, <1>2, <1>6, <2>1 DEF HangOver
<1>7. CASE EndpointLearnt
  <2>1. Rtp!SetRemote BY <1>7 DEF EndpointLearnt
  <2>2. open' = TRUE BY <2>1 DEF Rtp!SetRemote
  <2> QED BY <2>1, <2>2 DEF Rtp!Next
<1>8. CASE RtpStep
  <2>1. Rtp!PumpSends \/ Rtp!PumpEnds \/ Rtp!DtmfStep BY <1>8 DEF RtpStep
  <2>2. open' = TRUE BY <2>1 DEF Rtp!PumpSends, Rtp!PumpEnds, Rtp!DtmfStep
  <2> QED BY <2>1, <2>2 DEF Rtp!Next
<1>9. CASE JointTick
  <2>1. Rtp!Tick BY <1>9 DEF JointTick
  <2>2. open' = TRUE BY <2>1 DEF Rtp!Tick
  <2> QED BY <2>1, <2>2 DEF Rtp!Next
<1>10. CASE UNCHANGED jointVars
  BY <1>2, <1>10 DEF jointVars, vars
<1> QED
  BY <1>3, <1>4, <1>5, <1>6, <1>7, <1>8, <1>9, <1>10 DEF JointNext, Due

\* The wiring uses the RTP bridge as it may be used: all that is promised of the
\* bridge by itself holds under it.
THEOREM RtpUnderWiring == JointSpec => Rtp!Spec
<1>1. JointInit => Rtp!Init /\ open = TRUE BY DEF JointInit, Rtp!Init
<1>2. JointSpec => [](FrameInv /\ received \in 0 .. Frames /\ waiting \in Seq(Int))
  <2>1. TypeOK /\ PttTypes /\ FrameInv
          => FrameInv /\ received \in 0 .. Frames /\ waiting \in Seq(Int)
    BY DEF TypeOK, PttTypes
  <2> QED BY <2>1, WiringOnRtp, TypeCorrect, FrameInvariant, PTL
<1>3. /\ FrameInv /\ received \in 0 .. Frames /\ waiting \in Seq(Int)
      /\ (FrameInv /\ received \in 0 .. Frames /\ waiting \in Seq(Int))'
      /\ open = TRUE /\ [JointNext]_jointVars
      => [Rtp!Next]_(Rtp!vars) /\ (open = TRUE)'
  BY JointIsRtp
<1> QED BY <1>1, <1>2, <1>3, PTL DEF JointSpec, Rtp!Spec

-----------------------------------------------------------------------------
(* What the RTP bridge promises.  Its own theorems, of the same bridge.    *)

RtpAlone == INSTANCE RtpBridgeProofs

LEMMA SameBridge == Rtp!Next <=> RtpAlone!Next
<1> USE DEF Rtp!queueVars, RtpAlone!queueVars, Rtp!dtmfVars, RtpAlone!dtmfVars,
            Rtp!Off, RtpAlone!Off, Rtp!NumberPacket, RtpAlone!NumberPacket,
            Rtp!Begun, RtpAlone!Begun
<1>1. ASSUME NEW n PROVE Rtp!SendPcm(n) <=> RtpAlone!SendPcm(n)
  BY DEF Rtp!SendPcm, RtpAlone!SendPcm, Rtp!StartTxPump, RtpAlone!StartTxPump
<1>2. ASSUME NEW n
      PROVE  Rtp!SendDtmfSequence(n) <=> RtpAlone!SendDtmfSequence(n)
  BY DEF Rtp!SendDtmfSequence, RtpAlone!SendDtmfSequence,
         Rtp!Cardinality, RtpAlone!Cardinality, Rtp!IsFiniteSet, RtpAlone!IsFiniteSet
<1>3. Rtp!PumpSends <=> RtpAlone!PumpSends
  BY DEF Rtp!PumpSends, RtpAlone!PumpSends, Rtp!DropExcess, RtpAlone!DropExcess
<1>4. Rtp!PumpEnds <=> RtpAlone!PumpEnds BY DEF Rtp!PumpEnds, RtpAlone!PumpEnds
<1>5. ASSUME NEW d
      PROVE  (Rtp!NextPacket(d) \/ Rtp!DigitOver(d) \/ Rtp!GapOver(d))
             <=> \/ RtpAlone!NextPacket(d) \/ RtpAlone!DigitOver(d)
                 \/ RtpAlone!GapOver(d)
  BY DEF Rtp!NextPacket, RtpAlone!NextPacket, Rtp!DigitOver, RtpAlone!DigitOver,
         Rtp!GapOver, RtpAlone!GapOver, Rtp!Shorter, RtpAlone!Shorter,
         Rtp!Silent, RtpAlone!Silent
<1>6. Rtp!DtmfStep <=> RtpAlone!DtmfStep
  BY <1>5 DEF Rtp!DtmfStep, RtpAlone!DtmfStep
<1>7. Rtp!SetRemote <=> RtpAlone!SetRemote
  BY DEF Rtp!SetRemote, RtpAlone!SetRemote
<1>8. Rtp!Stop <=> RtpAlone!Stop BY DEF Rtp!Stop, RtpAlone!Stop
<1>9. Rtp!Tick <=> RtpAlone!Tick
  BY DEF Rtp!Tick, RtpAlone!Tick, Rtp!Elapsed, RtpAlone!Elapsed
<1> QED
  BY <1>1, <1>2, <1>3, <1>4, <1>6, <1>7, <1>8, <1>9 DEF Rtp!Next, RtpAlone!Next

LEMMA JointIsRtpAlone == JointSpec => RtpAlone!Spec
<1> USE DEF Rtp!vars, RtpAlone!vars, Rtp!queueVars, RtpAlone!queueVars,
            Rtp!dtmfVars, RtpAlone!dtmfVars
<1>1. Rtp!Init => RtpAlone!Init
  BY DEF Rtp!Init, RtpAlone!Init, Rtp!Off, RtpAlone!Off
<1>2. [Rtp!Next]_(Rtp!vars) => [RtpAlone!Next]_(RtpAlone!vars) BY SameBridge
<1> QED BY <1>1, <1>2, RtpUnderWiring, PTL DEF Rtp!Spec, RtpAlone!Spec

\* Whatever the wiring asks of it, the bridge sends the voice in order, each
\* packet once at most and none that is older than MaxQueue packets, with a
\* period between them, and every digit can be told from the ones before it.
THEOREM RtpPromisesKept ==
    JointSpec => /\ []Rtp!VoiceInOrder
                 /\ Rtp!NeverStale /\ Rtp!VoiceSpaced /\ Rtp!DigitsDistinct
<1>1. /\ RtpAlone!QueueAssumption /\ RtpAlone!RtpTimesAssumption
      /\ RtpAlone!RtpBoundsAssumption
  BY RtpAssumption
  DEF Rtp!QueueAssumption, RtpAlone!QueueAssumption,
      Rtp!RtpTimesAssumption, RtpAlone!RtpTimesAssumption,
      Rtp!RtpBoundsAssumption, RtpAlone!RtpBoundsAssumption
<1>2. RtpAlone!Spec => []RtpAlone!VoiceInOrder
  BY <1>1, RtpAlone!VoiceAlwaysInOrder, Zenon
<1>3. RtpAlone!Spec => RtpAlone!NeverStale
  BY <1>1, RtpAlone!VoiceNeverStale, Zenon
<1>4. RtpAlone!Spec => RtpAlone!VoiceSpaced
  BY <1>1, RtpAlone!VoiceAlwaysSpaced, Zenon
<1>5. RtpAlone!Spec => RtpAlone!DigitsDistinct
  BY <1>1, RtpAlone!DigitsAlwaysDistinct, Zenon
<1>6. RtpAlone!VoiceInOrder => Rtp!VoiceInOrder
  BY DEF Rtp!VoiceInOrder, RtpAlone!VoiceInOrder, Rtp!Ascending, RtpAlone!Ascending
<1>7. RtpAlone!NeverStale => Rtp!NeverStale
  BY PTL DEF Rtp!NeverStale, RtpAlone!NeverStale, Rtp!vars, RtpAlone!vars,
         Rtp!queueVars, RtpAlone!queueVars, Rtp!dtmfVars, RtpAlone!dtmfVars
<1>8. RtpAlone!VoiceSpaced => Rtp!VoiceSpaced
  BY PTL DEF Rtp!VoiceSpaced, RtpAlone!VoiceSpaced, Rtp!vars, RtpAlone!vars,
         Rtp!queueVars, RtpAlone!queueVars, Rtp!dtmfVars, RtpAlone!dtmfVars
<1>9. RtpAlone!DigitsDistinct => Rtp!DigitsDistinct
  BY PTL DEF Rtp!DigitsDistinct, RtpAlone!DigitsDistinct, Rtp!vars, RtpAlone!vars,
         Rtp!queueVars, RtpAlone!queueVars, Rtp!dtmfVars, RtpAlone!dtmfVars
<1> QED
  BY <1>2, <1>3, <1>4, <1>5, <1>6, <1>7, <1>8, <1>9, JointIsRtpAlone, PTL
=============================================================================
