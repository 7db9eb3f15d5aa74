-------------------------- MODULE AudioPathProofs --------------------------
(***************************************************************************)
(* What AudioPath does to the samples and what its listeners hear, for any *)
(* filter length, packet time and high-water mark, any sizes of frames and *)
(* any number of frames and of listeners.                                  *)
(***************************************************************************)
EXTENDS AudioPath, SequenceTheorems, WellFoundedInduction, TLAPS

-----------------------------------------------------------------------------
(* The companding.                                                         *)

LEMMA Powers ==
    /\ Power[0] = 1 /\ Power[1] = 2 /\ Power[2] = 4 /\ Power[3] = 8
    /\ Power[4] = 16 /\ Power[5] = 32 /\ Power[6] = 64 /\ Power[7] = 128
  BY DEF Power, Exponents

\* A biased magnitude lies in its segment.
LEMMA SegmentBounds ==
    ASSUME NEW pcm \in Int, 132 <= pcm, pcm <= 32767
    PROVE  \/ Segment(pcm) = 0 /\ pcm < 256
           \/ Segment(pcm) = 1 /\ 256 <= pcm /\ pcm < 512
           \/ Segment(pcm) = 2 /\ 512 <= pcm /\ pcm < 1024
           \/ Segment(pcm) = 3 /\ 1024 <= pcm /\ pcm < 2048
           \/ Segment(pcm) = 4 /\ 2048 <= pcm /\ pcm < 4096
           \/ Segment(pcm) = 5 /\ 4096 <= pcm /\ pcm < 8192
           \/ Segment(pcm) = 6 /\ 8192 <= pcm /\ pcm < 16384
           \/ Segment(pcm) = 7 /\ 16384 <= pcm
  BY DEF Segment, Reaches

LEMMA SegmentPower ==
    ASSUME NEW pcm \in Int, 132 <= pcm, pcm <= 32767
    PROVE  /\ Segment(pcm) \in 0 .. 7
           /\ Power[Segment(pcm)] \in {1, 2, 4, 8, 16, 32, 64, 128}
           /\ 128 * Power[Segment(pcm)] <= pcm /\ pcm < 256 * Power[Segment(pcm)]
<1>1. \/ Segment(pcm) = 0 /\ pcm < 256
      \/ Segment(pcm) = 1 /\ 256 <= pcm /\ pcm < 512
      \/ Segment(pcm) = 2 /\ 512 <= pcm /\ pcm < 1024
      \/ Segment(pcm) = 3 /\ 1024 <= pcm /\ pcm < 2048
      \/ Segment(pcm) = 4 /\ 2048 <= pcm /\ pcm < 4096
      \/ Segment(pcm) = 5 /\ 4096 <= pcm /\ pcm < 8192
      \/ Segment(pcm) = 6 /\ 8192 <= pcm /\ pcm < 16384
      \/ Segment(pcm) = 7 /\ 16384 <= pcm
  BY SegmentBounds
<1> QED BY <1>1, Powers

\* The mantissa names one of the sixteen steps of the segment.
LEMMA MantissaBounds ==
    ASSUME NEW pcm \in Int, NEW power \in {1, 2, 4, 8, 16, 32, 64, 128},
           128 * power <= pcm, pcm < 256 * power
    PROVE  /\ Mantissa(pcm, power) \in 0 .. 15
           /\ (Mantissa(pcm, power) + 16) * 8 * power <= pcm
           /\ pcm < (Mantissa(pcm, power) + 17) * 8 * power
<1>1. CASE power = 1 BY <1>1 DEF Mantissa
<1>2. CASE power = 2 BY <1>2 DEF Mantissa
<1>3. CASE power = 4 BY <1>3 DEF Mantissa
<1>4. CASE power = 8 BY <1>4 DEF Mantissa
<1>5. CASE power = 16 BY <1>5 DEF Mantissa
<1>6. CASE power = 32 BY <1>6 DEF Mantissa
<1>7. CASE power = 64 BY <1>7 DEF Mantissa
<1>8. CASE power = 128 BY <1>8 DEF Mantissa
<1> QED BY <1>1, <1>2, <1>3, <1>4, <1>5, <1>6, <1>7, <1>8

\* The middle of a step is half a step away from what lies in it.
LEMMA HalfStep ==
    ASSUME NEW pcm \in Int, NEW m \in Int, m >= 0,
           NEW w \in {1, 2, 4, 8, 16, 32, 64, 128},
           (m + 16) * 8 * w <= pcm, pcm < (m + 17) * 8 * w,
           NEW d \in Int, d = (m * 8 + 132) * w - 132
    PROVE  /\ d >= 0
           /\ 32 * (d + 132 - pcm) <= pcm /\ 32 * (pcm - d - 132) <= pcm
<1>1. CASE w = 1 BY <1>1
<1>2. CASE w = 2 BY <1>2
<1>3. CASE w = 4 BY <1>3
<1>4. CASE w = 8 BY <1>4
<1>5. CASE w = 16 BY <1>5
<1>6. CASE w = 32 BY <1>6
<1>7. CASE w = 64 BY <1>7
<1>8. CASE w = 128 BY <1>8
<1> QED BY <1>1, <1>2, <1>3, <1>4, <1>5, <1>6, <1>7, <1>8

\* What a code stands for, the middle of that step, is half a step away at most:
\* a thirty-second of the magnitude.
LEMMA StepError ==
    ASSUME NEW pcm \in Int, 132 <= pcm, pcm <= 32767, NEW m, NEW e,
           e = Segment(pcm), m = Mantissa(pcm, Power[e])
    PROVE  /\ e \in 0 .. 7 /\ m \in 0 .. 15
           /\ Expanded(e, m) \in Int
           /\ Expanded(e, m) >= 0
           /\ 32 * (Expanded(e, m) + 132 - pcm) <= pcm
           /\ 32 * (pcm - Expanded(e, m) - 132) <= pcm
<1>1. /\ e \in 0 .. 7 /\ Power[e] \in {1, 2, 4, 8, 16, 32, 64, 128}
      /\ 128 * Power[e] <= pcm /\ pcm < 256 * Power[e]
  BY SegmentPower
<1>2. /\ m \in 0 .. 15
      /\ (m + 16) * 8 * Power[e] <= pcm /\ pcm < (m + 17) * 8 * Power[e]
  BY <1>1, MantissaBounds
<1>3. Expanded(e, m) = (m * 8 + 132) * Power[e] - 132 BY DEF Expanded, BIAS
<1>4. PICK w \in Int : w = Power[e] BY <1>1
<1>5. PICK d : d = Expanded(e, m) OBVIOUS
<1>6. /\ w \in {1, 2, 4, 8, 16, 32, 64, 128}
      /\ (m + 16) * 8 * w <= pcm /\ pcm < (m + 17) * 8 * w
      /\ d = (m * 8 + 132) * w - 132
  BY <1>1, <1>2, <1>3, <1>4, <1>5
<1>7. m \in Int /\ m >= 0 BY <1>2
<1>8. d \in Int BY <1>6, <1>7
<1>9. /\ d >= 0
      /\ 32 * (d + 132 - pcm) <= pcm /\ 32 * (pcm - d - 132) <= pcm
  BY <1>6, <1>7, <1>8, HalfStep
<1> QED BY <1>1, <1>2, <1>5, <1>8, <1>9

\* The bits of a code are found again: the decoder sees what the coder put there.
LEMMA CodeBits ==
    ASSUME NEW sign \in {0, 128}, NEW e \in 0 .. 7, NEW m \in 0 .. 15
    PROVE  LET u == 255 - (255 - (sign + 16 * e + m))
           IN (u \div 16) % 8 = e /\ u % 16 = m /\ (u >= 128 <=> sign = 128)
<1>1. CASE sign = 0 BY <1>1
<1>2. CASE sign = 128 BY <1>2
<1> QED BY <1>1, <1>2

\* Companding a sample and expanding it again loses a thirty-second of its biased
\* magnitude at most, for all 65 536 samples.
THEOREM CompandingClose ==
    ASSUME NEW s \in Int, -32768 <= s, s <= 32767
    PROVE  32 * Magnitude(UlawToPcm16Sample(Pcm16SampleToUlaw(s)) - Clipped(s))
             <= Magnitude(Clipped(s)) + BIAS
<1>1. PICK c : c = Clipped(s) OBVIOUS
<1>2. c \in Int /\ -32635 <= c /\ c <= 32635 BY <1>1 DEF Clipped, CLIP
<1>3. PICK pcm : pcm = Magnitude(c) + BIAS OBVIOUS
<1>4. /\ pcm \in Int /\ 132 <= pcm /\ pcm <= 32767
      /\ pcm = (IF c < 0 THEN -c ELSE c) + 132
  BY <1>2, <1>3 DEF Magnitude, BIAS
<1>5. PICK e, m : e = Segment(pcm) /\ m = Mantissa(pcm, Power[e]) OBVIOUS
<1>6. PICK x : x = Expanded(e, m) OBVIOUS
<1>7. /\ e \in 0 .. 7 /\ m \in 0 .. 15
      /\ x \in Int /\ x >= 0
      /\ 32 * (x + 132 - pcm) <= pcm /\ 32 * (pcm - x - 132) <= pcm
  BY <1>4, <1>5, <1>6, StepError
<1>8. PICK sign \in {0, 128} : sign = IF c < 0 THEN 128 ELSE 0 OBVIOUS
<1>9. Pcm16SampleToUlaw(s) = 255 - (sign + 16 * e + m)
  BY <1>1, <1>3, <1>5, <1>8 DEF Pcm16SampleToUlaw
<1>10. PICK d : d = UlawToPcm16Sample(Pcm16SampleToUlaw(s)) OBVIOUS
<1>11. d = IF sign = 128 THEN -x ELSE x
  BY <1>6, <1>7, <1>9, <1>10, CodeBits DEF UlawToPcm16Sample
<1>12. 32 * Magnitude(d - c) <= pcm
  BY <1>2, <1>4, <1>7, <1>8, <1>11 DEF Magnitude
<1> QED BY <1>1, <1>3, <1>10, <1>12

-----------------------------------------------------------------------------
(* The filter.                                                             *)

\* The filter remembers the last samples that were decoded, zeros at first.
HistoryKept ==
    /\ decoded \in Nat
    /\ history = [i \in 1 .. Taps - 1 |->
            IF decoded - (Taps - 1) + i < 1 THEN 0 ELSE decoded - (Taps - 1) + i]

FilterInv == HistoryKept /\ FilterSeamless

\* The filter has a tap in its middle.
LEMMA Centre ==
    /\ Taps \in Nat /\ Taps >= 1 /\ Taps \div 2 \in Nat
    /\ Taps = 2 * (Taps \div 2) + 1
  BY AudioAssumption

LEMMA NormalizedEven ==
    ASSUME NEW size \in Nat
    PROVE  /\ Normalized(size) \in Nat
           /\ Normalized(size) \div 2 \in Nat
           /\ Normalized(size) = 2 * (Normalized(size) \div 2)
  BY DEF Normalized

\* What process() filters is the stream itself, from the first sample remembered
\* to the frame's last one, and that one again.
LEMMA SamplesOfStream ==
    ASSUME HistoryKept, NEW size \in Nat, NEW i \in 1 .. 2 * (Taps - 1) + size
    PROVE  Samples(size)[i] =
             LET place == decoded + i - (Taps - 1)
             IN IF place < 1 THEN 0
                ELSE IF place > decoded + size THEN (IF size > 0 THEN decoded + size ELSE 0)
                ELSE place
<1>1. CASE i < Taps BY <1>1, Centre DEF Samples, HistoryKept
<1>2. CASE i >= Taps BY <1>2, Centre DEF Samples, HistoryKept
<1> QED BY <1>1, <1>2, Centre

LEMMA ProcessKeepsHistory ==
    ASSUME HistoryKept, NEW size \in Nat, Process(size), decoded' = decoded + size
    PROVE  HistoryKept'
<1>1. ASSUME NEW i \in 1 .. Taps - 1
      PROVE  Samples(size)[size + i] =
               IF decoded' - (Taps - 1) + i < 1 THEN 0 ELSE decoded' - (Taps - 1) + i
  <2>1. size + i \in 1 .. 2 * (Taps - 1) + size BY Centre
  <2> QED BY <2>1, SamplesOfStream, Centre DEF HistoryKept
<1> QED BY <1>1 DEF Process, HistoryKept

LEMMA ProcessSeamless ==
    ASSUME HistoryKept, NEW half \in Nat, Process(2 * half), decoded' = decoded + 2 * half
    PROVE  FilterSeamless'
<1> DEFINE size == 2 * half
           centre == Taps \div 2
<1>1. outputs' = [output \in 1 .. half |-> Window(Samples(size), output)]
  BY DEF Process
<1>2. Len(outputs') = half BY <1>1
<1>3. SUFFICES ASSUME NEW o \in 1 .. half, NEW tap \in 1 .. Taps
               PROVE  LET place == decoded + 2 * (o - 1) + tap - centre
                      IN outputs'[o][tap] = IF place < 1 THEN 0
                             ELSE IF place > decoded + size THEN decoded + size ELSE place
  BY <1>2 DEF FilterSeamless, HistoryKept
<1>4. PICK i : i = Taps - 1 + 2 * (o - 1) + tap - centre OBVIOUS
<1>5. outputs'[o][tap] = Samples(size)[i] BY <1>1, <1>4 DEF Window
<1>6. i \in 1 .. 2 * (Taps - 1) + size BY <1>4, Centre
<1>7. decoded + i - (Taps - 1) = decoded + 2 * (o - 1) + tap - centre
  BY <1>4, Centre DEF HistoryKept
<1> QED BY <1>5, <1>6, <1>7, SamplesOfStream

\* Every sample remembered is the one it should be, and frames of any size, also
\* shorter than the filter, are filtered as one stream.
THEOREM FilterAlwaysSeamless == Spec => []FilterSeamless
<1>1. Init => FilterInv
  <2> SUFFICES ASSUME Init PROVE FilterInv OBVIOUS
  <2>1. HistoryKept BY Centre DEF Init, HistoryKept
  <2>2. FilterSeamless BY DEF Init, FilterSeamless
  <2> QED BY <2>1, <2>2 DEF FilterInv
<1>2. FilterInv /\ [Next]_vars => FilterInv'
  <2> SUFFICES ASSUME FilterInv, [Next]_vars PROVE FilterInv' OBVIOUS
  <2>1. CASE UNCHANGED <<decoded, history, outputs>>
    BY <2>1 DEF FilterInv, HistoryKept, FilterSeamless
  <2>2. CASE \E size \in DecodedSizes : ReflectorOpus(size)
    <3>1. PICK size \in DecodedSizes : ReflectorOpus(size) BY <2>2
    <3>2. size \in Nat BY AudioAssumption
    <3>3. PICK half : half = Normalized(size) \div 2 OBVIOUS
    <3>4. half \in Nat /\ Normalized(size) = 2 * half BY <3>2, <3>3, NormalizedEven
    <3>5. Process(2 * half) /\ decoded' = decoded + 2 * half
      BY <3>1, <3>4 DEF ReflectorOpus
    <3> QED BY <3>4, <3>5, ProcessKeepsHistory, ProcessSeamless DEF FilterInv
  <2>3. CASE HandlerResumes BY <2>1, <2>3 DEF HandlerResumes
  <2>4. ASSUME NEW l \in Listeners,
               \/ \E stream \in Streams : AddStreamClient(l, stream)
               \/ Drain(l) \/ PeerLeaves(l) \/ CloseEvent(l)
        PROVE  FilterInv'
    BY <2>1, <2>4 DEF AddStreamClient, Drain, PeerLeaves, CloseEvent, pathVars
  <2>5. CASE Stop BY <2>1, <2>5 DEF Stop, pathVars
  <2>6. CASE UNCHANGED vars BY <2>1, <2>6 DEF vars, pathVars
  <2> QED BY <2>2, <2>3, <2>4, <2>5, <2>6 DEF Next
<1> QED BY <1>1, <1>2, PTL DEF Spec, FilterInv

-----------------------------------------------------------------------------
(* What is heard of a packet.                                              *)

\* What the listeners of the ulaw stream hear is close to what was sent, for every
\* sample a frame may hold.
THEOREM RoundTripAlwaysClose == Spec => []RoundTripClose
<1>1. Init => RoundTripClose
  BY DEF Init, RoundTripClose, Magnitude, Clipped, CLIP, BIAS
<1>2. RoundTripClose /\ [Next]_vars => RoundTripClose'
  <2> SUFFICES ASSUME RoundTripClose, [Next]_vars PROVE RoundTripClose' OBVIOUS
  <2>1. CASE UNCHANGED pcmu BY <2>1 DEF RoundTripClose
  <2>2. ASSUME NEW samples, NEW level \in Levels, SendPcm(samples, level)
        PROVE  RoundTripClose'
    <3>1. CASE pcmu' = pcmu BY <2>1, <3>1
    <3>2. CASE pcmu' = [pcm |-> level,
                        heard |-> UlawToPcm16Sample(Pcm16SampleToUlaw(level))]
      <4>1. level \in Int /\ -32768 <= level /\ level <= 32767
        BY AudioAssumption
      <4> QED BY <3>2, <4>1, CompandingClose DEF RoundTripClose
    <3> QED BY <2>2, <3>1, <3>2 DEF SendPcm
  <2>3. CASE HandlerResumes BY <2>1, <2>2, <2>3 DEF HandlerResumes
  <2>4. CASE \E size \in DecodedSizes : ReflectorOpus(size)
    BY <2>1, <2>4 DEF ReflectorOpus
  <2>5. ASSUME NEW l \in Listeners,
               \/ \E stream \in Streams : AddStreamClient(l, stream)
               \/ Drain(l) \/ PeerLeaves(l) \/ CloseEvent(l)
        PROVE  RoundTripClose'
    BY <2>1, <2>5 DEF AddStreamClient, Drain, PeerLeaves, CloseEvent, pathVars
  <2>6. CASE Stop BY <2>1, <2>6 DEF Stop, pathVars
  <2>7. CASE UNCHANGED vars BY <2>1, <2>7 DEF vars, pathVars
  <2> QED BY <2>3, <2>4, <2>5, <2>6, <2>7 DEF Next
<1> QED BY <1>1, <1>2, PTL DEF Spec

-----------------------------------------------------------------------------
(* Induction on a set of numbers.                                          *)

\* Every set of natural numbers has a least one, so what holds of 0 and of the
\* successor of each number it holds of, it holds of all.
LEMMA LeastNatural ==
    ASSUME NEW T \in SUBSET Nat, T # {}
    PROVE  \E n \in T : \A m \in T : n <= m
<1> DEFINE R == OpToRel(<, Nat)
<1>1. \A x, y \in Nat : x < y => <<x, y>> \in R
  BY DEF OpToRel
<1>2. IsWellFoundedOn(R, Nat)
  BY NatLessThanWellFounded
<1> HIDE DEF R
<1>3. PICK n \in T : \A m \in T : ~(<<m, n>> \in R)
  BY <1>2, WFMin
<1>4. ASSUME NEW m \in T
      PROVE  n <= m
  <2>1. m \in Nat /\ n \in Nat /\ ~(m < n)
    BY <1>1, <1>3
  <2> QED
    BY <2>1
<1> QED
  BY <1>4

LEMMA InductionOnSet ==
    ASSUME NEW S, 0 \in S, \A n \in Nat : n \in S => n + 1 \in S
    PROVE  Nat \subseteq S
<1> DEFINE T == Nat \ S
<1>1. ASSUME T # {}
      PROVE  FALSE
  <2>1. PICK n \in T : \A m \in T : n <= m
    BY <1>1, LeastNatural
  <2>2. n \in Nat /\ n # 0
    OBVIOUS
  <2>3. n - 1 \in Nat /\ n - 1 \notin T
    BY <2>1, <2>2
  <2>4. (n - 1) + 1 \in S
    BY <2>3
  <2> QED
    BY <2>2, <2>4
<1> QED
  BY <1>1

-----------------------------------------------------------------------------
(* The writes.  sendPcm() writes its packets one after the other: what is  *)
(* known of the clients is kept by each write, and so by all of them.      *)

\* The writes of WritePackets(n), one after the other.
Writes(f, n) ==
    f = [i \in 0 .. n |->
            IF i = 0 THEN listener ELSE Write(f[i - 1], "ulaw", written["ulaw"] + i)]

\* They are defined for any number of packets.
LEMMA WritesExist ==
    ASSUME NEW n \in Nat
    PROVE  \E f : Writes(f, n)
<1> DEFINE S == {m \in Nat : \E f : Writes(f, m)}
<1>1. 0 \in S
  <2> DEFINE f == [i \in 0 .. 0 |-> listener]
  <2>1. Writes(f, 0)
    BY DEF Writes
  <2> QED
    BY <2>1
<1>2. ASSUME NEW m \in Nat, m \in S
      PROVE  m + 1 \in S
  <2>1. PICK f : Writes(f, m)
    BY <1>2
  <2> DEFINE g == [i \in 0 .. m + 1 |->
                     IF i <= m THEN f[i] ELSE Write(f[m], "ulaw", written["ulaw"] + i)]
             h == [i \in 0 .. m + 1 |->
                     IF i = 0 THEN listener ELSE Write(g[i - 1], "ulaw", written["ulaw"] + i)]
  <2>2. ASSUME NEW i \in 0 .. m + 1
        PROVE  g[i] = h[i]
    <3>1. CASE i = 0
      <4>1. f[0] = listener
        BY <2>1 DEF Writes
      <4> QED
        BY <3>1, <4>1
    <3>2. CASE i # 0 /\ i <= m
      <4>1. i \in 0 .. m /\ i - 1 \in 0 .. m + 1 /\ i - 1 <= m
        BY <3>2
      <4>2. g[i] = f[i] /\ g[i - 1] = f[i - 1]
        BY <4>1
      <4>3. f[i] = Write(f[i - 1], "ulaw", written["ulaw"] + i)
        BY <2>1, <3>2, <4>1 DEF Writes
      <4> QED
        BY <3>2, <4>2, <4>3
    <3>3. CASE i = m + 1
      <4>1. i - 1 = m /\ m \in 0 .. m + 1 /\ m <= m /\ i # 0 /\ ~(i <= m)
        BY <3>3
      <4>2. g[i - 1] = f[m]
        BY <4>1
      <4> QED
        BY <4>1, <4>2
    <3> QED
      BY <3>1, <3>2, <3>3
  <2>3. g = h
    BY <2>2
  <2>4. Writes(g, m + 1)
    BY <2>3 DEF Writes
  <2> QED
    BY <2>4
<1>3. Nat \subseteq S
  <2> HIDE DEF S
  <2> QED
    BY <1>1, <1>2, InductionOnSet
<1> QED
  BY <1>3

LEMMA WritePacketsAre ==
    ASSUME NEW n \in Nat
    PROVE  \E f : Writes(f, n) /\ WritePackets(n) = f[n]
<1> DEFINE c == CHOOSE f : Writes(f, n)
<1>1. Writes(c, n)
  BY WritesExist
<1>2. WritePackets(n) = c[n]
  BY DEF WritePackets, Writes
<1> QED
  BY <1>1, <1>2

-----------------------------------------------------------------------------
(* One client.  What is known of it, and what each handler makes of it.    *)

States == {"away", "listening", "gone", "destroyed", "closed", "ended"}

Client == [state : States, stream : Streams \cup {"none"}, member : BOOLEAN,
           since : Nat, heard : Seq(Nat), backlog : Nat]

\* The header, then the frames from the one after `since' without a gap.
Run(heard, since) ==
    /\ heard \in Seq(Nat) /\ Len(heard) >= 1 /\ heard[1] = 0
    /\ \A i \in 1 .. Len(heard) : i > 1 => heard[i] = since + i - 1

\* What is kept of a listener, when w frames have been written to the streams.
ClientInv(c, w) ==
    /\ c \in Client
    /\ c.backlog <= HighWater
    /\ c.state = "listening" <=> c.member /\ c.state # "gone"
    /\ c.state \in {"listening", "gone"} => c.stream \in Streams
    /\ c.state \in {"listening", "gone"} => c.backlog < HighWater
    /\ c.state # "away" => Run(c.heard, c.since)
    /\ c.state = "listening" => c.since + Len(c.heard) - 1 = w[c.stream]

\* The next frame prolongs a run.
LEMMA RunGoesOn ==
    ASSUME NEW heard, NEW since \in Nat, Run(heard, since),
           NEW frame \in Nat, frame = since + Len(heard)
    PROVE  Run(Append(heard, frame), since) /\ Len(Append(heard, frame)) = Len(heard) + 1
<1> USE DEF Run
<1>1. heard \in Seq(Nat) /\ Len(heard) \in Nat /\ Len(heard) >= 1
  OBVIOUS
<1> DEFINE s == Append(heard, frame)
<1>2. /\ s \in Seq(Nat) /\ Len(s) = Len(heard) + 1
      /\ \A i \in 1 .. Len(heard) : s[i] = heard[i]
      /\ s[Len(heard) + 1] = frame
  BY <1>1
<1> HIDE DEF s
<1>3. ASSUME NEW i \in 1 .. Len(s), i > 1
      PROVE  s[i] = since + i - 1
  <2>1. CASE i \in 1 .. Len(heard)
    BY <1>2, <1>3, <2>1
  <2>2. CASE i = Len(heard) + 1
    BY <1>1, <1>2, <2>2
  <2> QED
    BY <1>1, <1>2, <2>1, <2>2
<1>4. 1 \in 1 .. Len(heard)
  BY <1>1
<1> QED
  BY <1>1, <1>2, <1>3, <1>4 DEF s

\* A listening client that is written to.
LEMMA HeardIs ==
    ASSUME NEW c \in Client, c.state = "listening", NEW frame,
           Append(c.heard, frame) \in Seq(Nat)
    PROVE  LET kept == c.backlog + 1 < HighWater
               e == Heard(c, frame)
           IN /\ e \in Client
              /\ e.state = IF kept THEN "listening" ELSE "destroyed"
              /\ e.stream = c.stream /\ e.member = kept /\ e.since = c.since
              /\ e.heard = Append(c.heard, frame) /\ e.backlog = c.backlog + 1
<1> PICK hd \in Seq(Nat) : hd = Append(c.heard, frame)
  OBVIOUS
<1> PICK bl \in Nat : bl = c.backlog + 1
  BY DEF Client
<1>0. (c.backlog + 1 < HighWater) \in BOOLEAN
  OBVIOUS
<1> PICK kept \in BOOLEAN : kept = (c.backlog + 1 < HighWater)
  BY <1>0, Zenon
<1> PICK st \in States : st = IF kept THEN "listening" ELSE "destroyed"
  BY DEF States
<1> DEFINE p == [c EXCEPT !.heard = hd]
           q == [p EXCEPT !.backlog = bl]
           r == [q EXCEPT !.member = kept]
           e == [r EXCEPT !.state = st]
<1>1. Heard(c, frame) = e
  <2>1. Heard(c, frame) =
          [c EXCEPT !.heard = hd, !.backlog = bl, !.member = kept, !.state = st]
    BY DEF Heard, Client
  <2>2. @ = e
    OBVIOUS
  <2> QED
    BY <2>1, <2>2
<1> HIDE DEF e
<1>2. /\ p \in Client /\ p.state = "listening" /\ p.stream = c.stream
      /\ p.since = c.since /\ p.heard = hd
  BY DEF Client
<1> HIDE DEF p
<1>3. /\ q \in Client /\ q.state = "listening" /\ q.stream = c.stream
      /\ q.since = c.since /\ q.heard = hd /\ q.backlog = bl
  BY <1>2 DEF Client
<1> HIDE DEF q
<1>4. /\ r \in Client /\ r.state = "listening" /\ r.stream = c.stream
      /\ r.since = c.since /\ r.heard = hd /\ r.backlog = bl /\ r.member = kept
  BY <1>3 DEF Client
<1> HIDE DEF r
<1>5. /\ e \in Client /\ e.state = st /\ e.stream = c.stream
      /\ e.since = c.since /\ e.heard = hd /\ e.backlog = bl /\ e.member = kept
  BY <1>4 DEF Client, e
<1> QED
  BY <1>1, <1>5

\* The fields of a client that changes its membership alone.
LEMMA OnlyMember ==
    ASSUME NEW c \in Client, NEW member \in BOOLEAN
    PROVE  LET e == [c EXCEPT !.member = member]
           IN /\ e \in Client /\ e.member = member /\ e.stream = c.stream
              /\ e.state = c.state /\ e.since = c.since /\ e.heard = c.heard
              /\ e.backlog = c.backlog
  BY DEF Client

\* A write to a member: unless its socket is closed, it hears the next frame of its stream.
LEMMA HeardKeeps ==
    ASSUME NEW w \in [Streams -> Nat], NEW c, ClientInv(c, w), c.member,
           NEW v \in [Streams -> Nat], v[c.stream] = w[c.stream] + 1
    PROVE  ClientInv(Heard(c, w[c.stream] + 1), v)
<1>1. CASE c.state = "gone"
  <2> DEFINE e == [c EXCEPT !.member = FALSE]
  <2>1. Heard(c, w[c.stream] + 1) = e
    BY <1>1 DEF Heard
  <2>2. /\ e \in Client /\ e.member = FALSE /\ e.stream = c.stream
        /\ e.state = c.state /\ e.since = c.since /\ e.heard = c.heard
        /\ e.backlog = c.backlog
    <3>1. c \in Client /\ FALSE \in BOOLEAN
      BY DEF ClientInv
    <3> QED
      BY <3>1, OnlyMember, Zenon
  <2> HIDE DEF e
  <2>3. ClientInv(e, v)
    BY <1>1, <2>2 DEF ClientInv
  <2> QED
    BY <2>1, <2>3
<1>2. CASE c.state # "gone"
  <2>1. /\ c.state = "listening" /\ c.stream \in Streams /\ c.since \in Nat
        /\ Run(c.heard, c.since) /\ c.since + Len(c.heard) - 1 = w[c.stream]
        /\ c.backlog \in Nat /\ c.backlog < HighWater
    BY <1>2, AudioAssumption DEF ClientInv, Client
  <2> DEFINE frame == w[c.stream] + 1
             kept == c.backlog + 1 < HighWater
             state == IF kept THEN "listening" ELSE "destroyed"
             e == Heard(c, frame)
  <2>3. Len(c.heard) \in Nat /\ frame \in Nat /\ frame = c.since + Len(c.heard)
    BY <2>1 DEF Run
  <2>4. /\ Run(Append(c.heard, frame), c.since)
        /\ Len(Append(c.heard, frame)) = Len(c.heard) + 1
    BY <2>1, <2>3, RunGoesOn
  <2>5. /\ e \in Client /\ e.state = state /\ e.stream = c.stream
        /\ e.member = kept /\ e.since = c.since
        /\ e.heard = Append(c.heard, frame) /\ e.backlog = c.backlog + 1
    <3>1. c \in Client /\ Append(c.heard, frame) \in Seq(Nat)
      BY <2>4 DEF ClientInv, Run
    <3> QED
      BY <2>1, <3>1, HeardIs
  <2> HIDE DEF e
  <2>7. e.state = "listening" => e.since + Len(e.heard) - 1 = v[e.stream]
    BY <2>1, <2>3, <2>4, <2>5
  <2>8. ClientInv(e, v)
    <3>1. e.state \in {"listening", "destroyed"} /\ (e.state = "listening" <=> kept)
      BY <2>5
    <3> QED
      BY <2>1, <2>4, <2>5, <2>7, <3>1, AudioAssumption DEF ClientInv, Client
  <2> QED
    BY <2>8 DEF e
<1> QED
  BY <1>1, <1>2

\* What write() does to each client.
LEMMA WriteTo ==
    ASSUME NEW clients, NEW stream, NEW frame
    PROVE  LET after == Write(clients, stream, frame)
           IN /\ after = [l \in Listeners |-> after[l]]
              /\ \A l \in Listeners :
                    after[l] = IF clients[l].member /\ clients[l].stream = stream
                                 THEN Heard(clients[l], frame) ELSE clients[l]
  BY DEF Write

\* A write keeps what is known of every client, of the stream or not.
LEMMA WriteKeeps ==
    ASSUME NEW w \in [Streams -> Nat], NEW v \in [Streams -> Nat],
           NEW stream \in Streams, v[stream] = w[stream] + 1,
           \A other \in Streams : other # stream => v[other] = w[other],
           NEW clients, \A l \in Listeners : ClientInv(clients[l], w),
           NEW frame, frame = w[stream] + 1
    PROVE  \A l \in Listeners : ClientInv(Write(clients, stream, frame)[l], v)
<1> SUFFICES ASSUME NEW l \in Listeners
             PROVE  ClientInv(Write(clients, stream, frame)[l], v)
  OBVIOUS
<1> PICK c : c = clients[l]
  OBVIOUS
<1>0. ClientInv(c, w)
  OBVIOUS
<1>1. CASE c.member /\ c.stream = stream
  <2>1. Write(clients, stream, frame)[l] = Heard(c, w[stream] + 1)
    BY <1>1, WriteTo
  <2>2. ClientInv(Heard(c, w[stream] + 1), v)
    BY <1>0, <1>1, HeardKeeps
  <2> QED
    BY <2>1, <2>2
<1>2. CASE ~(c.member /\ c.stream = stream)
  <2>1. Write(clients, stream, frame)[l] = c
    BY <1>2, WriteTo
  <2>2. c.state = "listening" => c.stream \in Streams /\ c.stream # stream
    BY <1>0, <1>2 DEF ClientInv
  <2>3. ClientInv(c, v)
    BY <1>0, <2>2 DEF ClientInv
  <2> QED
    BY <2>1, <2>3
<1> QED
  BY <1>1, <1>2

\* The counts after one more frame of a stream.
Counted(w, stream) == [w EXCEPT ![stream] = @ + 1]

\* What write() keeps, of a frame that is counted then.
LEMMA CountedKeeps ==
    ASSUME NEW w \in [Streams -> Nat], NEW stream \in Streams,
           NEW clients, \A l \in Listeners : ClientInv(clients[l], w)
    PROVE  /\ Counted(w, stream) \in [Streams -> Nat]
           /\ \A l \in Listeners :
                 ClientInv(Write(clients, stream, w[stream] + 1)[l], Counted(w, stream))
<1> PICK v : v = Counted(w, stream)
  OBVIOUS
<1> PICK frame : frame = w[stream] + 1
  OBVIOUS
<1>1. /\ v \in [Streams -> Nat] /\ v[stream] = w[stream] + 1
      /\ \A other \in Streams : other # stream => v[other] = w[other]
  BY DEF Counted
<1>2. \A l \in Listeners : ClientInv(Write(clients, stream, frame)[l], v)
  BY <1>1, WriteKeeps, Zenon
<1> QED
  BY <1>1, <1>2

-----------------------------------------------------------------------------
(* The listeners.  Each write reaches every client of its stream.          *)

ListenersInv ==
    /\ written \in [Streams -> Nat] /\ suspended \in Seq(Nat)
    /\ listener = [l \in Listeners |-> listener[l]]
    /\ \A l \in Listeners : ClientInv(listener[l], written)

\* A frame is read.
LEMMA ReadKeeps ==
    ASSUME NEW w, NEW c, ClientInv(c, w), c.state = "listening", c.backlog > 0
    PROVE  ClientInv([c EXCEPT !.backlog = @ - 1], w)
<1> USE AudioAssumption
<1> PICK n \in Nat : n = c.backlog - 1 /\ n < HighWater
  BY DEF ClientInv, Client
<1>0. c \in Client
  BY DEF ClientInv
<1> DEFINE e == [c EXCEPT !.backlog = n]
<1>1. [c EXCEPT !.backlog = @ - 1] = e
  OBVIOUS
<1>2. /\ e \in Client /\ e.backlog = n /\ e.state = c.state /\ e.stream = c.stream
      /\ e.member = c.member /\ e.since = c.since /\ e.heard = c.heard
  BY <1>0, SMTT(30) DEF Client
<1> HIDE DEF e
<1>3. ClientInv(e, w)
  BY <1>2 DEF ClientInv
<1> QED
  BY <1>1, <1>3

\* A peer leaves.
LEMMA GoneKeeps ==
    ASSUME NEW w, NEW c, ClientInv(c, w), c.state = "listening"
    PROVE  ClientInv([c EXCEPT !.state = "gone"], w)
<1> DEFINE e == [c EXCEPT !.state = "gone"]
<1>1. /\ e \in Client /\ e.member = c.member /\ e.stream = c.stream /\ e.state = "gone"
      /\ e.since = c.since /\ e.heard = c.heard /\ e.backlog = c.backlog
  BY DEF ClientInv, Client, States
<1> HIDE DEF e
<1>2. ClientInv(e, w)
  BY <1>1 DEF ClientInv
<1> QED
  BY <1>2 DEF e

\* The fields of a client that changes its membership and its state.
LEMMA MemberChanged ==
    ASSUME NEW c \in Client, NEW member \in BOOLEAN, NEW st \in States
    PROVE  LET e == [c EXCEPT !.member = member, !.state = st]
           IN /\ e \in Client /\ e.member = member /\ e.stream = c.stream /\ e.state = st
              /\ e.since = c.since /\ e.heard = c.heard /\ e.backlog = c.backlog
<1> DEFINE d == [c EXCEPT !.member = member]
           e == [d EXCEPT !.state = st]
<1>1. [c EXCEPT !.member = member, !.state = st] = e
  OBVIOUS
<1>2. /\ d \in Client /\ d.member = member /\ d.stream = c.stream
      /\ d.since = c.since /\ d.heard = c.heard /\ d.backlog = c.backlog
  BY OnlyMember, Zenon
<1> HIDE DEF d
<1>3. /\ e \in Client /\ e.member = member /\ e.stream = c.stream /\ e.state = st
      /\ e.since = c.since /\ e.heard = c.heard /\ e.backlog = c.backlog
  BY <1>2 DEF Client
<1> QED
  BY <1>1, <1>3

\* Out of the set, by its 'close' or by stop().
LEMMA TakenOutKeeps ==
    ASSUME NEW w, NEW c, ClientInv(c, w), NEW st \in States, st # "listening",
           st # "away" => c.state # "away", st = "gone" => c.state = "gone"
    PROVE  ClientInv([c EXCEPT !.member = FALSE, !.state = st], w)
<1> DEFINE e == [c EXCEPT !.member = FALSE, !.state = st]
<1>1. c \in Client /\ FALSE \in BOOLEAN
  BY DEF ClientInv
<1>2. /\ e \in Client /\ e.member = FALSE /\ e.stream = c.stream /\ e.state = st
      /\ e.since = c.since /\ e.heard = c.heard /\ e.backlog = c.backlog
  BY <1>1, MemberChanged, Zenon
<1> HIDE DEF e
<1>3. ClientInv(e, w)
  BY <1>2 DEF ClientInv
<1> QED
  BY <1>3 DEF e

LEMMA EndedKeeps ==
    ASSUME NEW w, NEW c, ClientInv(c, w)
    PROVE  ClientInv([c EXCEPT !.member = FALSE,
                         !.state = IF c.member /\ @ = "listening" THEN "ended" ELSE @], w)
<1> DEFINE st == IF c.member /\ c.state = "listening" THEN "ended" ELSE c.state
<1>1. /\ st \in States /\ st # "listening"
      /\ (st # "away" => c.state # "away") /\ (st = "gone" => c.state = "gone")
  BY DEF ClientInv, Client, States
<1> HIDE DEF st
<1>2. ClientInv([c EXCEPT !.member = FALSE, !.state = st], w)
  BY <1>1, TakenOutKeeps
<1> QED
  BY <1>2 DEF st

\* The clients after some packets, with what has been written by then.
PacketsInv(clients, i) ==
    /\ clients = [l \in Listeners |-> clients[l]]
    /\ \A l \in Listeners : ClientInv(clients[l], [written EXCEPT !["ulaw"] = @ + i])

\* One packet more.
LEMMA NextPacketKeeps ==
    ASSUME written \in [Streams -> Nat], NEW clients, NEW i \in Nat, PacketsInv(clients, i)
    PROVE  PacketsInv(Write(clients, "ulaw", written["ulaw"] + (i + 1)), i + 1)
<1> PICK w : w = [written EXCEPT !["ulaw"] = @ + i]
  OBVIOUS
<1> PICK v : v = [written EXCEPT !["ulaw"] = @ + (i + 1)]
  OBVIOUS
<1> PICK frame : frame = written["ulaw"] + (i + 1)
  OBVIOUS
<1>1. "ulaw" \in Streams
  BY DEF Streams
<1>2. /\ w \in [Streams -> Nat] /\ v \in [Streams -> Nat]
      /\ v["ulaw"] = w["ulaw"] + 1 /\ frame = w["ulaw"] + 1
      /\ \A other \in Streams : other # "ulaw" => v[other] = w[other]
  BY <1>1
<1>3. \A l \in Listeners : ClientInv(clients[l], w)
  BY DEF PacketsInv
<1>4. \A l \in Listeners : ClientInv(Write(clients, "ulaw", frame)[l], v)
  BY <1>1, <1>2, <1>3, WriteKeeps
<1>5. PICK after : after = Write(clients, "ulaw", frame)
  OBVIOUS
<1>6. after = [l \in Listeners |-> after[l]]
  BY <1>5, WriteTo
<1>7. PacketsInv(after, i + 1)
  BY <1>4, <1>5, <1>6 DEF PacketsInv
<1> QED
  BY <1>5, <1>7

\* All the packets of a sendPcm().
LEMMA PacketsKeep ==
    ASSUME ListenersInv, NEW n \in Nat
    PROVE  PacketsInv(WritePackets(n), n)
<1>0. "ulaw" \in Streams /\ written \in [Streams -> Nat]
  BY DEF Streams, ListenersInv
<1>1. PICK f : Writes(f, n) /\ WritePackets(n) = f[n]
  BY WritePacketsAre
<1> DEFINE S == {i \in Nat : i <= n => PacketsInv(f[i], i)}
<1>2. 0 \in S
  <2>1. f[0] = listener
    BY <1>1 DEF Writes
  <2>2. [written EXCEPT !["ulaw"] = @ + 0] = written
    BY <1>0
  <2>3. PacketsInv(f[0], 0)
    BY <2>1, <2>2 DEF ListenersInv, PacketsInv
  <2> QED
    BY <2>3
<1>3. ASSUME NEW i \in Nat, i \in S
      PROVE  i + 1 \in S
  <2> SUFFICES ASSUME i + 1 <= n
               PROVE  PacketsInv(f[i + 1], i + 1)
    OBVIOUS
  <2>1. PacketsInv(f[i], i)
    BY <1>3
  <2>2. f[i + 1] = Write(f[i], "ulaw", written["ulaw"] + (i + 1))
    <3>1. i + 1 \in 0 .. n /\ i + 1 # 0 /\ (i + 1) - 1 = i
      OBVIOUS
    <3>2. f[i + 1] = Write(f[(i + 1) - 1], "ulaw", written["ulaw"] + (i + 1))
      BY <1>1, <3>1 DEF Writes
    <3> QED
      BY <3>1, <3>2
  <2> QED
    BY <1>0, <2>1, <2>2, NextPacketKeeps
<1>4. n \in S
  <2> HIDE DEF S
  <2> QED
    BY <1>2, <1>3, InductionOnSet
<1> QED
  BY <1>1, <1>4

\* Two frames at most, one for each of two streams.
LEMMA OpusKeeps ==
    ASSUME ListenersInv, NEW size \in DecodedSizes, ReflectorOpus(size)
    PROVE  ListenersInv'
<1> DEFINE samples == Normalized(size)
<1>0. size \in Nat
  BY AudioAssumption
<1>1. samples \in Nat /\ samples \div 2 \in Nat /\ samples = 2 * (samples \div 2)
  BY <1>0, NormalizedEven
<1>2. /\ suspended' = Append(suspended, samples \div 2)
      /\ listener' = WriteFrame(WriteFrame(listener, "svxlink", samples),
                                "asterisk", samples \div 2)
      /\ LET grown == IF samples > 0 THEN 1 ELSE 0
         IN written' = [written EXCEPT !["svxlink"] = @ + grown, !["asterisk"] = @ + grown]
  BY DEF ReflectorOpus
<1>3. suspended' \in Seq(Nat)
  BY <1>1, <1>2 DEF ListenersInv
<1> HIDE DEF samples
<1>4. CASE samples = 0
  <2>1. listener' = listener
    BY <1>1, <1>2, <1>4 DEF WriteFrame
  <2>2. written' = written
    BY <1>2, <1>4 DEF ListenersInv, Streams
  <2> QED
    BY <1>3, <2>1, <2>2 DEF ListenersInv
<1>5. CASE samples # 0
  <2>1. samples > 0 /\ samples \div 2 > 0
    BY <1>1, <1>5
  <2> PICK w : w = written
    OBVIOUS
  <2> PICK u : u = Counted(w, "svxlink")
    OBVIOUS
  <2> PICK v : v = Counted(u, "asterisk")
    OBVIOUS
  <2>2. "svxlink" \in Streams /\ "asterisk" \in Streams /\ w \in [Streams -> Nat]
    BY DEF ListenersInv, Streams
  <2>3. /\ u["asterisk"] = w["asterisk"]
        /\ v = [w EXCEPT !["svxlink"] = @ + 1, !["asterisk"] = @ + 1]
    BY <2>2 DEF Counted
  <2> PICK first : first = Write(listener, "svxlink", w["svxlink"] + 1)
    OBVIOUS
  <2> PICK second : second = Write(first, "asterisk", u["asterisk"] + 1)
    OBVIOUS
  <2>4. \A l \in Listeners : ClientInv(listener[l], w)
    BY DEF ListenersInv
  <2>5. u \in [Streams -> Nat] /\ \A l \in Listeners : ClientInv(first[l], u)
    BY <2>2, <2>4, CountedKeeps
  <2>6. v \in [Streams -> Nat] /\ \A l \in Listeners : ClientInv(second[l], v)
    BY <2>2, <2>5, CountedKeeps
  <2>7. listener' = second
    BY <1>2, <2>1, <2>3 DEF WriteFrame
  <2>8. written' = v
    BY <1>2, <2>1, <2>3
  <2>9. second = [l \in Listeners |-> second[l]]
    BY WriteTo
  <2> QED
    BY <1>3, <2>6, <2>7, <2>8, <2>9 DEF ListenersInv
<1> QED
  BY <1>4, <1>5

\* The packets of a handler that resumes, or none.
LEMMA ResumesKeeps ==
    ASSUME ListenersInv, HandlerResumes
    PROVE  ListenersInv'
<1> PICK i \in 1 .. Len(suspended) :
        /\ suspended' = RemoveAt(suspended, i)
        /\ \/ \E level \in Levels : SendPcm(suspended[i], level)
           \/ UNCHANGED <<listener, written, pcmu>>
  BY DEF HandlerResumes
<1>1. suspended \in Seq(Nat) /\ suspended[i] \in Nat /\ Len(suspended) \in Nat
  BY DEF ListenersInv
<1>2. suspended' \in Seq(Nat)
  <2>1. /\ SubSeq(suspended, 1, i - 1) \in Seq(Nat)
        /\ SubSeq(suspended, i + 1, Len(suspended)) \in Seq(Nat)
    BY <1>1
  <2>2. RemoveAt(suspended, i) \in Seq(Nat)
    BY <2>1, ConcatProperties, ZenonT(20) DEF RemoveAt
  <2> QED
    BY <2>2
<1>3. CASE UNCHANGED <<listener, written, pcmu>>
  BY <1>2, <1>3 DEF ListenersInv
<1>4. CASE \E level \in Levels : SendPcm(suspended[i], level)
  <2> PICK n : n = suspended[i] \div PacketSamples
    OBVIOUS
  <2>1. n \in Nat
    BY <1>1, AudioAssumption
  <2>2. listener' = WritePackets(n) /\ written' = [written EXCEPT !["ulaw"] = @ + n]
    BY <1>4 DEF SendPcm
  <2>3. PacketsInv(listener', n)
    BY <2>1, <2>2, PacketsKeep
  <2>4. written' \in [Streams -> Nat]
    BY <2>1, <2>2 DEF ListenersInv, Streams
  <2> QED
    BY <1>2, <2>2, <2>3, <2>4 DEF PacketsInv, ListenersInv
<1> QED
  BY <1>3, <1>4

LEMMA ListenersStep == ListenersInv /\ [Next]_vars => ListenersInv'
<1> SUFFICES ASSUME ListenersInv, [Next]_vars
             PROVE  ListenersInv'
  OBVIOUS
\* A client changes by itself.
<1>1. ASSUME NEW l \in Listeners, NEW e, ClientInv(e, written),
             listener' = [listener EXCEPT ![l] = e], UNCHANGED <<written, suspended>>
      PROVE  ListenersInv'
  <2>1. listener' = [k \in Listeners |-> IF k = l THEN e ELSE listener[k]]
    BY <1>1 DEF ListenersInv
  <2>2. listener' = [k \in Listeners |-> listener'[k]]
    BY <2>1
  <2>3. \A k \in Listeners : ClientInv(listener'[k], written)
    BY <1>1, <2>1 DEF ListenersInv
  <2> QED
    BY <1>1, <2>2, <2>3 DEF ListenersInv
<1>2. ASSUME NEW l \in Listeners, NEW stream \in Streams, AddStreamClient(l, stream)
      PROVE  ListenersInv'
  <2> DEFINE e == [state |-> "listening", stream |-> stream, member |-> TRUE,
                   since |-> written[stream], heard |-> <<0>>, backlog |-> 0]
  <2>0. written[stream] \in Nat /\ HighWater \in Nat /\ HighWater > 0
    BY AudioAssumption DEF ListenersInv
  <2>1. Run(<<0>>, written[stream])
    BY DEF Run
  <2>2. e \in Client
    BY <2>0 DEF Client, States
  <2>3. ClientInv(e, written)
    BY <2>0, <2>1, <2>2 DEF ClientInv
  <2>4. listener' = [listener EXCEPT ![l] = e] /\ UNCHANGED <<written, suspended>>
    BY <1>2 DEF AddStreamClient, pathVars
  <2> HIDE DEF e
  <2> QED
    BY <1>1, <2>3, <2>4
<1>3. ASSUME NEW l \in Listeners, Drain(l) \/ PeerLeaves(l) \/ CloseEvent(l)
      PROVE  ListenersInv'
  <2> PICK c : c = listener[l]
    OBVIOUS
  <2>1. ClientInv(c, written)
    BY DEF ListenersInv
  <2>2. CASE Drain(l)
    <3>1. /\ c.state = "listening" /\ c.backlog > 0
          /\ listener' = [listener EXCEPT ![l] = [c EXCEPT !.backlog = @ - 1]]
          /\ UNCHANGED <<written, suspended>>
      BY <2>2 DEF Drain, pathVars
    <3> PICK e : e = [c EXCEPT !.backlog = @ - 1]
      OBVIOUS
    <3>2. ClientInv(e, written)
      BY <2>1, <3>1, ReadKeeps
    <3> QED
      BY <1>1, <3>1, <3>2
  <2>3. CASE PeerLeaves(l)
    <3>1. /\ c.state = "listening"
          /\ listener' = [listener EXCEPT ![l] = [c EXCEPT !.state = "gone"]]
          /\ UNCHANGED <<written, suspended>>
      BY <2>3 DEF PeerLeaves, pathVars
    <3> PICK e : e = [c EXCEPT !.state = "gone"]
      OBVIOUS
    <3>2. ClientInv(e, written)
      BY <2>1, <3>1, GoneKeeps
    <3> QED
      BY <1>1, <3>1, <3>2
  <2>4. CASE CloseEvent(l)
    <3> PICK e : e = [c EXCEPT !.member = FALSE, !.state = "closed"]
      OBVIOUS
    <3>1. /\ c.state = "gone"
          /\ listener' = [listener EXCEPT ![l] = e]
          /\ UNCHANGED <<written, suspended>>
      BY <2>4 DEF CloseEvent, pathVars, ListenersInv
    <3>2. "closed" \in States
      BY DEF States
    <3>3. ClientInv(e, written)
      BY <2>1, <3>1, <3>2, TakenOutKeeps
    <3> QED
      BY <1>1, <3>1, <3>3
  <2> QED
    BY <1>3, <2>2, <2>3, <2>4
<1>4. CASE Stop
  <2>1. UNCHANGED <<written, suspended>>
    BY <1>4 DEF Stop, pathVars
  <2>2. listener' = [l \in Listeners |-> [listener[l] EXCEPT
            !.member = FALSE,
            !.state = IF listener[l].member /\ @ = "listening" THEN "ended" ELSE @]]
    BY <1>4 DEF Stop
  <2>3. ASSUME NEW l \in Listeners
        PROVE  ClientInv(listener'[l], written)
    <3> PICK c : c = listener[l]
      OBVIOUS
    <3>1. ClientInv(c, written)
      BY DEF ListenersInv
    <3> PICK e : e = [c EXCEPT !.member = FALSE,
                         !.state = IF c.member /\ @ = "listening" THEN "ended" ELSE @]
      OBVIOUS
    <3>2. listener'[l] = e
      BY <2>2
    <3>3. ClientInv(e, written)
      BY <3>1, EndedKeeps
    <3> QED
      BY <3>2, <3>3
  <2>4. listener' = [l \in Listeners |-> listener'[l]]
    BY <2>2
  <2> QED
    BY <2>1, <2>3, <2>4 DEF ListenersInv
<1>5. CASE UNCHANGED vars
  BY <1>5 DEF vars, pathVars, ListenersInv
<1> QED
  BY <1>2, <1>3, <1>4, <1>5, OpusKeeps, ResumesKeeps DEF Next

LEMMA ListenersInvariant == Spec => []ListenersInv
<1>1. Init => ListenersInv
  <2> SUFFICES ASSUME Init
               PROVE  ListenersInv
    OBVIOUS
  <2>1. written \in [Streams -> Nat] /\ suspended \in Seq(Nat)
    BY DEF Init
  <2>2. listener = [l \in Listeners |-> Away]
    BY DEF Init
  <2>3. HighWater \in Nat
    BY AudioAssumption
  <2>4. Away \in Client
    BY DEF Away, Client, States
  <2>5. ClientInv(Away, written)
    BY <2>3, <2>4 DEF ClientInv, Away
  <2> QED
    BY <2>1, <2>2, <2>5 DEF ListenersInv
<1> QED
  BY <1>1, ListenersStep, PTL DEF Spec

\* NoneForgotten: no response is left open that nobody writes to or ends, and one
\* that is not read is destroyed at its high-water mark, however many listen.
THEOREM NoneEverForgotten == Spec => []NoneForgotten
<1>1. ListenersInv => NoneForgotten
  BY DEF ListenersInv, ClientInv, NoneForgotten
<1> QED
  BY <1>1, ListenersInvariant, PTL

\* HearsItsRun: a listener hears its header and every frame written to its stream
\* since it came, in order and without a gap, whoever else a write() destroys.
THEOREM AlwaysHearsItsRun == Spec => []HearsItsRun
<1>1. ListenersInv => HearsItsRun
  <2> SUFFICES ASSUME ListenersInv, NEW l \in Listeners, NEW c, c = listener[l],
                      c.state # "away"
               PROVE  /\ c.heard = <<0>> \o [i \in 1 .. Len(c.heard) - 1 |-> c.since + i]
                      /\ c.state = "listening" =>
                           c.since + Len(c.heard) - 1 = written[c.stream]
    BY DEF HearsItsRun
  <2>1. ClientInv(c, written)
    BY DEF ListenersInv
  <2>2. Run(c.heard, c.since) /\ c.since \in Nat
    BY <2>1 DEF ClientInv, Client
  <2> PICK h \in Seq(Nat), since \in Nat : h = c.heard /\ since = c.since
    BY <2>2 DEF Run
  <2>3. /\ Len(h) \in Nat /\ Len(h) >= 1 /\ h[1] = 0
        /\ \A i \in 1 .. Len(h) : i > 1 => h[i] = since + i - 1
    BY <2>2 DEF Run
  <2> DEFINE rest == [i \in 1 .. Len(h) - 1 |-> since + i]
             s == <<0>> \o rest
  <2>4. /\ rest \in Seq(Nat) /\ Len(rest) = Len(h) - 1
        /\ \A i \in 1 .. Len(h) - 1 : rest[i] = since + i
    BY <2>3
  <2>5. <<0>> \in Seq(Nat) /\ Len(<<0>>) = 1 /\ <<0>>[1] = 0
    OBVIOUS
  <2>6. /\ s \in Seq(Nat) /\ Len(s) = Len(<<0>>) + Len(rest)
        /\ \A i \in 1 .. Len(<<0>>) + Len(rest) :
              s[i] = IF i <= Len(<<0>>) THEN <<0>>[i] ELSE rest[i - Len(<<0>>)]
    <3> HIDE DEF rest
    <3>1. rest \in Seq(Nat) /\ <<0>> \in Seq(Nat)
      BY <2>4, <2>5
    <3> QED
      BY <3>1, ConcatProperties, ZenonT(20)
  <2> HIDE DEF rest, s
  <2>7. Len(s) = Len(h)
    BY <2>3, <2>4, <2>5, <2>6
  <2>8. ASSUME NEW i \in 1 .. Len(h)
        PROVE  s[i] = h[i]
    <3>0. /\ i \in 1 .. Len(<<0>>) + Len(rest)
          /\ s[i] = IF i <= 1 THEN <<0>>[i] ELSE rest[i - 1]
      BY <2>3, <2>4, <2>5, <2>6
    <3>1. CASE i = 1
      BY <2>3, <2>5, <3>0, <3>1
    <3>2. CASE i > 1
      <4>1. i - 1 \in 1 .. Len(h) - 1 /\ rest[i - 1] = since + (i - 1)
        BY <2>3, <2>4, <3>2
      <4>2. s[i] = rest[i - 1]
        BY <3>0, <3>2
      <4> QED
        BY <2>3, <3>2, <4>1, <4>2
    <3> QED
      BY <2>3, <3>1, <3>2
  <2>9. s = h
    BY <2>6, <2>7, <2>8, SeqEqual
  <2> QED
    BY <2>1, <2>9 DEF s, rest, ClientInv
<1> QED
  BY <1>1, ListenersInvariant, PTL
=============================================================================
