------------------------- MODULE AsteriskPttProofs -------------------------
(***************************************************************************)
(* Proofs about AsteriskPtt for every number of frames and every timing: a *)
(* PTT that is open is always on its way to being closed, no frame is      *)
(* delivered with PTT closed, every frame is delivered once or held, and   *)
(* only openers are overtaken, however late the digits are.                *)
(***************************************************************************)
EXTENDS AsteriskPtt, FiniteSetTheorems, SequenceTheorems, TLAPS

\* A handler in the open delay.
Pending == [frame : Int, left : 0 .. OpenDelay]

\* The counters and timers hold integers, and the queue is a sequence.
PttTypes ==
    /\ asteriskPtt \in BOOLEAN
    /\ pttTimer \in Int /\ pttTimer >= Off
    /\ startDtmf \in Int /\ startDtmf >= Off
    /\ waiting \in Seq(Int)
    /\ received \in Nat
    /\ delayed \subseteq Pending

\* Handlers wait for the start digits exactly while these are played, and
\* then no timer runs; a closed PTT has no timer and no suspended handler; the
\* hang timer never runs out under a handler in the open delay.
PttInv ==
    /\ waiting # <<>> <=> startDtmf # Off
    /\ startDtmf # Off => asteriskPtt /\ pttTimer = Off /\ delayed = {}
    /\ ~asteriskPtt => pttTimer = Off /\ delayed = {}
    /\ \A d \in delayed : pttTimer = Off \/ pttTimer > d.left
    /\ PttAlwaysTimed

\* What the opener adds to the suspended handlers.
LEMMA OpenersDelayType ==
    ASSUME NEW frame \in Int
    PROVE  OpenersDelay(frame) \subseteq Pending
BY PttTimesAssumption DEF OpenersDelay, Pending

\* What a resumed handler does to the hang timer.
LEMMA FinishType ==
    ASSUME PttTypes, NEW frames, Finish(frames)
    PROVE  pttTimer' \in Int /\ pttTimer' >= Off
BY PttTimesAssumption DEF PttTypes, Finish, Off

LEMMA PttTypesStep == PttTypes /\ PttInv /\ [Next]_vars => PttTypes'
<1> SUFFICES ASSUME PttTypes, PttInv, [Next]_vars
             PROVE  PttTypes'
  OBVIOUS
<1> USE PttTimesAssumption
    DEF Off, pttVars, frameVars, outVars
<1>1. CASE ReflectorOpus
  <2>1. received' \in Nat /\ received' \in Int
    BY <1>1 DEF ReflectorOpus, PttTypes
  <2>2. CASE asteriskPtt
    <3>1. JoinPtt(received')
      BY <1>1, <2>2 DEF ReflectorOpus
    <3>2. pttTimer' \in Int /\ pttTimer' >= Off
      BY <3>1, FinishType DEF JoinPtt, PttTypes
    <3>3. waiting' \in Seq(Int)
      BY <3>1, <2>1 DEF JoinPtt, PttTypes
    <3> QED
      BY <3>1, <3>2, <3>3, <2>1 DEF JoinPtt, PttTypes
  <2>3. CASE ~asteriskPtt
    <3>1. OpenPtt(received')
      BY <1>1, <2>3 DEF ReflectorOpus
    <3>2. pttTimer' \in Int /\ pttTimer' >= Off
      BY <3>1, FinishType DEF OpenPtt, PttTypes
    <3>3. waiting' \in Seq(Int)
      <4>1. waiting' \in {waiting, Append(waiting, received')}
        BY <3>1 DEF OpenPtt
      <4> QED
        BY <4>1, <2>1 DEF PttTypes
    <3>4. startDtmf' \in Int /\ startDtmf' >= Off /\ asteriskPtt' \in BOOLEAN
      BY <3>1 DEF OpenPtt, PttTypes
    <3>5. delayed' \subseteq Pending
      BY <3>1, <2>1, OpenersDelayType DEF OpenPtt, PttTypes, Pending
    <3> QED
      BY <3>2, <3>3, <3>4, <3>5, <2>1 DEF PttTypes, Pending
  <2> QED
    BY <2>2, <2>3
<1>2. CASE StartDtmfDone
  <2>1. pttTimer' \in Int /\ pttTimer' >= Off
    BY <1>2, FinishType DEF StartDtmfDone
  <2>2. waiting # <<>> /\ Head(waiting) \in Int
    BY <1>2 DEF StartDtmfDone, PttTypes, PttInv
  <2>3. delayed' \subseteq Pending
    BY <1>2, <2>2, OpenersDelayType DEF StartDtmfDone, PttTypes, Pending
  <2> QED
    BY <1>2, <2>1, <2>3 DEF StartDtmfDone, PttTypes, Pending
<1>3. CASE OpenDelayOver
  <2>1. pttTimer' \in Int /\ pttTimer' >= Off
    BY <1>3, FinishType DEF OpenDelayOver
  <2> QED
    BY <1>3, <2>1 DEF OpenDelayOver, PttTypes
<1>4. CASE PttTimerFires
  <2>1. asteriskPtt' \in BOOLEAN
    BY <1>4 DEF PttTimerFires
  <2> QED
    BY <1>4, <2>1 DEF PttTimerFires, PttTypes
<1>5. CASE SetRemote
  BY <1>5 DEF SetRemote, PttTypes
<1>6. CASE Tick
  <2>1. ASSUME NEW d \in delayed'
        PROVE  d \in Pending
    <3>1. PICK e \in delayed : d = [e EXCEPT !.left = @ - 1]
      BY <1>6 DEF Tick
    <3>2. e \in Pending /\ e.left # 0
      BY <1>6 DEF Tick, PttTypes
    <3> QED
      BY <3>1, <3>2 DEF Pending
  <2>2. /\ pttTimer' \in Int /\ pttTimer' >= Off
        /\ startDtmf' \in Int /\ startDtmf' >= Off
    BY <1>6 DEF Tick, Elapsed, PttTypes
  <2> QED
    BY <1>6, <2>1, <2>2 DEF Tick, PttTypes
<1>7. CASE UNCHANGED vars
  BY <1>7 DEF vars, PttTypes
<1> QED
  BY <1>1, <1>2, <1>3, <1>4, <1>5, <1>6, <1>7 DEF Next, TimerStep

LEMMA PttInvStep == PttTypes /\ PttInv /\ [Next]_vars => PttInv'
<1> SUFFICES ASSUME PttTypes, PttInv, [Next]_vars
             PROVE  PttInv'
  OBVIOUS
<1> USE PttTimesAssumption, OpenDelayAssumption
    DEF Off, pttVars, frameVars, outVars, PttInv, PttAlwaysTimed
<1>1. CASE ReflectorOpus
  <2>2. CASE asteriskPtt
    <3>1. JoinPtt(received')
      BY <1>1, <2>2 DEF ReflectorOpus
    <3>2. CASE startDtmf # Off
      <4>1. waiting' # <<>>
        BY <3>1, <3>2 DEF JoinPtt, PttTypes
      <4> QED
        BY <3>1, <3>2, <4>1 DEF JoinPtt
    <3>3. CASE startDtmf = Off
      <4>1. pttTimer' = Hang
        BY <3>1, <3>3 DEF JoinPtt, Finish
      <4>2. \A d \in delayed : Hang > d.left
        BY DEF PttTypes, Pending
      <4>3. UNCHANGED <<asteriskPtt, startDtmf, waiting, delayed>>
        BY <3>1, <3>3 DEF JoinPtt
      <4> QED
        BY <2>2, <3>3, <4>1, <4>2, <4>3
    <3> QED
      BY <3>2, <3>3
  <2>3. CASE ~asteriskPtt
    <3>1. OpenPtt(received')
      BY <1>1, <2>3 DEF ReflectorOpus
    <3> QED
      <4>1. asteriskPtt' = TRUE
        BY <3>1 DEF OpenPtt
      <4>2. CASE HasDtmf /\ remote
        <5>1. waiting' # <<>> /\ startDtmf' = StartTime
          BY <3>1, <4>2 DEF OpenPtt, PttTypes
        <5>2. UNCHANGED <<pttTimer, delayed>>
          BY <3>1, <4>2 DEF OpenPtt
        <5> QED
          BY <2>3, <4>1, <5>1, <5>2
      <4>3. CASE ~(HasDtmf /\ remote) /\ OpenDelay > 0
        <5>1. /\ delayed' = {[frame |-> received', left |-> OpenDelay]}
              /\ UNCHANGED <<pttTimer, startDtmf, waiting>>
          BY <3>1, <2>3, <4>3 DEF OpenPtt, Finish, OpenersDelay
        <5> QED
          BY <2>3, <4>1, <5>1
      <4>4. CASE ~(HasDtmf /\ remote) /\ OpenDelay = 0
        <5>1. /\ delayed' = {} /\ pttTimer' = Hang
              /\ UNCHANGED <<startDtmf, waiting>>
          BY <3>1, <2>3, <4>4 DEF OpenPtt, Finish, OpenersDelay
        <5> QED
          BY <2>3, <4>1, <5>1
      <4> QED
        BY <4>2, <4>3, <4>4
  <2> QED
    BY <2>2, <2>3
<1>2. CASE StartDtmfDone
  <2>1. asteriskPtt' /\ startDtmf' = Off /\ waiting' = <<>> /\ delayed = {}
    BY <1>2 DEF StartDtmfDone
  <2>2. CASE OpenDelay > 0
    <3>1. delayed' = {[frame |-> Head(waiting), left |-> OpenDelay]}
      BY <1>2, <2>1, <2>2 DEF StartDtmfDone, OpenersDelay
    <3>2. pttTimer' \in {Off, Hang}
      BY <1>2 DEF StartDtmfDone, Finish
    <3> QED
      BY <2>1, <2>2, <3>1, <3>2
  <2>3. CASE OpenDelay = 0
    <3>1. delayed' = {}
      BY <1>2, <2>1, <2>3 DEF StartDtmfDone, OpenersDelay
    <3>2. pttTimer' = Hang
      BY <1>2, <2>3 DEF StartDtmfDone, Finish
    <3> QED
      BY <2>1, <3>1, <3>2
  <2> QED
    BY <2>2, <2>3
<1>3. CASE OpenDelayOver
  <2>1. pttTimer' = Hang /\ delayed' \subseteq delayed
    BY <1>3 DEF OpenDelayOver, Finish
  <2>2. UNCHANGED <<asteriskPtt, startDtmf, waiting>> /\ delayed # {}
    BY <1>3 DEF OpenDelayOver
  <2>3. \A d \in delayed' : Hang > d.left
    BY <2>1 DEF PttTypes, Pending
  <2> QED
    BY <2>1, <2>2, <2>3
<1>4. CASE PttTimerFires
  <2>1. delayed = {}
    BY <1>4 DEF PttTimerFires, PttTypes, Pending
  <2> QED
    BY <1>4, <2>1 DEF PttTimerFires
<1>5. CASE SetRemote
  BY <1>5 DEF SetRemote
<1>6. CASE Tick
  <2>1. UNCHANGED <<asteriskPtt, waiting>>
    BY <1>6 DEF Tick
  <2>2. /\ pttTimer = Off <=> pttTimer' = Off
        /\ startDtmf = Off <=> startDtmf' = Off
    BY <1>6 DEF Tick, Elapsed, PttTypes
  <2>3. delayed = {} <=> delayed' = {}
    BY <1>6 DEF Tick
  <2>4. ASSUME NEW d \in delayed'
        PROVE  pttTimer' = Off \/ pttTimer' > d.left
    <3>1. PICK e \in delayed : d = [e EXCEPT !.left = @ - 1]
      BY <1>6 DEF Tick
    <3>2. d.left = e.left - 1 /\ e.left \in Int
      BY <3>1 DEF PttTypes, Pending
    <3> QED
      BY <1>6, <3>2 DEF Tick, Elapsed, PttTypes
  <2> QED
    BY <2>1, <2>2, <2>3, <2>4
<1>7. CASE UNCHANGED vars
  BY <1>7 DEF vars
<1> QED
  BY <1>1, <1>2, <1>3, <1>4, <1>5, <1>6, <1>7 DEF Next, TimerStep

LEMMA PttInvariant == Spec => [](PttTypes /\ PttInv)
<1>1. Init => PttTypes /\ PttInv
  <2> SUFFICES ASSUME Init
               PROVE  PttTypes /\ PttInv
    OBVIOUS
  <2>1. asteriskPtt \in BOOLEAN
    BY DEF Init
  <2>2. PttTypes
    BY <2>1 DEF Init, PttTypes, Off
  <2>3. PttInv
    BY DEF Init, PttInv, PttAlwaysTimed, Off
  <2> QED
    BY <2>2, <2>3
<1>2. PttTypes /\ PttInv /\ [Next]_vars => (PttTypes /\ PttInv)'
  BY PttTypesStep, PttInvStep
<1> QED
  BY <1>1, <1>2, PTL DEF Spec

\* PTT is never left open with nothing to close it.
THEOREM PttNeverStuck == Spec => []PttAlwaysTimed
BY PttInvariant, PTL DEF PttInv

LEMMA DeliveryStep ==
    PttTypes /\ PttInv /\ [Next]_vars
        => (Len(delivered') > Len(delivered) => asteriskPtt')
<1> SUFFICES ASSUME PttTypes, PttInv, [Next]_vars, ~asteriskPtt'
             PROVE  delivered' = delivered
  OBVIOUS
<1> USE DEF pttVars, frameVars, outVars
<1>1. CASE ReflectorOpus
  BY <1>1 DEF ReflectorOpus, JoinPtt, OpenPtt
<1>2. CASE StartDtmfDone
  BY <1>2 DEF StartDtmfDone, PttInv, Off
<1>3. CASE OpenDelayOver
  BY <1>3 DEF OpenDelayOver, PttInv
<1>4. CASE PttTimerFires \/ SetRemote \/ Tick
  BY <1>4 DEF PttTimerFires, SetRemote, Tick
<1>5. CASE UNCHANGED vars
  BY <1>5 DEF vars
<1> QED
  BY <1>1, <1>2, <1>3, <1>4, <1>5 DEF Next, TimerStep

\* No suspended handler delivers its frame with PTT closed.
THEOREM FramesDeliveredKeyed == Spec => KeyedDelivery
<1>1. PttTypes /\ PttInv /\ [Next]_vars
        => [Len(delivered') > Len(delivered) => asteriskPtt']_vars
  BY DeliveryStep
<1> QED
  BY <1>1, PttInvariant, PTL DEF Spec, KeyedDelivery

-----------------------------------------------------------------------------
(* The frames.  One handler at most is in the open delay, since PTT does   *)
(* not close under it; so what has been received is what was handed over,  *)
(* what was refused, and what the suspended handlers hold.                 *)

HandedOver == Len(delivered) + dropped

Held == IF delayed = {} THEN 0 ELSE 1

FrameInv ==
    /\ delivered \in Seq(Int) /\ dropped \in Nat
    /\ \A d, e \in delayed : d = e
    /\ received = HandedOver + Len(waiting) + Held

LEMMA FinishCount ==
    ASSUME delivered \in Seq(Int), dropped \in Nat, NEW frames \in Seq(Int),
           Finish(frames)
    PROVE  /\ delivered' \in Seq(Int) /\ dropped' \in Nat
           /\ HandedOver \in Nat /\ Len(frames) \in Nat
           /\ HandedOver' = HandedOver + Len(frames)
BY DEF Finish, HandedOver

LEMMA FrameStep == PttTypes /\ PttInv /\ FrameInv /\ [Next]_vars => FrameInv'
<1> SUFFICES ASSUME PttTypes, PttInv, FrameInv, [Next]_vars PROVE FrameInv'
  OBVIOUS
<1> USE PttTimesAssumption DEF pttVars, frameVars, outVars, Held
<1>1. CASE UNCHANGED <<delivered, dropped, delayed, waiting, received>>
  BY <1>1 DEF FrameInv, HandedOver
<1>0. HandedOver \in Nat /\ Len(waiting) \in Nat
  BY DEF FrameInv, PttTypes, HandedOver
<1>2. CASE ReflectorOpus
  <2>1. received' = received + 1 /\ received' \in Int
    BY <1>2 DEF ReflectorOpus, PttTypes
  <2>2. <<received'>> \in Seq(Int) /\ Len(<<received'>>) = 1 BY <2>1
  <2>3. Append(waiting, received') \in Seq(Int)
        /\ Len(Append(waiting, received')) = Len(waiting) + 1
    BY <2>1 DEF PttTypes
  <2>4. CASE asteriskPtt
    <3>1. JoinPtt(received') BY <1>2, <2>4 DEF ReflectorOpus
    <3>2. CASE startDtmf # Off
      <4>1. /\ UNCHANGED <<delivered, dropped, delayed>>
            /\ waiting' = Append(waiting, received')
        BY <3>1, <3>2 DEF JoinPtt
      <4> QED BY <1>0, <2>1, <2>3, <4>1 DEF FrameInv, HandedOver
    <3>3. CASE startDtmf = Off
      <4>1. Finish(<<received'>>) /\ UNCHANGED <<waiting, delayed>>
        BY <3>1, <3>3 DEF JoinPtt
      <4>2. /\ delivered' \in Seq(Int) /\ dropped' \in Nat
            /\ HandedOver' = HandedOver + 1
        BY <2>2, <4>1, FinishCount DEF FrameInv
      <4> QED BY <1>0, <2>1, <4>1, <4>2 DEF FrameInv
    <3> QED BY <3>2, <3>3
  <2>5. CASE ~asteriskPtt
    <3>1. OpenPtt(received') BY <1>2, <2>5 DEF ReflectorOpus
    <3>2. delayed = {} BY <2>5 DEF PttInv
    <3>3. CASE HasDtmf /\ remote
      <4>1. /\ UNCHANGED <<delivered, dropped, delayed>>
            /\ waiting' = Append(waiting, received')
        BY <3>1, <3>3 DEF OpenPtt
      <4> QED BY <1>0, <2>1, <2>3, <4>1 DEF FrameInv, HandedOver
    <3>4. CASE ~(HasDtmf /\ remote) /\ OpenDelay > 0
      <4>1. /\ Finish(<<>>) /\ UNCHANGED waiting
            /\ delayed' = {[frame |-> received', left |-> OpenDelay]}
        BY <3>1, <3>2, <3>4 DEF OpenPtt, OpenersDelay
      <4>2. UNCHANGED <<delivered, dropped>> BY <4>1 DEF Finish, FrameInv
      <4> QED BY <1>0, <2>1, <3>2, <4>1, <4>2 DEF FrameInv, HandedOver
    <3>5. CASE ~(HasDtmf /\ remote) /\ OpenDelay = 0
      <4>1. Finish(<<received'>>) /\ UNCHANGED waiting /\ delayed' = {}
        BY <3>1, <3>2, <3>5 DEF OpenPtt, OpenersDelay
      <4>2. /\ delivered' \in Seq(Int) /\ dropped' \in Nat
            /\ HandedOver' = HandedOver + 1
        BY <2>2, <4>1, FinishCount DEF FrameInv
      <4> QED BY <1>0, <2>1, <3>2, <4>1, <4>2 DEF FrameInv
    <3> QED BY <3>3, <3>4, <3>5
  <2> QED BY <2>4, <2>5
<1>3. CASE StartDtmfDone
  <2>1. /\ delayed = {} /\ waiting # <<>> /\ waiting' = <<>>
        /\ UNCHANGED received
    BY <1>3 DEF StartDtmfDone, PttInv, Off
  <2>2. Tail(waiting) \in Seq(Int) /\ Len(Tail(waiting)) = Len(waiting) - 1
    BY <2>1 DEF PttTypes
  <2>3. CASE OpenDelay > 0
    <3>1. /\ Finish(Tail(waiting))
          /\ delayed' = {[frame |-> Head(waiting), left |-> OpenDelay]}
      BY <1>3, <2>1, <2>3 DEF StartDtmfDone, OpenersDelay
    <3>2. /\ delivered' \in Seq(Int) /\ dropped' \in Nat
          /\ HandedOver' = HandedOver + Len(Tail(waiting))
      BY <2>2, <3>1, FinishCount DEF FrameInv
    <3>3. Len(waiting') = 0 /\ Held = 0 BY <2>1
    <3>4. Held' = 1 /\ \A d, e \in delayed' : d = e BY <3>1
    <3>5. received' = HandedOver' + Len(waiting') + Held'
      BY <1>0, <2>1, <2>2, <3>2, <3>3, <3>4 DEF FrameInv
    <3> QED BY <3>2, <3>4, <3>5 DEF FrameInv
  <2>4. CASE OpenDelay = 0
    <3>1. Finish(waiting) /\ delayed' = {}
      BY <1>3, <2>1, <2>4 DEF StartDtmfDone, OpenersDelay
    <3>2. /\ delivered' \in Seq(Int) /\ dropped' \in Nat
          /\ HandedOver' = HandedOver + Len(waiting)
      BY <3>1, FinishCount DEF FrameInv, PttTypes
    <3>3. Len(waiting') = 0 BY <2>1
    <3> QED BY <1>0, <2>1, <3>1, <3>2, <3>3 DEF FrameInv
  <2> QED BY <2>3, <2>4
<1>4. CASE OpenDelayOver
  <2>1. PICK d \in delayed : /\ delayed' = delayed \ {d} /\ Finish(<<d.frame>>)
                             /\ UNCHANGED <<waiting, received>>
    BY <1>4 DEF OpenDelayOver
  <2>2. delayed' = {} BY <2>1 DEF FrameInv
  <2>3. <<d.frame>> \in Seq(Int) /\ Len(<<d.frame>>) = 1
    BY DEF PttTypes, Pending
  <2>4. /\ delivered' \in Seq(Int) /\ dropped' \in Nat
        /\ HandedOver' = HandedOver + 1
    BY <2>1, <2>3, FinishCount DEF FrameInv
  <2>5. Held = 1 /\ Held' = 0 BY <2>1, <2>2
  <2>6. received' = HandedOver' + Len(waiting') + Held'
    <3>1. PICK h \in Nat, w \in Nat : h = HandedOver /\ w = Len(waiting) BY <1>0
    <3>2. received = h + w + 1 BY <2>5, <3>1 DEF FrameInv
    <3>3. HandedOver' = h + 1 /\ Len(waiting') = w /\ received' = received
      BY <2>1, <2>4, <3>1
    <3> QED BY <2>5, <3>2, <3>3
  <2> QED BY <2>2, <2>4, <2>6 DEF FrameInv
<1>5. CASE PttTimerFires \/ SetRemote
  BY <1>1, <1>5 DEF PttTimerFires, SetRemote
<1>6. CASE Tick
  <2>1. /\ UNCHANGED <<delivered, dropped, waiting, received>>
        /\ delayed' = {[d EXCEPT !.left = @ - 1] : d \in delayed}
    BY <1>6 DEF Tick
  <2>2. /\ \A d, e \in delayed' : d = e
        /\ delayed' = {} <=> delayed = {}
    BY <2>1 DEF FrameInv
  <2> QED BY <2>1, <2>2 DEF FrameInv, HandedOver
<1>7. CASE UNCHANGED vars BY <1>1, <1>7 DEF vars
<1> QED BY <1>2, <1>3, <1>4, <1>5, <1>6, <1>7 DEF Next, TimerStep

LEMMA FrameInvariant == Spec => [](PttTypes /\ PttInv /\ FrameInv)
<1>1. Init => FrameInv BY DEF Init, FrameInv, HandedOver, Held
<1> QED BY <1>1, FrameStep, PttInvariant, PTL DEF Spec

\* No frame is lost or handed over twice by a handler that was suspended.
THEOREM FramesAllAccounted == Spec => []EveryFrameOnce
<1>1. PttTypes /\ FrameInv => EveryFrameOnce
  <2> SUFFICES ASSUME FrameInv PROVE EveryFrameOnce OBVIOUS
  <2>1. Cardinality(delayed) = Held
    <3>1. CASE delayed = {} BY <3>1, FS_EmptySet DEF Held
    <3>2. CASE delayed # {}
      <4>1. PICK d \in delayed : TRUE BY <3>2
      <4>2. delayed = {d} BY DEF FrameInv
      <4> QED BY <3>2, <4>2, FS_Singleton DEF Held
    <3> QED BY <3>1, <3>2
  <2> QED BY <2>1 DEF FrameInv, HandedOver, EveryFrameOnce
<1> QED BY <1>1, FrameInvariant, PTL

-----------------------------------------------------------------------------
(* The order of the frames.  What waits for the start digits is in order   *)
(* and later than all that was handed over; a frame in the open delay, and *)
(* the first of the waiting ones, opened PTT.                              *)

UpTo(s, n) == \A i \in 1 .. Len(s) : s[i] <= n
Ascending(s) == \A i, j \in 1 .. Len(s) : i < j => s[i] < s[j]
Before(s, t) == \A i \in 1 .. Len(s), j \in 1 .. Len(t) : s[i] < t[j]

\* Only members of late come after greater ones.
Ordered(s, late) ==
    \A i, j \in 1 .. Len(s) : i < j /\ s[i] > s[j] => s[j] \in late

LEMMA Joined ==
    ASSUME NEW s \in Seq(Int), NEW t \in Seq(Int)
    PROVE  /\ s \o t \in Seq(Int) /\ Len(s \o t) = Len(s) + Len(t)
           /\ \A i \in 1 .. Len(s) + Len(t) :
                 (s \o t)[i] = IF i <= Len(s) THEN s[i] ELSE t[i - Len(s)]
BY ConcatProperties, ZenonT(20)

LEMMA JoinOrdered ==
    ASSUME NEW s \in Seq(Int), NEW t \in Seq(Int), NEW late, NEW n \in Int,
           Ordered(s, late), UpTo(s, n), UpTo(t, n),
           Before(s, t), Ascending(t)
    PROVE  Ordered(s \o t, late) /\ UpTo(s \o t, n)
<1>1. PICK u : u = s \o t OBVIOUS
<1>2. /\ Len(u) = Len(s) + Len(t) /\ Len(s) \in Nat /\ Len(t) \in Nat
      /\ \A i \in 1 .. Len(s) + Len(t) :
            u[i] = IF i <= Len(s) THEN s[i] ELSE t[i - Len(s)]
  <2>1. Len(s) \in Nat /\ Len(t) \in Nat OBVIOUS
  <2> QED BY <1>1, <2>1, Joined, Zenon
<1>3. ASSUME NEW i \in 1 .. Len(u)
      PROVE  IF i <= Len(s) THEN i \in 1 .. Len(s) /\ u[i] = s[i]
             ELSE i - Len(s) \in 1 .. Len(t) /\ u[i] = t[i - Len(s)]
  BY <1>2
<1>4. UpTo(u, n) BY <1>3 DEF UpTo
<1>5. ASSUME NEW i \in 1 .. Len(u), NEW j \in 1 .. Len(u), i < j, u[i] > u[j]
      PROVE  u[j] \in late
  <2>1. CASE j <= Len(s)
    <3>1. i \in 1 .. Len(s) /\ j \in 1 .. Len(s) BY <1>2, <1>5, <2>1
    <3>2. u[i] = s[i] /\ u[j] = s[j] BY <1>3, <2>1, <3>1
    <3> QED BY <1>5, <3>1, <3>2 DEF Ordered
  <2>2. CASE ~(j <= Len(s)) /\ i <= Len(s)
    <3>1. i \in 1 .. Len(s) /\ j - Len(s) \in 1 .. Len(t) BY <1>2, <2>2
    <3>2. u[i] = s[i] /\ u[j] = t[j - Len(s)] BY <1>3, <2>2
    <3>3. s[i] \in Int /\ t[j - Len(s)] \in Int BY <3>1
    <3>4. s[i] < t[j - Len(s)] BY <3>1 DEF Before
    <3> QED BY <1>5, <3>2, <3>3, <3>4
  <2>3. CASE ~(i <= Len(s))
    <3>1. /\ i - Len(s) \in 1 .. Len(t) /\ j - Len(s) \in 1 .. Len(t)
          /\ i - Len(s) < j - Len(s)
      BY <1>2, <1>5, <2>3
    <3>2. u[i] = t[i - Len(s)] /\ u[j] = t[j - Len(s)] BY <1>2, <1>3, <1>5, <2>3
    <3>3. t[i - Len(s)] \in Int /\ t[j - Len(s)] \in Int BY <3>1
    <3>4. t[i - Len(s)] < t[j - Len(s)] BY <3>1 DEF Ascending
    <3> QED BY <1>5, <3>2, <3>3, <3>4
  <2> QED BY <2>1, <2>2, <2>3
<1> QED BY <1>1, <1>4, <1>5 DEF Ordered

LEMMA LateOrdered ==
    ASSUME NEW s \in Seq(Int), NEW late, NEW x \in late, x \in Int, NEW n \in Int,
           Ordered(s, late), UpTo(s, n), x <= n
    PROVE  Ordered(s \o <<x>>, late) /\ UpTo(s \o <<x>>, n)
<1>1. PICK u : u = s \o <<x>> OBVIOUS
<1>2. /\ Len(u) = Len(s) + 1 /\ Len(s) \in Nat
      /\ \A i \in 1 .. Len(s) : u[i] = s[i]
      /\ u[Len(s) + 1] = x
  BY <1>1
<1>3. ASSUME NEW i \in 1 .. Len(u)
      PROVE  (i \in 1 .. Len(s) /\ u[i] = s[i]) \/ (i = Len(s) + 1 /\ u[i] = x)
  BY <1>2
<1>4. UpTo(u, n) BY <1>3 DEF UpTo
<1>5. ASSUME NEW i \in 1 .. Len(u), NEW j \in 1 .. Len(u), i < j, u[i] > u[j]
      PROVE  u[j] \in late
  <2>1. CASE j = Len(s) + 1 BY <1>2, <2>1
  <2>2. CASE j \in 1 .. Len(s)
    <3>1. i \in 1 .. Len(s) BY <1>2, <1>5, <2>2
    <3> QED BY <1>2, <1>5, <2>2, <3>1 DEF Ordered
  <2> QED BY <1>3, <2>1, <2>2
<1> QED BY <1>1, <1>4, <1>5 DEF Ordered

OrderInv ==
    /\ UpTo(delivered, received) /\ Ordered(delivered, openers)
    /\ UpTo(waiting, received) /\ Ascending(waiting)
    /\ Before(delivered, waiting)
    /\ waiting # <<>> => Head(waiting) \in openers
    /\ \A d \in delayed : d.frame \in openers /\ d.frame <= received

LEMMA NothingWaits ==
    ASSUME NEW s \in Seq(Int), NEW n \in Int
    PROVE  UpTo(<<>>, n) /\ Ascending(<<>>) /\ Before(s, <<>>)
BY DEF UpTo, Ascending, Before

LEMMA FinishOrder ==
    ASSUME PttTypes, FrameInv, NEW frames \in Seq(Int), Finish(frames),
           Ordered(delivered, openers), UpTo(delivered, received),
           NEW n \in Int, received <= n, UpTo(frames, n),
           Ascending(frames), Before(delivered, frames)
    PROVE  Ordered(delivered', openers) /\ UpTo(delivered', n)
<1>1. delivered \in Seq(Int) BY DEF FrameInv
<1>2. UpTo(delivered, n)
  <2> SUFFICES ASSUME NEW i \in 1 .. Len(delivered) PROVE delivered[i] <= n
    BY DEF UpTo
  <2>1. delivered[i] \in Int /\ delivered[i] <= received BY <1>1 DEF UpTo
  <2> QED BY <2>1 DEF PttTypes
<1>3. delivered' = delivered \/ delivered' = delivered \o frames BY DEF Finish
<1> QED BY <1>1, <1>2, <1>3, JoinOrdered

\* The frame that has just come is later than everything before it.
LEMMA NewestFrame ==
    ASSUME PttTypes, FrameInv, OrderInv, NEW n \in Int, n = received + 1
    PROVE  /\ <<n>> \in Seq(Int) /\ UpTo(<<n>>, n) /\ Ascending(<<n>>)
           /\ Before(delivered, <<n>>)
           /\ UpTo(delivered, n) /\ UpTo(waiting, n)
<1>1. delivered \in Seq(Int) /\ waiting \in Seq(Int) /\ received \in Int
  BY DEF FrameInv, PttTypes
<1>2. ASSUME NEW i \in 1 .. Len(delivered)
      PROVE  delivered[i] \in Int /\ delivered[i] <= received
  BY <1>1 DEF OrderInv, UpTo
<1>3. ASSUME NEW i \in 1 .. Len(waiting)
      PROVE  waiting[i] \in Int /\ waiting[i] <= received
  BY <1>1 DEF OrderInv, UpTo
<1>4. <<n>> \in Seq(Int) /\ UpTo(<<n>>, n) /\ Ascending(<<n>>)
  BY DEF UpTo, Ascending
<1>5. Before(delivered, <<n>>) /\ UpTo(delivered, n) /\ UpTo(waiting, n)
  BY <1>1, <1>2, <1>3 DEF Before, UpTo
<1> QED BY <1>4, <1>5

LEMMA NewestWaits ==
    ASSUME PttTypes, FrameInv, OrderInv, NEW n \in Int, n = received + 1,
           waiting # <<>>
    PROVE  LET w == Append(waiting, n)
           IN /\ UpTo(w, n) /\ Ascending(w) /\ Before(delivered, w)
              /\ w # <<>> /\ Head(w) = Head(waiting)
<1>1. PICK w : w = Append(waiting, n) OBVIOUS
<1>2. delivered \in Seq(Int) /\ waiting \in Seq(Int) /\ received \in Int
  BY DEF FrameInv, PttTypes
<1>3. /\ w \in Seq(Int) /\ Len(w) = Len(waiting) + 1 /\ Len(waiting) \in Nat
      /\ \A i \in 1 .. Len(waiting) : w[i] = waiting[i]
      /\ w[Len(waiting) + 1] = n
  BY <1>1, <1>2
<1>4. ASSUME NEW i \in 1 .. Len(w)
      PROVE  \/ /\ i \in 1 .. Len(waiting) /\ w[i] = waiting[i]
                /\ waiting[i] \in Int /\ waiting[i] <= received
             \/ i = Len(waiting) + 1 /\ w[i] = n
  BY <1>2, <1>3 DEF OrderInv, UpTo
<1>5. UpTo(w, n) BY <1>2, <1>4 DEF UpTo
<1>6. ASSUME NEW i \in 1 .. Len(w), NEW j \in 1 .. Len(w), i < j
      PROVE  w[i] < w[j]
  <2>1. /\ i \in 1 .. Len(waiting) /\ w[i] = waiting[i]
        /\ waiting[i] \in Int /\ waiting[i] <= received
    BY <1>3, <1>4, <1>6
  <2>2. CASE j \in 1 .. Len(waiting) BY <1>3, <1>6, <2>1, <2>2 DEF OrderInv, Ascending
  <2>3. CASE j = Len(waiting) + 1 BY <1>2, <1>3, <2>1, <2>3
  <2> QED BY <1>4, <2>2, <2>3
<1>7. ASSUME NEW i \in 1 .. Len(delivered), NEW j \in 1 .. Len(w)
      PROVE  delivered[i] < w[j]
  <2>1. delivered[i] \in Int /\ delivered[i] <= received
    BY <1>2 DEF OrderInv, UpTo
  <2>2. CASE j \in 1 .. Len(waiting) BY <1>3, <2>2 DEF OrderInv, Before
  <2>3. CASE j = Len(waiting) + 1 BY <1>2, <1>3, <2>1, <2>3
  <2> QED BY <1>4, <2>2, <2>3
<1>8. w # <<>> /\ Head(w) = Head(waiting) BY <1>1, <1>2
<1> QED BY <1>1, <1>5, <1>6, <1>7, <1>8 DEF Ascending, Before

LEMMA RestWaits ==
    ASSUME PttTypes, FrameInv, OrderInv, waiting # <<>>
    PROVE  LET t == Tail(waiting)
           IN t \in Seq(Int) /\ UpTo(t, received) /\ Ascending(t) /\ Before(delivered, t)
<1>1. PICK t : t = Tail(waiting) OBVIOUS
<1>2. waiting \in Seq(Int) BY DEF PttTypes
<1>3. /\ t \in Seq(Int) /\ Len(t) = Len(waiting) - 1 /\ Len(waiting) \in Nat
      /\ \A i \in 1 .. Len(t) : t[i] = waiting[i + 1]
  BY <1>1, <1>2
<1>4. ASSUME NEW i \in 1 .. Len(t)
      PROVE  i + 1 \in 1 .. Len(waiting) /\ t[i] = waiting[i + 1]
  BY <1>3
<1>5. UpTo(t, received) /\ Before(delivered, t)
  BY <1>4 DEF OrderInv, UpTo, Before
<1>6. ASSUME NEW i \in 1 .. Len(t), NEW j \in 1 .. Len(t), i < j
      PROVE  t[i] < t[j]
  <2>1. i + 1 < j + 1 BY <1>6
  <2> QED BY <1>4, <2>1 DEF OrderInv, Ascending
<1> QED BY <1>1, <1>3, <1>5, <1>6 DEF Ascending

LEMMA MoreOpeners ==
    ASSUME NEW s, NEW late, NEW later, late \subseteq later, Ordered(s, late)
    PROVE  Ordered(s, later)
BY DEF Ordered

LEMMA OrderStep ==
    PttTypes /\ PttInv /\ FrameInv /\ OrderInv /\ [Next]_vars => OrderInv'
<1> SUFFICES ASSUME PttTypes, PttInv, FrameInv, OrderInv, [Next]_vars
             PROVE  OrderInv'
  OBVIOUS
<1> USE PttTimesAssumption DEF pttVars, frameVars, outVars
<1>1. CASE UNCHANGED <<delivered, delayed, waiting, received, openers>>
  BY <1>1 DEF OrderInv
<1>2. delivered \in Seq(Int) /\ waiting \in Seq(Int) /\ received \in Int
  BY DEF FrameInv, PttTypes
<1>3. CASE ReflectorOpus
  <2> PICK n \in Int : n = received + 1 /\ received' = n
    BY <1>2, <1>3 DEF ReflectorOpus
  <2>1. /\ <<n>> \in Seq(Int) /\ UpTo(<<n>>, n) /\ Ascending(<<n>>)
        /\ Before(delivered, <<n>>)
        /\ UpTo(delivered, n) /\ UpTo(waiting, n)
    BY NewestFrame
  <2>2. /\ UpTo(<<>>, n) /\ Ascending(<<>>) /\ Before(delivered, <<>>)
        /\ received <= n
    BY <1>2, NothingWaits
  <2>3. CASE asteriskPtt /\ startDtmf # Off
    <3>1. waiting # <<>> BY <2>3 DEF PttInv
    <3>2. /\ waiting' = Append(waiting, n)
          /\ UNCHANGED <<delivered, delayed, openers>>
      BY <1>3, <2>3 DEF ReflectorOpus, JoinPtt
    <3>3. \A d \in delayed : d.frame \in openers /\ d.frame <= n
      BY <2>3 DEF PttInv
    <3> QED BY <2>1, <3>1, <3>2, <3>3, NewestWaits DEF OrderInv
  <2>4. CASE asteriskPtt /\ startDtmf = Off
    <3>1. /\ Finish(<<n>>) /\ UNCHANGED <<waiting, delayed, openers>>
      BY <1>3, <2>4 DEF ReflectorOpus, JoinPtt
    <3>2. waiting = <<>> BY <2>4 DEF PttInv
    <3>3. Ordered(delivered', openers) /\ UpTo(delivered', n)
      BY <2>1, <2>2, <3>1, FinishOrder DEF OrderInv
    <3>4. \A d \in delayed : d.frame \in openers /\ d.frame <= n
      <4> SUFFICES ASSUME NEW d \in delayed PROVE d.frame \in openers /\ d.frame <= n
        OBVIOUS
      <4>1. d.frame \in Int /\ d.frame <= received /\ d.frame \in openers
        BY DEF PttTypes, Pending, OrderInv
      <4> QED BY <1>2, <4>1
    <3>5. Before(delivered', <<>>) BY DEF Before
    <3> QED BY <2>2, <3>1, <3>2, <3>3, <3>4, <3>5 DEF OrderInv
  <2>5. CASE ~asteriskPtt
    <3>1. /\ waiting = <<>> /\ delayed = {} /\ openers' = openers \cup {n}
          /\ OpenPtt(n)
      BY <1>3, <2>5 DEF ReflectorOpus, OpenPtt, PttInv
    <3>2. CASE HasDtmf /\ remote
      <4>1. waiting' = <<n>> /\ UNCHANGED <<delayed, delivered>>
        BY <3>1, <3>2 DEF OpenPtt
      <4>2. Ordered(delivered, openers') BY <3>1, MoreOpeners DEF OrderInv
      <4>3. Head(waiting') \in openers' BY <3>1, <4>1
      <4> QED BY <2>1, <3>1, <4>1, <4>2, <4>3 DEF OrderInv
    <3>3. CASE ~(HasDtmf /\ remote) /\ OpenDelay > 0
      <4>1. /\ Finish(<<>>) /\ UNCHANGED waiting
            /\ delayed' = {[frame |-> n, left |-> OpenDelay]}
        BY <3>1, <3>3 DEF OpenPtt, OpenersDelay
      <4>2. delivered' = delivered BY <1>2, <4>1 DEF Finish
      <4>3. Ordered(delivered, openers') BY <3>1, MoreOpeners DEF OrderInv
      <4>4. \A d \in delayed' : d.frame \in openers' /\ d.frame <= n
        BY <3>1, <4>1
      <4> QED BY <2>1, <2>2, <3>1, <4>1, <4>2, <4>3, <4>4 DEF OrderInv
    <3>4. CASE ~(HasDtmf /\ remote) /\ OpenDelay = 0
      <4>1. Finish(<<n>>) /\ UNCHANGED waiting /\ delayed' = {}
        BY <3>1, <3>4 DEF OpenPtt, OpenersDelay
      <4>2. Ordered(delivered', openers) /\ UpTo(delivered', n)
        BY <2>1, <2>2, <4>1, FinishOrder DEF OrderInv
      <4>3. Ordered(delivered', openers') BY <3>1, <4>2, MoreOpeners
      <4>4. Before(delivered', <<>>) BY DEF Before
      <4> QED BY <2>2, <3>1, <4>1, <4>2, <4>3, <4>4 DEF OrderInv
    <3> QED BY <3>2, <3>3, <3>4
  <2> QED BY <2>3, <2>4, <2>5
<1>4. CASE StartDtmfDone
  <2>1. /\ waiting # <<>> /\ waiting' = <<>> /\ delayed = {}
        /\ UNCHANGED <<received, openers>>
    BY <1>4 DEF StartDtmfDone, PttInv, Off
  <2>2. UpTo(<<>>, received) /\ Ascending(<<>>) /\ Before(delivered', <<>>)
    BY DEF UpTo, Ascending, Before
  <2>3. Head(waiting) \in openers /\ Head(waiting) <= received
    <3>1. Head(waiting) = waiting[1] /\ 1 \in 1 .. Len(waiting) BY <1>2, <2>1
    <3> QED BY <2>1, <3>1 DEF OrderInv, UpTo
  <2>4. CASE OpenDelay > 0
    <3>1. /\ Finish(Tail(waiting))
          /\ delayed' = {[frame |-> Head(waiting), left |-> OpenDelay]}
      BY <1>4, <2>1, <2>4 DEF StartDtmfDone, OpenersDelay
    <3>2. /\ Tail(waiting) \in Seq(Int) /\ UpTo(Tail(waiting), received)
          /\ Ascending(Tail(waiting)) /\ Before(delivered, Tail(waiting))
      BY <2>1, RestWaits
    <3>3. Ordered(delivered', openers) /\ UpTo(delivered', received)
      <4>1. PICK t : t = Tail(waiting) OBVIOUS
      <4>2. t \in Seq(Int) /\ Finish(t) BY <3>1, <3>2, <4>1
      <4>3. UpTo(t, received) /\ Ascending(t) /\ Before(delivered, t)
        BY <3>2, <4>1
      <4>4. /\ Ordered(delivered, openers) /\ UpTo(delivered, received)
            /\ received <= received
        BY <1>2 DEF OrderInv
      <4> QED BY <1>2, <4>2, <4>3, <4>4, FinishOrder
    <3> QED BY <2>1, <2>2, <2>3, <3>1, <3>3 DEF OrderInv
  <2>5. CASE OpenDelay = 0
    <3>1. Finish(waiting) /\ delayed' = {}
      BY <1>4, <2>1, <2>5 DEF StartDtmfDone, OpenersDelay
    <3>2. Ordered(delivered', openers) /\ UpTo(delivered', received)
      BY <1>2, <3>1, FinishOrder DEF OrderInv
    <3> QED BY <2>1, <2>2, <3>1, <3>2 DEF OrderInv
  <2> QED BY <2>4, <2>5
<1>5. CASE OpenDelayOver
  <2>1. PICK d \in delayed : /\ delayed' = delayed \ {d} /\ Finish(<<d.frame>>)
                             /\ UNCHANGED <<waiting, received, openers>>
    BY <1>5 DEF OpenDelayOver
  <2>2. waiting = <<>> BY <2>1 DEF PttInv
  <2>3. d.frame \in openers /\ d.frame \in Int /\ d.frame <= received
    BY DEF OrderInv, PttTypes, Pending
  <2>4. delivered' = delivered \/ delivered' = delivered \o <<d.frame>>
    BY <2>1 DEF Finish
  <2>5. Ordered(delivered', openers) /\ UpTo(delivered', received)
    BY <1>2, <2>3, <2>4, LateOrdered DEF OrderInv
  <2>6. Before(delivered', <<>>) BY DEF Before
  <2> QED BY <2>1, <2>2, <2>5, <2>6 DEF OrderInv
<1>6. CASE PttTimerFires \/ SetRemote
  BY <1>1, <1>6 DEF PttTimerFires, SetRemote
<1>7. CASE Tick
  <2>1. /\ UNCHANGED <<delivered, waiting, received, openers>>
        /\ delayed' = {[d EXCEPT !.left = @ - 1] : d \in delayed}
    BY <1>7 DEF Tick
  <2>2. ASSUME NEW d \in delayed'
        PROVE  d.frame \in openers /\ d.frame <= received
    <3>1. PICK e \in delayed : d = [e EXCEPT !.left = @ - 1] BY <2>1
    <3>2. d.frame = e.frame BY <3>1 DEF PttTypes, Pending
    <3> QED BY <3>2 DEF OrderInv
  <2> QED BY <2>1, <2>2 DEF OrderInv
<1>8. CASE UNCHANGED vars BY <1>1, <1>8 DEF vars
<1> QED BY <1>3, <1>4, <1>5, <1>6, <1>7, <1>8 DEF Next, TimerStep

\* Whatever the digits and delays, only a frame that opened PTT is overtaken.
THEOREM OnlyOpenersLate == Spec => []OnlyOpenersOvertaken
<1>1. Init => OrderInv BY DEF Init, OrderInv, UpTo, Ascending, Before, Ordered
<1>2. OrderInv => OnlyOpenersOvertaken
  BY DEF OrderInv, Ordered, OnlyOpenersOvertaken
<1> QED BY <1>1, <1>2, OrderStep, FrameInvariant, PTL DEF Spec

-----------------------------------------------------------------------------
(* The types.                                                              *)

PttFlags == remote \in BOOLEAN /\ keyed \in BOOLEAN

Numbers == 1 .. Frames
Handlers == [frame : Numbers, left : 0 .. OpenDelay]

PttBounds ==
    /\ pttTimer <= Hang /\ startDtmf <= StartTime
    /\ received <= Frames
    /\ waiting \in Seq(Numbers) /\ delivered \in Seq(Numbers)
    /\ delayed \subseteq Handlers
    /\ openers \subseteq Int /\ \A f \in openers : 1 <= f /\ f <= received

LEMMA PttFlagsStep == PttFlags /\ [Next]_vars => PttFlags'
<1> SUFFICES ASSUME PttFlags, [Next]_vars PROVE PttFlags' OBVIOUS
<1> USE DEF PttFlags
<1>1. CASE ReflectorOpus BY <1>1 DEF ReflectorOpus
<1>2. CASE StartDtmfDone BY <1>2 DEF StartDtmfDone
<1>3. CASE OpenDelayOver BY <1>3 DEF OpenDelayOver
<1>4. CASE PttTimerFires BY <1>4 DEF PttTimerFires
<1>5. CASE SetRemote BY <1>5 DEF SetRemote
<1>6. CASE Tick BY <1>6 DEF Tick
<1>7. CASE UNCHANGED vars BY <1>7 DEF vars
<1> QED BY <1>1, <1>2, <1>3, <1>4, <1>5, <1>6, <1>7 DEF Next, TimerStep

LEMMA FinishBounds ==
    ASSUME PttTypes, PttBounds, NEW frames \in Seq(Numbers), Finish(frames)
    PROVE  pttTimer' <= Hang /\ delivered' \in Seq(Numbers)
<1>1. pttTimer' <= Hang BY PttTimesAssumption DEF Finish, PttTypes, PttBounds
<1>2. delivered \o frames \in Seq(Numbers) BY DEF PttBounds
<1>3. delivered' \in Seq(Numbers) BY <1>2 DEF Finish, PttBounds
<1> QED BY <1>1, <1>3

LEMMA HandlerType ==
    ASSUME NEW frame \in Numbers
    PROVE  OpenersDelay(frame) \subseteq Handlers /\ <<frame>> \in Seq(Numbers)
<1>1. OpenersDelay(frame) \subseteq Handlers
  BY PttTimesAssumption DEF OpenersDelay, Handlers
<1> QED BY <1>1

LEMMA PttBoundsStep ==
    PttTypes /\ PttInv /\ PttBounds /\ [Next]_vars => PttBounds'
<1> SUFFICES ASSUME PttTypes, PttInv, PttBounds, [Next]_vars PROVE PttBounds'
  OBVIOUS
<1> USE PttTimesAssumption DEF pttVars, frameVars, outVars, Off
<1>1. CASE ReflectorOpus
  <2> PICK n \in Int : n = received + 1 /\ received' = n
    BY <1>1 DEF ReflectorOpus, PttTypes
  <2>1. n \in Numbers /\ n <= Frames
    BY <1>1 DEF ReflectorOpus, PttTypes, Numbers
  <2>2. OpenersDelay(n) \subseteq Handlers /\ <<n>> \in Seq(Numbers)
    BY <2>1, HandlerType
  <2>3. Append(waiting, n) \in Seq(Numbers) /\ <<>> \in Seq(Numbers)
    BY <2>1 DEF PttBounds
  <2>4. openers \cup {n} \subseteq Int
        /\ \A f \in openers \cup {n} : 1 <= f /\ f <= n
    BY DEF PttBounds, PttTypes
  <2>5. CASE asteriskPtt
    <3>1. JoinPtt(n) BY <1>1, <2>5 DEF ReflectorOpus
    <3>2. /\ UNCHANGED <<startDtmf, delayed, openers>>
          /\ waiting' = waiting \/ waiting' = Append(waiting, n)
          /\ (UNCHANGED <<pttTimer, delivered>> \/ Finish(<<n>>))
      BY <3>1 DEF JoinPtt
    <3>3. pttTimer' <= Hang /\ delivered' \in Seq(Numbers)
      BY <2>2, <3>2, FinishBounds DEF PttBounds
    <3> QED BY <2>1, <2>3, <2>4, <3>2, <3>3 DEF PttBounds
  <2>6. CASE ~asteriskPtt
    <3>1. OpenPtt(n) BY <1>1, <2>6 DEF ReflectorOpus
    <3>2. /\ openers' = openers \cup {n}
          /\ startDtmf' \in {startDtmf, StartTime}
          /\ waiting' \in {waiting, Append(waiting, n)}
          /\ delayed' = delayed \/ delayed' = delayed \cup OpenersDelay(n)
          /\ \/ UNCHANGED <<pttTimer, delivered>>
             \/ Finish(<<>>) \/ Finish(<<n>>)
      BY <3>1 DEF OpenPtt
    <3>3. pttTimer' <= Hang /\ delivered' \in Seq(Numbers)
      BY <2>2, <2>3, <3>2, FinishBounds DEF PttBounds
    <3>4. startDtmf' <= StartTime /\ waiting' \in Seq(Numbers)
      <4>1. startDtmf' <= StartTime BY <3>2 DEF PttBounds
      <4>2. waiting' \in Seq(Numbers) BY <2>3, <3>2 DEF PttBounds
      <4> QED BY <4>1, <4>2
    <3>5. delayed' \subseteq Handlers BY <2>2, <3>2 DEF PttBounds
    <3> QED BY <2>1, <2>4, <3>2, <3>3, <3>4, <3>5 DEF PttBounds
  <2> QED BY <2>5, <2>6
<1>2. CASE StartDtmfDone
  <2>1. /\ waiting # <<>> /\ waiting' = <<>> /\ startDtmf' = Off
        /\ UNCHANGED <<received, openers>>
        /\ delayed' = delayed \cup OpenersDelay(Head(waiting))
        /\ Finish(IF OpenDelay > 0 THEN Tail(waiting) ELSE waiting)
    BY <1>2 DEF StartDtmfDone, PttInv
  <2>2. Head(waiting) \in Numbers /\ Tail(waiting) \in Seq(Numbers)
    BY <2>1 DEF PttBounds
  <2>3. delayed' \subseteq Handlers BY <2>1, <2>2, HandlerType DEF PttBounds
  <2>4. pttTimer' <= Hang /\ delivered' \in Seq(Numbers)
    BY <2>1, <2>2, FinishBounds DEF PttBounds
  <2>5. waiting' \in Seq(Numbers) BY <2>1
  <2> QED BY <2>1, <2>3, <2>4, <2>5 DEF PttBounds
<1>3. CASE OpenDelayOver
  <2>1. PICK d \in delayed :
             /\ delayed' = delayed \ {d} /\ Finish(<<d.frame>>)
             /\ UNCHANGED <<startDtmf, waiting, received, openers>>
    BY <1>3 DEF OpenDelayOver
  <2>2. <<d.frame>> \in Seq(Numbers) BY DEF PttBounds, Handlers
  <2>3. pttTimer' <= Hang /\ delivered' \in Seq(Numbers)
    BY <2>1, <2>2, FinishBounds
  <2> QED BY <2>1, <2>3 DEF PttBounds
<1>4. CASE PttTimerFires BY <1>4 DEF PttTimerFires, PttBounds
<1>5. CASE SetRemote BY <1>5 DEF SetRemote, PttBounds
<1>6. CASE Tick
  <2>1. ASSUME NEW d \in delayed' PROVE d \in Handlers
    <3>1. PICK e \in delayed : d = [e EXCEPT !.left = @ - 1] BY <1>6 DEF Tick
    <3>2. e \in Handlers /\ e.left # 0 BY <1>6 DEF Tick, PttBounds
    <3> QED BY <3>1, <3>2 DEF Handlers
  <2>2. /\ pttTimer' <= Hang /\ startDtmf' <= StartTime
    BY <1>6 DEF Tick, Elapsed, PttTypes, PttBounds
  <2> QED BY <1>6, <2>1, <2>2 DEF Tick, PttBounds
<1>7. CASE UNCHANGED vars BY <1>7 DEF vars, PttBounds
<1> QED BY <1>1, <1>2, <1>3, <1>4, <1>5, <1>6, <1>7 DEF Next, TimerStep

\* The fields of the wiring hold what their types say.
THEOREM TypeCorrect == Spec => []TypeOK
<1>1. Init => PttFlags /\ PttBounds
  <2> SUFFICES ASSUME Init PROVE PttFlags /\ PttBounds OBVIOUS
  <2>1. PttFlags BY ModeAssumption DEF Init, PttFlags
  <2>2. <<>> \in Seq(Numbers) OBVIOUS
  <2>3. PttBounds BY <2>2, PttTimesAssumption DEF Init, PttBounds, Off
  <2> QED BY <2>1, <2>3
<1>2. PttTypes /\ PttFlags /\ PttBounds /\ FrameInv => TypeOK
  <2> SUFFICES ASSUME PttTypes, PttFlags, PttBounds, FrameInv PROVE TypeOK
    OBVIOUS
  <2>1. /\ pttTimer \in Off .. Hang /\ startDtmf \in Off .. StartTime
        /\ received \in 0 .. Frames
        /\ openers \subseteq 1 .. received
    BY PttTimesAssumption DEF PttTypes, PttBounds, Off
  <2> QED
    BY <2>1, Zenon DEF TypeOK, PttTypes, PttFlags, PttBounds, FrameInv, Numbers,
                       Handlers
<1> QED BY <1>1, <1>2, PttFlagsStep, PttBoundsStep, FrameInvariant, PTL DEF Spec
=============================================================================
