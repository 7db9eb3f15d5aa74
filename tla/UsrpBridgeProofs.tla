-------------------------- MODULE UsrpBridgeProofs --------------------------
(***************************************************************************)
(* Proofs about UsrpBridge, for every packet time, queue limit and number  *)
(* of packets, and however late the event loop is: voice keeps its order   *)
(* and the queue the newest of it, the pump is never left unscheduled, the *)
(* peer is keyed only during a transmission, and the packets keep their    *)
(* pace.                                                                   *)
(***************************************************************************)
EXTENDS UsrpBridge, SequenceTheorems, TLAPS

-----------------------------------------------------------------------------
(* Sequences of packet numbers.                                            *)

UpTo(s, n) == \A i \in 1 .. Len(s) : s[i] <= n

Before(s, t) == \A i \in 1 .. Len(s), j \in 1 .. Len(t) : s[i] < t[j]

\* d is what is left of s when its first packets are taken away.
IsRest(d, s) ==
    /\ d \in Seq(Int)
    /\ \E k \in 0 .. Len(s) :
          /\ Len(d) = Len(s) - k
          /\ \A i \in 1 .. Len(d) : d[i] = s[i + k]

LEMMA RestOrdered ==
    ASSUME NEW s \in Seq(Int), NEW d, IsRest(d, s), NEW p \in Seq(Int),
           NEW n \in Int, Ascending(s), UpTo(s, n), Before(p, s)
    PROVE  /\ Ascending(d) /\ UpTo(d, n) /\ Before(p, d)
           /\ Len(d) <= Len(s)
           /\ d # <<>> => s # <<>> /\ d[Len(d)] = s[Len(s)]
<1> PICK k \in 0 .. Len(s) : /\ Len(d) = Len(s) - k
                             /\ \A i \in 1 .. Len(d) : d[i] = s[i + k]
  BY DEF IsRest
<1>1. d \in Seq(Int) /\ Len(d) \in Nat /\ Len(s) \in Nat BY DEF IsRest
<1>2. ASSUME NEW i \in 1 .. Len(d)
      PROVE  i + k \in 1 .. Len(s) /\ d[i] = s[i + k]
  BY <1>1
<1>3. Ascending(d)
  <2> SUFFICES ASSUME NEW i \in 1 .. Len(d), NEW j \in 1 .. Len(d), i < j
               PROVE  d[i] < d[j]
    BY DEF Ascending
  <2>1. i + k < j + k OBVIOUS
  <2> QED BY <1>2, <2>1 DEF Ascending
<1>4. UpTo(d, n) /\ Before(p, d) BY <1>2 DEF UpTo, Before
<1>5. ASSUME d # <<>> PROVE s # <<>> /\ d[Len(d)] = s[Len(s)]
  <2>1. Len(d) \in 1 .. Len(d) /\ Len(d) + k = Len(s) BY <1>1, <1>5
  <2>2. d[Len(d)] = s[Len(d) + k] BY <2>1
  <2>3. Len(s) # 0 BY <2>1
  <2> QED BY <2>1, <2>2, <2>3
<1> QED BY <1>1, <1>3, <1>4, <1>5

LEMMA DropExcessIsRest ==
    ASSUME NEW s \in Seq(Int)
    PROVE  IsRest(DropExcess(s), s) /\ Len(DropExcess(s)) <= MaxQueue
<1> USE UsrpSizes
<1>1. CASE Len(s) <= MaxQueue
  <2>1. DropExcess(s) = s BY <1>1 DEF DropExcess
  <2>2. /\ Len(s) = Len(s) - 0 /\ 0 \in 0 .. Len(s)
        /\ \A i \in 1 .. Len(s) : s[i] = s[i + 0]
    OBVIOUS
  <2> QED BY <1>1, <2>1, <2>2 DEF IsRest
<1>2. CASE ~(Len(s) <= MaxQueue)
  <2> DEFINE k == Len(s) - MaxQueue
             d == SubSeq(s, k + 1, Len(s))
  <2>1. DropExcess(s) = d BY <1>2 DEF DropExcess, SuffixFrom
  <2>2. k \in 0 .. Len(s) BY <1>2
  <2>3. /\ d \in Seq(Int) /\ Len(d) = Len(s) - k
        /\ \A i \in 1 .. Len(d) : d[i] = s[i + k]
    BY <2>2
  <2>4. Len(d) <= MaxQueue BY <2>3
  <2> QED BY <2>1, <2>2, <2>3, <2>4 DEF IsRest
<1> QED BY <1>1, <1>2

LEMMA ShiftedIsRest ==
    ASSUME NEW s \in Seq(Int)
    PROVE  IsRest(Shifted(s), s)
<1>1. CASE s = <<>> BY <1>1 DEF Shifted, IsRest
<1>2. CASE s # <<>>
  <2>1. Shifted(s) = Tail(s) BY <1>2 DEF Shifted
  <2>2. /\ Tail(s) \in Seq(Int) /\ Len(Tail(s)) = Len(s) - 1 /\ 1 \in 0 .. Len(s)
        /\ \A i \in 1 .. Len(Tail(s)) : Tail(s)[i] = s[i + 1]
    BY <1>2
  <2> QED BY <2>1, <2>2 DEF IsRest
<1> QED BY <1>1, <1>2

\* Taking a queue's head to what has been sent keeps the order.
LEMMA HeadSent ==
    ASSUME NEW p \in Seq(Int), NEW q \in Seq(Int), q # <<>>, NEW n \in Int,
           Ascending(p), Ascending(q), Before(p, q), UpTo(p, n), UpTo(q, n)
    PROVE  LET s == p \o <<Head(q)>>
           IN s \in Seq(Int) /\ Ascending(s) /\ UpTo(s, n) /\ Before(s, Tail(q))
<1> DEFINE s == p \o <<Head(q)>>
<1>1. Head(q) = q[1] /\ 1 \in 1 .. Len(q) /\ q[1] \in Int OBVIOUS
<1>2. /\ s \in Seq(Int) /\ Len(s) = Len(p) + 1
      /\ \A i \in 1 .. Len(p) : s[i] = p[i]
      /\ s[Len(p) + 1] = q[1]
  BY <1>1
<1>3. Tail(q) \in Seq(Int) /\ Len(Tail(q)) = Len(q) - 1
      /\ \A i \in 1 .. Len(Tail(q)) : Tail(q)[i] = q[i + 1]
  OBVIOUS
<1> HIDE DEF s
<1>4. ASSUME NEW i \in 1 .. Len(s) 
      PROVE  IF i <= Len(p) THEN i \in 1 .. Len(p) /\ s[i] = p[i]
             ELSE i = Len(p) + 1 /\ s[i] = q[1]
  BY <1>2
<1>5. Ascending(s)
  <2> SUFFICES ASSUME NEW i \in 1 .. Len(s), NEW j \in 1 .. Len(s), i < j
               PROVE  s[i] < s[j]
    BY DEF Ascending
  <2>1. i <= Len(p) BY <1>2
  <2>2. i \in 1 .. Len(p) /\ s[i] = p[i] BY <2>1, <1>4
  <2>3. CASE j <= Len(p) BY <1>4, <2>2, <2>3 DEF Ascending
  <2>4. CASE ~(j <= Len(p)) BY <1>1, <1>4, <2>2, <2>4 DEF Before
  <2> QED BY <2>3, <2>4
<1>6. UpTo(s, n)
  <2> SUFFICES ASSUME NEW i \in 1 .. Len(s) PROVE s[i] <= n BY DEF UpTo
  <2> QED BY <1>1, <1>4 DEF UpTo
<1>7. Before(s, Tail(q))
  <2> SUFFICES ASSUME NEW i \in 1 .. Len(s), NEW j \in 1 .. Len(Tail(q))
               PROVE  s[i] < Tail(q)[j]
    BY DEF Before
  <2>1. Tail(q)[j] = q[j + 1] /\ j + 1 \in 1 .. Len(q) /\ 1 < j + 1 BY <1>3
  <2>2. CASE i <= Len(p) BY <1>4, <2>1, <2>2 DEF Before
  <2>3. CASE ~(i <= Len(p)) BY <1>1, <1>4, <2>1, <2>3 DEF Ascending
  <2> QED BY <2>2, <2>3
<1> QED BY <1>2, <1>5, <1>6, <1>7 DEF s

\* Numbering new packets after all the others keeps it too.
LEMMA NewPacketsQueued ==
    ASSUME NEW p \in Seq(Int), NEW q \in Seq(Int), NEW n \in Nat, NEW m \in Nat,
           Ascending(q), Before(p, q), UpTo(p, n), UpTo(q, n),
           q # <<>> => q[Len(q)] = n
    PROVE  LET s == q \o [i \in 1 .. m |-> n + i]
           IN /\ s \in Seq(Int) /\ Ascending(s) /\ UpTo(s, n + m) /\ Before(p, s)
              /\ s # <<>> => s[Len(s)] = n + m
<1> DEFINE new == [i \in 1 .. m |-> n + i]
           s == q \o new
<1>1. /\ new \in Seq(Int) /\ Len(new) = m
      /\ \A i \in 1 .. m : new[i] = n + i
  OBVIOUS
<1> HIDE DEF new
<1>2. /\ s \in Seq(Int) /\ Len(s) = Len(q) + m /\ Len(q) \in Nat
      /\ \A i \in 1 .. Len(s) : s[i] = IF i <= Len(q) THEN q[i]
                                        ELSE new[i - Len(q)]
  <2> HIDE DEF s
  <2>1. /\ s \in Seq(Int) /\ Len(s) = Len(q) + Len(new)
        /\ \A i \in 1 .. Len(q) + Len(new) :
              s[i] = IF i <= Len(q) THEN q[i] ELSE new[i - Len(q)]
    BY <1>1, ConcatProperties, ZenonT(20) DEF s
  <2> QED BY <1>1, <2>1
<1> HIDE DEF s
<1>3. ASSUME NEW i \in 1 .. Len(s)
      PROVE  IF i <= Len(q) THEN i \in 1 .. Len(q) /\ s[i] = q[i]
             ELSE s[i] = n + (i - Len(q))
  <2>1. CASE i <= Len(q) BY <1>2, <2>1
  <2>2. CASE ~(i <= Len(q))
    <3>1. i - Len(q) \in 1 .. m BY <1>2, <2>2
    <3> QED BY <1>1, <1>2, <2>2, <3>1
  <2> QED BY <2>1, <2>2
<1>4. ASSUME NEW i \in 1 .. Len(s), ~(i <= Len(q))
      PROVE  s[i] \in Int /\ n < s[i] /\ s[i] <= n + m
  <2>1. i - Len(q) \in Int /\ i - Len(q) > 0 /\ i - Len(q) <= m
    BY <1>2, <1>4
  <2>2. s[i] = n + (i - Len(q)) BY <1>3, <1>4
  <2> QED BY <2>1, <2>2
<1>5. Ascending(s)
  <2> SUFFICES ASSUME NEW i \in 1 .. Len(s), NEW j \in 1 .. Len(s), i < j
               PROVE  s[i] < s[j]
    BY DEF Ascending
  <2>1. CASE j <= Len(q)
    <3>1. i <= Len(q) BY <2>1, <1>2
    <3> QED BY <2>1, <3>1, <1>3 DEF Ascending
  <2>2. CASE ~(j <= Len(q)) /\ i <= Len(q)
    <3>1. s[j] \in Int /\ n < s[j] BY <2>2, <1>4
    <3>2. i \in 1 .. Len(q) /\ s[i] = q[i] /\ q[i] \in Int BY <2>2, <1>3
    <3>3. q[i] <= n BY <3>2 DEF UpTo
    <3> QED BY <3>1, <3>2, <3>3
  <2>3. CASE ~(i <= Len(q))
    <3>1. ~(j <= Len(q)) BY <2>3, <1>2
    <3>2. s[i] = n + (i - Len(q)) /\ s[j] = n + (j - Len(q))
      BY <2>3, <3>1, <1>3
    <3> QED BY <3>2, <1>2
  <2> QED BY <2>1, <2>2, <2>3
<1>6. UpTo(s, n + m)
  <2> SUFFICES ASSUME NEW i \in 1 .. Len(s) PROVE s[i] <= n + m BY DEF UpTo
  <2>1. CASE i <= Len(q)
    <3>1. i \in 1 .. Len(q) /\ s[i] = q[i] /\ q[i] \in Int BY <2>1, <1>3
    <3>2. q[i] <= n BY <3>1 DEF UpTo
    <3> QED BY <3>1, <3>2
  <2>2. CASE ~(i <= Len(q)) BY <1>4, <2>2
  <2> QED BY <2>1, <2>2
<1>7. Before(p, s)
  <2> SUFFICES ASSUME NEW i \in 1 .. Len(p), NEW j \in 1 .. Len(s)
               PROVE  p[i] < s[j]
    BY DEF Before
  <2>1. CASE j <= Len(q) BY <1>3, <2>1 DEF Before
  <2>2. CASE ~(j <= Len(q))
    <3>1. p[i] <= n /\ p[i] \in Int BY DEF UpTo
    <3>2. s[j] \in Int /\ n < s[j] BY <2>2, <1>4
    <3> QED BY <3>1, <3>2
  <2> QED BY <2>1, <2>2
<1>8. ASSUME s # <<>> PROVE s[Len(s)] = n + m
  <2>1. Len(s) \in 1 .. Len(s) BY <1>2, <1>8
  <2>2. CASE m = 0
    <3>1. Len(s) = Len(q) BY <1>2, <2>2
    <3>2. s[Len(s)] = q[Len(q)] BY <1>3, <2>1, <3>1
    <3>3. q # <<>> BY <2>1, <3>1
    <3> QED BY <2>2, <3>2, <3>3
  <2>3. CASE m # 0
    <3>1. ~(Len(s) <= Len(q)) /\ Len(s) - Len(q) = m BY <1>2, <2>3
    <3> QED BY <1>3, <2>1, <3>1
  <2> QED BY <2>2, <2>3
<1> QED BY <1>2, <1>5, <1>6, <1>7, <1>8 DEF s, new

-----------------------------------------------------------------------------
(* The transmission and its queue.                                         *)

TxFlags ==
    /\ running \in BOOLEAN /\ txActive \in BOOLEAN /\ txTimer \in BOOLEAN
    /\ peerKeyed \in BOOLEAN /\ unkeyLost \in BOOLEAN

\* There is nothing to send before start() and after an unkey, and whatever
\* there is to send keeps the pump going.
TxInv ==
    /\ socket = "new" => ~running /\ ~txActive
    /\ ~txActive => txQueue = <<>>
    /\ running /\ txActive => txTimer
    /\ peerKeyed => txActive \/ unkeyLost

QueueInv ==
    /\ sent \in Seq(Int) /\ txQueue \in Seq(Int) /\ queued \in Nat
    /\ Ascending(sent) /\ Ascending(txQueue) /\ Before(sent, txQueue)
    /\ UpTo(sent, queued) /\ UpTo(txQueue, queued)
    /\ NewestKept

\* Socket events leave the transmission alone; none makes the socket new.
LEMMA SocketFrame ==
    ASSUME SocketStep
    PROVE  /\ UNCHANGED <<txQueue, txActive, nextTxAt, now, queued, sent,
                          peerKeyed, unkeyLost, burst, burstFrom, atOnce>>
           /\ socket' = "new" => socket = "new" /\ UNCHANGED running
           /\ running' => (running \/ socket = "new") /\ UNCHANGED txTimer
           /\ running' \in BOOLEAN \/ UNCHANGED running
           /\ txTimer' = FALSE \/ UNCHANGED txTimer
<1> USE DEF socketVars, txVars, peerVars, rateVars, RestartSocket
<1>1. CASE Start BY <1>1 DEF Start
<1>2. CASE Bound BY <1>2 DEF Bound
<1>3. CASE StartBindFails BY <1>3 DEF StartBindFails, Starting
<1>4. CASE RestartBindFails BY <1>4 DEF RestartBindFails
<1>5. CASE SocketError BY <1>5 DEF SocketError
<1>6. CASE RestartDelayOver BY <1>6 DEF RestartDelayOver
<1>7. CASE Stop BY <1>7 DEF Stop
<1>8. ASSUME NEW failed \in BOOLEAN, SendDone(failed)
      PROVE  UNCHANGED <<txVars, running, now, queued, sent, peerKeyed,
                         unkeyLost, rateVars>>
             /\ (socket' = "new" => socket = "new")
  BY <1>8 DEF SendDone
<1> QED
  BY <1>1, <1>2, <1>3, <1>4, <1>5, <1>6, <1>7, <1>8 DEF SocketStep

LEMMA TxFlagsStep == TxFlags /\ [Next]_vars => TxFlags'
<1> SUFFICES ASSUME TxFlags, [Next]_vars PROVE TxFlags' OBVIOUS
<1> USE DEF TxFlags, socketVars, txVars, peerVars, rateVars
<1>1. CASE SocketStep BY <1>1, SocketFrame
<1>2. CASE PumpEnds BY <1>2 DEF PumpEnds
<1>3. CASE PumpSends BY <1>3 DEF PumpSends, SendPacket
<1>4. CASE Tick BY <1>4 DEF Tick
<1>5. CASE SendUnkey BY <1>5 DEF SendUnkey, SendPacket
<1>6. ASSUME NEW n \in Chunks, SendPcm(n) PROVE TxFlags'
  BY <1>6 DEF SendPcm, StartTxPump
<1>7. CASE UNCHANGED vars BY <1>7 DEF vars
<1> QED BY <1>1, <1>2, <1>3, <1>4, <1>5, <1>6, <1>7 DEF Next, PumpStep

LEMMA TxInvStep == TxFlags /\ TxInv /\ [Next]_vars => TxInv'
<1> SUFFICES ASSUME TxFlags, TxInv, [Next]_vars PROVE TxInv' OBVIOUS
<1> USE DEF TxFlags, TxInv, socketVars, txVars, peerVars, rateVars
<1>1. CASE SocketStep BY <1>1, SocketFrame
<1>2. CASE PumpEnds BY <1>2 DEF PumpEnds
<1>3. CASE PumpSends
  <2>1. UNCHANGED <<running, socket, txActive>> /\ txActive
    BY <1>3 DEF PumpSends
  <2>2. txTimer' BY <1>3, <2>1 DEF PumpSends
  <2> QED BY <2>1, <2>2
<1>4. CASE Tick BY <1>4 DEF Tick
<1>5. CASE SendUnkey
  <2>1. peerKeyed' => unkeyLost' BY <1>5 DEF SendUnkey, SendPacket
  <2> QED BY <1>5, <2>1 DEF SendUnkey
<1>6. ASSUME NEW n \in Chunks, SendPcm(n) PROVE TxInv'
  <2>1. running /\ UNCHANGED <<running, socket>> /\ txActive' = TRUE
    BY <1>6 DEF SendPcm
  <2>2. txTimer' BY <1>6 DEF SendPcm, StartTxPump
  <2> QED BY <2>1, <2>2
<1>7. CASE UNCHANGED vars BY <1>7 DEF vars
<1> QED BY <1>1, <1>2, <1>3, <1>4, <1>5, <1>6, <1>7 DEF Next, PumpStep

LEMMA EmptyOrdered ==
    ASSUME NEW s \in Seq(Int), NEW n \in Int
    PROVE  Ascending(<<>>) /\ UpTo(<<>>, n) /\ Before(s, <<>>)
BY DEF Ascending, UpTo, Before

LEMMA QueueInvStep == QueueInv /\ [Next]_vars => QueueInv'
<1> SUFFICES ASSUME QueueInv, [Next]_vars PROVE QueueInv' OBVIOUS
<1> USE DEF socketVars, txVars, peerVars, rateVars
<1>1. CASE UNCHANGED <<sent, txQueue, queued>>
  BY <1>1 DEF QueueInv, NewestKept
<1>2. CASE SocketStep BY <1>1, <1>2, SocketFrame
<1>3. CASE PumpEnds \/ Tick BY <1>1, <1>3 DEF PumpEnds, Tick
<1>4. CASE PumpSends
  <2> DEFINE queue == DropExcess(txQueue)
  <2>1. /\ IsRest(queue, txQueue) /\ queue \in Seq(Int)
        /\ Len(queue) <= MaxQueue
    BY DropExcessIsRest DEF QueueInv, IsRest
  <2>2. /\ Ascending(queue) /\ UpTo(queue, queued) /\ Before(sent, queue)
        /\ queue # <<>> => queue[Len(queue)] = queued
    BY <2>1, RestOrdered DEF QueueInv, NewestKept
  <2>3. /\ txQueue' = Shifted(queue) /\ queued' = queued
        /\ \/ sent' = sent
           \/ sent' = sent \o IF queue = <<>> THEN <<>> ELSE <<Head(queue)>>
    BY <1>4 DEF PumpSends, SendPacket
  <2> HIDE DEF queue
  <2>4. IsRest(txQueue', queue) BY <2>1, <2>3, ShiftedIsRest
  <2>5. /\ Ascending(txQueue') /\ UpTo(txQueue', queued) /\ Before(sent, txQueue')
        /\ Len(txQueue') <= Len(queue)
        /\ txQueue' # <<>> => txQueue'[Len(txQueue')] = queued
    BY <2>1, <2>2, <2>4, RestOrdered DEF QueueInv
  <2>6. txQueue' \in Seq(Int) /\ NewestKept'
    BY <2>1, <2>3, <2>4, <2>5, UsrpSizes DEF IsRest, NewestKept
  <2>7. CASE sent' = sent BY <2>3, <2>5, <2>6, <2>7 DEF QueueInv
  <2>8. CASE queue = <<>> /\ sent' = sent \o <<>>
    BY <2>3, <2>5, <2>6, <2>7, <2>8 DEF QueueInv
  <2>9. CASE queue # <<>> /\ sent' = sent \o <<Head(queue)>>
    <3>1. txQueue' = Tail(queue) BY <2>3, <2>9 DEF Shifted
    <3>2. /\ sent' \in Seq(Int) /\ Ascending(sent') /\ UpTo(sent', queued)
          /\ Before(sent', txQueue')
      BY <2>1, <2>2, <2>9, <3>1, HeadSent DEF QueueInv
    <3> QED BY <2>3, <2>5, <2>6, <3>2 DEF QueueInv
  <2> QED BY <2>3, <2>7, <2>8, <2>9
<1>5. CASE SendUnkey
  <2>1. txQueue' = <<>> /\ queued' = queued BY <1>5 DEF SendUnkey
  <2>2. sent' = sent BY <1>5 DEF SendUnkey, SendPacket, QueueInv
  <2>3. Ascending(<<>>) /\ UpTo(<<>>, queued) /\ Before(sent, <<>>)
    BY EmptyOrdered DEF QueueInv
  <2> QED BY <2>1, <2>2, <2>3, UsrpSizes DEF QueueInv, NewestKept
<1>6. ASSUME NEW n \in Chunks, SendPcm(n) PROVE QueueInv'
  <2>1. n \in Nat BY UsrpSizes
  <2> DEFINE all == txQueue \o [i \in 1 .. n |-> queued + i]
  <2>2. txQueue' = DropExcess(all) /\ queued' = queued + n /\ sent' = sent
    BY <1>6 DEF SendPcm
  <2>3. /\ all \in Seq(Int) /\ Ascending(all) /\ UpTo(all, queued + n)
        /\ Before(sent, all)
        /\ all # <<>> => all[Len(all)] = queued + n
    BY <2>1, NewPacketsQueued DEF QueueInv, NewestKept
  <2> HIDE DEF all
  <2>4. IsRest(txQueue', all) /\ Len(txQueue') <= MaxQueue
    BY <2>2, <2>3, DropExcessIsRest
  <2>5. /\ Ascending(txQueue') /\ UpTo(txQueue', queued + n)
        /\ Before(sent, txQueue')
        /\ txQueue' # <<>> => txQueue'[Len(txQueue')] = queued + n
    BY <2>1, <2>3, <2>4, RestOrdered DEF QueueInv
  <2>6. UpTo(sent, queued + n) BY <2>1 DEF QueueInv, UpTo
  <2> QED BY <2>1, <2>2, <2>4, <2>5, <2>6 DEF QueueInv, NewestKept, IsRest
<1>7. CASE UNCHANGED vars BY <1>1, <1>7 DEF vars
<1> QED BY <1>2, <1>3, <1>4, <1>5, <1>6, <1>7 DEF Next, PumpStep

-----------------------------------------------------------------------------
(* The pace.  The pump's slots are a packet time apart from the moment it  *)
(* starts; one that is late finds the next slot behind the clock by less   *)
(* than two packet times, and uses those up before it has to wait.         *)

PaceInv ==
    /\ now \in Nat /\ nextTxAt \in Nat /\ burst \in Nat /\ atOnce \in Nat
    /\ burstFrom \in Nat /\ burstFrom <= now
    /\ nextTxAt <= now + PacketMs
    /\ txTimer => burstFrom + burst * PacketMs <= nextTxAt
    /\ txTimer => burst * PacketMs <= now - burstFrom + PacketMs
    /\ atOnce >= 1 => nextTxAt >= now - PacketMs
    /\ atOnce >= 2 => nextTxAt >= now
    /\ atOnce >= 3 => nextTxAt > now
    /\ atOnce <= 3

LEMMA PaceStep == PaceInv /\ [Next]_vars => PaceInv'
<1> SUFFICES ASSUME PaceInv, [Next]_vars PROVE PaceInv' OBVIOUS
<1> USE UsrpSizes DEF socketVars, txVars, peerVars, rateVars
<1>1. ASSUME UNCHANGED <<now, nextTxAt, burst, burstFrom, atOnce>>,
             txTimer' => txTimer
      PROVE  PaceInv'
  BY <1>1 DEF PaceInv
<1>2. CASE SocketStep
  <2>1. txTimer' => txTimer BY <1>2, SocketFrame
  <2> QED BY <1>1, <1>2, <2>1, SocketFrame
<1>3. CASE PumpEnds BY <1>1, <1>3 DEF PumpEnds
<1>4. CASE PumpSends
  <2>1. /\ txTimer /\ nextTxAt <= now
        /\ nextTxAt' = IF nextTxAt + PacketMs < now - PacketMs
                         THEN now + PacketMs ELSE nextTxAt + PacketMs
        /\ burst' = burst + 1 /\ atOnce' = atOnce + 1
        /\ UNCHANGED <<now, burstFrom>>
    BY <1>4 DEF PumpSends, Due, NextSlot, PaceInv
  <2>2. PICK sent_for : sent_for = burst * PacketMs OBVIOUS
  <2>3. /\ sent_for \in Int /\ burst' * PacketMs = sent_for + PacketMs
    BY <2>1, <2>2 DEF PaceInv
  <2>4. /\ now' \in Nat /\ nextTxAt' \in Nat /\ burst' \in Nat /\ atOnce' \in Nat
        /\ burstFrom' \in Nat /\ burstFrom' <= now'
        /\ nextTxAt' <= now' + PacketMs
    BY <2>1 DEF PaceInv
  <2>5. /\ burstFrom' + burst' * PacketMs <= nextTxAt'
        /\ burst' * PacketMs <= now' - burstFrom' + PacketMs
    BY <2>1, <2>2, <2>3 DEF PaceInv
  <2>6. /\ nextTxAt' >= now' - PacketMs
        /\ atOnce' >= 2 => nextTxAt' >= now'
        /\ atOnce' >= 3 => nextTxAt' > now'
        /\ atOnce' <= 3
    BY <2>1 DEF PaceInv
  <2> QED BY <2>4, <2>5, <2>6 DEF PaceInv
<1>5. CASE Tick BY <1>5 DEF Tick, PaceInv
<1>6. CASE SendUnkey BY <1>1, <1>6 DEF SendUnkey
<1>7. ASSUME NEW n \in Chunks, SendPcm(n) PROVE PaceInv'
  <2>1. CASE txTimer BY <1>1, <1>7, <2>1 DEF SendPcm, StartTxPump
  <2>2. CASE ~txTimer
    <3>1. /\ nextTxAt' = now /\ burst' = 0 /\ burstFrom' = now /\ atOnce' = 0
          /\ now' = now
      BY <1>7, <2>2 DEF SendPcm, StartTxPump
    <3>2. burst' * PacketMs = 0 BY <3>1
    <3> QED BY <3>1, <3>2 DEF PaceInv
  <2> QED BY <2>1, <2>2
<1>8. CASE UNCHANGED vars BY <1>1, <1>8 DEF vars
<1> QED BY <1>2, <1>3, <1>4, <1>5, <1>6, <1>7, <1>8 DEF Next, PumpStep

-----------------------------------------------------------------------------
(* The types.                                                              *)

SocketFlags ==
    /\ crashed \in BOOLEAN
    /\ restartingSocket \in BOOLEAN /\ restartDelay \in BOOLEAN
    /\ inFlight \in BOOLEAN

Bounds ==
    /\ socket \in {"none", "new", "binding", "bound"}
    /\ txQueue \in Seq(1 .. Frames) /\ sent \in Seq(1 .. Frames)
    /\ now <= MaxTime /\ queued \in 0 .. Frames

LEMMA SocketFlagsStep == SocketFlags /\ [Next]_vars => SocketFlags'
<1> SUFFICES ASSUME SocketFlags, [Next]_vars PROVE SocketFlags' OBVIOUS
<1> USE DEF SocketFlags, RestartSocket, socketVars, txVars, peerVars
<1>1. CASE Start \/ Bound \/ Stop BY <1>1 DEF Start, Bound, Stop
<1>2. CASE StartBindFails BY <1>2 DEF StartBindFails
<1>3. CASE RestartBindFails BY <1>3 DEF RestartBindFails
<1>4. CASE SocketError BY <1>4 DEF SocketError
<1>5. CASE RestartDelayOver BY <1>5 DEF RestartDelayOver
<1>6. ASSUME NEW failed \in BOOLEAN, SendDone(failed) PROVE SocketFlags'
  BY <1>6 DEF SendDone
<1>7. CASE PumpSends BY <1>7 DEF PumpSends, SendPacket
<1>8. CASE SendUnkey BY <1>8 DEF SendUnkey, SendPacket
<1>9. CASE PumpEnds \/ Tick BY <1>9 DEF PumpEnds, Tick
<1>10. ASSUME NEW n \in Chunks, SendPcm(n) PROVE SocketFlags'
  BY <1>10 DEF SendPcm
<1>11. CASE UNCHANGED vars BY <1>11 DEF vars
<1> QED BY <1>1, <1>2, <1>3, <1>4, <1>5, <1>6, <1>7, <1>8, <1>9, <1>10, <1>11
        DEF Next, SocketStep, PumpStep

LEMMA QueueType ==
    ASSUME NEW S, NEW s \in Seq(S)
    PROVE  DropExcess(s) \in Seq(S) /\ Shifted(s) \in Seq(S)
<1>1. DropExcess(s) \in Seq(S) BY UsrpSizes DEF DropExcess, SuffixFrom
<1>2. Shifted(s) \in Seq(S) BY DEF Shifted
<1> QED BY <1>1, <1>2

LEMMA SocketType ==
    ASSUME Bounds, SocketStep
    PROVE  socket' \in {"none", "new", "binding", "bound"}
BY DEF Bounds, SocketStep, Start, Bound, StartBindFails, RestartBindFails,
       SocketError, RestartDelayOver, Stop, SendDone, RestartSocket

LEMMA BoundsStep == PaceInv /\ Bounds /\ [Next]_vars => Bounds'
<1> SUFFICES ASSUME PaceInv, Bounds, [Next]_vars PROVE Bounds' OBVIOUS
<1> USE UsrpSizes DEF Bounds, socketVars, txVars, peerVars, rateVars
<1>1. CASE SocketStep BY <1>1, SocketFrame, SocketType
<1>2. CASE PumpEnds BY <1>2 DEF PumpEnds
<1>3. CASE PumpSends
  <2> DEFINE queue == DropExcess(txQueue)
  <2>1. queue \in Seq(1 .. Frames) BY QueueType
  <2>2. /\ txQueue' = Shifted(queue) /\ UNCHANGED <<socket, now, queued>>
        /\ \/ sent' = sent
           \/ sent' = sent \o IF queue = <<>> THEN <<>> ELSE <<Head(queue)>>
    BY <1>3 DEF PumpSends, SendPacket
  <2> HIDE DEF queue
  <2>3. txQueue' \in Seq(1 .. Frames) BY <2>1, <2>2, QueueType
  <2>4. sent' \in Seq(1 .. Frames)
    <3>1. CASE sent' = sent BY <3>1
    <3>2. CASE queue = <<>> /\ sent' = sent \o <<>> BY <3>2
    <3>3. CASE queue # <<>> /\ sent' = sent \o <<Head(queue)>>
      BY <2>1, <3>3
    <3> QED BY <2>2, <3>1, <3>2, <3>3
  <2> QED BY <2>2, <2>3, <2>4
<1>4. CASE Tick BY <1>4 DEF Tick, PaceInv
<1>5. CASE SendUnkey
  <2>1. sent' \in {sent, sent \o <<>>} /\ txQueue' = <<>>
    BY <1>5 DEF SendUnkey, SendPacket
  <2> QED BY <1>5, <2>1 DEF SendUnkey
<1>6. ASSUME NEW n \in Chunks, SendPcm(n) PROVE Bounds'
  <2>1. n \in Nat /\ queued + n <= Frames BY <1>6 DEF SendPcm
  <2> DEFINE new == [i \in 1 .. n |-> queued + i]
  <2>2. new \in Seq(1 .. Frames)
    <3>1. \A i \in 1 .. n : queued + i \in 1 .. Frames BY <2>1
    <3> QED BY <2>1, <3>1
  <2>3. txQueue' = DropExcess(txQueue \o new) BY <1>6 DEF SendPcm
  <2> HIDE DEF new
  <2>4. txQueue \o new \in Seq(1 .. Frames) BY <2>2
  <2>5. txQueue' \in Seq(1 .. Frames) BY <2>3, <2>4, QueueType
  <2> QED BY <1>6, <2>1, <2>5 DEF SendPcm
<1>7. CASE UNCHANGED vars BY <1>7 DEF vars
<1> QED BY <1>1, <1>2, <1>3, <1>4, <1>5, <1>6, <1>7 DEF Next, PumpStep

-----------------------------------------------------------------------------
LEMMA UsrpInit ==
    Init => /\ TxFlags /\ TxInv /\ QueueInv /\ PaceInv /\ SocketFlags /\ Bounds
<1> SUFFICES ASSUME Init
             PROVE  /\ TxFlags /\ TxInv /\ QueueInv /\ PaceInv
                    /\ SocketFlags /\ Bounds
  OBVIOUS
<1> USE UsrpSizes DEF Init
<1>1. TxFlags /\ SocketFlags BY DEF TxFlags, SocketFlags
<1>2. TxInv BY DEF TxInv
<1>3. QueueInv
  <2>1. <<>> \in Seq(Int) /\ Len(<<>>) = 0 OBVIOUS
  <2>2. Ascending(<<>>) /\ UpTo(<<>>, 0) /\ Before(<<>>, <<>>)
    <3>1. 1 .. 0 = {} OBVIOUS
    <3> QED BY <2>1, <3>1 DEF Ascending, UpTo, Before
  <2> QED BY <2>1, <2>2 DEF QueueInv, NewestKept
<1>4. PaceInv BY DEF PaceInv
<1>5. Bounds BY DEF Bounds
<1> QED BY <1>1, <1>2, <1>3, <1>4, <1>5

LEMMA UsrpInvariant ==
    Spec => [](TxFlags /\ TxInv /\ QueueInv /\ PaceInv /\ SocketFlags /\ Bounds)
<1>1. /\ TxFlags /\ TxInv /\ QueueInv /\ PaceInv /\ SocketFlags /\ Bounds
      /\ [Next]_vars
      => (TxFlags /\ TxInv /\ QueueInv /\ PaceInv /\ SocketFlags /\ Bounds)'
  BY TxFlagsStep, TxInvStep, QueueInvStep, PaceStep, SocketFlagsStep, BoundsStep
<1> QED BY <1>1, UsrpInit, PTL DEF Spec

\* The fields hold what their types say.
THEOREM TypeCorrect == Spec => []TypeOK
<1>1. TxFlags /\ PaceInv /\ SocketFlags /\ Bounds => TypeOK
  <2> SUFFICES ASSUME TxFlags, PaceInv, SocketFlags, Bounds PROVE TypeOK OBVIOUS
  <2>1. /\ nextTxAt \in 0 .. MaxTime + PacketMs /\ now \in 0 .. MaxTime
        /\ burst \in Nat /\ burstFrom \in 0 .. MaxTime /\ atOnce \in Nat
    BY UsrpSizes DEF PaceInv, Bounds
  <2> QED BY <2>1, Zenon DEF TypeOK, TxFlags, SocketFlags, Bounds
<1> QED BY <1>1, UsrpInvariant, PTL

\* Voice keeps its order through overflows, unkeys and lost sockets.
THEOREM VoiceInOrder == Spec => []InOrder
<1>1. QueueInv => InOrder
  <2> SUFFICES ASSUME QueueInv PROVE InOrder OBVIOUS
  <2>1. PICK all : all = sent \o txQueue OBVIOUS
  <2>2. /\ all \in Seq(Int) /\ Len(all) = Len(sent) + Len(txQueue)
        /\ \A i \in 1 .. Len(sent) + Len(txQueue) :
              all[i] = IF i <= Len(sent) THEN sent[i] ELSE txQueue[i - Len(sent)]
    BY <2>1, ConcatProperties, ZenonT(20) DEF QueueInv
  <2> SUFFICES ASSUME NEW i \in 1 .. Len(all), NEW j \in 1 .. Len(all), i < j
               PROVE  all[i] < all[j]
    BY <2>1 DEF InOrder, Ascending
  <2>3. Len(sent) \in Nat /\ Len(txQueue) \in Nat BY DEF QueueInv
  <2>4. CASE j <= Len(sent)
    <3>1. i \in 1 .. Len(sent) /\ j \in 1 .. Len(sent) BY <2>2, <2>3, <2>4
    <3>2. all[i] = sent[i] /\ all[j] = sent[j] BY <2>2, <2>3, <2>4
    <3> QED BY <3>1, <3>2 DEF QueueInv, Ascending
  <2>5. CASE i <= Len(sent) /\ ~(j <= Len(sent))
    <3>1. i \in 1 .. Len(sent) /\ j - Len(sent) \in 1 .. Len(txQueue)
      BY <2>2, <2>3, <2>5
    <3>2. all[i] = sent[i] /\ all[j] = txQueue[j - Len(sent)]
      BY <2>2, <2>3, <2>5
    <3> QED BY <3>1, <3>2 DEF QueueInv, Before
  <2>6. CASE ~(i <= Len(sent))
    <3>1. /\ i - Len(sent) \in 1 .. Len(txQueue)
          /\ j - Len(sent) \in 1 .. Len(txQueue)
          /\ i - Len(sent) < j - Len(sent)
      BY <2>2, <2>3, <2>6
    <3>2. /\ all[i] = txQueue[i - Len(sent)]
          /\ all[j] = txQueue[j - Len(sent)]
      BY <2>2, <2>3, <2>6
    <3> QED BY <3>1, <3>2 DEF QueueInv, Ascending
  <2> QED BY <2>4, <2>5, <2>6
<1> QED BY <1>1, UsrpInvariant, PTL

\* The queue is within its limit, and an overflow costs the oldest packets.
THEOREM OverflowDropsOldest == Spec => []NewestKept
<1>1. QueueInv => NewestKept BY DEF QueueInv
<1> QED BY <1>1, UsrpInvariant, PTL

\* No order of calls, timers and socket faults leaves voice with no pump.
THEOREM PumpAlwaysScheduled == Spec => []PumpNeverStalls
<1>1. TxInv => PumpNeverStalls BY DEF TxInv, PumpNeverStalls
<1> QED BY <1>1, UsrpInvariant, PTL

\* The peer is left keyed only by an unkey that found no socket.
THEOREM UnkeyedWhenInactive == Spec => []KeyedOnlyWhileActive
<1>1. TxInv => KeyedOnlyWhileActive BY DEF TxInv, KeyedOnlyWhileActive
<1> QED BY <1>1, UsrpInvariant, PTL

\* However long the loop stalls, the rate holds and three packets catch up.
THEOREM OutputAlwaysPaced == Spec => []PacedOutput
<1>1. PaceInv => PacedOutput BY DEF PaceInv, PacedOutput
<1> QED BY <1>1, UsrpInvariant, PTL
=============================================================================
