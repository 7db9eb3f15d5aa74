-------------------------- MODULE SvxFramesProofs --------------------------
(***************************************************************************)
(* Proofs about SvxFrames, for every frame limit, every number of messages *)
(* and connections, and every way the network cuts the stream: what the    *)
(* client has understood is what has arrived whole.                        *)
(*                                                                         *)
(* Cut and FlattenSeq are recursive: that they are defined at all is       *)
(* proved first, by approximations that agree with one another.            *)
(***************************************************************************)
EXTENDS SvxFrames, SequenceTheorems, WellFoundedInduction, TLAPS

Bytes == Seq(0 .. 255)

-----------------------------------------------------------------------------
(* Induction over the natural numbers, for a set that is given.            *)

LEMMA LeastNatural ==
    ASSUME NEW T \in SUBSET Nat, T # {}
    PROVE  \E n \in T : \A m \in T : n <= m
<1> DEFINE R == OpToRel(<, Nat)
<1>1. \A x, y \in Nat : x < y => <<x, y>> \in R
  BY DEF OpToRel
<1>2. IsWellFoundedOn(R, Nat)
  BY NatLessThanWellFounded
<1> HIDE DEF R
<1>3. PICK n \in T : \A m \in T : ~(<<m, n>> \in R)
  BY <1>2, WFMin
<1>4. ASSUME NEW m \in T
      PROVE  n <= m
  <2>1. m \in Nat /\ n \in Nat /\ ~(m < n)
    BY <1>1, <1>3
  <2> QED
    BY <2>1
<1> QED
  BY <1>4

LEMMA InductionOnSet ==
    ASSUME NEW S, 0 \in S, \A n \in Nat : n \in S => n + 1 \in S
    PROVE  Nat \subseteq S
<1> DEFINE T == Nat \ S
<1>1. ASSUME T # {}
      PROVE  FALSE
  <2>1. PICK n \in T : \A m \in T : n <= m
    BY <1>1, LeastNatural
  <2>2. n \in Nat /\ n # 0
    OBVIOUS
  <2>3. n - 1 \in Nat /\ n - 1 \notin T
    BY <2>1, <2>2
  <2>4. (n - 1) + 1 \in S
    BY <2>3
  <2> QED
    BY <2>2, <2>4
<1> QED
  BY <1>1

-----------------------------------------------------------------------------
(* Flattening: one sequence more is concatenated at the end.               *)

\* The first n steps of FlattenSeq(s).
Flattens(f, s, n) ==
    f = [i \in 1 .. n |-> IF i = 1 THEN s[i] ELSE f[i - 1] \o s[i]]

LEMMA FlattensExist ==
    ASSUME NEW s, NEW n \in Nat
    PROVE  \E f : Flattens(f, s, n)
<1> DEFINE S == {m \in Nat : \E f : Flattens(f, s, m)}
<1>1. 0 \in S
  <2> DEFINE f == [i \in 1 .. 0 |-> s[i]]
  <2>1. Flattens(f, s, 0)
    BY DEF Flattens
  <2> QED
    BY <2>1
<1>2. ASSUME NEW m \in Nat, m \in S
      PROVE  m + 1 \in S
  <2>1. PICK f : Flattens(f, s, m)
    BY <1>2
  <2> DEFINE last == IF m = 0 THEN s[1] ELSE f[m] \o s[m + 1]
             g == [i \in 1 .. m + 1 |-> IF i <= m THEN f[i] ELSE last]
             h == [i \in 1 .. m + 1 |-> IF i = 1 THEN s[i] ELSE g[i - 1] \o s[i]]
  <2>2. ASSUME NEW i \in 1 .. m + 1
        PROVE  g[i] = h[i]
    <3>1. CASE i <= m
      <4>1. i \in 1 .. m /\ g[i] = f[i]
        BY <3>1
      <4>2. f[i] = IF i = 1 THEN s[i] ELSE f[i - 1] \o s[i]
        BY <2>1, <4>1 DEF Flattens
      <4>3. i # 1 => g[i - 1] = f[i - 1]
        BY <3>1
      <4> QED
        BY <4>1, <4>2, <4>3
    <3>2. CASE i = m + 1
      <4>1. ~(i <= m) /\ g[i] = last
        BY <3>2
      <4>2. CASE m = 0
        BY <3>2, <4>1, <4>2
      <4>3. CASE m # 0
        <5>1. i # 1 /\ i - 1 = m /\ m \in 1 .. m + 1 /\ m <= m
          BY <3>2, <4>3
        <5>2. g[i - 1] = f[m]
          BY <5>1
        <5> QED
          BY <3>2, <4>1, <4>3, <5>1, <5>2
      <4> QED
        BY <4>2, <4>3
    <3> QED
      BY <3>1, <3>2
  <2>3. g = h
    BY <2>2
  <2>4. Flattens(g, s, m + 1)
    BY <2>3 DEF Flattens
  <2> QED
    BY <2>4
<1>3. Nat \subseteq S
  <2> HIDE DEF S
  <2> QED
    BY <1>1, <1>2, InductionOnSet
<1> QED
  BY <1>3

LEMMA FlattensAgree ==
    ASSUME NEW s, NEW t, NEW f, NEW g, NEW n \in Nat, NEW m \in Nat, n <= m,
           Flattens(f, s, n), Flattens(g, t, m),
           \A i \in 1 .. n : s[i] = t[i]
    PROVE  \A i \in 1 .. n : f[i] = g[i]
<1> DEFINE S == {k \in Nat : k \in 1 .. n => f[k] = g[k]}
<1>1. 0 \in S
  OBVIOUS
<1>2. ASSUME NEW k \in Nat, k \in S
      PROVE  k + 1 \in S
  <2> SUFFICES ASSUME k + 1 \in 1 .. n
               PROVE  f[k + 1] = g[k + 1]
    OBVIOUS
  <2>0. PICK i \in 1 .. n : i = k + 1
    OBVIOUS
  <2>1. i \in 1 .. m /\ i \in Nat
    OBVIOUS
  <2>2. f[i] = IF i = 1 THEN s[i] ELSE f[i - 1] \o s[i]
    BY DEF Flattens
  <2>3. g[i] = IF i = 1 THEN t[i] ELSE g[i - 1] \o t[i]
    BY <2>1 DEF Flattens
  <2>4. s[i] = t[i]
    OBVIOUS
  <2>5. i # 1 => f[i - 1] = g[i - 1]
    <3>1. i - 1 = k /\ (i # 1 => k \in 1 .. n)
      BY <2>0
    <3> QED
      BY <1>2, <3>1
  <2> QED
    BY <2>0, <2>2, <2>3, <2>4, <2>5
<1>3. Nat \subseteq S
  <2> HIDE DEF S
  <2> QED
    BY <1>1, <1>2, InductionOnSet
<1> QED
  BY <1>3

LEMMA FlattenIs ==
    ASSUME NEW s, NEW n \in Nat, n # 0, Len(s) = n
    PROVE  \E f : Flattens(f, s, n) /\ FlattenSeq(s) = f[n]
<1> DEFINE c == CHOOSE f : Flattens(f, s, n)
<1>1. Flattens(c, s, n)
  BY FlattensExist
<1>2. FlattenSeq(s) = c[n]
  BY DEF FlattenSeq, Flattens
<1> QED
  BY <1>1, <1>2

\* What one message more on the wire makes of its bytes.
LEMMA FlattenMore ==
    ASSUME NEW s, NEW t, NEW n \in Nat, n # 0, Len(s) = n, Len(t) = n + 1,
           \A i \in 1 .. n : s[i] = t[i]
    PROVE  FlattenSeq(t) = FlattenSeq(s) \o t[n + 1]
<1>1. PICK f : Flattens(f, s, n) /\ FlattenSeq(s) = f[n]
  BY FlattenIs
<1>2. PICK m \in Nat : m = n + 1 /\ m # 0 /\ m # 1 /\ m - 1 = n /\ n <= m
  OBVIOUS
<1>3. PICK g : Flattens(g, t, m) /\ FlattenSeq(t) = g[m]
  BY <1>2, FlattenIs
<1>4. f[n] = g[n]
  <2>1. n \in 1 .. n
    OBVIOUS
  <2> QED
    BY <1>1, <1>2, <1>3, <2>1, FlattensAgree
<1>5. g[m] = g[n] \o t[m]
  <2>1. m \in 1 .. m
    BY <1>2
  <2>2. g[m] = IF m = 1 THEN t[m] ELSE g[m - 1] \o t[m]
    BY <1>3, <2>1 DEF Flattens
  <2> QED
    BY <1>2, <2>2
<1> QED
  BY <1>1, <1>2, <1>3, <1>4, <1>5

-----------------------------------------------------------------------------
(* The messages: what the reflector writes is what the client reads.       *)

LEMMA Joined ==
    ASSUME NEW s \in Bytes, NEW t \in Bytes
    PROVE  /\ s \o t \in Bytes /\ Len(s \o t) = Len(s) + Len(t)
           /\ Len(s) \in Nat /\ Len(t) \in Nat
           /\ \A i \in 1 .. Len(s) : (s \o t)[i] = s[i]
           /\ \A i \in 1 .. Len(t) : (s \o t)[Len(s) + i] = t[i]
BY DEF Bytes

LEMMA Pairs ==
    ASSUME NEW a, NEW b, NEW c, NEW d
    PROVE  <<a, b>> \o <<c, d>> = <<a, b, c, d>>
<1> DEFINE S == {a, b, c, d}
           s == <<a, b>> \o <<c, d>>
           t == <<a, b, c, d>>
<1>1. s \in Seq(S) /\ t \in Seq(S) /\ Len(s) = 4 /\ Len(t) = 4
  OBVIOUS
<1>2. s[1] = t[1] /\ s[2] = t[2] /\ s[3] = t[3] /\ s[4] = t[4]
  OBVIOUS
<1> HIDE DEF S, s, t
<1>3. \A i \in 1 .. 4 : s[i] = t[i]
  BY <1>2
<1>4. s = t
  BY <1>1, <1>3, SeqEqual
<1> QED
  BY <1>4 DEF s, t

LEMMA ThreePairs ==
    ASSUME NEW a, NEW b, NEW c, NEW d, NEW e, NEW f
    PROVE  <<a, b>> \o <<c, d>> \o <<e, f>> = <<a, b, c, d, e, f>>
<1> DEFINE S == {a, b, c, d, e, f}
           s == <<a, b, c, d>> \o <<e, f>>
           t == <<a, b, c, d, e, f>>
<1>1. s \in Seq(S) /\ t \in Seq(S) /\ Len(s) = 6 /\ Len(t) = 6
  OBVIOUS
<1>2. s[1] = t[1] /\ s[2] = t[2] /\ s[3] = t[3] /\ s[4] = t[4] /\ s[5] = t[5] /\ s[6] = t[6]
  OBVIOUS
<1> HIDE DEF S, s, t
<1>3. \A i \in 1 .. 6 : s[i] = t[i]
  BY <1>2
<1>4. s = t
  BY <1>1, <1>3, SeqEqual
<1> QED
  BY <1>4, Pairs DEF s, t

LEMMA U16Known ==
    /\ U16(10) = <<0, 10>> /\ U16(100) = <<0, 100>> /\ U16(13) = <<0, 13>>
    /\ U16(0) = <<0, 0>> /\ U16(2) = <<0, 2>> /\ U16(257) = <<1, 1>>
BY DEF U16

LEMMA U16Bytes ==
    ASSUME NEW n \in Nat, n < 65536
    PROVE  /\ U16(n) \in Bytes /\ Len(U16(n)) = 2
           /\ 256 * U16(n)[1] + U16(n)[2] = n
<1>1. n \div 256 \in 0 .. 255
  BY SMT
<1>2. n % 256 \in 0 .. 255
  BY SMT
<1>3. n = 256 * (n \div 256) + (n % 256)
  BY SMT
<1> QED
  BY <1>1, <1>2, <1>3, SMT DEF U16, Bytes

LEMMA TwoJoined ==
    ASSUME NEW h \in Nat, NEW l \in Nat, NEW s \in Bytes, NEW t \in Bytes,
           Len(s) = 2, Len(t) = 2, 256 * s[1] + s[2] = h, 256 * t[1] + t[2] = l
    PROVE  /\ s \o t \in Bytes /\ Len(s \o t) = 4
           /\ ReadUInt16(s \o t, 0) = h /\ ReadUInt16(s \o t, 2) = l
<1> DEFINE u == s \o t
<1>1. /\ u \in Bytes /\ Len(u) = 2 + 2
      /\ \A i \in 1 .. 2 : u[i] = s[i]
      /\ \A i \in 1 .. 2 : u[2 + i] = t[i]
  <2>1. /\ u \in Bytes /\ Len(u) = Len(s) + Len(t)
        /\ \A i \in 1 .. Len(s) : u[i] = s[i]
        /\ \A i \in 1 .. Len(t) : u[Len(s) + i] = t[i]
    BY Joined, Zenon
  <2> HIDE DEF u
  <2> QED
    BY <2>1
<1> HIDE DEF u
<1>2. u[1] = s[1] /\ u[2] = s[2] /\ u[3] = t[1] /\ u[4] = t[2]
  <2>1. 1 \in 1 .. 2 /\ 2 \in 1 .. 2 /\ 2 + 1 = 3 /\ 2 + 2 = 4
    OBVIOUS
  <2> QED
    BY <1>1, <2>1
<1>3. ReadUInt16(u, 0) = h /\ ReadUInt16(u, 2) = l
  BY <1>2 DEF ReadUInt16
<1>4. Len(u) = 4
  BY <1>1
<1> QED
  BY <1>1, <1>3, <1>4 DEF u

LEMMA U32Bytes ==
    ASSUME NEW n \in Nat, n <= 2147483647
    PROVE  U32(n) \in Bytes /\ Len(U32(n)) = 4 /\ ReadUInt32(U32(n), 0) = n
<1>1. PICK h \in Nat : h = n \div 65536 /\ h < 65536
  BY SMT
<1>2. PICK l \in Nat : l = n % 65536 /\ l < 65536
  BY SMT
<1>3. n = 65536 * h + l
  BY <1>1, <1>2, SMT
<1>4. PICK s \in Bytes : s = U16(h) /\ Len(s) = 2 /\ 256 * s[1] + s[2] = h
  BY <1>1, U16Bytes, SMT
<1>5. PICK t \in Bytes : t = U16(l) /\ Len(t) = 2 /\ 256 * t[1] + t[2] = l
  BY <1>2, U16Bytes, SMT
<1>6. U32(n) = s \o t
  BY <1>1, <1>2, <1>4, <1>5, SMT DEF U32
<1>7. /\ s \o t \in Bytes /\ Len(s \o t) = 4
      /\ ReadUInt16(s \o t, 0) = h /\ ReadUInt16(s \o t, 2) = l
  BY <1>4, <1>5, TwoJoined, SMT
<1>8. ReadUInt32(s \o t, 0) = n
  BY <1>3, <1>7, SMT DEF ReadUInt32
<1> QED
  BY <1>6, <1>7, <1>8, SMT

\* The payloads, byte by byte.
LEMMA Payloads ==
    ASSUME NEW m \in Messages, m.type # "TOO_LARGE"
    PROVE  \/ m = [type |-> "AUTH_CHALLENGE", body |-> <<1, 0>>]
              /\ Payload(m) = <<0, 10, 0, 2, 1, 0>>
           \/ m = [type |-> "SERVER_INFO", body |-> <<257>>]
              /\ Payload(m) = <<0, 100, 0, 0, 1, 1>>
           \/ m = [type |-> "ERROR", body |-> <<>>] /\ Payload(m) = <<0, 13, 0, 0>>
           \/ m = [type |-> "IGNORED", body |-> <<>>] /\ Payload(m) = <<>>
           \/ m = [type |-> "IGNORED", body |-> <<0, 1>>] /\ Payload(m) = <<0, 1>>
           \/ m = [type |-> "MALFORMED", body |-> <<0, 10, 0, 2, 1>>]
              /\ Payload(m) = <<0, 10, 0, 2, 1>>
<1>1. CASE m = [type |-> "AUTH_CHALLENGE", body |-> <<1, 0>>]
  <2>1. Payload(m) = U16(10) \o U16(2) \o <<1, 0>>
    <3>1. m.type = "AUTH_CHALLENGE" /\ m.body = <<1, 0>> /\ Len(<<1, 0>>) = 2
      BY <1>1
    <3> QED
      BY <3>1 DEF Payload
  <2>2. Payload(m) = <<0, 10, 0, 2, 1, 0>>
    <3>1. <<0, 10>> \o <<0, 2>> \o <<1, 0>> = <<0, 10, 0, 2, 1, 0>>
      BY ThreePairs, SMT
    <3> QED
      BY <2>1, <3>1, U16Known
  <2> QED
    BY <1>1, <2>2
<1>2. CASE m = [type |-> "SERVER_INFO", body |-> <<257>>]
  <2>1. Payload(m) = U16(100) \o U16(0) \o U16(257)
    <3>1. m.type = "SERVER_INFO" /\ m.body[1] = 257
      BY <1>2
    <3> QED
      BY <3>1 DEF Payload
  <2>2. Payload(m) = <<0, 100, 0, 0, 1, 1>>
    <3>1. <<0, 100>> \o <<0, 0>> \o <<1, 1>> = <<0, 100, 0, 0, 1, 1>>
      BY ThreePairs, SMT
    <3> QED
      BY <2>1, <3>1, U16Known
  <2> QED
    BY <1>2, <2>2
<1>3. CASE m = [type |-> "ERROR", body |-> <<>>]
  <2>1. Payload(m) = U16(13) \o U16(0)
    BY <1>3 DEF Payload
  <2>2. <<0, 13>> \o <<0, 0>> = <<0, 13, 0, 0>>
    BY Pairs, Zenon
  <2> QED
    BY <1>3, <2>1, <2>2, U16Known
<1>4. CASE m = [type |-> "IGNORED", body |-> <<>>]
  BY <1>4 DEF Payload
<1>5. CASE m = [type |-> "IGNORED", body |-> <<0, 1>>]
  BY <1>5 DEF Payload
<1>6. CASE m = [type |-> "MALFORMED", body |-> <<0, 10, 0, 2, 1>>]
  BY <1>6 DEF Payload
<1> QED
  BY <1>1, <1>2, <1>3, <1>4, <1>5, <1>6 DEF Messages

LEMMA PayloadBytes ==
    ASSUME NEW m \in Messages, m.type # "TOO_LARGE"
    PROVE  Payload(m) \in Bytes /\ Len(Payload(m)) \in 0 .. 6
<1>1. /\ <<0, 10, 0, 2, 1, 0>> \in Bytes /\ Len(<<0, 10, 0, 2, 1, 0>>) = 6
      /\ <<0, 100, 0, 0, 1, 1>> \in Bytes /\ Len(<<0, 100, 0, 0, 1, 1>>) = 6
  BY DEF Bytes
<1>2. /\ <<0, 13, 0, 0>> \in Bytes /\ Len(<<0, 13, 0, 0>>) = 4
      /\ <<>> \in Bytes /\ Len(<<>>) = 0
      /\ <<0, 1>> \in Bytes /\ Len(<<0, 1>>) = 2
      /\ <<0, 10, 0, 2, 1>> \in Bytes /\ Len(<<0, 10, 0, 2, 1>>) = 5
  BY DEF Bytes
<1>3. /\ 6 \in 0 .. 6 /\ 4 \in 0 .. 6 /\ 0 \in 0 .. 6 /\ 2 \in 0 .. 6 /\ 5 \in 0 .. 6
  OBVIOUS
<1> QED
  BY <1>1, <1>2, <1>3, Payloads, Zenon

\* A counted field of two bytes, at the end of a payload of six or of five.
LEMMA FieldIs ==
    ASSUME NEW a, NEW b, NEW c, NEW d
    PROVE  /\ Field(<<a, b, 0, 2, c, d>>) = <<c, d>>
           /\ Field(<<a, b, 0, 2, c>>) = <<c>>
<1>1. SubSeq(<<a, b, 0, 2, c, d>>, 5, 6) = <<c, d>>
  <2> DEFINE S == {a, b, c, d, 0, 2}
             s == SubSeq(<<a, b, 0, 2, c, d>>, 5, 6)
             t == <<c, d>>
  <2>1. s \in Seq(S) /\ t \in Seq(S) /\ Len(s) = 2 /\ Len(t) = 2
    OBVIOUS
  <2>2. s[1] = t[1] /\ s[2] = t[2]
    OBVIOUS
  <2> HIDE DEF S, s, t
  <2>3. s = t
    BY <2>1, <2>2, SeqEqual
  <2> QED
    BY <2>3 DEF s, t
<1>2. SubSeq(<<a, b, 0, 2, c>>, 5, 5) = <<c>>
  <2> DEFINE S == {a, b, c, 0, 2}
             s == SubSeq(<<a, b, 0, 2, c>>, 5, 5)
             t == <<c>>
  <2>1. s \in Seq(S) /\ t \in Seq(S) /\ Len(s) = 1 /\ Len(t) = 1
    OBVIOUS
  <2>2. s[1] = t[1]
    OBVIOUS
  <2> HIDE DEF S, s, t
  <2>3. s = t
    BY <2>1, <2>2, SeqEqual
  <2> QED
    BY <2>3 DEF s, t
<1>3. ReadUInt16(<<a, b, 0, 2, c, d>>, 2) = 2 /\ ReadUInt16(<<a, b, 0, 2, c>>, 2) = 2
  BY DEF ReadUInt16
<1>4. Len(<<a, b, 0, 2, c, d>>) = 6 /\ Len(<<a, b, 0, 2, c>>) = 5
  OBVIOUS
<1> QED
  BY <1>1, <1>2, <1>3, <1>4 DEF Field

LEMMA MessagesReadBack ==
    ASSUME NEW m \in Messages, m.type # "TOO_LARGE"
    PROVE  HandleTcpPayload(Payload(m)) = m
<1> USE DEF HandleTcpPayload
<1>1. CASE /\ m = [type |-> "AUTH_CHALLENGE", body |-> <<1, 0>>]
           /\ Payload(m) = <<0, 10, 0, 2, 1, 0>>
  <2> DEFINE p == <<0, 10, 0, 2, 1, 0>>
  <2>0. Payload(m) = p
    BY <1>1
  <2>1. ReadUInt16(p, 0) = 10 /\ ReadUInt16(p, 2) = 2 /\ Len(p) = 6
    BY DEF ReadUInt16
  <2>2. Field(p) = <<1, 0>> /\ Len(<<1, 0>>) = 2
    BY FieldIs
  <2> HIDE DEF p
  <2>3. AuthChallenge(p) = m
    BY <1>1, <2>1, <2>2 DEF AuthChallenge
  <2> QED
    BY <2>0, <2>1, <2>3
<1>2. CASE /\ m = [type |-> "SERVER_INFO", body |-> <<257>>]
           /\ Payload(m) = <<0, 100, 0, 0, 1, 1>>
  <2> DEFINE p == <<0, 100, 0, 0, 1, 1>>
  <2>0. Payload(m) = p
    BY <1>2
  <2>1. ReadUInt16(p, 0) = 100 /\ ReadUInt16(p, 4) = 257 /\ Len(p) = 6
    BY DEF ReadUInt16
  <2> HIDE DEF p
  <2>2. ServerInfo(p) = m
    BY <1>2, <2>1 DEF ServerInfo
  <2> QED
    BY <2>0, <2>1, <2>2
<1>3. CASE /\ m = [type |-> "ERROR", body |-> <<>>]
           /\ Payload(m) = <<0, 13, 0, 0>>
  <2> DEFINE p == <<0, 13, 0, 0>>
  <2>0. Payload(m) = p
    BY <1>3
  <2>1. ReadUInt16(p, 0) = 13 /\ ReadUInt16(p, 2) = 0 /\ Len(p) = 4
    BY DEF ReadUInt16
  <2>2. SubSeq(p, 5, 4) = <<>>
    BY SubSeqEmpty
  <2> HIDE DEF p
  <2>3. Error(p) = m
    BY <1>3, <2>1, <2>2 DEF Error, Field
  <2> QED
    BY <2>0, <2>1, <2>3
<1>4. CASE /\ m = [type |-> "IGNORED", body |-> <<>>]
           /\ Payload(m) = <<>>
  BY <1>4 DEF Ignored
<1>5. CASE /\ m = [type |-> "IGNORED", body |-> <<0, 1>>]
           /\ Payload(m) = <<0, 1>>
  <2> DEFINE p == <<0, 1>>
  <2>0. Payload(m) = p
    BY <1>5
  <2>1. ReadUInt16(p, 0) = 1 /\ Len(p) = 2
    BY DEF ReadUInt16
  <2> HIDE DEF p
  <2>2. Ignored(p) = m
    BY <1>5 DEF Ignored, p
  <2> QED
    BY <2>0, <2>1, <2>2
<1>6. CASE /\ m = [type |-> "MALFORMED", body |-> <<0, 10, 0, 2, 1>>]
           /\ Payload(m) = <<0, 10, 0, 2, 1>>
  <2> DEFINE p == <<0, 10, 0, 2, 1>>
  <2>0. Payload(m) = p
    BY <1>6
  <2>1. ReadUInt16(p, 0) = 10 /\ ReadUInt16(p, 2) = 2 /\ Len(p) = 5
    BY DEF ReadUInt16
  <2>2. Field(p) = <<1>> /\ Len(<<1>>) = 1
    BY FieldIs
  <2>3. m = [type |-> "MALFORMED", body |-> p]
    BY <1>6
  <2> HIDE DEF p
  <2>4. AuthChallenge(p) = m
    BY <2>1, <2>2, <2>3 DEF AuthChallenge
  <2> QED
    BY <2>0, <2>1, <2>4
<1> HIDE DEF HandleTcpPayload
<1> QED
  BY <1>1, <1>2, <1>3, <1>4, <1>5, <1>6, Payloads

\* A frame: its length, and behind it what it is the length of.
LEMMA WireIs ==
    ASSUME NEW m \in Messages
    PROVE  /\ Wire(m) \in Bytes /\ Len(Wire(m)) \in Nat /\ Len(Wire(m)) >= 4
           /\ m.type = "TOO_LARGE" =>
                Len(Wire(m)) = 4 /\ ReadUInt32(Wire(m), 0) > MaxFrame
           /\ m.type # "TOO_LARGE" =>
                /\ Len(Wire(m)) = 4 + Len(Payload(m))
                /\ ReadUInt32(Wire(m), 0) = Len(Payload(m))
                /\ Len(Payload(m)) \in Nat /\ Len(Payload(m)) <= MaxFrame
                /\ \A i \in 1 .. Len(Payload(m)) : Wire(m)[4 + i] = Payload(m)[i]
<1>1. CASE m.type = "TOO_LARGE"
  <2>1. PICK n \in Nat : n = MaxFrame + 1 /\ n <= 2147483647 /\ n > MaxFrame
    BY FramesAssumption, SMT
  <2>2. U32(n) \in Bytes /\ Len(U32(n)) = 4 /\ ReadUInt32(U32(n), 0) = n
    BY <2>1, U32Bytes, SMT
  <2>3. Wire(m) = U32(n)
    BY <1>1, <2>1, SMT DEF Wire
  <2>4. /\ Wire(m) \in Bytes /\ Len(Wire(m)) = 4
        /\ ReadUInt32(Wire(m), 0) > MaxFrame
    BY <2>1, <2>2, <2>3, SMT
  <2>5. 4 \in Nat /\ 4 >= 4
    OBVIOUS
  <2> QED
    BY <1>1, <2>4, <2>5, Zenon
<1>2. CASE m.type # "TOO_LARGE"
  <2>1. PICK p \in Bytes : p = Payload(m) /\ Len(p) \in 0 .. 6
    BY <1>2, PayloadBytes
  <2>2. PICK n \in 0 .. 6 : n = Len(p)
    BY <2>1, Zenon
  <2>2a. n \in Nat /\ n <= MaxFrame /\ n <= 2147483647
    BY FramesAssumption, SMT
  <2>3. PICK h \in Bytes : h = U32(n) /\ Len(h) = 4 /\ ReadUInt32(h, 0) = n
    BY <2>2a, U32Bytes, SMT
  <2>4. Wire(m) = h \o p
    BY <1>2, <2>1, <2>2, <2>3, SMT DEF Wire
  <2>5. /\ h \o p \in Bytes /\ Len(h \o p) = Len(h) + Len(p)
        /\ \A i \in 1 .. Len(h) : (h \o p)[i] = h[i]
        /\ \A i \in 1 .. Len(p) : (h \o p)[Len(h) + i] = p[i]
    BY <2>1, <2>3, Joined, Zenon
  <2>6. ReadUInt32(h \o p, 0) = ReadUInt32(h, 0)
    BY <2>3, <2>5, SMT DEF ReadUInt32, ReadUInt16
  <2> QED
    BY <1>2, <2>1, <2>2, <2>2a, <2>3, <2>4, <2>5, <2>6, SMT
<1> QED
  BY <1>1, <1>2

-----------------------------------------------------------------------------
(* The stream: the wires of the first n messages, and where each begins.   *)

Prefix(messages, n) == FlattenSeq([i \in 1 .. n |-> Wire(messages[i])])
End(messages, n) == Len(Prefix(messages, n))

LEMMA PrefixNone ==
    ASSUME NEW ms
    PROVE  Prefix(ms, 0) = <<>>
<1> DEFINE s == [i \in 1 .. 0 |-> Wire(ms[i])]
<1>1. s = <<>>
  OBVIOUS
<1>2. Len(s) = 0
  BY <1>1
<1> QED
  BY <1>1, <1>2 DEF Prefix, FlattenSeq

LEMMA PrefixMore ==
    ASSUME NEW ms \in Seq(Messages), NEW n \in Nat, n < Len(ms), Prefix(ms, n) \in Bytes
    PROVE  Prefix(ms, n + 1) = Prefix(ms, n) \o Wire(ms[n + 1])
<1> DEFINE s == [i \in 1 .. n |-> Wire(ms[i])]
           t == [i \in 1 .. n + 1 |-> Wire(ms[i])]
<1>1. Len(s) = n /\ Len(t) = n + 1 /\ \A i \in 1 .. n : s[i] = t[i]
  OBVIOUS
<1>2. t[n + 1] = Wire(ms[n + 1])
  OBVIOUS
<1>3. Prefix(ms, n) = FlattenSeq(s) /\ Prefix(ms, n + 1) = FlattenSeq(t)
  BY DEF Prefix
<1> HIDE DEF s, t
<1>4. CASE n # 0
  <2>1. FlattenSeq(t) = FlattenSeq(s) \o t[n + 1]
    BY <1>1, <1>4, FlattenMore
  <2> QED
    BY <1>2, <1>3, <2>1
<1>5. CASE n = 0
  <2>1. Len(t) = 1
    BY <1>1, <1>5
  <2>2. \E f : Flattens(f, t, 1) /\ FlattenSeq(t) = f[1]
    <3>1. 1 \in Nat /\ 1 # 0
      OBVIOUS
    <3> QED
      BY <2>1, <3>1, FlattenIs, Zenon
  <2>3. FlattenSeq(t) = t[1]
    BY <2>2 DEF Flattens
  <2>4. ms[1] \in Messages
    BY <1>5
  <2>5. <<>> \o Wire(ms[1]) = Wire(ms[1])
    BY <2>4, WireIs, ConcatEmptySeq DEF Bytes
  <2>6. Prefix(ms, n) = <<>>
    BY <1>5, PrefixNone
  <2>7. n + 1 = 1
    BY <1>5
  <2>8. Prefix(ms, n + 1) = Wire(ms[1])
    BY <1>2, <1>3, <2>3, <2>7
  <2> QED
    BY <2>5, <2>6, <2>7, <2>8
<1> QED
  BY <1>4, <1>5

LEMMA PrefixBytes ==
    ASSUME NEW ms \in Seq(Messages), NEW n \in Nat, n <= Len(ms)
    PROVE  Prefix(ms, n) \in Bytes /\ End(ms, n) \in Nat
<1> DEFINE S == {k \in Nat : k <= Len(ms) => Prefix(ms, k) \in Bytes}
<1>1. 0 \in S
  <2>1. Prefix(ms, 0) \in Bytes
    <3>1. <<>> \in Bytes
      BY DEF Bytes
    <3> QED
      BY <3>1, PrefixNone
  <2> QED
    BY <2>1
<1>2. ASSUME NEW k \in Nat, k \in S
      PROVE  k + 1 \in S
  <2> SUFFICES ASSUME k + 1 <= Len(ms)
               PROVE  Prefix(ms, k + 1) \in Bytes
    OBVIOUS
  <2>1. k < Len(ms) /\ Prefix(ms, k) \in Bytes /\ ms[k + 1] \in Messages
    BY <1>2
  <2>2. Prefix(ms, k + 1) = Prefix(ms, k) \o Wire(ms[k + 1])
    BY <2>1, PrefixMore
  <2>3. Wire(ms[k + 1]) \in Bytes
    BY <2>1, WireIs
  <2> QED
    BY <2>1, <2>2, <2>3, Joined
<1>3. Nat \subseteq S
  <2> HIDE DEF S
  <2> QED
    BY <1>1, <1>2, InductionOnSet
<1>4. Prefix(ms, n) \in Bytes
  BY <1>3
<1> QED
  BY <1>4 DEF End, Bytes

\* Where the next message begins, and what is there.
LEMMA NextWire ==
    ASSUME NEW ms \in Seq(Messages), NEW n \in Nat, n < Len(ms)
    PROVE  /\ End(ms, n + 1) = End(ms, n) + Len(Wire(ms[n + 1]))
           /\ \A i \in 1 .. End(ms, n) : Prefix(ms, n + 1)[i] = Prefix(ms, n)[i]
           /\ \A i \in 1 .. Len(Wire(ms[n + 1])) :
                 Prefix(ms, n + 1)[End(ms, n) + i] = Wire(ms[n + 1])[i]
<1>1. PICK p \in Bytes : p = Prefix(ms, n)
  BY PrefixBytes
<1>2. PICK w \in Bytes : w = Wire(ms[n + 1])
  <2>1. ms[n + 1] \in Messages
    OBVIOUS
  <2> QED
    BY <2>1, WireIs
<1>3. PICK q : q = Prefix(ms, n + 1)
  OBVIOUS
<1>4. q = p \o w
  BY <1>1, <1>2, <1>3, PrefixMore
<1>5. /\ Len(q) = Len(p) + Len(w)
      /\ \A i \in 1 .. Len(p) : q[i] = p[i]
      /\ \A i \in 1 .. Len(w) : q[Len(p) + i] = w[i]
  BY <1>4, Joined
<1> QED
  BY <1>1, <1>2, <1>3, <1>5 DEF End

\* What has been sent stays where it is.
LEMMA PrefixStays ==
    ASSUME NEW ms \in Seq(Messages), NEW n \in Nat, NEW m \in Nat, n <= m, m <= Len(ms)
    PROVE  /\ End(ms, n) <= End(ms, m)
           /\ \A i \in 1 .. End(ms, n) : Prefix(ms, m)[i] = Prefix(ms, n)[i]
<1> DEFINE Stays(k) == /\ End(ms, n) <= End(ms, k)
                       /\ \A i \in 1 .. End(ms, n) : Prefix(ms, k)[i] = Prefix(ms, n)[i]
           S == {k \in Nat : n <= k /\ k <= Len(ms) => Stays(k)}
<1>1. End(ms, n) \in Nat
  BY PrefixBytes
<1>2. 0 \in S
  BY <1>1
<1>3. ASSUME NEW k \in Nat, k \in S
      PROVE  k + 1 \in S
  <2> SUFFICES ASSUME n <= k + 1, k + 1 <= Len(ms)
               PROVE  Stays(k + 1)
    OBVIOUS
  <2>1. CASE n = k + 1
    BY <1>1, <2>1
  <2>2. CASE n <= k
    <3>1. Stays(k) /\ k < Len(ms)
      BY <1>3, <2>2
    <3>2. PICK e \in Nat : e = End(ms, k)
      BY <3>1, PrefixBytes
    <3>3. PICK l \in Nat : l = Len(Wire(ms[k + 1]))
      <4>1. ms[k + 1] \in Messages
        BY <3>1
      <4> QED
        BY <4>1, WireIs
    <3>4. /\ End(ms, k + 1) = e + l
          /\ \A i \in 1 .. e : Prefix(ms, k + 1)[i] = Prefix(ms, k)[i]
      BY <3>1, <3>2, <3>3, NextWire
    <3> QED
      BY <1>1, <3>1, <3>2, <3>4
  <2> QED
    BY <2>1, <2>2
<1>4. Nat \subseteq S
  <2> HIDE DEF S
  <2> QED
    BY <1>2, <1>3, InductionOnSet
<1>5. m \in S
  BY <1>4
<1> QED
  BY <1>5

\* A message on its way does not disturb those before it.
LEMMA PrefixOfLonger ==
    ASSUME NEW ms \in Seq(Messages), NEW m \in Messages, NEW n \in Nat, n <= Len(ms)
    PROVE  Prefix(Append(ms, m), n) = Prefix(ms, n)
<1> DEFINE s == [i \in 1 .. n |-> Wire(ms[i])]
           t == [i \in 1 .. n |-> Wire(Append(ms, m)[i])]
<1>1. \A i \in 1 .. n : Append(ms, m)[i] = ms[i]
  OBVIOUS
<1>2. s = t
  BY <1>1
<1> QED
  BY <1>2 DEF Prefix

-----------------------------------------------------------------------------
(* The loop.  Each turn looks at the frame in front only, and what is left *)
(* behind it is shorter: Cut is defined, and is what its equation says.    *)

\* How long the frame in front says it is, and what comes behind it.
Size(bytes) == ReadUInt32(bytes, 0)
Behind(bytes) == SubSeq(bytes, 5 + Size(bytes), Len(bytes))

\* One turn of the loop, and f for the turns after it.
Turn(f, bytes) ==
    IF Len(bytes) < 4 THEN Kept(bytes)
    ELSE LET size == ReadUInt32(bytes, 0)
         IN IF size > MaxFrame THEN [Kept(bytes) EXCEPT !.tooLarge = TRUE]
            ELSE IF Len(bytes) < 4 + size THEN Kept(bytes)
            ELSE [f[SubSeq(bytes, 5 + size, Len(bytes))] EXCEPT !.messages =
                    <<HandleTcpPayload(SubSeq(bytes, 5, 4 + size))>> \o @]

Short(n) == {bytes \in Bytes : Len(bytes) <= n}
Cuts(f, n) == f = [bytes \in Short(n) |-> Turn(f, bytes)]

LEMMA SizeIsNat ==
    ASSUME NEW b \in Bytes, Len(b) >= 4
    PROVE  Len(b) \in Nat /\ Size(b) \in Nat
<1>1. Len(b) \in Nat
  BY DEF Bytes
<1>2. ASSUME NEW i \in 1 .. Len(b)
      PROVE  b[i] \in Nat
  <2>1. b[i] \in 0 .. 255
    BY ElementOfSeq DEF Bytes
  <2>2. 0 .. 255 \subseteq Nat
    OBVIOUS
  <2> QED
    BY <2>1, <2>2, Zenon
<1>3. 1 \in 1 .. Len(b) /\ 2 \in 1 .. Len(b) /\ 3 \in 1 .. Len(b) /\ 4 \in 1 .. Len(b)
  BY <1>1
<1>4. PICK w \in Nat, x \in Nat, y \in Nat, z \in Nat :
        b[1] = w /\ b[2] = x /\ b[3] = y /\ b[4] = z
  BY <1>2, <1>3
<1>5. ReadUInt16(b, 0) \in Nat
  BY <1>4 DEF ReadUInt16
<1>6. ReadUInt16(b, 2) \in Nat
  BY <1>4 DEF ReadUInt16
<1>7. ReadUInt16(b, 0 + 2) = ReadUInt16(b, 2)
  OBVIOUS
<1>8. Size(b) \in Nat
  BY <1>5, <1>6, <1>7, SMT DEF Size, ReadUInt32
<1> QED
  BY <1>1, <1>8

LEMMA BehindIsShorter ==
    ASSUME NEW b \in Bytes, Len(b) >= 4, Len(b) >= 4 + Size(b)
    PROVE  Behind(b) \in Bytes /\ Len(Behind(b)) < Len(b)
<1>1. PICK k \in Nat : k = Size(b)
  BY SizeIsNat
<1>2. Behind(b) = SubSeq(b, 5 + k, Len(b))
  BY <1>1 DEF Behind
<1>3. SubSeq(b, 5 + k, Len(b)) \in Bytes /\ Len(SubSeq(b, 5 + k, Len(b))) < Len(b)
  <2>1. Len(b) \in Nat /\ Len(b) >= 4 + k
    BY <1>1 DEF Bytes
  <2>2. PICK m \in Int, n \in Int : m = 5 + k /\ n = Len(b)
    BY <2>1
  <2>3. ASSUME NEW i \in m .. n
        PROVE  b[i] \in 0 .. 255
    <3>1. i \in 1 .. Len(b)
      BY <2>2
    <3> QED
      BY <3>1, ElementOfSeq DEF Bytes
  <2>4. /\ SubSeq(b, m, n) \in Seq(0 .. 255)
        /\ Len(SubSeq(b, m, n)) = IF m <= n THEN n - m + 1 ELSE 0
    BY <2>3, SubSeqProperties
  <2>5. (IF m <= n THEN n - m + 1 ELSE 0) < n
    BY <2>1, <2>2
  <2> QED
    BY <2>2, <2>4, <2>5, Zenon DEF Bytes
<1> QED
  BY <1>2, <1>3

LEMMA TurnLooksBehind ==
    ASSUME NEW f, NEW g, NEW b \in Bytes,
           Len(b) >= 4 /\ Len(b) >= 4 + Size(b) => f[Behind(b)] = g[Behind(b)]
    PROVE  Turn(f, b) = Turn(g, b)
<1>1. CASE Len(b) >= 4 /\ Len(b) >= 4 + Size(b)
  BY <1>1, Zenon DEF Turn, Size, Behind
<1>2. CASE Len(b) < 4
  BY <1>2, Zenon DEF Turn
<1>3. CASE ~(Len(b) < 4) /\ Len(b) < 4 + Size(b)
  BY <1>3, Zenon DEF Turn, Size
<1> QED
  BY <1>1, <1>2, <1>3, SizeIsNat DEF Bytes

LEMMA CutsExist ==
    ASSUME NEW n \in Nat
    PROVE  \E f : Cuts(f, n)
<1> DEFINE S == {m \in Nat : \E f : Cuts(f, m)}
<1>1. 0 \in S
  <2> DEFINE f == [b \in Short(0) |-> Kept(b)]
  <2>1. ASSUME NEW b \in Short(0)
        PROVE  Kept(b) = Turn(f, b)
    <3>1. Len(b) < 4
      BY DEF Short, Bytes
    <3> QED
      BY <3>1, Zenon DEF Turn
  <2>2. Cuts(f, 0)
    BY <2>1, Zenon DEF Cuts
  <2> QED
    BY <2>2
<1>2. ASSUME NEW m \in Nat, m \in S
      PROVE  m + 1 \in S
  <2>1. PICK f : Cuts(f, m)
    BY <1>2
  <2> DEFINE g == [b \in Short(m + 1) |-> Turn(f, b)]
  <2>2. ASSUME NEW b \in Short(m + 1)
        PROVE  Turn(f, b) = Turn(g, b)
    <3>1. b \in Bytes /\ Len(b) \in Nat /\ Len(b) <= m + 1
      BY DEF Short, Bytes
    <3>2. ASSUME Len(b) >= 4 /\ Len(b) >= 4 + Size(b)
          PROVE  f[Behind(b)] = g[Behind(b)]
      <4>1. Behind(b) \in Bytes /\ Len(Behind(b)) < Len(b)
        BY <3>1, <3>2, BehindIsShorter
      <4>2. PICK c \in Bytes : c = Behind(b) /\ Len(c) < Len(b)
        BY <4>1
      <4>3. Len(c) \in Nat /\ Len(c) <= m /\ Len(c) <= m + 1
        BY <3>1, <4>2 DEF Bytes
      <4>4. c \in Short(m) /\ c \in Short(m + 1)
        BY <4>3 DEF Short
      <4>5. f[c] = Turn(f, c)
        BY <2>1, <4>4 DEF Cuts
      <4>6. g[c] = Turn(f, c)
        BY <4>4
      <4> QED
        BY <4>2, <4>5, <4>6
    <3> HIDE DEF g
    <3> QED
      BY <3>1, <3>2, TurnLooksBehind, Zenon
  <2>3. Cuts(g, m + 1)
    BY <2>2, Zenon DEF Cuts
  <2> QED
    BY <2>3
<1>3. Nat \subseteq S
  <2> HIDE DEF S
  <2> QED
    BY <1>1, <1>2, InductionOnSet
<1> QED
  BY <1>3

LEMMA CutsAgree ==
    ASSUME NEW f, NEW g, NEW n \in Nat, NEW m \in Nat, Cuts(f, n), Cuts(g, m),
           NEW b \in Bytes, Len(b) <= n, Len(b) <= m
    PROVE  f[b] = g[b]
<1> DEFINE S == {k \in Nat : \A c \in Bytes :
                    Len(c) <= k /\ Len(c) <= n /\ Len(c) <= m => f[c] = g[c]}
<1>1. ASSUME NEW c \in Bytes, Len(c) <= n, Len(c) <= m,
             Len(c) >= 4 /\ Len(c) >= 4 + Size(c) => f[Behind(c)] = g[Behind(c)]
      PROVE  f[c] = g[c]
  <2>1. c \in Short(n) /\ c \in Short(m)
    BY <1>1 DEF Short
  <2>2. f[c] = Turn(f, c) /\ g[c] = Turn(g, c)
    BY <2>1 DEF Cuts
  <2>3. Turn(f, c) = Turn(g, c)
    BY <1>1, TurnLooksBehind, Zenon
  <2> QED
    BY <2>2, <2>3
<1>2. 0 \in S
  <2>1. ASSUME NEW c \in Bytes, Len(c) <= 0, Len(c) <= n, Len(c) <= m
        PROVE  f[c] = g[c]
    <3>1. ~(Len(c) >= 4)
      BY <2>1 DEF Bytes
    <3> QED
      BY <1>1, <2>1, <3>1
  <2> QED
    BY <2>1
<1>3. ASSUME NEW k \in Nat, k \in S
      PROVE  k + 1 \in S
  <2>1. ASSUME NEW c \in Bytes, Len(c) <= k + 1, Len(c) <= n, Len(c) <= m
        PROVE  f[c] = g[c]
    <3>1. ASSUME Len(c) >= 4 /\ Len(c) >= 4 + Size(c)
          PROVE  f[Behind(c)] = g[Behind(c)]
      <4>1. Behind(c) \in Bytes /\ Len(Behind(c)) < Len(c)
        BY <3>1, BehindIsShorter
      <4>2. PICK d \in Bytes : d = Behind(c) /\ Len(d) < Len(c)
        BY <4>1
      <4>3. Len(d) <= k /\ Len(d) <= n /\ Len(d) <= m
        BY <2>1, <4>2 DEF Bytes
      <4>4. f[d] = g[d]
        BY <1>3, <4>3
      <4> QED
        BY <4>2, <4>4
    <3> QED
      BY <1>1, <2>1, <3>1
  <2> QED
    BY <2>1
<1>4. Nat \subseteq S
  <2> HIDE DEF S
  <2> QED
    BY <1>2, <1>3, InductionOnSet
<1>5. Len(b) \in Nat /\ Len(b) \in S /\ Len(b) <= Len(b)
  BY <1>4 DEF Bytes
<1> QED
  BY <1>5

\* The equation of the module holds.
LEMMA CutIs ==
    ASSUME NEW b \in Bytes
    PROVE  Cut[b] = Turn(Cut, b)
<1> DEFINE f(c) == CHOOSE g : Cuts(g, Len(c))
           h == [c \in Bytes |-> f(c)[c]]
<1>1. ASSUME NEW c \in Bytes
      PROVE  Len(c) \in Nat /\ Cuts(f(c), Len(c))
  <2>1. Len(c) \in Nat
    BY DEF Bytes
  <2>2. \E g : Cuts(g, Len(c))
    BY <2>1, CutsExist
  <2> QED
    BY <2>1, <2>2, Zenon
<1> HIDE DEF f
<1>2. ASSUME NEW c \in Bytes
      PROVE  h[c] = Turn(h, c)
  <2>1. Len(c) \in Nat /\ Cuts(f(c), Len(c))
    BY <1>1
  <2>2. c \in Short(Len(c))
    BY <2>1 DEF Short
  <2>3. h[c] = Turn(f(c), c)
    BY <2>1, <2>2 DEF Cuts
  <2>4. ASSUME Len(c) >= 4 /\ Len(c) >= 4 + Size(c)
        PROVE  f(c)[Behind(c)] = h[Behind(c)]
    <3>1. Behind(c) \in Bytes /\ Len(Behind(c)) < Len(c)
      BY <2>4, BehindIsShorter
    <3>2. PICK d \in Bytes : d = Behind(c) /\ Len(d) < Len(c)
      BY <3>1
    <3>3. Len(d) \in Nat /\ Cuts(f(d), Len(d)) /\ Len(d) <= Len(d) /\ Len(d) <= Len(c)
      BY <1>1, <2>1, <3>2
    <3>4. f(c)[d] = f(d)[d]
      BY <2>1, <3>3, CutsAgree
    <3> QED
      BY <3>2, <3>4
  <2> HIDE DEF h
  <2>5. Turn(f(c), c) = Turn(h, c)
    BY <2>4, TurnLooksBehind, Zenon
  <2> QED
    BY <2>3, <2>5
<1>3. h = [c \in Bytes |-> Turn(h, c)]
  BY <1>2, Zenon
<1> HIDE DEF h
<1>4. \E g : g = [c \in Bytes |-> Turn(g, c)]
  BY <1>3, Zenon
<1>5. Cut = CHOOSE g : g = [c \in Bytes |-> Turn(g, c)]
  BY Zenon DEF Cut, Turn, Bytes
<1>6. Cut = [c \in Bytes |-> Turn(Cut, c)]
  BY <1>4, <1>5, Zenon
<1> QED
  BY <1>6, Zenon

-----------------------------------------------------------------------------
(* One turn, on bytes of the stream.                                       *)

Results == [messages : Seq(Messages), rest : Bytes, tooLarge : BOOLEAN]

LEMMA KeptIs ==
    ASSUME NEW b \in Bytes
    PROVE  /\ Kept(b) \in Results
           /\ Kept(b).messages = <<>> /\ Kept(b).rest = b /\ Kept(b).tooLarge = FALSE
<1>1. <<>> \in Seq(Messages)
  OBVIOUS
<1> QED
  BY <1>1 DEF Kept, Results

LEMMA CutWaits ==
    ASSUME NEW b \in Bytes,
           Len(b) < 4 \/ (Len(b) >= 4 /\ Size(b) <= MaxFrame /\ Len(b) < 4 + Size(b))
    PROVE  Cut[b] = Kept(b)
<1>1. Cut[b] = Turn(Cut, b)
  BY CutIs
<1>2. CASE Len(b) < 4
  BY <1>1, <1>2, Zenon DEF Turn
<1>3. CASE Len(b) >= 4 /\ Size(b) <= MaxFrame /\ Len(b) < 4 + Size(b)
  <2>1. Size(b) \in Nat /\ Len(b) \in Nat /\ MaxFrame \in Nat
    BY <1>3, SizeIsNat, FramesAssumption
  <2>2. ~(Len(b) < 4) /\ ~(Size(b) > MaxFrame)
    BY <1>3, <2>1
  <2> QED
    BY <1>1, <1>3, <2>2, Zenon DEF Turn, Size
<1> QED
  BY <1>2, <1>3

LEMMA CutStops ==
    ASSUME NEW b \in Bytes, Len(b) >= 4, Size(b) > MaxFrame
    PROVE  Cut[b] \in Results /\ Cut[b].messages = <<>> /\ Cut[b].tooLarge = TRUE
<1>1. Cut[b] = Turn(Cut, b)
  BY CutIs
<1>2. ~(Len(b) < 4)
  BY SizeIsNat
<1>3. Cut[b] = [Kept(b) EXCEPT !.tooLarge = TRUE]
  BY <1>1, <1>2, Zenon DEF Turn, Size
<1>4. <<>> \in Seq(Messages)
  OBVIOUS
<1>5. Cut[b] = [messages |-> <<>>, rest |-> b, tooLarge |-> TRUE]
  BY <1>3 DEF Kept
<1> QED
  BY <1>4, <1>5 DEF Results

LEMMA CutGoesOn ==
    ASSUME NEW b \in Bytes, Len(b) >= 4, Size(b) <= MaxFrame, Len(b) >= 4 + Size(b),
           NEW m \in Messages, HandleTcpPayload(SubSeq(b, 5, 4 + Size(b))) = m,
           Cut[Behind(b)] \in Results
    PROVE  /\ Cut[b] \in Results
           /\ Cut[b].messages = <<m>> \o Cut[Behind(b)].messages
           /\ Cut[b].rest = Cut[Behind(b)].rest
           /\ Cut[b].tooLarge = Cut[Behind(b)].tooLarge
<1>1. Cut[b] = Turn(Cut, b)
  BY CutIs
<1>2. ~(Len(b) < 4) /\ ~(Size(b) > MaxFrame) /\ ~(Len(b) < 4 + Size(b))
  <2>1. Size(b) \in Nat /\ Len(b) \in Nat /\ MaxFrame \in Nat
    BY SizeIsNat, FramesAssumption
  <2> QED
    BY <2>1
<1>3. PICK c \in Results : c = Cut[Behind(b)]
  OBVIOUS
<1>4. Cut[b] = [c EXCEPT !.messages = <<m>> \o c.messages]
  BY <1>1, <1>2, <1>3, Zenon DEF Turn, Size, Behind
<1>5. <<m>> \o c.messages \in Seq(Messages)
  BY <1>3 DEF Results
<1> QED
  BY <1>3, <1>4, <1>5 DEF Results

-----------------------------------------------------------------------------
(* What has arrived, from the n-th message's end on.                       *)

Part(messages, n, until) ==
    SubSeq(Prefix(messages, Len(messages)), End(messages, n) + 1, until)

LEMMA PartIs ==
    ASSUME NEW ms \in Seq(Messages), NEW n \in Nat, n <= Len(ms),
           NEW m \in Nat, End(ms, n) <= m, m <= End(ms, Len(ms))
    PROVE  /\ End(ms, n) \in Nat
           /\ Part(ms, n, m) \in Bytes /\ Len(Part(ms, n, m)) = m - End(ms, n)
           /\ \A i \in 1 .. m - End(ms, n) :
                 Part(ms, n, m)[i] = Prefix(ms, Len(ms))[End(ms, n) + i]
<1>1. PICK e \in Nat : e = End(ms, n)
  BY PrefixBytes
<1>2. PICK s \in Bytes : s = Prefix(ms, Len(ms)) /\ m <= Len(s) /\ Len(s) \in Nat
  <2>1. Prefix(ms, Len(ms)) \in Bytes
    BY PrefixBytes
  <2> QED
    BY <2>1 DEF End, Bytes
<1>3. PICK first \in Int : first = e + 1
  OBVIOUS
<1>4. ASSUME NEW i \in first .. m
      PROVE  s[i] \in 0 .. 255
  <2>1. i \in 1 .. Len(s)
    BY <1>1, <1>2, <1>3
  <2> QED
    BY <2>1, ElementOfSeq DEF Bytes
<1>5. /\ SubSeq(s, first, m) \in Seq(0 .. 255)
      /\ Len(SubSeq(s, first, m)) = IF first <= m THEN m - first + 1 ELSE 0
      /\ \A i \in 1 .. m - first + 1 : SubSeq(s, first, m)[i] = s[first + i - 1]
  BY <1>4, SubSeqProperties
<1>6. Part(ms, n, m) = SubSeq(s, first, m)
  BY <1>1, <1>2, <1>3 DEF Part
<1>7. PICK p \in Bytes : p = SubSeq(s, first, m)
  BY <1>5 DEF Bytes
<1>8. Len(p) = m - e
  BY <1>1, <1>3, <1>5, <1>7
<1>9. ASSUME NEW i \in 1 .. m - e
      PROVE  p[i] = s[e + i]
  <2>1. i \in 1 .. m - first + 1 /\ first + i - 1 = e + i
    BY <1>3
  <2> QED
    BY <1>5, <1>7, <2>1
<1> QED
  BY <1>1, <1>2, <1>6, <1>7, <1>8, <1>9

LEMMA PartStarts ==
    ASSUME NEW ms \in Seq(Messages), NEW n \in Nat, n < Len(ms),
           NEW m \in Nat, End(ms, n) <= m, m <= End(ms, Len(ms)),
           NEW i \in Nat, i >= 1, i <= m - End(ms, n), i <= Len(Wire(ms[n + 1]))
    PROVE  Part(ms, n, m)[i] = Wire(ms[n + 1])[i]
<1>1. ms[n + 1] \in Messages /\ Len(ms) \in Nat
  OBVIOUS
<1>2. PICK e \in Nat : e = End(ms, n)
  BY PrefixBytes
<1>3. PICK l \in Nat : l = Len(Wire(ms[n + 1]))
  BY <1>1, WireIs
<1>4. Part(ms, n, m)[i] = Prefix(ms, Len(ms))[e + i]
  <2>1. n <= Len(ms) /\ i \in 1 .. m - End(ms, n)
    BY <1>1, <1>2
  <2> QED
    BY <1>2, <2>1, PartIs, Zenon
<1>5. End(ms, n + 1) = e + l /\ Prefix(ms, n + 1)[e + i] = Wire(ms[n + 1])[i]
  BY <1>2, <1>3, NextWire
<1>6. Prefix(ms, Len(ms))[e + i] = Prefix(ms, n + 1)[e + i]
  <2>1. PICK k \in Nat : k = n + 1 /\ k <= Len(ms)
    OBVIOUS
  <2>2. e + i \in 1 .. End(ms, k)
    BY <1>2, <1>3, <1>5, <2>1
  <2>3. Prefix(ms, Len(ms))[e + i] = Prefix(ms, k)[e + i]
    BY <1>1, <2>1, <2>2, PrefixStays
  <2> QED
    BY <2>1, <2>3
<1> QED
  BY <1>4, <1>5, <1>6

\* What is behind the next message.
LEMMA PartBehind ==
    ASSUME NEW ms \in Seq(Messages), NEW n \in Nat, n < Len(ms),
           NEW m \in Nat, End(ms, n + 1) <= m, m <= End(ms, Len(ms)),
           NEW l \in Nat, l = Len(Wire(ms[n + 1]))
    PROVE  SubSeq(Part(ms, n, m), l + 1, Len(Part(ms, n, m))) = Part(ms, n + 1, m)
<1>1. PICK e \in Nat : e = End(ms, n)
  BY PrefixBytes
<1>2. End(ms, n + 1) = e + l
  BY <1>1, NextWire
<1>3. PICK k \in Nat : k = n + 1 /\ k <= Len(ms)
  OBVIOUS
<1>4. PICK s : s = Prefix(ms, Len(ms))
  OBVIOUS
<1>5. PICK p \in Bytes :
        /\ p = Part(ms, n, m) /\ Len(p) = m - e
        /\ \A i \in 1 .. m - e : p[i] = s[e + i]
  <2>1. e <= m
    BY <1>2
  <2> QED
    BY <1>1, <1>4, <2>1, PartIs
<1>6. PICK q \in Bytes :
        /\ q = Part(ms, k, m) /\ Len(q) = m - (e + l)
        /\ \A i \in 1 .. m - (e + l) : q[i] = s[(e + l) + i]
  <2>1. End(ms, k) = e + l /\ End(ms, k) <= m
    BY <1>2, <1>3
  <2>2. /\ Part(ms, k, m) \in Bytes /\ Len(Part(ms, k, m)) = m - End(ms, k)
        /\ \A i \in 1 .. m - End(ms, k) :
              Part(ms, k, m)[i] = Prefix(ms, Len(ms))[End(ms, k) + i]
    BY <1>3, <2>1, PartIs, Zenon
  <2> QED
    BY <1>4, <2>1, <2>2
<1>7. e + l <= m
  BY <1>2
<1>8. PICK first \in Int, last \in Int : first = l + 1 /\ last = m - e
  OBVIOUS
<1>9. ASSUME NEW i \in first .. last
      PROVE  p[i] \in 0 .. 255
  <2>1. i \in 1 .. Len(p)
    BY <1>5, <1>8
  <2> QED
    BY <2>1, ElementOfSeq DEF Bytes
<1>10. /\ SubSeq(p, first, last) \in Seq(0 .. 255)
       /\ Len(SubSeq(p, first, last)) = IF first <= last THEN last - first + 1 ELSE 0
       /\ \A i \in 1 .. last - first + 1 : SubSeq(p, first, last)[i] = p[first + i - 1]
  BY <1>9, SubSeqProperties
<1>11. PICK t \in Bytes : t = SubSeq(p, first, last)
  BY <1>10 DEF Bytes
<1>12. Len(t) = Len(q)
  <2>1. (IF first <= last THEN last - first + 1 ELSE 0) = m - (e + l)
    <3>1. first <= last => last - first + 1 = m - (e + l)
      BY <1>8
    <3>2. ~(first <= last) => m - (e + l) = 0
      BY <1>7, <1>8
    <3> QED
      BY <3>1, <3>2
  <2> QED
    BY <1>6, <1>10, <1>11, <2>1, Zenon
<1>13. ASSUME NEW i \in 1 .. Len(t)
       PROVE  t[i] = q[i]
  <2>1. /\ i \in 1 .. m - (e + l) /\ i \in 1 .. last - first + 1
        /\ first + i - 1 = l + i /\ l + i \in 1 .. m - e /\ e + (l + i) = (e + l) + i
    BY <1>6, <1>7, <1>8, <1>12
  <2>2. t[i] = p[l + i]
    BY <1>10, <1>11, <2>1
  <2>3. p[l + i] = s[e + (l + i)]
    BY <1>5, <2>1
  <2>4. q[i] = s[(e + l) + i]
    BY <1>6, <2>1
  <2> QED
    BY <2>1, <2>2, <2>3, <2>4
<1>14. t = q
  BY <1>12, <1>13, SeqEqual DEF Bytes
<1> QED
  BY <1>3, <1>5, <1>6, <1>8, <1>11, <1>14

-----------------------------------------------------------------------------
(* The loop on what has arrived: from the end of the n-th message on it    *)
(* takes message after message, up to the first that is not all there or   *)
(* that is too large.                                                      *)

Outcome(ms, n, until, done, rest, tooLarge) ==
    \E k \in n .. Len(ms) :
        /\ done = SubSeq(ms, n + 1, k)
        /\ \A i \in n + 1 .. k : ms[i].type # "TOO_LARGE"
        /\ End(ms, k) <= until
        /\ tooLarge => k < Len(ms) /\ ms[k + 1].type = "TOO_LARGE" /\ End(ms, k + 1) <= until
        /\ ~tooLarge => rest = Part(ms, k, until) /\ (k < Len(ms) => until < End(ms, k + 1))

CutSays(ms, n, until, cut) ==
    /\ cut \in Results
    /\ Outcome(ms, n, until, cut.messages, cut.rest, cut.tooLarge)

LEMMA WaitsForMore ==
    ASSUME NEW ms \in Seq(Messages), NEW n \in Nat, n <= Len(ms),
           NEW m \in Nat, End(ms, n) <= m, m <= End(ms, Len(ms)),
           n < Len(ms) => m < End(ms, n + 1),
           NEW p, p = Part(ms, n, m), Cut[p] = Kept(p)
    PROVE  CutSays(ms, n, m, Cut[p])
<1>1. p \in Bytes
  BY PartIs
<1>2. PICK c \in Results :
        c = Cut[p] /\ c.messages = <<>> /\ c.rest = p /\ c.tooLarge = FALSE
  BY <1>1, KeptIs
<1>3. Outcome(ms, n, m, c.messages, c.rest, c.tooLarge)
  <2>1. n \in n .. Len(ms)
    OBVIOUS
  <2>2. c.messages = SubSeq(ms, n + 1, n)
    <3>1. n + 1 \in Int /\ n \in Int /\ n < n + 1
      OBVIOUS
    <3> QED
      BY <1>2, <3>1, SubSeqEmpty
  <2>3. \A i \in n + 1 .. n : ms[i].type # "TOO_LARGE"
    OBVIOUS
  <2> QED
    BY <1>2, <2>1, <2>2, <2>3 DEF Outcome
<1> QED
  BY <1>2, <1>3 DEF CutSays

\* The head of what has arrived is the head of the next message.
LEMMA HeadArrived ==
    ASSUME NEW ms \in Seq(Messages), NEW n \in Nat, n < Len(ms),
           NEW m \in Nat, End(ms, n) <= m, m <= End(ms, Len(ms)),
           NEW p \in Bytes, p = Part(ms, n, m), Len(p) >= 4
    PROVE  Size(p) = ReadUInt32(Wire(ms[n + 1]), 0)
<1>1. ms[n + 1] \in Messages
  OBVIOUS
<1>2. PICK w : w = Wire(ms[n + 1])
  OBVIOUS
<1>3. PICK l \in Nat : l = Len(w) /\ l >= 4
  BY <1>1, <1>2, WireIs
<1>4. PICK e \in Nat : e = End(ms, n)
  BY PrefixBytes
<1>5. n <= Len(ms)
  OBVIOUS
<1>6. Len(p) = m - e
  BY <1>4, <1>5, PartIs
<1>7. ASSUME NEW i \in Nat, i >= 1, i <= 4
      PROVE  p[i] = w[i]
  <2>1. i <= m - End(ms, n) /\ i <= Len(Wire(ms[n + 1]))
    BY <1>2, <1>3, <1>4, <1>6, <1>7
  <2> QED
    BY <1>2, <1>7, <2>1, PartStarts
<1>8. p[1] = w[1] /\ p[2] = w[2] /\ p[3] = w[3] /\ p[4] = w[4]
  BY <1>7
<1>9. /\ 0 + 1 = 1 /\ 0 + 2 = 2 /\ 2 + 1 = 3 /\ 2 + 2 = 4
  OBVIOUS
<1> QED
  BY <1>2, <1>8, <1>9, SMT DEF Size, ReadUInt32, ReadUInt16

LEMMA StopsAtTooLarge ==
    ASSUME NEW ms \in Seq(Messages), NEW n \in Nat, n < Len(ms),
           ms[n + 1].type = "TOO_LARGE",
           NEW m \in Nat, End(ms, n + 1) <= m, m <= End(ms, Len(ms)),
           NEW p, p = Part(ms, n, m)
    PROVE  CutSays(ms, n, m, Cut[p])
<1>1. ms[n + 1] \in Messages
  OBVIOUS
<1>2. PICK e \in Nat : e = End(ms, n)
  BY PrefixBytes
<1>3. End(ms, n + 1) = e + 4
  <2>1. Len(Wire(ms[n + 1])) = 4
    BY <1>1, WireIs
  <2>2. End(ms, n + 1) = End(ms, n) + Len(Wire(ms[n + 1]))
    BY NextWire
  <2> QED
    BY <1>2, <2>1, <2>2
<1>4. n <= Len(ms) /\ End(ms, n) <= m
  BY <1>2, <1>3
<1>5. p \in Bytes /\ Len(p) = m - e
  BY <1>2, <1>4, PartIs
<1>6. Len(p) >= 4
  BY <1>3, <1>5
<1>7. Size(p) > MaxFrame
  BY <1>1, <1>4, <1>5, <1>6, HeadArrived, WireIs
<1>8. PICK c \in Results : c = Cut[p] /\ c.messages = <<>> /\ c.tooLarge = TRUE
  BY <1>5, <1>6, <1>7, CutStops
<1>9. Outcome(ms, n, m, c.messages, c.rest, c.tooLarge)
  <2>1. n \in n .. Len(ms)
    OBVIOUS
  <2>2. c.messages = SubSeq(ms, n + 1, n)
    <3>1. n + 1 \in Int /\ n \in Int /\ n < n + 1
      OBVIOUS
    <3> QED
      BY <1>8, <3>1, SubSeqEmpty
  <2>3. \A i \in n + 1 .. n : ms[i].type # "TOO_LARGE"
    OBVIOUS
  <2> QED
    BY <1>4, <1>8, <2>1, <2>2, <2>3 DEF Outcome
<1> QED
  BY <1>8, <1>9 DEF CutSays

\* A payload that is all there is the next message's.
LEMMA PayloadArrived ==
    ASSUME NEW ms \in Seq(Messages), NEW n \in Nat, n < Len(ms),
           ms[n + 1].type # "TOO_LARGE",
           NEW m \in Nat, End(ms, n + 1) <= m, m <= End(ms, Len(ms)),
           NEW p \in Bytes, p = Part(ms, n, m),
           NEW size \in Nat, size = Len(Payload(ms[n + 1]))
    PROVE  SubSeq(p, 5, 4 + size) = Payload(ms[n + 1])
<1>1. PICK msg \in Messages : msg = ms[n + 1]
  OBVIOUS
<1>2. PICK q \in Bytes : q = Payload(msg)
  BY <1>1, PayloadBytes
<1>3. /\ Len(Wire(msg)) = 4 + size
      /\ \A i \in 1 .. size : Wire(msg)[4 + i] = q[i]
  BY <1>1, <1>2, WireIs
<1>4. PICK e \in Nat : e = End(ms, n)
  BY PrefixBytes
<1>5. End(ms, n + 1) = e + (4 + size)
  BY <1>1, <1>3, <1>4, NextWire
<1>6. n <= Len(ms) /\ End(ms, n) <= m /\ e + (4 + size) <= m
  BY <1>4, <1>5
<1>7. Len(p) = m - e
  BY <1>4, <1>6, PartIs
<1>8. PICK last \in Int : last = 4 + size
  OBVIOUS
<1>9. ASSUME NEW i \in 5 .. last
      PROVE  p[i] \in 0 .. 255
  <2>1. i \in 1 .. Len(p)
    BY <1>6, <1>7, <1>8
  <2> QED
    BY <2>1, ElementOfSeq DEF Bytes
<1>10. /\ SubSeq(p, 5, last) \in Seq(0 .. 255)
       /\ Len(SubSeq(p, 5, last)) = IF 5 <= last THEN last - 5 + 1 ELSE 0
       /\ \A i \in 1 .. last - 5 + 1 : SubSeq(p, 5, last)[i] = p[5 + i - 1]
  BY <1>9, SubSeqProperties
<1>11. PICK t \in Bytes : t = SubSeq(p, 5, last)
  BY <1>10 DEF Bytes
<1>12. Len(t) = size
  <2>1. (IF 5 <= last THEN last - 5 + 1 ELSE 0) = size
    BY <1>8
  <2> QED
    BY <1>10, <1>11, <2>1
<1>13. ASSUME NEW i \in 1 .. Len(t)
       PROVE  t[i] = q[i]
  <2>1. i \in 1 .. size /\ i \in 1 .. last - 5 + 1 /\ 5 + i - 1 = 4 + i
    BY <1>8, <1>12
  <2>2. t[i] = p[4 + i]
    BY <1>10, <1>11, <2>1
  <2>3. p[4 + i] = Wire(ms[n + 1])[4 + i]
    <3>1. PICK j \in Nat : j = 4 + i
      BY <2>1
    <3>2. j >= 1 /\ j <= m - e /\ j <= 4 + size
      BY <1>6, <2>1, <3>1
    <3>3. j <= m - End(ms, n) /\ j <= Len(Wire(ms[n + 1]))
      BY <1>1, <1>3, <1>4, <3>2
    <3> QED
      BY <1>6, <3>1, <3>2, <3>3, PartStarts
  <2> QED
    BY <1>1, <1>3, <2>1, <2>2, <2>3
<1>14. t = q
  <2>1. Len(t) = Len(q)
    BY <1>1, <1>2, <1>12
  <2> QED
    BY <1>13, <2>1, SeqEqual DEF Bytes
<1> QED
  BY <1>1, <1>2, <1>8, <1>11, <1>14

LEMMA TakesTheNext ==
    ASSUME NEW ms \in Seq(Messages), NEW n \in Nat, n < Len(ms),
           ms[n + 1].type # "TOO_LARGE",
           NEW m \in Nat, End(ms, n + 1) <= m, m <= End(ms, Len(ms)),
           NEW p, p = Part(ms, n, m), NEW r, r = Part(ms, n + 1, m),
           CutSays(ms, n + 1, m, Cut[r])
    PROVE  CutSays(ms, n, m, Cut[p])
<1>1. PICK msg \in Messages : msg = ms[n + 1]
  OBVIOUS
<1>2. PICK size \in Nat : size = Len(Payload(msg)) /\ size <= MaxFrame
  BY <1>1, WireIs
<1>3. Len(Wire(msg)) = 4 + size /\ ReadUInt32(Wire(msg), 0) = size
  BY <1>1, <1>2, WireIs
<1>4. PICK e \in Nat : e = End(ms, n)
  BY PrefixBytes
<1>5. End(ms, n + 1) = e + (4 + size)
  BY <1>1, <1>3, <1>4, NextWire
<1>6. n <= Len(ms) /\ End(ms, n) <= m /\ e + (4 + size) <= m
  BY <1>4, <1>5
<1>7. p \in Bytes /\ Len(p) = m - e
  BY <1>4, <1>6, PartIs
<1>8. Len(p) >= 4 /\ Len(p) >= 4 + size
  BY <1>6, <1>7
<1>9. Size(p) = size
  BY <1>1, <1>3, <1>6, <1>7, <1>8, HeadArrived
<1>10. HandleTcpPayload(SubSeq(p, 5, 4 + Size(p))) = msg
  <2>1. SubSeq(p, 5, 4 + size) = Payload(msg)
    BY <1>1, <1>2, <1>7, PayloadArrived
  <2> QED
    BY <1>1, <1>9, <2>1, MessagesReadBack
<1>11. Behind(p) = r
  <2>1. PICK l \in Nat : l = 4 + size
    OBVIOUS
  <2>2. l = Len(Wire(ms[n + 1]))
    BY <1>1, <1>3, <2>1
  <2>3. SubSeq(p, l + 1, Len(p)) = r
    BY <2>2, PartBehind
  <2>4. 5 + Size(p) = l + 1
    BY <1>9, <2>1
  <2> QED
    BY <2>3, <2>4, Zenon DEF Behind
<1>12. PICK rest \in Results : rest = Cut[r]
  BY DEF CutSays
<1>13. PICK c \in Results :
         /\ c = Cut[p] /\ c.messages = <<msg>> \o rest.messages
         /\ c.rest = rest.rest /\ c.tooLarge = rest.tooLarge
  <2>1. Size(p) <= MaxFrame /\ Len(p) >= 4 + Size(p)
    BY <1>2, <1>8, <1>9
  <2>2. Cut[Behind(p)] = rest
    BY <1>11, <1>12
  <2> QED
    BY <1>7, <1>8, <1>10, <1>12, <2>1, <2>2, CutGoesOn
<1>14. Outcome(ms, n, m, c.messages, c.rest, c.tooLarge)
  <2>1. Outcome(ms, n + 1, m, rest.messages, rest.rest, rest.tooLarge)
    BY <1>12 DEF CutSays
  <2>2. PICK k \in n + 1 .. Len(ms) :
          /\ rest.messages = SubSeq(ms, n + 1 + 1, k)
          /\ \A i \in n + 1 + 1 .. k : ms[i].type # "TOO_LARGE"
          /\ End(ms, k) <= m
          /\ rest.tooLarge =>
               k < Len(ms) /\ ms[k + 1].type = "TOO_LARGE" /\ End(ms, k + 1) <= m
          /\ ~rest.tooLarge =>
               rest.rest = Part(ms, k, m) /\ (k < Len(ms) => m < End(ms, k + 1))
    BY <2>1 DEF Outcome
  <2>3. k \in n .. Len(ms)
    OBVIOUS
  <2>4. c.messages = SubSeq(ms, n + 1, k)
    <3>1. PICK j \in 1 .. Len(ms) : j = n + 1
      OBVIOUS
    <3>2. k \in j .. Len(ms)
      BY <3>1
    <3>3. SubSeq(ms, j, k) = <<ms[j]>> \o SubSeq(ms, j + 1, k)
      BY <3>2, SubSeqRecursiveFirst
    <3> QED
      BY <1>1, <1>13, <2>2, <3>1, <3>3
  <2>5. \A i \in n + 1 .. k : ms[i].type # "TOO_LARGE"
    <3>1. \A i \in n + 1 .. k : i = n + 1 \/ i \in n + 1 + 1 .. k
      OBVIOUS
    <3> QED
      BY <2>2, <3>1
  <2> QED
    BY <1>13, <2>2, <2>3, <2>4, <2>5 DEF Outcome
<1> QED
  BY <1>13, <1>14 DEF CutSays

LEMMA CutTakesWhole ==
    ASSUME NEW ms \in Seq(Messages), NEW n \in Nat, n <= Len(ms),
           NEW m \in Nat, End(ms, n) <= m, m <= End(ms, Len(ms))
    PROVE  CutSays(ms, n, m, Cut[Part(ms, n, m)])
<1> DEFINE Says(k) == End(ms, k) <= m => CutSays(ms, k, m, Cut[Part(ms, k, m)])
           S == {d \in Nat : \A k \in 0 .. Len(ms) : k + d = Len(ms) => Says(k)}
<1>1. Len(ms) \in Nat
  OBVIOUS
<1>2. 0 \in S
  <2> SUFFICES ASSUME NEW k \in 0 .. Len(ms), k + 0 = Len(ms), End(ms, k) <= m
               PROVE  CutSays(ms, k, m, Cut[Part(ms, k, m)])
    OBVIOUS
  <2>1. k = Len(ms) /\ k \in Nat /\ k <= Len(ms) /\ ~(k < Len(ms))
    BY <1>1
  <2>2. PICK e \in Nat : e = End(ms, k)
    BY <2>1, PrefixBytes
  <2>3. PICK p \in Bytes : p = Part(ms, k, m) /\ Len(p) = m - e
    BY <2>1, <2>2, PartIs
  <2>4. Len(p) < 4
    BY <2>1, <2>2, <2>3
  <2>5. Cut[p] = Kept(p)
    BY <2>4, CutWaits
  <2> QED
    BY <2>1, <2>3, <2>5, WaitsForMore
<1>3. ASSUME NEW d \in Nat, d \in S
      PROVE  d + 1 \in S
  <2> SUFFICES ASSUME NEW k \in 0 .. Len(ms), k + (d + 1) = Len(ms), End(ms, k) <= m
               PROVE  CutSays(ms, k, m, Cut[Part(ms, k, m)])
    OBVIOUS
  <2>1. k \in Nat /\ k < Len(ms) /\ k <= Len(ms)
    BY <1>1
  <2>2. PICK next \in 0 .. Len(ms) : next = k + 1 /\ next + d = Len(ms)
    BY <1>1, <2>1
  <2>3. End(ms, next) <= m => CutSays(ms, next, m, Cut[Part(ms, next, m)])
    BY <1>3, <2>2
  <2>4. PICK msg \in Messages : msg = ms[k + 1]
    BY <2>1
  <2>5. CASE End(ms, k + 1) <= m /\ msg.type = "TOO_LARGE"
    BY <2>1, <2>4, <2>5, StopsAtTooLarge
  <2>6. CASE End(ms, k + 1) <= m /\ msg.type # "TOO_LARGE"
    <3>1. CutSays(ms, k + 1, m, Cut[Part(ms, k + 1, m)])
      BY <2>2, <2>3, <2>6
    <3> QED
      BY <2>1, <2>4, <2>6, <3>1, TakesTheNext
  <2>7. CASE ~(End(ms, k + 1) <= m)
    <3>1. PICK e \in Nat, l \in Nat : e = End(ms, k) /\ l = Len(Wire(msg)) /\ l >= 4
      BY <2>1, <2>4, PrefixBytes, WireIs
    <3>2. End(ms, k + 1) = e + l
      BY <2>1, <2>4, <3>1, NextWire
    <3>3. m < e + l /\ m < End(ms, k + 1)
      BY <2>7, <3>1, <3>2
    <3>4. PICK p \in Bytes : p = Part(ms, k, m) /\ Len(p) = m - e
      BY <2>1, <3>1, PartIs
    <3>5. CASE Len(p) < 4
      <4>1. Cut[p] = Kept(p)
        BY <3>5, CutWaits
      <4> QED
        BY <2>1, <3>3, <3>4, <4>1, WaitsForMore
    <3>6. CASE Len(p) >= 4
      <4>1. msg.type # "TOO_LARGE"
        <5>1. msg.type = "TOO_LARGE" => l = 4
          BY <3>1, WireIs
        <5>2. l # 4
          BY <3>3, <3>4, <3>6
        <5> QED
          BY <5>1, <5>2
      <4>2. PICK size \in Nat : /\ size = Len(Payload(msg)) /\ size <= MaxFrame
                                /\ l = 4 + size /\ ReadUInt32(Wire(msg), 0) = size
        BY <3>1, <4>1, WireIs
      <4>3. Size(p) = size
        BY <2>1, <2>4, <3>4, <3>6, <4>2, HeadArrived
      <4>4. Size(p) <= MaxFrame /\ Len(p) < 4 + Size(p)
        BY <3>1, <3>3, <3>4, <4>2, <4>3
      <4>5. Cut[p] = Kept(p)
        BY <3>6, <4>4, CutWaits
      <4> QED
        BY <2>1, <3>3, <3>4, <4>5, WaitsForMore
    <3>7. Len(p) < 4 \/ Len(p) >= 4
      BY <3>1, <3>4
    <3> QED
      BY <3>5, <3>6, <3>7
  <2> QED
    BY <2>5, <2>6, <2>7
<1>4. Nat \subseteq S
  <2> HIDE DEF S
  <2> QED
    BY <1>2, <1>3, InductionOnSet
<1>5. PICK d \in Nat : n + d = Len(ms)
  <2>1. Len(ms) - n \in Nat /\ n + (Len(ms) - n) = Len(ms)
    BY <1>1
  <2> QED
    BY <2>1
<1>6. d \in S
  <2> HIDE DEF S
  <2> QED
    BY <1>4
<1>7. n \in 0 .. Len(ms)
  BY <1>1
<1> QED
  BY <1>5, <1>6, <1>7

-----------------------------------------------------------------------------
(* The connection.                                                         *)

\* What is kept on a connection: the client has taken the first k messages, and
\* either has the beginning of the next one or was closed by it.
FramesInv ==
    /\ sent \in Seq(Messages) /\ closed \in BOOLEAN
    /\ arrived \in Nat /\ arrived <= End(sent, Len(sent))
    /\ Outcome(sent, 0, arrived, acted, tcpBuffer, closed)

LEMMA NothingYet ==
    ASSUME NEW c, c = FALSE
    PROVE  Outcome(<<>>, 0, 0, <<>>, <<>>, c) /\ End(<<>>, Len(<<>>)) = 0
<1>1. <<>> \in Seq(Messages) /\ Len(<<>>) = 0
  OBVIOUS
<1>2. End(<<>>, 0) = 0
  BY PrefixNone DEF End
<1>3. 0 \in 0 .. Len(<<>>) /\ ~(0 < Len(<<>>)) /\ \A i \in 0 + 1 .. 0 : FALSE
  BY <1>1
<1>4. SubSeq(<<>>, 0 + 1, 0) = <<>>
  BY SubSeqEmpty
<1>5. Part(<<>>, 0, 0) = <<>>
  <2>1. 0 + 1 \in Int /\ 0 \in Int /\ 0 < 0 + 1
    OBVIOUS
  <2>2. Part(<<>>, 0, 0) = SubSeq(Prefix(<<>>, Len(<<>>)), 0 + 1, 0)
    BY <1>2 DEF Part
  <2> QED
    BY <2>1, <2>2, SubSeqEmpty
<1>6. 0 <= 0
  OBVIOUS
<1> QED
  BY <1>1, <1>2, <1>3, <1>4, <1>5, <1>6 DEF Outcome

LEMMA SendingKeeps ==
    ASSUME FramesInv, NEW msg \in Messages, ReflectorSends(msg)
    PROVE  FramesInv'
<1>1. /\ sent \in Seq(Messages) /\ Len(sent) \in Nat
      /\ arrived \in Nat /\ arrived <= End(sent, Len(sent))
  BY DEF FramesInv
<1>2. PICK k \in 0 .. Len(sent) :
        /\ acted = SubSeq(sent, 0 + 1, k)
        /\ \A i \in 0 + 1 .. k : sent[i].type # "TOO_LARGE"
        /\ End(sent, k) <= arrived
        /\ closed => k < Len(sent) /\ sent[k + 1].type = "TOO_LARGE"
                     /\ End(sent, k + 1) <= arrived
        /\ ~closed => tcpBuffer = Part(sent, k, arrived)
                      /\ (k < Len(sent) => arrived < End(sent, k + 1))
  BY DEF FramesInv, Outcome
<1>3. PICK n \in Nat : n = Len(sent)
  BY <1>1
<1>4. PICK longer \in Seq(Messages) : longer = Append(sent, msg)
  <2>1. Append(sent, msg) \in Seq(Messages)
    BY <1>1
  <2> QED
    BY <2>1, Zenon
<1>5. Len(longer) = n + 1 /\ \A i \in 1 .. n : longer[i] = sent[i]
  BY <1>1, <1>3, <1>4
<1>6. ASSUME NEW i \in Nat, i <= n
      PROVE  Prefix(longer, i) = Prefix(sent, i) /\ End(longer, i) = End(sent, i)
  BY <1>1, <1>3, <1>4, <1>6, PrefixOfLonger DEF End
<1>7. PICK last \in Nat, l \in Nat :
        last = End(sent, n) /\ End(longer, n + 1) = last + l /\ l >= 4
  <2>1. n < Len(longer) /\ n <= n /\ longer[n + 1] \in Messages
    BY <1>5
  <2>2. PICK e \in Nat : e = End(sent, n)
    BY <1>1, <1>3, PrefixBytes
  <2>3. PICK l \in Nat : l = Len(Wire(longer[n + 1])) /\ l >= 4
    BY <2>1, WireIs
  <2>4. End(longer, n + 1) = e + l
    BY <1>6, <2>1, <2>2, <2>3, NextWire
  <2> QED
    BY <2>2, <2>3, <2>4
<1>8. arrived <= last /\ arrived < last + l
  BY <1>1, <1>3, <1>7
<1>9. arrived <= End(longer, Len(longer))
  <2>1. arrived <= last + l
    BY <1>1, <1>8
  <2>2. End(longer, Len(longer)) = last + l
    BY <1>5, <1>7
  <2> QED
    BY <2>1, <2>2
<1>10. Part(longer, k, arrived) = Part(sent, k, arrived)
  <2>1. PICK e \in Nat : e = End(sent, k) /\ e = End(longer, k) /\ e <= arrived
    <3>1. End(sent, k) \in Nat
      BY <1>1, PrefixBytes
    <3> QED
      BY <1>2, <1>3, <1>6, <3>1
  <2>2. PICK p \in Bytes :
          /\ p = Part(sent, k, arrived) /\ Len(p) = arrived - e
          /\ \A i \in 1 .. arrived - e : p[i] = Prefix(sent, n)[e + i]
    <3>1. k \in Nat /\ k <= Len(sent)
      OBVIOUS
    <3>2. End(sent, k) <= arrived
      BY <2>1
    <3>3. /\ Part(sent, k, arrived) \in Bytes
          /\ Len(Part(sent, k, arrived)) = arrived - End(sent, k)
          /\ \A i \in 1 .. arrived - End(sent, k) :
                Part(sent, k, arrived)[i] = Prefix(sent, Len(sent))[End(sent, k) + i]
      BY <1>1, <3>1, <3>2, PartIs, Zenon
    <3> QED
      BY <1>3, <2>1, <3>3
  <2>3. PICK q \in Bytes :
          /\ q = Part(longer, k, arrived) /\ Len(q) = arrived - e
          /\ \A i \in 1 .. arrived - e : q[i] = Prefix(longer, n + 1)[e + i]
    <3>1. k \in Nat /\ k <= Len(longer) /\ arrived <= End(longer, Len(longer))
      BY <1>3, <1>5, <1>9
    <3>2. End(longer, k) <= arrived
      BY <2>1
    <3>3. /\ Part(longer, k, arrived) \in Bytes
          /\ Len(Part(longer, k, arrived)) = arrived - End(longer, k)
          /\ \A i \in 1 .. arrived - End(longer, k) :
                Part(longer, k, arrived)[i] = Prefix(longer, Len(longer))[End(longer, k) + i]
      BY <1>1, <3>1, <3>2, PartIs, Zenon
    <3> QED
      BY <1>5, <2>1, <3>3
  <2>4. ASSUME NEW i \in 1 .. Len(p)
        PROVE  p[i] = q[i]
    <3>1. i \in 1 .. arrived - e /\ e + i \in 1 .. last
      BY <1>1, <1>8, <2>1, <2>2
    <3>2. Prefix(longer, n + 1)[e + i] = Prefix(longer, n)[e + i]
      <4>1. PICK m \in Nat : m = n + 1 /\ n <= m /\ m <= Len(longer)
        BY <1>5
      <4>2. e + i \in 1 .. End(longer, n)
        BY <1>6, <1>7, <3>1
      <4> QED
        BY <4>1, <4>2, PrefixStays
    <3>3. Prefix(longer, n) = Prefix(sent, n)
      BY <1>6
    <3> QED
      BY <2>2, <2>3, <3>1, <3>2, <3>3
  <2>5. p = q
    BY <2>2, <2>3, <2>4, SeqEqual DEF Bytes
  <2> QED
    BY <2>2, <2>3, <2>5
<1>11. Outcome(longer, 0, arrived, acted, tcpBuffer, closed)
  <2>1. k \in 0 .. Len(longer) /\ k <= n
    BY <1>3, <1>5
  <2>2. acted = SubSeq(longer, 0 + 1, k)
    <3>1. SubSeq(longer, 0 + 1, k) = SubSeq(sent, 0 + 1, k)
      <4>1. /\ \A i \in 1 .. k : sent[i] \in Messages /\ longer[i] \in Messages
            /\ \A i \in 1 .. k : sent[i] = longer[i]
        BY <1>1, <1>3, <1>5, <2>1
      <4>2. /\ SubSeq(sent, 1, k) \in Seq(Messages) /\ SubSeq(longer, 1, k) \in Seq(Messages)
            /\ Len(SubSeq(sent, 1, k)) = k /\ Len(SubSeq(longer, 1, k)) = k
        BY <1>1, <1>3, <1>5, <2>1
      <4>3. \A i \in 1 .. k : SubSeq(sent, 1, k)[i] = SubSeq(longer, 1, k)[i]
        BY <1>1, <1>3, <1>5, <2>1, <4>1
      <4>4. SubSeq(sent, 1, k) = SubSeq(longer, 1, k)
        BY <4>2, <4>3, SeqEqual
      <4> QED
        BY <4>4
    <3> QED
      BY <1>2, <3>1
  <2>3. \A i \in 0 + 1 .. k : longer[i].type # "TOO_LARGE"
    BY <1>2, <1>3, <1>5
  <2>4. End(longer, k) <= arrived
    BY <1>2, <1>3, <1>6
  <2>5. closed => k < Len(longer) /\ longer[k + 1].type = "TOO_LARGE"
                  /\ End(longer, k + 1) <= arrived
    BY <1>2, <1>3, <1>5, <1>6
  <2>6. k < Len(longer) => (~closed => arrived < End(longer, k + 1))
    <3>1. CASE k < n
      BY <1>2, <1>3, <1>6, <3>1
    <3>2. CASE k = n
      BY <1>7, <1>8, <3>2
    <3> QED
      BY <2>1, <3>1, <3>2
  <2> QED
    BY <1>2, <1>10, <2>1, <2>2, <2>3, <2>4, <2>5, <2>6 DEF Outcome
<1>12. sent' = longer /\ UNCHANGED <<connection, closed, arrived, tcpBuffer, acted>>
  BY <1>4 DEF ReflectorSends
<1>13. closed \in BOOLEAN
  BY DEF FramesInv
<1> QED
  BY <1>1, <1>4, <1>9, <1>11, <1>12, <1>13 DEF FramesInv

\* What was kept and what has come are the bytes from the k-th message's end on.
LEMMA PartGrows ==
    ASSUME NEW ms \in Seq(Messages), NEW n \in Nat, n <= Len(ms),
           NEW m \in Nat, NEW until \in Nat, End(ms, n) <= m, m <= until,
           until <= End(ms, Len(ms))
    PROVE  Part(ms, n, m) \o SubSeq(Prefix(ms, Len(ms)), m + 1, until) = Part(ms, n, until)
<1>1. PICK s \in Bytes : s = Prefix(ms, Len(ms))
  BY PrefixBytes
<1>2. Len(s) \in Nat /\ until <= Len(s)
  BY <1>1 DEF End, Bytes
<1>3. PICK e \in Nat : e = End(ms, n)
  BY PrefixBytes
<1>4. PICK first \in 1 .. Len(s) + 1 : first = e + 1
  BY <1>2, <1>3
<1>5. m \in first - 1 .. Len(s) /\ until \in m .. Len(s)
  BY <1>2, <1>3, <1>4
<1>6. SubSeq(s, first, m) \o SubSeq(s, m + 1, until) = SubSeq(s, first, until)
  BY <1>5, ConcatAdjacentSubSeq DEF Bytes
<1> QED
  BY <1>1, <1>3, <1>4, <1>6 DEF Part

LEMMA ReceivingKeeps ==
    ASSUME FramesInv, NEW size \in 1 .. Len(Stream) - arrived, HandleTcp(size)
    PROVE  FramesInv'
<1>1. /\ sent \in Seq(Messages) /\ Len(sent) \in Nat
      /\ arrived \in Nat /\ arrived <= End(sent, Len(sent))
  BY DEF FramesInv
<1>2. ~closed
  BY DEF HandleTcp
<1>3. PICK k \in 0 .. Len(sent) :
        /\ acted = SubSeq(sent, 0 + 1, k)
        /\ \A i \in 0 + 1 .. k : sent[i].type # "TOO_LARGE"
        /\ End(sent, k) <= arrived
        /\ tcpBuffer = Part(sent, k, arrived)
  BY <1>2 DEF FramesInv, Outcome
<1>4. Stream = Prefix(sent, Len(sent))
  BY DEF Stream, Prefix
<1>5. PICK total \in Nat : total = End(sent, Len(sent)) /\ total = Len(Stream)
  <2>1. End(sent, Len(sent)) \in Nat
    BY <1>1, PrefixBytes
  <2> QED
    BY <1>4, <2>1 DEF End
<1>6. PICK until \in Nat : until = arrived + size /\ arrived <= until /\ until <= total
  BY <1>1, <1>5
<1>7. k \in Nat /\ k <= Len(sent)
  OBVIOUS
<1>8. End(sent, k) <= until
  <2>1. End(sent, k) \in Nat
    BY <1>1, <1>7, PrefixBytes
  <2> QED
    BY <1>1, <1>3, <1>6, <2>1
<1>9. tcpBuffer \o SubSeq(Stream, arrived + 1, arrived + size) = Part(sent, k, until)
  <2>1. until <= End(sent, Len(sent))
    BY <1>5, <1>6
  <2>2. Part(sent, k, arrived) \o SubSeq(Prefix(sent, Len(sent)), arrived + 1, until)
          = Part(sent, k, until)
    BY <1>1, <1>3, <1>6, <1>7, <2>1, PartGrows, Zenon
  <2> QED
    BY <1>3, <1>4, <1>6, <2>2
<1>10. CutSays(sent, k, until, Cut[Part(sent, k, until)])
  <2>1. until <= End(sent, Len(sent))
    BY <1>5, <1>6
  <2> QED
    BY <1>1, <1>7, <1>8, <2>1, CutTakesWhole, Zenon
<1>11. PICK cut \in Results : cut = Cut[Part(sent, k, until)]
  BY <1>10 DEF CutSays
<1>12. PICK j \in k .. Len(sent) :
         /\ cut.messages = SubSeq(sent, k + 1, j)
         /\ \A i \in k + 1 .. j : sent[i].type # "TOO_LARGE"
         /\ End(sent, j) <= until
         /\ cut.tooLarge =>
              j < Len(sent) /\ sent[j + 1].type = "TOO_LARGE" /\ End(sent, j + 1) <= until
         /\ ~cut.tooLarge =>
              cut.rest = Part(sent, j, until) /\ (j < Len(sent) => until < End(sent, j + 1))
  BY <1>10, <1>11 DEF CutSays, Outcome
<1>13. /\ arrived' = until /\ tcpBuffer' = cut.rest /\ acted' = acted \o cut.messages
       /\ closed' = cut.tooLarge /\ sent' = sent
  BY <1>6, <1>9, <1>11 DEF HandleTcp
<1>14. acted \o cut.messages = SubSeq(sent, 0 + 1, j)
  <2>1. SubSeq(sent, 1, k) \o SubSeq(sent, k + 1, j) = SubSeq(sent, 1, j)
    <3>1. 1 \in 1 .. Len(sent) + 1 /\ k \in 1 - 1 .. Len(sent) /\ j \in k .. Len(sent)
      BY <1>1
    <3> QED
      BY <1>1, <3>1, ConcatAdjacentSubSeq, Zenon
  <2>2. 0 + 1 = 1
    OBVIOUS
  <2> QED
    BY <1>3, <1>12, <2>1, <2>2, Zenon
<1>15. \A i \in 0 + 1 .. j : sent[i].type # "TOO_LARGE"
  <2>1. \A i \in 0 + 1 .. j : i \in 0 + 1 .. k \/ i \in k + 1 .. j
    BY <1>7
  <2> QED
    BY <1>3, <1>12, <2>1
<1>16. Outcome(sent, 0, until, acted \o cut.messages, cut.rest, cut.tooLarge)
  <2>1. j \in 0 .. Len(sent)
    BY <1>7
  <2> QED
    BY <1>12, <1>14, <1>15, <2>1 DEF Outcome
<1>17. cut.tooLarge \in BOOLEAN
  BY <1>11 DEF Results
<1>18. until <= End(sent, Len(sent))
  BY <1>5, <1>6
<1> QED
  BY <1>1, <1>13, <1>16, <1>17, <1>18 DEF FramesInv

LEMMA FramesKept == Spec => []FramesInv
<1>1. Init => FramesInv
  <2> SUFFICES ASSUME Init
               PROVE  FramesInv
    OBVIOUS
  <2>1. <<>> \in Seq(Messages) /\ 0 \in Nat /\ 0 <= 0 /\ FALSE \in BOOLEAN
    OBVIOUS
  <2>2. closed = FALSE
    BY DEF Init
  <2>3. Outcome(<<>>, 0, 0, <<>>, <<>>, closed) /\ End(<<>>, Len(<<>>)) = 0
    BY <2>2, NothingYet, Zenon
  <2>4. sent = <<>> /\ arrived = 0 /\ acted = <<>> /\ tcpBuffer = <<>>
    BY DEF Init
  <2>5. closed \in BOOLEAN
    BY <2>1, <2>2, Zenon
  <2> QED
    BY <2>1, <2>3, <2>4, <2>5 DEF FramesInv
<1>2. FramesInv /\ [Next]_vars => FramesInv'
  <2> SUFFICES ASSUME FramesInv, [Next]_vars
               PROVE  FramesInv'
    OBVIOUS
  <2>1. ASSUME NEW msg \in Messages, ReflectorSends(msg)
        PROVE  FramesInv'
    BY <2>1, SendingKeeps
  <2>2. ASSUME NEW size \in 1 .. Len(Stream) - arrived, HandleTcp(size)
        PROVE  FramesInv'
    BY <2>2, ReceivingKeeps
  <2>3. CASE ConnectTcp
    <3>1. /\ sent' = <<>> /\ arrived' = 0 /\ acted' = <<>> /\ tcpBuffer' = <<>>
          /\ closed' = closed
      BY <2>3 DEF ConnectTcp
    <3>2. closed = FALSE /\ closed \in BOOLEAN
      BY <2>3 DEF ConnectTcp, FramesInv
    <3>3. Outcome(<<>>, 0, 0, <<>>, <<>>, closed) /\ End(<<>>, Len(<<>>)) = 0
      BY <3>2, NothingYet, Zenon
    <3>4. <<>> \in Seq(Messages) /\ 0 \in Nat /\ 0 <= 0
      OBVIOUS
    <3> QED
      BY <3>1, <3>2, <3>3, <3>4 DEF FramesInv
  <2>4. CASE UNCHANGED vars
    BY <2>4 DEF vars, FramesInv, Outcome
  <2> QED
    BY <2>1, <2>2, <2>3, <2>4 DEF Next
<1> QED
  BY <1>1, <1>2, PTL DEF Spec

\* The messages that count as whole are those taken, and the one that closed.
LEMMA CompleteIs ==
    ASSUME sent \in Seq(Messages), NEW n \in 0 .. Len(sent), Whole(n),
           \A k \in n + 1 .. Len(sent) : ~Whole(k)
    PROVE  Complete = SubSeq(sent, 1, n)
<1> DEFINE Longest(m) == Whole(m) /\ \A k \in m + 1 .. Len(sent) : ~Whole(k)
           c == CHOOSE m \in 0 .. Len(sent) : Longest(m)
<1>1. Longest(n)
  OBVIOUS
<1>2. c \in 0 .. Len(sent) /\ Longest(c)
  BY <1>1, Zenon
<1>3. Complete = SubSeq(sent, 1, c)
  BY Zenon DEF Complete
<1> HIDE DEF c
<1>4. c \in Int /\ n \in Int /\ Len(sent) \in Nat
  BY <1>2
<1>5. ~(c < n)
  <2> SUFFICES ASSUME c < n
               PROVE  FALSE
    OBVIOUS
  <2>1. n \in c + 1 .. Len(sent)
    BY <1>2, <1>4
  <2> QED
    BY <1>1, <1>2, <2>1
<1>6. ~(n < c)
  <2> SUFFICES ASSUME n < c
               PROVE  FALSE
    OBVIOUS
  <2>1. c \in n + 1 .. Len(sent)
    BY <1>2, <1>4
  <2> QED
    BY <1>1, <1>2, <2>1
<1>7. c = n
  BY <1>4, <1>5, <1>6
<1> QED
  BY <1>3, <1>7

LEMMA WholeIs ==
    ASSUME NEW n
    PROVE  Whole(n) <=> /\ End(sent, n) <= arrived
                        /\ \A i \in 1 .. n - 1 : sent[i].type # "TOO_LARGE"
BY DEF Whole, End, Prefix

\* Beyond the messages taken, and the one that closed, nothing is whole.
LEMMA InvIsUnderstood ==
    ASSUME FramesInv
    PROVE  Understood
<1>1. sent \in Seq(Messages) /\ Len(sent) \in Nat /\ arrived \in Nat /\ closed \in BOOLEAN
  BY DEF FramesInv
<1>2. PICK k \in 0 .. Len(sent) :
        /\ acted = SubSeq(sent, 0 + 1, k)
        /\ \A i \in 0 + 1 .. k : sent[i].type # "TOO_LARGE"
        /\ End(sent, k) <= arrived
        /\ closed => k < Len(sent) /\ sent[k + 1].type = "TOO_LARGE"
                     /\ End(sent, k + 1) <= arrived
        /\ ~closed => (k < Len(sent) => arrived < End(sent, k + 1))
  BY DEF FramesInv, Outcome
<1>3. acted = SubSeq(sent, 1, k) /\ \A i \in 1 .. k : sent[i].type # "TOO_LARGE"
  <2>1. 0 + 1 = 1
    OBVIOUS
  <2> QED
    BY <1>2, <2>1, Zenon
<1>4. k \in Nat /\ k <= Len(sent)
  OBVIOUS
<1>5. CASE ~closed
  <2>1. Whole(k)
    <3>1. \A i \in 1 .. k - 1 : i \in 1 .. k
      BY <1>4
    <3> QED
      BY <1>2, <1>3, <3>1, WholeIs
  <2>2. ASSUME NEW j \in k + 1 .. Len(sent)
        PROVE  ~Whole(j)
    <3>1. PICK m \in Nat, n \in Nat : m = k + 1 /\ n = j /\ m <= n /\ n <= Len(sent)
      BY <1>1, <1>4
    <3>2. End(sent, m) <= End(sent, n)
      BY <1>1, <3>1, PrefixStays
    <3>3. End(sent, m) \in Nat /\ End(sent, n) \in Nat
      <4>1. m <= Len(sent)
        BY <1>1, <3>1
      <4> QED
        BY <1>1, <3>1, <4>1, PrefixBytes
    <3>4. arrived < End(sent, m)
      BY <1>1, <1>2, <1>4, <1>5, <3>1
    <3>5. ~(End(sent, j) <= arrived)
      BY <1>1, <3>1, <3>2, <3>3, <3>4
    <3> QED
      BY <3>5, WholeIs
  <2>3. Complete = SubSeq(sent, 1, k)
    BY <1>1, <2>1, <2>2, CompleteIs
  <2>4. ASSUME NEW i \in 1 .. Len(Complete)
        PROVE  Complete[i].type # "TOO_LARGE"
    <3>1. Len(Complete) = k
      BY <1>1, <1>4, <2>3
    <3>2. i \in 1 .. k /\ Complete[i] = sent[i]
      BY <1>1, <1>4, <2>3, <3>1
    <3> QED
      BY <1>3, <3>2
  <2>5. acted = Complete
    BY <1>3, <2>3
  <2> QED
    BY <1>5, <2>4, <2>5, Zenon DEF Understood
<1>6. CASE closed
  <2>1. /\ k < Len(sent) /\ sent[k + 1].type = "TOO_LARGE"
        /\ End(sent, k + 1) <= arrived
    BY <1>2, <1>6
  <2>2. PICK n \in 0 .. Len(sent) : n = k + 1 /\ n \in Nat /\ n - 1 = k
    BY <1>1, <1>4, <2>1
  <2>3. Whole(n)
    BY <1>3, <2>1, <2>2, WholeIs
  <2>4. ASSUME NEW j \in n + 1 .. Len(sent)
        PROVE  ~Whole(j)
    <3>1. n \in 1 .. j - 1
      BY <1>1, <1>4, <2>2
    <3>2. sent[n].type = "TOO_LARGE"
      BY <2>1, <2>2
    <3> QED
      BY <3>1, <3>2, WholeIs
  <2>5. Complete = SubSeq(sent, 1, n)
    BY <1>1, <2>3, <2>4, CompleteIs
  <2>6. PICK s \in Seq(Messages) : s = SubSeq(sent, 1, n) /\ Len(s) = n
                                   /\ \A i \in 1 .. n : s[i] = sent[i]
    <3>1. SubSeq(sent, 1, n) \in Seq(Messages)
      BY <1>1, <2>2
    <3>2. Len(SubSeq(sent, 1, n)) = n
      BY <1>1, <2>2
    <3>3. \A i \in 1 .. n : SubSeq(sent, 1, n)[i] = sent[i]
      BY <1>1, <2>2
    <3> QED
      BY <3>1, <3>2, <3>3
  <2>7. Complete = s
    BY <2>5, <2>6
  <2>8. n \in 1 .. Len(Complete) /\ Complete[n].type = "TOO_LARGE"
    <3>1. n \in 1 .. n
      BY <1>4, <2>2
    <3>2. s[n] = sent[n] /\ sent[n].type = "TOO_LARGE"
      BY <2>1, <2>2, <2>6, <3>1
    <3> QED
      BY <2>6, <2>7, <3>1, <3>2
  <2>9. acted = Front(Complete)
    <3>1. Front(Complete) = SubSeq(s, 1, k)
      BY <2>2, <2>6, <2>7 DEF Front
    <3>2. SubSeq(s, 1, k) = SubSeq(sent, 1, k)
      <4>1. \A i \in 1 .. k : s[i] = sent[i]
        BY <1>4, <2>2, <2>6
      <4>2. /\ SubSeq(s, 1, k) \in Seq(Messages) /\ Len(SubSeq(s, 1, k)) = k
            /\ \A i \in 1 .. k : SubSeq(s, 1, k)[i] = s[i]
        BY <1>4, <2>2, <2>6
      <4>3. /\ SubSeq(sent, 1, k) \in Seq(Messages) /\ Len(SubSeq(sent, 1, k)) = k
            /\ \A i \in 1 .. k : SubSeq(sent, 1, k)[i] = sent[i]
        BY <1>1, <1>4
      <4> QED
        BY <4>1, <4>2, <4>3, SeqEqual
    <3> QED
      BY <1>3, <3>1, <3>2
  <2> QED
    BY <1>6, <2>8, <2>9, Zenon DEF Understood
<1> QED
  BY <1>1, <1>5, <1>6

\* However the stream of frames is cut into chunks and wherever a connection is
\* broken off, handleTcp() hands on exactly the messages that are all there, in
\* order and as they were written, and closes at an oversized header.
THEOREM AlwaysUnderstood == Spec => []Understood
<1>1. FramesInv => Understood
  BY InvIsUnderstood
<1> QED
  BY <1>1, FramesKept, PTL
=============================================================================
