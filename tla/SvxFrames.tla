----------------------------- MODULE SvxFrames -----------------------------
(***************************************************************************)
(* The receiving side of SvxReflectorClient's TCP connection               *)
(* (src/svxreflector.js): handleTcp() cuts a stream of bytes, which the    *)
(* network delivers in chunks of any size, into frames with a length in    *)
(* front of each, and hands their payloads on.  A connection may be lost   *)
(* anywhere in a frame.  SvxReflector models what the messages do; here    *)
(* they are bytes, and what matters is which of them are understood.       *)
(*                                                                         *)
(* Definitions named Bad... are not the code: each has one mistake in it,  *)
(* which a property below must notice.                                     *)
(***************************************************************************)
EXTENDS Integers, SequencesExt

CONSTANTS
    MaxFrame,       \* MAX_FRAME_BYTES
    PerConnection,  \* bound: messages the reflector sends on a connection
    Connections     \* bound: connections

\* The reflector's messages below fit, and one byte more is a length that four
\* bytes can say: MAX_FRAME_BYTES is 1048576.
ASSUME FramesAssumption ==
    /\ MaxFrame \in Nat /\ MaxFrame >= 6 /\ MaxFrame < 2147483647
    /\ PerConnection \in Nat /\ Connections \in Nat

VARIABLES
    connection,     \* how many there have been
    closed,         \* close() has been called for an oversized frame
    sent,           \* the messages the reflector has sent on this connection
    arrived,        \* how many of their bytes have arrived
    tcpBuffer,
    acted           \* what the client has understood on this connection

vars == <<connection, closed, sent, arrived, tcpBuffer, acted>>

-----------------------------------------------------------------------------
\* The reflector's side: what it says, and the bytes it says it with.
Messages ==
    {[type |-> "AUTH_CHALLENGE", body |-> <<1, 0>>],
     [type |-> "SERVER_INFO", body |-> <<257>>],
     [type |-> "ERROR", body |-> <<>>],
     [type |-> "IGNORED", body |-> <<>>],
     [type |-> "IGNORED", body |-> <<0, 1>>],
     [type |-> "MALFORMED", body |-> <<0, 10, 0, 2, 1>>],
     [type |-> "TOO_LARGE", body |-> <<>>]}

U16(n) == <<n \div 256, n % 256>>
U32(n) == U16(n \div 65536) \o U16(n % 65536)

Payload(message) ==
    CASE message.type = "AUTH_CHALLENGE" ->
            U16(10) \o U16(Len(message.body)) \o message.body
      [] message.type = "SERVER_INFO" -> U16(100) \o U16(0) \o U16(message.body[1])
      [] message.type = "ERROR" -> U16(13) \o U16(0)
      [] OTHER -> message.body

Wire(message) ==
    IF message.type = "TOO_LARGE" THEN U32(MaxFrame + 1)
    ELSE U32(Len(Payload(message))) \o Payload(message)

Stream == FlattenSeq([i \in 1 .. Len(sent) |-> Wire(sent[i])])

-----------------------------------------------------------------------------
\* readUInt16BE() and readUInt32BE() at an offset counted from 0.
ReadUInt16(bytes, offset) == 256 * bytes[offset + 1] + bytes[offset + 2]

ReadUInt32(bytes, offset) ==
    65536 * ReadUInt16(bytes, offset) + ReadUInt16(bytes, offset + 2)

\* A counted field: as many of its bytes as there are.
Field(payload) ==
    SubSeq(payload, 5,
           IF Len(payload) < 4 + ReadUInt16(payload, 2) THEN Len(payload)
           ELSE 4 + ReadUInt16(payload, 2))

AuthChallenge(payload) ==
    IF Len(payload) < 4 \/ Len(Field(payload)) # ReadUInt16(payload, 2)
      THEN [type |-> "MALFORMED", body |-> payload]
      ELSE [type |-> "AUTH_CHALLENGE", body |-> Field(payload)]

ServerInfo(payload) ==
    IF Len(payload) < 6 THEN [type |-> "MALFORMED", body |-> payload]
    ELSE [type |-> "SERVER_INFO", body |-> <<ReadUInt16(payload, 4)>>]

Error(payload) ==
    [type |-> "ERROR", body |-> IF Len(payload) >= 4 THEN Field(payload) ELSE <<>>]

Ignored(payload) == [type |-> "IGNORED", body |-> payload]

\* handleTcpPayload(): what the client makes of a payload.
HandleTcpPayload(payload) ==
    IF Len(payload) < 2 THEN Ignored(payload)
    ELSE CASE ReadUInt16(payload, 0) = 10 -> AuthChallenge(payload)
           [] ReadUInt16(payload, 0) = 100 -> ServerInfo(payload)
           [] ReadUInt16(payload, 0) = 13 -> Error(payload)
           [] OTHER -> Ignored(payload)

Kept(bytes) == [messages |-> <<>>, rest |-> bytes, tooLarge |-> FALSE]

\* The loop of handleTcp(), on the bytes it has so far.
Cut[bytes \in Seq(0 .. 255)] ==
    IF Len(bytes) < 4 THEN Kept(bytes)
    ELSE LET size == ReadUInt32(bytes, 0)
         IN IF size > MaxFrame THEN [Kept(bytes) EXCEPT !.tooLarge = TRUE]
            ELSE IF Len(bytes) < 4 + size THEN Kept(bytes)
            ELSE [Cut[SubSeq(bytes, 5 + size, Len(bytes))] EXCEPT !.messages =
                    <<HandleTcpPayload(SubSeq(bytes, 5, 4 + size))>> \o @]

-----------------------------------------------------------------------------
Init ==
    /\ connection = 1 /\ closed = FALSE
    /\ sent = <<>> /\ arrived = 0
    /\ tcpBuffer = <<>> /\ acted = <<>>

ReflectorSends(message) ==
    /\ Len(sent) < PerConnection
    /\ sent' = Append(sent, message)
    /\ UNCHANGED <<connection, closed, arrived, tcpBuffer, acted>>

\* socket.on('data'): no more comes once close() has destroyed the socket.
HandleTcp(size) ==
    /\ ~closed
    /\ arrived' = arrived + size
    /\ LET cut == Cut[tcpBuffer \o SubSeq(Stream, arrived + 1, arrived + size)]
       IN /\ tcpBuffer' = cut.rest
          /\ acted' = acted \o cut.messages
          /\ closed' = cut.tooLarge
    /\ UNCHANGED <<connection, sent>>

BadConnectTcp ==
    /\ ~closed /\ connection < Connections
    /\ connection' = connection + 1
    /\ sent' = <<>> /\ arrived' = 0 /\ acted' = <<>>
    /\ UNCHANGED <<closed, tcpBuffer>>

\* The connection is lost and connectTcp() makes another.
ConnectTcp ==
    /\ ~closed /\ connection < Connections
    /\ connection' = connection + 1
    /\ tcpBuffer' = <<>>
    /\ sent' = <<>> /\ arrived' = 0 /\ acted' = <<>>
    /\ UNCHANGED closed

Next ==
    \/ \E message \in Messages : ReflectorSends(message)
    \/ \E size \in 1 .. Len(Stream) - arrived : HandleTcp(size)
    \/ ConnectTcp

Spec == Init /\ [][Next]_vars

-----------------------------------------------------------------------------
\* The messages all of whose bytes have arrived: an oversized header is the last.
Whole(n) ==
    /\ Len(FlattenSeq([i \in 1 .. n |-> Wire(sent[i])])) <= arrived
    /\ \A i \in 1 .. n - 1 : sent[i].type # "TOO_LARGE"
Complete == SubSeq(sent, 1, CHOOSE n \in 0 .. Len(sent) :
                Whole(n) /\ \A k \in n + 1 .. Len(sent) : ~Whole(k))

\* However the stream is cut into chunks and wherever an earlier connection was
\* broken off, the client has understood, in order, exactly the messages that
\* have arrived whole on this one, each with what the reflector put into it; an
\* oversized one, which can only be the last of them, closes it, when its header
\* is there and not before.
Understood ==
    /\ acted = IF closed THEN Front(Complete) ELSE Complete
    /\ closed <=> \E i \in 1 .. Len(Complete) : Complete[i].type = "TOO_LARGE"
=============================================================================
