----------------------------- MODULE AudioPath -----------------------------
(***************************************************************************)
(* What becomes of a frame from the reflector, in RTP mode: it is decoded, *)
(* its 16 kHz samples halved by a filter that remembers the last samples   *)
(* of the frames before (Pcm16Downsampler2x), and, when its handler has    *)
(* waited for PTT (AsteriskPtt), cut into packets and companded (Ulaw).    *)
(* AudioMonitorServer copies the audio of each stage to HTTP listeners.    *)
(*                                                                         *)
(* A sample is its place in all that has been decoded, 0 the silence       *)
(* before; an output of the filter is the samples under its taps.  Frames  *)
(* are numbered by stream; a listener's header counts as frame 0.          *)
(* Definitions named Bad... are not the code: each has one mistake in it,  *)
(* which a property below must notice.                                     *)
(***************************************************************************)
EXTENDS Ulaw, SequencesExt

CONSTANTS
    Listeners,
    HighWater,      \* frames a listener's socket holds before write() refuses
    DecodedSizes,   \* samples the decoder makes of an Opus frame
    Taps,           \* 31 in the code
    PacketSamples,  \* samples of a packet: 8000 * packetMs / 1000
    Levels,         \* samples that PCM frames are made of
    Frames          \* bound: Opus frames decoded

ASSUME AudioAssumption ==
    /\ HighWater \in Nat \ {0} /\ Frames \in Nat /\ DecodedSizes \subseteq Nat
    /\ Taps \in Nat /\ Taps % 2 = 1 /\ PacketSamples \in Nat \ {0}
    /\ Levels \subseteq Int
    /\ \A level \in Levels : -32768 <= level /\ level <= 32767

Streams == {"svxlink", "asterisk", "ulaw"}

VARIABLES
    running,        \* until shutdown() has called stop()
    frames,         \* Opus frames decoded
    decoded,        \* samples decoded
    history,        \* the downsampler's
    outputs,        \* what it made of the last frame
    suspended,      \* the lengths of PCM frames whose handlers await PTT
    written,        \* frames written to each stream
    listener,       \* see Heard
    pcmu            \* the last sample companded, and what a listener hears of it

pathVars == <<frames, decoded, history, outputs, suspended, pcmu>>
vars == <<running, pathVars, written, listener>>

-----------------------------------------------------------------------------
\* AudioMonitorServer.  A listener's `member' says that it is in the client set
\* of its stream; "gone" that its socket is closed and 'close' still to come.
Away == [state |-> "away", stream |-> "none", member |-> FALSE, since |-> 0,
         heard |-> <<>>, backlog |-> 0]

BadHeard(client, frame) ==
    IF client.state = "gone" THEN [client EXCEPT !.member = FALSE]
    ELSE [client EXCEPT !.heard = Append(@, frame), !.backlog = @ + 1,
                        !.member = client.backlog + 1 < HighWater]

\* client.write(): one whose socket is full, or closed, is taken out and destroyed.
Heard(client, frame) ==
    IF client.state = "gone" THEN [client EXCEPT !.member = FALSE]
    ELSE [client EXCEPT
            !.heard = Append(@, frame),
            !.backlog = @ + 1,
            !.member = client.backlog + 1 < HighWater,
            !.state = IF client.backlog + 1 < HighWater THEN @ ELSE "destroyed"]

BadWrite(clients, stream, frame) ==
    LET set == {l \in Listeners : clients[l].member /\ clients[l].stream = stream}
        full == {l \in set : clients[l].backlog + 1 >= HighWater}
    IN [l \in Listeners |->
          IF l \in (IF full = {} THEN set ELSE full) THEN Heard(clients[l], frame)
          ELSE clients[l]]

\* write(stream, frame): every client of that stream, and no other.
Write(clients, stream, frame) ==
    [l \in Listeners |->
        IF clients[l].member /\ clients[l].stream = stream
          THEN Heard(clients[l], frame) ELSE clients[l]]

\* addStreamClient(): the header comes first.
AddStreamClient(l, stream) ==
    /\ listener[l].state = "away"
    /\ listener' = [listener EXCEPT ![l] =
            [state |-> "listening", stream |-> stream, member |-> TRUE,
             since |-> written[stream], heard |-> <<0>>, backlog |-> 0]]
    /\ UNCHANGED <<running, pathVars, written>>

\* The network takes a frame from a listener's socket.
Drain(l) ==
    /\ listener[l].state = "listening" /\ listener[l].backlog > 0
    /\ listener' = [listener EXCEPT ![l].backlog = @ - 1]
    /\ UNCHANGED <<running, pathVars, written>>

PeerLeaves(l) ==
    /\ listener[l].state = "listening"
    /\ listener' = [listener EXCEPT ![l].state = "gone"]
    /\ UNCHANGED <<running, pathVars, written>>

\* response.on('close').
CloseEvent(l) ==
    /\ listener[l].state = "gone"
    /\ listener' = [listener EXCEPT ![l].member = FALSE, ![l].state = "closed"]
    /\ UNCHANGED <<running, pathVars, written>>

\* stop(): the clients are ended, and the sets cleared.
Stop ==
    /\ running' = FALSE
    /\ listener' = [l \in Listeners |-> [listener[l] EXCEPT
            !.member = FALSE,
            !.state = IF listener[l].member /\ @ = "listening" THEN "ended" ELSE @]]
    /\ UNCHANGED <<pathVars, written>>

-----------------------------------------------------------------------------
\* normalizeDecodedPcm(): an even number of samples.
Normalized(size) == size - (size % 2)

\* The samples that process() filters: those remembered, the frame's and, for the
\* taps beyond its end, its last one again and again.
Samples(size) ==
    [i \in 1 .. 2 * (Taps - 1) + size |->
        IF i < Taps THEN history[i]
        ELSE IF i < Taps + size THEN decoded + i - (Taps - 1)
        ELSE IF size > 0 THEN decoded + size ELSE 0]

\* The samples under the taps of an output: every second sample is a centre.
Window(samples, output) ==
    [tap \in 1 .. Taps |-> samples[Taps - 1 + 2 * (output - 1) + tap - Taps \div 2]]

BadProcess(size) ==
    /\ outputs' = [output \in 1 .. size \div 2 |-> Window(Samples(size), output)]
    /\ history' = [i \in 1 .. Taps - 1 |-> Samples(size)[size + Taps - 1 + i]]

\* Pcm16Downsampler2x.process().
Process(size) ==
    /\ outputs' = [output \in 1 .. size \div 2 |-> Window(Samples(size), output)]
    /\ history' = [i \in 1 .. Taps - 1 |-> Samples(size)[size + i]]

\* A frame written to a stream, unless it is empty.
WriteFrame(clients, stream, samples) ==
    IF samples > 0 THEN Write(clients, stream, written[stream] + 1) ELSE clients

\* reflector.on('opus') up to its first await.
ReflectorOpus(size) ==
    LET samples == Normalized(size)
        grown == IF samples > 0 THEN 1 ELSE 0
    IN /\ frames < Frames
       /\ frames' = frames + 1
       /\ decoded' = decoded + samples
       /\ Process(samples)
       /\ listener' = WriteFrame(WriteFrame(listener, "svxlink", samples),
                                 "asterisk", samples \div 2)
       /\ written' = [written EXCEPT !["svxlink"] = @ + grown, !["asterisk"] = @ + grown]
       /\ suspended' = Append(suspended, samples \div 2)
       /\ UNCHANGED <<running, pcmu>>

\* The packets of a frame go to the listeners of the companded audio in turn.
WritePackets(packets) ==
    LET clients[i \in 0 .. packets] ==
            IF i = 0 THEN listener ELSE Write(clients[i - 1], "ulaw", written["ulaw"] + i)
    IN clients[packets]

\* sendPcm(): whole packets, each companded and expanded again for the listeners.
SendPcm(samples, level) ==
    LET packets == samples \div PacketSamples
    IN /\ listener' = WritePackets(packets)
       /\ written' = [written EXCEPT !["ulaw"] = @ + packets]
       /\ pcmu' = IF packets > 0
                    THEN [pcm |-> level,
                          heard |-> UlawToPcm16Sample(Pcm16SampleToUlaw(level))]
                    ELSE pcmu

\* A handler resumes; sendPcm() does nothing while no endpoint is known.
HandlerResumes ==
    \E i \in 1 .. Len(suspended) :
        /\ suspended' = RemoveAt(suspended, i)
        /\ \/ \E level \in Levels : SendPcm(suspended[i], level)
           \/ UNCHANGED <<listener, written, pcmu>>
        /\ UNCHANGED <<running, frames, decoded, history, outputs>>

Init ==
    /\ running = TRUE /\ frames = 0 /\ decoded = 0
    /\ history = [i \in 1 .. Taps - 1 |-> 0] /\ outputs = <<>>
    /\ suspended = <<>>
    /\ written = [stream \in Streams |-> 0]
    /\ listener = [l \in Listeners |-> Away]
    /\ pcmu = [pcm |-> 0, heard |-> 0]

Next ==
    /\ running
    /\ \/ \E size \in DecodedSizes : ReflectorOpus(size)
       \/ HandlerResumes
       \/ \E l \in Listeners, stream \in Streams : AddStreamClient(l, stream)
       \/ \E l \in Listeners : Drain(l) \/ PeerLeaves(l) \/ CloseEvent(l)
       \/ Stop

Spec == Init /\ [][Next]_vars

-----------------------------------------------------------------------------
\* A listener hears the header, then every frame written to its stream since it
\* came, in order, whoever else of its stream is taken out by the same write();
\* and nothing after it has been taken out.
HearsItsRun ==
    \A l \in Listeners : LET client == listener[l] IN
        client.state # "away" =>
            /\ client.heard = <<0>> \o [i \in 1 .. Len(client.heard) - 1 |-> client.since + i]
            /\ client.state = "listening" =>
                 client.since + Len(client.heard) - 1 = written[client.stream]

\* No response is left open without anyone to write to it or end it, and a
\* listener that does not read costs HighWater frames of memory at most.
NoneForgotten ==
    \A l \in Listeners : LET client == listener[l] IN
        /\ client.state = "listening" <=> client.member /\ client.state # "gone"
        /\ client.backlog <= HighWater

\* Frames of any size, shorter than the filter too, are filtered as one stream:
\* an output's taps lie on the samples around its centre, real ones of earlier
\* frames before, and the frame's last one where the next frame would begin.
FilterSeamless ==
    \A o \in 1 .. Len(outputs), tap \in 1 .. Taps :
        LET place == decoded - 2 * Len(outputs) + 2 * (o - 1) + tap - Taps \div 2
        IN outputs[o][tap] = IF place < 1 THEN 0
                             ELSE IF place > decoded THEN decoded ELSE place

\* The round trip a listener of the ulaw stream hears is off by 1/32 of the
\* (biased) level at most: companding never overflows, clips early or loses a sign.
RoundTripClose ==
    32 * Magnitude(pcmu.heard - Clipped(pcmu.pcm)) <= Magnitude(Clipped(pcmu.pcm)) + BIAS
=============================================================================
