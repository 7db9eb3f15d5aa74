# A TLA+ verification project for asl-svxlink-bridge

The bridge is one Node.js process that joins two radio linking systems: an
SvxReflector (TCP control connection, UDP audio) and an Asterisk/AllStarLink
node (RTP with SIP, or USRP). Nothing in it runs in parallel, yet almost
everything in it is concurrent: sockets, timers and suspended `async` handlers
are interleaved by the event loop, each keeps some flag of the whole bridge, and
the unit tests exercise none of those interleavings. The modules here model
the control of every part that keeps state, TLC checks them on small
instances, and TLAPS proves the main results for all values of the constants.

## 1. Inventory

| Part (source) | State it keeps | Operations | Talks to |
|---|---|---|---|
| SvxReflector client (`src/svxreflector.js`) | TCP and UDP socket, `connecting`, `connected`, `stopping`, client id, reconnect timer and delay, heartbeat interval, UDP sequence number, receive buffer | `connect`, `close`, `sendOpus`, `sendPtt`, `sendFlushSamples`, handlers of 'connect', 'close', 'error', 'data', 'message', the two timers | reflector; events `opus`, `control`, `error` to the wiring |
| Wiring, Asterisk to SVXLink (`src/index.js`) | `reflectorTx`, its hang timer and refresh interval, the announcement gate | `pcm` handler, `openReflectorTx`, `closeReflectorTx`, `call-established`, `shutdown` | calls the client and the codec |
| Wiring, SVXLink to Asterisk (`src/index.js`) | `asteriskPtt`, its hang timer, the promise of the start digits, suspended handlers | `opus` handler with `openAsteriskPtt` (two awaits) | calls the RTP or USRP bridge |
| USRP bridge (`src/asterisk-usrp.js`) | socket, `restartingSocket`, transmit queue, pump handle, `txActive` | `start`, `stop`, `sendPcm`, `sendUnkey`, restart loop, pump | chan_usrp; event `pcm` |
| RTP bridge (`src/asterisk-rtp.js`) | socket, transmit queue, pump timer, RTP sequence and timestamp, remote endpoint | `sendPcm`, pump, `sendDtmfSequence`, `setRemote`, receive | Asterisk; event `pcm` |
| SIP client (`src/sip-client.js`) | registration, watchdog, pending INVITE, dialog tags and counters | `register`, `connect`, `hangup`, response and request handlers | Asterisk; events `remote-rtp`, `call-established` |
| Audio monitor (`src/audio-monitor-server.js`) | HTTP clients per stream | `write`, request handler | listeners only |
| Opus codec (`src/codec/opus-codec.js`) | the downsampler's history, native codec | `decodeOpusToPcm16k`, `process`, `encodePcmToOpus` | the wiring |
| mu-law (`src/codec/ulaw.js`) | none | companding of samples | RTP bridge |
| `src/config.js`, `src/logger.js`, the systemd unit | none that changes | | |

What is hard here, in one list (each item is a hazard of `PROJECT.json` at its
line): events of an earlier socket that reach the state of a newer one; a timer
armed by one failure that fires after another path has recovered; a promise
that is never settled; interval handles that are overwritten; commands that are
dropped silently while logged out; handlers that resume after the state they
tested has changed; a hang timer set only after an await; queues at their
limit; a socket that is restarted while sends are in flight; messages that come
in pieces, late, twice or not at all; a set that shrinks while it is written to; a
shutdown in the middle of any of this.

What makes each part correct: the client's state belongs to its present
connection and it always comes back, unless stopped; the reflector's idea of
our transmission follows the bridge's within a bounded time; Asterisk's PTT is
open whenever audio goes out and never for ever; the queue keeps the newest
audio, in order, at the right rate; one call is dialled and Asterisk goes on
knowing us; every byte, sample and frame comes through as what it was sent as.

## 2. Modules

| Module | Models | Proofs |
|---|---|---|
| `ReflectorSession` | abstract: what the client promises about its session | |
| `SvxReflector` | the whole client, one action per event-loop callback | `SvxReflectorProofs` |
| `SvxFrames` | the client's receiving side: bytes, frames, payloads | `SvxFramesProofs` |
| `BridgeTx` | extends `SvxReflector` with the Asterisk-to-SVXLink wiring and time | `SvxReflectorProofs` |
| `AsteriskPtt` | the SVXLink-to-Asterisk wiring, with suspended handlers and time | `AsteriskPttProofs` |
| `RtpBridge` | the RTP queue, pump and DTMF sequences | `RtpBridgeProofs` |
| `RtpPtt` | `AsteriskPtt` on top of `RtpBridge` | `RtpPttProofs` |
| `UsrpBridge` | the USRP queue, pump and socket | `UsrpBridgeProofs` |
| `SipDialog` | abstract: what the SIP client promises about the call it dials | |
| `SipClient` | registration and calls over a network that loses, delays and repeats | `SipClientProofs` |
| `AudioPath` | what becomes of the samples of a frame, and who listens | `AudioPathProofs` |
| `Ulaw` | the companding of one sample | `AudioPathProofs` |
| `MCAudioPath` | values for TLC | |

But for `MCAudioPath`, which names levels below zero and a symmetry, a module is
instantiated for TLC by its `.cfg` files alone: all constants
are numbers, Booleans or small sets. Operators named `Bad...` are
not the code: each is one definition with a plausible mistake, and stands just
before the definition it is a variant of; `PROJECT.json` pairs it with a
property that notices the mistake.

### SvxReflector

An action is one callback (or one call from the wiring) run to completion with
the promise continuations that it resolves: `TcpConnected` is the 'connect' event
and the rest of `connectTcp()`, `UdpBound` the end of `ensureUdpSocket()` and the
start of `connectTcp()`. Two facts about Node's sockets are relied on: a
destroyed socket emits 'close' exactly once, later but before the next timer
(`closing` counts the 'close' events to come, `ReconnectTimerFires` waits for
them); and destroying a socket that is connecting emits neither 'connect' nor
'error', so that the promise of lines 117-129 is never settled. `TcpConnected`
and `ConnectFails` are the two ways of settling it.

`tcp` and `udp` stand for the socket references and the state of the sockets,
`intervals` for the heartbeats that really run (as opposed to `heartbeatTimer`,
the one handle the client keeps), and `wire` for the types of the frames written
to the present socket. Payloads, digests and frame lengths are left out; an
oversized frame header is kept (`RecvOversized`), since it closes the client.
The reflector answers in protocol order (a challenge after the version,
SERVER_INFO after the answer to the challenge, possibly repeated), and the environment may
break the connection, refuse one, or make the UDP socket fail at any time.
`UdpFaultPhases` names the states of the TCP socket in which UDP may fail.

`SessionSpec` is the refinement: `ReflectorSession` with
`session <- sessionPhase`, `armed <- reconnectTimer`, `delay <- reconnectDelayMs`.
It says that a lost session is retried only through one armed retry, that arming
advances the backoff exactly once, that only a TCP connection resets it, and
that the way online is always a new attempt.

### BridgeTx

Extends the client with the timers of `index.js`. Time is counted in ticks; a
timer holds the ticks it has left and must fire at 0 before time goes on. `peerTx`
is what the reflector has been told and has not forgotten (it forgets a talker
whose connection ends); `silence` and `unannounced` only observe. A
client that failed and was closed stays closed under a running bridge, as in the code.
A frame that the announcement gate holds off counts as silence.

### AsteriskPtt

Each decoded frame is a handler. A handler is in `waiting` (first await: the
start digits, resumed in order) or in `delayed` (second await: only the opener).
The encoding of the digits is left out; their duration, the early return with no
endpoint and the un-awaited stop digits are kept. `HasDtmf = FALSE` is USRP
mode. The assumption `OpenDelay < Hang` is the relation of the defaults (250 and
700 ms). The hang timer and the open delay are one timer each and fire when they are due;
the digits are a chain of timers of 20 ms, each set when the last has been served, so
`Tick` may leave `startDtmf` as it was, any number of times.

### RtpPtt

Every action is one of `AsteriskPtt` together with what it calls in `RtpBridge`:
the frame that opens PTT begins the start digits, a handler that resumes hands
its frames to `sendPcm()`, the hang timer begins the stop digits beside whatever is
queued or still being played. The pump and the digits' own delays go on
in between. The promise of the start digits (`opening` names the first of them) is settled when the last
of them has left `playing`.

Neither the pump (`asterisk-rtp.js:91-101`) nor the digits (lines 147 and 151) keep to a schedule: the
next delay begins when the last is served, and what a late timer loses is never made up.
`JointTick` therefore lets time pass although one of them is due; `late` sums up
the ticks lost in that way since nothing was playing, queued or suspended. `MaxLate` bounds the sum for TLC; the
theorems hold for every `MaxLate`. Lost time is counted in whole ticks: where the code loses a few milliseconds at each of many turns, the model
loses one tick when they add up to a packet. A tick in which pump and digit are both behind counts once.

`JointAssumption` says that the
durations `AsteriskPtt` knows are those of the digits' packets and gaps, and that a
packet is a tick long, the 20 ms of the defaults; `RtpAssumption`, that the constants are ones
`RtpBridge` allows, and `RtpInputsAssumption`, that among the inputs it allows are those the wiring gives it. The
reflector sends a frame of one packet per tick, of which the network may hold back
and then bring `Burst` at once.

### UsrpBridge

`SendPcm(n)` queues n packets, `PumpSends` is one turn of the pump, `Tick` lets
time pass whether the pump is due or not (a stalled event loop). The socket part
has the first bind, errors of a bound socket, failing sends (by callback or by
exception), the restart loop and `stop()`. `sent`, `peerKeyed`, `unkeyLost`,
`burst`, `burstFrom` and `atOnce` only observe.

### RtpBridge

Voice packets and DTMF digits are numbered and dated from the same two counters
(`sequence`, `timestamp`). A digit in progress is a record of `playing` that
knows the first digit of its sequence and moves through its packets and its gap; several sequences may be in progress
since the stop digits are not awaited. Ticks are the 20 ms of the DTMF packets, and a
due timer may be late. Unlike the USRP queue, this one is cut to its limit by the
pump alone, and only the pump's own timer paces it. `endedAt`,
`queued`, `sent` and `sinceSent` only observe; the sample values, the packet
layout and the wrap of the timestamp at 2^32 are left out.

### SvxFrames

The stream is built from messages by the rules of the protocol (`Payload`, `Wire`:
the reflector's side), delivered in chunks of any size, and cut again by `Cut`,
the loop of `handleTcp()` as a recursive function on the bytes it has. What the
client does with a message is `SvxReflector`'s matter; here `acted` records what it took
it for. Type numbers, counted fields and lengths are real; a challenge has two
bytes and `MAX_FRAME_BYTES` is a parameter. A malformed
challenge (its count says more than there is) and the types that are only logged are among the messages.

### SipClient

REGISTERs and their replies in flight are sets, which is how loss, delay and
repetition of them come in; attempts beyond the fourth are not told apart. The other
side answers an INVITE once, and the answer may then be delivered any number of
times. `HandleRegisterReply` and `HandleAnswer` are `handleResponse()`,
which compares no Call-ID, CSeq or tag, so that the model does not either. An INVITE in `invites` remembers
whose challenge its credentials answer; two that answer the same one are the trace of a challenge that came
twice (`ChallengeRepeated`). The ACK then names the last INVITE sent, though an earlier one was accepted, and
`AckAnswersInvite` says that this is the only way it can be wrong. `binding` is
the registrar's knowledge of our contact: it is lost by a restart of Asterisk or by
expiry, at any time. `DialogSpec` is the refinement: `SipDialog` with
`phase` computed from `dialled` and `settled`, `invites <- callCSeq - 1`. It says
that there is one dialled call, that its INVITEs are numbered in sequence, and that no
late challenge makes another one after a final answer.

### AudioPath and Ulaw

A sample is its position in all that has been decoded, so that an output of the
filter is the list of samples under its taps and its coefficients need no
arithmetic: a wrong offset shows as a wrong position. Decoded frames have any of
`DecodedSizes`, `normalizeDecodedPcm()` makes them even, and a frame shorter than the
filter is among them. Handlers wait for PTT as a sequence from which any may
resume. Listeners are records with the frames they have `heard`; one whose
socket holds `HighWater` frames, or is closed already, is taken out and destroyed by `Write`, before its 'close' event.
A write to all listeners of a stream is one step: the loop's order cannot be told apart, for JavaScript
iterates over a Set correctly while the present element is deleted. `Ulaw` is arithmetic
on whole numbers with division for shifts, without the masks: `Codes` are bytes.

## 3. What TLC checks

| Run | Question | Instance |
|---|---|---|
| `svx_faults` | Do sockets, timer, heartbeat and handshake stay consistent under every failure, UDP errors in all phases included? | two client ids (a repeated login is visible), 4 sequence numbers, backoff 1, 2, 4 |
| `svx_recovery` | Is there always something to carry the client on, does it log in again, does it implement `ReflectorSession`? | UDP fails in every phase but a TCP connect |
| `svx_wedge` | the same as `NeverStranded` above with UDP failing during a connect | violated, see 5 |
| `svx_frames` | Are exactly the whole messages of the present connection understood, however they are cut? | 2 connections of 3 messages, of 7 kinds, in chunks of every size |
| `bridge_tx` | Does the reflector's view of TX follow the bridge's, in time? | hang 2, refresh 3, gate 1 ticks; all failures of the client |
| `rtp_ptt` | Is PTT open when audio goes out and closed in the end, is no frame lost by a handler, what do queue and digits leave behind after an over, and when is voice dropped? | 5 frames, hang 3, open delay 1, start and stop digits of 2 ticks, bursts of 2, a queue of 4, 2 ticks lost between silences; the endpoint is learnt at any time, and until then PTT opens without digits as it does in USRP mode |
| `ptt_late_remote` | Does audio wait for the start digits? | violated, see 5 |
| `usrp_bridge` | Newest kept, in order, paced, no stall, no keying after unkey? Is a failed socket bound again? | limit 2, bursts of 0, 1 and 3, 4 packets, 7 instants of half a packet time; all socket failures, the first bind included |
| `usrp_bind` | Does the process survive a refused first bind? | violated, see 5 |
| `rtp_bridge` | Voice in order, fresh and paced, digits told apart? | limit 2, 3 packets in bursts of 1 and 2, 3 digits in up to 2 sequences at a time |
| `sip_client` | One call, acknowledged as what it is, and a registration that always comes back? | INVITEs up to CSeq 4, two calls allowed for where one is promised; any loss, delay, repetition and expiry |
| `audio_path` | Do listeners hear a run without gaps, is the filter seamless, is companding close? | 2 listeners of 2 frames, 3 decoded frames of 1, 2 or 5 samples, 5 taps; the lowest sample and an ordinary one |

What the three bounds of `rtp_ptt` show. The start digits hold voice back by their
own length, a burst of the network adds to it, and so does every tick that the pump or the digits
lose (`HeldBack`). The hang time, which starts at the last frame, does not wait for
it: up to `StartTime + Burst + late - Hang` packets follow the stop digits (`TailBounded`),
and no other order of events makes it more. With the defaults, three start digits of
300 ms each (45 ticks of 20 ms) and 700 ms of hang time (35 ticks), that is about 220 ms of voice that
Asterisk gets after PTT has been released, if no time is lost; `late` comes on top, and
grows with the length of an over, since only a silence lets the pump catch up. `LostOnlyIfLate` says when voice is lost: not
before `StartTime + Burst + late` exceeds the queue's limit, 200 packets by default. In the run the limit is
`StartTime + Burst`, so that one lost tick is enough, and frames are lost. Both bounds are reached: a smaller one is
violated. `OverlapBounded` says that stop digits meet the start digits of one over at most,
unless the stop digits, with the time lost, outlast a whole over; with the two lost ticks of the run that does not happen,
with four it does, and three sequences play at once.

Why the bounds are enough. The client's state is finite but for the delay, which
the code caps at `MaxMs`: three backoff steps show the doubling, the cap and the
reset. `svx_faults` and `svx_recovery` have no bound on the length of a behaviour at all; sequence numbers wrap
at `SeqMod`, 2^16 in the code. `bridge_tx` has distinct hang and refresh periods
that do not divide each other, so every order of the two timers occurs, and its
observers are bounded by the properties themselves. In `rtp_ptt` five frames make an
opener, some that join it in different phases, and further overs, or fill the queue of four beyond its limit;
start digits and a burst hold back more than the hang time, so that voice is late, and two lost ticks may
both be the pump's, both the digits' or one of each. In `usrp_bridge` one burst is longer than the queue, and
time goes on for long enough after a stall for the pump both to catch up
and to give up the lost slots. In `rtp_bridge` three digits make a sequence of two
that a third overlaps, and three packets overfill the queue between two turns of the pump.
In `svx_frames` a frame of six bytes is the longest that is allowed, so that a payload is as long as the
limit, and three messages put one between two others with the chunks' edges anywhere. In
`sip_client` CSeq 4 has room for a challenge answered three times. In `audio_path` five taps reach over two frames of the
smallest size, and two listeners are enough for one to be destroyed by a write that the other must hear.

Deadlock is checked in `rtp_ptt`, where time goes on or something is due. The other systems may stop: the
client after `close()` or exit, the USRP and RTP bridges after `stop()` or a crash, the SIP client and the
audio path after shutdown, the wiring when the frames of its bound are used up.

### Fairness

- `SvxReflector!FairSpec`: weak fairness of each callback the event loop owes
  the client (timer, 'close', bind, the outcome of a connect) and of the
  reflector's two answers. Nothing is assumed of `Fault`; `Recovers`
  says that either faults go on for ever or the client is logged in for good.
- `RtpPtt!FairJointSpec`: the clock goes on and what is due is served, late or not. Of the reflector
  nothing is assumed: it may fall silent at any moment.
- `AsteriskPtt!FairSpec`, for `ptt_late_remote`: the clock goes on and due timers fire.
- `UsrpBridge!FairSpec`: the restart delay ends, a `send()` calls back, and a
  bind that is tried again and again succeeds in the end (strong fairness of
  `Bound`, since a refusal disables it each time).
- `SipClient!FairSpec`: the client starts and its refresh interval fires (weak); a message that
  is sent again and again gets through in the end, the registrar challenges a plain REGISTER and
  accepts one with credentials (strong: losses disable them each time). The watchdog is
  not needed for `KeepsRegistered`, nor is any fairness of it assumed: the refresh interval
  alone brings the registration back.

`svx_faults` and the other safety runs assume none.

## 4. What is proved

Every theorem holds for all constants that satisfy the `ASSUME`s of its modules.

`SvxReflectorProofs`:

- `TypeCorrect`, `OneHeartbeatPerLogin`, `LiveConnectionUndisturbed`, `AudioHasItsSocket`,
  `HandshakeComesFirst`, `StopIsFinal`: the invariants of `svx_faults`, with UDP errors
  allowed in every phase; and `RetryOnlyIfWanted`, that with `autoReconnect` off no retry is
  ever armed. The properties are not
  inductive. `SessionInv` adds what ties them together: at most one 'close' is
  outstanding and its socket is destroyed (`OneClose`); a
  connecting socket means `connecting` is set (`AttemptInProgress`); while UDP
  is being bound there is no other attempt (`BindAlone`); a logged-in
  client has an open or just destroyed socket (`ConnectedOnce`); an
  unstarted client is untouched; a bind that failed for good belongs to a client
  without `autoReconnect`.
- `ReconnectNeverStranded` (`NeverStranded`) and `ClientImplementsSession`
  (`SessionSpec`) under the further assumption
  `"connecting" \notin UdpFaultPhases`. They need `AttemptOwnsFlag`:
  `connecting` is set only by a socket that is connecting. It
  is just what a UDP error in that phase breaks, which is why `svx_wedge` finds
  the violation and why the assumption cannot be dropped. The refinement proof
  maps `Init` and then every action, by naming the session's phase before and after it.

Its second half is about `BridgeTx`, on top of `SessionInv`, which every step of the wiring is first shown to keep:

- `NoTalkerWithoutTx`, `SilenceEndsTx`, `LoginHearsOfTx`, `PausesBridged`: the properties of
  `bridge_tx`; and `TxTypeCorrect`. The invariant: silence and the hang timer add up to the hang time while TX is
  open; the refresh interval runs exactly while TX is open, and the time since an unannounced
  login and the time to the next refresh add up to a period at most; a talker the reflector
  knows has an open TX and a login.

`SvxFramesProofs`, for every frame limit and any number of messages and connections:

- `AlwaysUnderstood` (`Understood`). The invariant (`FramesInv`) names the number of messages taken: they are the
  first that were sent, the buffer is what has arrived behind them, and that is less than a frame; or
  the next is the oversized one that closed. Two things come first. `Cut` is recursive, so
  its equation has to be earned: it is approximated for streams up to a length, where one turn needs only the
  approximation for what is behind the frame, which is shorter (`CutsExist`, `CutsAgree`, `CutIs`); the library's
  `FlattenSeq` likewise. Then every message is read back as it was written (`MessagesReadBack`, `U32Bytes`), and the loop, on the
  bytes from any message's end on, takes messages up to the first that is not all there
  (`CutTakesWhole`, by induction on how many were sent behind it).
  `FramesAssumption` asks that the model's own messages fit in a frame and that the first oversized length can
  be written in the model's four bytes; `MAX_FRAME_BYTES` is 1 MiB.

`AsteriskPttProofs`, for all times and numbers of frames:

- `PttNeverStuck` (`PttAlwaysTimed`): there is always a timer or a handler that
  leads to PTT's closing. The invariant says where the suspended handlers can be:
  handlers wait only while digits are played, and an opener in its delay is under an
  open PTT.
- `FramesDeliveredKeyed` (`KeyedDelivery`): the invariant relates the opener's remaining
  delay to the hang timer, which another frame may already have
  started; this is where `OpenDelay < Hang` is used.
- `FramesAllAccounted` (`EveryFrameOnce`): handlers in their delay hold different frames, so that
  the set of them loses exactly one when one resumes.
- `OnlyOpenersLate` (`OnlyOpenersOvertaken`): waiting frames are in order and later than everything
  delivered but openers; a frame that did not open PTT is handed over by the step that resumes it.
- `TypeCorrect`.

`RtpPttProofs`, for all lengths of the digits, hang times and bursts and any loss of time:

- `WiringOnRtp` (`JointSpec => Spec`) and `RtpUnderWiring` (`JointSpec => Rtp!Spec`): the composition
  implements both its parts, action by action; so the theorems above hold of `RtpPtt`
  as well, and so do those of `RtpBridgeProofs` (`RtpPromisesKept`), instantiated with the variables of the composition.
- `VoiceTailBounded` (`TailBounded`) and `VoiceLostOnlyIfLate` (`LostOnlyIfLate`): balances that every step
  keeps (`BacklogInv`). While the start digits are played, what is suspended and what
  may still arrive before the tick grow by one a tick, as the digits get shorter by one or the tick is counted as lost, so that
  together they stay below `HeldBack`, that is `StartTime + Burst + late`. What is queued,
  suspended or still to come stays below the same bound, for the pump sends one packet a tick or the tick is lost. While the hang timer
  runs the queue empties at its pace, so what is left when it ends is less by `Hang`, but for the time lost meanwhile. A
  packet sent since the last tick counts as queued until the tick (`Backlog`), or neither sum would be kept. `late` is
  set back only when nothing is queued, suspended or played, where the balances hold with no time lost. A step that loses
  packets is a turn of the pump with more than `MaxQueue` queued, which the second balance bounds.
- `TwoSequencesAtMost` (`OverlapBounded`): the start digits being played are one digit at most, which lasts with the
  digits behind it as long as the wiring awaits (`DigitInv`). Stop digits lose what the over after theirs takes of them
  (`StopDigitInv`), its start digits and then its hang time, but for the time lost; if that is all they had, they are out before
  that over's own stop digits begin, and there are no two of the same kind.

`RtpBridgeProofs`:

- `VoiceAlwaysSpaced` (`VoiceSpaced`): the time since the last packet and the time the
  pump's timer has left add up to a period at least (`PaceInv`).
- `DigitsAlwaysDistinct` (`DigitsDistinct`): no digit in progress is dated later than now,
  and what is over is dated earlier (`DigitsInv`).
- `VoiceAlwaysInOrder` (`VoiceInOrder`) and `VoiceNeverStale` (`NeverStale`): the queue is the newest
  packets without a gap, and what was sent came before them (`VoiceInv`).
- `TypeCorrect` (`TypeOK`), of which the clock is the hard part: it has advanced by the voice packets that were sent and
  the digits that are over (`ClockInv`), each of which is counted once since no two digits in progress share a number.

`UsrpBridgeProofs`: `TypeCorrect`, `VoiceInOrder` (`InOrder`), `OverflowDropsOldest` (`NewestKept`),
`PumpAlwaysScheduled` (`PumpNeverStalls`), `UnkeyedWhenInactive` (`KeyedOnlyWhileActive`),
`OutputAlwaysPaced` (`PacedOutput`). One invariant for the queue (dropping and shifting leave a rest of it:
`IsRest`), one for keying and the pump's handle, one for the pace (the packets of a run and the
slot that is due next).

`SipClientProofs`: `TypeCorrect`, `AckNamesItsInvite` (`AckAnswersInvite`), `ClientImplementsDialog`
(`DialogSpec`). The invariant: no call without a first registration, and either its
delay is running or the call has been dialled; every answer is to an INVITE that was sent;
a pending INVITE means that no final answer has been handled; and, unless a challenge came twice, each INVITE answers the challenge to the one just before it (`Chained`).
`AckNamesItsInvite` does not exclude the wrong ACK after a repeated challenge, which the code sends; it says that nothing else
leads to one.

`AudioPathProofs`:

- `CompandingClose`: for every 16-bit sample the way there and back is off by at most 1/32
  of the biased level, by cases of the eight segments; `RoundTripAlwaysClose` carries it to what a
  listener hears.
- `FilterAlwaysSeamless` (`FilterSeamless`), for every odd number of taps: the history is the last
  samples decoded (`HistoryKept`).
- `NoneEverForgotten` (`NoneForgotten`) and `AlwaysHearsItsRun` (`HearsItsRun`), for any number of listeners, frames
  and packets in a frame. Both follow from what is known of one client (`ClientInv`: what it has heard is a run, which ends at
  the last frame of its stream while it listens; it listens just when it is in the set and its peer is there;
  its socket is full only when it has been destroyed; one whose peer has left may be in the set or not), which each `write()` keeps of every client (`WriteKeeps`). `sendPcm()` writes
  any number of packets in a step: `WritePackets` is a recursive function, which is shown to exist and
  to keep the invariant by induction on the set of the numbers for which it does (`InductionOnSet`, from the
  well-foundedness of the natural numbers).

Only model-checked: the liveness properties (`Recovers`, `FallsSilent`, `SocketRecovers`, `KeepsRegistered`:
fairness and ENABLED are beyond the prover). Every safety property that a passing run checks is also a theorem.
`TypeOK` of `BridgeTx`, `AsteriskPtt`, `UsrpBridge` and `SipClient` is
proved and no run repeats it.

## 5. Where the code and its texts disagree

- `svx_wedge`. A UDP error while the TCP connection is being made destroys the
  connecting socket; the pending promise is never settled, `connecting` stays set,
  and the retry returns at line 81. The client never tries again although
  `autoReconnect` is on.
- `ptt_late_remote`. A frame that finds no RTP endpoint opens PTT without its
  digits; the rest of the over, with the endpoint known, goes out unkeyed.
- `usrp_bind`. A refused first bind crashes the process in
  `onError`, which dereferences the socket that the restart has just cleared.

Remarks that no run is spent on. `reflector.txTimeoutMs` is configured (`config.js:15`) and read by nothing:
voice without a pause keeps TX open for as long as it lasts. Only the opener waits for `pttOpenDelayMs`;
later frames overtake it, and `OnlyOpenersOvertaken` is what does hold. A late or repeated 200 to an
INVITE sets `inCall` again after a BYE, and a challenge that comes twice is answered twice, after which the ACK may name the wrong INVITE.
With `rtpMaxQueuePackets` set to 0 the pump empties the queue before `shift()` and reads the length of undefined
(`asterisk-rtp.js:97`); `QueueAssumption` leaves that value out.

## 6. Not modelled

- The native Opus encoder and decoder, the choice between the two, the filter's coefficients and
  the upsampler: arithmetic without state of its own.
- `handleUdp()` and both `handlePacket()`: a packet is classified and an event emitted; the models begin with
  the events. The sequence numbers of the reflector's audio are compared by nobody.
- Digests, SDP and headers of SIP; the WAV header and the index page.
- Reading and merging the configuration, logging, the systemd unit, and the test modes
  `--test-ptt`/`sendTestTone` (an operator's one-shot scripts).

What could still be added: the composition of `SipClient` with `BridgeTx` and `RtpPtt`,
whose two events the environment gives here at any time, which is more than the client does.
