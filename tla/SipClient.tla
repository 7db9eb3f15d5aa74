----------------------------- MODULE SipClient -----------------------------
(***************************************************************************)
(* SipClient (src/sip-client.js): it registers with Asterisk, keeps the    *)
(* registration alive, dials one node when the first registration is       *)
(* accepted, answers calls, and takes every message as it comes: no        *)
(* Call-ID, CSeq or tag of what it receives is ever compared.              *)
(*                                                                         *)
(* The network loses, delays and repeats messages.  REGISTERs and their    *)
(* replies in flight are sets; a peer's final answer to an INVITE is       *)
(* chosen once and may then be delivered any number of times, at any time. *)
(* Digests, SDP and the headers that only name the parties are left out.   *)
(* Definitions named Bad... are not the code: each has one mistake in it,  *)
(* which a property below must notice.                                     *)
(***************************************************************************)
EXTENDS Integers

CONSTANTS
    AutoConnect,    \* config.autoConnectNode is set
    Attempts,       \* 4 in the code: attempts are not told apart from here on
    MaxCSeq,        \* bound: the CSeq that callCSeq stops at
    MaxDials        \* bound: calls dialled

ASSUME SipAssumption ==
    /\ AutoConnect \in BOOLEAN
    /\ Attempts \in Nat \ {0} /\ MaxCSeq \in Nat \ {0, 1} /\ MaxDials \in Nat

VARIABLES
    process,        \* "starting", "up" or "exited"
    registered,     \* TRUE for good once a REGISTER has been accepted
    attempts,       \* registerAttempts, not above Attempts
    watchdog,       \* registerWatchdog is armed
    registers,      \* REGISTERs in flight
    replies,        \* replies to them in flight
    binding,        \* the registrar knows our contact
    dialTimers,     \* the delays between registration and connect() running
    dialled,        \* calls dialled; the last one is callId, 0 is null
    callCSeq,
    pendingInvite,  \* "none" or "set"
    inCall,
    invites,        \* INVITEs sent: [call, cseq, challenge]
    answers,        \* final answers to them, [call, cseq, status]
    ack,            \* the last ACK: what it names, and what it answers
    settled         \* a final answer has been handled since the last dialling

registerVars == <<registered, attempts, watchdog, registers>>
networkVars == <<replies, binding>>
callVars == <<dialled, callCSeq, pendingInvite, inCall, invites, ack, settled>>
vars == <<process, registerVars, networkVars, dialTimers, callVars, answers>>

\* "other" is a provisional reply or a refusal.
ReplyStatus == {"200", "401", "other"}
\* The credentials of an INVITE answer the challenge to an earlier one, of which
\* this is the CSeq; the one that dials has none, 0.
Invite == [call : 1 .. MaxDials, cseq : 1 .. MaxCSeq, challenge : 0 .. MaxCSeq]
Answer == [call : 1 .. MaxDials, cseq : 1 .. MaxCSeq, status : {"200", "401", "486"}]
NoAck == [call |-> 0, cseq |-> 0, toCall |-> 0, toCSeq |-> 0]

-----------------------------------------------------------------------------

Init ==
    /\ process = "starting"
    /\ registered = FALSE /\ attempts = 0 /\ watchdog = FALSE
    /\ registers = {} /\ replies = {} /\ binding = FALSE
    /\ dialTimers = 0 /\ dialled = 0 /\ callCSeq = 1
    /\ pendingInvite = "none" /\ inCall = FALSE
    /\ invites = {} /\ answers = {} /\ ack = NoAck /\ settled = FALSE

\* doRegister(), with credentials when it answers a challenge.
DoRegister(register) ==
    /\ registers' = registers \cup {register}
    /\ attempts' = IF attempts < Attempts THEN attempts + 1 ELSE attempts
    /\ watchdog' = TRUE
    /\ UNCHANGED registered

\* start(), when its socket is bound.
Start ==
    /\ process = "starting"
    /\ process' = "up"
    /\ DoRegister("plain")
    /\ UNCHANGED <<networkVars, dialTimers, callVars, answers>>

BadRefresh ==
    /\ ~registered
    /\ DoRegister("plain")
    /\ UNCHANGED <<process, networkVars, dialTimers, callVars, answers>>

\* The interval set in start().
Refresh ==
    /\ DoRegister("plain")
    /\ UNCHANGED <<process, networkVars, dialTimers, callVars, answers>>

\* No reply for 5 s: only a client that was never registered tries again.
WatchdogFires ==
    /\ watchdog
    /\ IF ~registered /\ attempts < Attempts
         THEN DoRegister("plain")
         ELSE watchdog' = FALSE /\ UNCHANGED <<registered, attempts, registers>>
    /\ UNCHANGED <<process, networkVars, dialTimers, callVars, answers>>

\* 200 to a REGISTER: the first one is what connect() waits for.
RegistrationAccepted ==
    /\ registered' = TRUE
    /\ watchdog' = FALSE
    /\ attempts' = IF registered THEN attempts ELSE 0
    /\ dialTimers' = dialTimers + (IF AutoConnect /\ ~registered THEN 1 ELSE 0)
    /\ UNCHANGED registers

\* handleResponse() to a REGISTER.  Any reply stops the watchdog; a challenge is
\* answered as often as it comes.
HandleRegisterReply(status) ==
    /\ status \in replies
    /\ replies' \in {replies, replies \ {status}}
    /\ CASE status = "200" -> RegistrationAccepted
         [] status = "401" -> DoRegister("auth") /\ UNCHANGED dialTimers
         [] OTHER -> /\ watchdog' = FALSE
                     /\ UNCHANGED <<registered, attempts, registers, dialTimers>>
    /\ UNCHANGED <<process, binding, callVars, answers>>

-----------------------------------------------------------------------------
\* buildInvite() numbers an INVITE.
SendInvite(call, cseq, challenge) ==
    /\ invites' = invites \cup {[call |-> call, cseq |-> cseq, challenge |-> challenge]}
    /\ callCSeq' = cseq + 1

\* connect(), called by the delay after registration.
Connect ==
    IF inCall
      THEN UNCHANGED callVars
      ELSE /\ dialled < MaxDials
           /\ dialled' = dialled + 1
           /\ pendingInvite' = "set"
           /\ SendInvite(dialled', 1, 0)
           /\ settled' = FALSE
           /\ UNCHANGED <<inCall, ack>>

DialTimerFires ==
    /\ dialTimers > 0
    /\ dialTimers' = dialTimers - 1
    /\ Connect
    /\ UNCHANGED <<process, registerVars, networkVars, answers>>

\* 401 or 407 to an INVITE, while one is pending.
InviteChallenged(answer) ==
    /\ pendingInvite = "set" /\ callCSeq < MaxCSeq
    /\ SendInvite(dialled, callCSeq, answer.cseq)
    /\ UNCHANGED <<dialled, pendingInvite, inCall, ack, settled>>

BadInviteAccepted(answer) ==
    /\ ack' = [call |-> dialled, cseq |-> callCSeq - 1,
               toCall |-> answer.call, toCSeq |-> answer.cseq]
    /\ inCall' = TRUE
    /\ settled' = TRUE
    /\ UNCHANGED <<dialled, callCSeq, invites, pendingInvite>>

BadAckCSeq(answer) ==
    /\ ack' = [call |-> dialled, cseq |-> callCSeq,
               toCall |-> answer.call, toCSeq |-> answer.cseq]
    /\ inCall' = TRUE
    /\ pendingInvite' = "none"
    /\ settled' = TRUE
    /\ UNCHANGED <<dialled, callCSeq, invites>>

\* 200 to an INVITE: buildAck() names the present call and its last INVITE.
InviteAccepted(answer) ==
    /\ ack' = [call |-> dialled, cseq |-> callCSeq - 1,
               toCall |-> answer.call, toCSeq |-> answer.cseq]
    /\ inCall' = TRUE
    /\ pendingInvite' = "none"
    /\ settled' = TRUE
    /\ UNCHANGED <<dialled, callCSeq, invites>>

\* A failure of an INVITE; it is not acknowledged.
InviteRefused ==
    /\ inCall' = FALSE
    /\ pendingInvite' = "none"
    /\ settled' = TRUE
    /\ UNCHANGED <<dialled, callCSeq, invites, ack>>

\* handleResponse() to an INVITE: first delivery, repetition or late arrival.
HandleAnswer(answer) ==
    /\ \/ answer.status = "200" /\ InviteAccepted(answer)
       \/ answer.status = "401" /\ InviteChallenged(answer)
       \/ answer.status = "486" /\ InviteRefused
    /\ UNCHANGED <<process, registerVars, networkVars, dialTimers, answers>>

\* handleRequest(): BYE and CANCEL of whatever call, and INVITE at any time.
HandleRequest(method) ==
    /\ inCall' = (method = "INVITE")
    /\ UNCHANGED <<dialled, callCSeq, pendingInvite, invites, ack, settled>>
    /\ UNCHANGED <<process, registerVars, networkVars, dialTimers, answers>>

\* shutdown() in index.js: stop() sends a BYE and a REGISTER that expires at
\* once, but the process exits before any reply.
Shutdown ==
    /\ process' = "exited"
    /\ binding' \in {binding, FALSE}
    /\ UNCHANGED <<registerVars, replies, dialTimers, callVars, answers>>

-----------------------------------------------------------------------------
\* The registrar replies; only what it accepts makes it know us.
RegistrarReplies(register, status) ==
    /\ register \in registers
    /\ registers' = registers \ {register}
    /\ replies' = replies \cup {status}
    /\ binding' = (binding \/ status = "200")
    /\ UNCHANGED <<process, registered, attempts, watchdog, dialTimers, callVars, answers>>

\* The other side gives its one final answer to an INVITE.
PeerAnswers(invite, status) ==
    /\ \A a \in answers : a.call # invite.call \/ a.cseq # invite.cseq
    /\ answers' = answers \cup
            {[call |-> invite.call, cseq |-> invite.cseq, status |-> status]}
    /\ UNCHANGED <<process, registerVars, networkVars, dialTimers, callVars>>

\* A message is lost, or Asterisk restarts or lets the registration expire.
Fault ==
    /\ \/ \E r \in registers : registers' = registers \ {r} /\ UNCHANGED networkVars
       \/ \E r \in replies : replies' = replies \ {r} /\ UNCHANGED <<registers, binding>>
       \/ binding /\ binding' = FALSE /\ UNCHANGED <<registers, replies>>
    /\ UNCHANGED <<process, registered, attempts, watchdog, dialTimers, callVars, answers>>

Up == process = "up"

Next ==
    \/ Start
    \/ Up /\ \/ Refresh \/ WatchdogFires \/ DialTimerFires \/ Shutdown \/ Fault
             \/ \E status \in ReplyStatus : HandleRegisterReply(status)
             \/ \E answer \in answers : HandleAnswer(answer)
             \/ \E method \in {"BYE", "CANCEL", "INVITE"} : HandleRequest(method)
             \/ \E register \in {"plain", "auth"}, status \in ReplyStatus :
                    RegistrarReplies(register, status)
             \/ \E invite \in invites, status \in {"200", "401", "486"} :
                    PeerAnswers(invite, status)

Spec == Init /\ [][Next]_vars

\* Timers fire, and messages that are sent again and again get through: the
\* registrar challenges a plain REGISTER and accepts the credentials in the end.
FairSpec ==
    /\ Spec
    /\ WF_vars(Start) /\ WF_vars(Up /\ Refresh)
    /\ SF_vars(Up /\ RegistrarReplies("plain", "401"))
    /\ SF_vars(Up /\ RegistrarReplies("auth", "200"))
    /\ \A status \in {"200", "401"} : SF_vars(Up /\ HandleRegisterReply(status))

-----------------------------------------------------------------------------
TypeOK ==
    /\ process \in {"starting", "up", "exited"}
    /\ registered \in BOOLEAN /\ watchdog \in BOOLEAN /\ binding \in BOOLEAN
    /\ attempts \in 0 .. Attempts
    /\ registers \subseteq {"plain", "auth"} /\ replies \subseteq ReplyStatus
    /\ dialTimers \in 0 .. 1 /\ dialled \in 0 .. MaxDials
    /\ callCSeq \in 1 .. MaxCSeq
    /\ pendingInvite \in {"none", "set"}
    /\ inCall \in BOOLEAN /\ settled \in BOOLEAN
    /\ invites \subseteq Invite /\ answers \subseteq Answer
    /\ ack \in [call : 0 .. MaxDials, cseq : 0 .. MaxCSeq,
                toCall : 0 .. MaxDials, toCSeq : 0 .. MaxCSeq]

\* A challenge that comes again is answered by another INVITE.
ChallengeRepeated ==
    \E i, j \in invites : i # j /\ i.call = j.call /\ i.challenge = j.challenge

\* Although no answer is matched with the INVITE it belongs to, an ACK names the
\* call that was accepted and the INVITE that was, however often that is accepted
\* and however late; only after a challenge that came twice it names a later
\* INVITE, and then one that was sent.
AckAnswersInvite ==
    ack # NoAck =>
        /\ ack.call = ack.toCall
        /\ \E i \in invites : i.call = ack.call /\ i.cseq = ack.cseq
        /\ ack.cseq = ack.toCSeq \/ (ack.cseq > ack.toCSeq /\ ChallengeRepeated)

\* One call is dialled in the life of the process, by the first registration,
\* and no repeated or late challenge sends another INVITE after a final answer.
Dialog == INSTANCE SipDialog WITH
    phase <- IF dialled = 0 THEN "idle" ELSE IF settled THEN "settled" ELSE "inviting",
    invites <- callCSeq - 1
DialogSpec == Dialog!Spec

\* However many REGISTERs, challenges and replies are lost, late or repeated,
\* the client gets registered, and Asterisk knows it again after every loss of
\* the registration, until shutdown.
KeepsRegistered ==
    /\ <>(registered \/ process = "exited")
    /\ []<>(binding \/ process = "exited")
=============================================================================
