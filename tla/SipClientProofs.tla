-------------------------- MODULE SipClientProofs --------------------------
(***************************************************************************)
(* Proofs about SipClient: its types, what an ACK names, and that it       *)
(* implements SipDialog, for every number of attempts and every bound.     *)
(***************************************************************************)
EXTENDS SipClient, TLAPS

\* The first registration starts the only dialling.
OneDial ==
    /\ dialTimers \in Nat /\ dialled + dialTimers <= 1
    /\ ~registered => dialled + dialTimers = 0
    /\ dialled = 0 => callCSeq = 1
    /\ dialled = 1 => callCSeq > 1

\* Every INVITE, and so every answer, belongs to the call last dialled.
OneCall ==
    /\ \A i \in invites : i.call = dialled /\ i.cseq < callCSeq
    /\ \A a \in answers : a.call = dialled /\ a.cseq < callCSeq

\* An INVITE is answered once.
OneAnswer ==
    \A a, b \in answers : a.call = b.call /\ a.cseq = b.cseq => a.status = b.status

\* Every INVITE but the first answers a challenge, and that of the one before it
\* unless one came twice.
Chained ==
    /\ \A n \in 1 .. callCSeq - 1 : \E i \in invites : i.cseq = n
    /\ \A i \in invites :
           i.challenge = 0
           \/ \E a \in answers : a.cseq = i.challenge /\ a.status = "401"
    /\ ~ChallengeRepeated => \A i \in invites : i.challenge = i.cseq - 1

\* A pending INVITE is one that is not settled; what has been acknowledged is.
Pending ==
    /\ pendingInvite = "set" => dialled = 1 /\ settled = FALSE
    /\ settled = TRUE => dialled = 1
    /\ ack # NoAck => settled = TRUE

SipInv ==
    /\ TypeOK /\ OneDial /\ OneCall /\ OneAnswer /\ Chained /\ Pending
    /\ AckAnswersInvite

USE SipAssumption

\* The parts of TypeOK, the Boolean variables apart.
RegisterTypes ==
    /\ process \in {"starting", "up", "exited"}
    /\ attempts \in 0 .. Attempts
    /\ registers \subseteq {"plain", "auth"} /\ replies \subseteq ReplyStatus
CallTypes ==
    /\ dialTimers \in 0 .. 1 /\ dialled \in 0 .. MaxDials
    /\ callCSeq \in 1 .. MaxCSeq
    /\ pendingInvite \in {"none", "set"}
    /\ invites \subseteq Invite /\ answers \subseteq Answer
    /\ ack \in [call : 0 .. MaxDials, cseq : 0 .. MaxCSeq,
                toCall : 0 .. MaxDials, toCSeq : 0 .. MaxCSeq]
CallBooleans == inCall \in BOOLEAN /\ settled \in BOOLEAN
RegisterBooleans == registered \in BOOLEAN /\ watchdog \in BOOLEAN /\ binding \in BOOLEAN

LEMMA TypeParts ==
    /\ TypeOK <=> RegisterTypes /\ CallTypes /\ CallBooleans /\ RegisterBooleans
    /\ TypeOK' <=> (RegisterTypes /\ CallTypes /\ CallBooleans /\ RegisterBooleans)'
  BY DEF TypeOK, RegisterTypes, CallTypes, CallBooleans, RegisterBooleans

\* What the invariant says of the calls alone.
CallInv == OneCall /\ OneAnswer /\ Chained /\ Pending /\ AckAnswersInvite

-----------------------------------------------------------------------------

LEMMA InitInv == Init => SipInv
<1> SUFFICES ASSUME Init PROVE SipInv
  OBVIOUS
<1>1. TypeOK
  <2>1. registered \in BOOLEAN /\ watchdog \in BOOLEAN /\ binding \in BOOLEAN
        /\ inCall \in BOOLEAN /\ settled \in BOOLEAN
    BY DEF Init
  <2> QED
    BY <2>1 DEF Init, TypeOK, NoAck
<1>2. OneDial /\ OneCall /\ OneAnswer /\ Chained /\ Pending
  BY DEF Init, OneDial, OneCall, OneAnswer, Chained, Pending
<1>3. AckAnswersInvite
  BY DEF Init, AckAnswersInvite
<1> QED
  BY <1>1, <1>2, <1>3 DEF SipInv

\* What only concerns the registration leaves the calls as they are.
LEMMA CallsUntouched ==
    ASSUME SipInv, UNCHANGED <<callVars, answers>>
    PROVE  CallInv' /\ CallBooleans'
  <1>1. CallInv'
    BY DEF SipInv, CallInv, OneCall, OneAnswer, Chained, Pending, AckAnswersInvite,
           ChallengeRepeated, callVars
  <1>2. CallBooleans'
    BY TypeParts, Zenon DEF SipInv, CallBooleans, callVars
  <1> QED
    BY <1>1, <1>2

RegisterAction ==
    \/ Start \/ Refresh \/ WatchdogFires \/ Shutdown \/ Fault
    \/ \E status \in {"401", "other"} : HandleRegisterReply(status)
    \/ \E register \in {"plain", "auth"}, status \in ReplyStatus :
            RegistrarReplies(register, status)

LEMMA RegisterBooleansStep ==
    ASSUME RegisterBooleans, RegisterAction
    PROVE  RegisterBooleans'
  <1>1. CASE Start
    BY <1>1 DEF Start, DoRegister, RegisterBooleans, networkVars
  <1>2. CASE Refresh
    BY <1>2 DEF Refresh, DoRegister, RegisterBooleans, networkVars
  <1>3. CASE WatchdogFires
    BY <1>3 DEF WatchdogFires, DoRegister, RegisterBooleans, networkVars
  <1>4. CASE Shutdown
    BY <1>4 DEF Shutdown, RegisterBooleans, registerVars
  <1>5. CASE Fault
    BY <1>5 DEF Fault, RegisterBooleans, networkVars
  <1>6. CASE \E status \in {"401", "other"} : HandleRegisterReply(status)
    BY <1>6 DEF HandleRegisterReply, DoRegister, RegisterBooleans
  <1>7. CASE \E register \in {"plain", "auth"}, status \in ReplyStatus :
                RegistrarReplies(register, status)
    BY <1>7 DEF RegistrarReplies, RegisterBooleans
  <1> QED
    BY <1>1, <1>2, <1>3, <1>4, <1>5, <1>6, <1>7 DEF RegisterAction

LEMMA RegisterTypesStep ==
    ASSUME RegisterTypes, RegisterAction
    PROVE  RegisterTypes'
  <1>0. ASSUME NEW r \in {"plain", "auth"}, DoRegister(r)
        PROVE  attempts' \in 0 .. Attempts /\ registers' \subseteq {"plain", "auth"}
    BY <1>0 DEF DoRegister, RegisterTypes
  <1>1. CASE Start
    BY <1>0, <1>1 DEF Start, RegisterTypes, networkVars
  <1>2. CASE Refresh
    BY <1>0, <1>2 DEF Refresh, RegisterTypes, networkVars
  <1>3. CASE WatchdogFires
    BY <1>0, <1>3 DEF WatchdogFires, RegisterTypes, networkVars
  <1>4. CASE Shutdown
    BY <1>4 DEF Shutdown, RegisterTypes, registerVars
  <1>5. CASE Fault
    BY <1>5 DEF Fault, RegisterTypes, networkVars
  <1>6. CASE \E status \in {"401", "other"} : HandleRegisterReply(status)
    BY <1>0, <1>6 DEF HandleRegisterReply, RegisterTypes
  <1>7. CASE \E register \in {"plain", "auth"}, status \in ReplyStatus :
                RegistrarReplies(register, status)
    BY <1>7 DEF RegistrarReplies, RegisterTypes
  <1> QED
    BY <1>1, <1>2, <1>3, <1>4, <1>5, <1>6, <1>7 DEF RegisterAction

LEMMA RegisterFrame ==
    ASSUME RegisterAction
    PROVE  UNCHANGED <<callVars, answers, dialTimers, registered>>
  BY DEF RegisterAction, Start, Refresh, WatchdogFires, Shutdown, Fault,
         HandleRegisterReply, RegistrarReplies, DoRegister, registerVars

-----------------------------------------------------------------------------
\* Handling the first "200" starts the dial delay, a later one does not.
LEMMA AcceptedStep ==
    ASSUME SipInv, HandleRegisterReply("200")
    PROVE  SipInv'
  <1>0. RegisterTypes /\ CallTypes /\ CallBooleans /\ RegisterBooleans
    BY TypeParts DEF SipInv
  <1>1. RegistrationAccepted /\ UNCHANGED <<process, binding, callVars, answers>>
        /\ replies' \subseteq ReplyStatus
    BY <1>0 DEF HandleRegisterReply, RegisterTypes
  <1>2. RegisterTypes'
    BY <1>0, <1>1 DEF RegistrationAccepted, RegisterTypes
  <1>3. RegisterBooleans'
    BY <1>0, <1>1 DEF RegistrationAccepted, RegisterBooleans
  <1>4. OneDial' /\ dialTimers' \in 0 .. 1
    <2>1. CASE registered
      BY <1>0, <1>1, <2>1 DEF SipInv, OneDial, RegistrationAccepted, callVars, CallTypes
    <2>2. CASE ~registered
      BY <1>0, <1>1, <2>2 DEF SipInv, OneDial, RegistrationAccepted, callVars, CallTypes
    <2> QED
      BY <2>1, <2>2
  <1>5. CallTypes'
    BY <1>0, <1>1, <1>4 DEF CallTypes, callVars
  <1> QED
    BY <1>1, <1>2, <1>3, <1>4, <1>5, CallsUntouched, TypeParts DEF SipInv, CallInv

LEMMA DialStep ==
    ASSUME SipInv, DialTimerFires
    PROVE  SipInv'
  <1>0. RegisterTypes /\ CallTypes /\ CallBooleans /\ RegisterBooleans
    BY TypeParts DEF SipInv
  <1>1. dialTimers = 1 /\ dialTimers' = 0 /\ dialled = 0 /\ callCSeq = 1 /\ registered
    BY <1>0 DEF DialTimerFires, SipInv, OneDial, CallTypes
  <1>2. RegisterTypes'
    BY <1>0 DEF DialTimerFires, RegisterTypes, registerVars, networkVars
  <1>3. RegisterBooleans'
    BY <1>0 DEF DialTimerFires, RegisterBooleans, registerVars, networkVars
  <1>a. registered' = registered /\ answers' = answers
    BY DEF DialTimerFires, registerVars
  <1>4. CASE inCall
    <2>1. UNCHANGED callVars
      BY <1>4 DEF DialTimerFires, Connect
    <2>2. OneDial' /\ CallTypes'
      BY <1>0, <1>1, <1>a, <2>1 DEF OneDial, CallTypes, callVars
    <2> QED
      BY <1>2, <1>3, <1>a, <2>1, <2>2, CallsUntouched, TypeParts DEF SipInv, CallInv
  <1>5. CASE ~inCall
    <2>1. /\ dialled < MaxDials
          /\ dialled' = 1 /\ pendingInvite' = "set" /\ settled' = FALSE
          /\ callCSeq' = 2 /\ ack' = ack /\ inCall' = inCall
          /\ invites' = invites \cup {[call |-> 1, cseq |-> 1, challenge |-> 0]}
      BY <1>1, <1>5 DEF DialTimerFires, Connect, SendInvite
    <2>2. invites = {} /\ answers = {}
      BY <1>0, <1>1 DEF SipInv, OneCall, CallTypes, Invite, Answer
    <2>3. OneDial' /\ OneCall' /\ OneAnswer' /\ Chained'
      <3>1. invites' = {[call |-> 1, cseq |-> 1, challenge |-> 0]} /\ answers' = {}
        BY <1>a, <2>1, <2>2
      <3>2. Chained'
        <4>1. \A i \in invites' : i.cseq = 1 /\ i.challenge = 0
          BY <3>1
        <4>2. \A n \in 1 .. callCSeq' - 1 : n = 1
          BY <2>1
        <4> QED
          BY <3>1, <4>1, <4>2 DEF Chained
      <3> QED
        BY <1>1, <1>a, <2>1, <3>1, <3>2 DEF OneDial, OneCall, OneAnswer
    <2>4. CallTypes'
      BY <1>0, <1>1, <1>a, <2>1, <2>2 DEF CallTypes, Invite, Answer
    <2>5. Pending'
      BY <1>1, <2>1 DEF SipInv, Pending
    <2>6. AckAnswersInvite'
      <3>1. ack = NoAck
        BY <1>1 DEF SipInv, Pending
      <3> QED
        BY <2>1, <3>1 DEF AckAnswersInvite
    <2>7. CallBooleans'
      BY <1>0, <2>1 DEF CallBooleans
    <2> QED
      BY <1>2, <1>3, <2>3, <2>4, <2>5, <2>6, <2>7, TypeParts DEF SipInv
  <1> QED
    BY <1>4, <1>5

LEMMA AnswerStep ==
    ASSUME SipInv, NEW answer \in answers, HandleAnswer(answer)
    PROVE  SipInv'
  <1>0. RegisterTypes /\ CallTypes /\ CallBooleans /\ RegisterBooleans
    BY TypeParts DEF SipInv
  <1>1. UNCHANGED <<process, registerVars, networkVars, dialTimers, answers>>
    BY DEF HandleAnswer
  <1>2. RegisterTypes'
    BY <1>0, <1>1 DEF RegisterTypes, registerVars, networkVars
  <1>3. RegisterBooleans'
    BY <1>0, <1>1 DEF RegisterBooleans, registerVars, networkVars
  <1>4. /\ answer.call = dialled /\ answer.cseq < callCSeq /\ answer.cseq \in 1 .. MaxCSeq
        /\ dialled = 1 /\ dialTimers = 0 /\ registered
    BY <1>0 DEF SipInv, OneCall, OneDial, CallTypes, Answer
  <1>5. CASE answer.status = "200" /\ InviteAccepted(answer)
    <2>1. /\ UNCHANGED <<dialled, callCSeq, invites>>
          /\ pendingInvite' = "none" /\ settled' = TRUE /\ inCall' = TRUE
          /\ ack' = [call |-> dialled, cseq |-> callCSeq - 1,
                     toCall |-> answer.call, toCSeq |-> answer.cseq]
      BY <1>5 DEF InviteAccepted
    <2>2. OneDial' /\ OneCall' /\ OneAnswer' /\ Chained' /\ Pending'
      BY <1>1, <1>4, <2>1 DEF SipInv, OneDial, OneCall, OneAnswer, Chained,
                            ChallengeRepeated, Pending, registerVars
    <2>3. CallTypes'
      BY <1>0, <1>1, <1>4, <2>1 DEF CallTypes
    <2>4. callCSeq \in Nat /\ answer.cseq \in Nat /\ answer.cseq <= callCSeq - 1
          /\ answer.cseq > 0
      BY <1>0, <1>4 DEF CallTypes
    <2>5. answer.cseq < callCSeq - 1 => ChallengeRepeated
      <3> SUFFICES ASSUME answer.cseq < callCSeq - 1, ~ChallengeRepeated PROVE FALSE
        OBVIOUS
      <3>1. answer.cseq + 1 \in 1 .. callCSeq - 1
        BY <2>4
      <3>2. PICK i \in invites : i.cseq = answer.cseq + 1
        BY <3>1 DEF SipInv, Chained
      <3>3. i.challenge = answer.cseq
        BY <2>4, <3>2 DEF SipInv, Chained
      <3>4. PICK a \in answers : a.cseq = answer.cseq /\ a.status = "401"
        BY <2>4, <3>3 DEF SipInv, Chained
      <3>5. a.call = answer.call
        BY <1>4 DEF SipInv, OneCall
      <3> QED
        BY <1>5, <3>4, <3>5 DEF SipInv, OneAnswer
    <2>6. AckAnswersInvite'
      <3>1. callCSeq - 1 \in 1 .. callCSeq - 1
        BY <2>4
      <3>2. PICK i \in invites : i.cseq = callCSeq - 1
        BY <3>1 DEF SipInv, Chained
      <3>3. i.call = dialled
        BY DEF SipInv, OneCall
      <3>4. /\ ack'.call = dialled /\ ack'.toCall = dialled
            /\ ack'.cseq = callCSeq - 1 /\ ack'.toCSeq = answer.cseq
        BY <1>4, <2>1
      <3>5. ack'.cseq = ack'.toCSeq
            \/ (ack'.cseq > ack'.toCSeq /\ ChallengeRepeated)
        BY <2>4, <2>5, <3>4
      <3> QED
        BY <2>1, <3>2, <3>3, <3>4, <3>5 DEF AckAnswersInvite, ChallengeRepeated
    <2>7. CallBooleans'
      BY <2>1 DEF CallBooleans
    <2> QED
      BY <1>2, <1>3, <2>2, <2>3, <2>6, <2>7, TypeParts DEF SipInv
  <1>6. CASE answer.status = "401" /\ InviteChallenged(answer)
    <2> DEFINE new == [call |-> dialled, cseq |-> callCSeq, challenge |-> answer.cseq]
    <2>1. /\ pendingInvite = "set" /\ callCSeq < MaxCSeq
          /\ invites' = invites \cup {new}
          /\ callCSeq' = callCSeq + 1
          /\ UNCHANGED <<dialled, pendingInvite, inCall, ack, settled>>
      BY <1>6 DEF InviteChallenged, SendInvite
    <2>2. callCSeq \in 2 .. MaxCSeq /\ ack = NoAck /\ settled = FALSE
      BY <1>0, <1>4, <2>1 DEF SipInv, OneDial, Pending, CallTypes
    <2>3. OneDial' /\ OneAnswer' /\ Pending'
      BY <1>1, <1>4, <2>1, <2>2 DEF SipInv, OneDial, OneAnswer, Pending, registerVars
    <2>4. OneCall'
      <3>1. \A i \in invites : i.cseq \in Int
        BY <1>0 DEF CallTypes, Invite
      <3>2. \A a \in answers : a.cseq \in Int
        BY <1>0 DEF CallTypes, Answer
      <3> QED
        BY <1>1, <2>1, <2>2, <3>1, <3>2 DEF SipInv, OneCall
    <2>5. Chained'
      <3> PICK invite : invite = new
        OBVIOUS
      <3>1. /\ invite.call = dialled /\ invite.cseq = callCSeq
            /\ invite.challenge = answer.cseq /\ invites' = invites \cup {invite}
        BY <2>1
      <3>2. callCSeq \in Nat /\ answer.cseq \in Nat /\ answer.cseq <= callCSeq - 1
            /\ answer.cseq > 0
        BY <1>4, <2>2
      <3>3. \A n \in 1 .. callCSeq' - 1 : \E i \in invites' : i.cseq = n
        <4>1. ASSUME NEW n \in 1 .. callCSeq' - 1
              PROVE  n \in 1 .. callCSeq - 1 \/ n = callCSeq
          BY <2>1, <3>2
        <4> QED
          BY <3>1, <4>1 DEF SipInv, Chained
      <3>4. ASSUME NEW i \in invites'
            PROVE  i.challenge = 0
                   \/ \E a \in answers' : a.cseq = i.challenge /\ a.status = "401"
        BY <1>1, <1>6, <3>1 DEF SipInv, Chained
      <3>5. ASSUME ~ChallengeRepeated', NEW i \in invites'
            PROVE  i.challenge = i.cseq - 1
        <4>1. ~ChallengeRepeated
          BY <3>1, <3>5 DEF ChallengeRepeated
        <4>2. CASE i \in invites
          BY <4>1, <4>2 DEF SipInv, Chained
        <4>3. CASE i = invite
          <5> SUFFICES ASSUME answer.cseq # callCSeq - 1 PROVE FALSE
            BY <3>1, <4>3
          <5>1. answer.cseq + 1 \in 1 .. callCSeq - 1
            BY <3>2
          <5>2. PICK j \in invites : j.cseq = answer.cseq + 1
            BY <5>1 DEF SipInv, Chained
          <5>3. j.challenge = answer.cseq /\ j.call = dialled
            BY <3>2, <4>1, <5>2 DEF SipInv, Chained, OneCall
          <5>4. j # invite
            BY <3>1, <3>2, <5>1, <5>2
          <5> QED
            BY <3>1, <3>5, <5>3, <5>4 DEF ChallengeRepeated
        <4> QED
          BY <3>1, <4>2, <4>3
      <3> QED
        BY <3>3, <3>4, <3>5 DEF Chained
    <2>6. CallTypes'
      <3>1. new \in Invite
        BY <1>0, <1>4, <2>2 DEF Invite, CallTypes
      <3> QED
        BY <1>0, <1>1, <2>1, <2>2, <3>1 DEF CallTypes
    <2>7. AckAnswersInvite'
      BY <2>1, <2>2 DEF AckAnswersInvite
    <2>8. CallBooleans'
      BY <1>0, <2>1 DEF CallBooleans
    <2> QED
      BY <1>2, <1>3, <2>3, <2>4, <2>5, <2>6, <2>7, <2>8, TypeParts DEF SipInv
  <1>7. CASE answer.status = "486" /\ InviteRefused
    <2>1. /\ UNCHANGED <<dialled, callCSeq, invites, ack>>
          /\ pendingInvite' = "none" /\ settled' = TRUE /\ inCall' = FALSE
      BY <1>7 DEF InviteRefused
    <2>2. OneDial' /\ OneCall' /\ OneAnswer' /\ Chained' /\ Pending'
          /\ AckAnswersInvite'
      BY <1>1, <1>4, <2>1 DEF SipInv, OneDial, OneCall, OneAnswer, Chained, Pending,
                            AckAnswersInvite, ChallengeRepeated, registerVars
    <2>3. CallTypes'
      BY <1>0, <1>1, <2>1 DEF CallTypes
    <2>4. CallBooleans'
      BY <2>1 DEF CallBooleans
    <2> QED
      BY <1>2, <1>3, <2>2, <2>3, <2>4, TypeParts DEF SipInv
  <1> QED
    BY <1>5, <1>6, <1>7 DEF HandleAnswer

LEMMA RequestStep ==
    ASSUME SipInv, NEW method \in {"BYE", "CANCEL", "INVITE"}, HandleRequest(method)
    PROVE  SipInv'
  <1>0. RegisterTypes /\ CallTypes /\ CallBooleans /\ RegisterBooleans
    BY TypeParts DEF SipInv
  <1>1. UNCHANGED <<process, registered, attempts, watchdog, registers, replies, binding,
                    dialTimers, answers, dialled, callCSeq, pendingInvite, invites, ack,
                    settled>> /\ inCall' \in BOOLEAN
    BY DEF HandleRequest, registerVars, networkVars
  <1>2. RegisterTypes' /\ CallTypes'
    BY <1>0, <1>1 DEF RegisterTypes, CallTypes
  <1>3. RegisterBooleans' /\ CallBooleans'
    BY <1>0, <1>1, Zenon DEF RegisterBooleans, CallBooleans
  <1>4. OneDial' /\ OneCall' /\ OneAnswer' /\ Chained' /\ Pending'
        /\ AckAnswersInvite'
    BY <1>1 DEF SipInv, OneDial, OneCall, OneAnswer, Chained, Pending,
                AckAnswersInvite, ChallengeRepeated
  <1> QED
    BY <1>2, <1>3, <1>4, TypeParts DEF SipInv

LEMMA PeerStep ==
    ASSUME SipInv, NEW invite \in invites, NEW status \in {"200", "401", "486"},
           PeerAnswers(invite, status)
    PROVE  SipInv'
  <1>0. RegisterTypes /\ CallTypes /\ CallBooleans /\ RegisterBooleans
    BY TypeParts DEF SipInv
  <1> DEFINE new == [call |-> invite.call, cseq |-> invite.cseq, status |-> status]
  <1>1. /\ UNCHANGED <<process, registerVars, networkVars, dialTimers, callVars>>
        /\ answers' = answers \cup {new}
        /\ \A a \in answers : a.call # new.call \/ a.cseq # new.cseq
    BY DEF PeerAnswers
  <1>2. RegisterTypes'
    BY <1>0, <1>1 DEF RegisterTypes, registerVars, networkVars
  <1>3. RegisterBooleans' /\ CallBooleans'
    BY <1>0, <1>1, Zenon DEF RegisterBooleans, CallBooleans, registerVars, networkVars, callVars
  <1>4. new \in Answer /\ new.call = dialled /\ new.cseq < callCSeq
    BY <1>0 DEF SipInv, OneCall, CallTypes, Invite, Answer
  <1> HIDE DEF new
  <1>5. CallTypes'
    BY <1>0, <1>1, <1>4 DEF CallTypes, callVars
  <1>6. OneDial' /\ OneCall' /\ Pending' /\ AckAnswersInvite'
    BY <1>1, <1>4 DEF SipInv, OneDial, OneCall, Pending, AckAnswersInvite,
                      ChallengeRepeated, callVars, registerVars
  <1>7. OneAnswer' /\ Chained'
    BY <1>1, <1>4 DEF SipInv, OneAnswer, Chained, ChallengeRepeated, callVars
  <1> QED
    BY <1>2, <1>3, <1>5, <1>6, <1>7, TypeParts DEF SipInv

LEMMA RegisterStep ==
    ASSUME SipInv, RegisterAction
    PROVE  SipInv'
  <1>0. RegisterTypes /\ CallTypes /\ CallBooleans /\ RegisterBooleans
    BY TypeParts DEF SipInv
  <1>1. RegisterTypes' /\ RegisterBooleans'
    BY <1>0, RegisterTypesStep, RegisterBooleansStep
  <1>2. CallTypes' /\ OneDial'
    BY <1>0, RegisterFrame DEF SipInv, CallTypes, OneDial, callVars
  <1>3. CallInv' /\ CallBooleans'
    BY RegisterFrame, CallsUntouched
  <1> QED
    BY <1>1, <1>2, <1>3, TypeParts DEF SipInv, CallInv

LEMMA NextInv ==
    ASSUME SipInv, [Next]_vars
    PROVE  SipInv'
  <1>1. CASE RegisterAction
    BY <1>1, RegisterStep
  <1>2. CASE HandleRegisterReply("200")
    BY <1>2, AcceptedStep
  <1>3. CASE DialTimerFires
    BY <1>3, DialStep
  <1>4. CASE \E answer \in answers : HandleAnswer(answer)
    BY <1>4, AnswerStep
  <1>5. CASE \E method \in {"BYE", "CANCEL", "INVITE"} : HandleRequest(method)
    BY <1>5, RequestStep
  <1>6. CASE \E invite \in invites, status \in {"200", "401", "486"} :
                PeerAnswers(invite, status)
    BY <1>6, PeerStep
  <1>7. CASE UNCHANGED vars
    <2>1. UNCHANGED <<process, registered, attempts, watchdog, registers, replies, binding,
                      dialTimers, answers, callVars>>
      BY <1>7 DEF vars, registerVars, networkVars
    <2>2. RegisterTypes' /\ CallTypes' /\ OneDial'
      BY <2>1, TypeParts DEF SipInv, RegisterTypes, CallTypes, OneDial, callVars
    <2>3. RegisterBooleans'
      BY <2>1, TypeParts, Zenon DEF SipInv, RegisterBooleans
    <2> QED
      BY <2>1, <2>2, <2>3, CallsUntouched, TypeParts DEF SipInv, CallInv
  <1> QED
    BY <1>1, <1>2, <1>3, <1>4, <1>5, <1>6, <1>7 DEF Next, RegisterAction, ReplyStatus

\* Every variable of the client keeps its type, whatever arrives in whatever
\* order (sip-client.js); at most one dial delay runs at a time.
THEOREM TypeCorrect == Spec => []TypeOK
<1>1. SipInv => TypeOK
  BY DEF SipInv
<1> QED
  BY InitInv, NextInv, <1>1, PTL DEF Spec

\* An ACK names the call and the INVITE that were accepted; only if a challenge
\* came more than once, the ACK may name an INVITE sent later in the same call
\* (sip-client.js:254-296).
THEOREM AckNamesItsInvite == Spec => []AckAnswersInvite
<1>1. SipInv => AckAnswersInvite
  BY DEF SipInv
<1> QED
  BY InitInv, NextInv, <1>1, PTL DEF Spec

\* SipDialog's variables, as SipClient gives them.
dialogPhase == IF dialled = 0 THEN "idle" ELSE IF settled THEN "settled" ELSE "inviting"
dialogVars == <<dialogPhase, callCSeq - 1>>

LEMMA DialogStep ==
    ASSUME SipInv, [Next]_vars
    PROVE  [Dialog!Next]_dialogVars
  <1>0. CallTypes
    BY TypeParts DEF SipInv
  <1>1. CASE UNCHANGED <<dialled, settled, callCSeq>>
    BY <1>1 DEF dialogVars, dialogPhase
  <1>2. CASE RegisterAction
    BY <1>1, <1>2, RegisterFrame DEF callVars
  <1>3. CASE HandleRegisterReply("200")
    BY <1>1, <1>3 DEF HandleRegisterReply, callVars
  <1>4. CASE DialTimerFires
    <2>1. dialled = 0 /\ callCSeq = 1
      BY <1>0, <1>4 DEF DialTimerFires, SipInv, OneDial, CallTypes
    <2>2. CASE inCall
      BY <1>1, <1>4, <2>2 DEF DialTimerFires, Connect, callVars
    <2>3. CASE ~inCall
      <3>1. dialled' = 1 /\ settled' = FALSE /\ callCSeq' = 2
        BY <1>4, <2>1, <2>3 DEF DialTimerFires, Connect, SendInvite
      <3> QED
        BY <2>1, <3>1 DEF Dialog!Next, Dialog!Dial
    <2> QED
      BY <2>2, <2>3
  <1>5. ASSUME NEW answer \in answers, HandleAnswer(answer)
        PROVE  [Dialog!Next]_dialogVars
    <2>1. dialled = 1 /\ callCSeq \in Nat
      BY <1>0 DEF SipInv, OneCall, OneDial, CallTypes, Answer
    <2>2. CASE InviteAccepted(answer) \/ InviteRefused
      <3>1. dialled' = 1 /\ settled' = TRUE /\ callCSeq' = callCSeq
        BY <2>1, <2>2 DEF InviteAccepted, InviteRefused
      <3> QED
        BY <2>1, <3>1 DEF Dialog!Next, Dialog!Settle
    <2>3. CASE InviteChallenged(answer)
      <3>1. /\ settled = FALSE /\ settled' = FALSE /\ dialled' = 1
            /\ callCSeq' = callCSeq + 1
        BY <2>1, <2>3 DEF InviteChallenged, SendInvite, SipInv, Pending
      <3> QED
        BY <2>1, <3>1 DEF Dialog!Next, Dialog!InviteAgain
    <2> QED
      BY <1>5, <2>2, <2>3 DEF HandleAnswer
  <1>6. CASE \E method \in {"BYE", "CANCEL", "INVITE"} : HandleRequest(method)
    BY <1>1, <1>6 DEF HandleRequest
  <1>7. CASE \E invite \in invites, status \in {"200", "401", "486"} :
                PeerAnswers(invite, status)
    BY <1>1, <1>7 DEF PeerAnswers, callVars
  <1>8. CASE UNCHANGED vars
    BY <1>1, <1>8 DEF vars, callVars
  <1> QED
    BY <1>2, <1>3, <1>4, <1>5, <1>6, <1>7, <1>8 DEF Next, RegisterAction, ReplyStatus

\* The client dials once in its life, and no challenge that is repeated or late
\* makes it send another INVITE after a final answer (SipDialog).
THEOREM ClientImplementsDialog == Spec => DialogSpec
<1>1. Init => Dialog!Init
  BY DEF Init, Dialog!Init
<1>2. SipInv /\ [Next]_vars => [Dialog!Next]_dialogVars
  BY DialogStep
<1> QED
  BY InitInv, NextInv, <1>1, <1>2, PTL DEF Spec, DialogSpec, Dialog!Spec, dialogVars, dialogPhase
=============================================================================
