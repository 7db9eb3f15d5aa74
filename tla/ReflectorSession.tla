-------------------------- MODULE ReflectorSession --------------------------
(***************************************************************************)
(* What the SvxReflector client promises the rest of the bridge about its  *)
(* session, with no sockets, frames or timers in it.                       *)
(*                                                                         *)
(* A session is idle until connect() is called, then an attempt is made    *)
(* (bring up UDP, connect TCP, log in); an attempt ends online or is       *)
(* dropped.  A dropped session waits; it may attempt again only when a     *)
(* retry has been armed, and arming a retry advances the backoff delay     *)
(* exactly once.  Only a TCP connection that comes up resets the backoff.  *)
(* A session never goes from online back to an attempt without being       *)
(* dropped, and is never online on the socket of an earlier attempt.       *)
(***************************************************************************)
EXTENDS Naturals

CONSTANTS InitialMs, MaxMs

VARIABLES
    session,    \* "idle", "attempt", "online", "waiting" or "stopped"
    armed,      \* a retry is scheduled
    delay       \* the delay the next retry will be given

vars == <<session, armed, delay>>

Doubled(d) == IF 2 * d < MaxMs THEN 2 * d ELSE MaxMs

Init ==
    /\ session = "idle"
    /\ armed = FALSE
    /\ delay = InitialMs

\* The first attempt, or a scheduled retry.
Begin ==
    /\ session = "idle" \/ (session = "waiting" /\ armed)
    /\ session' = "attempt"
    /\ armed' = FALSE
    /\ UNCHANGED delay

\* The transport of the current attempt is up.
Established ==
    /\ session = "attempt"
    /\ delay' = InitialMs
    /\ UNCHANGED <<session, armed>>

Login ==
    /\ session = "attempt"
    /\ session' = "online"
    /\ UNCHANGED <<armed, delay>>

Arm ==
    /\ ~armed
    /\ armed' = TRUE
    /\ delay' = Doubled(delay)

\* A session is lost; the retry may be armed at once or a little later.
Drop ==
    /\ session \in {"attempt", "online"}
    /\ session' = "waiting"
    /\ Arm \/ UNCHANGED <<armed, delay>>

ArmLater ==
    /\ session = "waiting"
    /\ Arm
    /\ UNCHANGED session

Stop ==
    /\ session # "stopped"
    /\ session' = "stopped"
    /\ armed' = FALSE
    /\ UNCHANGED delay

Next == Begin \/ Established \/ Login \/ Drop \/ ArmLater \/ Stop

Spec == Init /\ [][Next]_vars
=============================================================================
