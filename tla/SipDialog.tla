----------------------------- MODULE SipDialog -----------------------------
(***************************************************************************)
(* What SipClient promises about the call it dials: there is one in the    *)
(* life of the process, its INVITEs are numbered one after the other, and  *)
(* none is sent once a final answer to it has been handled.                *)
(***************************************************************************)
EXTENDS Naturals

VARIABLES
    phase,      \* "idle", "inviting" or "settled"
    invites     \* INVITEs sent so far

Init == phase = "idle" /\ invites = 0

Dial == phase = "idle" /\ phase' = "inviting" /\ invites' = 1

InviteAgain == phase = "inviting" /\ invites' = invites + 1 /\ UNCHANGED phase

Settle == phase # "idle" /\ phase' = "settled" /\ UNCHANGED invites

Next == Dial \/ InviteAgain \/ Settle

Spec == Init /\ [][Next]_<<phase, invites>>
=============================================================================
