------------------------------- MODULE IbiService -------------------------------
(***************************************************************************)
(* What the target promises firmware of in-band interrupts, without the    *)
(* queue, the bytes and the bits: an IBI is offered, tried on the bus as   *)
(* often as allowed, and sent whole, broken off, given up or withdrawn.    *)
(* TargetIbi implements it.                                                *)
(***************************************************************************)
EXTENDS Naturals

VARIABLES
    limit,      \* retries allowed
    offered,    \* an IBI waits to be sent, or is being sent
    phase,      \* where the target is with it on the bus
    fails,      \* tries it has failed
    blocked,    \* an arbitration was lost, and the bus not free since
    gaveUp      \* it was reported as failed

serviceVars == <<limit, offered, phase, fails, blocked, gaveUp>>

Forever == 7    \* the limit that is none

Phases == {"away", "trying", "sending", "closing"}

Init ==
    /\ limit \in 0..Forever
    /\ offered = FALSE /\ phase = "away"
    /\ fails = 0 /\ blocked = FALSE /\ gaveUp = FALSE

\* The next IBI comes up only when the bus has done with the last one.
Offer ==
    /\ ~offered /\ phase \in {"away", "closing"}
    /\ offered' = TRUE
    /\ UNCHANGED <<limit, phase, fails, blocked, gaveUp>>

\* Firmware may take back an IBI that is not on the bus.
Withdraw ==
    /\ offered /\ phase \in {"away", "closing"}
    /\ offered' = FALSE
    /\ UNCHANGED <<limit, phase, fails, blocked, gaveUp>>

\* An address phase: within the limit, and not after a lost arbitration.
Try ==
    /\ offered /\ phase = "away"
    /\ limit = Forever \/ fails <= limit
    /\ ~blocked
    /\ phase' = "trying"
    /\ UNCHANGED <<limit, offered, fails, blocked, gaveUp>>

\* Refused, or lost to an address that was sent instead.
Fail ==
    /\ phase = "trying"
    /\ phase' = "away"
    /\ fails' = IF limit = Forever THEN fails ELSE fails + 1
    /\ blocked' \in {blocked, TRUE}
    /\ UNCHANGED <<limit, offered, gaveUp>>

\* The controller breaks off the address: nobody has failed.
BreakOff ==
    /\ phase = "trying"
    /\ phase' = "away"
    /\ UNCHANGED <<limit, offered, fails, blocked, gaveUp>>

Accept ==
    /\ phase = "trying"
    /\ phase' = "sending"
    /\ UNCHANGED <<limit, offered, fails, blocked, gaveUp>>

\* The last byte is out; the report follows.
Complete ==
    /\ phase = "sending"
    /\ phase' = "closing" /\ offered' = FALSE
    /\ UNCHANGED <<limit, fails, blocked, gaveUp>>

ReportSuccess ==
    /\ phase = "closing"
    /\ phase' = "away" /\ fails' = 0 /\ gaveUp' = FALSE
    /\ UNCHANGED <<limit, offered, blocked>>

\* The controller ends the data early: what is left is dropped, not resent.
ReportPartial ==
    /\ phase = "sending"
    /\ phase' = "away" /\ offered' = FALSE /\ fails' = 0
    /\ UNCHANGED <<limit, blocked, gaveUp>>

\* The number of failures the hardware knows of is not that of this IBI alone,
\* so it may be given up sooner.
GiveUp ==
    /\ offered /\ phase = "away" /\ limit # Forever
    /\ gaveUp' = TRUE
    /\ UNCHANGED <<limit, offered, phase, fails, blocked>>

\* Firmware lets it be tried again.
Rearm ==
    /\ fails' = 0 /\ gaveUp' = FALSE
    /\ UNCHANGED <<limit, offered, phase, blocked>>

BusFree ==
    /\ blocked' = FALSE
    /\ UNCHANGED <<limit, offered, phase, fails, gaveUp>>

Next ==
    \/ Offer \/ Withdraw
    \/ Try \/ Fail \/ BreakOff \/ Accept
    \/ Complete \/ ReportSuccess \/ ReportPartial
    \/ GiveUp \/ Rearm \/ BusFree

Spec == Init /\ [][Next]_serviceVars
=============================================================================
