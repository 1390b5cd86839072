------------------------------ MODULE AovPower ------------------------------
(***************************************************************************)
(* What the AOV camera promises its battery, without saying how: the AP is *)
(* switched on with the low-voltage sleep released, it works, its power is *)
(* cut only once it has stopped working, and the CP may sleep only while   *)
(* the AP is off.  AovSystem implements it with two cores, a queue of      *)
(* events and reports that get lost.                                       *)
(***************************************************************************)

CONSTANT CanRestart   \* whether the chip may restart

VARIABLES
    power,    \* "off", "on" or "going": being cut, not yet confirmed
    asleep,   \* the low-voltage sleep vote
    working   \* the AP has work in hand or its camera on

powerVars == <<power, asleep, working>>

PowerInit == power = "off" /\ asleep = FALSE /\ working = FALSE

SwitchOn ==
    /\ power = "off"
    /\ power' = "on" /\ asleep' = FALSE
    /\ UNCHANGED working

\* The AP boots, works, stops, and may be given more to do.
Work ==
    /\ power = "on"
    /\ working' \in BOOLEAN
    /\ UNCHANGED <<power, asleep>>

Cut ==
    /\ power = "on" /\ ~working
    /\ power' = "going"
    /\ UNCHANGED <<asleep, working>>

SwitchedOff ==
    /\ power = "going"
    /\ power' = "off" /\ asleep' \in BOOLEAN
    /\ UNCHANGED working

\* Between two jobs the CP sleeps and is woken by its alarm.
SleepOrWake ==
    /\ power = "off"
    /\ asleep' \in BOOLEAN
    /\ UNCHANGED <<power, working>>

PowerRestart == CanRestart /\ power' = "off" /\ asleep' = FALSE /\ working' = FALSE

PowerNext ==
    SwitchOn \/ Work \/ Cut \/ SwitchedOff \/ SleepOrWake \/ PowerRestart

PowerSpec == PowerInit /\ [][PowerNext]_powerVars

\* What is being cut is off in the end.
PowerFairSpec == PowerSpec /\ WF_powerVars(SwitchedOff)

=============================================================================
