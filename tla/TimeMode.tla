-------------------------------- MODULE TimeMode --------------------------------
(***************************************************************************)
(* What phosphor-time-manager promises its users (README.md, "Time        *)
(* settings"): the BMC has one time mode, the one that was asked for last, *)
(* of the settings daemon or of timedated.                                 *)
(* The stored setting, the daemon's own mode and the NTP service follow    *)
(* it, and in NTP mode the clock is not set.  Signals, jobs, the start and *)
(* the end of the daemon are not visible here, only that it takes a while. *)
(***************************************************************************)
EXTENDS Naturals

CONSTANT Modes      \* NTP and Manual

VARIABLES
    chosen,         \* the mode asked for last
    settled,        \* have all followed it?
    setting, timeMode, ntp,     \* what follows it
    sets            \* how often the clock was set

views == <<setting, timeMode, ntp>>
vars  == <<chosen, settled, views, sets>>

\* The views are at any modes.
Unsettled == ~settled' /\ setting' \in Modes /\ timeMode' \in Modes /\ ntp' \in Modes

Agree == setting = chosen /\ timeMode = chosen /\ ntp = chosen

Init ==
    /\ chosen \in Modes /\ setting \in Modes /\ timeMode \in Modes /\ ntp \in Modes
    /\ settled = FALSE
    /\ sets = 0

\* Somebody asks for a mode, of the settings daemon or of timedated.
Choose ==
    /\ settled
    /\ chosen' \in Modes
    /\ Unsettled
    /\ UNCHANGED sets

\* The daemon is at work, or it ends and is started again.
Follow ==
    /\ Unsettled
    /\ UNCHANGED <<chosen, sets>>

Settle ==
    /\ ~settled
    /\ settled' = TRUE /\ Agree'
    /\ UNCHANGED <<chosen, sets>>

SetClock ==
    /\ settled => chosen = "Manual"
    /\ sets' = sets + 1
    /\ UNCHANGED <<chosen, settled, views>>

Next == Choose \/ Follow \/ Settle \/ SetClock

\* It always settles again.
Spec == Init /\ [][Next]_vars /\ []<>settled

================================================================================
