------------------------------ MODULE HmcTimeSync ------------------------------
(***************************************************************************)
(* hmc-time-sync, the program that sends the BMC's time to the HMC in an   *)
(* HTTP PATCH, and the units that run it: set-hmc-time.service, a oneshot  *)
(* service with Restart=on-failure and a start limit, and set-hmc-time.    *)
(* timer, which starts it an hour after its last start.                    *)
(*                                                                         *)
(* Time is counted in the units of the constants, and passes (Tick) when   *)
(* nothing is due.  The HMC comes and goes, the BMC's clock may be set.    *)
(*                                                                         *)
(* An assumption on the environment: an HMC that is up answers a PATCH     *)
(* with a 2xx, within the transfer timeout.  One that answers something    *)
(* else, or later, counts as not up: the program treats it like one that   *)
(* is not there.                                                           *)
(***************************************************************************)
EXTENDS Naturals

CONSTANTS
    MaxAttempts,     \* maxAttempts, 10
    RetryDelay,      \* retryDelaySec, 5 s
    Timeout,         \* transferTimeoutSec, 5 s
    Hour,            \* OnUnitActiveSec, 1 h
    Burst,           \* StartLimitBurst, 5
    LimitIntervals   \* StartLimitIntervalSec, 300 s, or 10 s: see interval

ASSUME HmcAssumption ==
    /\ MaxAttempts \in Nat \ {0} /\ RetryDelay \in Nat /\ Timeout \in Nat
    /\ Hour \in Nat /\ Burst \in Nat \ {0}
    /\ LimitIntervals \subseteq Nat
    /\ Timeout + RetryDelay <= Hour
    /\ \A i \in LimitIntervals : i < Hour

VARIABLES
    phase,      \* of the service: inactive, queued to be started, or the program
                \* is in patchHmcTime or sleeps between two attempts
    attempt,    \* the loop variable of main
    age,        \* time in this phase
    bodyAge,    \* time since the body of the last PATCH was written
    current,    \* has the BMC's clock not been set since?
    reached,    \* has the HMC been up since?
    applied,    \* has the HMC applied this PATCH?
    sinceStart, \* time since the last start of the service
    window,     \* time since the start limit began to count
    starts,     \* starts it has counted
    interval,   \* the interval of the start limit.  The unit has it in [Service],
                \* where systemd does not know it: the default may hold.
    up,         \* is the HMC up?
    synced,     \* has it the time of the BMC, but for the lag?
    lag,        \* how far the HMC's clock was behind what it was set to
    behind,     \* how long it has been up without it, since it came up or the
                \* BMC's clock was set
    caught      \* has it come up while the program was trying to send the BMC's
                \* present time, which has not been set again?

program == <<phase, attempt, age, bodyAge, current, reached, applied>>
limits  == <<sinceStart, window, starts, interval>>
hmc     == <<up, synced, lag, behind, caught>>
vars    == <<program, limits, hmc>>

Init ==
    /\ phase = "queued"
    /\ attempt = 0 /\ age = 0
    /\ bodyAge = 0 /\ current = TRUE /\ reached = FALSE /\ applied = FALSE
    /\ sinceStart = 0 /\ window = 0 /\ starts = 0
    /\ interval \in LimitIntervals
    /\ up \in BOOLEAN /\ synced = FALSE /\ lag = 0 /\ behind = 0 /\ caught = FALSE

Enter(p) == phase' = p /\ age' = 0

--------------------------------------------------------------------------------
(* The program                                                             *)

\* Deviation: the time is taken once for all the attempts.
PatchOldBody(n) ==
    /\ Enter("patching")
    /\ attempt' = n
    /\ bodyAge' = IF n = 1 THEN 0 ELSE bodyAge
    /\ current' = (n = 1 \/ current)
    /\ reached' = up /\ applied' = FALSE

\* An attempt begins: the body is written, with the time of now.
Patch(n) ==
    /\ Enter("patching")
    /\ attempt' = n
    /\ bodyAge' = 0 /\ current' = TRUE
    /\ reached' = up /\ applied' = FALSE

\* Deviation: the hour counts from the end of the service.
SucceedLate ==
    /\ phase = "patching" /\ applied
    /\ Enter("inactive")
    /\ sinceStart' = 0
    /\ UNCHANGED <<attempt, bodyAge, current, reached, applied, window, starts, interval,
                   hmc>>

\* HTTP 2xx: exit status 0
Succeed ==
    /\ phase = "patching" /\ applied
    /\ Enter("inactive")
    /\ UNCHANGED <<attempt, bodyAge, current, reached, applied, limits, hmc>>

\* Deviation: the program ends with status 0 in any case.
AfterLastIgnored == "inactive"

\* Exit status 1, and Restart=on-failure
AfterLast == "queued"

\* Deviation: one attempt too many.
OneMoreAttempt == attempt <= MaxAttempts

MoreAttempts == attempt < MaxAttempts

\* curl fails, at once or later, or the HMC answers no 2xx, if the HMC was not there all
\* the time.  (By the assumption above it was there only if it would have accepted.)
Fail ==
    /\ phase = "patching" /\ ~reached
    /\ Enter(IF MoreAttempts THEN "sleeping" ELSE AfterLast)
    /\ UNCHANGED <<attempt, bodyAge, current, reached, applied, limits, hmc>>

Retry ==
    /\ phase = "sleeping" /\ age = RetryDelay
    /\ Patch(attempt + 1)
    /\ UNCHANGED <<limits, hmc>>

--------------------------------------------------------------------------------
(* systemd                                                                 *)

\* Deviation: the limit counts all the starts there have been.
BelowEver == starts < Burst

\* Is the start below the limit?
Below == starts = 0 \/ window > interval \/ starts < Burst

StartService ==
    /\ phase = "queued" /\ Below
    /\ Patch(1)
    /\ sinceStart' = 0
    /\ IF starts = 0 \/ window > interval
       THEN window' = 0 /\ starts' = 1
       ELSE starts' = starts + 1 /\ UNCHANGED window
    /\ UNCHANGED <<interval, hmc>>

RefuseStart ==
    /\ phase = "queued" /\ ~Below
    /\ Enter("inactive")
    /\ UNCHANGED <<attempt, bodyAge, current, reached, applied, limits, hmc>>

Elapse ==
    /\ phase = "inactive" /\ sinceStart >= Hour
    /\ Enter("queued")
    /\ UNCHANGED <<attempt, bodyAge, current, reached, applied, limits, hmc>>

--------------------------------------------------------------------------------
(* The HMC, the BMC's clock, and time                                      *)

Apply ==
    /\ phase = "patching" /\ up /\ ~applied
    /\ applied' = TRUE
    /\ synced' = current /\ lag' = bodyAge
    /\ behind' = IF current THEN 0 ELSE behind
    /\ UNCHANGED <<phase, attempt, age, bodyAge, current, reached, limits, up, caught>>

ComeUp ==
    /\ ~up
    /\ up' = TRUE /\ synced' = FALSE /\ behind' = 0
    /\ caught' = (phase # "inactive" /\ (phase = "patching" => current /\ ~applied))
    /\ UNCHANGED <<program, limits, lag>>
GoDown ==
    /\ up
    /\ up' = FALSE /\ reached' = FALSE /\ behind' = 0
    /\ UNCHANGED <<phase, attempt, age, bodyAge, current, applied, limits, synced, lag,
                   caught>>
SetClock ==
    /\ current' = FALSE /\ synced' = FALSE /\ behind' = 0 /\ caught' = FALSE
    /\ UNCHANGED <<phase, attempt, age, bodyAge, reached, applied, limits, up, lag>>

\* Something is due, and it will not wait.
Due == \/ phase = "queued"
       \/ phase = "patching" /\ age >= Timeout
       \/ phase = "sleeping" /\ age >= RetryDelay
       \/ phase = "inactive" /\ sinceStart >= Hour

\* "age" counts in the program, "window" up to where its value no longer matters.
Tick ==
    /\ ~Due
    /\ IF phase = "inactive" THEN UNCHANGED <<age, bodyAge>>
       ELSE age' = age + 1 /\ bodyAge' = bodyAge + 1
    /\ sinceStart' = sinceStart + 1
    /\ window' = IF window > interval THEN window ELSE window + 1
    /\ behind' = IF up /\ ~synced THEN behind + 1 ELSE 0
    /\ UNCHANGED <<phase, attempt, current, reached, applied, starts, interval, up, synced,
                   lag, caught>>

--------------------------------------------------------------------------------
System == Succeed \/ Fail \/ Retry \/ StartService \/ RefuseStart \/ Elapse
Next   == System \/ Apply \/ ComeUp \/ GoDown \/ SetClock \/ Tick

Spec == Init /\ [][Next]_vars

\* Program and systemd go on, an HMC that is up handles what it gets, time passes.
FairSpec == Spec /\ WF_vars(System) /\ WF_vars(Apply) /\ WF_vars(Tick)

--------------------------------------------------------------------------------
(* Properties                                                              *)

TypeOK ==
    /\ phase \in {"inactive", "queued", "patching", "sleeping"}
    /\ attempt \in 0 .. MaxAttempts
    /\ phase = "sleeping" => attempt < MaxAttempts
    /\ age \in Nat /\ bodyAge \in Nat /\ sinceStart \in Nat /\ window \in Nat
    /\ starts \in 0 .. Burst
    /\ interval \in LimitIntervals
    /\ lag \in Nat /\ behind \in Nat
    /\ current \in BOOLEAN /\ reached \in BOOLEAN /\ applied \in BOOLEAN
    /\ up \in BOOLEAN /\ synced \in BOOLEAN /\ caught \in BOOLEAN

\* However many attempts it takes, the HMC is never set to a time older than the
\* transfer timeout (hmc_time_sync.cpp:55-58, 74-75).
LagBounded == lag <= Timeout

\* An HMC that is up has the BMC's time an hour, and one transfer, after it came up or
\* the BMC's clock was set, whatever the start limit refused and whichever PATCH was
\* under way at that moment (hmc_time_sync.cpp:9-10 "re-triggered hourly").
SetWithinTheHour == behind <= Hour + Timeout

\* The start limit never refuses the start that the timer asks for, so that the service
\* always comes back (set-hmc-time.service:12, set-hmc-time.timer:5).
HourlyStartGranted == phase = "queued" /\ sinceStart >= Hour => Below

\* Why: an invariant that every step keeps.  A PATCH or a sleep has lasted as long as
\* its timer, what the HMC has waited it has waited since the body was written, the
\* service was started or the hour began, and the window began before the last start.
AgesInStep ==
    /\ phase = "patching" => age <= Timeout /\ bodyAge <= age
    /\ phase = "sleeping" => age <= RetryDelay /\ bodyAge <= Timeout + age
    /\ phase \in {"patching", "sleeping"} => bodyAge <= sinceStart
    /\ starts # 0 => window > interval \/ window >= sinceStart

WaitedInStep ==
    /\ reached => up
    /\ ~up \/ synced => behind = 0
    /\ phase = "patching" =>
         IF reached /\ current
         THEN behind <= Hour + age /\ (applied => synced)
         ELSE behind <= bodyAge
    /\ phase = "sleeping" => behind <= bodyAge
    /\ phase \in {"queued", "inactive"} => behind <= Hour /\ behind <= sinceStart

HmcInv == AgesInStep /\ WaitedInStep /\ LagBounded

\* Do even the fastest failures not meet the start limit?
Span == (MaxAttempts - 1) * RetryDelay
Slow == interval < Burst * Span

\* Then an HMC that comes up while the program is trying is set by its next attempt,
\* unless it goes down or the BMC's clock is set before (set-hmc-time.service:11-13).
SetWhenUp == Slow /\ caught => behind <= Timeout + RetryDelay + Timeout

\* Why: the window has lasted as long as the attempts of the starts it counts,
FailuresTakeTime ==
    /\ phase \in {"patching", "sleeping"} => attempt # 0 /\ starts # 0
    /\ starts # 0 /\ window <= interval =>
         /\ phase = "patching" => window >= (starts - 1) * Span + (attempt - 1) * RetryDelay
         /\ phase = "sleeping" =>
              window >= (starts - 1) * Span + (attempt - 1) * RetryDelay + age
         /\ phase = "queued" => window >= starts * Span

\* and an HMC that was caught waits for one attempt, one sleep and the next attempt.
CaughtInStep ==
    /\ caught /\ phase = "patching" => current
    /\ Slow /\ caught /\ up /\ ~synced =>
         /\ phase = "patching" =>
              /\ ~applied
              /\ behind <= IF reached THEN Timeout + RetryDelay + age ELSE age
         /\ phase = "sleeping" => behind <= Timeout + age
         /\ phase = "queued" => behind <= Timeout
         /\ phase # "inactive"

\* An HMC that stays up gets the BMC's time, once that is no longer set.
EventuallySet == <>[]up /\ <>[][~SetClock]_vars => <>[]synced

================================================================================
