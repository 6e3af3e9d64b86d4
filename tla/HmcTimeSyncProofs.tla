--------------------------- MODULE HmcTimeSyncProofs ---------------------------
(***************************************************************************)
(* Theorems about HmcTimeSync, for all numbers of attempts, delays,        *)
(* timeouts and start limits that HmcAssumption allows.                    *)
(***************************************************************************)
EXTENDS HmcTimeSync, TLAPS

\* Every step keeps the types.
LEMMA TypeStep == TypeOK /\ [Next]_vars => TypeOK'
<1> SUFFICES ASSUME TypeOK, [Next]_vars PROVE TypeOK'
  OBVIOUS
<1> USE HmcAssumption DEF TypeOK, Enter, program, limits, hmc
<1>1. CASE Succeed
  BY <1>1 DEF Succeed
<1>2. CASE Fail
  BY <1>2 DEF Fail, AfterLast, MoreAttempts
<1>a. ASSUME NEW n \in 0 .. MaxAttempts, Patch(n)
      PROVE  /\ phase' = "patching" /\ attempt' \in 0 .. MaxAttempts
             /\ age' \in Nat /\ bodyAge' \in Nat
             /\ current' \in BOOLEAN /\ reached' \in BOOLEAN /\ applied' \in BOOLEAN
  BY <1>a DEF Patch
<1>3. CASE Retry
  <2>1. attempt + 1 \in 0 .. MaxAttempts
    BY <1>3 DEF Retry
  <2> QED BY <1>3, <1>a, <2>1 DEF Retry
<1>4. CASE StartService
  <2>1. 1 \in 0 .. MaxAttempts
    OBVIOUS
  <2>2. sinceStart' \in Nat /\ window' \in Nat /\ starts' \in 0 .. Burst
    BY <1>4 DEF StartService, Below
  <2> QED BY <1>4, <1>a, <2>1, <2>2 DEF StartService
<1>5. CASE RefuseStart \/ Elapse
  BY <1>5 DEF RefuseStart, Elapse
<1>6. CASE Apply
  BY <1>6 DEF Apply
<1>7. CASE ComeUp
  BY <1>7 DEF ComeUp
<1>8. CASE GoDown
  BY <1>8 DEF GoDown
<1>9. CASE SetClock
  BY <1>9 DEF SetClock
<1>10. CASE Tick
  BY <1>10 DEF Tick
<1>11. CASE UNCHANGED vars
  BY <1>11 DEF vars
<1> QED BY <1>1, <1>2, <1>3, <1>4, <1>5, <1>6, <1>7, <1>8, <1>9, <1>10, <1>11
        DEF Next, System

\* Every variable has its type.
THEOREM TypeCorrect == Spec => []TypeOK
<1>1. Init => TypeOK
  <2>1. 0 \in 0 .. MaxAttempts /\ 0 \in 0 .. Burst /\ 0 \in Nat
    BY HmcAssumption
  <2> QED BY <2>1 DEF Init, TypeOK
<1> QED BY <1>1, TypeStep, PTL DEF Spec

\* How long phases last, and that the window of the start limit begins with a start.
LEMMA AgesStep == TypeOK /\ AgesInStep /\ [Next]_vars => AgesInStep'
<1> SUFFICES ASSUME TypeOK, AgesInStep, [Next]_vars PROVE AgesInStep'
  OBVIOUS
<1> USE HmcAssumption DEF TypeOK, AgesInStep, Enter, program, limits, hmc
<1>1. CASE Succeed \/ RefuseStart \/ Elapse
  BY <1>1 DEF Succeed, RefuseStart, Elapse
<1>2. CASE Fail
  BY <1>2 DEF Fail, AfterLast
<1>3. CASE Retry
  BY <1>3 DEF Retry, Patch
<1>4. CASE StartService
  BY <1>4 DEF StartService, Patch
<1>5. CASE Apply \/ ComeUp \/ GoDown \/ SetClock
  BY <1>5 DEF Apply, ComeUp, GoDown, SetClock
<1>6. CASE Tick
  BY <1>6 DEF Tick, Due
<1>7. CASE UNCHANGED vars
  BY <1>7 DEF vars
<1> QED BY <1>1, <1>2, <1>3, <1>4, <1>5, <1>6, <1>7 DEF Next, System

\* How long the HMC has waited.
LEMMA WaitedStep ==
    TypeOK /\ TypeOK' /\ AgesInStep /\ WaitedInStep /\ [Next]_vars => WaitedInStep'
<1> SUFFICES ASSUME TypeOK, TypeOK', AgesInStep, WaitedInStep, [Next]_vars
             PROVE  WaitedInStep'
  OBVIOUS
<1> USE HmcAssumption DEF TypeOK, AgesInStep, WaitedInStep, Enter, program, limits, hmc
<1>1. CASE Succeed
  BY <1>1 DEF Succeed
<1>2. CASE Fail
  BY <1>2 DEF Fail, AfterLast
<1>3. CASE Retry
  BY <1>3 DEF Retry, Patch
<1>4. CASE StartService
  BY <1>4 DEF StartService, Patch
<1>5. CASE RefuseStart \/ Elapse
  BY <1>5 DEF RefuseStart, Elapse
<1>6. CASE Apply
  BY <1>6 DEF Apply
<1>7. CASE ComeUp
  BY <1>7 DEF ComeUp
<1>8. CASE GoDown
  BY <1>8 DEF GoDown
<1>9. CASE SetClock
  BY <1>9 DEF SetClock
<1>10. CASE Tick
  <2>1. /\ UNCHANGED <<phase, up, synced, reached, current, applied>>
        /\ behind' = IF up /\ ~synced THEN behind + 1 ELSE 0
        /\ sinceStart' = sinceStart + 1
        /\ phase # "inactive" => age' = age + 1 /\ bodyAge' = bodyAge + 1
        /\ phase # "queued"
        /\ phase = "inactive" => sinceStart < Hour
    BY <1>10 DEF Tick, Due
  <2>2. ~up \/ synced => behind' = 0
    BY <2>1
  <2>3. up /\ ~synced => behind' = behind + 1
    BY <2>1
  <2>4. CASE phase = "patching"
    BY <2>1, <2>2, <2>3, <2>4
  <2>5. CASE phase = "sleeping"
    BY <2>1, <2>2, <2>3, <2>5
  <2>6. CASE phase = "inactive"
    BY <2>1, <2>2, <2>3, <2>6
  <2> QED BY <2>1, <2>4, <2>5, <2>6
<1>11. CASE UNCHANGED vars
  BY <1>11 DEF vars
<1> QED BY <1>1, <1>2, <1>3, <1>4, <1>5, <1>6, <1>7, <1>8, <1>9, <1>10, <1>11
        DEF Next, System

LEMMA HmcInvariant == Spec => [](TypeOK /\ AgesInStep /\ WaitedInStep)
<1>1. Init => AgesInStep /\ WaitedInStep
  BY HmcAssumption DEF Init, AgesInStep, WaitedInStep
<1> QED BY <1>1, AgesStep, WaitedStep, TypeCorrect, PTL DEF Spec

\* The HMC is never set to a time older than the transfer timeout, whenever it comes
\* and goes and however many attempts it takes.
THEOREM LagAlwaysBounded == Spec => []LagBounded
<1>1. Init => LagBounded
  BY HmcAssumption DEF Init, LagBounded
<1>2. TypeOK /\ AgesInStep /\ LagBounded /\ [Next]_vars => LagBounded'
  <2> SUFFICES ASSUME TypeOK, AgesInStep, LagBounded, [Next]_vars PROVE LagBounded'
    OBVIOUS
  <2>1. CASE Apply
    BY <2>1, HmcAssumption DEF Apply, TypeOK, AgesInStep, LagBounded
  <2>2. CASE UNCHANGED lag
    BY <2>2 DEF LagBounded
  <2> QED BY <2>1, <2>2 DEF Next, System, Succeed, Fail, Retry, StartService, RefuseStart,
               Elapse, ComeUp, GoDown, SetClock, Tick, vars, hmc
<1> QED BY <1>1, <1>2, HmcInvariant, PTL DEF Spec

\* An HMC that is up has the BMC's time an hour and one transfer after it came up or
\* the BMC's clock was set, whatever the start limit.
THEOREM AlwaysSetWithinTheHour == Spec => []SetWithinTheHour
<1>1. TypeOK /\ AgesInStep /\ WaitedInStep => SetWithinTheHour
  BY HmcAssumption DEF TypeOK, AgesInStep, WaitedInStep, SetWithinTheHour
<1> QED BY <1>1, HmcInvariant, PTL

\* The start limit never refuses the timer's start.
THEOREM HourlyStartAlwaysGranted == Spec => []HourlyStartGranted
<1>1. TypeOK /\ AgesInStep => HourlyStartGranted
  BY HmcAssumption DEF TypeOK, AgesInStep, HourlyStartGranted, Below
<1> QED BY <1>1, HmcInvariant, PTL

--------------------------------------------------------------------------------
(* Time is never held up: a bound on time says nothing of a model in which  *)
(* time stops, and these bounds are on time.                                *)

\* Whatever is due has a step of its own: what a PATCH waits for when its transfer times
\* out is an answer, or the end of a connection that the HMC did not keep up.
DueIsDone ==
    Due => \/ phase = "patching" /\ applied            \* Succeed
           \/ phase = "patching" /\ ~reached           \* Fail
           \/ phase = "patching" /\ up /\ ~applied     \* Apply
           \/ phase = "sleeping" /\ age = RetryDelay   \* Retry
           \/ phase = "queued" /\ Below                \* StartService
           \/ phase = "queued" /\ ~Below               \* RefuseStart
           \/ phase = "inactive" /\ sinceStart >= Hour \* Elapse

\* The steps that program, systemd and HMC can take at one moment: those of the attempts
\* that are left to this start, and of the starts that are left to this window.
StartsLeft == IF starts = 0 \/ window > interval THEN Burst ELSE Burst - starts
StepsLeft  ==
    CASE phase = "patching" -> 3 * (MaxAttempts - attempt) + (IF applied THEN 3 ELSE 4)
      [] phase = "sleeping" -> 3 * (MaxAttempts - attempt) + 2
      [] phase = "queued"   -> 1
      [] phase = "inactive" -> IF sinceStart >= Hour THEN 2 ELSE 0
Round == 3 * MaxAttempts + 1
Work  == StartsLeft * Round + StepsLeft

\* Each such step leaves less of them.
WorkEnds == [][System \/ Apply => Work' < Work]_vars

LEMMA WorkNat ==
    ASSUME TypeOK
    PROVE  /\ StartsLeft \in Nat /\ Round \in Nat /\ StartsLeft * Round \in Nat
           /\ StepsLeft \in Nat /\ Work \in Nat
<1>1. StartsLeft \in Nat /\ Round \in Nat
  BY HmcAssumption DEF TypeOK, StartsLeft, Round
<1>2. StepsLeft \in Nat
  BY HmcAssumption DEF TypeOK, StepsLeft
<1>3. StartsLeft * Round \in Nat
  BY <1>1
<1> QED BY <1>1, <1>2, <1>3 DEF Work

\* A factor one smaller
LEMMA Less == \A b \in Nat, s \in Nat \ {0}, r \in Nat :
                  s <= b => (b - s) * r + r = (b - (s - 1)) * r
OBVIOUS

\* A start takes one from those that are left.
LEMMA StartTakesOne ==
    ASSUME TypeOK, TypeOK', StartService
    PROVE  StartsLeft' * Round + Round = StartsLeft * Round
<1>1. interval' = interval /\ interval \in Nat /\ window \in Nat /\ starts \in Nat
  BY HmcAssumption DEF StartService, TypeOK
<1>2. CASE starts = 0 \/ window > interval
  <2>1. window' = 0 /\ starts' = 1
    BY <1>2 DEF StartService
  <2> QED BY <1>1, <1>2, <2>1, HmcAssumption, Less DEF StartsLeft, Round
<1>3. CASE starts # 0 /\ window <= interval
  <2>1. window' = window /\ starts' = starts + 1 /\ starts < Burst
    BY <1>1, <1>3 DEF StartService, Below
  <2> QED BY <1>1, <1>3, <2>1, HmcAssumption, Less DEF StartsLeft, Round
<1> QED BY <1>1, <1>2, <1>3

LEMMA WorkStep ==
    ASSUME TypeOK, TypeOK', AgesInStep, System \/ Apply
    PROVE  Work' < Work
<1>1. CASE StartService
  <2>1. StepsLeft = 1 /\ StepsLeft' <= Round
    BY <1>1, HmcAssumption DEF StartService, Patch, Enter, StepsLeft, Round
  <2>2. StartsLeft' * Round \in Nat /\ StepsLeft' \in Nat
    BY WorkNat, <1>1, StartTakesOne, HmcAssumption DEF TypeOK, StartsLeft, StepsLeft, Round
  <2> QED BY <2>1, <2>2, <1>1, StartTakesOne, WorkNat DEF Work
<1>2. ASSUME UNCHANGED limits, StepsLeft' < StepsLeft, StepsLeft' \in Nat
      PROVE  Work' < Work
  <2>1. StartsLeft' = StartsLeft
    BY <1>2 DEF StartsLeft, limits
  <2> QED BY <2>1, <1>2, WorkNat DEF Work
<1> USE HmcAssumption DEF TypeOK, StepsLeft, Enter
<1>3. CASE Succeed
  BY <1>2, <1>3 DEF Succeed, limits
<1>4. CASE Fail
  BY <1>2, <1>4 DEF Fail, MoreAttempts, AfterLast, limits
<1>5. CASE Retry
  BY <1>2, <1>5 DEF Retry, Patch, limits
<1>6. CASE RefuseStart
  BY <1>2, <1>6 DEF RefuseStart, Below, AgesInStep, limits
<1>7. CASE Elapse
  BY <1>2, <1>7 DEF Elapse, limits
<1>8. CASE Apply
  BY <1>2, <1>8 DEF Apply, limits
<1> QED BY <1>1, <1>3, <1>4, <1>5, <1>6, <1>7, <1>8 DEF System

\* Time is never held up.  When something is due, a step of its own is possible, and at
\* one moment there are finitely many of them, however fast the attempts fail: the start
\* limit ends them even with a delay of 0 (set-hmc-time.service:11-13).
THEOREM TimeIsNeverHeldUp == Spec => [](DueIsDone /\ Work \in Nat) /\ WorkEnds
<1>1. TypeOK /\ AgesInStep /\ WaitedInStep => DueIsDone
  BY HmcAssumption DEF TypeOK, AgesInStep, WaitedInStep, DueIsDone, Due
<1>2. TypeOK => Work \in Nat
  BY WorkNat
<1>3. /\ TypeOK /\ TypeOK' /\ AgesInStep /\ [Next]_vars
      => [System \/ Apply => Work' < Work]_vars
  BY WorkStep
<1> QED BY <1>1, <1>2, <1>3, HmcInvariant, PTL DEF Spec, WorkEnds

--------------------------------------------------------------------------------
(* An HMC that comes up while the program is trying                        *)

LEMMA SpanNat == Span \in Nat /\ Burst * Span \in Nat
BY HmcAssumption DEF Span

\* The products that the next step adds up
LEMMA OneMore ==
    ASSUME NEW n \in Nat \ {0}, NEW d \in Nat
    PROVE  /\ (n - 1) * d \in Nat /\ n * d \in Nat
           /\ (n - 1) * d + d = n * d
OBVIOUS

\* Failures fill the window: attempts are a sleep apart.
LEMMA FailuresStep ==
    TypeOK /\ TypeOK' /\ AgesInStep /\ FailuresTakeTime /\ [Next]_vars => FailuresTakeTime'
<1> SUFFICES ASSUME TypeOK, TypeOK', AgesInStep, FailuresTakeTime, [Next]_vars
             PROVE  FailuresTakeTime'
  OBVIOUS
<1> USE HmcAssumption, SpanNat DEF TypeOK, FailuresTakeTime, Enter, program, limits, hmc
<1>1. CASE Succeed \/ RefuseStart
  BY <1>1 DEF Succeed, RefuseStart
<1>2. CASE Fail
  <2>1. /\ attempt # 0 /\ starts # 0 /\ UNCHANGED <<attempt, limits>> /\ age' = 0
        /\ phase = "patching"
    BY <1>2 DEF Fail
  <2>2. CASE MoreAttempts
    <3>1. phase' = "sleeping"
      BY <1>2, <2>2 DEF Fail
    <3> QED BY <2>1, <3>1
  <2>3. CASE ~MoreAttempts
    <3>1. phase' = "queued" /\ attempt = MaxAttempts
      BY <1>2, <2>3 DEF Fail, AfterLast, MoreAttempts
    <3>2. (starts - 1) * Span + (MaxAttempts - 1) * RetryDelay = starts * Span
      BY OneMore, <2>1 DEF Span
    <3> QED BY <2>1, <3>1, <3>2
  <2> QED BY <2>2, <2>3
<1>3. CASE Retry
  <2>1. /\ attempt # 0 /\ starts # 0 /\ attempt' = attempt + 1 /\ UNCHANGED limits
        /\ phase = "sleeping" /\ age = RetryDelay /\ phase' = "patching"
    BY <1>3 DEF Retry, Patch
  <2>2. (attempt - 1) * RetryDelay + RetryDelay = attempt * RetryDelay
    BY OneMore, <2>1
  <2>3. (starts - 1) * Span \in Nat /\ (attempt - 1) * RetryDelay \in Nat
    BY OneMore, <2>1
  <2>4. attempt' - 1 = attempt
    BY <2>1
  <2> QED BY <2>1, <2>2, <2>3, <2>4
<1>4. CASE StartService
  <2>1. phase = "queued" /\ phase' = "patching" /\ attempt' = 1 /\ interval' = interval
    BY <1>4 DEF StartService, Patch
  <2>2. CASE starts = 0 \/ window > interval
    <3>1. window' = 0 /\ starts' = 1
      BY <1>4, <2>2 DEF StartService
    <3> QED BY <2>1, <3>1
  <2>3. CASE starts # 0 /\ window <= interval
    <3>1. window' = window /\ starts' = starts + 1 /\ window >= starts * Span
      BY <1>4, <2>1, <2>3 DEF StartService
    <3>2. starts' - 1 = starts /\ (attempt' - 1) * RetryDelay = 0
      BY <2>1, <3>1
    <3>3. starts * Span \in Nat
      BY OneMore, <2>3
    <3> QED BY <2>1, <3>1, <3>2, <3>3
  <2>4. window \in Nat /\ interval \in Nat
    OBVIOUS
  <2> QED BY ONLY <2>2, <2>3, <2>4
<1>5. CASE Elapse
  <2>1. starts # 0 => window > interval
    BY <1>5 DEF Elapse, AgesInStep
  <2> QED BY <1>5, <2>1 DEF Elapse
<1>6. CASE Apply \/ ComeUp \/ GoDown \/ SetClock
  BY <1>6 DEF Apply, ComeUp, GoDown, SetClock
<1>7. CASE Tick
  <2>1. /\ UNCHANGED <<phase, attempt, starts, interval>>
        /\ window' = IF window > interval THEN window ELSE window + 1
        /\ phase # "inactive" => age' = age + 1
        /\ phase # "queued"
    BY <1>7 DEF Tick, Due
  <2>2. window \in Nat /\ interval \in Nat /\ age \in Nat
    OBVIOUS
  <2>3. window' <= interval' => window <= interval /\ window' = window + 1
    BY <2>1, <2>2
  <2>4. starts # 0 => (starts - 1) * Span \in Nat
    BY OneMore
  <2>5. attempt # 0 => (attempt - 1) * RetryDelay \in Nat
    BY OneMore
  <2>6. CASE phase = "patching"
    BY <2>1, <2>2, <2>3, <2>4, <2>5, <2>6
  <2>7. CASE phase = "sleeping"
    BY <2>1, <2>2, <2>3, <2>4, <2>5, <2>7
  <2>8. CASE phase = "inactive"
    BY <2>1, <2>8
  <2> QED BY <2>1, <2>6, <2>7, <2>8
<1>8. CASE UNCHANGED vars
  BY <1>8 DEF vars
<1> QED BY <1>1, <1>2, <1>3, <1>4, <1>5, <1>6, <1>7, <1>8 DEF Next, System

\* Then the limit refuses nothing.
LEMMA SlowGranted ==
    ASSUME TypeOK, AgesInStep, FailuresTakeTime, Slow
    PROVE  ~RefuseStart
<1> SUFFICES ASSUME RefuseStart PROVE FALSE
  OBVIOUS
<1>1. starts = Burst /\ starts # 0 /\ window <= interval /\ phase = "queued"
  BY HmcAssumption DEF RefuseStart, Below, TypeOK
<1>2. window >= Burst * Span
  BY <1>1 DEF FailuresTakeTime
<1> QED BY <1>1, <1>2, SpanNat, HmcAssumption DEF Slow, TypeOK

\* How long an HMC waits that came up while the program was trying.
LEMMA CaughtStep ==
    /\ TypeOK /\ TypeOK' /\ AgesInStep /\ WaitedInStep /\ WaitedInStep'
    /\ FailuresTakeTime /\ CaughtInStep /\ [Next]_vars
    => CaughtInStep'
<1> SUFFICES ASSUME TypeOK, TypeOK', AgesInStep, WaitedInStep, WaitedInStep',
                    FailuresTakeTime, CaughtInStep, [Next]_vars
             PROVE  CaughtInStep'
  OBVIOUS
<1>0. Slow' => Slow
  <2>1. interval' = interval
    BY DEF Next, System, Succeed, Fail, Retry, StartService, RefuseStart, Elapse, Apply,
           ComeUp, GoDown, SetClock, Tick, vars, limits
  <2> QED BY <2>1 DEF Slow
<1> USE HmcAssumption, <1>0 DEF TypeOK, CaughtInStep, Enter, program, limits, hmc
<1>1. CASE Succeed
  BY <1>1 DEF Succeed
<1>2. CASE Fail
  BY <1>2 DEF Fail, AfterLast, AgesInStep
<1>3. CASE Retry
  BY <1>3 DEF Retry, Patch
<1>4. CASE StartService
  BY <1>4 DEF StartService, Patch
<1>5. CASE RefuseStart
  BY <1>5, SlowGranted DEF RefuseStart
<1>6. CASE Elapse
  BY <1>6 DEF Elapse
<1>7. CASE Apply
  BY <1>7 DEF Apply
<1>8. CASE ComeUp
  BY <1>8 DEF ComeUp, AgesInStep, WaitedInStep
<1>9. CASE GoDown \/ SetClock
  BY <1>9 DEF GoDown, SetClock
<1>10. CASE Tick
  <2>1. /\ UNCHANGED <<phase, reached, current, applied, up, synced, caught>>
        /\ up /\ ~synced => behind' = behind + 1
        /\ phase # "inactive" => age' = age + 1
        /\ phase # "queued"
    BY <1>10 DEF Tick, Due
  <2>2. CASE phase = "patching"
    BY <2>1, <2>2
  <2>3. CASE phase = "sleeping"
    BY <2>1, <2>3
  <2>4. CASE phase = "inactive"
    BY <2>1, <2>4
  <2> QED BY <2>1, <2>2, <2>3, <2>4
<1>11. CASE UNCHANGED vars
  BY <1>11 DEF vars
<1> QED BY <1>1, <1>2, <1>3, <1>4, <1>5, <1>6, <1>7, <1>8, <1>9, <1>10, <1>11
        DEF Next, System

\* When even the fastest failures do not meet the start limit, an HMC that comes up while
\* the program is trying is set by the next attempt (SetWhenUp of the runs).
THEOREM AlwaysSetWhenUp == Spec => []SetWhenUp
<1>1. Init => FailuresTakeTime /\ CaughtInStep
  BY HmcAssumption DEF Init, FailuresTakeTime, CaughtInStep
<1>2. TypeOK /\ AgesInStep /\ WaitedInStep /\ CaughtInStep => SetWhenUp
  BY HmcAssumption DEF TypeOK, AgesInStep, WaitedInStep, CaughtInStep, SetWhenUp
<1> QED BY <1>1, <1>2, FailuresStep, CaughtStep, HmcInvariant, PTL DEF Spec

================================================================================
