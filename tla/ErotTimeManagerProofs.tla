------------------------- MODULE ErotTimeManagerProofs -------------------------
(***************************************************************************)
(* What TLAPS proves of ErotTimeManager, for every set of endpoints, every *)
(* way requests end and fail, and every bound: typing, and that no ERoT is *)
(* ever set back (from TimesInOrder).  Where requests are sent and succeed:*)
(* that no list is lost (from ListsInOrder); and in a calm environment     *)
(* that all known ERoTs have the BMC's time at rest (from ToldOrListed).   *)
(***************************************************************************)
EXTENDS ErotTimeManager, WellFoundedInduction, TLAPS

USE ErotAssumption

\* The outcome of an assignment to erot is a time that was sent.
LEMMA ToldType ==
    ASSUME NEW a \in EIDs \cup Garbage \cup {None}, TypeOK, NEW t \in Sent(a)
    PROVE  Told(a, t) \in [UUIDs -> 0 .. MaxTime]
<1>1. t \in 0 .. MaxTime
  BY DEF Sent, TypeOK
<1> QED BY <1>1 DEF Told, TypeOK

\* The variables keep their types, for every value of the constants.
LEMMA TypeStep == TypeOK /\ [Next]_vars => TypeOK'
<1> SUFFICES ASSUME TypeOK, [Next]_vars PROVE TypeOK'
  OBVIOUS
<1> USE DEF contract, bmc, work
<1>1. CASE NextList
  <2>1. Tail(queue) \in Seq(SUBSET EIDs) /\ Head(Tail(queue)) \in SUBSET EIDs
    BY <1>1 DEF NextList, TypeOK
  <2> QED BY <2>1, <1>1 DEF NextList, TypeOK, Contract!TypeOK
<1>2. CASE EndTask
  <2>1. queue' = <<>> \/ queue' = queue
    BY <1>2 DEF EndTask
  <2>2. queue' \in Seq(SUBSET EIDs)
    <3>1. <<>> \in Seq(SUBSET EIDs) /\ queue \in Seq(SUBSET EIDs)
      BY DEF TypeOK
    <3>2. CASE queue' = <<>>
      BY <3>1, <3>2
    <3>3. CASE queue' = queue
      BY <3>1, <3>3
    <3> QED BY <2>1, <3>2, <3>3
  <2>3. /\ client' = "none" /\ task' = "none"
        /\ UNCHANGED <<asked, outcome, bmc, rest, elapsed, recent, known, handling,
                       signals, unsent, erot>>
    BY <1>2 DEF EndTask, Contract!Finish
  <2> QED BY <2>2, <2>3 DEF TypeOK, Contract!TypeOK
<1>3. CASE Resume
  <2>1. erot' \in [UUIDs -> 0 .. MaxTime]
    <3>1. PICK t \in Sent(asked) : erot' = erot \/ erot' = Told(asked, t)
      BY <1>3 DEF Resume, Handled
    <3>2. asked \in EIDs \cup Garbage \cup {None}
      BY DEF TypeOK, Contract!TypeOK
    <3>3. Told(asked, t) \in [UUIDs -> 0 .. MaxTime]
      BY <3>2, ToldType
    <3> QED BY <3>1, <3>3 DEF TypeOK
  <2>2. known' \subseteq EIDs
    BY <1>3 DEF Resume, Handled, TypeOK, Forget
  <2>3. unsent' \in [EIDs -> SUBSET (0 .. MaxTime)]
    <3>1. CASE UNCHANGED unsent
      BY <3>1 DEF TypeOK
    <3>2. CASE /\ asked \in EIDs
               /\ \E left \in SUBSET unsent[asked] :
                     unsent' = [unsent EXCEPT ![asked] = left]
      <4>1. PICK left \in SUBSET unsent[asked] :
                    unsent' = [unsent EXCEPT ![asked] = left]
        BY <3>2
      <4>2. left \in SUBSET (0 .. MaxTime)
        BY <3>2, <4>1 DEF TypeOK
      <4> QED BY <4>1, <4>2 DEF TypeOK
    <3>3. UNCHANGED unsent \/ \E left \in SUBSET unsent[asked] :
                                  unsent' = [unsent EXCEPT ![asked] = left]
      BY <1>3 DEF Resume, Handled
    <3>4. asked \in EIDs \/ UNCHANGED unsent
      BY <1>3 DEF Resume, Handled
    <3> QED BY <3>1, <3>2, <3>3, <3>4
  <2> QED BY <2>1, <2>2, <2>3, <1>3 DEF Resume, Handled, TypeOK, Contract!TypeOK, Contract!Resume
<1>4. ASSUME NEW e \in EIDs, Ask(e) PROVE TypeOK'
  <2>1. PICK a \in Read(e) : Contract!Ask(a)
    BY <1>4 DEF Ask
  <2>2. a \in EIDs \cup Garbage
    BY <2>1 DEF Read
  <2> QED BY <2>1, <2>2, <1>4 DEF Ask, TypeOK, Contract!TypeOK, Contract!Ask
<1>5. ASSUME NEW e \in EIDs, AskFails(e) PROVE TypeOK'
  <2>1. unsent' \in [EIDs -> SUBSET (0 .. MaxTime)]
    <3>1. \/ unsent' = unsent
          \/ \E a \in EIDs : unsent' = [unsent EXCEPT ![a] = @ \cup {elapsed}]
      BY <1>5 DEF AskFails
    <3>2. ASSUME NEW a \in EIDs, unsent' = [unsent EXCEPT ![a] = @ \cup {elapsed}]
          PROVE  unsent' \in [EIDs -> SUBSET (0 .. MaxTime)]
      <4>1. unsent[a] \cup {elapsed} \in SUBSET (0 .. MaxTime)
        BY DEF TypeOK
      <4> QED BY <3>2, <4>1 DEF TypeOK
    <3> QED BY <3>1, <3>2 DEF TypeOK
  <2> QED BY <2>1, <1>5 DEF AskFails, TypeOK, Contract!TypeOK
<1>6. CASE SkipTimeChange
  BY <1>6 DEF SkipTimeChange, TypeOK, Contract!TypeOK
<1>7. CASE HandleTimeChange
  <2>1. rest' \subseteq EIDs
    BY <1>7 DEF HandleTimeChange, Tops, TypeOK
  <2>2. elapsed' \in 0 .. MaxTime
    BY <1>7 DEF HandleTimeChange, TypeOK, Now
  <2> QED BY <2>1, <2>2, <1>7 DEF HandleTimeChange, TypeOK, Contract!TypeOK, Contract!Start
<1>8. CASE ReturnToHandleTimeChange
  BY <1>8 DEF ReturnToHandleTimeChange, TypeOK, Contract!TypeOK
<1>9. ASSUME NEW S \in SUBSET EIDs, QueueEndpoints(S)
      PROVE /\ queue' \in Seq(SUBSET EIDs) /\ Head(queue') \in SUBSET EIDs
            /\ known' \subseteq EIDs /\ signals' \in 0 .. MaxSignals
            /\ UNCHANGED <<bmc, recent, handling, unsent, erot>>
  BY <1>9 DEF QueueEndpoints, TypeOK
<1>10. ASSUME NEW S \in SUBSET EIDs, HandleMctpEndpointsBusy(S) PROVE TypeOK'
  BY <1>9, <1>10 DEF HandleMctpEndpointsBusy, TypeOK, Contract!TypeOK
<1>11. ASSUME NEW S \in SUBSET EIDs, HandleMctpEndpoints(S) PROVE TypeOK'
  <2>1. QueueEndpoints(S)
    BY <1>11 DEF HandleMctpEndpoints
  <2>2. CASE UNCHANGED <<contract, work>>
    BY <2>1, <2>2, <1>9 DEF TypeOK, Contract!TypeOK
  <2>3. CASE Contract!Start /\ task' = "endpoints" /\ elapsed' = Elapsed
             /\ rest' = Head(queue')
    <3>1. rest' \subseteq EIDs
      BY <2>1, <2>3, <1>9
    <3>2. elapsed' \in 0 .. MaxTime
      BY <2>3 DEF TypeOK, Elapsed
    <3> QED BY <3>1, <3>2, <2>1, <2>3, <1>9 DEF TypeOK, Contract!TypeOK, Contract!Start
  <2> QED BY <2>2, <2>3, <1>11 DEF HandleMctpEndpoints
<1>12. CASE Decide
  BY <1>12 DEF Decide, TypeOK, Contract!TypeOK, Contract!Decide
<1>13. CASE TimeChanges
  BY <1>13 DEF TimeChanges, TypeOK, Contract!TypeOK
<1>14. CASE IntervalElapses
  BY <1>14 DEF IntervalElapses, TypeOK, Contract!TypeOK
<1>15. CASE Restart
  <2>1. recent' \in BOOLEAN
    BY <1>15, Zenon DEF Restart, TypeOK
  <2>2. changed' \in BOOLEAN /\ handling' \in BOOLEAN
    BY <1>15, Zenon DEF Restart
  <2>3. /\ Contract!Restart
        /\ known' = {} /\ queue' = <<>> /\ signals' = 0
        /\ task' = "none" /\ rest' = {} /\ elapsed' = 0
        /\ unsent' = [e \in EIDs |-> {}]
        /\ UNCHANGED <<time, erot>>
    BY <1>15 DEF Restart
  <2>4. queue' \in Seq(SUBSET EIDs) /\ signals' \in 0 .. MaxSignals
    BY <2>3
  <2> QED BY <2>1, <2>2, <2>3, <2>4 DEF TypeOK, Contract!TypeOK, Contract!Restart
<1>16. CASE UNCHANGED vars
  BY <1>16 DEF vars, TypeOK, Contract!TypeOK
<1> QED BY <1>1, <1>2, <1>3, <1>4, <1>5, <1>6, <1>7, <1>8, <1>10, <1>11, <1>12, <1>13,
           <1>14, <1>15, <1>16 DEF Next, Coroutine, EventHandler, Discovery, Found

LEMMA InitType == Init => TypeOK
<1> SUFFICES ASSUME Init PROVE TypeOK
  OBVIOUS
<1>1. changed \in BOOLEAN /\ recent \in BOOLEAN /\ handling \in BOOLEAN
  BY Zenon DEF Init
<1> QED BY <1>1 DEF Init, TypeOK, Contract!TypeOK, Contract!Init

\* Typing, whatever fails, for any endpoints and bounds.
THEOREM TypeCorrect == Spec => []TypeOK
<1> QED BY InitType, TypeStep, PTL DEF Spec

\* No ERoT, and no request that was left behind, is ahead of the BMC, and none is
\* ahead of the time that the task under way sends: that was read after every time
\* that had been sent or left before.
TimesInOrder ==
    /\ elapsed <= time
    /\ \A u \in UUIDs : erot[u] <= time
    /\ \A e \in EIDs : \A t \in unsent[e] : t <= time
    /\ client # "none" => /\ \A u \in UUIDs : erot[u] <= elapsed
                         /\ \A e \in EIDs : \A t \in unsent[e] : t <= elapsed

\* An ERoT keeps its time, gets a newer one, or one in a request left behind.
Kept(u) == \/ erot'[u] >= erot[u]
           \/ \E e \in EIDs : UuidOf[e] = u /\ erot'[u] \in unsent[e]

\* A step that leaves erot and the BMC's time alone, and starts no task or restarts.
LEMMA OrderFrame ==
    ASSUME TypeOK, TimesInOrder, UNCHANGED <<elapsed, time, erot, unsent>>,
           client' # "none" => client # "none"
    PROVE  TimesInOrder'
  BY DEF TimesInOrder

\* Only the end of a request sets an ERoT, forward to the time of the task or to the
\* one in a request left behind.
LEMMA ToldInOrder ==
    ASSUME TypeOK, TimesInOrder, client = "waiting", NEW a, NEW t \in Sent(a)
    PROVE  \A u \in UUIDs :
             /\ Told(a, t)[u] <= elapsed
             /\ \/ erot[u] <= Told(a, t)[u]
                \/ \E e \in EIDs : UuidOf[e] = u /\ Told(a, t)[u] \in unsent[e]
<1> SUFFICES ASSUME NEW u \in UUIDs
             PROVE /\ Told(a, t)[u] <= elapsed
                   /\ \/ erot[u] <= Told(a, t)[u]
                      \/ \E e \in EIDs : UuidOf[e] = u /\ Told(a, t)[u] \in unsent[e]
  OBVIOUS
<1>1. erot \in [UUIDs -> 0 .. MaxTime] /\ elapsed \in 0 .. MaxTime /\ erot[u] <= elapsed
  BY DEF TypeOK, TimesInOrder
<1>2. erot[u] \in Nat /\ elapsed \in Nat
  BY <1>1
<1>3. \/ Told(a, t)[u] = erot[u]
      \/ a \in EIDs /\ UuidOf[a] = u /\ Told(a, t)[u] = t
  BY <1>1 DEF Told
<1>4. \/ t = elapsed
      \/ a \in EIDs /\ t \in unsent[a] /\ t <= elapsed
  BY DEF Sent, TimesInOrder
<1> QED BY <1>1, <1>2, <1>3, <1>4

LEMMA OrderStep ==
    ASSUME TypeOK, TimesInOrder, [Next]_vars
    PROVE  TimesInOrder' /\ \A u \in UUIDs : Kept(u)
<1> USE DEF contract, bmc, work
<1>0. /\ time \in Nat /\ elapsed \in Nat
      /\ \A u \in UUIDs : erot[u] \in Nat
      /\ \A e \in EIDs : \A t \in unsent[e] : t \in Nat
  BY DEF TypeOK
<1>a. ASSUME UNCHANGED erot PROVE \A u \in UUIDs : Kept(u)
  BY <1>a, <1>0 DEF Kept
<1>1. CASE NextList
  BY <1>1, <1>a, OrderFrame DEF NextList
<1>2. CASE EndTask
  BY <1>2, <1>a, OrderFrame DEF EndTask, Contract!Finish
<1>3. CASE Resume
  <2>1. client = "waiting" /\ elapsed' = elapsed /\ time' = time
    BY <1>3 DEF Resume, Handled, Contract!Resume
  <2>2. PICK t \in Sent(asked) : erot' = erot \/ erot' = Told(asked, t)
    BY <1>3 DEF Resume, Handled
  <2>3. \A u \in UUIDs : Kept(u) /\ erot'[u] <= elapsed /\ erot'[u] \in Nat
    <3>1. CASE erot' = erot
      BY <3>1, <2>1, <1>0, <1>a DEF TimesInOrder
    <3>2. CASE erot' = Told(asked, t)
      <4>1. t \in Nat
        BY <1>0 DEF Sent
      <4>2. \A u \in UUIDs : erot'[u] \in Nat
        BY <3>2, <4>1, <1>0 DEF Told, TypeOK
      <4> QED BY <3>2, <4>2, <2>1, <1>0, ToldInOrder DEF Kept
    <3> QED BY <3>1, <3>2, <2>2
  <2>4. \A e \in EIDs : unsent'[e] \subseteq unsent[e]
    BY <1>3 DEF Resume, Handled, TypeOK
  <2>5. \A u \in UUIDs : erot'[u] <= time
    BY <2>3, <1>0 DEF TimesInOrder
  <2>6. TimesInOrder'
    BY <2>1, <2>3, <2>4, <2>5 DEF TimesInOrder
  <2> QED BY <2>3, <2>6
<1>4. ASSUME NEW e \in EIDs, Ask(e) PROVE UNCHANGED erot /\ TimesInOrder'
  BY <1>4, OrderFrame DEF Ask, Contract!Ask
<1>5. ASSUME NEW e \in EIDs, AskFails(e) PROVE UNCHANGED erot /\ TimesInOrder'
  <2>1. UNCHANGED <<time, elapsed, erot, client>> /\ client = "running"
    BY <1>5 DEF AskFails
  <2>2. \A f \in EIDs : unsent'[f] \subseteq unsent[f] \cup {elapsed}
    <3>1. PICK a : \/ UNCHANGED unsent
                   \/ a \in EIDs /\ unsent' = [unsent EXCEPT ![a] = @ \cup {elapsed}]
      BY <1>5 DEF AskFails
    <3> QED BY <3>1 DEF TypeOK
  <2> QED BY <2>1, <2>2, <1>0 DEF TimesInOrder
<1>6. CASE SkipTimeChange
  BY <1>6, <1>a, OrderFrame DEF SkipTimeChange
<1>b. ASSUME UNCHANGED <<time, erot, unsent>>, elapsed' = time PROVE TimesInOrder'
  BY <1>b, <1>0 DEF TimesInOrder
<1>7. CASE HandleTimeChange
  BY <1>7, <1>a, <1>b DEF HandleTimeChange, Now
<1>8. CASE ReturnToHandleTimeChange
  BY <1>8, <1>a, OrderFrame DEF ReturnToHandleTimeChange
<1>9. ASSUME NEW S \in SUBSET EIDs, HandleMctpEndpointsBusy(S)
      PROVE UNCHANGED erot /\ TimesInOrder'
  BY <1>9, OrderFrame DEF HandleMctpEndpointsBusy, QueueEndpoints
<1>10. ASSUME NEW S \in SUBSET EIDs, HandleMctpEndpoints(S)
       PROVE UNCHANGED erot /\ TimesInOrder'
  BY <1>10, <1>b, OrderFrame DEF HandleMctpEndpoints, QueueEndpoints, Elapsed
<1>11. CASE Decide
  BY <1>11, <1>a, OrderFrame DEF Decide, Contract!Decide
<1>12. CASE TimeChanges
  <2>1. time' = time + 1 /\ UNCHANGED <<elapsed, erot, client, unsent>>
    BY <1>12 DEF TimeChanges
  <2> QED BY <2>1, <1>0, <1>a DEF TimesInOrder
<1>13. CASE IntervalElapses
  BY <1>13, <1>a, OrderFrame DEF IntervalElapses
<1>14. CASE Restart
  <2>1. /\ client' = "none" /\ elapsed' = 0 /\ UNCHANGED <<time, erot>>
        /\ unsent' = [e \in EIDs |-> {}]
    BY <1>14 DEF Restart, Contract!Restart
  <2> QED BY <2>1, <1>0, <1>a DEF TimesInOrder
<1>15. CASE UNCHANGED vars
  BY <1>15, <1>a, OrderFrame DEF vars
<1> QED BY <1>1, <1>2, <1>3, <1>4, <1>5, <1>6, <1>7, <1>8, <1>9, <1>10, <1>11, <1>12,
           <1>13, <1>14, <1>15, <1>a DEF Next, Coroutine, EventHandler, Discovery, Found

\* No ERoT is ever set back, but by a request left behind, whatever fails, for any
\* endpoints and bounds.
THEOREM NeverSetBackAlways == Spec => NeverSetBack
<1>1. Init => TimesInOrder
  BY DEF Init, TimesInOrder, Contract!Init
<1>2. TypeOK /\ TimesInOrder /\ [Next]_vars
      => TimesInOrder' /\ [\A u \in UUIDs : Kept(u)]_vars
  BY OrderStep
<1>3. [\A u \in UUIDs : Kept(u)]_vars
      => [\A u \in UUIDs :
            \/ erot'[u] >= erot[u]
            \/ \E e \in EIDs : UuidOf[e] = u /\ erot'[u] \in unsent[e]]_vars
  BY DEF Kept
<1> QED BY <1>1, <1>2, <1>3, TypeCorrect, PTL DEF Spec, NeverSetBack

--------------------------------------------------------------------------------
(* No list is lost                                                         *)

\* Requests are sent, and succeed.
AllSucceed == Outcomes = {"success"} /\ "send" \notin Faults

\* There is a coroutine as long as there is a task, no request was left behind, and
\* what is sent is a time.  A discovery's coroutine works off the first list of the
\* queue, which stays there until all of it has been told.
ListsInOrder ==
    /\ client = "none" <=> task = "none"
    /\ client # "waiting" => asked = None
    /\ outcome # "silent"
    /\ \A e \in EIDs : unsent[e] = {}
    /\ client # "none" => elapsed > 0
    /\ task = "endpoints" =>
         /\ queue # <<>>
         /\ \A e \in queue[1] : e \in rest \/ e = asked \/ erot[UuidOf[e]] # 0

\* The head and the tail of a queue that has an element.
LEMMA QueueShape ==
    ASSUME NEW S, NEW q \in Seq(S), Len(q) > 0
    PROVE  /\ q # <<>> /\ Head(q) = q[1] /\ q[1] \in S
           /\ DOMAIN q = 1 .. Len(q)
           /\ Tail(q) \in Seq(S) /\ Len(Tail(q)) = Len(q) - 1
OBVIOUS

\* Steps that leave the tasks, the lists and the ERoTs alone.
LEMMA ListsFrame ==
    ASSUME TypeOK, ListsInOrder, NoneLost, UNCHANGED <<contract, work, queue, unsent, erot>>,
           known' \subseteq known
    PROVE  ListsInOrder' /\ NoneLost'
BY DEF contract, work, ListsInOrder, NoneLost, TypeOK

\* What is not told is not lost when a list is added.
LEMMA QueuedNotLost ==
    ASSUME TypeOK, NoneLost, NEW S \in SUBSET EIDs, QueueEndpoints(S)
    PROVE  NoneLost'
<1>1. /\ queue \in Seq(SUBSET EIDs) /\ queue' = Append(queue, S)
      /\ known' = known \cup S /\ erot' = erot
    BY DEF QueueEndpoints, TypeOK
<1>2. \A i \in DOMAIN queue : i \in DOMAIN queue' /\ queue'[i] = queue[i]
    BY <1>1
<1>3. Len(queue) + 1 \in DOMAIN queue' /\ queue'[Len(queue) + 1] = S
    BY <1>1
<1> QED
    BY <1>1, <1>2, <1>3 DEF NoneLost

\* The first list may go when all of it has been told.
LEMMA FirstNotLost ==
    ASSUME TypeOK, NoneLost, queue # <<>>, queue' = Tail(queue),
           UNCHANGED <<known, erot>>, \A e \in queue[1] : erot[UuidOf[e]] # 0
    PROVE  NoneLost'
<1> SUFFICES ASSUME NEW e \in known, erot[UuidOf[e]] = 0
             PROVE  \E i \in DOMAIN queue' : e \in queue'[i]
    BY DEF NoneLost
<1>1. PICK i \in DOMAIN queue : e \in queue[i]
    BY DEF NoneLost
<1>2. queue \in Seq(SUBSET EIDs) /\ i # 1
    BY <1>1 DEF TypeOK
<1>3. i - 1 \in DOMAIN queue' /\ queue'[i - 1] = queue[i]
    BY <1>1, <1>2
<1> QED
    BY <1>1, <1>3

LEMMA ListsStep ==
    ASSUME AllSucceed, TypeOK, ListsInOrder, NoneLost, [Next]_vars
    PROVE  ListsInOrder' /\ NoneLost'
<1> USE DEF contract, bmc, work
<1>0. /\ queue \in Seq(SUBSET EIDs) /\ time \in Nat \ {0} /\ elapsed \in Nat
      /\ known \subseteq EIDs /\ erot \in [UUIDs -> 0 .. MaxTime]
    BY DEF TypeOK
<1>1. CASE NextList
    <2>1. /\ client = "running" /\ task = "endpoints" /\ rest = {} /\ asked = None
          /\ Len(queue) > 1 /\ queue' = Tail(queue) /\ rest' = Head(queue')
          /\ UNCHANGED <<contract, task, elapsed, unsent, erot, known>>
        BY <1>1 DEF NextList, ListsInOrder
    <2>2. queue # <<>> /\ queue' # <<>> /\ queue[1] \subseteq EIDs /\ Head(queue') = queue'[1]
        <3>1. Len(queue) > 0 /\ Len(queue) - 1 > 0
            BY <1>0, <2>1
        <3>2. queue' \in Seq(SUBSET EIDs) /\ Len(queue') > 0
            BY <1>0, <2>1, <3>1, QueueShape
        <3> QED
            BY <1>0, <3>1, <3>2, QueueShape
    <2>3. \A e \in queue[1] : erot[UuidOf[e]] # 0
        BY <2>1, <2>2 DEF ListsInOrder
    <2>4. NoneLost'
        BY <2>1, <2>2, <2>3, FirstNotLost
    <2> QED
        BY <2>1, <2>2, <2>4 DEF ListsInOrder
<1>2. CASE EndTask
    <2>1. /\ client = "running" /\ client' = "none" /\ task' = "none" /\ rest = {}
          /\ asked = None /\ UNCHANGED <<asked, outcome, unsent, erot, known, elapsed>>
        BY <1>2 DEF EndTask, Contract!Finish, ListsInOrder
    <2>2. CASE task = "endpoints"
        <3>1. Len(queue) = 1 /\ queue' = <<>>
            BY <1>2, <2>2 DEF EndTask
        <3>2. queue # <<>> /\ queue[1] \subseteq EIDs /\ DOMAIN queue = {1}
            <4>1. Len(queue) > 0
                BY <3>1
            <4>2. queue # <<>> /\ queue[1] \in SUBSET EIDs /\ DOMAIN queue = 1 .. Len(queue)
                BY <1>0, <4>1, QueueShape
            <4> QED
                BY <3>1, <4>2
        <3>3. \A e \in queue[1] : erot[UuidOf[e]] # 0
            BY <2>1, <2>2, <3>2 DEF ListsInOrder
        <3>4. NoneLost'
            BY <2>1, <3>2, <3>3 DEF NoneLost
        <3> QED
            BY <2>1, <3>4 DEF ListsInOrder
    <2>3. CASE task # "endpoints"
        <3>1. queue' = queue
            BY <1>2, <2>3 DEF EndTask
        <3> QED
            BY <2>1, <3>1 DEF ListsInOrder, NoneLost
    <2> QED
        BY <2>2, <2>3
<1>3. CASE Resume
    <2>1. /\ client = "waiting" /\ client' = "running" /\ asked' = None
          /\ outcome' = "open" /\ UNCHANGED <<work, queue>>
        BY <1>3 DEF Resume, Handled, Contract!Resume
    <2>2. outcome = "answered"
        BY <1>3 DEF Resume, Handled, Contract!Resume, ListsInOrder, TypeOK, Contract!TypeOK
    <2>3. erot' = Told(asked, elapsed) /\ known' = known
        <3>1. Sent(asked) = {elapsed}
            BY DEF Sent, ListsInOrder
        <3>2. outcome # "silent"
            BY DEF ListsInOrder
        <3> QED
            BY <1>3, <3>1, <3>2 DEF Resume, Handled, AllSucceed
    <2>4. elapsed > 0 /\ elapsed \in 0 .. MaxTime
        BY <2>1 DEF ListsInOrder, TypeOK
    <2>5. \A u \in UUIDs : erot[u] # 0 => erot'[u] # 0
        BY <1>0, <2>3, <2>4 DEF Told
    <2>6. asked \in EIDs => erot'[UuidOf[asked]] # 0
        BY <1>0, <2>3, <2>4 DEF Told
    <2>7. \A e \in EIDs : unsent'[e] = {}
        <3>1. unsent' = unsent \/ \E left \in SUBSET unsent[asked] :
                    asked \in EIDs /\ unsent' = [unsent EXCEPT ![asked] = left]
            BY <1>3 DEF Resume, Handled
        <3> QED
            BY <3>1 DEF ListsInOrder, TypeOK
    <2>8. \A e \in EIDs : UuidOf[e] \in UUIDs
        OBVIOUS
    <2>9. ASSUME task = "endpoints" PROVE queue[1] \subseteq EIDs
        BY <1>0, <2>9 DEF ListsInOrder
    <2> QED
        BY <1>0, <2>1, <2>3, <2>4, <2>5, <2>6, <2>7, <2>8, <2>9 DEF ListsInOrder, NoneLost
<1>4. ASSUME NEW e \in EIDs, Ask(e) PROVE ListsInOrder' /\ NoneLost'
    <2>1. PICK a \in Read(e) : Contract!Ask(a)
        BY <1>4 DEF Ask
    <2>2. /\ client = "running" /\ client' = "waiting" /\ asked' = a /\ rest' = rest \ {e}
          /\ outcome' = outcome /\ UNCHANGED <<task, elapsed, queue, unsent, erot, known>>
        BY <1>4, <2>1 DEF Ask, Contract!Ask
    <2>3. task = "endpoints" => a = e
        BY <2>1 DEF Read, Dangling
    <2>4. task = "endpoints" => e \in rest /\ queue[1] \subseteq EIDs
        BY <1>0, <1>4 DEF Ask, ListsInOrder
    <2>5. asked = None
        BY <2>2 DEF ListsInOrder
    <2>6. task = "endpoints" =>
            \A f \in queue[1] : f \in rest' \/ f = asked' \/ erot'[UuidOf[f]] # 0
        BY <2>2, <2>3, <2>4, <2>5 DEF ListsInOrder
    <2> QED
        BY <2>2, <2>6 DEF ListsInOrder, NoneLost
<1>5. ASSUME NEW e \in EIDs, AskFails(e) PROVE FALSE
    BY <1>5 DEF AskFails, AllSucceed
<1>6. CASE SkipTimeChange
    BY <1>6, ListsFrame DEF SkipTimeChange
<1>7. CASE HandleTimeChange
    <2>1. /\ client' = "running" /\ client = "none" /\ task' = "timeChange" /\ elapsed' = time
          /\ UNCHANGED <<asked, outcome, queue, unsent, erot, known>>
        BY <1>7 DEF HandleTimeChange, Contract!Start, Now
    <2>2. asked = None
        BY <1>7 DEF HandleTimeChange, Contract!Start, ListsInOrder
    <2> QED
        BY <1>0, <2>1, <2>2 DEF ListsInOrder, NoneLost
<1>8. CASE ReturnToHandleTimeChange
    BY <1>8, ListsFrame DEF ReturnToHandleTimeChange
<1>9. ASSUME NEW S \in SUBSET EIDs, HandleMctpEndpointsBusy(S)
      PROVE  ListsInOrder' /\ NoneLost'
    <2>1. /\ queue' = Append(queue, S) /\ UNCHANGED <<contract, work, unsent, erot>>
        BY <1>9 DEF HandleMctpEndpointsBusy, QueueEndpoints
    <2>2. queue' # <<>> /\ (queue # <<>> => queue'[1] = queue[1])
        BY <1>0, <2>1
    <2>3. NoneLost'
        BY <1>9, QueuedNotLost DEF HandleMctpEndpointsBusy
    <2> QED
        BY <2>1, <2>2, <2>3 DEF ListsInOrder
<1>10. ASSUME NEW S \in SUBSET EIDs, HandleMctpEndpoints(S)
       PROVE  ListsInOrder' /\ NoneLost'
    <2>1. /\ client = "none" /\ queue' = Append(queue, S) /\ UNCHANGED <<unsent, erot>>
        BY <1>10 DEF HandleMctpEndpoints, QueueEndpoints
    <2>2. NoneLost'
        BY <1>10, QueuedNotLost DEF HandleMctpEndpoints
    <2>3. CASE UNCHANGED <<contract, work>>
        BY <2>1, <2>2, <2>3 DEF ListsInOrder
    <2>4. CASE Contract!Start /\ task' = "endpoints" /\ elapsed' = Elapsed
               /\ rest' = Head(queue')
        <3>1. queue' # <<>> /\ Head(queue') = queue'[1]
            BY <1>0, <2>1
        <3> QED
            BY <1>0, <2>1, <2>2, <2>4, <3>1 DEF ListsInOrder, Contract!Start, Elapsed
    <2> QED
        BY <1>10, <2>3, <2>4 DEF HandleMctpEndpoints
<1>11. CASE Decide
    <2>1. /\ client = "waiting" /\ outcome' # "silent"
          /\ UNCHANGED <<client, asked, task, rest, elapsed, queue, unsent, erot, known>>
        BY <1>11 DEF Decide, Contract!Decide, AllSucceed
    <2> QED
        BY <2>1 DEF ListsInOrder, NoneLost
<1>12. CASE TimeChanges
    BY <1>12, ListsFrame DEF TimeChanges
<1>13. CASE IntervalElapses
    BY <1>13, ListsFrame DEF IntervalElapses
<1>14. CASE Restart
    BY <1>14 DEF Restart, Contract!Restart, ListsInOrder, NoneLost
<1>15. CASE UNCHANGED vars
    BY <1>15, ListsFrame DEF vars
<1> QED
    BY <1>1, <1>2, <1>3, <1>4, <1>5, <1>6, <1>7, <1>8, <1>9, <1>10, <1>11, <1>12, <1>13,
       <1>14, <1>15 DEF Next, Coroutine, EventHandler, Discovery, Found

\* No list gets lost between the tasks, whatever overlaps, where requests are sent and
\* succeed: what is known and not told is queued (NoneLost of the runs).
THEOREM NoneEverLost == AllSucceed => (Spec => []NoneLost)
<1> SUFFICES ASSUME AllSucceed PROVE Spec => []NoneLost
    OBVIOUS
<1>1. Init => ListsInOrder /\ NoneLost
    BY DEF Init, Contract!Init, ListsInOrder, NoneLost
<1>2. TypeOK /\ ListsInOrder /\ NoneLost /\ [Next]_vars => ListsInOrder' /\ NoneLost'
    BY ListsStep
<1> QED
    BY <1>1, <1>2, TypeCorrect, PTL DEF Spec

--------------------------------------------------------------------------------
(* A list only waits behind the coroutine that takes it off the queue      *)

\* No discovery while a change of the time waits or is handled, and Elapsed is readable.
NoOverlap == "overlap" \in Calm /\ "elapsed" \notin Faults

\* Inductive whatever requests come to.
AttendedInv ==
    /\ QueueAttended
    /\ client = "none" <=> task = "none"
    /\ client # "waiting" => asked = None
    /\ task = "endpoints" => queue # <<>>

LEMMA AttendedFrame ==
    ASSUME AttendedInv, UNCHANGED <<client, asked, task, rest, queue>>
    PROVE  AttendedInv'
BY DEF AttendedInv, QueueAttended

LEMMA AttendedStep ==
    ASSUME NoOverlap, TypeOK, AttendedInv, [Next]_vars
    PROVE  AttendedInv'
<1> USE DEF contract, bmc, work
<1>0. queue \in Seq(SUBSET EIDs)
    BY DEF TypeOK
<1>1. CASE NextList
    <2>1. /\ client = "running" /\ task = "endpoints" /\ asked = None
          /\ Len(queue) > 1 /\ queue' = Tail(queue) /\ rest' = Head(queue')
          /\ UNCHANGED <<client, asked, task>>
        BY <1>1 DEF NextList, AttendedInv
    <2>2. Head(queue') = queue'[1] /\ queue' # <<>>
        <3>1. queue' \in Seq(SUBSET EIDs) /\ Len(queue') > 0
            BY <1>0, <2>1
        <3> QED
            BY <3>1, QueueShape
    <2> QED
        BY <2>1, <2>2 DEF AttendedInv, QueueAttended
<1>2. CASE EndTask
    <2>1. /\ client = "running" /\ client' = "none" /\ task' = "none"
          /\ asked = None /\ asked' = asked
        BY <1>2 DEF EndTask, Contract!Finish, AttendedInv
    <2>2. queue' = <<>>
        BY <1>2 DEF EndTask, AttendedInv, QueueAttended
    <2> QED
        BY <2>1, <2>2 DEF AttendedInv, QueueAttended
<1>3. CASE Resume
    <2>1. /\ client = "waiting" /\ client' = "running" /\ asked' = None
          /\ UNCHANGED <<task, rest, queue>>
        BY <1>3 DEF Resume, Handled, Contract!Resume
    <2> QED
        BY <2>1 DEF AttendedInv, QueueAttended
<1>4. ASSUME NEW e \in EIDs, Ask(e) PROVE AttendedInv'
    <2>1. PICK a \in Read(e) : Contract!Ask(a)
        BY <1>4 DEF Ask
    <2>2. /\ client = "running" /\ client' = "waiting" /\ asked' = a
          /\ e \in rest /\ rest' = rest \ {e} /\ UNCHANGED <<task, queue>>
        BY <1>4, <2>1 DEF Ask, Contract!Ask
    <2>3. task = "endpoints" => a = e
        BY <2>1 DEF Read, Dangling
    <2> QED
        BY <2>2, <2>3 DEF AttendedInv, QueueAttended
<1>5. ASSUME NEW e \in EIDs, AskFails(e) PROVE AttendedInv'
    <2>1. rest' \subseteq rest /\ UNCHANGED <<client, asked, task, queue>>
        BY <1>5 DEF AskFails
    <2> QED
        BY <2>1 DEF AttendedInv, QueueAttended
<1>6. CASE HandleTimeChange
    <2>1. /\ client = "none" /\ client' = "running" /\ task' = "timeChange"
          /\ UNCHANGED <<asked, queue>>
        BY <1>6 DEF HandleTimeChange, Contract!Start
    <2> QED
        BY <2>1 DEF AttendedInv, QueueAttended
<1>7. ASSUME NEW S \in SUBSET EIDs, HandleMctpEndpointsBusy(S) PROVE AttendedInv'
    <2>1. /\ client = "waiting" /\ task # "timeChange" /\ queue' = Append(queue, S)
          /\ UNCHANGED <<client, asked, task, rest>>
        BY <1>7 DEF HandleMctpEndpointsBusy, QueueEndpoints, NoOverlap
    <2>2. task = "endpoints"
        BY <2>1 DEF AttendedInv, TypeOK
    <2>3. queue # <<>> /\ queue' # <<>>
        BY <1>0, <2>1, <2>2 DEF AttendedInv
    <2>4. queue'[1] = queue[1]
        BY <1>0, <2>1, <2>3
    <2> QED
        BY <2>1, <2>2, <2>3, <2>4 DEF AttendedInv, QueueAttended
<1>8. ASSUME NEW S \in SUBSET EIDs, HandleMctpEndpoints(S) PROVE AttendedInv'
    <2>1. /\ client = "none" /\ client' = "running" /\ asked' = asked /\ task' = "endpoints"
          /\ rest' = Head(queue') /\ queue' = Append(queue, S)
        BY <1>8 DEF HandleMctpEndpoints, QueueEndpoints, Contract!Start, NoOverlap
    <2>2. Head(queue') = queue'[1] /\ queue' # <<>>
        BY <1>0, <2>1
    <2> QED
        BY <2>1, <2>2 DEF AttendedInv, QueueAttended
<1>9. CASE Restart
    BY <1>9 DEF Restart, Contract!Restart, AttendedInv, QueueAttended
<1>10. CASE SkipTimeChange \/ ReturnToHandleTimeChange \/ Decide \/ TimeChanges
              \/ IntervalElapses \/ UNCHANGED vars
    <2>1. UNCHANGED <<client, asked, task, rest, queue>>
        BY <1>10 DEF SkipTimeChange, ReturnToHandleTimeChange, Decide, Contract!Decide,
           TimeChanges, IntervalElapses, vars
    <2> QED
        BY <2>1, AttendedFrame
<1> QED
    BY <1>1, <1>2, <1>3, <1>4, <1>5, <1>6, <1>7, <1>8, <1>9, <1>10
    DEF Next, Coroutine, EventHandler, Discovery, Found

\* No list is left behind, whatever requests come to: while one is queued there is the
\* coroutine that works the queue off, and what it asks is of the first list.  The core
\* of QueueServed, which adds that the coroutine goes on.
THEOREM QueueAlwaysAttended == NoOverlap => (Spec => []QueueAttended)
<1> SUFFICES ASSUME NoOverlap PROVE Spec => []QueueAttended
    OBVIOUS
<1>1. Init => AttendedInv
    BY DEF Init, Contract!Init, AttendedInv, QueueAttended
<1>2. TypeOK /\ AttendedInv /\ [Next]_vars => AttendedInv'
    BY AttendedStep
<1>3. AttendedInv => QueueAttended
    BY DEF AttendedInv
<1> QED
    BY <1>1, <1>2, <1>3, TypeCorrect, PTL DEF Spec

--------------------------------------------------------------------------------
(* All have the BMC's time at rest                                         *)

\* Nothing fails, and the environment is calm.
AllCalm ==
    /\ Outcomes = {"success"} /\ Faults = {} /\ Garbage = {}
    /\ {"hurry", "overlap"} \subseteq Calm

\* The ERoT of e will be told the time: an endpoint of it is still to be asked in the
\* list at hand, or is being asked, or e is in a list further back.
Listed(e) ==
    \/ \E f \in EIDs : (f \in rest \/ f = asked) /\ UuidOf[f] = UuidOf[e]
    \/ \E i \in DOMAIN queue : i > 1 /\ e \in queue[i]

\* A change of the time is handled before anything else happens, and then every known
\* ERoT has the BMC's time or will be told it.
ToldOrListed ==
    /\ changed => client = "none" /\ ~handling /\ ~recent
    /\ client = "none" => rest = {} /\ queue = <<>>
    /\ client # "none" => elapsed = time
    /\ task = "timeChange" => queue = <<>>
    /\ ~changed => \A e \in known : erot[UuidOf[e]] = time \/ Listed(e)

\* Every known ERoT has an endpoint of the lowest rank: ranks are natural numbers.
LEMMA TopExists ==
    ASSUME TypeOK, NEW e \in known
    PROVE  \E f \in EIDs : f \in Top(UuidOf[e])
<1> DEFINE T == {Rank[f] : f \in OfErot(UuidOf[e])}
<1>1. OfErot(UuidOf[e]) \subseteq EIDs /\ e \in OfErot(UuidOf[e])
    BY DEF OfErot, TypeOK
<1>2. T \subseteq Nat /\ T # {}
    BY <1>1
<1> HIDE DEF T
<1>3. PICK r \in T : \A s \in T : ~(<<s, r>> \in OpToRel(<, Nat))
    BY <1>2, WFMin, NatLessThanWellFounded
<1>4. \A s \in T : ~(s < r)
    BY <1>2, <1>3, Zenon DEF OpToRel
<1>5. \A s \in T : r <= s
    BY <1>2, <1>4
<1> QED
    BY <1>1, <1>5 DEF T, Top

\* The list of a time change has an endpoint of every known ERoT.
LEMMA TopsCover ==
    ASSUME TypeOK, NEW S \in Tops, NEW e \in known
    PROVE  \E f \in EIDs : f \in S /\ UuidOf[f] = UuidOf[e]
<1>1. UuidOf[e] \in UUIDs /\ Top(UuidOf[e]) # {}
    BY TopExists DEF TypeOK
<1>2. PICK f \in Top(UuidOf[e]) : S \cap OfErot(UuidOf[e]) = {f}
    BY <1>1 DEF Tops
<1>3. f \in S /\ f \in EIDs /\ UuidOf[f] = UuidOf[e]
    BY <1>2 DEF Top, OfErot, TypeOK
<1> QED
    BY <1>3

\* Steps that leave the tasks, the lists and what is known alone.
LEMMA ToldFrame ==
    ASSUME ToldOrListed,
           UNCHANGED <<client, asked, task, rest, elapsed, queue, known, erot, time>>,
           changed' => changed /\ ~handling' /\ ~recent',
           changed => changed'
    PROVE  ToldOrListed'
BY DEF ToldOrListed, Listed

\* An endpoint stays listed when its list does.
LEMMA ListedFrame ==
    ASSUME NEW e, Listed(e), rest \subseteq rest', UNCHANGED asked,
           DOMAIN queue \subseteq DOMAIN queue',
           \A i \in DOMAIN queue : queue'[i] = queue[i]
    PROVE  Listed(e)'
BY DEF Listed

LEMMA ToldStep ==
    ASSUME AllCalm, TypeOK, ListsInOrder, ToldOrListed, [Next]_vars
    PROVE  ToldOrListed'
<1> USE DEF contract, bmc, work
<1>0. /\ queue \in Seq(SUBSET EIDs) /\ known \subseteq EIDs /\ rest \subseteq EIDs
      /\ erot \in [UUIDs -> 0 .. MaxTime] /\ time \in 0 .. MaxTime
      /\ \A e \in EIDs : UuidOf[e] \in UUIDs
    BY DEF TypeOK
<1>1. CASE NextList
    <2>1. /\ client = "running" /\ task = "endpoints" /\ rest = {} /\ asked = None
          /\ Len(queue) > 1 /\ queue' = Tail(queue) /\ rest' = Head(queue')
          /\ UNCHANGED <<client, asked, task, elapsed, erot, known, time, changed>>
        BY <1>1 DEF NextList, ListsInOrder
    <2>2. Len(queue) > 0 /\ Len(queue) - 1 > 0
        BY <1>0, <2>1
    <2>3. queue' \in Seq(SUBSET EIDs) /\ Len(queue') > 0
        BY <1>0, <2>1, <2>2, QueueShape
    <2>4. rest' = queue'[1]
        BY <2>1, <2>3, QueueShape
    <2>5. \A i \in DOMAIN queue : i > 1 => i - 1 \in DOMAIN queue' /\ queue'[i - 1] = queue[i]
        BY <1>0, <2>1, <2>2
    <2>6. ~changed
        BY <2>1 DEF ToldOrListed
    <2>7. ASSUME NEW e \in known PROVE erot[UuidOf[e]] = time \/ Listed(e)'
        <3>1. CASE erot[UuidOf[e]] = time
            BY <3>1
        <3>2. CASE \E i \in DOMAIN queue : i > 1 /\ e \in queue[i]
            <4>1. PICK i \in DOMAIN queue : i > 1 /\ e \in queue[i]
                BY <3>2
            <4>2. i - 1 \in DOMAIN queue' /\ e \in queue'[i - 1] /\ i \in Nat
                BY <1>0, <2>5, <4>1
            <4>3. CASE i = 2
                BY <1>0, <2>4, <4>2, <4>3 DEF Listed
            <4>4. CASE i # 2
                BY <4>1, <4>2, <4>4 DEF Listed
            <4> QED
                BY <4>3, <4>4
        <3>3. \A f \in EIDs : f \notin rest /\ f # asked
            BY <2>1, ErotAssumption
        <3> QED
            BY <2>6, <3>1, <3>2, <3>3 DEF ToldOrListed, Listed
    <2> QED
        BY <2>1, <2>6, <2>7 DEF ToldOrListed
<1>2. CASE EndTask
    <2>1. /\ client = "running" /\ client' = "none" /\ task' = "none" /\ rest = {}
          /\ asked = None
          /\ UNCHANGED <<asked, rest, elapsed, erot, known, time, changed>>
        BY <1>2 DEF EndTask, Contract!Finish, ListsInOrder
    <2>2. queue' = <<>> /\ \A i \in DOMAIN queue : ~(i > 1)
        <3>1. CASE task = "endpoints"
            <4>1. Len(queue) = 1 /\ queue' = <<>>
                BY <1>2, <3>1 DEF EndTask
            <4> QED
                BY <1>0, <4>1
        <3>2. CASE task # "endpoints"
            <4>1. task = "timeChange"
                BY <2>1, <3>2 DEF ListsInOrder, TypeOK
            <4>2. queue = <<>> /\ queue' = queue
                BY <1>2, <3>2, <4>1 DEF EndTask, ToldOrListed
            <4> QED
                BY <4>2
        <3> QED
            BY <3>1, <3>2
    <2>3. ~changed
        BY <2>1 DEF ToldOrListed
    <2>4. \A e \in known : ~Listed(e)
        BY <2>1, <2>2, ErotAssumption DEF Listed
    <2> QED
        BY <2>1, <2>2, <2>3, <2>4 DEF ToldOrListed
<1>3. CASE Resume
    <2>1. /\ client = "waiting" /\ client' = "running" /\ asked' = None /\ elapsed = time
          /\ UNCHANGED <<task, rest, elapsed, queue, time, changed>>
        BY <1>3 DEF Resume, Handled, Contract!Resume, ToldOrListed
    <2>2. erot' = Told(asked, time) /\ known' = known
        <3>1. Sent(asked) = {time}
            BY <2>1 DEF Sent, ListsInOrder
        <3>2. outcome # "silent"
            BY DEF ListsInOrder
        <3> QED
            BY <1>3, <3>1, <3>2 DEF Resume, Handled, AllCalm
    <2>3. \A u \in UUIDs : erot[u] = time => erot'[u] = time
        BY <1>0, <2>2 DEF Told
    <2>4. asked \in EIDs => erot'[UuidOf[asked]] = time
        BY <1>0, <2>2 DEF Told
    <2>5. ~changed
        BY <2>1 DEF ToldOrListed
    <2>6. ASSUME NEW e \in known PROVE erot'[UuidOf[e]] = time \/ Listed(e)'
        <3>1. CASE erot[UuidOf[e]] = time
            BY <1>0, <2>3, <3>1
        <3>2. CASE \E f \in EIDs : (f \in rest \/ f = asked) /\ UuidOf[f] = UuidOf[e]
            BY <2>1, <2>4, <3>2 DEF Listed
        <3>3. CASE \E i \in DOMAIN queue : i > 1 /\ e \in queue[i]
            BY <2>1, <3>3 DEF Listed
        <3> QED
            BY <2>5, <3>1, <3>2, <3>3 DEF ToldOrListed, Listed
    <2> QED
        BY <2>1, <2>2, <2>5, <2>6 DEF ToldOrListed
<1>4. ASSUME NEW e \in EIDs, Ask(e) PROVE ToldOrListed'
    <2>1. Contract!Ask(e)
        BY <1>4 DEF Ask, Read, AllCalm
    <2>2. /\ client = "running" /\ client' = "waiting" /\ asked' = e /\ rest' = rest \ {e}
          /\ asked = None
          /\ UNCHANGED <<task, elapsed, queue, erot, known, time, changed>>
        BY <1>4, <2>1 DEF Ask, Contract!Ask, ListsInOrder
    <2>3. \A f \in known : Listed(f) => Listed(f)'
        BY <2>2, ErotAssumption DEF Listed
    <2> QED
        BY <2>2, <2>3 DEF ToldOrListed
<1>5. ASSUME NEW e \in EIDs, AskFails(e) PROVE FALSE
    BY <1>5 DEF AskFails, AllCalm
<1>6. CASE SkipTimeChange
    BY <1>6 DEF SkipTimeChange, ToldOrListed
<1>7. CASE HandleTimeChange
    <2>1. /\ changed /\ ~changed' /\ client' = "running" /\ task' = "timeChange"
          /\ elapsed' = time /\ rest' \in Tops /\ queue = <<>>
          /\ UNCHANGED <<asked, queue, erot, known, time>>
        BY <1>7 DEF HandleTimeChange, Contract!Start, Now, ToldOrListed
    <2>2. \A e \in known : Listed(e)'
        BY <2>1, TopsCover DEF Listed
    <2> QED
        BY <2>1, <2>2 DEF ToldOrListed
<1>8. CASE ReturnToHandleTimeChange
    <2>1. ~changed
        BY <1>8 DEF ReturnToHandleTimeChange, ToldOrListed
    <2> QED
        BY <1>8, <2>1, ToldFrame DEF ReturnToHandleTimeChange
<1>9. ASSUME NEW S \in SUBSET EIDs, QueueEndpoints(S)
      PROVE  /\ ~changed /\ ~changed' /\ task # "timeChange" /\ queue' = Append(queue, S)
             /\ known' = known \cup S /\ UNCHANGED <<erot, time>>
             /\ DOMAIN queue \subseteq DOMAIN queue'
             /\ \A i \in DOMAIN queue : queue'[i] = queue[i]
             /\ Len(queue) + 1 \in DOMAIN queue' /\ queue'[Len(queue) + 1] = S
    <2>1. /\ ~changed /\ ~changed' /\ task # "timeChange" /\ queue' = Append(queue, S)
          /\ known' = known \cup S /\ UNCHANGED <<erot, time>>
        BY <1>9 DEF QueueEndpoints, AllCalm
    <2> QED
        BY <1>0, <2>1
<1>10. ASSUME NEW S \in SUBSET EIDs, HandleMctpEndpointsBusy(S) PROVE ToldOrListed'
    <2>1. QueueEndpoints(S) /\ client = "waiting" /\ UNCHANGED <<contract, work>>
        BY <1>10 DEF HandleMctpEndpointsBusy
    <2>2. queue # <<>> /\ task = "endpoints"
        BY <1>9, <2>1 DEF ListsInOrder, TypeOK
    <2>3. Len(queue) + 1 > 1
        BY <1>0, <2>2
    <2>4. \A e \in S : Listed(e)'
        BY <1>9, <2>1, <2>3 DEF Listed
    <2>5. \A e \in known : Listed(e) => Listed(e)'
        BY <1>9, <2>1, ListedFrame
    <2> QED
        BY <1>9, <2>1, <2>2, <2>4, <2>5 DEF ToldOrListed
<1>11. ASSUME NEW S \in SUBSET EIDs, HandleMctpEndpoints(S) PROVE ToldOrListed'
    <2>1. /\ QueueEndpoints(S) /\ client = "none" /\ client' = "running"
          /\ task' = "endpoints" /\ elapsed' = time /\ rest' = Head(queue')
          /\ asked' = asked
        BY <1>11 DEF HandleMctpEndpoints, Contract!Start, Elapsed, AllCalm
    <2>2. queue = <<>> /\ rest = {} /\ asked = None
        BY <2>1 DEF ToldOrListed, ListsInOrder
    <2>3. rest' = S
        BY <1>0, <1>9, <2>1, <2>2
    <2>4. \A e \in S : Listed(e)'
        BY <2>3 DEF Listed
    <2>5. \A e \in known : ~Listed(e)
        BY <2>2, ErotAssumption DEF Listed
    <2> QED
        BY <1>9, <2>1, <2>4, <2>5 DEF ToldOrListed
<1>12. CASE Decide
    BY <1>12, ToldFrame DEF Decide, Contract!Decide, ToldOrListed
<1>13. CASE TimeChanges
    BY <1>13 DEF TimeChanges, AllCalm, AtRest, ToldOrListed
<1>14. CASE IntervalElapses
    BY <1>14, ToldFrame DEF IntervalElapses, ToldOrListed
<1>15. CASE Restart
    BY <1>15 DEF Restart, Contract!Restart, ToldOrListed
<1>16. CASE UNCHANGED vars
    BY <1>16, ToldFrame DEF vars, ToldOrListed
<1> QED
    BY <1>1, <1>2, <1>3, <1>4, <1>5, <1>6, <1>7, <1>8, <1>10, <1>11, <1>12, <1>13, <1>14,
       <1>15, <1>16 DEF Next, Coroutine, EventHandler, Discovery, Found

\* In a calm environment where nothing fails, every known ERoT has the BMC's time once
\* nothing is under way (SyncedAtRest of the runs).
THEOREM AlwaysSyncedAtRest == AllCalm => (Spec => []SyncedAtRest)
<1> SUFFICES ASSUME AllCalm PROVE Spec => []SyncedAtRest
    OBVIOUS
<1>1. AllSucceed
    BY DEF AllCalm, AllSucceed
<1>2. Init => ListsInOrder /\ NoneLost /\ ToldOrListed
    BY DEF Init, Contract!Init, ListsInOrder, NoneLost, ToldOrListed
<1>3. TypeOK /\ ListsInOrder /\ NoneLost /\ ToldOrListed /\ [Next]_vars
      => ListsInOrder' /\ NoneLost' /\ ToldOrListed'
    BY <1>1, ListsStep, ToldStep
<1>4. ListsInOrder /\ ToldOrListed => SyncedAtRest
    <2> SUFFICES ASSUME ListsInOrder, ToldOrListed, AtRest, NEW e \in known
                 PROVE  erot[UuidOf[e]] = time
        BY DEF SyncedAtRest
    <2>1. rest = {} /\ asked = None /\ queue = <<>> /\ ~changed
        BY DEF AtRest, ToldOrListed, ListsInOrder
    <2> QED
        BY <2>1, ErotAssumption DEF ToldOrListed, Listed
<1> QED
    BY <1>2, <1>3, <1>4, TypeCorrect, PTL DEF Spec
================================================================================
