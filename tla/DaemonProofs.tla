------------------------------ MODULE DaemonProofs ------------------------------
(***************************************************************************)
(* Theorems about Daemon, for all numbers of endpoints, ERoTs, instance    *)
(* IDs, retries, times and discoveries, in a Clean environment: with the   *)
(* coroutine of ErotTimeManager as its client the request layer keeps its  *)
(* promises, with the request layer under it the coroutine keeps to        *)
(* ErotTimeManager, and so the daemon as a whole has the properties that   *)
(* are proved of either one.                                               *)
(***************************************************************************)
EXTENDS Daemon, RequesterProofs

\* The coroutine is a client as Requester knows it.
LEMMA RequesterStep ==
    ASSUME Erots \subseteq EIDs, [DaemonNext]_daemonVars
    PROVE  [Next]_vars
<1>1. CASE Clock \/ ReturnToHandleTimeChange \/ NextList
  BY <1>1 DEF Clock, ReturnToHandleTimeChange, NextList
<1>2. CASE Dispatch
  BY <1>2 DEF Dispatch, Next, Client
<1>3. ASSUME NEW e \in Erots, SetTimeOnErot(e) PROVE Next
  <2>1. PICK a \in Erot!Read(e), i \in Ids, s \in Start : SendRecvAs(a, i, s)
    BY <1>3 DEF SetTimeOnErot
  <2>2. a \in EIDs
    BY <2>1 DEF Erot!Read
  <2> QED BY <2>1, <2>2 DEF SendRecv, Next, Client
<1>4. CASE Resumed
  BY <1>4 DEF Resumed, Next, Handler
<1>5. CASE EndTask
  BY <1>5 DEF EndTask, Next, Client
<1>6. CASE Layer
  BY <1>6 DEF Layer, Next, Handler, Timer, Socket
<1>7. CASE RestartDaemon
  BY <1>7 DEF RestartDaemon, Next
<1>8. CASE UNCHANGED daemonVars
  BY <1>8 DEF daemonVars
<1> QED BY <1>1, <1>2, <1>3, <1>4, <1>5, <1>6, <1>7, <1>8 DEF DaemonNext

LEMMA RequesterSpec == Erots \subseteq EIDs => (DaemonSpec => Spec)
<1> SUFFICES ASSUME Erots \subseteq EIDs PROVE DaemonSpec => Spec
  OBVIOUS
<1>1. DaemonInit => Init
  BY DEF DaemonInit
<1> QED BY <1>1, RequesterStep, PTL DEF DaemonSpec, Spec

--------------------------------------------------------------------------------
(* The message of a request                                                *)

\* A key whose number is free is not in the map, in a Clean environment.
LEMMA FreshKey ==
    ASSUME TypeOK, IdsInStep, NEW a \in EIDs, NEW i \in Ids, IsNextId(ids[a], i)
    PROVE  /\ [eid |-> a, instanceId |-> i] \in Key
           /\ handlers[[eid |-> a, instanceId |-> i]].st = "absent"
<1> DEFINE k == [eid |-> a, instanceId |-> i]
<1>1. k \in Key /\ k.eid = a /\ k.instanceId = i
  BY DEF Key
<1>2. i \notin ids[a]
  BY DEF IsNextId
<1> QED BY <1>1, <1>2 DEF IdsInStep, OfEid, Registered

\* What setTimeOnErot does in a Clean environment
LEMMA AskClean ==
    ASSUME Clean, Erots \subseteq EIDs, TypeOK, IdsInStep,
           NEW e \in Erots, SetTimeOnErot(e)
    PROVE  \E a \in Erot!Read(e) : \E k \in Key :
             /\ client = "running" /\ client' = "waiting"
             /\ k.eid = a /\ awaited' = k /\ k # None /\ UNCHANGED call
             /\ message' = [message EXCEPT ![k] = elapsed]
<1>1. PICK a \in Erot!Read(e), i \in Ids, s \in Start :
        /\ SendRecvAs(a, i, s)
        /\ message' = IF handlers[[eid |-> a, instanceId |-> i]].st = "absent"
                      THEN [message EXCEPT ![[eid |-> a, instanceId |-> i]] = elapsed]
                      ELSE message
  BY DEF SetTimeOnErot
<1> DEFINE k == [eid |-> a, instanceId |-> i]
           H == Emplaced(handlers, k)
<1>2. a \in EIDs
  BY <1>1 DEF Erot!Read
<1>3. k \in Key /\ k.eid = a /\ handlers[k].st = "absent"
  BY <1>1, <1>2, FreshKey DEF SendRecvAs
<1>4. s \in Starts(H, a) /\ H \in [Key -> Entry]
  BY <1>1, <1>3, EntryTypes DEF SendRecvAs, Emplaced, TypeOK
<1> HIDE DEF H
<1>5. s.result = "ok"
  BY <1>2, <1>4, CleanStarts
<1>6. client = "running" /\ client' = "waiting" /\ awaited' = k /\ UNCHANGED call
  BY <1>1, <1>5 DEF SendRecvAs
<1>7. k # None
  BY <1>3, NoneAssumption
<1> QED BY <1>1, <1>3, <1>6, <1>7

MessageInv ==
    /\ time \in Nat /\ elapsed \in Nat
    /\ message \in [Key -> Nat]
    /\ MessageInStep

LEMMA MessageStep ==
    ASSUME Clean, Erots \subseteq EIDs, TypeOK, IdsInStep, LiveIsAwaited, MessageInv,
           [DaemonNext]_daemonVars
    PROVE  MessageInv'
<1> USE DEF MessageInv, MessageInStep
<1>1. ASSUME UNCHANGED <<time, elapsed, message>>, client' = "waiting",
             client = "waiting" => awaited' = awaited, client' = client
      PROVE  MessageInv'
  BY <1>1
<1>2. ASSUME UNCHANGED <<time, elapsed, message>>, client' # "waiting" PROVE MessageInv'
  BY <1>2
<1>3. CASE Clock
  BY <1>3 DEF Clock, Erot!TimeChanges, Erot!IntervalElapses, Erot!bmc, Erot!work, vars
<1>4. CASE Dispatch
  <2>1. CASE StartBatch
    <3>1. UNCHANGED <<time, message>> /\ (elapsed' = elapsed \/ elapsed' = time)
      BY <1>4 DEF Dispatch, Erot!HandleTimeChange, Erot!Discovery, Erot!SkipTimeChange,
             Erot!HandleMctpEndpoints, Erot!HandleMctpEndpointsBusy, Erot!QueueEndpoints,
             Erot!bmc, Erot!work, Erot!Now, Erot!Elapsed
    <3> QED BY <2>1, <3>1 DEF StartBatch
  <2>2. CASE UNCHANGED vars
    <3>1. UNCHANGED <<time, message, client, awaited>>
      BY <1>4, <2>2 DEF Dispatch, Erot!HandleTimeChange, Erot!Discovery,
             Erot!SkipTimeChange, Erot!HandleMctpEndpoints, Erot!HandleMctpEndpointsBusy,
             Erot!QueueEndpoints, Erot!bmc, Erot!work, vars
    <3>2. elapsed' = elapsed \/ (client' = "running" /\ elapsed' = time)
      BY <1>4, <2>2 DEF Dispatch, Erot!Discovery, Erot!SkipTimeChange,
             Erot!HandleMctpEndpoints, Erot!HandleMctpEndpointsBusy, Erot!Contract!Start,
             Erot!HandleTimeChange, Erot!Now, Erot!Elapsed, Erot!work, vars
    <3> QED BY <3>1, <3>2
  <2> QED BY <1>4, <2>1, <2>2 DEF Dispatch
<1>5. CASE ReturnToHandleTimeChange
  BY <1>5 DEF ReturnToHandleTimeChange, Erot!ReturnToHandleTimeChange, Erot!bmc, Erot!work,
         vars
<1>6. ASSUME NEW e \in Erots, SetTimeOnErot(e) PROVE MessageInv'
  <2>1. PICK k \in Key : awaited' = k /\ message' = [message EXCEPT ![k] = elapsed]
    BY <1>6, AskClean
  <2>2. UNCHANGED <<time, elapsed>>
    BY <1>6 DEF SetTimeOnErot
  <2> QED BY <2>1, <2>2
<1>7. CASE Resumed
  <2>1. UNCHANGED <<time, elapsed, message>>
    BY <1>7 DEF Resumed
  <2>2. client' = "running"
    BY <1>7 DEF Resumed, ResumeAwaiter, DeadHandler, LiveIsAwaited
  <2> QED BY <1>2, <2>1, <2>2
<1>8. CASE NextList
  BY <1>8 DEF NextList, Erot!NextList, Erot!bmc, vars
<1>9. CASE EndTask
  BY <1>9 DEF EndTask, FinishBatch, Erot!EndTask, Erot!bmc
<1>10. CASE Layer
  <2>1. UNCHANGED <<time, elapsed, message>>
    BY <1>10 DEF Layer, erotVars
  <2>2. UNCHANGED <<client, awaited>>
    BY <1>10 DEF Layer, ReturnToExpiry, ReturnToHandleResponse, ReturnToHandleResponseAs,
           RequestRetryCallback, RemoveRequestEntry, RemoveRequestEntryAs,
           InstanceIdExpiry, HandleResponse, HandleForeignResponse
  <2> QED BY <2>1, <2>2
<1>11. CASE RestartDaemon
  <2>1. /\ time' = time /\ elapsed' = 0 /\ message' = [k \in Key |-> 0]
        /\ client' = "none"
    BY <1>11 DEF RestartDaemon, Erot!Restart, Restart
  <2> QED BY <2>1
<1>12. CASE UNCHANGED daemonVars
  BY <1>12 DEF daemonVars, vars, erotVars
<1> QED BY <1>3, <1>4, <1>5, <1>6, <1>7, <1>8, <1>9, <1>10, <1>11, <1>12 DEF DaemonNext

LEMMA MessageInvariant ==
    Clean /\ Erots \subseteq EIDs => (DaemonSpec => [](TypeOK /\ CleanInv /\ MessageInv))
<1> SUFFICES ASSUME Clean, Erots \subseteq EIDs
             PROVE  DaemonSpec => [](TypeOK /\ CleanInv /\ MessageInv)
  OBVIOUS
<1>1. DaemonInit => MessageInv
  BY DEF DaemonInit, Init, Erot!Init, MessageInv, MessageInStep
<1>2. TypeOK /\ CleanInv /\ MessageInv /\ [DaemonNext]_daemonVars => MessageInv'
  BY MessageStep DEF CleanInv
<1> QED BY <1>1, <1>2, RequesterSpec, TypeCorrect, CleanInvariant, PTL DEF DaemonSpec

\* What is asked is asked with the time that the coroutine sends now, in a Clean environment:
\* under the key of the request no earlier message is left.
THEOREM MessageAlwaysInStep ==
    Clean /\ Erots \subseteq EIDs => (DaemonSpec => []MessageInStep)
<1>1. MessageInv => MessageInStep
  BY DEF MessageInv
<1> QED BY <1>1, MessageInvariant, PTL

--------------------------------------------------------------------------------
(* The refinement: every step of Daemon is a step of ErotTimeManager.      *)

\* The request is decided in the step in which the layer begins to call its response
\* handler, and in no other.
LEMMA LayerStep ==
    ASSUME TypeOK', CleanInv, CleanInv', Layer
    PROVE  Erot!Decide \/ UNCHANGED Erot!vars
<1>1. UNCHANGED <<erotVars, client, awaited>>
  BY DEF Layer, ReturnToExpiry, ReturnToHandleResponse, ReturnToHandleResponseAs,
         RequestRetryCallback, RemoveRequestEntry, RemoveRequestEntryAs,
         InstanceIdExpiry, HandleResponse, HandleForeignResponse
<1>2. CASE call' = call
  BY <1>1, <1>2 DEF erotVars, Erot!vars, Erot!contract, Erot!bmc, Erot!work
<1>3. CASE call' # call
  <2>1. /\ call = None /\ call' # None
        /\ IF call'.answer = "none" THEN "silence" \in Outcomes ELSE Outcomes # {"silence"}
    <3>1. CASE \E k \in Key : "silence" \in Outcomes /\ InstanceIdExpiry(k)
      BY <1>3, <3>1 DEF InstanceIdExpiry, Idle
    <3>2. CASE \E k \in Key, a \in Answer : Outcomes # {"silence"} /\ HandleResponse(k, a)
      BY <1>3, <3>2 DEF HandleResponse, Idle, Answer
    <3>3. ~(\/ ReturnToExpiry \/ ReturnToHandleResponse
            \/ \E k \in Key : \/ RequestRetryCallback(k) \/ RemoveRequestEntry(k)
                              \/ HandleForeignResponse(k))
      BY <1>3 DEF ReturnToExpiry, ReturnToHandleResponse, ReturnToHandleResponseAs,
             RequestRetryCallback, RemoveRequestEntry, RemoveRequestEntryAs,
             HandleForeignResponse
    <3> QED BY <3>1, <3>2, <3>3 DEF Layer
  <2>2. client = "waiting"
    <3>1. call'.key = awaited /\ call'.key \in Key
      BY <1>1, <2>1 DEF TypeOK, CleanInv, LiveIsAwaited, Call
    <3> QED BY <3>1, NoneAssumption DEF CleanInv, LiveIsAwaited
  <2>3. /\ Outcome(call) = "open"
        /\ Outcome(call)' = IF call'.answer = "none" THEN "silent" ELSE "answered"
    BY <2>1 DEF Outcome
  <2>4. Erot!Contract!Decide
    BY <1>1, <2>2, <2>3 DEF Erot!Contract!Decide
  <2> QED BY <1>1, <2>1, <2>3, <2>4 DEF Erot!Decide, erotVars, Erot!bmc, Erot!work
<1> QED BY <1>2, <1>3

\* The coroutine asks, with a request that is sent or queued.
LEMMA AskStep ==
    ASSUME Clean, Erots \subseteq EIDs, TypeOK, IdsInStep,
           NEW e \in Erots, SetTimeOnErot(e)
    PROVE  Erot!Ask(e)
<1>1. PICK a \in Erot!Read(e), k \in Key :
        /\ client = "running" /\ client' = "waiting"
        /\ k.eid = a /\ awaited' = k /\ k # None /\ UNCHANGED call
  BY AskClean
<1>2. Asked(awaited)' = a /\ Outcome(call)' = Outcome(call)
  BY <1>1 DEF Asked
<1>3. Erot!Contract!Ask(a)
  BY <1>1, <1>2 DEF Erot!Contract!Ask
<1> QED BY <1>3 DEF SetTimeOnErot, Erot!Ask, Erot!bmc

\* It goes on with what came of the request, and the ERoT was told the time it sends.
LEMMA ResumedStep ==
    ASSUME TypeOK, LiveIsAwaited, MessageInStep, Resumed
    PROVE  Erot!Resume
<1>1. ResumeAwaiter /\ client = "waiting" /\ client' = "running" /\ call # None
  BY DEF Resumed, ResumeAwaiter, DeadHandler, LiveIsAwaited
<1>2. /\ Outcome(call) # "open"
      /\ Outcome(call)' = "open" /\ Asked(awaited)' = None
  BY <1>1 DEF ResumeAwaiter, Outcome, Asked
<1>3. Erot!Contract!Resume
  BY <1>1, <1>2 DEF Erot!Contract!Resume
<1>4. Erot!Handled(Asked(awaited), Outcome(call), elapsed)
  BY <1>1 DEF Resumed, MessageInStep
<1>5. elapsed \in Erot!Sent(Asked(awaited))
  BY DEF Erot!Sent
<1>6. Asked(awaited) \in Erots => \E left \in SUBSET (NoUnsent[Asked(awaited)] \ {elapsed}) :
                                    NoUnsent' = [NoUnsent EXCEPT ![Asked(awaited)] = left]
  <2> SUFFICES ASSUME Asked(awaited) \in Erots
               PROVE  NoUnsent' = [NoUnsent EXCEPT ![Asked(awaited)] = {}]
    OBVIOUS
  <2> QED BY DEF NoUnsent
<1> QED BY <1>3, <1>4, <1>5, <1>6
        DEF Resumed, Erot!Resume, Erot!bmc, Erot!work

LEMMA ErotStep ==
    /\ Clean /\ Erots \subseteq EIDs
    /\ TypeOK /\ TypeOK' /\ CleanInv /\ CleanInv' /\ MessageInv
    /\ [DaemonNext]_daemonVars
    => [Erot!Next]_(Erot!vars)
<1> SUFFICES ASSUME Clean, Erots \subseteq EIDs, TypeOK, TypeOK', CleanInv, CleanInv',
                    MessageInv, [DaemonNext]_daemonVars
             PROVE  Erot!Next \/ UNCHANGED Erot!vars
  OBVIOUS
<1>1. CASE Clock \/ ReturnToHandleTimeChange
  BY <1>1 DEF Clock, ReturnToHandleTimeChange, Erot!Next, Erot!EventHandler
<1>2. CASE Dispatch
  <2>1. Erot!SkipTimeChange \/ Erot!HandleTimeChange \/ Erot!Discovery
    BY <1>2 DEF Dispatch, Erot!Discovery
  <2> QED BY <2>1 DEF Erot!Next, Erot!EventHandler
<1>3. ASSUME NEW e \in Erots, SetTimeOnErot(e) PROVE Erot!Next
  BY <1>3, AskStep DEF CleanInv, Erot!Next, Erot!Coroutine
<1>4. CASE Resumed
  BY <1>4, ResumedStep DEF CleanInv, MessageInv, Erot!Next, Erot!Coroutine
<1>5. CASE NextList \/ EndTask
  BY <1>5 DEF NextList, EndTask, Erot!Next, Erot!Coroutine
<1>6. CASE Layer
  BY <1>6, LayerStep DEF Erot!Next
<1>7. CASE RestartDaemon
  BY <1>7 DEF RestartDaemon, Erot!Next
<1>8. CASE UNCHANGED daemonVars
  BY <1>8 DEF daemonVars, vars, erotVars, Erot!vars, Erot!contract, Erot!bmc, Erot!work
<1> QED BY <1>1, <1>2, <1>3, <1>4, <1>5, <1>6, <1>7, <1>8 DEF DaemonNext

\* Over the request layer the coroutine keeps to ErotTimeManager, whose request layer is
\* the contract, in a Clean environment.
THEOREM DaemonImplementsErot ==
    Clean /\ Erots \subseteq EIDs => (DaemonSpec => ErotSpec)
<1> SUFFICES ASSUME Clean, Erots \subseteq EIDs PROVE DaemonSpec => ErotSpec
  OBVIOUS
<1>1. DaemonInit => Erot!Init
  BY DEF DaemonInit
<1>2. /\ TypeOK /\ TypeOK' /\ CleanInv /\ CleanInv' /\ MessageInv
      /\ [DaemonNext]_daemonVars
      => [Erot!Next]_(Erot!vars)
  BY ErotStep
<1> QED BY <1>1, <1>2, MessageInvariant, PTL DEF DaemonSpec, ErotSpec, Erot!Spec

--------------------------------------------------------------------------------
(* What is proved of ErotTimeManager holds of the daemon.                  *)

\* The theorems of ErotTimeManager, read for this daemon
ErotP == INSTANCE ErotTimeManagerProofs WITH
    EIDs <- Erots, Garbage <- EIDs \ Erots, Faults <- ErotFaults,
    asked <- Asked(awaited), outcome <- Outcome(call),
    unsent <- NoUnsent

\* The constants are as ErotTimeManager assumes.
ErotParameters ==
    /\ Erots \subseteq EIDs
    /\ UuidOf \in [Erots -> UUIDs]
    /\ Rank \in [Erots -> Nat]
    /\ Outcomes \subseteq {"success", "unsupported", "error", "silence"}
    /\ ErotFaults \subseteq {"elapsed", "send"}
    /\ Calm \subseteq {"hurry", "overlap"}
    /\ MaxTime \in Nat \ {0} /\ MaxSignals \in Nat
    /\ None \notin EIDs

LEMMA ErotAssumed ==
    ASSUME ErotParameters
    PROVE  /\ UuidOf \in [Erots -> UUIDs]
           /\ Rank \in [Erots -> Nat]
           /\ Outcomes \subseteq {"success", "unsupported", "error", "silence"}
           /\ ErotFaults \subseteq {"elapsed", "send"}
           /\ Calm \subseteq {"hurry", "overlap"}
           /\ MaxTime \in Nat \ {0} /\ MaxSignals \in Nat
           /\ None \notin Erots \cup (EIDs \ Erots)
BY DEF ErotParameters

\* They are theorems of the same specification.
LEMMA SameSpec == Erot!Spec => ErotP!Spec
<1>1. Erot!Init => ErotP!Init
  BY DEF Erot!Init, ErotP!Init, Erot!Contract!Init, ErotP!Contract!Init
<1>2. [Erot!Next]_(Erot!vars) => [ErotP!Next]_(ErotP!vars)
  BY DEF Erot!Next, Erot!vars, Erot!contract, Erot!bmc, Erot!work, Erot!Coroutine,
       Erot!EventHandler, Erot!Discovery, Erot!Found, Erot!NextList, Erot!EndTask,
       Erot!Resume, Erot!Ask, Erot!AskFails, Erot!SkipTimeChange, Erot!HandleTimeChange,
       Erot!ReturnToHandleTimeChange, Erot!HandleMctpEndpointsBusy,
       Erot!HandleMctpEndpoints, Erot!QueueEndpoints, Erot!Decide, Erot!TimeChanges,
       Erot!IntervalElapses, Erot!Restart, Erot!Idle, Erot!AtRest, Erot!Now,
       Erot!Elapsed, Erot!Read, Erot!Dangling, Erot!OfErot, Erot!Top, Erot!Tops,
       Erot!Sent, Erot!Told, Erot!Forget, Erot!Handled, Erot!Contract!Start,
       Erot!Contract!Finish, Erot!Contract!Ask, Erot!Contract!Decide,
       Erot!Contract!Resume, Erot!Contract!Restart, ErotP!Next, ErotP!vars,
       ErotP!contract, ErotP!bmc, ErotP!work, ErotP!Coroutine, ErotP!EventHandler,
       ErotP!Discovery, ErotP!Found, ErotP!NextList, ErotP!EndTask, ErotP!Resume,
       ErotP!Ask, ErotP!AskFails, ErotP!SkipTimeChange, ErotP!HandleTimeChange,
       ErotP!ReturnToHandleTimeChange, ErotP!HandleMctpEndpointsBusy,
       ErotP!HandleMctpEndpoints, ErotP!QueueEndpoints, ErotP!Decide, ErotP!TimeChanges,
       ErotP!IntervalElapses, ErotP!Restart, ErotP!Idle, ErotP!AtRest, ErotP!Now,
       ErotP!Elapsed, ErotP!Read, ErotP!Dangling, ErotP!OfErot, ErotP!Top, ErotP!Tops,
       ErotP!Sent, ErotP!Told, ErotP!Forget, ErotP!Handled, ErotP!Contract!Start,
       ErotP!Contract!Finish, ErotP!Contract!Ask, ErotP!Contract!Decide,
       ErotP!Contract!Resume, ErotP!Contract!Restart
<1> QED BY <1>1, <1>2, PTL DEF Erot!Spec, ErotP!Spec

LEMMA DaemonIsErotP == Clean /\ ErotParameters => (DaemonSpec => ErotP!Spec)
BY DaemonImplementsErot, SameSpec, PTL DEF ErotParameters, ErotSpec

\* No ERoT is ever set back to an older time by a request the daemon awaits, whatever the
\* ERoTs answer or do not: when every request can be sent, none that is awaited has the
\* time of an earlier task.  (An expired request that is sent again before its Defer is not
\* awaited, and its effect is not followed.)
THEOREM DaemonNeverSetsBack ==
    Clean /\ ErotParameters
    => (DaemonSpec => [][\A u \in UUIDs : erot'[u] >= erot[u]]_erot)
<1> SUFFICES ASSUME Clean, ErotParameters
             PROVE  DaemonSpec => [][\A u \in UUIDs : erot'[u] >= erot[u]]_erot
  OBVIOUS
<1>1. DaemonSpec => ErotP!NeverSetBack
  BY ErotP!NeverSetBackAlways, ErotAssumed, DaemonIsErotP, PTL
<1>2. ErotP!NeverSetBack
      => [][\A u \in UUIDs :
              \/ erot'[u] >= erot[u]
              \/ \E e \in Erots :
                   UuidOf[e] = u /\ erot'[u] \in NoUnsent[e]]_(ErotP!vars)
  BY PTL DEF ErotP!NeverSetBack
<1>3. [\A u \in UUIDs :
         \/ erot'[u] >= erot[u]
         \/ \E e \in Erots :
              UuidOf[e] = u /\ erot'[u] \in NoUnsent[e]]_(ErotP!vars)
      => [\A u \in UUIDs : erot'[u] >= erot[u]]_erot
  BY DEF ErotP!vars, NoUnsent
<1> QED BY <1>1, <1>2, <1>3, PTL

\* Where no discovery meets a time change and Elapsed can be read, a list only waits behind
\* the coroutine that will take it, whatever requests come to.
THEOREM DaemonAttendsQueue ==
    Clean /\ ErotParameters /\ ErotP!NoOverlap => (DaemonSpec => []Erot!QueueAttended)
<1> SUFFICES ASSUME Clean, ErotParameters, ErotP!NoOverlap
             PROVE  DaemonSpec => []Erot!QueueAttended
  OBVIOUS
<1>1. ErotP!QueueAttended => Erot!QueueAttended
  BY DEF ErotP!QueueAttended, Erot!QueueAttended
<1> QED BY <1>1, ErotP!QueueAlwaysAttended, ErotAssumed, DaemonIsErotP, PTL

\* Where every request is answered with success, no discovered endpoint is lost.
THEOREM DaemonLosesNone ==
    Clean /\ ErotParameters /\ ErotP!AllSucceed => (DaemonSpec => []Erot!NoneLost)
<1> SUFFICES ASSUME Clean, ErotParameters, ErotP!AllSucceed
             PROVE  DaemonSpec => []Erot!NoneLost
  OBVIOUS
<1>1. ErotP!NoneLost => Erot!NoneLost
  BY DEF ErotP!NoneLost, Erot!NoneLost
<1> QED BY <1>1, ErotP!NoneEverLost, ErotAssumed, DaemonIsErotP, PTL

\* And in a calm environment every known ERoT has the BMC's time when nothing is under way.
THEOREM DaemonSyncedAtRest ==
    Clean /\ ErotParameters /\ ErotP!AllCalm => (DaemonSpec => []Erot!SyncedAtRest)
<1> SUFFICES ASSUME Clean, ErotParameters, ErotP!AllCalm
             PROVE  DaemonSpec => []Erot!SyncedAtRest
  OBVIOUS
<1>1. ErotP!SyncedAtRest => Erot!SyncedAtRest
  BY DEF ErotP!SyncedAtRest, Erot!SyncedAtRest, ErotP!AtRest, Erot!AtRest
<1> QED BY <1>1, ErotP!AlwaysSyncedAtRest, ErotAssumed, DaemonIsErotP, PTL

================================================================================
