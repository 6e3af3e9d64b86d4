---------------------------- MODULE RequesterProofs ----------------------------
(***************************************************************************)
(* What TLAPS proves of Requester, for every set of endpoints and every    *)
(* number of instance IDs and of retries.  In any environment: TypeOK and  *)
(* OneInFlight.  When expiry timers always start: RetryBudget.  When       *)
(* nothing fails to start and no foreign answer comes: IdsInStep.  Without *)
(* late and foreign answers: RemovalHitsExpired.  In a clean environment:  *)
(* CleanInv, the three promises that follow from it, and that every step   *)
(* is a step of RequestContract or leaves it unchanged.                    *)
(***************************************************************************)
EXTENDS Requester, TLAPS

--------------------------------------------------------------------------------
(* What runRegisteredRequest does, for any map H of registered requests.   *)

\* It does nothing, or it starts one registered request of the endpoint, of
\* which no request is in flight.
LEMMA StartsCases ==
    ASSUME NEW H \in [Key -> Entry], NEW e \in EIDs, NEW s \in Starts(H, e)
    PROVE  \/ s = Nothing
           \/ /\ s.key \in OfEid(Registered(H), e)
              /\ s.result \in {"ok"} \cup Faults
              /\ s.result \in {"ok"} \cup StartFaults
              /\ OfEid(Running(H), e) = {}
  BY EnvironmentAssumption DEF Starts

\* The call keeps the types of the three maps it touches.
LEMMA StartsType ==
    ASSUME NEW H \in [Key -> Entry], NEW e \in EIDs, NEW s \in Starts(H, e),
           NEW I \in [EIDs -> SUBSET Ids], NEW W \in [Key -> SUBSET Answer]
    PROVE  /\ HandlersAfter(H, s) \in [Key -> Entry]
           /\ IdsAfter(I, s) \in [EIDs -> SUBSET Ids]
           /\ WireAfter(W, s) \in [Key -> SUBSET Answer]
<1>1. CASE s = Nothing
  BY <1>1 DEF Nothing, HandlersAfter, IdsAfter, WireAfter
<1>2. CASE /\ s.key \in OfEid(Registered(H), e)
           /\ s.result \in {"ok"} \cup Faults
  <2>1. s.key \in Key /\ s.key.eid \in EIDs /\ s.key # None
    BY <1>2, NoneAssumption DEF OfEid, Registered, Key
  <2>2. Started(H[s.key], s.result) \in Entry
    <3>1. H[s.key] \in Entry
      BY <2>1
    <3>2. 0 \in 0 .. ExpiryPeriods
      BY RetryAssumption
    <3> QED BY <3>1, <3>2, <1>2 DEF Started, Entry, Faults, MoreRetries
  <2>3. HandlersAfter(H, s) \in [Key -> Entry]
    BY <2>1, <2>2 DEF HandlersAfter
  <2>4. IdsAfter(I, s) \in [EIDs -> SUBSET Ids]
    BY <2>1 DEF IdsAfter, MarkFree
  <2>5. WireAfter(W, s) \in [Key -> SUBSET Answer]
    BY <2>1 DEF WireAfter, Answer
  <2> QED BY <2>3, <2>4, <2>5
<1> QED BY <1>1, <1>2, StartsCases

\* Whatever fails, what is started neither takes an entry out of the map nor gives it
\* another response handler.
LEMMA StartsKeepEntries ==
    ASSUME NEW H \in [Key -> Entry], NEW e \in EIDs, NEW s \in Starts(H, e), NEW k \in Key
    PROVE  /\ HandlersAfter(H, s)[k].live = H[k].live
           /\ H[k].st # "absent" => HandlersAfter(H, s)[k].st # "absent"
<1>1. CASE s = Nothing
  BY <1>1 DEF Nothing, HandlersAfter
<1>2. CASE s.key \in Key /\ s.result \in {"ok"} \cup Faults
  <2>1. H[s.key] \in Entry /\ s.key # None
    BY <1>2, NoneAssumption
  <2>2. /\ Started(H[s.key], s.result).live = H[s.key].live
        /\ H[s.key].st # "absent" => Started(H[s.key], s.result).st # "absent"
    BY <2>1 DEF Started, Entry
  <2> QED BY <2>1, <2>2 DEF HandlersAfter
<1> QED BY <1>1, <1>2, StartsCases DEF OfEid, Registered

\* At most one request of every endpoint is in flight, in the map H.
OneRunning(H) == \A j, k \in Running(H) : j.eid = k.eid => j = k

\* The call never puts a second one in flight.
LEMMA StartsOneRunning ==
    ASSUME NEW H \in [Key -> Entry], NEW e \in EIDs, NEW s \in Starts(H, e),
           OneRunning(H)
    PROVE  OneRunning(HandlersAfter(H, s))
<1>1. CASE s = Nothing
  BY <1>1 DEF Nothing, HandlersAfter
<1>2. CASE /\ s.key \in OfEid(Registered(H), e)
           /\ s.result \in {"ok"} \cup Faults
           /\ OfEid(Running(H), e) = {}
  <2> DEFINE A == HandlersAfter(H, s)
  <2>1. s.key \in Key /\ s.key.eid = e /\ s.key # None
    BY <1>2, NoneAssumption DEF OfEid, Registered
  <2>2. A = [H EXCEPT ![s.key] = Started(@, s.result)]
    BY <2>1 DEF HandlersAfter
  <2>3. \A k \in Running(A) : k = s.key \/ k \in Running(H)
    BY <2>1, <2>2 DEF Running
  <2>4. \A k \in Running(H) : k.eid # e
    BY <1>2 DEF OfEid
  <2> QED BY <2>1, <2>3, <2>4 DEF OneRunning
<1> QED BY <1>1, <1>2, StartsCases

\* Replacing one entry by one that is not in flight keeps it so.
LEMMA StopOneRunning ==
    ASSUME NEW H \in [Key -> Entry], OneRunning(H), NEW k \in Key, NEW ent,
           ent.st = "running" => H[k].st = "running"
    PROVE  OneRunning([H EXCEPT ![k] = ent])
  BY DEF OneRunning, Running

LEMMA EntryTypes ==
    /\ Absent \in Entry /\ NewEntry \in Entry
    /\ Absent.st = "absent" /\ NewEntry.st = "queued" /\ NewEntry.live
<1>1. 0 \in 0 .. ExpiryPeriods
  BY RetryAssumption
<1> QED BY <1>1, RetryAssumption DEF Absent, NewEntry, Entry


--------------------------------------------------------------------------------
(* Any environment: types, and one request in flight per endpoint.         *)

\* Every step keeps the types.
LEMMA TypeStep == TypeOK /\ [Next]_vars => TypeOK'
<1> SUFFICES ASSUME TypeOK, [Next]_vars PROVE TypeOK'
  OBVIOUS
<1> USE DEF TypeOK
<1>1. CASE StartBatch
  BY <1>1 DEF StartBatch
<1>2. CASE FinishBatch
  BY <1>2 DEF FinishBatch
<1>3. ASSUME NEW e \in EIDs, SendRecv(e) PROVE TypeOK'
  <2>1. PICK i \in Ids, st \in Start : SendRecvAs(e, i, st)
    BY <1>3 DEF SendRecv
  <2> DEFINE k == [eid |-> e, instanceId |-> i]
             fresh == handlers[k].st = "absent"
             H == IF fresh THEN [handlers EXCEPT ![k] = NewEntry] ELSE handlers
             I == [ids EXCEPT ![e] = @ \cup {i}]
             W == IF fresh /\ wire[k] # {}
                  THEN [wire EXCEPT ![k] = {"earlier"}] ELSE wire
  <2>2. k \in Key
    BY DEF Key
  <2>3. H \in [Key -> Entry] /\ I \in [EIDs -> SUBSET Ids]
        /\ W \in [Key -> SUBSET Answer]
    BY <2>2, EntryTypes DEF Answer
  <2> HIDE DEF H, I, W
  <2>4. PICK s \in Starts(H, e) :
          /\ ids' = IdsAfter(I, s)
          /\ wire' = WireAfter(W, s)
          /\ \/ handlers' = HandlersAfter(H, s) /\ client' = "waiting" /\ awaited' = k
             \/ /\ handlers' = [HandlersAfter(H, s) EXCEPT ![k].live = FALSE]
                /\ UNCHANGED <<client, awaited>>
    BY <2>1 DEF SendRecvAs, Emplaced, H, I, W
  <2>5. /\ HandlersAfter(H, s) \in [Key -> Entry]
        /\ ids' \in [EIDs -> SUBSET Ids]
        /\ wire' \in [Key -> SUBSET Answer]
    BY <2>3, <2>4, StartsType
  <2>6. [HandlersAfter(H, s) EXCEPT ![k].live = FALSE] \in [Key -> Entry]
    BY <2>2, <2>5 DEF Entry
  <2> QED BY <1>3, <2>2, <2>4, <2>5, <2>6 DEF SendRecv, SendRecvAs, Emplaced
<1>4. CASE ResumeAwaiter
  BY <1>4 DEF ResumeAwaiter
<1>5. CASE DeadHandler
  <2>1. [k \in Key |-> [handlers[k] EXCEPT !.live = FALSE]] \in [Key -> Entry]
    BY DEF Entry
  <2> QED BY <1>5, <2>1 DEF DeadHandler
<1>6. CASE ReturnToExpiry
  BY <1>6 DEF ReturnToExpiry, After
<1>7. CASE ReturnToHandleResponse
  <2>1. after.key.eid \in EIDs
    BY <1>7 DEF ReturnToHandleResponse, ReturnToHandleResponseAs, After, Key
  <2> QED BY <1>7, <2>1, StartsType DEF ReturnToHandleResponse, ReturnToHandleResponseAs
<1>8. ASSUME NEW k \in Key, RequestRetryCallback(k) PROVE TypeOK'
  <2>1. handlers[k] \in Entry
    OBVIOUS
  <2>2. Decrement(handlers[k].left) \in 0 .. (RetryModulus - 1)
    BY <2>1, RetryAssumption DEF Decrement, Entry
  <2>3. handlers[k].st = "running" => handlers[k].fired + 1 \in 0 .. ExpiryPeriods
    BY <1>8, <2>1, RetryAssumption DEF RequestRetryCallback, Entry, MoreRetries
  <2>4. handlers' \in [Key -> Entry]
    BY <1>8, <2>1, <2>2, <2>3 DEF RequestRetryCallback, Entry, MoreRetries
  <2>5. wire' \in [Key -> SUBSET Answer]
    BY <1>8 DEF RequestRetryCallback, Answer, MoreRetries
  <2> QED BY <1>8, <2>4, <2>5 DEF RequestRetryCallback, MoreRetries
<1>9. ASSUME NEW k \in Key, InstanceIdExpiry(k) PROVE TypeOK'
  <2>1. handlers' \in [Key -> Entry]
    <3>1. [handlers[k] EXCEPT !.st = "queued", !.live = FALSE, !.retry = FALSE] \in Entry
      BY DEF Entry
    <3> QED BY <1>9, <3>1 DEF InstanceIdExpiry
  <2>2. call' \in Call
    BY <1>9 DEF InstanceIdExpiry, Call, Entry
  <2>3. after' \in After
    BY <1>9 DEF InstanceIdExpiry, After
  <2>4. wire' \in [Key -> SUBSET Answer] /\ ready' \in Key \cup {None}
    BY <1>9 DEF InstanceIdExpiry
  <2> QED BY <1>9, <2>1, <2>2, <2>3, <2>4 DEF InstanceIdExpiry
<1>10. ASSUME NEW k \in Key, RemoveRequestEntry(k) PROVE TypeOK'
  <2> DEFINE H == [handlers EXCEPT ![k] = Absent]
             I == [ids EXCEPT ![k.eid] = MarkFree(@, k.instanceId)]
  <2>1. k.eid \in EIDs
    BY DEF Key
  <2>2. H \in [Key -> Entry] /\ I \in [EIDs -> SUBSET Ids]
    BY EntryTypes DEF MarkFree
  <2>3. PICK s \in Starts(H, k.eid) : /\ handlers' = HandlersAfter(H, s)
                                      /\ ids' = IdsAfter(I, s)
                                      /\ wire' = WireAfter(wire, s)
    BY <1>10 DEF RemoveRequestEntry, RemoveRequestEntryAs, Erased
  <2> HIDE DEF H, I
  <2>4. /\ handlers' \in [Key -> Entry]
        /\ ids' \in [EIDs -> SUBSET Ids]
        /\ wire' \in [Key -> SUBSET Answer]
    BY <2>1, <2>2, <2>3, StartsType
  <2> QED BY <1>10, <2>4 DEF RemoveRequestEntry, RemoveRequestEntryAs, Erased
<1>11. ASSUME NEW k \in Key, NEW a \in Answer, HandleResponse(k, a) PROVE TypeOK'
  <2>1. ids' \in [EIDs -> SUBSET Ids]
    BY <1>11 DEF HandleResponse, MarkFree, Erased
  <2>2. wire' \in [Key -> SUBSET Answer]
    BY <1>11 DEF HandleResponse, Erased
  <2>3. after' \in After
    BY <1>11 DEF HandleResponse, After, Erased
  <2>4. handlers' \in [Key -> Entry] /\ call' \in Call \cup {None}
    BY <1>11, EntryTypes DEF HandleResponse, Call, Entry, Erased
  <2> QED BY <1>11, <2>1, <2>2, <2>3, <2>4 DEF HandleResponse, Erased
<1>12. ASSUME NEW k \in Key, HandleForeignResponse(k) PROVE TypeOK'
  BY <1>12 DEF HandleForeignResponse, After, MarkFree
<1>13. CASE Restart
  BY <1>13, EntryTypes DEF Restart
<1>14. CASE UNCHANGED vars
  BY <1>14 DEF vars
<1> QED BY <1>1, <1>2, <1>3, <1>4, <1>5, <1>6, <1>7, <1>8, <1>9, <1>10, <1>11,
           <1>12, <1>13, <1>14 DEF Next, Client, Handler, Timer, Socket

\* Every variable has its type, whatever fails.
THEOREM TypeCorrect == Spec => []TypeOK
<1>1. Init => TypeOK
  BY EntryTypes DEF Init, TypeOK
<1> QED BY <1>1, TypeStep, PTL DEF Spec

\* No endpoint ever has two requests in flight, whatever fails, whenever the
\* answers come and whoever else uses the endpoint.
THEOREM OneInFlightAlways == Spec => []OneInFlight
<1>1. Init => OneInFlight
  BY DEF Init, OneInFlight, Running, Absent
<1>2. TypeOK /\ OneInFlight /\ [Next]_vars => OneInFlight'
  <2> SUFFICES ASSUME TypeOK, OneInFlight, [Next]_vars PROVE OneInFlight'
    OBVIOUS
  <2>a. handlers \in [Key -> Entry] /\ OneRunning(handlers)
    BY DEF TypeOK, OneInFlight, OneRunning
  <2>b. OneRunning(handlers') => OneInFlight'
    BY DEF OneInFlight, OneRunning, Running
  <2>c. (\A k \in Key : handlers'[k].st = "running" => handlers[k].st = "running")
          => OneInFlight'
    BY <2>a, <2>b DEF OneRunning, Running
  <2>1. CASE UNCHANGED handlers
    BY <2>1, <2>a, <2>b
  <2>2. ASSUME NEW e \in EIDs, SendRecv(e) PROVE OneInFlight'
    <3>1. PICK i \in Ids, st \in Start : SendRecvAs(e, i, st)
      BY <2>2 DEF SendRecv
    <3> DEFINE k == [eid |-> e, instanceId |-> i]
               H == IF handlers[k].st = "absent"
                    THEN [handlers EXCEPT ![k] = NewEntry] ELSE handlers
    <3>2. k \in Key
      BY DEF Key
    <3>3. H \in [Key -> Entry] /\ OneRunning(H)
      BY <2>a, <3>2, EntryTypes, StopOneRunning
    <3> HIDE DEF H
    <3>4. PICK s \in Starts(H, e) :
             \/ handlers' = HandlersAfter(H, s)
             \/ handlers' = [HandlersAfter(H, s) EXCEPT ![k].live = FALSE]
      BY <3>1 DEF SendRecvAs, Emplaced, H
    <3> DEFINE A == HandlersAfter(H, s)
    <3>5. OneRunning(A) /\ A \in [Key -> Entry]
      BY <3>3, StartsOneRunning, StartsType DEF TypeOK
    <3> HIDE DEF A
    <3>6. OneRunning([A EXCEPT ![k].live = FALSE])
      <4>1. A[k] \in Entry
        BY <3>2, <3>5
      <4>2. [A[k] EXCEPT !.live = FALSE].st = A[k].st
        BY <4>1 DEF Entry
      <4> QED BY <3>2, <3>5, <4>2, StopOneRunning
    <3> QED BY <2>b, <3>4, <3>5, <3>6 DEF A
  <2>3. CASE DeadHandler
    <3>1. \A k \in Key : [handlers[k] EXCEPT !.live = FALSE].st = handlers[k].st
      BY <2>a DEF Entry
    <3>2. \/ handlers' = handlers
          \/ handlers' = [k \in Key |-> [handlers[k] EXCEPT !.live = FALSE]]
      BY <2>3 DEF DeadHandler
    <3>3. \A k \in Key : handlers'[k].st = handlers[k].st
      BY <3>1, <3>2
    <3> QED BY <2>c, <3>3
  <2>4. CASE ReturnToHandleResponse
    <3>1. after.key.eid \in EIDs
      BY <2>4 DEF TypeOK, ReturnToHandleResponse, ReturnToHandleResponseAs, After, Key
    <3> QED BY <2>4, <2>a, <2>b, <3>1, StartsOneRunning DEF ReturnToHandleResponse, ReturnToHandleResponseAs
  <2>5. ASSUME NEW k \in Key, RequestRetryCallback(k) PROVE OneInFlight'
    <3>1. \A j \in Key : handlers'[j].st = handlers[j].st
      BY <2>5, <2>a DEF RequestRetryCallback, Entry, MoreRetries
    <3> QED BY <2>c, <3>1
  <2>6. ASSUME NEW k \in Key, InstanceIdExpiry(k) PROVE OneInFlight'
    <3>1. \A j \in Key : handlers'[j].st = "running" => handlers[j].st = "running"
      BY <2>6, <2>a DEF InstanceIdExpiry, Entry
    <3> QED BY <2>c, <3>1
  <2>7. ASSUME NEW k \in Key, RemoveRequestEntry(k) PROVE OneInFlight'
    <3> DEFINE H == [handlers EXCEPT ![k] = Absent]
    <3>1. k.eid \in EIDs
      BY DEF Key
    <3>2. H \in [Key -> Entry] /\ OneRunning(H)
      BY <2>a, EntryTypes, StopOneRunning
    <3>3. \E s \in Starts(H, k.eid) : handlers' = HandlersAfter(H, s)
      BY <2>7 DEF RemoveRequestEntry, RemoveRequestEntryAs, Erased
    <3> HIDE DEF H
    <3> QED BY <2>b, <3>1, <3>2, <3>3, StartsOneRunning
  <2>8. ASSUME NEW k \in Key, NEW a \in Answer, HandleResponse(k, a)
        PROVE  OneInFlight'
    BY <2>8, <2>a, <2>b, EntryTypes, StopOneRunning DEF HandleResponse, Erased
  <2>9. CASE Restart
    BY <2>9, <2>b DEF Restart, OneRunning, Running, Absent
  <2>10. (StartBatch \/ FinishBatch \/ ResumeAwaiter \/ ReturnToExpiry
            \/ (\E k \in Key : HandleForeignResponse(k)) \/ UNCHANGED vars)
         => UNCHANGED handlers
    BY DEF StartBatch, FinishBatch, ResumeAwaiter, ReturnToExpiry,
           HandleForeignResponse, vars
  <2> QED BY <2>1, <2>2, <2>3, <2>4, <2>5, <2>6, <2>7, <2>8, <2>9, <2>10
          DEF Next, Client, Handler, Timer, Socket
<1> QED BY <1>1, <1>2, TypeCorrect, PTL DEF Spec


--------------------------------------------------------------------------------
(* The retry budget, as long as the expiry timer can be started.           *)

\* What makes RetryBudget inductive: a queued request that is awaited has had no
\* retry yet, and its retry timer is not armed.
Budgeted(ent) ==
    ent.live => /\ ent.st = "queued" => ent.left = NumRetries /\ ~ent.retry
                /\ ent.st = "running" /\ ent.retry => ent.left + ent.fired = NumRetries

AllBudgeted(H) == \A k \in Key : Budgeted(H[k])

LEMMA StartsBudgeted ==
    ASSUME "expiryTimer" \notin StartFaults, NEW H \in [Key -> Entry], AllBudgeted(H),
           NEW e \in EIDs, NEW s \in Starts(H, e)
    PROVE  AllBudgeted(HandlersAfter(H, s))
<1>1. CASE s = Nothing
  BY <1>1 DEF Nothing, HandlersAfter
<1>2. CASE /\ s.key \in OfEid(Registered(H), e)
           /\ s.result \in {"ok"} \cup StartFaults
           /\ OfEid(Running(H), e) = {}
  <2>1. s.key \in Key /\ s.key # None /\ H[s.key].st = "queued"
    BY <1>2, NoneAssumption DEF OfEid, Registered, Running, Entry
  <2>2. Budgeted(Started(H[s.key], s.result))
    <3>1. PICK h \in Entry : h = H[s.key] /\ Budgeted(h) /\ h.st = "queued"
      BY <2>1 DEF AllBudgeted
    <3> SUFFICES Budgeted(Started(h, s.result))
      BY <3>1
    <3>2. CASE s.result = "ok"
      <4>1. /\ Started(h, s.result).live = h.live
            /\ Started(h, s.result).left = h.left
            /\ Started(h, s.result).st = "running"
            /\ Started(h, s.result).fired = 0
        BY <3>1, <3>2 DEF Started, Entry, MoreRetries
      <4>2. h.live => h.left = NumRetries
        BY <3>1 DEF Budgeted
      <4> QED BY <4>1, <4>2, RetryAssumption DEF Budgeted
    <3>3. CASE s.result # "ok"
      <4>1. s.result # "expiryTimer"
        BY <1>2, <3>3
      <4>2. Started(h, s.result) = h
        BY <3>3, <4>1 DEF Started, MoreRetries
      <4> QED BY <3>1, <4>2
    <3> QED BY <3>2, <3>3
  <2> QED BY <2>1, <2>2 DEF HandlersAfter, AllBudgeted
<1> QED BY <1>1, <1>2, StartsCases

LEMMA BudgetStep ==
    ASSUME "expiryTimer" \notin StartFaults, TypeOK, AllBudgeted(handlers), [Next]_vars
    PROVE  AllBudgeted(handlers')
<1>0. handlers \in [Key -> Entry]
  BY DEF TypeOK
<1>1. CASE UNCHANGED handlers
  BY <1>1
<1>2. ASSUME NEW e \in EIDs, SendRecv(e) PROVE AllBudgeted(handlers')
  <2>1. PICK i \in Ids, st \in Start : SendRecvAs(e, i, st)
    BY <1>2 DEF SendRecv
  <2> DEFINE k == [eid |-> e, instanceId |-> i]
             H == IF handlers[k].st = "absent"
                  THEN [handlers EXCEPT ![k] = NewEntry] ELSE handlers
  <2>2. k \in Key
    BY DEF Key
  <2>3. Budgeted(NewEntry)
    BY DEF Budgeted, NewEntry, Absent
  <2>4. H \in [Key -> Entry] /\ AllBudgeted(H)
    BY <1>0, <2>2, <2>3, EntryTypes DEF AllBudgeted
  <2> HIDE DEF H
  <2>5. PICK s \in Starts(H, e) :
           \/ handlers' = HandlersAfter(H, s)
           \/ handlers' = [HandlersAfter(H, s) EXCEPT ![k].live = FALSE]
    BY <2>1 DEF SendRecvAs, Emplaced, H
  <2> DEFINE A == HandlersAfter(H, s)
  <2>6. AllBudgeted(A) /\ A \in [Key -> Entry]
    BY <2>4, StartsBudgeted, StartsType DEF TypeOK
  <2> HIDE DEF A
  <2>7. Budgeted([A[k] EXCEPT !.live = FALSE])
    BY <2>2, <2>6 DEF Budgeted, Entry
  <2> QED BY <2>2, <2>5, <2>6, <2>7 DEF A, AllBudgeted
<1>3. CASE DeadHandler
  <2>1. \A k \in Key : Budgeted([handlers[k] EXCEPT !.live = FALSE])
    BY <1>0 DEF Budgeted, Entry
  <2> QED BY <1>3, <2>1 DEF DeadHandler, AllBudgeted
<1>4. CASE ReturnToHandleResponse
  <2>1. after.key.eid \in EIDs
    BY <1>4 DEF TypeOK, ReturnToHandleResponse, ReturnToHandleResponseAs, After, Key
  <2> QED BY <1>0, <1>4, <2>1, StartsBudgeted DEF ReturnToHandleResponse, ReturnToHandleResponseAs
<1>5. ASSUME NEW k \in Key, RequestRetryCallback(k) PROVE AllBudgeted(handlers')
  <2>1. PICK h \in Entry :
           h = handlers[k] /\ Budgeted(h) /\ h.retry /\ h.st # "absent"
    BY <1>0, <1>5 DEF AllBudgeted, RequestRetryCallback, MoreRetries
  <2> DEFINE f == IF h.st = "running" THEN h.fired + 1 ELSE h.fired
             n == [h EXCEPT !.left = Decrement(h.left), !.retry = (h.left # 0),
                            !.fired = f]
  <2>2. handlers' = [handlers EXCEPT ![k] = n]
    BY <1>5, <2>1 DEF RequestRetryCallback, MoreRetries
  <2>3. /\ n.live = h.live /\ n.st = h.st /\ n.left = Decrement(h.left)
        /\ n.retry = (h.left # 0) /\ n.fired = f
    BY DEF Entry
  <2>4. h.left \in Nat /\ h.fired \in Nat
    BY RetryAssumption DEF Entry
  <2> HIDE DEF n
  <2>5. Budgeted(n)
    <3>1. ASSUME h.live PROVE h.st = "running" /\ h.left + h.fired = NumRetries
      BY <2>1, <3>1 DEF Budgeted, Entry
    <3>2. ASSUME h.live, h.left # 0 PROVE n.left + n.fired = NumRetries
      <4>1. n.left = h.left - 1 /\ n.fired = h.fired + 1
        BY <2>3, <3>1, <3>2 DEF Decrement
      <4> QED BY <2>4, <3>1, <3>2, <4>1
    <3>3. n.retry => h.left # 0
      BY <2>3
    <3>4. n.live => h.live /\ n.st = "running"
      BY <2>3, <3>1
    <3> QED BY <3>2, <3>3, <3>4 DEF Budgeted
  <2> QED BY <1>0, <2>2, <2>5 DEF AllBudgeted
<1>6. ASSUME NEW k \in Key, InstanceIdExpiry(k) PROVE AllBudgeted(handlers')
  <2>1. Budgeted([handlers[k] EXCEPT !.st = "queued", !.live = FALSE, !.retry = FALSE])
    BY <1>0 DEF Budgeted, Entry
  <2> QED BY <1>0, <1>6, <2>1 DEF InstanceIdExpiry, AllBudgeted
<1>7. Budgeted(Absent)
  BY DEF Budgeted, Absent
<1>8. ASSUME NEW k \in Key, RemoveRequestEntry(k) PROVE AllBudgeted(handlers')
  <2> DEFINE H == [handlers EXCEPT ![k] = Absent]
  <2>1. k.eid \in EIDs /\ H \in [Key -> Entry] /\ AllBudgeted(H)
    BY <1>0, <1>7, EntryTypes DEF Key, AllBudgeted
  <2>2. \E s \in Starts(H, k.eid) : handlers' = HandlersAfter(H, s)
    BY <1>8 DEF RemoveRequestEntry, RemoveRequestEntryAs, Erased
  <2> HIDE DEF H
  <2> QED BY <2>1, <2>2, StartsBudgeted
<1>9. ASSUME NEW k \in Key, NEW a \in Answer, HandleResponse(k, a)
      PROVE  AllBudgeted(handlers')
  BY <1>0, <1>7, <1>9 DEF HandleResponse, AllBudgeted, Erased
<1>10. CASE Restart
  BY <1>7, <1>10 DEF Restart, AllBudgeted
<1>11. (StartBatch \/ FinishBatch \/ ResumeAwaiter \/ ReturnToExpiry
          \/ (\E k \in Key : HandleForeignResponse(k)) \/ UNCHANGED vars)
       => UNCHANGED handlers
  BY DEF StartBatch, FinishBatch, ResumeAwaiter, ReturnToExpiry,
         HandleForeignResponse, vars
<1> QED BY <1>1, <1>2, <1>3, <1>4, <1>5, <1>6, <1>8, <1>9, <1>10, <1>11
        DEF Next, Client, Handler, Timer, Socket

\* The retry counter of an awaited request does not wrap, and the endpoint is sent
\* at most 1 + NumRetries messages, whatever else fails and whatever arrives.
THEOREM RetriesWithinBudget ==
    "expiryTimer" \notin StartFaults => (Spec => []RetryBudget)
<1> SUFFICES ASSUME "expiryTimer" \notin StartFaults PROVE Spec => []RetryBudget
  OBVIOUS
<1> DEFINE Inv == AllBudgeted(handlers)
<1>1. Init => Inv
  BY DEF Init, AllBudgeted, Budgeted, Absent
<1>2. TypeOK /\ Inv /\ [Next]_vars => Inv'
  BY BudgetStep
<1>3. Inv => RetryBudget
  BY DEF AllBudgeted, Budgeted, RetryBudget
<1> HIDE DEF Inv
<1> QED BY <1>1, <1>2, <1>3, TypeCorrect, PTL DEF Spec

--------------------------------------------------------------------------------
(* A Clean environment: the promises of the layer.                         *)

LEMMA KeyEquality ==
    \A j, k \in Key : j.eid = k.eid /\ j.instanceId = k.instanceId => j = k
  BY DEF Key

\* Without failures, runRegisteredRequest changes neither the set of registered
\* requests nor their response handlers nor the instance IDs, takes no request out
\* of flight, and leaves one in flight when it finds any of the endpoint.
LEMMA StartsClean ==
    ASSUME NEW H \in [Key -> Entry], NEW e \in EIDs, NEW s \in Starts(H, e), s.result = "ok"
    PROVE  /\ \A I : IdsAfter(I, s) = I
           /\ HandlersAfter(H, s) \in [Key -> Entry]
           /\ \A k \in Key :
                /\ HandlersAfter(H, s)[k].live = H[k].live
                /\ HandlersAfter(H, s)[k].st = "absent" <=> H[k].st = "absent"
                /\ HandlersAfter(H, s)[k].st = "queued" => H[k].st = "queued"
           /\ OfEid(Registered(H), e) # {}
                => OfEid(Running(HandlersAfter(H, s)), e) # {}
<1> DEFINE A == HandlersAfter(H, s)
<1>0. [x \in EIDs |-> {}] \in [EIDs -> SUBSET Ids]
      /\ [x \in Key |-> {}] \in [Key -> SUBSET Answer]
  OBVIOUS
<1>1. A \in [Key -> Entry]
  BY <1>0, StartsType
<1>3. \A I : IdsAfter(I, s) = I
  BY DEF IdsAfter
<1>4. CASE s = Nothing
  <2>1. A = H
    BY <1>4 DEF Nothing, HandlersAfter
  <2>2. OfEid(Registered(H), e) # {} => OfEid(Running(H), e) # {}
    <3> SUFFICES ASSUME OfEid(Registered(H), e) # {}, OfEid(Running(H), e) = {}
                 PROVE  FALSE
      OBVIOUS
    <3>1. s.key \in OfEid(Registered(H), e)
      BY DEF Starts
    <3>2. s.key = None
      BY <1>4 DEF Nothing
    <3> QED BY <3>1, <3>2, NoneAssumption DEF OfEid, Registered
  <2> QED BY <1>1, <1>3, <2>1, <2>2
<1>5. CASE s.key \in OfEid(Registered(H), e)
  <2>1. s.key \in Key /\ s.key.eid = e /\ s.key # None /\ H[s.key].st # "absent"
    BY <1>5, NoneAssumption DEF OfEid, Registered
  <2>2. /\ Started(H[s.key], s.result).st = "running"
        /\ Started(H[s.key], s.result).live = H[s.key].live
    <3>1. H[s.key] \in Entry
      BY <2>1
    <3> QED BY <3>1 DEF Started, Entry, MoreRetries
  <2>3. A = [H EXCEPT ![s.key] = Started(H[s.key], s.result)]
    BY <2>1 DEF HandlersAfter
  <2>4. s.key \in OfEid(Running(A), e)
    BY <2>1, <2>2, <2>3 DEF OfEid, Running
  <2>5. \A k \in Key : /\ A[k].live = H[k].live
                       /\ A[k].st = "absent" <=> H[k].st = "absent"
                       /\ A[k].st = "queued" => H[k].st = "queued"
    BY <2>1, <2>2, <2>3
  <2> QED BY <1>1, <1>3, <2>4, <2>5
<1> QED BY <1>4, <1>5, StartsCases

LEMMA CleanStarts ==
    ASSUME Clean, NEW H \in [Key -> Entry], NEW e \in EIDs, NEW s \in Starts(H, e)
    PROVE  s.result = "ok"
BY StartsCases DEF Clean, Nothing

\* The steps of a Clean environment, as far as they differ from those of any other:
\* what is started does not fail, and what a socket holds are answers.
CleanNext ==
    \/ StartBatch \/ FinishBatch \/ ResumeAwaiter \/ DeadHandler \/ ReturnToExpiry
    \/ \E s \in Start :
         /\ s.result = "ok"
         /\ \/ \E e \in EIDs, i \in Ids : SendRecvAs(e, i, s)
            \/ \E k \in Key : RemoveRequestEntryAs(k, s)
            \/ ReturnToHandleResponseAs(s)
    \/ \E k \in Key :
         \/ RequestRetryCallback(k)
         \/ InstanceIdExpiry(k) /\ (ready' # None => wire'[ready'] # {})
         \/ \E a \in Answer : HandleResponse(k, a)
    \/ Restart

\* The instance IDs I are those of the requests registered in H.
IdsOf(I, H) == \A k \in Key : k.instanceId \in I[k.eid] <=> H[k].st # "absent"

LEMMA IdsInStepIsIdsOf == TypeOK => (IdsInStep <=> IdsOf(ids, handlers))
<1> SUFFICES ASSUME TypeOK PROVE IdsInStep <=> IdsOf(ids, handlers)
  OBVIOUS
<1>1. ASSUME IdsInStep PROVE IdsOf(ids, handlers)
  <2> SUFFICES ASSUME NEW k \in Key
               PROVE  k.instanceId \in ids[k.eid] <=> handlers[k].st # "absent"
    BY DEF IdsOf
  <2>1. ids[k.eid] = {j.instanceId : j \in OfEid(Registered(handlers), k.eid)}
    BY <1>1 DEF IdsInStep, Key
  <2>2. ASSUME k.instanceId \in ids[k.eid] PROVE handlers[k].st # "absent"
    <3>1. PICK j \in OfEid(Registered(handlers), k.eid) : j.instanceId = k.instanceId
      BY <2>1, <2>2
    <3> QED BY <3>1, KeyEquality DEF OfEid, Registered
  <2>3. ASSUME handlers[k].st # "absent" PROVE k.instanceId \in ids[k.eid]
    BY <2>1, <2>3 DEF OfEid, Registered
  <2> QED BY <2>2, <2>3
<1>2. ASSUME IdsOf(ids, handlers) PROVE IdsInStep
  <2> SUFFICES ASSUME NEW e \in EIDs
               PROVE  ids[e] = {k.instanceId : k \in OfEid(Registered(handlers), e)}
    BY DEF IdsInStep
  <2>1. ASSUME NEW i \in ids[e]
        PROVE  i \in {k.instanceId : k \in OfEid(Registered(handlers), e)}
    <3>1. i \in Ids
      BY DEF TypeOK
    <3> DEFINE k == [eid |-> e, instanceId |-> i]
    <3>2. k \in Key /\ k.eid = e /\ k.instanceId = i
      BY <3>1 DEF Key
    <3>3. k \in OfEid(Registered(handlers), e)
      BY <1>2, <2>1, <3>2 DEF IdsOf, OfEid, Registered
    <3> QED BY <3>2, <3>3
  <2>2. ASSUME NEW k \in OfEid(Registered(handlers), e) PROVE k.instanceId \in ids[e]
    BY <1>2 DEF IdsOf, OfEid, Registered
  <2> QED BY <2>1, <2>2
<1> QED BY <1>1, <1>2


\* The invariant, with IdsInStep in the form that the proofs use.
CleanForm == IdsOf(ids, handlers) /\ LiveIsAwaited /\ OthersExpired
             /\ QueuedBehindExpired

\* Steps that leave the instance IDs, the expired requests, what is registered,
\* queued and live, and the client alone keep the invariant.
LEMMA CleanFrame ==
    ASSUME TypeOK, TypeOK', CleanForm, UNCHANGED <<ids, client, awaited, call, ready>>,
           (after' = None) = (after = None), Expired' = Expired,
           \A k \in Key :
             /\ handlers'[k].live = handlers[k].live
             /\ handlers'[k].st = "absent" <=> handlers[k].st = "absent"
             /\ handlers'[k].st = "queued" => handlers[k].st = "queued"
    PROVE  CleanForm'
<1>1. IdsOf(ids, handlers)'
  BY DEF CleanForm, IdsOf
<1>2. LiveIsAwaited'
  BY DEF CleanForm, LiveIsAwaited
<1>3. Expired \subseteq Key
  BY DEF Expired, TypeOK
<1>4. OthersExpired'
  BY <1>3 DEF CleanForm, OthersExpired, Registered
<1>5. QueuedBehindExpired'
  BY DEF CleanForm, QueuedBehindExpired
<1> QED BY <1>1, <1>2, <1>4, <1>5 DEF CleanForm

\* SendRecv: the key is new, the request starts or waits behind an expired one.
LEMMA CleanSendRecv ==
    ASSUME TypeOK, TypeOK', CleanForm, NEW e \in EIDs, NEW i \in Ids, NEW s \in Start,
           s.result = "ok", SendRecvAs(e, i, s)
    PROVE  CleanForm'
<1> DEFINE k == [eid |-> e, instanceId |-> i]
           H == [handlers EXCEPT ![k] = NewEntry]
           I == [ids EXCEPT ![e] = @ \cup {i}]
<1>2. k \in Key /\ k.eid = e /\ k.instanceId = i /\ k # None
  BY NoneAssumption DEF Key
<1>3. i \notin ids[e]
  BY DEF SendRecvAs, IsNextId
<1>4. handlers[k].st = "absent"
  BY <1>2, <1>3 DEF CleanForm, IdsOf
<1>5. client = "running" /\ call = None /\ UNCHANGED <<deferred, ready, call, after>>
  BY DEF SendRecvAs, Emplaced
<1>6. H \in [Key -> Entry]
  BY <1>2, EntryTypes DEF TypeOK
<1>7. /\ s \in Starts(H, e)
      /\ ids' = IdsAfter(I, s)
      /\ handlers' = HandlersAfter(H, s)
      /\ client' = "waiting" /\ awaited' = k
  BY <1>4 DEF SendRecvAs, Emplaced
<1>8. /\ ids' = I
      /\ handlers' = HandlersAfter(H, s)
      /\ client' = "waiting" /\ awaited' = k
      /\ \A j \in Key : /\ handlers'[j].live = H[j].live
                        /\ handlers'[j].st = "absent" <=> H[j].st = "absent"
                        /\ handlers'[j].st = "queued" => H[j].st = "queued"
      /\ OfEid(Registered(H), e) # {} => OfEid(Running(handlers'), e) # {}
  <2> HIDE DEF H, I, k
  <2>1. /\ IdsAfter(I, s) = I
        /\ \A j \in Key : /\ HandlersAfter(H, s)[j].live = H[j].live
                          /\ HandlersAfter(H, s)[j].st = "absent" <=> H[j].st = "absent"
                          /\ HandlersAfter(H, s)[j].st = "queued" => H[j].st = "queued"
        /\ OfEid(Registered(H), e) # {}
             => OfEid(Running(HandlersAfter(H, s)), e) # {}
    BY <1>6, <1>7, StartsClean
  <2> QED BY <1>7, <2>1
<1>9. /\ H[k].live /\ H[k].st = "queued"
      /\ \A j \in Key : j # k => H[j] = handlers[j]
  BY <1>2, EntryTypes DEF TypeOK
<1> HIDE DEF H, I
<1>10. awaited = None /\ \A j \in Key : ~handlers[j].live
  BY <1>5, NoneAssumption DEF CleanForm, LiveIsAwaited
<1>11. Expired' = Expired /\ k \notin Expired
  BY <1>4, <1>5 DEF Expired, CleanForm, OthersExpired
<1>12. Expired \subseteq Key
  BY DEF Expired, TypeOK
<1>13. IdsOf(ids, handlers)'
  <2> SUFFICES ASSUME NEW j \in Key
               PROVE  j.instanceId \in ids'[j.eid] <=> handlers'[j].st # "absent"
    BY DEF IdsOf
  <2>1. CASE j = k
    BY <2>1, <1>2, <1>8, <1>9 DEF I, TypeOK
  <2>2. CASE j # k
    <3>1. j.instanceId \in ids'[j.eid] <=> j.instanceId \in ids[j.eid]
      BY <2>2, <1>2, <1>8, KeyEquality DEF I, TypeOK, Key
    <3>2. handlers'[j].st = "absent" <=> handlers[j].st = "absent"
      BY <2>2, <1>8, <1>9
    <3> QED BY <3>1, <3>2 DEF CleanForm, IdsOf
  <2> QED BY <2>1, <2>2
<1>14. LiveIsAwaited'
  BY <1>2, <1>5, <1>8, <1>9, <1>10 DEF LiveIsAwaited
<1>15. OthersExpired'
  <2>1. \A j \in Expired : /\ j # k /\ handlers'[j].st # "absent" /\ ~handlers'[j].live
                           /\ j # ready
                           /\ \A x \in Expired : x = j
    BY <1>8, <1>9, <1>11, <1>12 DEF CleanForm, OthersExpired
  <2>2. \A j \in Registered(handlers') : handlers'[j].live \/ j \in Expired
    BY <1>8, <1>9 DEF CleanForm, OthersExpired, Registered
  <2> QED BY <2>1, <2>2, <1>5, <1>11 DEF OthersExpired
<1>16. QueuedBehindExpired'
  <2> SUFFICES ASSUME NEW j \in Key, handlers'[j].live, handlers'[j].st = "queued"
               PROVE  \E x \in Expired : x.eid = j.eid
    BY <1>11 DEF QueuedBehindExpired
  <2>1. j = k
    BY <1>8, <1>9, <1>10
  <2>2. k \in OfEid(Registered(H), e)
    BY <1>2, <1>9 DEF OfEid, Registered
  <2>3. PICK r \in Key : r.eid = e /\ handlers'[r].st = "running"
    BY <2>2, <1>8 DEF OfEid, Running
  <2>4. r # k /\ handlers[r].st # "absent" /\ ~handlers[r].live
    BY <2>1, <2>3, <1>8, <1>9, <1>10
  <2>5. r \in Expired
    BY <2>4 DEF CleanForm, OthersExpired, Registered
  <2> QED BY <2>1, <2>3, <2>5, <1>2
<1> QED BY <1>13, <1>14, <1>15, <1>16 DEF CleanForm


\* RemoveRequestEntry: the expired entry goes, and what waited behind it starts.
LEMMA CleanRemoveRequestEntry ==
    ASSUME TypeOK, TypeOK', CleanForm, NEW k \in Key, NEW s \in Start, s.result = "ok",
           RemoveRequestEntryAs(k, s)
    PROVE  CleanForm'
<1> DEFINE H == [handlers EXCEPT ![k] = Absent]
           I == [ids EXCEPT ![k.eid] = MarkFree(@, k.instanceId)]
<1>1. /\ k \in deferred /\ deferred' = deferred \ {k} /\ ready' = None
      /\ after = None /\ call = None
      /\ UNCHANGED <<client, awaited, call, after>>
  BY DEF RemoveRequestEntryAs, Idle, Erased
<1>2. s \in Starts(H, k.eid) /\ handlers' = HandlersAfter(H, s) /\ ids' = IdsAfter(I, s)
  BY DEF RemoveRequestEntryAs, Erased
<1>3. k.eid \in EIDs /\ H \in [Key -> Entry]
  BY EntryTypes DEF TypeOK, Key
<1>4. H[k] = Absent /\ \A j \in Key : j # k => H[j] = handlers[j]
  BY DEF TypeOK
<1> HIDE DEF H
<1>5. /\ ids' = I
      /\ \A j \in Key : /\ handlers'[j].live = H[j].live
                        /\ handlers'[j].st = "absent" <=> H[j].st = "absent"
                        /\ handlers'[j].st = "queued" => H[j].st = "queued"
      /\ OfEid(Registered(H), k.eid) # {} => OfEid(Running(handlers'), k.eid) # {}
  <2> HIDE DEF I
  <2> QED BY <1>2, <1>3, StartsClean
<1>6. k \in Expired /\ Expired' = {} /\ \A j \in Expired : j = k
  <2>1. \A j \in Expired : j = k
    BY <1>1 DEF Expired, CleanForm, OthersExpired
  <2>2. \A j \in Key : after # [fn |-> "expiry", key |-> j]
    BY <1>1, NoneAssumption DEF After
  <2> QED BY <1>1, <2>1, <2>2 DEF Expired
<1>7. ~handlers[k].live
  BY <1>6 DEF CleanForm, OthersExpired
<1>8. \A j \in Key : j # k /\ handlers[j].st # "absent" => handlers[j].live
  BY <1>6 DEF CleanForm, OthersExpired, Registered
<1>9. Absent.st = "absent" /\ ~Absent.live
  BY DEF Absent
<1>10. IdsOf(ids, handlers)'
  <2> SUFFICES ASSUME NEW j \in Key
               PROVE  j.instanceId \in ids'[j.eid] <=> handlers'[j].st # "absent"
    BY DEF IdsOf
  <2>1. CASE j = k
    BY <2>1, <1>3, <1>4, <1>5, <1>9 DEF TypeOK, MarkFree
  <2>2. CASE j # k
    <3>1. j.instanceId \in ids'[j.eid] <=> j.instanceId \in ids[j.eid]
      BY <2>2, <1>3, <1>5, KeyEquality DEF TypeOK, Key, MarkFree
    <3> QED BY <2>2, <3>1, <1>4, <1>5 DEF CleanForm, IdsOf
  <2> QED BY <2>1, <2>2
<1>11. LiveIsAwaited'
  <2>1. \A j \in Key : handlers'[j].live <=> handlers[j].live
    BY <1>4, <1>5, <1>7, <1>9
  <2>2. \A j \in Key : handlers'[j].live => handlers'[j].st # "absent"
    BY <1>4, <1>5, <1>7, <1>9 DEF CleanForm, LiveIsAwaited
  <2> QED BY <1>1, <2>1, <2>2 DEF CleanForm, LiveIsAwaited
<1>12. OthersExpired'
  <2>1. \A j \in Registered(handlers') : handlers'[j].live
    BY <1>4, <1>5, <1>8, <1>9 DEF Registered
  <2> QED BY <1>6, <2>1 DEF OthersExpired
<1>13. QueuedBehindExpired'
  <2> SUFFICES ASSUME NEW j \in Key, handlers'[j].live, handlers'[j].st = "queued"
               PROVE  FALSE
    BY DEF QueuedBehindExpired
  <2>1. j # k /\ handlers[j].live /\ handlers[j].st = "queued" /\ H[j] = handlers[j]
    BY <1>4, <1>5, <1>9
  <2>2. j.eid = k.eid
    BY <2>1, <1>6 DEF CleanForm, QueuedBehindExpired
  <2>3. OfEid(Registered(H), k.eid) # {}
    BY <2>1, <2>2 DEF OfEid, Registered
  <2>4. PICK r \in Key : handlers'[r].st = "running"
    BY <2>3, <1>5 DEF OfEid, Running
  <2>5. r # k /\ handlers[r].st # "absent"
    BY <2>4, <1>4, <1>5, <1>9
  <2>6. r = j
    BY <2>1, <2>5, <1>8 DEF CleanForm, LiveIsAwaited
  <2> QED BY <2>4, <2>6
<1> QED BY <1>10, <1>11, <1>12, <1>13 DEF CleanForm

\* HandleResponse: an answer to a registered request is one to the awaited request,
\* any other answer frees an instance ID that is already free.
LEMMA CleanHandleResponse ==
    ASSUME TypeOK, TypeOK', CleanForm, NEW k \in Key, NEW a \in Answer,
           HandleResponse(k, a)
    PROVE  CleanForm'
<1>1. /\ after = None /\ call = None /\ client # "running"
      /\ after' = [fn |-> "handleResponse", key |-> k] /\ ready' = None
      /\ ids' = [ids EXCEPT ![k.eid] = MarkFree(@, k.instanceId)]
      /\ UNCHANGED <<deferred, client, awaited>>
      /\ deferred = {} \/ ready = k
  BY DEF HandleResponse, Idle, Erased
<1>2. Expired = deferred /\ Expired' = deferred
  <2>1. \A j \in Key : after # [fn |-> "expiry", key |-> j]
    BY <1>1, NoneAssumption DEF After
  <2>2. \A j \in Key : after' # [fn |-> "expiry", key |-> j]
    BY <1>1
  <2> QED BY <1>1, <2>1, <2>2 DEF Expired
<1>3. after' # None
  BY <1>1, NoneAssumption DEF After
<1>4. k.eid \in EIDs
  BY DEF Key
<1>5. \A j \in Key : j # k =>
        (j.instanceId \in ids'[j.eid] <=> j.instanceId \in ids[j.eid])
  BY <1>1, <1>4, KeyEquality DEF TypeOK, Key, MarkFree
<1>6. k.instanceId \notin ids'[k.eid]
  BY <1>1, <1>4 DEF TypeOK, MarkFree
<1>7. CASE handlers[k].st # "absent"
  <2>1. /\ handlers' = [handlers EXCEPT ![k] = Absent]
        /\ call' = [key |-> k, live |-> handlers[k].live, answer |-> a]
    BY <1>7 DEF HandleResponse, Erased
  <2>2. k \notin Expired
    BY <1>1, <1>2 DEF CleanForm, OthersExpired
  <2>3. handlers[k].live /\ awaited = k
    BY <1>7, <2>2 DEF CleanForm, OthersExpired, Registered, LiveIsAwaited
  <2>4. /\ handlers'[k] = Absent
        /\ \A j \in Key : j # k => handlers'[j] = handlers[j]
    BY <2>1 DEF TypeOK
  <2>5. Absent.st = "absent" /\ ~Absent.live
    BY DEF Absent
  <2>6. call' # None /\ call'.live /\ call'.key = k
    <3>1. call' \in Call
      BY <2>1, <2>3 DEF Call
    <3> QED BY <2>1, <2>3, <3>1, NoneAssumption
  <2>7. \A j \in Key : ~handlers'[j].live
    BY <2>3, <2>4, <2>5 DEF CleanForm, LiveIsAwaited
  <2>8. IdsOf(ids, handlers)'
    BY <1>5, <1>6, <2>4, <2>5 DEF CleanForm, IdsOf
  <2>9. LiveIsAwaited'
    BY <1>1, <1>3, <2>3, <2>6, <2>7 DEF CleanForm, LiveIsAwaited
  <2>10. OthersExpired'
    <3>1. \A j \in Expired : /\ handlers'[j] = handlers[j] /\ j # None
      BY <1>2, <2>2, <2>4, NoneAssumption DEF TypeOK
    <3>2. \A j \in Registered(handlers') : j \in Expired
      BY <2>3, <2>4, <2>5 DEF CleanForm, OthersExpired, LiveIsAwaited, Registered
    <3> QED BY <1>1, <1>2, <3>1, <3>2 DEF CleanForm, OthersExpired
  <2>11. QueuedBehindExpired'
    BY <2>7 DEF QueuedBehindExpired
  <2> QED BY <2>8, <2>9, <2>10, <2>11 DEF CleanForm
<1>8. CASE handlers[k].st = "absent"
  <2>1. UNCHANGED <<handlers, call>>
    BY <1>8 DEF HandleResponse, Erased
  <2>2. IdsOf(ids, handlers)'
    BY <1>5, <1>6, <1>8, <2>1 DEF CleanForm, IdsOf
  <2>3. LiveIsAwaited'
    BY <1>1, <1>3, <2>1 DEF CleanForm, LiveIsAwaited
  <2>4. \A j \in Expired : j # None
    BY <1>2, NoneAssumption DEF TypeOK
  <2>5. OthersExpired'
    BY <1>1, <1>2, <2>1, <2>4 DEF CleanForm, OthersExpired
  <2>6. QueuedBehindExpired'
    BY <1>2, <2>1 DEF CleanForm, QueuedBehindExpired
  <2> QED BY <2>2, <2>3, <2>5, <2>6 DEF CleanForm
<1> QED BY <1>7, <1>8


\* InstanceIdExpiry: the request that expires is the awaited one, and no answer to
\* it is left to be read.
LEMMA CleanInstanceIdExpiry ==
    ASSUME ~LateAnswers, TypeOK, TypeOK', CleanForm, NEW k \in Key, InstanceIdExpiry(k),
           ready' # None => wire'[ready'] # {}
    PROVE  CleanForm'
<1> DEFINE old == handlers[k]
           new == [old EXCEPT !.st = "queued", !.live = FALSE, !.retry = FALSE]
<1>1. /\ after = None /\ call = None /\ client # "running" /\ deferred = {}
      /\ old.st = "running"
      /\ handlers' = [handlers EXCEPT ![k] = new]
      /\ call' = [key |-> k, live |-> old.live, answer |-> "none"]
      /\ after' = [fn |-> "expiry", key |-> k]
      /\ wire' = [wire EXCEPT ![k] = {}]
      /\ ready' \in Key \cup {None}
      /\ UNCHANGED <<ids, deferred, client, awaited>>
  BY DEF InstanceIdExpiry, Idle
<1>2. Expired = {} /\ Expired' = {k}
  <2>1. \A j \in Key : after # [fn |-> "expiry", key |-> j]
    BY <1>1, NoneAssumption DEF After
  <2>2. \A j \in Key : after' = [fn |-> "expiry", key |-> j] <=> j = k
    BY <1>1
  <2> QED BY <1>1, <2>1, <2>2 DEF Expired
<1>3. old.live /\ awaited = k
  BY <1>1, <1>2 DEF CleanForm, OthersExpired, LiveIsAwaited, Registered
<1>4. new.st = "queued" /\ ~new.live
  BY DEF TypeOK, Entry
<1> HIDE DEF new
<1>5. handlers'[k] = new /\ \A j \in Key : j # k => handlers'[j] = handlers[j]
  BY <1>1 DEF TypeOK
<1>6. \A j \in Key : ~handlers'[j].live
  BY <1>3, <1>4, <1>5 DEF CleanForm, LiveIsAwaited
<1>7. call' # None /\ call'.live /\ call'.key = k /\ after' # None
  <2>1. call' \in Call
    BY <1>1, <1>3 DEF Call
  <2>2. after' \in After
    BY <1>1 DEF After
  <2> QED BY <1>1, <1>3, <2>1, <2>2, NoneAssumption
<1>8. IdsOf(ids, handlers)'
  BY <1>1, <1>4, <1>5 DEF CleanForm, IdsOf
<1>9. LiveIsAwaited'
  BY <1>1, <1>3, <1>6, <1>7 DEF CleanForm, LiveIsAwaited
<1>10. OthersExpired'
  <2>1. ready' # k
    BY <1>1, NoneAssumption DEF TypeOK
  <2>2. \A j \in Registered(handlers') : j = k
    BY <1>2, <1>3, <1>5 DEF CleanForm, OthersExpired, LiveIsAwaited, Registered
  <2> QED BY <1>2, <1>4, <1>5, <2>1, <2>2 DEF OthersExpired
<1>11. QueuedBehindExpired'
  BY <1>6 DEF QueuedBehindExpired
<1> QED BY <1>8, <1>9, <1>10, <1>11 DEF CleanForm

\* The rest of handleResponse may start what the endpoint has queued.
LEMMA CleanReturnToHandleResponse ==
    ASSUME TypeOK, TypeOK', CleanForm, NEW s \in Start, s.result = "ok",
           ReturnToHandleResponseAs(s)
    PROVE  CleanForm'
<1>1. /\ after # None /\ after.fn = "handleResponse" /\ call = None
      /\ after' = None
      /\ UNCHANGED <<deferred, ready, client, awaited, call>>
  BY DEF ReturnToHandleResponseAs
<1>2. /\ s \in Starts(handlers, after.key.eid)
      /\ handlers' = HandlersAfter(handlers, s) /\ ids' = IdsAfter(ids, s)
  BY DEF ReturnToHandleResponseAs
<1>3. after.key.eid \in EIDs /\ handlers \in [Key -> Entry]
  BY <1>1 DEF TypeOK, After, Key
<1>4. /\ ids' = ids
      /\ \A j \in Key : /\ handlers'[j].live = handlers[j].live
                        /\ handlers'[j].st = "absent" <=> handlers[j].st = "absent"
                        /\ handlers'[j].st = "queued" => handlers[j].st = "queued"
  BY <1>2, <1>3, StartsClean
<1>5. Expired' = Expired
  <2>1. \A j \in Key : after # [fn |-> "expiry", key |-> j]
                       /\ after' # [fn |-> "expiry", key |-> j]
    BY <1>1, NoneAssumption DEF After
  <2> QED BY <1>1, <2>1 DEF Expired
<1>6. LiveIsAwaited'
  BY <1>1, <1>4 DEF CleanForm, LiveIsAwaited
<1>7. Expired \subseteq Key
  BY DEF Expired, TypeOK
<1>8. OthersExpired'
  BY <1>1, <1>4, <1>5, <1>7 DEF CleanForm, OthersExpired, Registered
<1> QED BY <1>4, <1>5, <1>6, <1>8 DEF CleanForm, IdsOf, QueuedBehindExpired

LEMMA CleanStep ==
    ~LateAnswers /\ TypeOK /\ TypeOK' /\ CleanForm /\ [CleanNext]_vars => CleanForm'
<1> SUFFICES ASSUME ~LateAnswers, TypeOK, TypeOK', CleanForm, [CleanNext]_vars
             PROVE  CleanForm'
  OBVIOUS
<1>1. CASE StartBatch
  <2>1. Expired' = Expired
    BY <1>1 DEF StartBatch, Expired
  <2> QED BY <1>1, <2>1 DEF StartBatch, Idle, CleanForm, IdsOf, LiveIsAwaited,
             OthersExpired, QueuedBehindExpired, TypeOK
<1>2. CASE FinishBatch
  <2>1. Expired' = Expired
    BY <1>2 DEF FinishBatch, Expired
  <2> QED BY <1>2, <2>1 DEF FinishBatch, CleanForm, IdsOf, LiveIsAwaited,
             OthersExpired, QueuedBehindExpired, TypeOK
<1>3. ASSUME NEW e \in EIDs, NEW i \in Ids, NEW s \in Start, s.result = "ok",
             SendRecvAs(e, i, s)
      PROVE  CleanForm'
  BY <1>3, CleanSendRecv
<1>4. CASE ResumeAwaiter
  <2>1. Expired' = Expired
    BY <1>4 DEF ResumeAwaiter, Expired
  <2>2. LiveIsAwaited'
    BY <1>4, NoneAssumption DEF ResumeAwaiter, CleanForm, LiveIsAwaited
  <2> QED BY <1>4, <2>1, <2>2 DEF ResumeAwaiter, CleanForm, IdsOf,
             OthersExpired, QueuedBehindExpired
<1>5. CASE DeadHandler
  BY <1>5 DEF DeadHandler, CleanForm, LiveIsAwaited
<1>6. CASE ReturnToExpiry
  <2>1. Expired' = Expired
    <3>1. after \in After /\ after.fn = "expiry" /\ after.key \in Key
      BY <1>6 DEF ReturnToExpiry, TypeOK, After
    <3>2. \A j \in Key : after = [fn |-> "expiry", key |-> j] <=> j = after.key
      BY <3>1 DEF After
    <3>3. \A j \in Key : after' # [fn |-> "expiry", key |-> j]
      BY <1>6, NoneAssumption DEF ReturnToExpiry, After
    <3> QED BY <1>6, <3>1, <3>2, <3>3 DEF ReturnToExpiry, Expired
  <2>2. LiveIsAwaited'
    BY <1>6 DEF ReturnToExpiry, CleanForm, LiveIsAwaited
  <2> QED BY <1>6, <2>1, <2>2 DEF ReturnToExpiry, CleanForm, IdsOf,
             OthersExpired, QueuedBehindExpired
<1>7. ASSUME NEW s \in Start, s.result = "ok", ReturnToHandleResponseAs(s) PROVE CleanForm'
  BY <1>7, CleanReturnToHandleResponse
<1>8. ASSUME NEW k \in Key, RequestRetryCallback(k) PROVE CleanForm'
  <2>1. \A j \in Key : /\ handlers'[j].live = handlers[j].live
                       /\ handlers'[j].st = handlers[j].st
    BY <1>8 DEF RequestRetryCallback, TypeOK, Entry, MoreRetries
  <2>2. Expired' = Expired
    BY <1>8 DEF RequestRetryCallback, Expired, MoreRetries
  <2> QED BY <1>8, <2>1, <2>2, CleanFrame DEF RequestRetryCallback, MoreRetries
<1>9. ASSUME NEW k \in Key, InstanceIdExpiry(k), ready' # None => wire'[ready'] # {}
      PROVE  CleanForm'
  BY <1>9, CleanInstanceIdExpiry
<1>10. ASSUME NEW k \in Key, NEW s \in Start, s.result = "ok", RemoveRequestEntryAs(k, s)
       PROVE  CleanForm'
  BY <1>10, CleanRemoveRequestEntry
<1>11. ASSUME NEW k \in Key, NEW a \in Answer, HandleResponse(k, a) PROVE CleanForm'
  BY <1>11, CleanHandleResponse
<1>13. CASE Restart
  <2>1. Expired' = {}
    BY <1>13, NoneAssumption DEF Restart, Expired, After
  <2> QED BY <1>13, <2>1, NoneAssumption DEF Restart, CleanForm, IdsOf, LiveIsAwaited,
             OthersExpired, QueuedBehindExpired, Registered, Absent, TypeOK, Key
<1>14. CASE UNCHANGED vars
  <2>1. Expired' = Expired
    BY <1>14 DEF vars, Expired
  <2> QED BY <1>14, <2>1 DEF vars, CleanForm, IdsOf, LiveIsAwaited, OthersExpired,
             QueuedBehindExpired
<1> QED BY <1>1, <1>2, <1>3, <1>4, <1>5, <1>6, <1>7, <1>8, <1>9, <1>10, <1>11,
           <1>13, <1>14 DEF CleanNext

\* In a Clean environment there are no other steps.
LEMMA CleanSteps == Clean /\ TypeOK /\ [Next]_vars => [CleanNext]_vars
<1> SUFFICES ASSUME Clean, TypeOK, Next PROVE CleanNext
  OBVIOUS
<1>1. ASSUME NEW e \in EIDs, SendRecv(e) PROVE CleanNext
  <2>1. PICK i \in Ids, s \in Start : SendRecvAs(e, i, s)
    BY <1>1 DEF SendRecv
  <2> DEFINE H == Emplaced(handlers, [eid |-> e, instanceId |-> i])
  <2>2. s \in Starts(H, e)
    BY <2>1 DEF SendRecvAs
  <2>3. H \in [Key -> Entry]
    BY EntryTypes DEF Emplaced, TypeOK
  <2>4. s.result = "ok"
    BY <2>2, <2>3, CleanStarts
  <2> QED BY <2>1, <2>4 DEF CleanNext
<1>2. ASSUME NEW k \in Key, RemoveRequestEntry(k) PROVE CleanNext
  <2>1. PICK s \in Start : RemoveRequestEntryAs(k, s)
    BY <1>2 DEF RemoveRequestEntry
  <2>2. s \in Starts(Erased(handlers, k), k.eid) /\ k.eid \in EIDs
    BY <2>1 DEF RemoveRequestEntryAs, Key
  <2>3. Erased(handlers, k) \in [Key -> Entry]
    BY EntryTypes DEF Erased, TypeOK
  <2>4. s.result = "ok"
    BY <2>2, <2>3, CleanStarts
  <2> QED BY <2>1, <2>4 DEF CleanNext
<1>3. CASE ReturnToHandleResponse
  <2>1. PICK s \in Start : ReturnToHandleResponseAs(s)
    BY <1>3 DEF ReturnToHandleResponse
  <2>2. after \in After /\ s \in Starts(handlers, after.key.eid)
    BY <2>1 DEF ReturnToHandleResponseAs, TypeOK
  <2>3. handlers \in [Key -> Entry] /\ after.key.eid \in EIDs
    BY <2>2 DEF TypeOK, After, Key
  <2>4. s.result = "ok"
    BY <2>2, <2>3, CleanStarts
  <2> QED BY <2>1, <2>4 DEF CleanNext
<1>4. ASSUME NEW k \in Key, InstanceIdExpiry(k) PROVE CleanNext
  <2>1. ready' # None => wire'[ready'] # {}
    BY <1>4 DEF InstanceIdExpiry, Clean
  <2> QED BY <1>4, <2>1 DEF CleanNext
<1>5. ASSUME NEW k \in Key, HandleForeignResponse(k) PROVE FALSE
  BY <1>5 DEF HandleForeignResponse, Clean
<1> QED BY <1>1, <1>2, <1>3, <1>4, <1>5
        DEF CleanNext, Next, Client, Handler, Timer, Socket

LEMMA CleanInit == Init => CleanForm
<1> SUFFICES ASSUME Init PROVE CleanForm
  OBVIOUS
<1>1. Expired = {}
  BY NoneAssumption DEF Init, Expired, After
<1> QED BY <1>1, NoneAssumption DEF Init, CleanForm, IdsOf, LiveIsAwaited,
           OthersExpired, QueuedBehindExpired, Registered, Absent, Key

LEMMA CleanFormIsInv == TypeOK /\ CleanForm => CleanInv
BY IdsInStepIsIdsOf DEF CleanForm, CleanInv

\* The invariant behind the promises, in every Clean environment.
THEOREM CleanInvariant == Clean => (Spec => []CleanInv)
<1> SUFFICES ASSUME Clean PROVE Spec => []CleanInv
  OBVIOUS
<1>1. TypeOK /\ TypeOK' /\ CleanForm /\ [Next]_vars => CleanForm'
  BY CleanStep, CleanSteps DEF Clean
<1> QED BY <1>1, CleanInit, CleanFormIsInv, TypeCorrect, PTL DEF Spec

LEMMA CleanHandlerCalled == TypeOK /\ CleanInv => HandlerCalledOnce
BY NoneAssumption DEF TypeOK, CleanInv, LiveIsAwaited, HandlerCalledOnce, Call

LEMMA CleanWakeup == TypeOK /\ CleanInv => WakeupPending
<1> SUFFICES ASSUME TypeOK, CleanInv, client = "waiting", call = None
             PROVE  /\ handlers[awaited].live
                    /\ \/ \E k \in Running(handlers) \cup deferred :
                             k.eid = awaited.eid
                       \/ after # None /\ after.key.eid = awaited.eid
  BY DEF WakeupPending, CleanInv, LiveIsAwaited
<1>1. awaited \in Key /\ handlers[awaited].live /\ handlers[awaited].st # "absent"
  BY DEF CleanInv, LiveIsAwaited, TypeOK
<1>2. CASE handlers[awaited].st = "running"
  BY <1>1, <1>2 DEF Running
<1>3. CASE handlers[awaited].st = "queued"
  <2>1. PICK j \in Expired : j.eid = awaited.eid
    BY <1>1, <1>3 DEF CleanInv, QueuedBehindExpired
  <2>2. j \in deferred \/ (j \in Key /\ after = [fn |-> "expiry", key |-> j])
    BY <2>1 DEF Expired
  <2>3. CASE j \in deferred
    BY <1>1, <2>1, <2>3
  <2>4. CASE j \in Key /\ after = [fn |-> "expiry", key |-> j]
    <3>1. after # None
      BY <2>4, NoneAssumption DEF After
    <3> QED BY <1>1, <2>1, <2>4, <3>1
  <2> QED BY <2>2, <2>3, <2>4
<1> QED BY <1>1, <1>2, <1>3 DEF TypeOK, Entry

\* A response handler is only called for the request the client waits for: never
\* twice, never after its coroutine went on.
THEOREM HandlerCalledOnceAlways == Clean => (Spec => []HandlerCalledOnce)
BY CleanHandlerCalled, CleanInvariant, TypeCorrect, PTL

\* A client that waits is registered, with something under way that will wake it.
THEOREM WakeupAlwaysPending == Clean => (Spec => []WakeupPending)
BY CleanWakeup, CleanInvariant, TypeCorrect, PTL

\* An endpoint never holds more than two instance IDs.
THEOREM TwoIdsAlwaysSuffice == Clean => (Spec => []TwoIdsSuffice)
<1> SUFFICES ASSUME Clean PROVE Spec => []TwoIdsSuffice
  OBVIOUS
<1>1. TypeOK /\ CleanInv => TwoIdsSuffice
  <2> SUFFICES ASSUME TypeOK, CleanInv, NEW e \in EIDs,
                      NEW i \in ids[e], NEW j \in ids[e], NEW k \in ids[e]
               PROVE  i = j \/ j = k \/ i = k
    BY DEF TwoIdsSuffice
  <2>1. ids[e] = {x.instanceId : x \in OfEid(Registered(handlers), e)}
    BY DEF CleanInv, IdsInStep
  <2>2. PICK x, y, z \in Registered(handlers) :
           x.instanceId = i /\ y.instanceId = j /\ z.instanceId = k
    BY <2>1 DEF OfEid
  <2>3. \A u \in Registered(handlers) : u = awaited \/ u \in Expired
    BY DEF CleanInv, LiveIsAwaited, OthersExpired, Registered
  <2>4. \A u, v \in Expired : u = v
    BY DEF CleanInv, OthersExpired
  <2> QED BY <2>2, <2>3, <2>4
<1> QED BY <1>1, CleanInvariant, TypeCorrect, PTL

--------------------------------------------------------------------------------
(* Two promises that need less than a Clean environment.                   *)

\* What is started without failure changes neither the IDs nor what is registered.
LEMMA StartsKeepIds ==
    ASSUME StartFaults = {}, NEW H \in [Key -> Entry], NEW e \in EIDs,
           NEW s \in Starts(H, e), NEW I, IdsOf(I, H)
    PROVE  IdsOf(IdsAfter(I, s), HandlersAfter(H, s))
<1>1. s.result = "ok"
  BY StartsCases DEF Nothing
<1> QED BY <1>1, StartsClean DEF IdsOf

LEMMA IdsStep ==
    StartFaults = {} /\ ~ForeignIds /\ TypeOK /\ IdsOf(ids, handlers) /\ [Next]_vars
      => IdsOf(ids, handlers)'
<1> SUFFICES ASSUME StartFaults = {}, ~ForeignIds, TypeOK, IdsOf(ids, handlers), [Next]_vars
             PROVE  IdsOf(ids', handlers')
  OBVIOUS
<1>0. handlers \in [Key -> Entry] /\ ids \in [EIDs -> SUBSET Ids]
  BY DEF TypeOK
<1>1. ASSUME ids' = ids, \A k \in Key : handlers'[k].st = "absent" <=> handlers[k].st = "absent"
      PROVE  IdsOf(ids', handlers')
  BY <1>1 DEF IdsOf
<1>2. ASSUME NEW k \in Key, NEW H, H = Erased(handlers, k),
             NEW I, I = [ids EXCEPT ![k.eid] = MarkFree(@, k.instanceId)]
      PROVE  IdsOf(I, H) /\ H \in [Key -> Entry]
  <2>1. H \in [Key -> Entry] /\ H[k].st = "absent" /\ \A j \in Key : j # k => H[j] = handlers[j]
    BY <1>0, <1>2, EntryTypes DEF Erased
  <2>2. k.eid \in EIDs
    BY DEF Key
  <2>3. \A j \in Key : j.instanceId \in I[j.eid] <=> j # k /\ j.instanceId \in ids[j.eid]
    BY <1>0, <1>2, <2>2, KeyEquality DEF MarkFree, Key
  <2> QED BY <2>1, <2>3 DEF IdsOf
<1>3. ASSUME NEW e \in EIDs, SendRecv(e) PROVE IdsOf(ids', handlers')
  <2>1. PICK i \in Ids, s \in Start : SendRecvAs(e, i, s)
    BY <1>3 DEF SendRecv
  <2> DEFINE k == [eid |-> e, instanceId |-> i]
             H == [handlers EXCEPT ![k] = NewEntry]
             I == [ids EXCEPT ![e] = @ \cup {i}]
  <2>2. k \in Key /\ k.eid = e /\ k.instanceId = i
    BY DEF Key
  <2>3. handlers[k].st = "absent"
    BY <2>1, <2>2 DEF SendRecvAs, IsNextId, IdsOf
  <2>4. H \in [Key -> Entry] /\ H[k].st # "absent" /\ \A j \in Key : j # k => H[j] = handlers[j]
    BY <1>0, <2>2, EntryTypes
  <2>5. \A j \in Key : j.instanceId \in I[j.eid] <=> j = k \/ j.instanceId \in ids[j.eid]
    BY <1>0, <2>2, KeyEquality DEF Key
  <2>6. IdsOf(I, H)
    BY <2>4, <2>5 DEF IdsOf
  <2>7. s \in Starts(H, e) /\ ids' = IdsAfter(I, s)
        /\ (s.result = "ok" => handlers' = HandlersAfter(H, s))
    BY <2>1, <2>3 DEF SendRecvAs, Emplaced
  <2> HIDE DEF H, I
  <2>8. s.result = "ok"
    BY <2>4, <2>7, StartsCases DEF Nothing
  <2> QED BY <2>4, <2>6, <2>7, <2>8, StartsKeepIds
<1>4. CASE DeadHandler
  <2>1. \A k \in Key : [handlers[k] EXCEPT !.live = FALSE].st = handlers[k].st
    BY <1>0 DEF Entry
  <2> QED BY <1>1, <1>4, <2>1 DEF DeadHandler
<1>5. CASE ReturnToHandleResponse
  <2>1. PICK s \in Start : ReturnToHandleResponseAs(s)
    BY <1>5 DEF ReturnToHandleResponse
  <2>2. after.key.eid \in EIDs
    BY <2>1 DEF ReturnToHandleResponseAs, TypeOK, After, Key
  <2> QED BY <1>0, <2>1, <2>2, StartsKeepIds DEF ReturnToHandleResponseAs
<1>6. ASSUME NEW k \in Key, RequestRetryCallback(k) PROVE IdsOf(ids', handlers')
  <2>1. \A j \in Key : handlers'[j].st = handlers[j].st
    BY <1>0, <1>6 DEF RequestRetryCallback, Entry
  <2> QED BY <1>1, <1>6, <2>1 DEF RequestRetryCallback
<1>7. ASSUME NEW k \in Key, InstanceIdExpiry(k) PROVE IdsOf(ids', handlers')
  <2>1. \A j \in Key : handlers'[j].st = "absent" <=> handlers[j].st = "absent"
    BY <1>0, <1>7 DEF InstanceIdExpiry, Entry
  <2> QED BY <1>1, <1>7, <2>1 DEF InstanceIdExpiry
<1>8. ASSUME NEW k \in Key, RemoveRequestEntry(k) PROVE IdsOf(ids', handlers')
  <2>1. PICK s \in Start : RemoveRequestEntryAs(k, s)
    BY <1>8 DEF RemoveRequestEntry
  <2> DEFINE H == Erased(handlers, k)
             I == [ids EXCEPT ![k.eid] = MarkFree(@, k.instanceId)]
  <2>2. s \in Starts(H, k.eid) /\ handlers' = HandlersAfter(H, s) /\ ids' = IdsAfter(I, s)
    BY <2>1 DEF RemoveRequestEntryAs
  <2>3. IdsOf(I, H) /\ H \in [Key -> Entry] /\ k.eid \in EIDs
    BY <1>2 DEF Key
  <2> HIDE DEF H, I
  <2> QED BY <2>2, <2>3, StartsKeepIds
<1>9. ASSUME NEW k \in Key, NEW a \in Answer, HandleResponse(k, a)
      PROVE  IdsOf(ids', handlers')
  <2>1. IdsOf(ids', Erased(handlers, k))
    BY <1>2, <1>9 DEF HandleResponse
  <2>2. CASE handlers[k].st # "absent"
    BY <1>9, <2>1, <2>2 DEF HandleResponse
  <2>3. CASE handlers[k].st = "absent"
    <3>1. \A j \in Key : Erased(handlers, k)[j].st = "absent" <=> handlers[j].st = "absent"
      BY <1>0, <2>3, EntryTypes DEF Erased
    <3>2. handlers' = handlers
      BY <1>9, <2>3 DEF HandleResponse
    <3> QED BY <2>1, <3>1, <3>2 DEF IdsOf
  <2> QED BY <2>2, <2>3
<1>10. CASE Restart
  BY <1>10, EntryTypes DEF Restart, IdsOf, Key
<1>11. (StartBatch \/ FinishBatch \/ ResumeAwaiter \/ ReturnToExpiry \/ UNCHANGED vars)
        => UNCHANGED <<ids, handlers>>
  BY DEF StartBatch, FinishBatch, ResumeAwaiter, ReturnToExpiry, vars
<1>12. ASSUME NEW k \in Key, HandleForeignResponse(k) PROVE FALSE
  BY <1>12 DEF HandleForeignResponse
<1> QED BY <1>1, <1>3, <1>4, <1>5, <1>6, <1>7, <1>8, <1>9, <1>10, <1>11, <1>12
        DEF Next, Client, Handler, Timer, Socket

\* The instance IDs in use are those of the registered requests, however late answers
\* come: it takes a start that fails, or somebody else's answer, to free a number whose
\* request is in the map.
THEOREM IdsAlwaysInStep ==
    StartFaults = {} /\ ~ForeignIds => (Spec => []IdsInStep)
<1> SUFFICES ASSUME StartFaults = {}, ~ForeignIds PROVE Spec => []IdsInStep
  OBVIOUS
<1> DEFINE Inv == IdsOf(ids, handlers)
<1>1. Init => Inv
  BY EntryTypes DEF Init, IdsOf, Key
<1>2. TypeOK /\ Inv /\ [Next]_vars => Inv'
  BY IdsStep
<1>3. TypeOK /\ Inv => IdsInStep
  BY IdsInStepIsIdsOf
<1> HIDE DEF Inv
<1> QED BY <1>1, <1>2, <1>3, TypeCorrect, PTL DEF Spec

\* There is one expired request at most, its entry is in the map with its response
\* handler gone, and no socket holds an answer to it.
ExpiredInPlace ==
    \A k \in Expired : /\ handlers[k].st # "absent" /\ ~handlers[k].live /\ k # ready
                       /\ \A j \in Expired : j = k

\* A step that leaves the expired requests and their entries keeps it so.
LEMMA ExpiredFrame ==
    ASSUME TypeOK, ExpiredInPlace, Expired' \subseteq Expired, ready' \in {ready, None},
           \A k \in Key : handlers[k].st # "absent" /\ ~handlers[k].live
                            => handlers'[k].st # "absent" /\ ~handlers'[k].live
    PROVE  ExpiredInPlace'
<1>1. Expired \subseteq Key
  BY DEF Expired, TypeOK
<1> QED BY <1>1, NoneAssumption DEF ExpiredInPlace

LEMMA ExpiredStep ==
    ~LateAnswers /\ ~ForeignIds /\ TypeOK /\ ExpiredInPlace /\ [Next]_vars
      => ExpiredInPlace'
<1> SUFFICES ASSUME ~LateAnswers, ~ForeignIds, TypeOK, ExpiredInPlace, [Next]_vars
             PROVE  ExpiredInPlace'
  OBVIOUS
<1> DEFINE Kept(H) == \A k \in Key : handlers[k].st # "absent" /\ ~handlers[k].live
                                       => H[k].st # "absent" /\ ~H[k].live
<1>0. handlers \in [Key -> Entry]
  BY DEF TypeOK
<1>1. ASSUME NEW H \in [Key -> Entry], Kept(H), NEW e \in EIDs, NEW s \in Starts(H, e)
      PROVE  Kept(HandlersAfter(H, s))
  BY <1>1, StartsKeepEntries
<1>2. UNCHANGED <<deferred, after>> => Expired' = Expired
  BY DEF Expired
<1>3. ASSUME after' = None PROVE Expired' = deferred'
  BY <1>3, NoneAssumption DEF Expired, After
<1>4. ASSUME after = None PROVE Expired = deferred
  BY <1>4, NoneAssumption DEF Expired, After
<1>5. ASSUME NEW e \in EIDs, SendRecv(e) PROVE ExpiredInPlace'
  <2>1. PICK i \in Ids, s \in Start : SendRecvAs(e, i, s)
    BY <1>5 DEF SendRecv
  <2> DEFINE k == [eid |-> e, instanceId |-> i]
             H == Emplaced(handlers, k)
  <2>2. k \in Key
    BY DEF Key
  <2>3. H \in [Key -> Entry] /\ Kept(H)
    BY <1>0, <2>2, EntryTypes DEF Emplaced
  <2>4. /\ s \in Starts(H, e)
        /\ \/ handlers' = HandlersAfter(H, s)
           \/ handlers' = [HandlersAfter(H, s) EXCEPT ![k].live = FALSE]
    BY <2>1 DEF SendRecvAs
  <2> DEFINE A == HandlersAfter(H, s)
  <2> HIDE DEF H, k
  <2>5. Kept(A) /\ A \in [Key -> Entry]
    BY <1>1, <2>3, <2>4, StartsType DEF TypeOK
  <2> HIDE DEF A
  <2>6. Kept([A EXCEPT ![k].live = FALSE])
    BY <2>2, <2>5 DEF Entry
  <2>7. Kept(handlers') /\ UNCHANGED <<deferred, after, ready>>
    BY <2>1, <2>4, <2>5, <2>6 DEF SendRecvAs, A
  <2> QED BY <1>2, <2>7, ExpiredFrame
<1>6. CASE DeadHandler
  <2>1. Kept([k \in Key |-> [handlers[k] EXCEPT !.live = FALSE]])
    BY <1>0 DEF Entry
  <2>2. Kept(handlers') /\ UNCHANGED <<deferred, after, ready>>
    BY <1>6, <2>1 DEF DeadHandler
  <2> QED BY <1>2, <2>2, ExpiredFrame
<1>7. CASE ReturnToExpiry
  <2>1. after \in After /\ after.fn = "expiry" /\ after.key \in Key
    BY <1>7 DEF ReturnToExpiry, TypeOK, After
  <2>2. after = [fn |-> "expiry", key |-> after.key]
    BY <2>1 DEF After
  <2>3. Expired' \subseteq Expired
    BY <1>3, <1>7, <2>1, <2>2 DEF ReturnToExpiry, Expired
  <2> QED BY <1>7, <2>3, ExpiredFrame DEF ReturnToExpiry
<1>8. CASE ReturnToHandleResponse
  <2>1. PICK s \in Start : ReturnToHandleResponseAs(s)
    BY <1>8 DEF ReturnToHandleResponse
  <2>2. after.key.eid \in EIDs
    BY <2>1 DEF ReturnToHandleResponseAs, TypeOK, After, Key
  <2>3. Kept(handlers')
    BY <1>0, <1>1, <2>1, <2>2 DEF ReturnToHandleResponseAs
  <2>4. Expired' \subseteq Expired
    BY <1>3, <2>1 DEF ReturnToHandleResponseAs, Expired
  <2> QED BY <2>1, <2>3, <2>4, ExpiredFrame DEF ReturnToHandleResponseAs
<1>9. ASSUME NEW k \in Key, RequestRetryCallback(k) PROVE ExpiredInPlace'
  <2>1. Kept(handlers')
    BY <1>0, <1>9 DEF RequestRetryCallback, Entry
  <2> QED BY <1>2, <1>9, <2>1, ExpiredFrame DEF RequestRetryCallback
<1>10. ASSUME NEW k \in Key, InstanceIdExpiry(k) PROVE ExpiredInPlace'
  <2>1. Expired' = {k}
    BY <1>10 DEF InstanceIdExpiry, Expired
  <2>2. wire'[k] = {} /\ ready' # k
    BY <1>10, NoneAssumption DEF InstanceIdExpiry, TypeOK
  <2>3. handlers'[k].st = "queued" /\ ~handlers'[k].live
    BY <1>0, <1>10 DEF InstanceIdExpiry, Entry
  <2> QED BY <2>1, <2>2, <2>3 DEF ExpiredInPlace
<1>11. ASSUME NEW k \in Key, RemoveRequestEntry(k) PROVE ExpiredInPlace'
  <2>1. /\ k \in deferred /\ deferred' = deferred \ {k}
        /\ after = None /\ after' = None
    BY <1>11 DEF RemoveRequestEntry, RemoveRequestEntryAs, Idle
  <2>2. \A j \in deferred : j = k
    BY <1>4, <2>1 DEF ExpiredInPlace
  <2>3. Expired' = {}
    BY <1>3, <2>1, <2>2
  <2> QED BY <2>3 DEF ExpiredInPlace
<1>12. ASSUME NEW k \in Key, NEW a \in Answer, HandleResponse(k, a)
       PROVE  ExpiredInPlace'
  <2>1. /\ after = None /\ after' = [fn |-> "handleResponse", key |-> k]
        /\ deferred' = deferred /\ ready' = None /\ (deferred = {} \/ ready = k)
    BY <1>12 DEF HandleResponse, Idle
  <2>2. Expired' = deferred /\ Expired = deferred
    BY <1>4, <2>1 DEF Expired
  <2>3. k \notin Expired
    BY <2>1, <2>2 DEF ExpiredInPlace
  <2>4. \A j \in Key : j # k => handlers'[j] = handlers[j]
    BY <1>0, <1>12 DEF HandleResponse, Erased
  <2>5. Expired \subseteq Key
    BY DEF Expired, TypeOK
  <2> QED BY <2>1, <2>2, <2>3, <2>4, <2>5, NoneAssumption DEF ExpiredInPlace
<1>13. ASSUME NEW k \in Key, HandleForeignResponse(k) PROVE FALSE
  BY <1>13 DEF HandleForeignResponse
<1>14. CASE Restart
  <2>1. Expired' = {}
    BY <1>3, <1>14 DEF Restart
  <2> QED BY <2>1 DEF ExpiredInPlace
<1>15. CASE StartBatch \/ FinishBatch \/ ResumeAwaiter \/ UNCHANGED vars
  <2>1. UNCHANGED <<handlers, deferred, after, ready>>
    BY <1>15 DEF StartBatch, FinishBatch, ResumeAwaiter, vars
  <2> QED BY <1>2, <2>1, ExpiredFrame
<1> QED BY <1>5, <1>6, <1>7, <1>8, <1>9, <1>10, <1>11, <1>12, <1>13, <1>14, <1>15
        DEF Next, Client, Handler, Timer, Socket

\* A Defer removes the expired request it was queued for, whatever fails when requests
\* are started: it takes an answer that is read before the removal to make it hit
\* another request, registered under the same key.
THEOREM RemovalAlwaysHitsExpired ==
    ~LateAnswers /\ ~ForeignIds => (Spec => []RemovalHitsExpired)
<1> SUFFICES ASSUME ~LateAnswers, ~ForeignIds PROVE Spec => []RemovalHitsExpired
  OBVIOUS
<1>1. Init => ExpiredInPlace
  BY NoneAssumption DEF Init, ExpiredInPlace, Expired, After
<1>2. TypeOK /\ ExpiredInPlace /\ [Next]_vars => ExpiredInPlace'
  BY ExpiredStep
<1>3. ExpiredInPlace => RemovalHitsExpired
  BY DEF ExpiredInPlace, Expired, RemovalHitsExpired
<1> QED BY <1>1, <1>2, <1>3, TypeCorrect, PTL DEF Spec

--------------------------------------------------------------------------------
(* The refinement: every step of Requester is a step of RequestContract.   *)

\* In a Clean environment the layer behaves as its contract says: each request is
\* completed once, in a step of its own, by an answer or by silence.  (That it is
\* completed at all is liveness, which TLC checks.)
THEOREM KeepsContract ==
    Clean => (Spec => Contract!Init /\ [][Contract!Next]_(Contract!vars))
<1> SUFFICES ASSUME Clean
             PROVE  Spec => Contract!Init /\ [][Contract!Next]_(Contract!vars)
  OBVIOUS
<1>1. Init => Contract!Init
  BY DEF Init, Contract!Init, Asked, Outcome
<1>2. TypeOK /\ TypeOK' /\ CleanInv /\ CleanInv' /\ [Next]_vars
        => [Contract!Next]_(Contract!vars)
  <2> SUFFICES ASSUME TypeOK, TypeOK', CleanInv, CleanInv', [Next]_vars
               PROVE  Contract!Next \/ UNCHANGED Contract!vars
    OBVIOUS
  <2>0. UNCHANGED <<client, awaited, call>> => UNCHANGED Contract!vars
    BY DEF Contract!vars
  <2>1. CASE StartBatch
    <3>1. Contract!Start
      BY <2>1 DEF StartBatch, Contract!Start
    <3> QED BY <3>1 DEF Contract!Next
  <2>2. CASE FinishBatch
    <3>1. Contract!Finish
      BY <2>2 DEF FinishBatch, Contract!Finish
    <3> QED BY <3>1 DEF Contract!Next
  <2>3. ASSUME NEW e \in EIDs, SendRecv(e) PROVE Contract!Next
    <3>1. PICK i \in Ids, st \in Start : SendRecvAs(e, i, st)
      BY <2>3 DEF SendRecv
    <3> DEFINE k == [eid |-> e, instanceId |-> i]
               H == IF handlers[k].st = "absent"
                    THEN [handlers EXCEPT ![k] = NewEntry] ELSE handlers
    <3>2. k \in Key /\ k.eid = e /\ H \in [Key -> Entry]
      BY EntryTypes DEF TypeOK, Key
    <3>3. PICK s \in Starts(H, e) : s.result = "ok" => client' = "waiting" /\ awaited' = k
      BY <3>1 DEF SendRecvAs, Emplaced
    <3> HIDE DEF H
    <3>4. s.result = "ok"
      BY <3>2, CleanStarts
    <3> HIDE DEF k
    <3>5. Asked(awaited') = e
      BY <3>2, <3>3, <3>4, NoneAssumption DEF Asked
    <3>6. Contract!Ask(e)
      BY <2>3, <3>3, <3>4, <3>5 DEF SendRecv, SendRecvAs, Emplaced, Contract!Ask
    <3> QED BY <3>6 DEF Contract!Next
  <2>4. CASE ResumeAwaiter
    <3>1. Outcome(call) # "open"
      BY <2>4 DEF ResumeAwaiter, Outcome
    <3>2. Outcome(call') = "open" /\ Asked(awaited') = None
      BY <2>4 DEF ResumeAwaiter, Outcome, Asked
    <3>3. Contract!Resume
      BY <2>4, <3>1, <3>2 DEF ResumeAwaiter, Contract!Resume
    <3> QED BY <3>3 DEF Contract!Next
  <2>5. CASE DeadHandler
    BY <2>5 DEF DeadHandler, CleanInv, LiveIsAwaited
  <2>6. ASSUME call = None, call' # None, UNCHANGED <<client, awaited>>
        PROVE  Contract!Next
    <3>1. client = "waiting"
      <4>1. call'.key = awaited /\ call'.key \in Key
        BY <2>6 DEF TypeOK, CleanInv, LiveIsAwaited, Call
      <4> QED BY <4>1, NoneAssumption DEF CleanInv, LiveIsAwaited
    <3>2. Outcome(call) = "open" /\ Outcome(call') \in {"answered", "silent"}
      BY <2>6 DEF Outcome
    <3>3. Contract!Decide
      BY <2>6, <3>1, <3>2 DEF Contract!Decide
    <3> QED BY <3>3 DEF Contract!Next
  <2>7. ASSUME NEW k \in Key, InstanceIdExpiry(k)
        PROVE  Contract!Next \/ UNCHANGED Contract!vars
    <3>1. call = None /\ UNCHANGED <<client, awaited>>
      BY <2>7 DEF InstanceIdExpiry, Idle
    <3> QED BY <2>0, <2>6, <3>1
  <2>8. ASSUME NEW k \in Key, NEW a \in Answer, HandleResponse(k, a)
        PROVE  Contract!Next \/ UNCHANGED Contract!vars
    <3>1. call = None /\ UNCHANGED <<client, awaited>>
      BY <2>8 DEF HandleResponse, Idle, Erased
    <3> QED BY <2>0, <2>6, <3>1
  <2>9. CASE Restart
    <3>1. Contract!Restart
      BY <2>9 DEF Restart, Contract!Restart, Asked, Outcome
    <3> QED BY <3>1 DEF Contract!Next
  <2>10. (ReturnToExpiry \/ ReturnToHandleResponse
            \/ (\E k \in Key : RequestRetryCallback(k) \/ RemoveRequestEntry(k)
                                 \/ HandleForeignResponse(k))
            \/ UNCHANGED vars)
          => UNCHANGED <<client, awaited, call>>
    BY DEF ReturnToExpiry, ReturnToHandleResponse, ReturnToHandleResponseAs, RequestRetryCallback,
           RemoveRequestEntry, RemoveRequestEntryAs, HandleForeignResponse, vars, MoreRetries, Erased
  <2> QED BY <2>0, <2>1, <2>2, <2>3, <2>4, <2>5, <2>7, <2>8, <2>9, <2>10
          DEF Next, Client, Handler, Timer, Socket
<1> QED BY <1>1, <1>2, CleanInvariant, TypeCorrect, PTL DEF Spec

================================================================================
