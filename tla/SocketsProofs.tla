---------------------------- MODULE SocketsProofs ----------------------------
(***************************************************************************)
(* Theorems about Sockets, for all numbers of endpoints, daemons,          *)
(* descriptors and lists, both builds and every fault: the request layer   *)
(* keeps its guarantees on top of the sockets, and a request that is       *)
(* awaited and in flight is on the socket of its endpoint.  With the       *)
(* kernel's socket, or with that of one demux daemon, when it can be       *)
(* opened and sent on, the request layer keeps all its promises.           *)
(***************************************************************************)
EXTENDS Sockets, RequesterProofs

--------------------------------------------------------------------------------
(* The sockets restrict the request layer and add nothing to it.           *)

\* A step of the composition is a step of Requester or leaves it alone.
LEMMA LayerStep == [SocketsNext]_allVars => [Next]_vars
<1> SUFFICES ASSUME [SocketsNext]_allVars PROVE [Next]_vars
  OBVIOUS
<1>1. CASE Coroutine
  <2>1. CASE \E e \in EIDs : ActivateSocket(e)
    BY <2>1 DEF ActivateSocket
  <2>2. ASSUME NEW e \in EIDs, SetTimeOnErot(e) PROVE Next
    BY <2>2 DEF SetTimeOnErot, SendRecv, Next, Client
  <2>3. CASE EndOfLists
    BY <2>3 DEF EndOfLists, Next, Client
  <2>4. ASSUME NEW S, NEW queue, StartList(S, queue) PROVE Next
    BY <2>4 DEF StartList, Next, Client
  <2>5. CASE \E e \in Known : NextList(e)
    BY <2>5 DEF NextList
  <2> QED BY <1>1, <2>1, <2>2, <2>3, <2>4, <2>5
          DEF Coroutine, HandleMctpEndpoints, HandleTimeChange
<1>2. CASE Discovery
  BY <1>2 DEF Discovery, RegisterMctpEndpoint
<1>3. CASE Events
  <2>1. CASE HandlerStep
    BY <2>1 DEF HandlerStep, Next, Handler
  <2>2. CASE ReturnFromReceive
    BY <2>2 DEF ReturnFromReceive, ReturnToHandleResponse, Next, Handler
  <2>3. ASSUME NEW k \in Key, RequestRetry(k) PROVE Next
    BY <2>3 DEF RequestRetry, Next, Timer
  <2>4. ASSUME NEW k \in Key, Expire(k) PROVE Next
    BY <2>4 DEF Expire, Next, Timer
  <2>5. ASSUME NEW k \in Key, RemoveEntry(k) PROVE Next
    BY <2>5 DEF RemoveEntry, RemoveRequestEntry, Next, Timer
  <2>6. ASSUME NEW k \in Key, NEW a \in Answer, HandleReceivedMsg(k, a) PROVE Next
    BY <2>6 DEF HandleReceivedMsg, Next, Socket
  <2>7. ASSUME NEW k \in Key, HandleReceivedForeign(k) PROVE Next
    BY <2>7 DEF HandleReceivedForeign, Next, Socket
  <2> QED BY <1>3, <2>1, <2>2, <2>3, <2>4, <2>5, <2>6, <2>7 DEF Events
<1>4. CASE RestartDaemon
  BY <1>4 DEF RestartDaemon, Next
<1>5. CASE UNCHANGED allVars
  BY <1>5 DEF allVars
<1> QED BY <1>1, <1>2, <1>3, <1>4, <1>5 DEF SocketsNext

LEMMA LayerSpec == SocketsSpec => Spec
<1>1. SocketsInit => Init
  BY DEF SocketsInit
<1> QED BY <1>1, LayerStep, PTL DEF SocketsSpec, Spec

\* On top of these sockets, too, no endpoint ever has two requests in flight.
THEOREM SocketsOneInFlight == SocketsSpec => []OneInFlight
BY LayerSpec, OneInFlightAlways, PTL

--------------------------------------------------------------------------------
(* Types                                                                   *)

\* Lists are of endpoints that are known.
LEMMA ListsStarted ==
    ASSUME \/ \E e \in Known : HandleMctpEndpoints(e)
           \/ \E S \in SUBSET Known : HandleTimeChange(S)
    PROVE  \E S \in SUBSET Known, queue \in BOOLEAN : StartList(S, queue)
<1>1. ASSUME NEW e \in Known, HandleMctpEndpoints(e)
      PROVE  \E S \in SUBSET Known, queue \in BOOLEAN : StartList(S, queue)
  <2>1. {e} \in SUBSET Known /\ StartList({e}, TRUE)
    BY <1>1 DEF HandleMctpEndpoints
  <2> QED BY <2>1
<1>2. ASSUME NEW S \in SUBSET Known, HandleTimeChange(S)
      PROVE  \E T \in SUBSET Known, queue \in BOOLEAN : StartList(T, queue)
  BY <1>2 DEF HandleTimeChange
<1> QED BY <1>1, <1>2

LEMMA SocketOfType ==
    ASSUME SocketsTypeOK, NEW e \in EIDs
    PROVE  SocketOf(e) \in Fds \cup {NoFd}
BY SocketAssumption DEF SocketsTypeOK, SocketOf

LEMMA SocketsTypeStep ==
    SocketsTypeOK /\ TypeOK' /\ [SocketsNext]_allVars => SocketsTypeOK'
<1> SUFFICES ASSUME SocketsTypeOK, TypeOK', [SocketsNext]_allVars PROVE SocketsTypeOK'
  OBVIOUS
<1> USE DEF SocketsTypeOK, sockets, list, sockVars
<1>a. ASSUME NEW fds \in [Key -> Fds \cup {NoFd}]
      PROVE  OfEntries(fds) \in [Key -> Fds \cup {NoFd}]
  BY DEF OfEntries
<1>b. ASSUME NEW S \in SUBSET Known, BeginList(S)
      PROVE  lists' \in 0 .. MaxLists /\ opening' \subseteq EIDs /\ asking' \subseteq EIDs
  BY <1>b, SocketAssumption DEF BeginList, Known
<1>c. ASSUME DeactivateSockets
      PROVE  /\ socketInfoMap' \in [Paths -> Fds \cup {NoFd}]
             /\ kernelFd' \in Fds \cup {NoFd}
             /\ eidToFd' \in [EIDs -> Fds \cup {NoFd}]
             /\ held' \in BOOLEAN
  BY <1>c DEF DeactivateSockets
<1>1. ASSUME NEW e \in EIDs, ActivateSocket(e) PROVE SocketsTypeOK'
  <2>1. CASE Reuse(e)
    BY <1>1, <2>1, SocketOfType DEF ActivateSocket, Reuse
  <2>2. ASSUME NEW fd \in Fds, InitDaemonSocket(e, fd) \/ InitKernelSocket(fd),
               eidToFd' = [eidToFd EXCEPT ![e] = fd]
        PROVE  SocketsTypeOK'
    BY <1>1, <2>2 DEF ActivateSocket, InitDaemonSocket, InitKernelSocket
  <2>3. CASE Skip(e)
    BY <1>1, <2>3 DEF ActivateSocket, Skip
  <2> QED BY <1>1, <2>1, <2>2, <2>3 DEF ActivateSocket
<1>2. ASSUME NEW e \in EIDs, SetTimeOnErot(e) PROVE SocketsTypeOK'
  <2>1. PICK i \in Ids : requestFd' = RegisteredFd(e, [eid |-> e, instanceId |-> i])
    BY <1>2 DEF SetTimeOnErot
  <2>2. requestFd' \in [Key -> Fds \cup {NoFd}]
    BY <2>1 DEF RegisteredFd
  <2> QED BY <1>2, <2>2 DEF SetTimeOnErot
<1>3. CASE EndOfLists
  BY <1>3, <1>c DEF EndOfLists, ListDone
<1>4. ASSUME NEW S \in SUBSET Known, NEW queue \in BOOLEAN, StartList(S, queue)
      PROVE  SocketsTypeOK'
  BY <1>4, <1>b DEF StartList
<1>5. ASSUME NEW e \in Known, NextList(e) PROVE SocketsTypeOK'
  <2>1. {e} \in SUBSET Known
    OBVIOUS
  <2> QED BY <1>5, <2>1, <1>b, <1>c DEF NextList, ListDone
<1>6. CASE Discovery
  BY <1>6 DEF Discovery, RegisterMctpEndpoint
<1>7. CASE HandlerStep \/ ReturnFromReceive \/ \E k \in Key : RequestRetry(k)
  BY <1>7 DEF HandlerStep, ReturnFromReceive, RequestRetry
<1>8. ASSUME NEW k \in Key, Expire(k) PROVE SocketsTypeOK'
  BY <1>8 DEF Expire
<1>9. ASSUME NEW k \in Key, RemoveEntry(k) PROVE SocketsTypeOK'
  BY <1>9, <1>a DEF RemoveEntry
<1>10. ASSUME NEW k \in Key, NEW a \in Answer, HandleReceivedMsg(k, a) PROVE SocketsTypeOK'
  BY <1>10, <1>a DEF HandleReceivedMsg
<1>11. ASSUME NEW k \in Key, HandleReceivedForeign(k) PROVE SocketsTypeOK'
  BY <1>11 DEF HandleReceivedForeign
<1>12. CASE RestartDaemon
  <2>1. 0 \in 0 .. MaxLists
    BY SocketAssumption
  <2> QED BY <1>12, <2>1 DEF RestartDaemon
<1>13. CASE UNCHANGED allVars
  BY <1>13 DEF allVars
<1> QED BY <1>1, <1>2, <1>3, <1>4, <1>5, <1>6, <1>7, <1>8, <1>9, <1>10, <1>11, <1>12,
           <1>13, ListsStarted DEF SocketsNext, Coroutine, Events

\* Every variable of the sockets has its type, whatever fails.
THEOREM SocketsTypeCorrect == SocketsSpec => []SocketsTypeOK
<1>1. SocketsInit /\ TypeOK => SocketsTypeOK
  <2>1. 0 \in 0 .. MaxLists
    BY SocketAssumption
  <2> QED BY <2>1 DEF SocketsInit, SocketsTypeOK
<1>2. SocketsSpec => []TypeOK
  BY LayerSpec, TypeCorrect, PTL
<1> QED BY <1>1, <1>2, SocketsTypeStep, PTL DEF SocketsSpec

--------------------------------------------------------------------------------
(* The request that is awaited is on its socket.                           *)

\* runRegisteredRequest changes nobody's response handler, and what it puts in
\* flight is the request it starts.
LEMMA StartKeeps ==
    ASSUME NEW H \in [Key -> Entry], NEW s \in Start, NEW k \in Key
    PROVE  /\ HandlersAfter(H, s)[k].live = H[k].live
           /\ HandlersAfter(H, s)[k].st = "running"
                => H[k].st = "running" \/ (s.key = k /\ s.result = "ok")
<1>1. CASE s.key = None
  BY <1>1 DEF HandlersAfter
<1>2. CASE s.key \in Key
  <2>1. HandlersAfter(H, s) = [H EXCEPT ![s.key] = Started(H[s.key], s.result)]
    BY <1>2, NoneAssumption DEF HandlersAfter
  <2>2. PICK h \in Entry : h = H[s.key]
    BY <1>2
  <2>3. /\ Started(h, s.result).live = h.live
        /\ Started(h, s.result).st = "running" => h.st = "running" \/ s.result = "ok"
    BY <2>2 DEF Started, Entry
  <2> QED BY <1>2, <2>1, <2>2, <2>3
<1> QED BY <1>1, <1>2 DEF Start

\* A request that is started is started on a descriptor that is open.
LEMMA StartedOnOpen ==
    ASSUME NEW s \in Start, NEW k \in Key, NEW fds, Sendable(s, fds),
           s.key = k, s.result = "ok"
    PROVE  fds[k] \in Fds /\ fds[k] # NoFd
<1>1. fds[k] \in Fds
  BY NoneAssumption DEF Sendable, Open
<1> QED BY <1>1 DEF Fds, NoFd

\* A step that leaves the sockets alone, and the descriptors of the requests that
\* stay live: what it newly puts in flight is on an open descriptor.
LEMMA SocketFrame ==
    ASSUME SocketInv, LiveIsAwaitedOnly',
           UNCHANGED <<build, eidToSockMap, sockets, opening>>,
           \A k \in Key : handlers'[k].live =>
             /\ handlers[k].live
             /\ \/ requestFd'[k] = requestFd[k]
                \/ requestFd'[k] = NoFd /\ handlers'[k].st # "running"
             /\ handlers'[k].st = "running"
                  => handlers[k].st = "running" \/ requestFd[k] # NoFd
    PROVE  SocketInv'
<1>1. /\ Known' = Known /\ opening' = opening /\ eidToFd' = eidToFd
      /\ \A e : SocketOf(e)' = SocketOf(e)
  BY DEF Known, SocketOf, sockets
<1>2. ManagerKnowsSocket'
  BY <1>1 DEF SocketInv, ManagerKnowsSocket
<1>3. LiveOnItsSocket'
  BY <1>1 DEF SocketInv, LiveOnItsSocket
<1>4. AwaitedOnItsSocket'
  BY <1>1 DEF SocketInv, LiveOnItsSocket, AwaitedOnItsSocket, Running
<1> QED BY <1>1, <1>2, <1>3, <1>4 DEF SocketInv

\* As long as no request is live, only Manager's map matters.
LEMMA NoneLiveFrame ==
    ASSUME \A k \in Key : ~handlers'[k].live, opening' \subseteq Known',
           ManagerKnowsSocket'
    PROVE  SocketInv'
BY DEF SocketInv, LiveIsAwaitedOnly, LiveOnItsSocket, AwaitedOnItsSocket, Running

LEMMA RunningClientNoneLive ==
    ASSUME SocketInv, client # "waiting"
    PROVE  \A k \in Key : ~handlers[k].live
BY DEF SocketInv, LiveIsAwaitedOnly

LEMMA SocketRegister ==
    ASSUME SocketsTypeOK, SocketInv, NEW e \in EIDs, NEW p \in Paths,
           RegisterMctpEndpoint(e, p)
    PROVE  SocketInv'
<1>1. /\ eidToSockMap[e] = None
      /\ eidToSockMap' = [eidToSockMap EXCEPT ![e] = p]
      /\ UNCHANGED <<vars, build, socketInfoMap, kernelFd, eidToFd, opening, requestFd>>
  BY DEF RegisterMctpEndpoint, sockets, list
<1>2. \A d \in EIDs : SocketOf(d)' = SocketOf(d) \/ SocketOf(d) = NoFd
  BY <1>1 DEF SocketOf, SocketsTypeOK
<1>3. opening' \subseteq Known'
  BY <1>1, SocketAssumption DEF SocketInv, Known, SocketsTypeOK
<1>4. ManagerKnowsSocket'
  BY <1>1, <1>2 DEF SocketInv, ManagerKnowsSocket
<1>5. LiveIsAwaitedOnly' /\ handlers' = handlers
  BY <1>1 DEF SocketInv, LiveIsAwaitedOnly, vars
<1>6. \A k \in Key : k.eid \in EIDs
  BY DEF Key
<1>7. LiveOnItsSocket'
  BY <1>1, <1>2, <1>5, <1>6 DEF SocketInv, LiveOnItsSocket
<1>8. AwaitedOnItsSocket'
  BY <1>1, <1>2, <1>5, <1>6 DEF SocketInv, AwaitedOnItsSocket, Running
<1> QED BY <1>3, <1>4, <1>5, <1>7, <1>8 DEF SocketInv

LEMMA SocketActivate ==
    ASSUME SocketsTypeOK, SocketInv, NEW e \in EIDs, ActivateSocket(e)
    PROVE  SocketInv'
<1>1. /\ e \in opening /\ opening' = opening \ {e}
      /\ UNCHANGED <<handlers, build, eidToSockMap>>
      /\ \A k \in Key : ~handlers[k].live
  BY RunningClientNoneLive DEF ActivateSocket, vars
<1>2. opening' \subseteq Known' /\ e \in Known
  BY <1>1 DEF SocketInv, Known
<1>3. ManagerKnowsSocket'
  <2>1. CASE Reuse(e)
    BY <1>1, <2>1 DEF Reuse, SocketInv, ManagerKnowsSocket, SocketsTypeOK, SocketOf
  <2>2. ASSUME NEW fd \in Fds, InitDaemonSocket(e, fd),
               eidToFd' = [eidToFd EXCEPT ![e] = fd]
        PROVE  ManagerKnowsSocket'
    <3> DEFINE p == eidToSockMap[e]
    <3>1. /\ build = "daemon" /\ p \in Paths /\ p # None /\ socketInfoMap[p] = NoFd
          /\ socketInfoMap' = [socketInfoMap EXCEPT ![p] = fd]
      BY <1>2, <2>2 DEF InitDaemonSocket, Known, SocketOf, SocketsTypeOK
    <3>2. SocketOf(e)' = fd
      BY <1>1, <3>1 DEF SocketOf, SocketsTypeOK
    <3>3. \A d \in EIDs : SocketOf(d) # NoFd => SocketOf(d)' = SocketOf(d)
      BY <1>1, <3>1 DEF SocketOf, SocketsTypeOK
    <3> QED BY <2>2, <3>2, <3>3 DEF SocketInv, ManagerKnowsSocket, SocketsTypeOK
  <2>3. ASSUME NEW fd \in Fds, InitKernelSocket(fd),
               eidToFd' = [eidToFd EXCEPT ![e] = fd]
        PROVE  ManagerKnowsSocket'
    BY <1>1, <2>3 DEF InitKernelSocket, SocketInv, ManagerKnowsSocket, SocketsTypeOK,
                      SocketOf
  <2>4. CASE Skip(e)
    BY <1>1, <2>4 DEF Skip, sockets, SocketInv, ManagerKnowsSocket, SocketOf
  <2> QED BY <2>1, <2>2, <2>3, <2>4 DEF ActivateSocket
<1> QED BY <1>1, <1>2, <1>3, NoneLiveFrame

\* A request that is registered gets the number of its endpoint's socket, or one
\* that it cannot be sent on.
LEMMA SocketSetTime ==
    ASSUME SocketsTypeOK, SocketInv, NEW e \in EIDs, SetTimeOnErot(e)
    PROVE  SocketInv'
<1>1. PICK i \in Ids, s \in Start :
        /\ SendRecvAs(e, i, s)
        /\ requestFd' = RegisteredFd(e, [eid |-> e, instanceId |-> i])
        /\ Sendable(s, requestFd')
  BY DEF SetTimeOnErot
<1> DEFINE k == [eid |-> e, instanceId |-> i]
           H == Emplaced(handlers, k)
<1>2. /\ k \in Key /\ k.eid = e
      /\ handlers \in [Key -> Entry] /\ H \in [Key -> Entry]
  BY EntryTypes DEF Key, SocketsTypeOK, TypeOK, Emplaced
<1>3. /\ client = "running" /\ call = None /\ call' = None
      /\ UNCHANGED <<build, eidToSockMap, sockets, opening>>
      /\ \A j \in Key : ~handlers[j].live
  BY <1>1, RunningClientNoneLive DEF SendRecvAs, SetTimeOnErot
<1>4. /\ Known' = Known /\ eidToFd' = eidToFd
      /\ \A d : SocketOf(d)' = SocketOf(d)
  BY <1>3 DEF Known, SocketOf, sockets
<1>5. opening' \subseteq Known' /\ ManagerKnowsSocket'
  BY <1>3, <1>4 DEF SocketInv, ManagerKnowsSocket
<1>6. CASE s.result # "ok"
  <2>1. handlers' = [HandlersAfter(H, s) EXCEPT ![k].live = FALSE]
    BY <1>1, <1>6 DEF SendRecvAs
  <2>2. \A j \in Key : j # k => ~HandlersAfter(H, s)[j].live
    <3>1. \A j \in Key : j # k => ~H[j].live
      BY <1>2, <1>3 DEF Emplaced
    <3> QED BY <1>2, <3>1, StartKeeps
  <2>3. HandlersAfter(H, s) \in [Key -> Entry]
    BY <1>1, <1>2, StartsType, <2>2 DEF SendRecvAs, SocketsTypeOK, TypeOK
  <2>4. \A j \in Key : ~handlers'[j].live
    BY <1>2, <2>1, <2>2, <2>3 DEF Entry
  <2> QED BY <1>5, <2>4, NoneLiveFrame
<1>7. CASE s.result = "ok"
  <2>1. /\ handlers' = HandlersAfter(H, s) /\ client' = "waiting" /\ awaited' = k
    BY <1>1, <1>7 DEF SendRecvAs
  <2>2. ASSUME NEW j \in Key, handlers'[j].live
        PROVE  /\ j = k /\ handlers[k].st = "absent"
               /\ handlers'[j].st = "running" => s.key = k
    <3>1. H[j].live
      BY <1>2, <2>1, <2>2, StartKeeps
    <3>2. j = k /\ handlers[k].st = "absent" /\ H[k] = NewEntry
      BY <1>2, <1>3, <3>1 DEF Emplaced
    <3> QED BY <1>2, <2>1, <2>2, <3>2, StartKeeps, EntryTypes
  <2>3. LiveIsAwaitedOnly'
    BY <1>3, <2>1, <2>2 DEF LiveIsAwaitedOnly
  <2>4. handlers[k].st = "absent" => requestFd'[k] = eidToFd[e]
    BY <1>1, <1>2 DEF RegisteredFd, SocketsTypeOK
  <2>5. LiveOnItsSocket'
    BY <1>2, <1>4, <2>2, <2>4 DEF LiveOnItsSocket, SocketInv, ManagerKnowsSocket
  <2>6. s.key = k => requestFd'[k] # NoFd
    BY <1>1, <1>2, <1>7, StartedOnOpen
  <2>7. AwaitedOnItsSocket'
    BY <2>2, <2>5, <2>6 DEF AwaitedOnItsSocket, LiveOnItsSocket, Running
  <2> QED BY <1>5, <2>3, <2>5, <2>7 DEF SocketInv
<1> QED BY <1>6, <1>7

\* The expiry of a request, and an answer to it: its response handler is called,
\* and no other one is live.
LEMMA CallTakesLive ==
    ASSUME SocketsTypeOK, SocketInv, NEW k \in Key,
           \A j \in Key : handlers'[j].live => j # k /\ handlers[j].live,
           UNCHANGED <<client, awaited>>, call' # None, call'.live = handlers[k].live
    PROVE  LiveIsAwaitedOnly'
<1>1. CASE handlers[k].live
  <2>1. \A j \in Key : ~handlers'[j].live
    BY <1>1 DEF SocketInv, LiveIsAwaitedOnly
  <2> QED BY <2>1 DEF LiveIsAwaitedOnly
<1>2. CASE ~handlers[k].live
  BY <1>2 DEF SocketInv, LiveIsAwaitedOnly, SocketsTypeOK, TypeOK, Entry
<1> QED BY <1>1, <1>2

LEMMA SocketHandlerStep ==
    ASSUME SocketsTypeOK, SocketInv, HandlerStep
    PROVE  SocketInv'
<1>1. UNCHANGED <<build, eidToSockMap, sockets, opening, requestFd>>
  BY DEF HandlerStep, sockVars, list
<1>2. handlers \in [Key -> Entry]
  BY DEF SocketsTypeOK, TypeOK
<1>3. CASE ResumeAwaiter
  <2>1. LiveIsAwaitedOnly'
    BY <1>3 DEF ResumeAwaiter, SocketInv, LiveIsAwaitedOnly
  <2> QED BY <1>1, <1>3, <2>1, SocketFrame DEF ResumeAwaiter
<1>4. CASE DeadHandler
  <2>1. CASE UNCHANGED <<client, awaited, handlers>>
    <3>1. LiveIsAwaitedOnly'
      BY <1>4, <2>1 DEF DeadHandler, SocketInv, LiveIsAwaitedOnly
    <3> QED BY <1>1, <2>1, <3>1, SocketFrame
  <2>2. CASE handlers' = [k \in Key |-> [handlers[k] EXCEPT !.live = FALSE]]
    <3>1. \A k \in Key : ~handlers'[k].live
      BY <1>2, <2>2 DEF Entry
    <3>2. opening' \subseteq Known' /\ ManagerKnowsSocket'
      BY <1>1 DEF SocketInv, Known, ManagerKnowsSocket, SocketOf, sockets
    <3> QED BY <3>1, <3>2, NoneLiveFrame
  <2> QED BY <1>4, <2>1, <2>2 DEF DeadHandler
<1>5. CASE ReturnToExpiry
  <2>1. LiveIsAwaitedOnly'
    BY <1>5 DEF ReturnToExpiry, SocketInv, LiveIsAwaitedOnly
  <2> QED BY <1>1, <1>5, <2>1, SocketFrame DEF ReturnToExpiry
<1> QED BY <1>3, <1>4, <1>5 DEF HandlerStep

LEMMA SocketRetry ==
    ASSUME SocketsTypeOK, SocketInv, NEW k \in Key, RequestRetry(k)
    PROVE  SocketInv'
<1>1. UNCHANGED <<build, eidToSockMap, sockets, opening, requestFd, client, awaited, call>>
  BY DEF RequestRetry, RequestRetryCallback, sockVars, list
<1>2. \A j \in Key : /\ handlers'[j].live = handlers[j].live
                     /\ handlers'[j].st = handlers[j].st
  BY DEF RequestRetry, RequestRetryCallback, SocketsTypeOK, TypeOK, Entry
<1>3. LiveIsAwaitedOnly'
  BY <1>1, <1>2 DEF SocketInv, LiveIsAwaitedOnly
<1> QED BY <1>1, <1>2, <1>3, SocketFrame

LEMMA SocketExpire ==
    ASSUME SocketsTypeOK, SocketInv, NEW k \in Key, Expire(k)
    PROVE  SocketInv'
<1>1. /\ UNCHANGED <<build, eidToSockMap, sockets, opening, requestFd, client, awaited>>
      /\ call' = [key |-> k, live |-> handlers[k].live, answer |-> "none"]
  BY DEF Expire, InstanceIdExpiry, list
<1>2. \A j \in Key : handlers'[j].live => /\ j # k /\ handlers[j].live
                                          /\ handlers'[j].st = handlers[j].st
  BY DEF Expire, InstanceIdExpiry, SocketsTypeOK, TypeOK, Entry
<1>3. call' \in Call
  BY <1>1 DEF Call, Answer, SocketsTypeOK, TypeOK, Entry
<1>4. LiveIsAwaitedOnly'
  BY <1>1, <1>2, <1>3, CallTakesLive, NoneAssumption
<1> QED BY <1>1, <1>2, <1>4, SocketFrame

LEMMA SocketReceive ==
    ASSUME SocketsTypeOK, SocketInv, NEW k \in Key, NEW a \in Answer,
           HandleReceivedMsg(k, a)
    PROVE  SocketInv'
<1>1. /\ UNCHANGED <<build, eidToSockMap, sockets, opening, client, awaited>>
      /\ requestFd' = OfEntries(requestFd)
  BY DEF HandleReceivedMsg, HandleResponse, list
<1>2. \A j \in Key : \/ requestFd'[j] = requestFd[j]
                     \/ requestFd'[j] = NoFd /\ handlers'[j].st # "running"
  BY <1>1 DEF OfEntries
<1>3. CASE /\ handlers' = Erased(handlers, k)
           /\ call' = [key |-> k, live |-> handlers[k].live, answer |-> a]
  <2>1. \A j \in Key : handlers'[j].live => /\ j # k /\ handlers[j].live
                                            /\ handlers'[j].st = handlers[j].st
    BY <1>3 DEF Erased, Absent, SocketsTypeOK, TypeOK
  <2>2. call' \in Call
    BY <1>3 DEF Call, SocketsTypeOK, TypeOK, Entry
  <2>3. LiveIsAwaitedOnly'
    BY <1>1, <1>3, <2>1, <2>2, CallTakesLive, NoneAssumption
  <2> QED BY <1>1, <1>2, <2>1, <2>3, SocketFrame
<1>4. CASE UNCHANGED <<handlers, call>>
  <2>1. LiveIsAwaitedOnly'
    BY <1>1, <1>4 DEF SocketInv, LiveIsAwaitedOnly
  <2> QED BY <1>1, <1>2, <1>4, <2>1, SocketFrame
<1> QED BY <1>3, <1>4 DEF HandleReceivedMsg, HandleResponse

\* What is started late is started on the number it was registered with; if that is
\* open by now, it is the endpoint's socket, as long as the request is live.
LEMMA SocketRemove ==
    ASSUME SocketsTypeOK, SocketInv, NEW k \in Key, RemoveEntry(k)
    PROVE  SocketInv'
<1>1. PICK s \in Start : RemoveRequestEntryAs(k, s) /\ Sendable(s, requestFd)
  BY DEF RemoveEntry
<1> DEFINE H == Erased(handlers, k)
<1>2. /\ UNCHANGED <<build, eidToSockMap, sockets, opening, client, awaited, call>>
      /\ requestFd' = OfEntries(requestFd)
      /\ handlers' = HandlersAfter(H, s)
  BY <1>1 DEF RemoveEntry, RemoveRequestEntryAs, list
<1>3. /\ H \in [Key -> Entry]
      /\ \A j \in Key : /\ H[j].live => handlers[j].live
                        /\ H[j].st = "running" => handlers[j].st = "running"
  BY EntryTypes DEF Erased, Absent, SocketsTypeOK, TypeOK
<1>4. \A j \in Key : handlers'[j].live =>
        /\ handlers[j].live
        /\ handlers'[j].st = "running" => handlers[j].st = "running" \/ requestFd[j] # NoFd
  <2> HIDE DEF H
  <2> SUFFICES ASSUME NEW j \in Key, handlers'[j].live
               PROVE  /\ handlers[j].live
                      /\ handlers'[j].st = "running"
                           => handlers[j].st = "running" \/ requestFd[j] # NoFd
    OBVIOUS
  <2>1. /\ H[j].live
        /\ handlers'[j].st = "running"
             => H[j].st = "running" \/ (s.key = j /\ s.result = "ok")
    BY <1>2, <1>3, StartKeeps
  <2>2. s.key = j /\ s.result = "ok" => requestFd[j] # NoFd
    BY <1>1, StartedOnOpen
  <2> QED BY <1>3, <2>1, <2>2
<1>5. \A j \in Key : \/ requestFd'[j] = requestFd[j]
                     \/ requestFd'[j] = NoFd /\ handlers'[j].st # "running"
  BY <1>2 DEF OfEntries
<1>6. LiveIsAwaitedOnly'
  BY <1>2, <1>4 DEF SocketInv, LiveIsAwaitedOnly
<1> QED BY <1>2, <1>4, <1>5, <1>6, SocketFrame

LEMMA SocketReturn ==
    ASSUME SocketsTypeOK, SocketInv, ReturnFromReceive
    PROVE  SocketInv'
<1>1. PICK s \in Start : ReturnToHandleResponseAs(s) /\ Sendable(s, requestFd)
  BY DEF ReturnFromReceive
<1>2. /\ UNCHANGED <<build, eidToSockMap, sockets, opening, requestFd, client, awaited,
                     call>>
      /\ handlers' = HandlersAfter(handlers, s)
  BY <1>1 DEF ReturnFromReceive, ReturnToHandleResponseAs, sockVars, list
<1>3. handlers \in [Key -> Entry]
  BY DEF SocketsTypeOK, TypeOK
<1>4. \A j \in Key : handlers'[j].live =>
        /\ handlers[j].live
        /\ handlers'[j].st = "running" => handlers[j].st = "running" \/ requestFd[j] # NoFd
  BY <1>1, <1>2, <1>3, StartKeeps, StartedOnOpen
<1>5. LiveIsAwaitedOnly'
  BY <1>2, <1>4 DEF SocketInv, LiveIsAwaitedOnly
<1> QED BY <1>2, <1>4, <1>5, SocketFrame

LEMMA SocketStep ==
    SocketsTypeOK /\ SocketInv /\ [SocketsNext]_allVars => SocketInv'
<1> SUFFICES ASSUME SocketsTypeOK, SocketInv, [SocketsNext]_allVars PROVE SocketInv'
  OBVIOUS
<1>a. ASSUME ListDone, UNCHANGED handlers, opening' \subseteq Known PROVE SocketInv'
  <2>1. \A k \in Key : ~handlers'[k].live
    BY <1>a, RunningClientNoneLive DEF ListDone
  <2>2. opening' \subseteq Known' /\ ManagerKnowsSocket'
    BY <1>a DEF ListDone, DeactivateSockets, Known, ManagerKnowsSocket
  <2> QED BY <2>1, <2>2, NoneLiveFrame
<1>1. CASE EndOfLists
  BY <1>1, <1>a DEF EndOfLists, FinishBatch, list, SocketInv
<1>2. ASSUME NEW e \in Known, NextList(e) PROVE SocketInv'
  BY <1>2, <1>a DEF NextList, BeginList, vars
<1>3. ASSUME NEW S \in SUBSET Known, NEW queue \in BOOLEAN, StartList(S, queue)
      PROVE  SocketInv'
  <2>1. \A k \in Key : ~handlers'[k].live
    BY <1>3, RunningClientNoneLive DEF StartList, StartBatch
  <2>2. opening' \subseteq Known' /\ ManagerKnowsSocket'
    BY <1>3 DEF StartList, BeginList, Known, ManagerKnowsSocket, SocketInv, SocketOf,
                sockets
  <2> QED BY <2>1, <2>2, NoneLiveFrame
<1>4. ASSUME NEW k \in Key, HandleReceivedForeign(k) PROVE SocketInv'
  <2>1. UNCHANGED <<handlers, client, awaited, call, build, eidToSockMap, sockets, opening,
                    requestFd>>
    BY <1>4 DEF HandleReceivedForeign, HandleForeignResponse, list
  <2>2. LiveIsAwaitedOnly'
    BY <2>1 DEF SocketInv, LiveIsAwaitedOnly
  <2> QED BY <2>1, <2>2, SocketFrame
<1>5. CASE RestartDaemon
  <2>1. \A k \in Key : ~handlers'[k].live
    BY <1>5 DEF RestartDaemon, Restart, Absent
  <2>2. opening' \subseteq Known' /\ ManagerKnowsSocket'
    BY <1>5 DEF RestartDaemon, ManagerKnowsSocket
  <2> QED BY <2>1, <2>2, NoneLiveFrame
<1>6. CASE UNCHANGED allVars
  <2>1. UNCHANGED <<handlers, client, awaited, call, build, eidToSockMap, sockets, opening,
                    requestFd>>
    BY <1>6 DEF allVars, vars, sockVars, list
  <2>2. LiveIsAwaitedOnly'
    BY <2>1 DEF SocketInv, LiveIsAwaitedOnly
  <2> QED BY <2>1, <2>2, SocketFrame
<1>7. CASE Coroutine
  BY <1>7, <1>1, <1>2, <1>3, ListsStarted, SocketActivate, SocketSetTime DEF Coroutine
<1>8. CASE Discovery
  BY <1>8, SocketRegister DEF Discovery
<1>9. CASE Events
  BY <1>9, <1>4, SocketHandlerStep, SocketReturn, SocketRetry, SocketExpire, SocketRemove,
     SocketReceive DEF Events
<1> QED BY <1>5, <1>6, <1>7, <1>8, <1>9 DEF SocketsNext

\* A request that is awaited and in flight was sent on the socket of its endpoint,
\* and that is still open, in either build and whatever fails.
THEOREM AwaitedOnItsSocketAlways == SocketsSpec => []AwaitedOnItsSocket
<1>1. SocketsInit => SocketInv
  BY DEF SocketsInit, Init, Absent, SocketInv, LiveIsAwaitedOnly, ManagerKnowsSocket,
         LiveOnItsSocket, AwaitedOnItsSocket, Running
<1>2. SocketInv => AwaitedOnItsSocket
  BY DEF SocketInv
<1> QED BY <1>1, <1>2, SocketStep, SocketsTypeCorrect, PTL DEF SocketsSpec

--------------------------------------------------------------------------------
(* The kernel's socket, when it can be opened and sent on.                 *)

\* Expiry timers start and no answer is late.  Sends may fail as far as Requester is
\* concerned: whether they do, Sendable says.
Steady == StartFaults = {"send"} /\ ~LateAnswers

KernelWorks == build = "kernel" /\ faults = {}

\* Why: what is registered, and what is about to be, has the number of the kernel's
\* socket, which stays open.
KernelFds ==
    /\ \A k \in Registered(handlers) : requestFd[k] = kernelFd /\ kernelFd # NoFd
    /\ \A e \in asking \ opening : eidToFd[e] = kernelFd /\ kernelFd # NoFd

\* What is registered on an open number is sent when runRegisteredRequest starts it.
LEMMA OpenStarts ==
    ASSUME Steady, faults = {},
           NEW H \in [Key -> Entry], NEW e \in EIDs, NEW s \in Starts(H, e),
           NEW fds, Sendable(s, fds),
           \A k \in OfEid(Registered(H), e) : fds[k] \in Open
    PROVE  s.result = "ok"
<1>1. CASE s = Nothing
  BY <1>1 DEF Nothing
<1>2. CASE s.key \in OfEid(Registered(H), e) /\ s.result \in {"ok", "send"}
  <2>1. s.key # None
    BY <1>2, NoneAssumption DEF OfEid, Registered
  <2> QED BY <1>2, <2>1 DEF Sendable
<1> QED BY <1>1, <1>2, StartsCases DEF Steady

LEMMA KernelStarts ==
    ASSUME Steady, KernelWorks, SocketsTypeOK,
           NEW H \in [Key -> Entry], NEW e \in EIDs, NEW s \in Starts(H, e),
           NEW fds, Sendable(s, fds),
           \A k \in Registered(H) : fds[k] = kernelFd /\ kernelFd # NoFd
    PROVE  s.result = "ok"
<1>1. \A k \in OfEid(Registered(H), e) : fds[k] \in Open
  BY DEF OfEid, Open, SocketsTypeOK
<1> QED BY <1>1, OpenStarts DEF KernelWorks

LEMMA KernelFrame ==
    ASSUME KernelFds, UNCHANGED kernelFd,
           \A k \in Key : handlers'[k].st # "absent" =>
                            handlers[k].st # "absent" /\ requestFd'[k] = requestFd[k],
           \A e \in asking' \ opening' : e \in asking \ opening /\ eidToFd'[e] = eidToFd[e]
    PROVE  KernelFds'
BY DEF KernelFds, Registered

\* A request that is registered is sent, with the number of the kernel's socket.
LEMMA KernelSetTime ==
    ASSUME Steady, KernelWorks, SocketsTypeOK, KernelFds, NEW e \in EIDs, SetTimeOnErot(e)
    PROVE  CleanNext /\ KernelFds'
<1>1. PICK i \in Ids, s \in Start :
        /\ SendRecvAs(e, i, s)
        /\ requestFd' = RegisteredFd(e, [eid |-> e, instanceId |-> i])
        /\ Sendable(s, requestFd')
  BY DEF SetTimeOnErot
<1> DEFINE k == [eid |-> e, instanceId |-> i]
           H == Emplaced(handlers, k)
<1>2. /\ k \in Key
      /\ handlers \in [Key -> Entry] /\ H \in [Key -> Entry]
  BY EntryTypes DEF Key, SocketsTypeOK, TypeOK, Emplaced
<1>3. /\ opening = {} /\ e \in asking /\ asking' = asking \ {e}
      /\ UNCHANGED <<opening, kernelFd, eidToFd>>
  BY DEF SetTimeOnErot, sockets
<1>4. eidToFd[e] = kernelFd /\ kernelFd # NoFd
  BY <1>3 DEF KernelFds
<1>5. \A j \in Registered(H) : requestFd'[j] = kernelFd
  <2> SUFFICES ASSUME NEW j \in Key, H[j].st # "absent" PROVE requestFd'[j] = kernelFd
    BY DEF Registered
  <2>1. CASE j # k
    <3>1. requestFd'[j] = requestFd[j]
      BY <1>1, <1>2, <2>1 DEF RegisteredFd, SocketsTypeOK
    <3>2. handlers[j].st # "absent"
      BY <1>2, <2>1 DEF Emplaced
    <3> QED BY <3>1, <3>2 DEF KernelFds, Registered
  <2>2. CASE j = k /\ handlers[k].st = "absent"
    BY <1>1, <1>2, <1>4, <2>2 DEF RegisteredFd, SocketsTypeOK
  <2>3. CASE j = k /\ handlers[k].st # "absent"
    <3>1. requestFd' = requestFd
      BY <1>1, <1>2, <2>3 DEF RegisteredFd
    <3> QED BY <1>2, <2>3, <3>1 DEF KernelFds, Registered
  <2> QED BY <2>1, <2>2, <2>3
<1>6. s \in Starts(H, e)
  BY <1>1 DEF SendRecvAs
<1> HIDE DEF H
<1>7. s.result = "ok"
  BY <1>1, <1>2, <1>4, <1>5, <1>6, KernelStarts
<1>8. handlers' = HandlersAfter(H, s)
  BY <1>1, <1>7 DEF SendRecvAs, H
<1>9. \A j \in Key : handlers'[j].st # "absent" => H[j].st # "absent"
  BY <1>2, <1>6, <1>7, <1>8, StartsClean
<1>10. KernelFds'
  BY <1>3, <1>4, <1>5, <1>9 DEF KernelFds, Registered
<1> QED BY <1>1, <1>7, <1>10 DEF CleanNext

LEMMA KernelActivate ==
    ASSUME KernelWorks, SocketsTypeOK, KernelFds, NEW e \in EIDs, ActivateSocket(e)
    PROVE  KernelFds'
<1>1. /\ opening' = opening \ {e}
      /\ UNCHANGED <<handlers, asking, requestFd>>
  BY DEF ActivateSocket, vars
<1>2. CASE Reuse(e)
  BY <1>1, <1>2 DEF Reuse, SocketOf, KernelWorks, KernelFds, SocketsTypeOK, Registered
<1>3. ASSUME NEW fd \in Fds, InitKernelSocket(fd), eidToFd' = [eidToFd EXCEPT ![e] = fd]
      PROVE  KernelFds'
  <2>1. kernelFd = NoFd /\ kernelFd' = fd /\ fd # NoFd /\ eidToFd'[e] = fd
    BY <1>3 DEF InitKernelSocket, Fds, NoFd, SocketsTypeOK
  <2>2. Registered(handlers) = {} /\ asking \ opening = {}
    BY <2>1 DEF KernelFds
  <2> QED BY <1>1, <2>1, <2>2 DEF KernelFds, Registered
<1>4. ASSUME NEW fd \in Fds, InitDaemonSocket(e, fd) PROVE FALSE
  BY <1>4 DEF InitDaemonSocket, KernelWorks
<1> QED BY <1>2, <1>3, <1>4 DEF ActivateSocket, KernelWorks

\* Every step is one of a Clean environment, or none of the layer's.
LEMMA KernelStep ==
    ASSUME Steady, KernelWorks, SocketsTypeOK, KernelFds, [SocketsNext]_allVars
    PROVE  [CleanNext]_vars /\ KernelFds'
<1> USE DEF sockVars, sockets, list
<1>0. handlers \in [Key -> Entry]
  BY DEF SocketsTypeOK, TypeOK
<1>1. ASSUME NEW e \in EIDs, ActivateSocket(e) PROVE [CleanNext]_vars /\ KernelFds'
  BY <1>1, KernelActivate DEF ActivateSocket
<1>2. ASSUME NEW e \in EIDs, SetTimeOnErot(e) PROVE [CleanNext]_vars /\ KernelFds'
  BY <1>2, KernelSetTime
<1>3. CASE EndOfLists
  BY <1>3, KernelFrame DEF EndOfLists, ListDone, FinishBatch, DeactivateSockets, CleanNext
<1>4. ASSUME NEW S \in SUBSET Known, NEW queue \in BOOLEAN, StartList(S, queue)
      PROVE  [CleanNext]_vars /\ KernelFds'
  BY <1>4, KernelFrame DEF StartList, StartBatch, BeginList, CleanNext
<1>5. ASSUME NEW e \in Known, NextList(e) PROVE [CleanNext]_vars /\ KernelFds'
  BY <1>5, KernelFrame DEF NextList, ListDone, DeactivateSockets, BeginList, vars
<1>6. CASE Discovery
  BY <1>6, KernelFrame DEF Discovery, RegisterMctpEndpoint, vars
<1>7. CASE HandlerStep
  <2>1. ResumeAwaiter \/ DeadHandler \/ ReturnToExpiry
    BY <1>7 DEF HandlerStep
  <2>2. \A k \in Key : handlers'[k].st = handlers[k].st
    BY <1>0, <2>1 DEF ResumeAwaiter, DeadHandler, ReturnToExpiry, Entry
  <2> QED BY <1>7, <2>1, <2>2, KernelFrame DEF HandlerStep, CleanNext
<1>8. CASE ReturnFromReceive
  <2>1. PICK s \in Start : ReturnToHandleResponseAs(s) /\ Sendable(s, requestFd)
    BY <1>8 DEF ReturnFromReceive
  <2>2. /\ s \in Starts(handlers, after.key.eid) /\ handlers' = HandlersAfter(handlers, s)
        /\ after \in After
    BY <2>1 DEF ReturnToHandleResponseAs, SocketsTypeOK, TypeOK
  <2>3. after.key.eid \in EIDs
    BY <2>2 DEF After, Key
  <2>4. s.result = "ok"
    BY <1>0, <2>1, <2>2, <2>3, KernelStarts DEF KernelFds
  <2>5. \A k \in Key : handlers'[k].st # "absent" => handlers[k].st # "absent"
    BY <1>0, <2>2, <2>3, <2>4, StartsClean
  <2> QED BY <1>8, <2>1, <2>4, <2>5, KernelFrame DEF ReturnFromReceive, CleanNext
<1>9. ASSUME NEW k \in Key, RequestRetry(k) PROVE [CleanNext]_vars /\ KernelFds'
  <2>1. \A j \in Key : handlers'[j].st = handlers[j].st
    BY <1>0, <1>9 DEF RequestRetry, RequestRetryCallback, Entry
  <2> QED BY <1>9, <2>1, KernelFrame DEF RequestRetry, CleanNext
<1>10. ASSUME NEW k \in Key, Expire(k) PROVE [CleanNext]_vars /\ KernelFds'
  <2>1. \A j \in Key : handlers'[j].st # "absent" => handlers[j].st # "absent"
    BY <1>0, <1>10 DEF Expire, InstanceIdExpiry, Entry
  <2>2. InstanceIdExpiry(k) /\ (ready' # None => wire'[ready'] # {})
    BY <1>10 DEF Expire, KernelWorks
  <2> QED BY <1>10, <2>1, <2>2, KernelFrame DEF Expire, CleanNext
<1>11. ASSUME NEW k \in Key, RemoveEntry(k) PROVE [CleanNext]_vars /\ KernelFds'
  <2>1. PICK s \in Start : RemoveRequestEntryAs(k, s) /\ Sendable(s, requestFd)
    BY <1>11 DEF RemoveEntry
  <2> DEFINE H == Erased(handlers, k)
  <2>2. /\ H \in [Key -> Entry] /\ k.eid \in EIDs
        /\ \A j \in Key : H[j].st # "absent" => handlers[j].st # "absent"
    BY <1>0, EntryTypes DEF Erased, Absent, Key
  <2>3. s \in Starts(H, k.eid) /\ handlers' = HandlersAfter(H, s)
    BY <2>1 DEF RemoveRequestEntryAs
  <2> HIDE DEF H
  <2>4. s.result = "ok"
    BY <2>1, <2>2, <2>3, KernelStarts DEF KernelFds, Registered
  <2>5. \A j \in Key : handlers'[j].st # "absent" => H[j].st # "absent"
    BY <2>2, <2>3, <2>4, StartsClean
  <2>6. \A j \in Key : handlers'[j].st # "absent" => requestFd'[j] = requestFd[j]
    BY <1>11 DEF RemoveEntry, OfEntries
  <2> QED BY <1>11, <2>1, <2>2, <2>4, <2>5, <2>6, KernelFrame DEF RemoveEntry, CleanNext
<1>12. ASSUME NEW k \in Key, NEW a \in Answer, HandleReceivedMsg(k, a)
       PROVE  [CleanNext]_vars /\ KernelFds'
  <2>1. \A j \in Key : handlers'[j].st # "absent" =>
          handlers[j].st # "absent" /\ requestFd'[j] = requestFd[j]
    BY <1>0, <1>12 DEF HandleReceivedMsg, HandleResponse, Erased, Absent, OfEntries
  <2> QED BY <1>12, <2>1, KernelFrame DEF HandleReceivedMsg, CleanNext
<1>13. ASSUME NEW k \in Key, HandleReceivedForeign(k) PROVE FALSE
  BY <1>13 DEF HandleReceivedForeign, KernelWorks
<1>14. CASE RestartDaemon
  <2>1. \A k \in Key : handlers'[k].st = "absent"
    BY <1>14 DEF RestartDaemon, Restart, Absent
  <2>2. asking' = {}
    BY <1>14 DEF RestartDaemon
  <2> QED BY <1>14, <2>1, <2>2 DEF RestartDaemon, CleanNext, KernelFds, Registered
<1>15. CASE UNCHANGED allVars
  BY <1>15, KernelFrame DEF allVars, vars
<1> QED BY <1>1, <1>2, <1>3, <1>4, <1>5, <1>6, <1>7, <1>8, <1>9, <1>10, <1>11, <1>12,
           <1>13, <1>14, <1>15, ListsStarted DEF SocketsNext, Coroutine, Events

\* With the kernel's socket and nothing failing, the request layer keeps its promises
\* whatever lists are worked off (KernelKeepsPromises of the runs).
THEOREM KernelAlwaysKeepsPromises ==
    ASSUME Steady
    PROVE  SocketsSpec => []KernelKeepsPromises
<1> DEFINE Inv == KernelWorks => KernelFds /\ CleanForm
<1>1. SocketsInit => Inv
  <2>1. SocketsInit => CleanForm
    BY CleanInit DEF SocketsInit
  <2>2. SocketsInit => KernelFds
    BY DEF SocketsInit, Init, KernelFds, Registered, Absent
  <2> QED BY <2>1, <2>2
<1>2. SocketsTypeOK /\ SocketsTypeOK' /\ Inv /\ [SocketsNext]_allVars => Inv'
  <2> SUFFICES ASSUME SocketsTypeOK, SocketsTypeOK', Inv, [SocketsNext]_allVars,
                      KernelWorks'
               PROVE  KernelFds' /\ CleanForm'
    OBVIOUS
  <2>1. KernelWorks
    BY DEF KernelWorks, SocketsNext, Coroutine, ActivateSocket, SetTimeOnErot, EndOfLists,
           HandleMctpEndpoints, HandleTimeChange, StartList, NextList, ListDone, Discovery, RegisterMctpEndpoint, Events,
           HandlerStep, ReturnFromReceive, RequestRetry, Expire, RemoveEntry,
           HandleReceivedMsg, HandleReceivedForeign, RestartDaemon, allVars, sockVars
  <2>2. [CleanNext]_vars /\ KernelFds'
    BY <2>1, KernelStep
  <2>3. TypeOK /\ TypeOK'
    BY DEF SocketsTypeOK
  <2> QED BY <2>1, <2>2, <2>3, CleanStep DEF Steady
<1>3. SocketsTypeOK /\ Inv => KernelKeepsPromises
  BY CleanFormIsInv, CleanHandlerCalled, CleanWakeup
     DEF SocketsTypeOK, KernelWorks, KernelKeepsPromises
<1> HIDE DEF Inv
<1> QED BY <1>1, <1>2, <1>3, SocketsTypeCorrect, PTL DEF SocketsSpec

--------------------------------------------------------------------------------
(* The socket of one demux daemon, when it can be opened and sent on.      *)

OneDaemonWorks == build = "daemon" /\ faults = {} /\ OneAddress

\* Why: the socket has the number 1 whenever it is open, and it is open while an
\* endpoint is to be asked or its answer is awaited.
DaemonFds ==
    /\ kernelFd = NoFd
    /\ \A p \in Paths : socketInfoMap[p] # NoFd =>
         socketInfoMap[p] = 1 /\ \E e \in Known : eidToSockMap[e] = p
    /\ \A k \in Registered(handlers) : requestFd[k] = 1
    /\ \A e \in asking \ opening : eidToFd[e] = 1 /\ 1 \in Open
    /\ client = "waiting" => 1 \in Open

\* And: an endpoint is asked once in a list.  So an answer that was in the socket when a
\* request expired is not of the same endpoint, and handleResponse only comes upon an
\* expired request while another one is awaited.
AskedOnce ==
    /\ awaited # None => awaited.eid \notin asking
    /\ held => /\ client # "none"
               /\ \A k \in Expired : /\ k.eid \notin asking
                                     /\ \A j \in Key : handlers[j].live => j.eid # k.eid
    /\ after # None /\ after.fn = "handleResponse" =>
         \A k \in Expired : k.eid = after.key.eid => client = "waiting" /\ call = None

\* Steps that leave the sockets and the list alone and register nothing
LEMMA DaemonFrame ==
    ASSUME DaemonFds, UNCHANGED <<build, eidToSockMap, sockets, opening, asking>>,
           client' = "waiting" => client = "waiting",
           \A k \in Key : handlers'[k].st # "absent" =>
                            handlers[k].st # "absent" /\ requestFd'[k] = requestFd[k]
    PROVE  DaemonFds'
BY DEF DaemonFds, Registered, Known, Open, sockets

\* Steps that make no request live or expired, and let handleResponse be
LEMMA AskedFrame ==
    ASSUME AskedOnce, UNCHANGED asking, awaited' \in {awaited, None},
           held' => held, client' = "none" => client = "none",
           Expired' \subseteq Expired, Expired \subseteq Key,
           \A k \in Key : handlers'[k].live => handlers[k].live,
           after' = None \/ UNCHANGED <<client, call, after>>
    PROVE  AskedOnce'
BY DEF AskedOnce

\* An endpoint of the list gets the number of the open socket, or opens it as 1.
LEMMA DaemonActivate ==
    ASSUME OneDaemonWorks, SocketsTypeOK, opening \subseteq Known, DaemonFds, AskedOnce,
           NEW e \in EIDs, ActivateSocket(e)
    PROVE  DaemonFds' /\ AskedOnce'
<1> DEFINE p == eidToSockMap[e]
<1>1. /\ client = "running" /\ e \in Known /\ opening' = opening \ {e}
      /\ UNCHANGED <<vars, build, eidToSockMap, asking, requestFd, held>>
  BY DEF ActivateSocket
<1>2. p \in Paths /\ SocketOf(e) = socketInfoMap[p]
  BY <1>1 DEF Known, SocketOf, OneDaemonWorks, SocketsTypeOK
<1>3. AskedOnce'
  BY <1>1 DEF AskedOnce, Expired, vars
<1>4. CASE Reuse(e)
  <2>1. eidToFd' = [eidToFd EXCEPT ![e] = 1] /\ UNCHANGED <<socketInfoMap, kernelFd>>
    BY <1>2, <1>4 DEF Reuse, DaemonFds
  <2>2. socketInfoMap[p] = 1 /\ 1 \in Fds
    BY <1>2, <1>4 DEF Reuse, DaemonFds, SocketsTypeOK, NoFd
  <2>3. 1 \in Open /\ Open' = Open
    BY <1>2, <2>1, <2>2 DEF Open
  <2>4. \A d \in asking' \ opening' : eidToFd'[d] = 1 /\ 1 \in Open'
    BY <1>1, <2>1, <2>3 DEF DaemonFds, SocketsTypeOK
  <2> QED BY <1>1, <1>3, <2>1, <2>3, <2>4 DEF DaemonFds, Known, Registered, vars
<1>5. ASSUME NEW fd \in Fds, InitDaemonSocket(e, fd),
             eidToFd' = [eidToFd EXCEPT ![e] = fd]
      PROVE  DaemonFds'
  <2>1. \A q \in Paths : socketInfoMap[q] = NoFd
    BY <1>1, <1>2, <1>5 DEF InitDaemonSocket, DaemonFds, OneDaemonWorks, OneAddress
  <2>2. Open = {}
    BY <2>1 DEF Open, DaemonFds, Fds, NoFd
  <2>3. fd = 1
    <3>1. 1 \in Fds /\ fd \in Fds
      BY <1>5, SocketAssumption DEF Fds
    <3>2. fd <= 1
      BY <1>5, <2>2, <3>1 DEF InitDaemonSocket, IsNextFd
    <3> QED BY <3>1, <3>2 DEF Fds
  <2>4. /\ socketInfoMap' = [socketInfoMap EXCEPT ![p] = 1] /\ kernelFd' = kernelFd
        /\ socketInfoMap'[p] = 1 /\ 1 \in Fds
    BY <1>2, <1>5, <2>3 DEF InitDaemonSocket, SocketsTypeOK
  <2>5. 1 \in Open'
    BY <1>2, <2>4 DEF Open
  <2>6. asking' \ opening' \subseteq {e} /\ eidToFd'[e] = 1
    BY <1>1, <1>5, <2>2, <2>3 DEF DaemonFds, SocketsTypeOK
  <2>7. \A q \in Paths : socketInfoMap'[q] # NoFd =>
          socketInfoMap'[q] = 1 /\ \E d \in Known' : eidToSockMap'[d] = q
    BY <1>1, <1>2, <2>1, <2>4 DEF Known, SocketsTypeOK
  <2> QED BY <1>1, <2>4, <2>5, <2>6, <2>7 DEF DaemonFds, Registered, vars
<1>6. ASSUME NEW fd \in Fds, InitKernelSocket(fd) PROVE FALSE
  BY <1>6 DEF InitKernelSocket, OneDaemonWorks
<1> QED BY <1>3, <1>4, <1>5, <1>6 DEF ActivateSocket, OneDaemonWorks

\* A request is registered with that number, and what it starts is sent.
LEMMA DaemonSetTime ==
    ASSUME Steady, OneDaemonWorks, SocketsTypeOK, CleanForm, DaemonFds, AskedOnce,
           NEW e \in EIDs, SetTimeOnErot(e)
    PROVE  CleanNext /\ DaemonFds' /\ AskedOnce'
<1>1. PICK i \in Ids, s \in Start :
        /\ SendRecvAs(e, i, s)
        /\ requestFd' = RegisteredFd(e, [eid |-> e, instanceId |-> i])
        /\ Sendable(s, requestFd')
  BY DEF SetTimeOnErot
<1> DEFINE k == [eid |-> e, instanceId |-> i]
           H == Emplaced(handlers, k)
<1>2. /\ k \in Key /\ k.eid = e /\ k # None
      /\ handlers \in [Key -> Entry] /\ H \in [Key -> Entry]
  BY EntryTypes, NoneAssumption DEF Key, SocketsTypeOK, TypeOK, Emplaced
<1>3. /\ opening = {} /\ e \in asking /\ asking' = asking \ {e}
      /\ client = "running" /\ call = None
      /\ UNCHANGED <<build, eidToSockMap, socketInfoMap, kernelFd, eidToFd, opening, held,
                     deferred, ready, call, after>>
  BY <1>1 DEF SetTimeOnErot, SendRecvAs, sockets
<1>4. eidToFd[e] = 1 /\ 1 \in Open
  BY <1>3 DEF DaemonFds
<1>5. \A j \in Registered(H) : requestFd'[j] = 1
  <2> SUFFICES ASSUME NEW j \in Key, H[j].st # "absent" PROVE requestFd'[j] = 1
    BY DEF Registered
  <2>1. CASE j # k
    <3>1. requestFd'[j] = requestFd[j]
      BY <1>1, <1>2, <2>1 DEF RegisteredFd, SocketsTypeOK
    <3>2. handlers[j].st # "absent"
      BY <1>2, <2>1 DEF Emplaced
    <3> QED BY <3>1, <3>2 DEF DaemonFds, Registered
  <2>2. CASE j = k /\ handlers[k].st = "absent"
    BY <1>1, <1>2, <1>4, <2>2 DEF RegisteredFd, SocketsTypeOK
  <2>3. CASE j = k /\ handlers[k].st # "absent"
    <3>1. requestFd' = requestFd
      BY <1>1, <1>2, <2>3 DEF RegisteredFd
    <3> QED BY <1>2, <2>3, <3>1 DEF DaemonFds, Registered
  <2> QED BY <2>1, <2>2, <2>3
<1>6. s \in Starts(H, e)
  BY <1>1 DEF SendRecvAs
<1> HIDE DEF H
<1>7. s.result = "ok"
  BY <1>1, <1>2, <1>4, <1>5, <1>6, OpenStarts DEF OfEid, OneDaemonWorks
<1>8. handlers' = HandlersAfter(H, s) /\ client' = "waiting" /\ awaited' = k
  BY <1>1, <1>7 DEF SendRecvAs, H
<1>9. \A j \in Key : /\ handlers'[j].st # "absent" => H[j].st # "absent"
                     /\ handlers'[j].live = H[j].live
  BY <1>2, <1>6, <1>7, <1>8, StartsClean
<1>10. Open' = Open /\ Known' = Known
  BY <1>3 DEF Open, Known
<1>11. DaemonFds'
  BY <1>3, <1>4, <1>5, <1>9, <1>10 DEF DaemonFds, Registered
<1>12. \A j \in Key : handlers'[j].live => j = k
  <2>1. \A j \in Key : ~handlers[j].live
    BY <1>3, NoneAssumption DEF CleanForm, LiveIsAwaited
  <2> QED BY <1>2, <1>9, <2>1 DEF H, Emplaced
<1>13. Expired' = Expired
  BY <1>3 DEF Expired
<1>14. AskedOnce'
  <2>1. awaited'.eid \notin asking'
    BY <1>2, <1>3, <1>8
  <2>2. held' => \A j \in Expired : /\ j.eid \notin asking'
                                    /\ \A x \in Key : handlers'[x].live => x.eid # j.eid
    BY <1>2, <1>3, <1>12 DEF AskedOnce
  <2>3. after # None /\ after.fn = "handleResponse" =>
           \A j \in Expired : j.eid # after.key.eid
    BY <1>3 DEF AskedOnce
  <2> QED BY <1>3, <1>8, <1>13, <2>1, <2>2, <2>3 DEF AskedOnce
<1> QED BY <1>1, <1>7, <1>11, <1>14 DEF CleanNext

\* The list is done: the client runs, so that no request is awaited, and what the closed
\* sockets held is gone.
LEMMA DaemonListDone ==
    ASSUME OneDaemonWorks, SocketsTypeOK, CleanForm, DaemonFds, AskedOnce,
           ListDone, UNCHANGED <<handlers, deferred, after, awaited, call>>,
           client' # "waiting", asking' \subseteq opening'
    PROVE  DaemonFds' /\ AskedOnce'
<1>1. /\ client = "running" /\ call = None /\ ~held'
      /\ UNCHANGED <<kernelFd, requestFd>>
      /\ \A p \in Paths : socketInfoMap'[p] = NoFd
  BY DEF ListDone, DeactivateSockets, OneDaemonWorks
<1>2. awaited = None
  BY <1>1 DEF CleanForm, LiveIsAwaited
<1>3. DaemonFds'
  BY <1>1 DEF DaemonFds, Registered
<1>4. Expired' = Expired
  BY DEF Expired
<1>5. AskedOnce'
  BY <1>1, <1>2, <1>4 DEF AskedOnce
<1> QED BY <1>3, <1>5

\* A request that expires is the awaited one, and none of its endpoint is still to be
\* asked.
LEMMA DaemonExpire ==
    ASSUME OneDaemonWorks, SocketsTypeOK, CleanForm, DaemonFds, AskedOnce,
           NEW k \in Key, Expire(k)
    PROVE  CleanNext /\ DaemonFds' /\ AskedOnce'
<1>0. handlers \in [Key -> Entry]
  BY DEF SocketsTypeOK, TypeOK
<1>1. /\ InstanceIdExpiry(k) /\ (ready' # None => wire'[ready'] # {})
      /\ UNCHANGED <<build, eidToSockMap, sockets, opening, asking, requestFd>>
  BY DEF Expire, OneDaemonWorks, list
<1>2. /\ deferred = {} /\ after = None /\ handlers[k].st = "running"
      /\ after' = [fn |-> "expiry", key |-> k]
      /\ UNCHANGED <<deferred, client, awaited>>
  BY <1>1 DEF InstanceIdExpiry, Idle
<1>3. Expired = {}
  BY <1>2, NoneAssumption DEF Expired, After
<1>4. handlers[k].live
  BY <1>2, <1>3 DEF CleanForm, OthersExpired, Registered
<1>5. client = "waiting" /\ awaited = k /\ k.eid \notin asking
  BY <1>4, NoneAssumption DEF CleanForm, LiveIsAwaited, AskedOnce
<1>6. \A j \in Key : /\ ~handlers'[j].live
                     /\ handlers'[j].st # "absent" => handlers[j].st # "absent"
  BY <1>0, <1>1, <1>4 DEF InstanceIdExpiry, Entry, CleanForm, LiveIsAwaited
<1>7. DaemonFds'
  BY <1>1, <1>2, <1>6, DaemonFrame
<1>8. Expired' = {k}
  BY <1>2 DEF Expired
<1>9. AskedOnce'
  BY <1>1, <1>2, <1>5, <1>6, <1>8 DEF AskedOnce
<1> QED BY <1>1, <1>7, <1>9 DEF CleanNext

\* What waited behind a request that is removed is the awaited one: the socket is open.
LEMMA DaemonRemove ==
    ASSUME Steady, OneDaemonWorks, SocketsTypeOK, CleanForm, DaemonFds, AskedOnce,
           NEW k \in Key, RemoveEntry(k)
    PROVE  CleanNext /\ DaemonFds' /\ AskedOnce'
<1>1. PICK s \in Start : RemoveRequestEntryAs(k, s) /\ Sendable(s, requestFd)
  BY DEF RemoveEntry
<1> DEFINE H == Erased(handlers, k)
<1>2. /\ H \in [Key -> Entry] /\ k.eid \in EIDs
      /\ \A j \in Key : H[j].st # "absent" => handlers[j].st # "absent" /\ j # k
      /\ \A j \in Key : H[j].live => handlers[j].live
  BY EntryTypes DEF Erased, Absent, Key, SocketsTypeOK, TypeOK
<1>3. /\ s \in Starts(H, k.eid) /\ handlers' = HandlersAfter(H, s)
      /\ k \in Expired /\ Expired' \subseteq Expired
      /\ UNCHANGED <<client, awaited, call, after>>
  BY <1>1 DEF RemoveRequestEntryAs, Expired
<1>4. /\ UNCHANGED <<build, eidToSockMap, sockets, opening, asking>> /\ ~held'
      /\ requestFd' = OfEntries(requestFd)
  BY DEF RemoveEntry, list
<1> HIDE DEF H
<1>5. \A j \in OfEid(Registered(H), k.eid) : requestFd[j] \in Open
  <2> SUFFICES ASSUME NEW j \in Key, H[j].st # "absent" PROVE requestFd[j] \in Open
    BY DEF OfEid, Registered
  <2>1. handlers[j].st # "absent" /\ j # k
    BY <1>2
  <2>2. handlers[j].live
    BY <1>3, <2>1 DEF CleanForm, OthersExpired, Registered
  <2>3. client = "waiting"
    BY <2>2, NoneAssumption DEF CleanForm, LiveIsAwaited
  <2> QED BY <2>1, <2>3 DEF DaemonFds, Registered
<1>6. s.result = "ok"
  BY <1>1, <1>2, <1>3, <1>5, OpenStarts DEF OneDaemonWorks
<1>7. \A j \in Key : /\ handlers'[j].st # "absent" => H[j].st # "absent"
                     /\ handlers'[j].live = H[j].live
  BY <1>2, <1>3, <1>6, StartsClean
<1>8. \A j \in Key : handlers'[j].st # "absent" => requestFd'[j] = requestFd[j]
  BY <1>4 DEF OfEntries
<1>9. DaemonFds'
  BY <1>2, <1>3, <1>4, <1>7, <1>8, DaemonFrame
<1>10. Expired \subseteq Key
  BY DEF Expired, SocketsTypeOK, TypeOK
<1>11. AskedOnce'
  BY <1>2, <1>3, <1>4, <1>7, <1>10, AskedFrame
<1> QED BY <1>1, <1>6, <1>9, <1>11 DEF CleanNext

\* An answer that is read while a request has expired was in the socket before, and is of
\* another endpoint or to no request.
LEMMA DaemonReceive ==
    ASSUME OneDaemonWorks, SocketsTypeOK, CleanForm, DaemonFds, AskedOnce,
           NEW k \in Key, NEW a \in Answer, HandleReceivedMsg(k, a)
    PROVE  CleanNext /\ DaemonFds' /\ AskedOnce'
<1>0. handlers \in [Key -> Entry]
  BY DEF SocketsTypeOK, TypeOK
<1>1. /\ HandleResponse(k, a) /\ Readable(k) /\ requestFd' = OfEntries(requestFd) /\ ~held'
      /\ UNCHANGED <<build, eidToSockMap, sockets, opening, asking>>
  BY DEF HandleReceivedMsg, list
<1>2. /\ Idle /\ (deferred = {} \/ ready = k)
      /\ after' = [fn |-> "handleResponse", key |-> k]
      /\ UNCHANGED <<deferred, client, awaited>>
      /\ \/ handlers[k].st # "absent" /\ handlers' = Erased(handlers, k)
         \/ handlers[k].st = "absent" /\ UNCHANGED <<handlers, call>>
  BY <1>1 DEF HandleResponse
<1>3. \A j \in Key : handlers'[j].st # "absent" =>
        handlers[j].st # "absent" /\ requestFd'[j] = requestFd[j]
  BY <1>0, <1>1, <1>2 DEF Erased, Absent, OfEntries
<1>4. DaemonFds'
  BY <1>1, <1>2, <1>3, DaemonFrame
<1>5. Expired = deferred /\ Expired' = deferred
  BY <1>2, NoneAssumption DEF Expired, After, Idle
<1>6. ASSUME NEW j \in deferred, j.eid = k.eid
      PROVE  client' = "waiting" /\ call' = None
  <2>1. held /\ ready = k
    BY <1>1, <1>2, <1>6 DEF Readable
  <2>2. client = "waiting"
    BY <1>2, <2>1 DEF AskedOnce, Idle, SocketsTypeOK, TypeOK
  <2>3. ~handlers[k].live
    BY <1>5, <1>6, <2>1 DEF AskedOnce
  <2>4. k \notin Expired
    BY <2>1 DEF CleanForm, OthersExpired
  <2>5. handlers[k].st = "absent"
    BY <2>3, <2>4 DEF CleanForm, OthersExpired, Registered
  <2> QED BY <1>2, <2>2, <2>5 DEF Idle
<1>7. AskedOnce'
  BY <1>1, <1>2, <1>5, <1>6 DEF AskedOnce
<1> QED BY <1>1, <1>4, <1>7 DEF CleanNext

\* The rest of handleResponse finds the awaited request, or an expired one while another is
\* awaited: the socket is open.
LEMMA DaemonReturn ==
    ASSUME Steady, OneDaemonWorks, SocketsTypeOK, CleanForm, DaemonFds, AskedOnce,
           ReturnFromReceive
    PROVE  CleanNext /\ DaemonFds' /\ AskedOnce'
<1>0. handlers \in [Key -> Entry] /\ Expired \subseteq Key
  BY DEF SocketsTypeOK, TypeOK, Expired
<1>1. PICK s \in Start : ReturnToHandleResponseAs(s) /\ Sendable(s, requestFd)
  BY DEF ReturnFromReceive
<1>2. /\ after # None /\ after.fn = "handleResponse" /\ after \in After
      /\ s \in Starts(handlers, after.key.eid) /\ handlers' = HandlersAfter(handlers, s)
      /\ after' = None /\ UNCHANGED <<deferred, client, awaited, call>>
  BY <1>1 DEF ReturnToHandleResponseAs, SocketsTypeOK, TypeOK
<1>3. after.key.eid \in EIDs
  BY <1>2 DEF After, Key
<1>4. UNCHANGED <<build, eidToSockMap, sockets, opening, asking, held, requestFd>>
  BY DEF ReturnFromReceive, sockVars, list
<1>5. \A j \in OfEid(Registered(handlers), after.key.eid) : requestFd[j] \in Open
  <2> SUFFICES ASSUME NEW j \in Registered(handlers), j.eid = after.key.eid
               PROVE  requestFd[j] \in Open
    BY DEF OfEid
  <2>1. CASE handlers[j].live
    BY <2>1, NoneAssumption DEF CleanForm, LiveIsAwaited, DaemonFds, Registered
  <2>2. CASE j \in Expired
    BY <1>2, <2>2 DEF AskedOnce, DaemonFds
  <2> QED BY <2>1, <2>2 DEF CleanForm, OthersExpired
<1>6. s.result = "ok"
  BY <1>0, <1>1, <1>2, <1>3, <1>5, OpenStarts DEF OneDaemonWorks
<1>7. \A j \in Key : /\ handlers'[j].st # "absent" => handlers[j].st # "absent"
                     /\ handlers'[j].live = handlers[j].live
  BY <1>0, <1>2, <1>3, <1>6, StartsClean
<1>8. DaemonFds'
  BY <1>2, <1>4, <1>7, DaemonFrame
<1>9. Expired' \subseteq Expired
  BY <1>2, NoneAssumption DEF Expired, After
<1>10. AskedOnce'
  BY <1>0, <1>2, <1>4, <1>7, <1>9, AskedFrame
<1> QED BY <1>1, <1>6, <1>8, <1>10 DEF CleanNext

\* A daemon that starts has registered and opened nothing.
LEMMA DaemonRestart ==
    ASSUME SocketsTypeOK', RestartDaemon, build = "daemon"
    PROVE  CleanForm' /\ DaemonFds' /\ AskedOnce'
<1>1. /\ handlers' = [k \in Key |-> Absent] /\ ids' = [e \in EIDs |-> {}]
      /\ deferred' = {} /\ client' = "none" /\ awaited' = None /\ call' = None
      /\ after' = None /\ asking' = {} /\ kernelFd' = NoFd /\ ~held'
      /\ socketInfoMap' = [p \in Paths |-> NoFd]
  BY DEF RestartDaemon, Restart
<1>2. \A k \in Key : handlers'[k].st = "absent" /\ ~handlers'[k].live
  BY <1>1 DEF Absent
<1>3. Expired' = {}
  BY <1>1, NoneAssumption DEF Expired, After
<1>4. CleanForm'
  <2>1. IdsOf(ids, handlers)'
    BY <1>1, <1>2 DEF IdsOf, Key
  <2>2. LiveIsAwaited'
    BY <1>1, <1>2, NoneAssumption DEF LiveIsAwaited
  <2>3. OthersExpired' /\ QueuedBehindExpired'
    BY <1>2, <1>3 DEF OthersExpired, QueuedBehindExpired, Registered
  <2> QED BY <2>1, <2>2, <2>3 DEF CleanForm
<1>5. DaemonFds'
  BY <1>1, <1>2 DEF DaemonFds, Registered
<1>6. AskedOnce'
  BY <1>1 DEF AskedOnce
<1> QED BY <1>4, <1>5, <1>6

\* Every other step is one of a Clean environment, or none of the layer's.
LEMMA DaemonStep ==
    ASSUME Steady, OneDaemonWorks, SocketsTypeOK, opening \subseteq Known, CleanForm,
           DaemonFds, AskedOnce, [SocketsNext]_allVars, ~RestartDaemon, OneAddress'
    PROVE  [CleanNext]_vars /\ DaemonFds' /\ AskedOnce'
<1> DEFINE Goal == [CleanNext]_vars /\ DaemonFds' /\ AskedOnce'
<1>0. handlers \in [Key -> Entry] /\ Expired \subseteq Key
  BY DEF SocketsTypeOK, TypeOK, Expired
<1>1. ASSUME NEW e \in EIDs, ActivateSocket(e) PROVE Goal
  BY <1>1, DaemonActivate DEF ActivateSocket
<1>2. ASSUME NEW e \in EIDs, SetTimeOnErot(e) PROVE Goal
  BY <1>2, DaemonSetTime
<1>3. CASE EndOfLists
  BY <1>3, DaemonListDone DEF EndOfLists, ListDone, FinishBatch, list, CleanNext
<1>4. ASSUME NEW S \in SUBSET Known, NEW queue \in BOOLEAN, StartList(S, queue)
      PROVE  Goal
  <2>1. /\ client = "none" /\ after = None /\ client' = "running" /\ asking' = opening'
        /\ UNCHANGED <<handlers, deferred, awaited, after, eidToSockMap, sockets, requestFd,
                       held>>
    BY <1>4 DEF StartList, StartBatch, BeginList, Idle
  <2>2. awaited = None /\ ~held
    BY <2>1 DEF CleanForm, LiveIsAwaited, AskedOnce
  <2>3. DaemonFds'
    BY <2>1 DEF DaemonFds, Registered, Known, sockets
  <2>4. AskedOnce'
    BY <2>1, <2>2 DEF AskedOnce
  <2> QED BY <1>4, <2>3, <2>4 DEF StartList, CleanNext
<1>5. ASSUME NEW e \in Known, NextList(e) PROVE Goal
  <2>1. UNCHANGED vars /\ ListDone /\ asking' = opening'
    BY <1>5 DEF NextList, BeginList
  <2> QED BY <2>1, DaemonListDone DEF vars, ListDone
<1>6. ASSUME NEW e \in EIDs, NEW p \in Paths, RegisterMctpEndpoint(e, p) PROVE Goal
  <2>1. /\ UNCHANGED <<vars, build, sockets, opening, asking, requestFd, held>>
        /\ eidToSockMap[e] = None /\ eidToSockMap' = [eidToSockMap EXCEPT ![e] = p]
    BY <1>6 DEF RegisterMctpEndpoint, list
  <2>2. \A d \in Known : d \in Known' /\ eidToSockMap'[d] = eidToSockMap[d]
    BY <2>1, SocketAssumption DEF Known, SocketsTypeOK
  <2>3. Open' = Open /\ Expired' = Expired
    BY <2>1 DEF Open, Expired, sockets, vars
  <2>4. DaemonFds'
    BY <2>1, <2>2, <2>3 DEF DaemonFds, Registered, sockets, vars
  <2>5. AskedOnce'
    BY <2>1, <2>3 DEF AskedOnce, vars
  <2> QED BY <2>1, <2>4, <2>5
<1>7. CASE HandlerStep
  <2>1. /\ ResumeAwaiter \/ ReturnToExpiry
        /\ UNCHANGED <<build, eidToSockMap, sockets, opening, asking, requestFd, held>>
    BY <1>7 DEF HandlerStep, DeadHandler, CleanForm, LiveIsAwaited, sockVars, list
  <2>2. /\ client' = "waiting" => client = "waiting"
        /\ UNCHANGED handlers
    BY <2>1 DEF ResumeAwaiter, ReturnToExpiry
  <2>3. DaemonFds'
    BY <2>1, <2>2, DaemonFrame
  <2>4. AskedOnce'
    <3>1. CASE ResumeAwaiter
      <4>1. /\ call # None /\ client' = "running" /\ awaited' = None
            /\ Expired' = Expired /\ UNCHANGED <<handlers, after>>
        BY <3>1 DEF ResumeAwaiter, Expired
      <4> QED BY <2>1, <4>1 DEF AskedOnce
    <3>2. CASE ReturnToExpiry
      <4>1. after \in After /\ after.fn = "expiry"
        BY <3>2 DEF ReturnToExpiry, SocketsTypeOK, TypeOK
      <4>2. after = [fn |-> "expiry", key |-> after.key] /\ after.key \in Key
        BY <4>1 DEF After
      <4>3. /\ Expired' \subseteq Expired /\ after' = None
            /\ UNCHANGED <<handlers, client, awaited>>
        BY <3>2, <4>2, NoneAssumption DEF ReturnToExpiry, Expired, After
      <4> QED BY <1>0, <2>1, <4>3, AskedFrame
    <3> QED BY <2>1, <3>1, <3>2
  <2> QED BY <2>1, <2>3, <2>4 DEF CleanNext
<1>8. ASSUME NEW k \in Key, RequestRetry(k) PROVE Goal
  <2>1. /\ UNCHANGED <<build, eidToSockMap, sockets, opening, asking, requestFd, held,
                       client, awaited, call, after, deferred>>
        /\ \A j \in Key : /\ handlers'[j].st = handlers[j].st
                          /\ handlers'[j].live = handlers[j].live
    BY <1>0, <1>8 DEF RequestRetry, RequestRetryCallback, Entry, sockVars, list
  <2>2. Expired' = Expired
    BY <2>1 DEF Expired
  <2>3. DaemonFds'
    BY <2>1, DaemonFrame
  <2>4. AskedOnce'
    BY <1>0, <2>1, <2>2, AskedFrame
  <2> QED BY <1>8, <2>3, <2>4 DEF RequestRetry, CleanNext
<1>9. ASSUME NEW k \in Key, HandleReceivedForeign(k) PROVE FALSE
  BY <1>9 DEF HandleReceivedForeign, OneDaemonWorks
<1>10. CASE UNCHANGED allVars
  <2>1. Expired' = Expired /\ Open' = Open /\ Known' = Known
    BY <1>10 DEF allVars, vars, sockVars, sockets, Expired, Open, Known
  <2> QED BY <1>10, <2>1 DEF allVars, vars, sockVars, sockets, list, DaemonFds, AskedOnce,
                             Registered
<1> QED BY <1>1, <1>2, <1>3, <1>4, <1>5, <1>6, <1>7, <1>8, <1>9, <1>10, DaemonExpire,
           DaemonRemove, DaemonReceive, DaemonReturn, ListsStarted
        DEF SocketsNext, Coroutine, Discovery, Events

\* With one demux daemon's socket and nothing failing, the request layer keeps its promises
\* too, however often the socket is closed and opened again (OneDaemonKeepsPromises of the
\* runs).
THEOREM OneDaemonAlwaysKeepsPromises ==
    ASSUME Steady
    PROVE  SocketsSpec => []OneDaemonKeepsPromises
<1> DEFINE Inv == OneDaemonWorks => CleanForm /\ DaemonFds /\ AskedOnce
<1>1. SocketsInit => Inv
  <2>1. SocketsInit => CleanForm
    BY CleanInit DEF SocketsInit
  <2>2. SocketsInit => DaemonFds /\ AskedOnce
    BY DEF SocketsInit, Init, DaemonFds, AskedOnce, Registered, Absent
  <2> QED BY <2>1, <2>2
<1>2. SocketsTypeOK /\ SocketsTypeOK' /\ SocketInv /\ Inv /\ [SocketsNext]_allVars => Inv'
  <2> SUFFICES ASSUME SocketsTypeOK, SocketsTypeOK', SocketInv, Inv, [SocketsNext]_allVars,
                      OneDaemonWorks'
               PROVE  CleanForm' /\ DaemonFds' /\ AskedOnce'
    OBVIOUS
  <2>1. build = "daemon" /\ faults = {}
    BY DEF OneDaemonWorks, SocketsNext, Coroutine, ActivateSocket, SetTimeOnErot,
           EndOfLists, HandleMctpEndpoints, HandleTimeChange, StartList, NextList,
           ListDone, Discovery, RegisterMctpEndpoint,
           Events, HandlerStep, ReturnFromReceive, RequestRetry, Expire, RemoveEntry,
           HandleReceivedMsg, HandleReceivedForeign, RestartDaemon, allVars, sockVars
  <2>2. CASE RestartDaemon
    BY <2>1, <2>2, DaemonRestart
  <2>3. CASE ~RestartDaemon
    <3>1. \A e \in Known : e \in Known' /\ eidToSockMap'[e] = eidToSockMap[e]
      BY <2>3, SocketAssumption
         DEF Known, SocketsTypeOK, SocketsNext, Coroutine, ActivateSocket, SetTimeOnErot,
             EndOfLists, HandleMctpEndpoints, HandleTimeChange, StartList, NextList,
             ListDone, Discovery, RegisterMctpEndpoint,
             Events, HandlerStep, ReturnFromReceive, RequestRetry, Expire, RemoveEntry,
             HandleReceivedMsg, HandleReceivedForeign, allVars, sockVars
    <3>2. OneDaemonWorks /\ OneAddress'
      BY <2>1, <3>1 DEF OneDaemonWorks, OneAddress
    <3>3. [CleanNext]_vars /\ DaemonFds' /\ AskedOnce'
      BY <2>3, <3>2, DaemonStep DEF SocketInv
    <3> QED BY <3>2, <3>3, CleanStep DEF Steady, SocketsTypeOK
  <2> QED BY <2>2, <2>3
<1>3. SocketsTypeOK /\ Inv => OneDaemonKeepsPromises
  BY CleanFormIsInv, CleanHandlerCalled, CleanWakeup
     DEF SocketsTypeOK, OneDaemonWorks, OneDaemonKeepsPromises
<1>4. SocketsInit => SocketInv
  BY DEF SocketsInit, Init, Absent, SocketInv, LiveIsAwaitedOnly, ManagerKnowsSocket,
         LiveOnItsSocket, AwaitedOnItsSocket, Running
<1> HIDE DEF Inv
<1> QED BY <1>1, <1>2, <1>3, <1>4, SocketStep, SocketsTypeCorrect, PTL DEF SocketsSpec

================================================================================
