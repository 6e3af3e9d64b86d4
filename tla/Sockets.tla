-------------------------------- MODULE Sockets --------------------------------
(***************************************************************************)
(* The sockets of the erot-time-manager daemon under its request layer:    *)
(*   mctp_socket::Handler     registers endpoints, opens sockets for a     *)
(*                            list of endpoints, closes them afterwards,   *)
(*                            receives: DaemonHandler, one socket for each *)
(*                            MCTP demux daemon, InKernelHandler, one      *)
(*                            socket that stays open                       *)
(*   mctp_socket::Manager     the descriptor an endpoint is asked on       *)
(*   setTimeOnErots           works off a list of endpoints: for a time    *)
(*                            change once, in handleMctpEndpointsTask for  *)
(*                            list after list of the queue                 *)
(*                                                                         *)
(* Each action is an action of Requester with what happens to the sockets, *)
(* or leaves the request layer alone.  Whether a message can be sent is no *)
(* longer anybody's choice: a request keeps the number of the descriptor   *)
(* it was registered with, and can be sent if that is open.                *)
(***************************************************************************)
EXTENDS Requester, Integers

CONSTANTS
    Paths,          \* socket addresses of the demux daemons
    MaxFd,          \* descriptors are 1 .. MaxFd
    Builds,         \* the builds looked at: MCTP_IN_KERNEL or not
    SocketFaults,   \* what may go wrong by itself: opening a socket, sending on
                    \* it, answers that are meant for other requesters
    MaxLists        \* bound on the lists of one run of the daemon

ASSUME SocketAssumption ==
    /\ MaxFd \in Nat /\ MaxLists \in Nat
    /\ Builds \subseteq {"daemon", "kernel"}
    /\ SocketFaults \subseteq {"open", "send", "foreign"}
    /\ "send" \in StartFaults
    /\ ForeignIds <=> "foreign" \in SocketFaults
    /\ None \notin Paths

VARIABLES
    build, faults,  \* the build, and the faults that it meets
    eidToSockMap,   \* Handler::eidToSockMap
    socketInfoMap,  \* Handler::socketInfoMap, 0 when the address is not in it
    kernelFd,       \* InKernelHandler::fd, 0 while it is not valid
    eidToFd,        \* Manager::eidToFd
    opening,        \* endpoints of the list activateSockets has not come to
    asking,         \* endpoints of the list that are still to be asked
    lists,          \* lists since the daemon started
    fromQueue,      \* is the list one of the queue?
    requestFd,      \* DaemonRequest::fd of the entries of "handlers", 0 without
    held            \* does its socket still hold the answer that is "ready"?

sockets == <<socketInfoMap, kernelFd, eidToFd>>
list    == <<opening, asking, lists, fromQueue>>
sockVars == <<build, faults, eidToSockMap, sockets, list, requestFd, held>>

Fds == 1 .. MaxFd

\* The descriptor operator[] makes up for an endpoint Manager does not know: 0,
\* the standard input of the daemon, which is not a socket.
NoFd == 0

Open == {fd \in Fds : fd = kernelFd \/ \E p \in Paths : socketInfoMap[p] = fd}

\* The socket that messages of the endpoint go through, if it is open
SocketOf(e) ==
    IF build = "kernel" THEN kernelFd
    ELSE IF eidToSockMap[e] = None THEN NoFd
    ELSE socketInfoMap[eidToSockMap[e]]

SocketsInit ==
    /\ Init
    /\ build \in Builds /\ faults \in {{}, SocketFaults}
    /\ eidToSockMap = [e \in EIDs |-> None]
    /\ socketInfoMap = [p \in Paths |-> NoFd]
    /\ kernelFd = NoFd
    /\ eidToFd = [e \in EIDs |-> NoFd]
    /\ opening = {} /\ asking = {} /\ lists = 0 /\ fromQueue = FALSE
    /\ requestFd = [k \in Key |-> NoFd]
    /\ held = FALSE

--------------------------------------------------------------------------------
(* Handler::registerMctpEndpoint, activateSockets, deactivateSockets       *)

\* Discovery tells the address of an endpoint.  The first one stays.
RegisterMctpEndpoint(e, p) ==
    /\ Idle
    /\ eidToSockMap[e] = None
    /\ eidToSockMap' = [eidToSockMap EXCEPT ![e] = p]
    /\ UNCHANGED <<vars, build, faults, sockets, list, requestFd, held>>

\* socket() returns the lowest descriptor that is free.
IsNextFd(fd) == fd \in Fds \ Open /\ \A f \in Fds \ Open : fd <= f

\* initSocket, for an address without a socket
InitDaemonSocket(e, fd) ==
    /\ build = "daemon" /\ SocketOf(e) = NoFd
    /\ IsNextFd(fd)
    /\ socketInfoMap' = [socketInfoMap EXCEPT ![eidToSockMap[e]] = fd]
    /\ UNCHANGED kernelFd
InitKernelSocket(fd) ==
    /\ build = "kernel" /\ kernelFd = NoFd
    /\ IsNextFd(fd)
    /\ kernelFd' = fd
    /\ UNCHANGED socketInfoMap

\* Deviations: a socket that is open is not registered again; what initSocket
\* returns is not looked at.
ReuseUnregistered(e) == SocketOf(e) # NoFd /\ UNCHANGED sockets
SkipUnchecked(e) ==
    /\ SocketOf(e) = NoFd
    /\ eidToFd' = [eidToFd EXCEPT ![e] = -1]
    /\ UNCHANGED <<socketInfoMap, kernelFd>>

\* One endpoint of activateSockets: its socket is open, or it is opened now, or it
\* cannot be opened, and nobody is told.
Reuse(e) ==
    /\ SocketOf(e) # NoFd
    /\ eidToFd' = [eidToFd EXCEPT ![e] = SocketOf(e)]
    /\ UNCHANGED <<socketInfoMap, kernelFd>>

Skip(e) == SocketOf(e) = NoFd /\ UNCHANGED sockets

ActivateSocket(e) ==
    /\ client = "running" /\ call = None
    /\ e \in opening
    /\ opening' = opening \ {e}
    /\ \/ Reuse(e)
       \/ \E fd \in Fds : /\ InitDaemonSocket(e, fd) \/ InitKernelSocket(fd)
                          /\ eidToFd' = [eidToFd EXCEPT ![e] = fd]
       \/ "open" \in faults /\ Skip(e)
    /\ UNCHANGED <<vars, build, faults, eidToSockMap, asking, lists, fromQueue, requestFd,
                   held>>

\* Deviation: the sockets are closed, the registrations stay.
CloseOnly ==
    /\ socketInfoMap' = [p \in Paths |-> NoFd]
    /\ held' = (held /\ build = "kernel")
    /\ UNCHANGED <<kernelFd, eidToFd>>

\* The sockets of the daemons are closed with what they hold; the kernel's stays.
DeactivateSockets ==
    /\ socketInfoMap' = [p \in Paths |-> NoFd]
    /\ eidToFd' = [e \in EIDs |-> NoFd]
    /\ held' = (held /\ build = "kernel")
    /\ UNCHANGED kernelFd

--------------------------------------------------------------------------------
(* The coroutine: setTimeOnErots, once or for list after list              *)

Known == {e \in EIDs : eidToSockMap[e] # None}

BeginList(S) ==
    /\ lists < MaxLists
    /\ lists' = lists + 1
    /\ opening' = S /\ asking' = S

StartList(S, queue) ==
    /\ S # {}
    /\ StartBatch
    /\ BeginList(S)
    /\ fromQueue' = queue
    /\ UNCHANGED <<build, faults, eidToSockMap, sockets, requestFd, held>>

\* The signal of an endpoint starts the coroutine that works off the queue, whose lists
\* have one endpoint each: that of a signal.  A time change makes one list of any
\* endpoints, and its coroutine ends with that.
HandleMctpEndpoints(e) == StartList({e}, TRUE)
HandleTimeChange(S) == StartList(S, FALSE)

\* Can the request s starts be sent on the descriptor it was registered with?
Sendable(s, fds) ==
    s.key # None =>
        IF fds[s.key] \in Open THEN s.result = "send" => "send" \in faults
        ELSE s.result = "send"

\* The descriptors of the entries that are left
OfEntries(fds) == [k \in Key |-> IF handlers'[k].st = "absent" THEN NoFd ELSE fds[k]]

\* registerRequest asks Manager for the socket, and drops the number with the
\* request when the key is still in the map.
RegisteredFd(e, k) ==
    IF handlers[k].st = "absent" THEN [requestFd EXCEPT ![k] = eidToFd[e]]
    ELSE requestFd

\* An endpoint whose instance IDs are all in use is not asked: the code throws.
SetTimeOnErot(e) ==
    /\ opening = {} /\ e \in asking
    /\ asking' = asking \ {e}
    /\ \E i \in Ids, s \in Start :
         /\ SendRecvAs(e, i, s)
         /\ requestFd' = RegisteredFd(e, [eid |-> e, instanceId |-> i])
         /\ Sendable(s, requestFd')
    /\ UNCHANGED <<build, faults, eidToSockMap, sockets, opening, lists, fromQueue, held>>

\* The list is done: the sockets are closed.  The coroutine ends, or takes the next
\* list off the queue if it is the one that does.
ListDone ==
    /\ client = "running" /\ call = None
    /\ opening = {} /\ asking = {}
    /\ DeactivateSockets
    /\ UNCHANGED <<build, faults, eidToSockMap, requestFd>>
EndOfLists ==
    /\ ListDone
    /\ FinishBatch
    /\ fromQueue' = FALSE
    /\ UNCHANGED <<opening, asking, lists>>
NextList(e) ==
    /\ fromQueue
    /\ ListDone
    /\ BeginList({e})
    /\ UNCHANGED <<vars, fromQueue>>

--------------------------------------------------------------------------------
(* The event handlers                                                      *)

HandlerStep ==
    /\ ResumeAwaiter \/ DeadHandler \/ ReturnToExpiry
    /\ UNCHANGED sockVars

RequestRetry(k) == RequestRetryCallback(k) /\ UNCHANGED sockVars

Expire(k) ==
    /\ InstanceIdExpiry(k)
    /\ ready' # None => wire'[ready'] # {} \/ "foreign" \in faults
    /\ held' = (ready' # None)
    /\ UNCHANGED <<build, faults, eidToSockMap, sockets, list, requestFd>>

RemoveEntry(k) ==
    /\ \E s \in Start : RemoveRequestEntryAs(k, s) /\ Sendable(s, requestFd)
    /\ requestFd' = OfEntries(requestFd)
    /\ held' = FALSE
    /\ UNCHANGED <<build, faults, eidToSockMap, sockets, list>>

\* A socket of the endpoint has something to read.
Readable(k) == SocketOf(k.eid) # NoFd /\ (deferred = {} \/ held)

\* handleReceivedMsg: a socket has an answer.  One that is in time comes where
\* its request was sent; a late one on whatever connects to the daemon by then.
HandleReceivedMsg(k, a) ==
    /\ Readable(k)
    /\ handlers[k].st = "absent" \/ LateAnswers \/ requestFd[k] = SocketOf(k.eid)
    /\ HandleResponse(k, a)
    /\ requestFd' = OfEntries(requestFd)
    /\ held' = FALSE
    /\ UNCHANGED <<build, faults, eidToSockMap, sockets, list>>
HandleReceivedForeign(k) ==
    /\ "foreign" \in faults
    /\ Readable(k)
    /\ HandleForeignResponse(k)
    /\ held' = FALSE
    /\ UNCHANGED <<build, faults, eidToSockMap, sockets, list, requestFd>>

\* The rest of handleResponse.  Its socket may be gone by now, with the event
\* source it was called from.
ReturnFromReceive ==
    /\ \E s \in Start : ReturnToHandleResponseAs(s) /\ Sendable(s, requestFd)
    /\ UNCHANGED sockVars

\* The daemon dies, or ends because a demux daemon has closed its socket; systemd
\* starts it again.
RestartDaemon ==
    /\ Restart
    /\ eidToSockMap' = [e \in EIDs |-> None]
    /\ socketInfoMap' = [p \in Paths |-> NoFd]
    /\ kernelFd' = NoFd
    /\ eidToFd' = [e \in EIDs |-> NoFd]
    /\ opening' = {} /\ asking' = {} /\ lists' = 0 /\ fromQueue' = FALSE
    /\ requestFd' = [k \in Key |-> NoFd]
    /\ held' = FALSE
    /\ UNCHANGED <<build, faults>>

--------------------------------------------------------------------------------
Coroutine ==
    \/ \E e \in EIDs : ActivateSocket(e) \/ SetTimeOnErot(e)
    \/ EndOfLists
    \/ \E e \in Known : HandleMctpEndpoints(e) \/ NextList(e)
    \/ \E S \in SUBSET Known : HandleTimeChange(S)
Discovery == \E e \in EIDs, p \in Paths : RegisterMctpEndpoint(e, p)
Events ==
    \/ HandlerStep \/ ReturnFromReceive
    \/ \E k \in Key :
         \/ RequestRetry(k) \/ Expire(k) \/ RemoveEntry(k)
         \/ \E a \in Answer : HandleReceivedMsg(k, a)
         \/ HandleReceivedForeign(k)

SocketsNext == Coroutine \/ Discovery \/ Events \/ RestartDaemon

allVars == <<vars, sockVars>>

SocketsSpec == SocketsInit /\ [][SocketsNext]_allVars

\* As for Requester: code runs on, expiry timers elapse, Defers are dispatched.
SocketsFairSpec ==
    /\ SocketsSpec
    /\ WF_allVars(HandlerStep \/ ReturnFromReceive)
    /\ \A k \in Key : WF_allVars(Expire(k)) /\ WF_allVars(RemoveEntry(k))

--------------------------------------------------------------------------------
(* Properties                                                              *)

SocketsTypeOK ==
    /\ TypeOK
    /\ build \in Builds /\ faults \subseteq SocketFaults
    /\ eidToSockMap \in [EIDs -> Paths \cup {None}]
    /\ socketInfoMap \in [Paths -> Fds \cup {NoFd}]
    /\ kernelFd \in Fds \cup {NoFd}
    /\ eidToFd \in [EIDs -> Fds \cup {NoFd}]
    /\ opening \subseteq EIDs /\ asking \subseteq EIDs
    /\ lists \in 0 .. MaxLists
    /\ fromQueue \in BOOLEAN
    /\ requestFd \in [Key -> Fds \cup {NoFd}]
    /\ held \in BOOLEAN

\* A request that is awaited and in flight was sent on the socket of its endpoint,
\* and that socket is still open.  Descriptors are closed and their numbers given
\* to other sockets all the time, sockets fail to open, and requests are queued
\* with a number and sent later (handler.hpp:163, socket_handler.hpp:70-105).
AwaitedOnItsSocket ==
    \A k \in Running(handlers) :
        handlers[k].live => requestFd[k] = SocketOf(k.eid) /\ requestFd[k] # NoFd

\* Why: an invariant that every step keeps.  A live entry is the awaited one, and
\* none is live any more when its response handler is called; Manager knows the
\* open socket of an endpoint or none; a request that is queued has that number, or
\* one that nothing can be sent on.
LiveIsAwaitedOnly ==
    /\ \A k \in Key : handlers[k].live => client = "waiting" /\ awaited = k
    /\ call # None /\ call.live => \A k \in Key : ~handlers[k].live

ManagerKnowsSocket ==
    \A e \in EIDs : eidToFd[e] # NoFd => eidToFd[e] = SocketOf(e)

LiveOnItsSocket ==
    \A k \in Key : handlers[k].live => requestFd[k] \in {NoFd, SocketOf(k.eid)}

SocketInv ==
    /\ opening \subseteq Known
    /\ LiveIsAwaitedOnly /\ ManagerKnowsSocket /\ LiveOnItsSocket
    /\ AwaitedOnItsSocket

\* With the kernel's socket, and as long as it can be opened and sent on, the
\* request layer keeps its promises (handler.hpp:65-72).
KernelKeepsPromises ==
    build = "kernel" /\ faults = {} => HandlerCalledOnce /\ WakeupPending

\* The endpoints known so far are those of one demux daemon.
OneAddress == \A e, f \in Known : eidToSockMap[e] = eidToSockMap[f]

\* And so it does with the socket of one demux daemon, although that is closed and opened
\* again with every list: there is no other socket to take its number
\* (socket_handler.hpp:70-105, socket_handler.cpp:37-89).
OneDaemonKeepsPromises ==
    build = "daemon" /\ faults = {} /\ OneAddress => HandlerCalledOnce /\ WakeupPending

\* Then a coroutine that waits goes on.
KernelAnswers ==
    (build = "kernel" /\ faults = {} /\ client = "waiting") ~> client # "waiting"

================================================================================
