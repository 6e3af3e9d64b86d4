------------------------------- MODULE Requester -------------------------------
(***************************************************************************)
(* The request/response layer of the erot-time-manager daemon:             *)
(*   requester::Handler<T>        registered requests, the instance ID     *)
(*                                expiry timer and the deferred removal    *)
(*   requester::RequestRetryTimer transmission and retries                 *)
(*   requester::SendRecvMctpVdmMsg the awaiter that suspends a coroutine   *)
(*                                until its response handler is called     *)
(*   mctp_vdm::InstanceIdMgr      instance IDs (module InstanceIds)        *)
(* with one client coroutine, which asks one endpoint after the other, and *)
(* the MCTP endpoints that answer, late or not at all.                     *)
(*                                                                         *)
(* The daemon is single threaded.  An event handler runs to completion,    *)
(* but it calls the response handler in its middle, and that resumes the   *)
(* client, which may register its next request before the handler goes on: *)
(* "call" is the call being made, "after" is where the event handler goes  *)
(* on when the client has suspended again.                                 *)
(***************************************************************************)
EXTENDS InstanceIds

CONSTANTS
    EIDs,           \* MCTP endpoint IDs
    NumRetries,     \* numCommandRetries, 3 in the code
    RetryModulus,   \* 256: numRetries is a uint8_t
    ExpiryPeriods,  \* instance ID expiry / response timeout: 15 s / 5 s = 3
    StartFaults,    \* what may fail in Handler::runRegisteredRequest
    LateAnswers,    \* may answers come after the request they answer is over?
    ForeignIds,     \* do other requesters' answers reach this daemon's sockets?
    None

Faults == {"send", "retryTimer", "expiryTimer"}

ASSUME RetryAssumption ==
    /\ RetryModulus \in Nat \ {0}
    /\ NumRetries \in 0 .. (RetryModulus - 1)
    /\ ExpiryPeriods \in Nat

ASSUME EnvironmentAssumption ==
    /\ StartFaults \subseteq Faults
    /\ LateAnswers \in BOOLEAN
    /\ ForeignIds \in BOOLEAN

\* RequestKey; the daemon sends one type and one command only
Key == [eid : EIDs, instanceId : Ids]

\* An element of the map "handlers".  st: not in the map, in it with the expiry
\* timer stopped, in it with the expiry timer running.  live: the awaiter its
\* response handler is bound to still waits.  retry: the retry timer is armed;
\* left is RequestRetryTimer::numRetries.  fired: retry callbacks since start.
Entry == [st    : {"absent", "queued", "running"},
          live  : BOOLEAN,
          retry : BOOLEAN,
          left  : 0 .. (RetryModulus - 1),
          fired : 0 .. ExpiryPeriods]

\* An answer on its way: to the request now registered under the key, or to an
\* earlier request that had the same key.
Answer == {"own", "earlier"}

\* A response handler being called: the request, whether its awaiter still waits,
\* and the answer it is given.  An event handler that is to go on after the call.
Call  == [key : Key, live : BOOLEAN, answer : Answer \cup {"none"}]
After == [fn : {"handleResponse", "expiry"}, key : Key]

ASSUME NoneAssumption == None \notin Key \cup Call \cup After

VARIABLES
    handlers,   \* Handler::handlers
    ids,        \* InstanceIdMgr::ids, for each endpoint the numbers in use
    deferred,   \* Handler::removeRequestContainer
    ready,      \* the answer a socket already held when a Defer was queued
    client,     \* the coroutine: none, running, or waiting in SendRecvMctpVdmMsg
    awaited,    \* the key of the request it waits for
    call,       \* the response handler being called, with what
    after,      \* the rest of the event handler that makes the call
    wire        \* answers on their way to this daemon

vars == <<handlers, ids, deferred, ready, client, awaited, call, after, wire>>

Absent  == [st |-> "absent", live |-> FALSE, retry |-> FALSE,
            left |-> NumRetries, fired |-> 0]
NewEntry == [Absent EXCEPT !.st = "queued", !.live = TRUE]

Registered(H) == {k \in Key : H[k].st # "absent"}
Running(H)    == {k \in Key : H[k].st = "running"}
OfEid(S, e)   == {k \in S : k.eid = e}

\* No event handler is on the stack: the event loop may dispatch.
Idle == client # "running" /\ call = None /\ after = None

--------------------------------------------------------------------------------
(* Handler::runRegisteredRequest                                           *)

\* RequestRetryTimer: is there a retry left, for which the timer is armed?
MoreRetries(ent) == ent.left # 0

\* What a call may start, with the outcome.
Start == [key : Key \cup {None}, result : {"ok"} \cup Faults]

\* The call finds nothing to do.
Nothing == [key |-> None, result |-> "ok"]

\* Deviation: a second request of an endpoint in flight.
StartsAnother(H, e) ==
    IF OfEid(Registered(H), e) = {} THEN {Nothing}
    ELSE [key : OfEid(Registered(H), e), result : {"ok"}]

\* What the call finds to do: nothing, or one request of the endpoint, whichever
\* the unordered map yields first, with the outcome of starting it.
Starts(H, e) ==
    IF OfEid(Running(H), e) # {} \/ OfEid(Registered(H), e) = {}
    THEN {Nothing}
    ELSE {s \in [key : OfEid(Registered(H), e), result : {"ok"} \cup StartFaults] :
            s.result = "retryTimer" => MoreRetries(H[s.key])}

\* Deviation: the expiry timer is never started.
StartedWithoutExpiry(ent, result) ==
    IF result = "ok" THEN [ent EXCEPT !.retry = MoreRetries(ent)] ELSE ent

\* RequestRetryTimer::start and the start of the expiry timer
Started(ent, result) ==
    CASE result = "ok" ->
           [ent EXCEPT !.st = "running", !.retry = MoreRetries(ent), !.fired = 0]
      [] result = "expiryTimer" -> [ent EXCEPT !.retry = MoreRetries(ent)]
      [] OTHER -> ent

HandlersAfter(H, s) ==
    IF s.key = None THEN H ELSE [H EXCEPT ![s.key] = Started(@, s.result)]

\* Deviation: the timers are stopped but the entry stays in the map.
OnlyStopped(H, k) == [H EXCEPT ![k] = [@ EXCEPT !.st = "queued", !.retry = FALSE]]

\* handlers.erase: the entry goes, with its timers.
Erased(H, k) == [H EXCEPT ![k] = Absent]

\* On failure the instance ID is freed; the entry stays in the map.
IdsAfter(I, s) ==
    IF s.result = "ok" THEN I
    ELSE [I EXCEPT ![s.key.eid] = MarkFree(@, s.key.instanceId)]

\* A transmitted request may be answered.
WireAfter(W, s) ==
    IF s.key = None \/ s.result = "send" THEN W
    ELSE [W EXCEPT ![s.key] = @ \cup {"own"}]

--------------------------------------------------------------------------------
(* The client coroutine                                                    *)

Init ==
    /\ handlers = [k \in Key |-> Absent]
    /\ ids = [e \in EIDs |-> {}]
    /\ deferred = {}
    /\ ready = None
    /\ client = "none"
    /\ awaited = None
    /\ call = None
    /\ after = None
    /\ wire = [k \in Key |-> {}]

\* An event handler creates the coroutine, which starts at once.
StartBatch ==
    /\ Idle
    /\ client = "none"
    /\ client' = "running"
    /\ UNCHANGED <<handlers, ids, deferred, ready, awaited, call, after, wire>>

\* handlers.emplace does nothing when the key is in the map.
Emplaced(H, k) == IF H[k].st = "absent" THEN [H EXCEPT ![k] = NewEntry] ELSE H

\* getInstanceId returns i, then co_await SendRecvMctpVdmMsg: registerRequest and
\* runRegisteredRequest, which starts s.  On failure the coroutine does not suspend,
\* and the awaiter of the entry it leaves is gone.
SendRecvAs(e, i, s) ==
    /\ client = "running" /\ call = None
    /\ IsNextId(ids[e], i)
    /\ LET k == [eid |-> e, instanceId |-> i]
           H == Emplaced(handlers, k)
           I == [ids EXCEPT ![e] = @ \cup {i}]
           W == IF handlers[k].st = "absent" /\ wire[k] # {}
                THEN [wire EXCEPT ![k] = {"earlier"}] ELSE wire
       IN /\ s \in Starts(H, e)
          /\ ids' = IdsAfter(I, s)
          /\ wire' = WireAfter(W, s)
          /\ \/ /\ s.result = "ok"
                /\ handlers' = HandlersAfter(H, s)
                /\ client' = "waiting"
                /\ awaited' = k
             \/ /\ s.result # "ok"
                /\ handlers' = [HandlersAfter(H, s) EXCEPT ![k].live = FALSE]
                /\ UNCHANGED <<client, awaited>>
    /\ UNCHANGED <<deferred, ready, call, after>>

SendRecv(e) == \E i \in Ids, s \in Start : SendRecvAs(e, i, s)

\* The coroutine returns to whoever resumed it.
FinishBatch ==
    /\ client = "running" /\ call = None
    /\ client' = "none"
    /\ UNCHANGED <<handlers, ids, deferred, ready, awaited, call, after, wire>>

\* SendRecvMctpVdmMsg::handleResponse: keeps the answer and resumes.
ResumeAwaiter ==
    /\ call # None /\ call.live
    /\ client = "waiting"
    /\ client' = "running"
    /\ awaited' = None
    /\ call' = None
    /\ UNCHANGED <<handlers, ids, deferred, ready, after, wire>>

\* The same handler when its awaiter is gone: undefined behaviour.  The call has
\* no effect, or it resumes the coroutine that now waits (the frame is reused).
\* The third outcome, a crash, is Restart.
DeadHandler ==
    /\ call # None /\ ~call.live
    /\ call' = None
    /\ \/ UNCHANGED <<client, awaited, handlers>>
       \/ /\ client = "waiting"
          /\ client' = "running"
          /\ awaited' = None
          /\ handlers' = [k \in Key |-> [handlers[k] EXCEPT !.live = FALSE]]
    /\ UNCHANGED <<ids, deferred, ready, after, wire>>

--------------------------------------------------------------------------------
(* The event handlers                                                      *)

\* Deviations: the counter does not wrap; the retry is not counted.
PlainDecrement(n) == n - 1
NotDecremented(n) == n

\* The post-decrement of the uint8_t numRetries.
Decrement(n) == IF n = 0 THEN RetryModulus - 1 ELSE n - 1

\* RequestRetryTimer::callback.  A Defer is dispatched before any timer that
\* elapses after it was queued, and no more than ExpiryPeriods of these fit in
\* the life of the expiry timer.
RequestRetryCallback(k) ==
    /\ Idle /\ deferred = {}
    /\ handlers[k].st # "absent" /\ handlers[k].retry
    /\ handlers[k].st = "running" => handlers[k].fired < ExpiryPeriods
    /\ LET h == handlers[k]
       IN handlers' = [handlers EXCEPT
            ![k] = [h EXCEPT !.left  = Decrement(@),
                             !.retry = MoreRetries(h),
                             !.fired = IF h.st = "running" THEN @ + 1 ELSE @]]
    /\ wire' = IF MoreRetries(handlers[k])
               THEN [wire EXCEPT ![k] = @ \cup {"own"}] ELSE wire
    /\ UNCHANGED <<ids, deferred, ready, client, awaited, call, after>>

\* The callback of the expiry timer, up to its call of the response handler.
\* Answers that the sockets already hold may be read before the Defer runs.
InstanceIdExpiry(k) ==
    /\ Idle /\ deferred = {}
    /\ handlers[k].st = "running"
    /\ handlers' = [handlers EXCEPT
         ![k] = [@ EXCEPT !.st = "queued", !.live = FALSE, !.retry = FALSE]]
    /\ call' = [key |-> k, live |-> handlers[k].live, answer |-> "none"]
    /\ after' = [fn |-> "expiry", key |-> k]
    /\ wire' = IF LateAnswers THEN wire ELSE [wire EXCEPT ![k] = {}]
    /\ ready' \in {j \in Key : wire'[j] # {} \/ ForeignIds} \cup {None}
    /\ UNCHANGED <<ids, deferred, client, awaited>>

\* The rest of that callback: the entry is to be removed by a Defer.
ReturnToExpiry ==
    /\ after # None /\ after.fn = "expiry" /\ call = None /\ client # "running"
    /\ deferred' = deferred \cup {after.key}
    /\ after' = None
    /\ UNCHANGED <<handlers, ids, ready, client, awaited, call, wire>>

\* Deviations: the Defer stays in its container; the next request is not started.
RemoveAndKeepDefer(k) ==
    /\ Idle
    /\ k \in deferred
    /\ ready' = None
    /\ handlers' = Erased(handlers, k)
    /\ ids' = [ids EXCEPT ![k.eid] = MarkFree(@, k.instanceId)]
    /\ UNCHANGED <<deferred, client, awaited, call, after, wire>>
RemoveAndRunNothing(k) ==
    /\ Idle
    /\ k \in deferred
    /\ deferred' = deferred \ {k}
    /\ ready' = None
    /\ handlers' = Erased(handlers, k)
    /\ ids' = [ids EXCEPT ![k.eid] = MarkFree(@, k.instanceId)]
    /\ UNCHANGED <<client, awaited, call, after, wire>>

\* Handler::removeRequestEntry, the callback of the Defer, which starts s.
RemoveRequestEntryAs(k, s) ==
    /\ Idle
    /\ k \in deferred
    /\ deferred' = deferred \ {k}
    /\ ready' = None
    /\ LET H == Erased(handlers, k)
           I == [ids EXCEPT ![k.eid] = MarkFree(@, k.instanceId)]
       IN /\ s \in Starts(H, k.eid)
          /\ handlers' = HandlersAfter(H, s)
          /\ ids' = IdsAfter(I, s)
          /\ wire' = WireAfter(wire, s)
    /\ UNCHANGED <<client, awaited, call, after>>

RemoveRequestEntry(k) == \E s \in Start : RemoveRequestEntryAs(k, s)

\* Handler::handleResponse, up to its call of the response handler.  Retries may
\* be answered too: late ones of these stay on the wire.
HandleResponse(k, a) ==
    /\ Idle
    /\ deferred = {} \/ ready = k
    /\ a \in wire[k]
    /\ ready' = None
    /\ ids' = [ids EXCEPT ![k.eid] = MarkFree(@, k.instanceId)]
    /\ \E rest \in {{}} \cup (IF LateAnswers THEN {wire[k], wire[k] \ {a}} ELSE {}) :
          wire' = [wire EXCEPT ![k] = rest]
    /\ after' = [fn |-> "handleResponse", key |-> k]
    /\ \/ /\ handlers[k].st # "absent"
          /\ handlers' = Erased(handlers, k)
          /\ call' = [key |-> k, live |-> handlers[k].live, answer |-> a]
       \/ /\ handlers[k].st = "absent"
          /\ UNCHANGED <<handlers, call>>
    /\ UNCHANGED <<deferred, client, awaited>>

\* The same handler on the answer to another requester's message: its type or
\* command differ, so it is never in the map, but its instance ID is freed.
HandleForeignResponse(k) ==
    /\ ForeignIds
    /\ Idle
    /\ deferred = {} \/ ready = k
    /\ ready' = None
    /\ ids' = [ids EXCEPT ![k.eid] = MarkFree(@, k.instanceId)]
    /\ after' = [fn |-> "handleResponse", key |-> k]
    /\ UNCHANGED <<handlers, deferred, client, awaited, call, wire>>

\* The rest of handleResponse: runRegisteredRequest, which starts s.
ReturnToHandleResponseAs(s) ==
    /\ after # None /\ after.fn = "handleResponse" /\ call = None
    /\ client # "running"
    /\ s \in Starts(handlers, after.key.eid)
    /\ handlers' = HandlersAfter(handlers, s)
    /\ ids' = IdsAfter(ids, s)
    /\ wire' = WireAfter(wire, s)
    /\ after' = None
    /\ UNCHANGED <<deferred, ready, client, awaited, call>>

ReturnToHandleResponse == \E s \in Start : ReturnToHandleResponseAs(s)

\* The daemon dies and systemd starts it again (Restart=always).
Restart ==
    /\ handlers' = [k \in Key |-> Absent]
    /\ ids' = [e \in EIDs |-> {}]
    /\ deferred' = {}
    /\ ready' = None
    /\ client' = "none"
    /\ awaited' = None
    /\ call' = None
    /\ after' = None
    /\ wire' = IF LateAnswers THEN wire ELSE [k \in Key |-> {}]

--------------------------------------------------------------------------------
Client  == StartBatch \/ FinishBatch \/ (\E e \in EIDs : SendRecv(e))
Handler == ResumeAwaiter \/ DeadHandler \/ ReturnToExpiry \/ ReturnToHandleResponse
Timer   == \E k \in Key : \/ RequestRetryCallback(k)
                          \/ InstanceIdExpiry(k)
                          \/ RemoveRequestEntry(k)
Socket  == \E k \in Key : \/ \E a \in Answer : HandleResponse(k, a)
                          \/ HandleForeignResponse(k)

Next == Client \/ Handler \/ Timer \/ Socket \/ Restart

Spec == Init /\ [][Next]_vars

\* The daemon is never stuck inside an event handler, an armed expiry timer
\* elapses and a queued Defer is dispatched.  Nothing is assumed of the
\* endpoints, of the retry timer or of the client's next step.
Fairness ==
    /\ WF_vars(Handler)
    /\ \A k \in Key : WF_vars(InstanceIdExpiry(k)) /\ WF_vars(RemoveRequestEntry(k))

FairSpec == Spec /\ Fairness

--------------------------------------------------------------------------------
(* Properties                                                              *)

\* Every variable has its type, whatever fails (handler.hpp:271-299).
TypeOK ==
    /\ handlers \in [Key -> Entry]
    /\ ids \in [EIDs -> SUBSET Ids]
    /\ deferred \subseteq Key
    /\ ready \in Key \cup {None}
    /\ client \in {"none", "running", "waiting"}
    /\ awaited \in Key \cup {None}
    /\ call \in Call \cup {None}
    /\ after \in After \cup {None}
    /\ wire \in [Key -> SUBSET Answer]

\* No endpoint ever has two requests in flight, whatever fails and whenever the
\* answers come (handler.hpp:188-192 "A MCTP VDM request for the EID is running").
OneInFlight ==
    \A j, k \in Running(handlers) : j.eid = k.eid => j = k

\* While a request is awaited, the retries it has had and those it has left add
\* up to numRetries as long as its retry timer is armed: the uint8_t counter does
\* not wrap and the endpoint is sent at most 1 + numRetries messages
\* (request.hpp:110-120).
RetryBudget ==
    \A k \in Key :
        handlers[k].live /\ handlers[k].st = "running" /\ handlers[k].retry
          => handlers[k].left + handlers[k].fired = NumRetries

\* A response handler is called for the request the client waits for and for no
\* other: never twice, never after its coroutine went on (handler.hpp:67-72).
HandlerCalledOnce ==
    call # None => call.live /\ client = "waiting" /\ call.key = awaited

\* A client that waits will be woken: its response handler is being called, or it
\* is registered and its request is in flight or queued behind something that
\* will run it: a request of the endpoint in flight, a removal, or the rest of
\* the event handler (handler.hpp:175-227, 268, 314).
WakeupPending ==
    client = "waiting" =>
        \/ call # None /\ call.key = awaited
        \/ /\ handlers[awaited].live
           /\ \/ \E k \in Running(handlers) \cup deferred : k.eid = awaited.eid
              \/ after # None /\ after.key.eid = awaited.eid

\* The instance IDs in use are those of the registered requests: none leaks, and
\* none is free, to be handed out again, while its key is in the map
\* (handler.hpp:48-51, 257, 310).
IdsInStep ==
    \A e \in EIDs : ids[e] = {k.instanceId : k \in OfEid(Registered(handlers), e)}

\* An endpoint never holds more than two instance IDs, the request that waits and
\* an expired one to be removed: getInstanceId never throws TooManyResources
\* (instance_id.hpp:65-85).
TwoIdsSuffice ==
    \A e \in EIDs : \A i, j, k \in ids[e] : i = j \/ j = k \/ i = k

\* What a Defer removes is the expired request it was queued for, never a request
\* that was registered under the same key since (handler.hpp:148-151, 305-315).
RemovalHitsExpired ==
    \A k \in deferred : handlers[k].st # "absent" /\ ~handlers[k].live

\* The environment in which the layer keeps its promises: nothing fails at the
\* start of a request, an answer comes in time or not at all, and nobody else
\* uses the endpoints.
Clean == StartFaults = {} /\ ~LateAnswers /\ ~ForeignIds

\* Requests whose interval has ended and whose entry is still in the map: the one
\* in the middle of its expiry callback, and those a Defer is to remove.
Expired == deferred \cup {k \in Key : after = [fn |-> "expiry", key |-> k]}

\* Why the promises hold when the environment is Clean: an invariant that every
\* step keeps.  Only the awaited request has a live handler; every other entry in
\* the map is an expired one, of which there is one at most, and no answer to it
\* can be read before it is removed (handler.hpp:126-161, 238-269, 305-315).
LiveIsAwaited ==
    /\ client = "waiting" <=> awaited # None
    /\ \A k \in Key : handlers[k].live <=> awaited = k /\ call = None
    /\ \A k \in Key : handlers[k].live => handlers[k].st # "absent"
    /\ call # None => after # None /\ call.live /\ call.key = awaited

OthersExpired ==
    /\ \A k \in Expired : /\ handlers[k].st # "absent" /\ ~handlers[k].live
                          /\ k # ready
                          /\ \A j \in Expired : j = k
    /\ \A k \in Registered(handlers) : handlers[k].live \/ k \in Expired

QueuedBehindExpired ==
    \A k \in Key : handlers[k].live /\ handlers[k].st = "queued"
                    => \E j \in Expired : j.eid = k.eid

CleanInv == IdsInStep /\ LiveIsAwaited /\ OthersExpired /\ QueuedBehindExpired

\* A client that waits goes on, with or without an answer (handler.hpp:70-72).
EventuallyAnswered == client = "waiting" ~> client # "waiting"

\* The layer keeps the contract its documentation states (handler.hpp:65-72), when
\* asked and outcome are read off the awaited key and the call being made.
Asked(k)   == IF k = None THEN None ELSE k.eid
Outcome(c) == IF c = None THEN "open"
              ELSE IF c.answer = "none" THEN "silent" ELSE "answered"

Contract == INSTANCE RequestContract WITH
    asked <- Asked(awaited), outcome <- Outcome(call)

ContractSpec == Contract!Spec

================================================================================
