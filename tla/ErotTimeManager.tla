---------------------------- MODULE ErotTimeManager ----------------------------
(***************************************************************************)
(* ErotTimeManager of the erot-time-manager daemon: it sends the BMC's     *)
(* time to every ERoT that is discovered and, when the BMC's time is       *)
(* changed, to every ERoT it knows.  One coroutine does the sending, the   *)
(* one setErotTimeHandle refers to: setTimeOnErots when a time change      *)
(* created it, handleMctpEndpointsTask when a discovery did.               *)
(*                                                                         *)
(* The request layer is its contract (RequestContract, which Requester     *)
(* implements) and the coroutine is the contract's client.  The daemon is  *)
(* single threaded: an event handler that creates the coroutine goes on    *)
(* when the coroutine has suspended or ended.                              *)
(***************************************************************************)
EXTENDS Naturals, Sequences

CONSTANTS
    EIDs,           \* MCTP endpoint IDs of ERoTs
    UUIDs,          \* the ERoTs; one may have several endpoints
    UuidOf,         \* the ERoT an endpoint belongs to
    Rank,           \* mediumPriority of an endpoint: the lowest is preferred
    Garbage,        \* what else a freed vector of endpoint IDs may be read as
    Outcomes,       \* how a request may end
    Faults,         \* what may fail before a request is sent
    Calm,           \* what the environment refrains from: "hurry" is a change of the
                    \* time before all is at rest and the interval has passed,
                    \* "overlap" a discovery while a change waits or is handled
    MaxTime,        \* bound on the times of the BMC
    MaxSignals,     \* bound on the discoveries of one run of the daemon
    None

ASSUME ErotAssumption ==
    /\ UuidOf \in [EIDs -> UUIDs]
    /\ Rank \in [EIDs -> Nat]
    /\ Outcomes \subseteq {"success", "unsupported", "error", "silence"}
    /\ Faults \subseteq {"elapsed", "send"}
    /\ Calm \subseteq {"hurry", "overlap"}
    /\ MaxTime \in Nat \ {0} /\ MaxSignals \in Nat
    /\ None \notin EIDs \cup Garbage

VARIABLES
    client, asked, outcome,  \* of the contract
    time,       \* the BMC's time, as the number of the change that set it
    changed,    \* the timerfd was cancelled by a change not handled yet
    recent,     \* is erotTimeSyncLast less than EROT_TIME_SYNC_INTERVAL ago?
    known,      \* mctpInfoMap, as the set of its endpoints
    queue,      \* queuedMctpInfos, each as the set of its endpoints
    task,       \* what the coroutine is, as long as there is one
    rest,       \* endpoints of the list at hand that are still to be asked
    elapsed,    \* the time it sends
    handling,   \* handleTimeChange has created it and not returned
    signals,    \* discoveries since the daemon started
    unsent,     \* the times in requests that could not be sent: they stay in "handlers"
    erot        \* the time each ERoT was last set to, 0 if never

Contract == INSTANCE RequestContract WITH EIDs <- EIDs \cup Garbage

contract == <<client, asked, outcome>>
bmc  == <<time, changed>>
work == <<task, rest, elapsed>>
vars == <<contract, bmc, work, recent, known, queue, handling, signals, unsent, erot>>

Init ==
    /\ Contract!Init
    /\ time = 1 /\ changed = FALSE
    /\ recent \in BOOLEAN   \* erotTimeSyncLast starts as the boot
    /\ known = {} /\ queue = <<>> /\ signals = 0
    /\ task = "none" /\ rest = {} /\ elapsed = 0 /\ handling = FALSE
    /\ unsent = [e \in EIDs |-> {}]
    /\ erot = [u \in UUIDs |-> 0]

\* The event loop may dispatch.
Idle == ~handling /\ client # "running"

\* Nothing is under way, and nothing waits.
AtRest == ~handling /\ client = "none" /\ ~changed /\ queue = <<>>

\* Deviations: the time rounded up; the time of the boot.
NowRoundedUp == time + 1
BootTime == 1

\* The BMC's time: system_clock::now(), and what Elapsed is over D-Bus.
Now == time
Elapsed == time

\* setTimeOnErots holds a reference to a local vector of handleTimeChange: when
\* that has returned, the vector is gone.
Dangling == task = "timeChange" /\ ~handling

\* What an element of eids is read as: undefined behaviour once it is gone.
Read(e) == {e} \cup IF Dangling THEN Garbage ELSE {}

--------------------------------------------------------------------------------
(* The BMC's clock                                                         *)

TimeChanges ==
    /\ time < MaxTime
    /\ "hurry" \in Calm => AtRest /\ ~recent
    /\ time' = time + 1
    /\ changed' = TRUE
    /\ UNCHANGED <<contract, work, recent, known, queue, handling, signals, unsent, erot>>

IntervalElapses ==
    /\ recent
    /\ recent' = FALSE
    /\ UNCHANGED <<contract, bmc, work, known, queue, handling, signals, unsent, erot>>

--------------------------------------------------------------------------------
(* Event handlers                                                          *)

\* Endpoints of an ERoT in mctpInfoMap, and the one its priority queue has on top
OfErot(u) == {e \in known : UuidOf[e] = u}
Top(u) == {e \in OfErot(u) : \A f \in OfErot(u) : Rank[e] <= Rank[f]}

\* Deviation: the ERoTs that were told a time before are left out.
UntoldTops == {{e \in known : e \in Top(UuidOf[e]) /\ erot[UuidOf[e]] = 0}}

\* The list handleTimeChange makes: one endpoint of each ERoT.
Tops == {S \in SUBSET known :
           \A u \in UUIDs : Top(u) # {} => \E e \in Top(u) : S \cap OfErot(u) = {e}}

\* handleTimeChange, when the change is dropped: within the interval, and as long
\* as the coroutine waits.
SkipTimeChange ==
    /\ Idle /\ changed
    /\ recent \/ client = "waiting"
    /\ changed' = FALSE
    /\ UNCHANGED <<contract, time, work, recent, known, queue, handling, signals, unsent, erot>>

\* handleTimeChange, up to the start of setTimeOnErots
HandleTimeChange ==
    /\ Idle /\ changed /\ ~recent
    /\ Contract!Start
    /\ changed' = FALSE
    /\ handling' = TRUE
    /\ task' = "timeChange" /\ elapsed' = Now
    /\ rest' \in Tops
    /\ UNCHANGED <<time, recent, known, queue, signals, unsent, erot>>

\* and from its suspension or its end: the attempt counts, whatever becomes of it.
ReturnToHandleTimeChange ==
    /\ handling /\ client # "running"
    /\ handling' = FALSE
    /\ recent' = TRUE
    /\ UNCHANGED <<contract, bmc, work, known, queue, signals, unsent, erot>>

\* handleMctpEndpoints remembers the endpoints S and queues them.
QueueEndpoints(S) ==
    /\ Idle
    /\ signals < MaxSignals
    /\ "overlap" \in Calm => ~changed /\ task # "timeChange"
    /\ signals' = signals + 1
    /\ known' = known \cup S
    /\ queue' = Append(queue, S)
    /\ UNCHANGED <<bmc, recent, handling, unsent, erot>>

\* That is all as long as the coroutine waits: it will find them in the queue, if
\* it is handleMctpEndpointsTask.
HandleMctpEndpointsBusy(S) ==
    /\ client = "waiting"
    /\ QueueEndpoints(S)
    /\ UNCHANGED <<contract, work>>

\* Otherwise it starts handleMctpEndpointsTask, which reads Elapsed once and takes
\* the first list of the queue; or Elapsed cannot be read, and the queue stays.
HandleMctpEndpoints(S) ==
    /\ client = "none"
    /\ QueueEndpoints(S)
    /\ \/ /\ Contract!Start
          /\ task' = "endpoints" /\ elapsed' = Elapsed
          /\ rest' = Head(queue')
       \/ /\ "elapsed" \in Faults
          /\ UNCHANGED <<contract, work>>

--------------------------------------------------------------------------------
(* The coroutine                                                           *)

\* setTimeOnErot for the next element of eids
Ask(e) ==
    /\ e \in rest
    /\ \E a \in Read(e) : Contract!Ask(a)
    /\ rest' = rest \ {e}
    /\ UNCHANGED <<bmc, task, elapsed, recent, known, queue, handling, signals, unsent, erot>>

\* The same, when the request cannot be sent, such as for want of a socket.  Its
\* entry stays in "handlers" under the number it frees; the next one of the endpoint
\* has that number, and then emplace does nothing.
AskFails(e) ==
    /\ "send" \in Faults
    /\ client = "running" /\ e \in rest
    /\ \E a \in Read(e) :
         IF a \in EIDs
         THEN unsent' \in {[unsent EXCEPT ![a] = @ \cup {elapsed}]}
                          \cup (IF unsent[a] # {} THEN {unsent} ELSE {})
         ELSE UNCHANGED unsent
    /\ rest' = rest \ {e}
    /\ UNCHANGED <<contract, bmc, task, elapsed, recent, known, queue, handling, signals, erot>>

Decide ==
    /\ Contract!Decide
    /\ IF outcome' = "silent" THEN "silence" \in Outcomes ELSE Outcomes # {"silence"}
    /\ UNCHANGED <<bmc, work, recent, known, queue, handling, signals, unsent, erot>>

\* What the endpoint is sent: the request awaited, or one that stayed in "handlers".
Sent(a) == {elapsed} \cup IF a \in EIDs THEN unsent[a] ELSE {}

\* The ERoT of an endpoint has set its clock to what it was sent.
Told(a, t) == IF a \in EIDs THEN [erot EXCEPT ![UuidOf[a]] = t] ELSE erot

\* createErrorLog forgets an ERoT that does not support the command, with all its
\* endpoints.
Forget(a) == IF a \in known THEN known \ OfErot(UuidOf[a]) ELSE known

\* What comes of a request to endpoint a with the time t and the outcome o.  Without an
\* answer it may have reached the ERoT, by now.  After a failure eids is read again.
Handled(a, o, t) ==
    \/ /\ o = "answered" /\ "success" \in Outcomes
       /\ erot' = Told(a, t)
       /\ UNCHANGED known
    \/ /\ o = "answered" /\ "unsupported" \in Outcomes
       /\ \E b \in Read(a) : known' = Forget(b)
       /\ UNCHANGED erot
    \/ /\ o = "answered" /\ "error" \in Outcomes
       /\ UNCHANGED <<known, erot>>
    \/ /\ o = "silent"
       /\ erot' \in {erot, Told(a, t)}
       /\ UNCHANGED known

\* The response handler resumes the coroutine.  Of what stayed in "handlers", t was
\* sent, and others before it may have been.
Resume ==
    /\ Contract!Resume
    /\ \E t \in Sent(asked) :
         /\ Handled(asked, outcome, t)
         /\ IF asked \in EIDs
            THEN \E left \in SUBSET (unsent[asked] \ {t}) :
                    unsent' = [unsent EXCEPT ![asked] = left]
            ELSE UNCHANGED unsent
    /\ UNCHANGED <<bmc, work, recent, queue, handling, signals>>

\* Deviation: the list at hand was taken off the queue before, so that this takes
\* off the next one.
NextListPopsTwice ==
    /\ client = "running" /\ rest = {}
    /\ task = "endpoints" /\ Len(queue) > 2
    /\ queue' = Tail(Tail(queue))
    /\ rest' = Head(queue')
    /\ UNCHANGED <<contract, bmc, task, elapsed, recent, known, handling, signals, unsent, erot>>

\* handleMctpEndpointsTask: the list is done, and another one waits.
NextList ==
    /\ client = "running" /\ rest = {}
    /\ task = "endpoints" /\ Len(queue) > 1
    /\ queue' = Tail(queue)
    /\ rest' = Head(queue')
    /\ UNCHANGED <<contract, bmc, task, elapsed, recent, known, handling, signals, unsent, erot>>

\* Deviation: the loop over the queue ends after one list.
EndTaskAfterOne ==
    /\ rest = {}
    /\ Contract!Finish
    /\ task' = "none"
    /\ queue' = IF task = "endpoints" THEN Tail(queue) ELSE queue
    /\ UNCHANGED <<bmc, rest, elapsed, recent, known, handling, signals, unsent, erot>>

\* The last list is done.  setTimeOnErots knows nothing of the queue.
EndTask ==
    /\ rest = {}
    /\ Contract!Finish
    /\ task' = "none"
    /\ IF task = "endpoints" THEN Len(queue) = 1 /\ queue' = <<>> ELSE UNCHANGED queue
    /\ UNCHANGED <<bmc, rest, elapsed, recent, known, handling, signals, unsent, erot>>

\* systemd starts the daemon again (Restart=always).  Its erotTimeSyncLast is the
\* boot: the interval has not passed only if it had not before.
Restart ==
    /\ Contract!Restart
    /\ changed' = FALSE
    /\ recent' \in {recent, FALSE}
    /\ known' = {} /\ queue' = <<>> /\ signals' = 0
    /\ task' = "none" /\ rest' = {} /\ elapsed' = 0 /\ handling' = FALSE
    /\ unsent' = [e \in EIDs |-> {}]
    /\ UNCHANGED <<time, erot>>

--------------------------------------------------------------------------------
Coroutine == NextList \/ EndTask \/ Resume \/ \E e \in EIDs : Ask(e) \/ AskFails(e)
EventHandler == SkipTimeChange \/ HandleTimeChange \/ ReturnToHandleTimeChange
\* What MctpDiscovery finds: the endpoint of a signal, if it is usable.  Its constructor
\* hands over an empty list, because it calls GetSubTree without the arguments.
Found == {{}} \cup {{e} : e \in EIDs}
Discovery == \E S \in Found : HandleMctpEndpointsBusy(S) \/ HandleMctpEndpoints(S)

Next == \/ Coroutine \/ EventHandler \/ Discovery \/ Decide
        \/ TimeChanges \/ IntervalElapses \/ Restart

Spec == Init /\ [][Next]_vars

\* Code runs on, the event loop dispatches, and the request layer keeps its
\* promise; nothing is assumed of discoveries and time changes.
FairSpec == Spec /\ WF_vars(Coroutine) /\ WF_vars(EventHandler) /\ WF_vars(Decide)

--------------------------------------------------------------------------------
(* Properties                                                              *)

\* The variables have their types.
TypeOK ==
    /\ Contract!TypeOK
    /\ time \in 1 .. MaxTime /\ elapsed \in 0 .. MaxTime
    /\ changed \in BOOLEAN /\ recent \in BOOLEAN /\ handling \in BOOLEAN
    /\ known \subseteq EIDs /\ rest \subseteq EIDs
    /\ queue \in Seq(SUBSET EIDs)
    /\ signals \in 0 .. MaxSignals
    /\ task \in {"none", "timeChange", "endpoints"}
    /\ unsent \in [EIDs -> SUBSET (0 .. MaxTime)]
    /\ erot \in [UUIDs -> 0 .. MaxTime]

\* Each task carries the time it read when it started, over any number of requests
\* and lists.  Still no ERoT is set back to an older time after a newer one, whatever
\* fails, but by a request that an earlier task could not send and left behind.  (A
\* message takes effect while its request is awaited.)
NeverSetBack ==
    [][\A u \in UUIDs :
         \/ erot'[u] >= erot[u]
         \/ \E e \in EIDs : UuidOf[e] = u /\ erot'[u] \in unsent[e]]_vars

\* An endpoint that was discovered stays queued until its ERoT was told a time: no
\* list gets lost between the tasks, although they share one queue and one handle.
\* (Where requests succeed.)
NoneLost ==
    \A e \in known : erot[UuidOf[e]] = 0 => \E i \in DOMAIN queue : e \in queue[i]

\* "to update EROT's when BMC time changes": when nothing is under way, every known
\* ERoT has the BMC's time, however discoveries, changes and restarts came before.
\* (Where requests succeed, and the environment is calm.)
SyncedAtRest == AtRest => \A e \in known : erot[UuidOf[e]] = time

\* Every list that is queued is worked off without another signal: the coroutine that
\* keeps a new list from being started finds it when it is done. (As above.)
QueueServed == queue # <<>> ~> queue = <<>>

\* Why: whatever requests come to, a list only waits while handleMctpEndpointsTask is
\* there to take it, and what that asks is of the first list.  (Where no discovery meets a
\* time change and Elapsed can be read.)
QueueAttended ==
    queue # <<>> => /\ task = "endpoints" /\ client # "none"
                    /\ rest \subseteq queue[1] /\ asked \in queue[1] \cup {None}

================================================================================
