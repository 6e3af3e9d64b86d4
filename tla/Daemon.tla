--------------------------------- MODULE Daemon ---------------------------------
(***************************************************************************)
(* The erot-time-manager daemon as a whole, up to its sockets: the client  *)
(* coroutine of Requester is the coroutine of ErotTimeManager.             *)
(*                                                                         *)
(* ErotTimeManager asks the contract of the request layer; here it asks    *)
(* the request layer.  What it asked and what came of it are read off the  *)
(* awaited key and the call of the response handler, and what an ERoT is   *)
(* told is the time in the message that was registered under that key.     *)
(* Only messages of requests that are awaited are followed that far.  An   *)
(* expired request, too, may be sent again at the next one's turn, and any *)
(* message may take effect after its request was given up: what an ERoT    *)
(* makes of those is not part of this module.                              *)
(***************************************************************************)
EXTENDS Requester

CONSTANTS
    Erots,          \* MCTP endpoint IDs of ERoTs; a freed vector may be read as the rest
    UUIDs, UuidOf, Rank, Outcomes, Calm, MaxTime, MaxSignals,
    ErotFaults      \* Faults of ErotTimeManager

VARIABLES
    time, changed, recent, known, queue, task, rest, elapsed, handling, signals, erot,
    message         \* of the request registered under a key: the time in it

\* No ERoT has a request that an earlier task could not send and left behind.
NoUnsent == [e \in Erots |-> {}]

Erot == INSTANCE ErotTimeManager WITH
    EIDs <- Erots, Garbage <- EIDs \ Erots, Faults <- ErotFaults,
    asked <- Asked(awaited), outcome <- Outcome(call),
    unsent <- NoUnsent

erotVars   == <<time, changed, recent, known, queue, task, rest, elapsed, handling,
                signals, erot>>
daemonVars == <<vars, erotVars, message>>

DaemonInit ==
    /\ Init
    /\ Erot!Init
    /\ message = [k \in Key |-> 0]

\* The BMC's clock and the timer of the interval
Clock ==
    /\ UNCHANGED <<vars, message>>
    /\ Erot!TimeChanges \/ Erot!IntervalElapses

\* handleTimeChange and handleMctpEndpoints, which start the coroutine or do not, and the
\* rest of handleTimeChange
Dispatch ==
    /\ Idle
    /\ \/ /\ StartBatch
          /\ Erot!HandleTimeChange \/ \E S \in Erot!Found : Erot!HandleMctpEndpoints(S)
       \/ /\ UNCHANGED vars
          /\ Erot!SkipTimeChange \/ Erot!Discovery
    /\ UNCHANGED message
ReturnToHandleTimeChange ==
    /\ UNCHANGED <<vars, message>>
    /\ Erot!ReturnToHandleTimeChange

\* setTimeOnErot for the next element of eids: the request is sent or queued, or it fails
\* and the coroutine takes the next one.
SetTimeOnErot(e) ==
    /\ e \in rest /\ rest' = rest \ {e}
    /\ \E a \in Erot!Read(e), i \in Ids, s \in Start :
         LET k == [eid |-> a, instanceId |-> i]
         IN /\ SendRecvAs(a, i, s)
            /\ message' = IF handlers[k].st = "absent" THEN [message EXCEPT ![k] = elapsed]
                          ELSE message
    /\ UNCHANGED <<time, changed, recent, known, queue, task, elapsed, handling, signals, erot>>

\* The response handler resumes the coroutine: what it was told, and what the ERoT was.
Resumed ==
    /\ ResumeAwaiter \/ DeadHandler
    /\ IF client' = client THEN UNCHANGED <<known, erot>>
       ELSE Erot!Handled(Asked(awaited), Outcome(call), message[awaited])
    /\ UNCHANGED <<time, changed, recent, queue, task, rest, elapsed, handling, signals, message>>

NextList ==
    /\ UNCHANGED <<vars, message>>
    /\ Erot!NextList
EndTask ==
    /\ FinishBatch /\ Erot!EndTask
    /\ UNCHANGED message

\* The rest of the request layer: answers and timers, as far as requests may end that way.
Layer ==
    /\ ~handling
    /\ \/ ReturnToExpiry \/ ReturnToHandleResponse
       \/ \E k \in Key :
            \/ RequestRetryCallback(k) \/ RemoveRequestEntry(k)
            \/ "silence" \in Outcomes /\ InstanceIdExpiry(k)
            \/ Outcomes # {"silence"} /\ \E a \in Answer : HandleResponse(k, a)
            \/ HandleForeignResponse(k)
    /\ UNCHANGED <<erotVars, message>>

RestartDaemon ==
    /\ Restart /\ Erot!Restart
    /\ message' = [k \in Key |-> 0]

DaemonNext ==
    \/ Clock \/ Dispatch \/ ReturnToHandleTimeChange
    \/ (\E e \in Erots : SetTimeOnErot(e)) \/ Resumed \/ NextList \/ EndTask
    \/ Layer \/ RestartDaemon

DaemonSpec == DaemonInit /\ [][DaemonNext]_daemonVars

--------------------------------------------------------------------------------
(* Properties                                                              *)

\* What is asked is asked with the time that the coroutine sends now: no request goes out
\* with the message of an earlier one under the same key (handler.hpp:164-174, where
\* emplace does nothing when the key is in the map).
MessageInStep == client = "waiting" => message[awaited] = elapsed

\* Over the request layer the coroutine keeps to ErotTimeManager.
ErotSpec == Erot!Spec

================================================================================
