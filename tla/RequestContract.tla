---------------------------- MODULE RequestContract ----------------------------
(***************************************************************************)
(* What the request layer promises the coroutine that uses it              *)
(* (oem/nvidia/handler.hpp:65-72): the response handler of a request is    *)
(* called once, with the answer of the responder or, when the interval     *)
(* ends without one, empty.  Instance IDs, timers, retries, the map of     *)
(* registered requests and the deferred removal are not visible here.      *)
(***************************************************************************)
CONSTANTS EIDs, None

VARIABLES
    client,     \* none, running or waiting
    asked,      \* the endpoint it waits for
    outcome     \* open, then decided: answered or silent

vars == <<client, asked, outcome>>

TypeOK ==
    /\ client \in {"none", "running", "waiting"}
    /\ asked \in EIDs \cup {None}
    /\ outcome \in {"open", "answered", "silent"}

Init == client = "none" /\ asked = None /\ outcome = "open"

Start == client = "none" /\ client' = "running" /\ UNCHANGED <<asked, outcome>>

Finish == client = "running" /\ client' = "none" /\ UNCHANGED <<asked, outcome>>

Ask(e) ==
    /\ client = "running"
    /\ client' = "waiting" /\ asked' = e
    /\ UNCHANGED outcome

\* Decided once: by an answer or by the end of the interval.
Decide ==
    /\ client = "waiting" /\ outcome = "open"
    /\ outcome' \in {"answered", "silent"}
    /\ UNCHANGED <<client, asked>>

\* The client learns the outcome of what it asked, once.
Resume ==
    /\ client = "waiting" /\ outcome # "open"
    /\ client' = "running" /\ asked' = None /\ outcome' = "open"

Restart == client' = "none" /\ asked' = None /\ outcome' = "open"

Next == Start \/ Finish \/ (\E e \in EIDs : Ask(e)) \/ Decide \/ Resume \/ Restart

Spec == Init /\ [][Next]_vars /\ WF_vars(Decide) /\ WF_vars(Resume)

================================================================================
