------------------------------ MODULE InstanceIds ------------------------------
(***************************************************************************)
(* The instance ID generator of the erot-time-manager daemon               *)
(* (oem/nvidia/instance_id.hpp): for every MCTP endpoint a bitset of       *)
(* MaxIds bits, here the set of the numbers whose bit is set.              *)
(***************************************************************************)
EXTENDS Naturals

CONSTANT MaxIds    \* maxInstanceIds, 32 in the code

ASSUME MaxIdsAssumption == MaxIds \in Nat \ {0}

Ids == 0 .. (MaxIds - 1)

\* InstanceId::next returns i: the lowest number that is not in use.
\* When every number is in use no i satisfies this, which is the exception
\* getInstanceId turns into TooManyResources.
IsNextId(used, i) == i \in Ids \ used /\ \A j \in Ids : j < i => j \in used

\* Deviations a property catches: nothing is freed; the first number is not freed.
MarkNothing(used, i) == IF i \in Ids THEN used ELSE used
MarkAboveZero(used, i) == IF i > 0 THEN used \ {i} ELSE used

\* InstanceId::markFree: frees the number whoever holds it.
MarkFree(used, i) == used \ {i}

================================================================================
