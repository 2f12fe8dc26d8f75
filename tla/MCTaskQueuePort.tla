--------------------------- MODULE MCTaskQueuePort ---------------------------
(***************************************************************************)
(* Instances of TaskQueuePort for TLC: which item and which termination    *)
(* belongs to which context.                                               *)
(***************************************************************************)
EXTENDS TaskQueuePort

CONSTANTS c1, c2, i2

\* i2 goes through the second context where there is one, the others through c1.
MCItemContext == [i \in Items |-> IF i = i2 /\ c2 \in Contexts THEN c2 ELSE c1]

\* Every termination ends the first context: two of them are a queue that is
\* terminated twice.
MCTerminationContext == [k \in Terminations |-> c1]

MCDispatcherContext == [d \in Dispatchers |-> c1]
=============================================================================
