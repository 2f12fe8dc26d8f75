-------------------------------- MODULE MCTimer --------------------------------
(* Three delayed callbacks of two queues on one port; the second queue is terminated. *)
EXTENDS DelayTimer

CONSTANTS i1, i2, i3, c1, c2

\* The second to come due is of the queue that is terminated.
MCItemContext == [i \in Items |-> IF i = i2 THEN c2 ELSE c1]

MCDelay == [i \in Items |-> CASE i = i1 -> 1 [] i = i2 -> 2 [] i = i3 -> 3]

=============================================================================
