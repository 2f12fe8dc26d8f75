-------------------------------- MODULE MCWaits --------------------------------
(* Two registrations on one port, each of another queue; the second queue is terminated. *)
EXTENDS WaitRegistration

CONSTANTS r1, r2, c1, c2

MCRegContext == [r \in Regs |-> IF r = r1 THEN c1 ELSE c2]

MCSignals == [r \in Regs |-> IF r = r1 THEN 2 ELSE 0]

=============================================================================
