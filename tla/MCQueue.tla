-------------------------------- MODULE MCQueue --------------------------------
(***************************************************************************)
(* The instance of LocklessQueue in which a late pusher links its node to  *)
(* a queue it was not asked to push to: two threads push to one queue, a   *)
(* third moves an item of it to another.                                   *)
(***************************************************************************)
EXTENDS LocklessQueue

CONSTANT mover

\* push_back on the list of delayed callbacks, and the remove_if that promotes them.
MCJobs ==
    [t \in Threads |->
        {IF t = mover THEN [op |-> "move", from |-> 1, to |-> 2]
         ELSE [op |-> "push", from |-> 1, to |-> 1]}]

MCTimes == [t \in Threads |-> 1]
=============================================================================
