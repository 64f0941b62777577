---------------------------- MODULE BoundedFifo ----------------------------
(***************************************************************************)
(* What a user of layer2/data_queue.hpp's RingBuffer relies on: jobs are   *)
(* received in the order they were accepted, each once; at most Limit of   *)
(* them wait; one is refused only when that many wait.                     *)
(***************************************************************************)
EXTENDS Naturals, Sequences

CONSTANTS Jobs, Limit

VARIABLES accepted,   \* the jobs push has returned true for, in order
          received,   \* the jobs pop has returned, in order
          refused     \* how often push has returned false

Waiting == Len(accepted) - Len(received)

Init == accepted = << >> /\ received = << >> /\ refused = 0

Accept(j) == /\ Waiting < Limit
             /\ accepted' = Append(accepted, j)
             /\ UNCHANGED <<received, refused>>

Refuse == /\ Waiting = Limit
          /\ refused' = refused + 1
          /\ UNCHANGED <<accepted, received>>

Receive == /\ Waiting > 0
           /\ received' = Append(received, accepted[Len(received) + 1])
           /\ UNCHANGED <<accepted, refused>>

Next == (\E j \in Jobs : Accept(j)) \/ Refuse \/ Receive

Spec == Init /\ [][Next]_<<accepted, received, refused>>
=============================================================================
