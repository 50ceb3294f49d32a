-------------------------- MODULE TwoHeadedStream --------------------------
(* What the two queues with two heads promise, Queue to every scheduler and  *)
(* LinkedQueue in its place: messages in one order, which each of two        *)
(* threads takes one by one, none before it was pushed for both, and neither *)
(* thread ahead of the other by more messages than it was allowed at first.  *)
EXTENDS Integers

CONSTANTS Lead   \* head |-> by how many messages it may lead

VARIABLES pushed,  \* the messages pushed
          taken    \* head |-> the messages its thread has taken

vars == <<pushed, taken>>

Heads == {0, 1}

Init ==
    /\ pushed = 0
    /\ taken = [h \in Heads |-> 0]

Push ==
    /\ pushed' = pushed + 1
    /\ UNCHANGED taken

Take(h) ==
    /\ taken[h] < pushed
    /\ taken[h] < taken[1 - h] + Lead[h]
    /\ taken' = [taken EXCEPT ![h] = @ + 1]
    /\ UNCHANGED pushed

Next == Push \/ \E h \in Heads : Take(h)

Safety == Init /\ [][Next]_vars
=============================================================================
