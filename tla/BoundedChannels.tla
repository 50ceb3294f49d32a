-------------------------- MODULE BoundedChannels --------------------------
(* What the queue of a partition promises to the thread that fills it and to *)
(* the one that empties it, and what Dispatch takes for granted: each        *)
(* channel hands over every message sent, once and in order, and a sender    *)
(* waits while as many messages as fit are under way.                        *)
EXTENDS Naturals, Sequences

CONSTANTS Ends,      \* one channel for each
          Messages,
          Capacity   \* of each channel; 0 is unbounded

VARIABLES sent,      \* end |-> the messages sent to it, in order
          received   \* end |-> how many of them it has received

vars == <<sent, received>>

Init ==
    /\ sent = [p \in Ends |-> <<>>]
    /\ received = [p \in Ends |-> 0]

UnderWay(p) == Len(sent[p]) - received[p]

Send(p, m) ==
    /\ Capacity = 0 \/ UnderWay(p) < Capacity
    /\ sent' = [sent EXCEPT ![p] = Append(@, m)]
    /\ UNCHANGED received

Receive(p) ==
    /\ UnderWay(p) > 0
    /\ received' = [received EXCEPT ![p] = @ + 1]
    /\ UNCHANGED sent

Next == \E p \in Ends : (\E m \in Messages : Send(p, m)) \/ Receive(p)

Safety == Init /\ [][Next]_vars

Fairness == \A p \in Ends : WF_vars(Receive(p))

Spec == Safety /\ Fairness
=============================================================================
