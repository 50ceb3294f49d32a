---------------------------- MODULE MCLinkedQueue ----------------------------
(* A small instance of LinkedQueue: the queue of distance 3.                 *)
EXTENDS LinkedQueue

MCAhead == [h \in Heads |-> h + 1]

=============================================================================
