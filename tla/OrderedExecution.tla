-------------------------- MODULE OrderedExecution --------------------------
(* What a replica promises to whoever submits requests to it (README.md:3,   *)
(* "to ensure consistency among replicas"): requests receive increasing      *)
(* numbers in the order in which they are submitted, each is executed once,  *)
(* and a request starts only when every earlier request that shares a key    *)
(* with it has finished.  Requests that share no key run in any order and    *)
(* at the same time; that freedom is what partitioning the keys buys.        *)
(*                                                                           *)
(* Two replicas that receive the same requests in the same order and keep    *)
(* this promise apply the same operations in the same order to every key.    *)
EXTENDS Naturals

CONSTANTS Ids,   \* the numbers requests may receive, in Nat
          Keys   \* the keys of the store

VARIABLES issued,   \* number |-> set of keys, for the requests submitted
          running,  \* the requests some worker is executing
          done      \* the requests that have been executed

vars == <<issued, running, done>>

Numbers == DOMAIN issued

Conflicting(i, j) == issued[i] \cap issued[j] # {}

Init == /\ issued = <<>>
        /\ running = {}
        /\ done = {}

Issue(i, keys) ==
    /\ \A j \in Numbers : j < i
    /\ issued' = [j \in Numbers \cup {i} |-> IF j = i THEN keys ELSE issued[j]]
    /\ UNCHANGED <<running, done>>

Start(i) ==
    /\ i \in Numbers \ (running \cup done)
    /\ \A j \in Numbers : (j < i /\ Conflicting(j, i)) => j \in done
    /\ running' = running \cup {i}
    /\ UNCHANGED <<issued, done>>

Finish(i) ==
    /\ i \in running
    /\ running' = running \ {i}
    /\ done' = done \cup {i}
    /\ UNCHANGED issued

Next == \E i \in Ids : \/ \E keys \in SUBSET Keys : Issue(i, keys)
                       \/ Start(i)
                       \/ Finish(i)

Safety == Init /\ [][Next]_vars

Fairness == \A i \in Ids : WF_vars(Start(i)) /\ WF_vars(Finish(i))

Spec == Safety /\ Fairness
=============================================================================
