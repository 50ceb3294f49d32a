----------------------------- MODULE LinkedQueue -----------------------------
(* The linked list with two heads: one thread pushes, each of two others     *)
(* pops every message, and the head that passes a node second frees the      *)
(* nodes before it.  Which head is second is told by a flag of the node that *)
(* both may read before either sets it.                                      *)
(* Node 0 is the sentinel, node n the n-th message pushed; the list never    *)
(* reuses a node.                                                            *)
(* src/linked_queue/linked_queue.hpp                                         *)
EXTENDS Integers, FiniteSets

CONSTANTS
    Ahead,        \* head |-> by how many messages it may lead at first
    MaxMessages   \* bound: how many messages are pushed

Heads == {0, 1}

Other(h) == 1 - h

ASSUME AheadAssumption == Ahead \in [Heads -> Nat]
ASSUME MaxMessagesAssumption == MaxMessages \in Nat

VARIABLES
    linked,       \* the nodes but the sentinel that a next pointer leads to
    tail,
    producer,     \* where push and the two calls of notify are
    semaphores, ahead_sems,
    heads,
    free_head,
    passed,       \* the nodes whose flag is set
    freed,        \* the nodes deleted
    pc,           \* head |-> where its thread is in wait and pop
    head,         \* head |-> pop's local variable
    raced         \* nodes whose flag was set twice (history)

vars == <<linked, tail, producer, semaphores, ahead_sems, heads, free_head,
          passed, freed, pc, head, raced>>

-----------------------------------------------------------------------------

Init ==
    /\ linked = 0
    /\ tail = 0
    /\ producer = "push"
    /\ semaphores = [h \in Heads |-> 0]
    /\ ahead_sems = [h \in Heads |-> Ahead[Other(h)]]
    /\ heads = [h \in Heads |-> 0]
    /\ free_head = 0
    /\ passed = {}
    /\ freed = {}
    /\ pc = [h \in Heads |-> "wait"]
    /\ head = [h \in Heads |-> 0]
    /\ raced = {}

Goes(h, from, to) == pc[h] = from /\ pc' = [pc EXCEPT ![h] = to]

(* push: the node before is written to, and then is the tail no more.        *)
Link ==
    /\ producer = "push"
    /\ linked < MaxMessages
    /\ linked' = linked + 1
    /\ producer' = "tail"
    /\ UNCHANGED <<tail, semaphores, ahead_sems, heads, free_head, passed, freed,
                   pc, head, raced>>

MoveTail ==
    /\ producer = "tail"
    /\ tail' = linked
    /\ producer' = "notify0"
    /\ UNCHANGED <<linked, semaphores, ahead_sems, heads, free_head, passed, freed,
                   pc, head, raced>>

Notify(h) ==
    /\ producer = IF h = 0 THEN "notify0" ELSE "notify1"
    /\ semaphores' = [semaphores EXCEPT ![h] = @ + 1]
    /\ producer' = IF h = 0 THEN "notify1" ELSE "push"
    /\ UNCHANGED <<linked, tail, ahead_sems, heads, free_head, passed, freed, pc,
                   head, raced>>

TakeSemaphore(h) ==
    /\ Goes(h, "wait", "ahead")
    /\ semaphores[h] > 0
    /\ semaphores' = [semaphores EXCEPT ![h] = @ - 1]
    /\ UNCHANGED <<linked, tail, producer, ahead_sems, heads, free_head, passed,
                   freed, head, raced>>

(* Mutant of TakeAhead: the distance of the heads is not watched.            *)
TakeAheadUnchecked(h) ==
    /\ Goes(h, "ahead", "next")
    /\ UNCHANGED <<linked, tail, producer, semaphores, ahead_sems, heads, free_head,
                   passed, freed, head, raced>>

TakeAhead(h) ==
    /\ Goes(h, "ahead", "next")
    /\ ahead_sems[h] > 0
    /\ ahead_sems' = [ahead_sems EXCEPT ![h] = @ - 1]
    /\ UNCHANGED <<linked, tail, producer, semaphores, heads, free_head, passed,
                   freed, head, raced>>

(* pop follows the pointer of the node it popped last.                       *)
ReadNext(h) ==
    /\ Goes(h, "next", "value")
    /\ head' = [head EXCEPT ![h] = heads[h] + 1]
    /\ UNCHANGED <<linked, tail, producer, semaphores, ahead_sems, heads, free_head,
                   passed, freed, raced>>

(* It copies the value and moves the head.                                   *)
MoveHead(h) ==
    /\ Goes(h, "value", "passed")
    /\ heads' = [heads EXCEPT ![h] = head[h]]
    /\ UNCHANGED <<linked, tail, producer, semaphores, ahead_sems, free_head, passed,
                   freed, head, raced>>

(* Mutant of LoadPassed: whoever passes frees.                               *)
LoadPassedAny(h) ==
    /\ Goes(h, "passed", "free")
    /\ UNCHANGED <<linked, tail, producer, semaphores, ahead_sems, heads, free_head,
                   passed, freed, head, raced>>

LoadPassed(h) ==
    /\ Goes(h, "passed", IF head[h] \in passed THEN "free" ELSE "set")
    /\ UNCHANGED <<linked, tail, producer, semaphores, ahead_sems, heads, free_head,
                   passed, freed, head, raced>>

(* Mutant of StorePassed: the flag set is that of the node before.           *)
StorePassedBefore(h) ==
    /\ Goes(h, "set", "post")
    /\ passed' = passed \cup {head[h] - 1}
    /\ raced' = IF head[h] - 1 \in passed THEN raced \cup {head[h] - 1} ELSE raced
    /\ UNCHANGED <<linked, tail, producer, semaphores, ahead_sems, heads, free_head,
                   freed, head>>

StorePassed(h) ==
    /\ Goes(h, "set", "post")
    /\ passed' = passed \cup {head[h]}
    /\ raced' = IF head[h] \in passed THEN raced \cup {head[h]} ELSE raced
    /\ UNCHANGED <<linked, tail, producer, semaphores, ahead_sems, heads, free_head,
                   freed, head>>

(* The loop that frees: the next pointer is read before the node is deleted. *)
Delete(h) ==
    /\ free_head # head[h]
    /\ Goes(h, "free", "advance")
    /\ freed' = freed \cup {free_head}
    /\ UNCHANGED <<linked, tail, producer, semaphores, ahead_sems, heads, free_head,
                   passed, head, raced>>

Advance(h) ==
    /\ Goes(h, "advance", "free")
    /\ free_head' = free_head + 1
    /\ UNCHANGED <<linked, tail, producer, semaphores, ahead_sems, heads, passed,
                   freed, head, raced>>

(* Mutant of FreeDone: pop returns without the post.                         *)
FreeDoneReturns(h) ==
    /\ free_head = head[h]
    /\ Goes(h, "free", "wait")
    /\ UNCHANGED <<linked, tail, producer, semaphores, ahead_sems, heads, free_head,
                   passed, freed, head, raced>>

FreeDone(h) ==
    /\ free_head = head[h]
    /\ Goes(h, "free", "post")
    /\ UNCHANGED <<linked, tail, producer, semaphores, ahead_sems, heads, free_head,
                   passed, freed, head, raced>>

LetOtherAdvance(h) ==
    /\ Goes(h, "post", "wait")
    /\ ahead_sems' = [ahead_sems EXCEPT ![Other(h)] = @ + 1]
    /\ UNCHANGED <<linked, tail, producer, semaphores, heads, free_head, passed,
                   freed, head, raced>>

Producer == Link \/ MoveTail \/ \E h \in Heads : Notify(h)

Reader(h) ==
    \/ TakeSemaphore(h)
    \/ TakeAhead(h)
    \/ ReadNext(h)
    \/ MoveHead(h)
    \/ LoadPassed(h)
    \/ StorePassed(h)
    \/ Delete(h)
    \/ Advance(h)
    \/ FreeDone(h)
    \/ LetOtherAdvance(h)

(* The bound is reached; the readers may go on waiting for ever.             *)
Terminated ==
    /\ linked = MaxMessages
    /\ producer = "push"
    /\ \A h \in Heads : pc[h] \in {"wait", "ahead"}
    /\ UNCHANGED vars

Next == Producer \/ (\E h \in Heads : Reader(h)) \/ Terminated

Fairness == \A h \in Heads : WF_vars(Reader(h))

Spec == Init /\ [][Next]_vars /\ Fairness /\ WF_vars(Producer)

-----------------------------------------------------------------------------

TypeOK ==
    /\ linked \in 0..MaxMessages
    /\ tail \in 0..MaxMessages
    /\ producer \in {"push", "tail", "notify0", "notify1"}
    /\ semaphores \in [Heads -> Nat]
    /\ ahead_sems \in [Heads -> Nat]
    /\ heads \in [Heads -> 0..MaxMessages]
    /\ free_head \in 0..MaxMessages
    /\ passed \subseteq 1..MaxMessages
    /\ freed \subseteq 0..MaxMessages
    /\ pc \in [Heads -> {"wait", "ahead", "next", "value", "passed", "set", "free",
                         "advance", "post"}]
    /\ head \in [Heads -> 0..MaxMessages]
    /\ raced \subseteq passed

(* How many messages a thread has been notified of.                          *)
Notified(h) ==
    IF producer \in (IF h = 0 THEN {"push", "notify1"} ELSE {"push"})
    THEN linked
    ELSE linked - 1

Marking(h) == pc[h] \in {"passed", "set", "free", "advance"}

Freeing(h) == pc[h] \in {"free", "advance"}

(* The last node whose flag a head has dealt with.                           *)
Done(h) == IF Marking(h) THEN heads[h] - 1 ELSE heads[h]

TailExact == tail = IF producer = "tail" THEN linked - 1 ELSE linked

HeadExact(h) == head[h] = IF pc[h] = "value" THEN heads[h] + 1 ELSE heads[h]

(* A token of the first semaphore for every message notified of and not      *)
(* popped; one of the second for every message of distance left.             *)
TokensExact(h) ==
    /\ heads[h] + semaphores[h] + (IF pc[h] \in {"ahead", "next", "value"} THEN 1 ELSE 0)
          = Notified(h)
    /\ heads[h] + ahead_sems[h] + (IF pc[h] \in {"next", "value"} THEN 1 ELSE 0)
          = Ahead[Other(h)] + heads[Other(h)]
                - (IF Marking(Other(h)) \/ pc[Other(h)] = "post" THEN 1 ELSE 0)

(* The flags of the nodes that a head has dealt with are set, and no other.  *)
FlagsExact ==
    /\ \A h \in Heads : 1..Done(h) \subseteq passed
    /\ passed \subseteq 1..Done(0) \cup 1..Done(1)

FreedExact ==
    freed = 0 .. (IF \E h \in Heads : pc[h] = "advance"
                  THEN free_head ELSE free_head - 1)

(* A head that frees does so behind the other, up to its own node.           *)
FreeBehind(h) ==
    /\ Marking(h) => heads[h] > 0
    /\ pc[h] = "post" => heads[h] > 0
    /\ Freeing(h) => heads[h] <= Done(Other(h)) /\ free_head <= heads[h]
    /\ pc[h] = "advance" => free_head < heads[h]
    /\ ~Freeing(h) => free_head <= Done(h)

FreedUnlessRaced ==
    \A n \in 1..MaxMessages \ raced :
        n <= Done(0) /\ n <= Done(1) => n <= free_head

(* The inductive invariant.                                                  *)
LinkedInv ==
    /\ TailExact
    /\ \A h \in Heads : HeadExact(h) /\ TokensExact(h) /\ FreeBehind(h)
    /\ FlagsExact
    /\ FreedExact
    /\ FreedUnlessRaced

(* The nodes that a thread reads or writes in its next step.                 *)
Touched(h) ==
    CASE pc[h] = "next" -> {heads[h]}
      [] pc[h] \in {"value", "passed", "set"} -> {head[h]}
      [] pc[h] = "free" -> IF free_head # head[h] THEN {free_head} ELSE {}
      [] OTHER -> {}

TouchedByProducer == IF producer = "push" THEN {tail} ELSE {}

(* No thread touches a node that is freed already, nor one that no pointer   *)
(* leads to: in particular the producer may link behind a node that both     *)
(* heads have passed.                                                        *)
NoUseAfterFree ==
    /\ TouchedByProducer \cap freed = {}
    /\ \A h \in Heads : Touched(h) \subseteq (0..linked) \ freed

(* The two heads never free at the same time, and free_head belongs to the   *)
(* one that does, though nothing but the flags of the nodes keeps them apart.*)
FreeExclusive == ~ \A h \in Heads : pc[h] \in {"free", "advance"}

(* Between the calls of both threads, what both have passed is freed, but    *)
(* for the last nodes if both saw their flags unset.                         *)
Reclaimed ==
    (\A h \in Heads : pc[h] = "wait") =>
        \A n \in 1..MaxMessages \ raced :
            (\A h \in Heads : n <= heads[h]) => 0 .. n - 1 \subseteq freed

(* A head leads the other by no more messages than its semaphore allowed at  *)
(* first.                                                                    *)
HeadDistance == \A h \in Heads : heads[h] - heads[Other(h)] <= Ahead[Other(h)]

(* Although freed behind both heads, the list is one stream of messages that *)
(* each thread takes in full; a message is there for both when it is linked. *)
Stream == INSTANCE TwoHeadedStream
            WITH Lead <- [h \in Heads |-> Ahead[Other(h)]],
                 pushed <- linked, taken <- heads

ImplementsTwoHeads == Stream!Safety

(* What the thread of a head may be waiting for.                             *)
Waits(h) ==
    \/ pc[h] = "wait" /\ semaphores[h] = 0
    \/ pc[h] = "ahead" /\ ahead_sems[h] = 0

(* If a head may lead at all, the two never wait for each other: both wait   *)
(* only when each has popped every message.                                  *)
NobodyLeftWaiting ==
    (producer = "push" /\ (\A h \in Heads : Waits(h)) /\ \E h \in Heads : Ahead[h] > 0)
        => \A h \in Heads : pc[h] = "wait" /\ heads[h] = linked

(* Every message reaches both threads: if a head may lead at all, the heads  *)
(* do not stop each other.                                                   *)
EverythingPopped ==
    \A n \in 1..MaxMessages : (linked >= n) ~> \A h \in Heads : heads[h] >= n

=============================================================================
