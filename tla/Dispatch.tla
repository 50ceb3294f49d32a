------------------------------ MODULE Dispatch ------------------------------
(* The execution path of a replica: the scheduling thread maps the keys of   *)
(* each request to partitions, pushes the request (and, when it spans        *)
(* several partitions, a barrier before and after it) into the queues of the *)
(* partitions, and one worker thread per partition executes what it pops.    *)
(* After a request the scheduling thread may also install another            *)
(* key-to-partition map, behind a barrier across all the partitions.         *)
(* src/scheduler/scheduler.hpp, src/scheduler/partition.hpp and, for the     *)
(* change of the map, src/scheduler/free_scheduler.hpp.                      *)
(*                                                                           *)
(* The scheduling thread's single pushes interleave with the workers' steps. *)
(* When a new map becomes available, and which, is left open here; the       *)
(* modules on repartitioning say which thread computes it and how it is      *)
(* handed over.                                                              *)
EXTENDS Integers, Sequences, FiniteSets

CONSTANTS
    NPartitions,   \* n_partitions
    Keys,          \* the keys requests name
    NInitialKeys,  \* n_initial_keys: keys 0 .. NInitialKeys are populated first
    Requests,      \* the requests a client may submit
    Capacity,      \* WorkerCapacity of the partitions' queues; 0 is unbounded
    MaxEntries     \* bound: how many requests and map changes are dispatched

Partition == 0 .. NPartitions - 1

(* SCAN is the only request on several keys: its args are their number       *)
RangeOf(r) == IF r.type = "SCAN" THEN r.args ELSE 1

KeysOf(r) == r.key .. r.key + RangeOf(r) - 1

InitialKeys == 0 .. NInitialKeys

ASSUME PartitionsAssumption == NPartitions \in Nat \ {0}
ASSUME CapacityAssumption == Capacity \in Nat
ASSUME BoundAssumption == MaxEntries \in Nat
ASSUME KeysAssumption ==
    /\ Keys \subseteq Nat
    /\ NInitialKeys \in Nat
    /\ InitialKeys \subseteq Keys
ASSUME RequestsAssumption ==
    \A r \in Requests : /\ r \in [type : {"READ", "WRITE", "SCAN"}, key : Nat, args : Nat]
                        /\ KeysOf(r) # {}
                        /\ KeysOf(r) \subseteq Keys

VARIABLES
    dataToPartition,  \* data_to_partition_: partial function from Keys
    roundRobin,       \* round_robin_counter_
    log,              \* what was dispatched so far, in order (history)
    pushes,           \* the pushes the scheduling thread still has to make
    queue,            \* the queue of each partition
    current,          \* the message each worker is processing
    barrier,          \* the pthread barriers that are allocated
    executed,         \* the entries of log that have been executed (history)
    ended             \* the scheduling thread has taken END and left its loop

vars == <<dataToPartition, roundRobin, log, pushes, queue, current, barrier,
          executed, ended>>

-----------------------------------------------------------------------------
(* Entries of the log and the messages made for them.                        *)

Pre == 0     \* the barrier ahead of a cross-partition request; also sync-all
Exec == 1    \* the request itself
Post == 2    \* the barrier behind it

Message(n, phase) == [entry |-> n, phase |-> phase]

NoMessage == Message(0, Exec)

IsSync(m) == m # NoMessage /\ m.phase # Exec

(* The scheduling thread pushes messages by increasing stamp.                *)
Stamp(m) == 3 * m.entry + m.phase

Entry == [type : {"READ", "WRITE", "SCAN", "SYNC"}, keys : SUBSET Keys,
          parts : SUBSET Partition, home : Partition]

IsRequest(n) == log[n].type # "SYNC"

Entries == 1 .. Len(log)

Conflict(i, j) == log[i].keys \cap log[j].keys # {}

(* The orders in which an unordered_set may enumerate its members.           *)
Orders(S) ==
    {o \in [1 .. Cardinality(S) -> S] :
        /\ \A i, j \in DOMAIN o : o[i] = o[j] => i = j
        /\ \A p \in S : \E i \in DOMAIN o : o[i] = p}

SyncPushes(n, phase, order) ==
    [i \in 1 .. Len(order) |-> [to |-> order[i], msg |-> Message(n, phase)]]

(* Mutants of RequestPushes: one of the two barriers is forgotten.           *)
RequestPushesWithoutPost(n, order) ==
    LET request == <<[to |-> order[1], msg |-> Message(n, Exec)]>>
    IN  IF Len(order) > 1 THEN SyncPushes(n, Pre, order) \o request ELSE request

RequestPushesWithoutPre(n, order) ==
    LET request == <<[to |-> order[1], msg |-> Message(n, Exec)]>>
    IN  IF Len(order) > 1 THEN request \o SyncPushes(n, Post, order) ELSE request

(* dispatch: the request goes to the first partition enumerated; when there  *)
(* are several, all of them meet at a barrier before it and at one after it. *)
RequestPushes(n, order) ==
    LET request == <<[to |-> order[1], msg |-> Message(n, Exec)]>>
    IN  IF Len(order) > 1
        THEN SyncPushes(n, Pre, order) \o request \o SyncPushes(n, Post, order)
        ELSE request

(* Mutants of NewBarrier: initialised for one thread too few or too many.    *)
NewBarrierTooFew(parties) == [count |-> parties - 1, arrived |-> {}, left |-> {}]

NewBarrierTooMany(parties) == [count |-> parties + 1, arrived |-> {}, left |-> {}]

(* create_sync_request: the barrier of a set of partitions.                  *)
NewBarrier(parties) == [count |-> parties, arrived |-> {}, left |-> {}]

WithBarriers(new, parties) ==
    [m \in DOMAIN barrier \cup new |->
        IF m \in new THEN NewBarrier(parties) ELSE barrier[m]]

-----------------------------------------------------------------------------
(* Mapping keys to partitions.                                               *)

Mapped(k) == k \in DOMAIN dataToPartition

(* All the unmapped keys of one request go to the same partition.            *)
MapWith(keys) ==
    [k \in DOMAIN dataToPartition \cup keys |->
        IF Mapped(k) THEN dataToPartition[k] ELSE roundRobin]

InvolvedPartitions(keys) == {MapWith(keys)[k] : k \in keys}

NextRoundRobin(keys) ==
    IF \A k \in keys : Mapped(k) THEN roundRobin
                                 ELSE (roundRobin + 1) % NPartitions

-----------------------------------------------------------------------------
(* The state after populating the store: process_populate_request gave the   *)
(* initial keys to the partitions one after the other.                       *)
Init ==
    /\ dataToPartition = [k \in InitialKeys |-> k % NPartitions]
    /\ roundRobin = (NInitialKeys + 1) % NPartitions
    /\ log = <<>>
    /\ pushes = <<>>
    /\ queue = [p \in Partition |-> <<>>]
    /\ current = [p \in Partition |-> NoMessage]
    /\ barrier = <<>>
    /\ executed = {}
    /\ ended = FALSE

(* The scheduling thread is between two requests of its loop.                *)
SchedulerIdle == pushes = <<>> /\ ~ended

(* One request, up to the first push: map its keys, choose the partitions.   *)
Dispatch(r) ==
    LET keys == KeysOf(r)
        parts == InvolvedPartitions(keys)
        n == Len(log) + 1
    IN  /\ SchedulerIdle
        /\ Len(log) < MaxEntries
        /\ dataToPartition' = MapWith(keys)
        /\ roundRobin' = NextRoundRobin(keys)
        /\ \E order \in Orders(parts) :
              /\ pushes' = RequestPushes(n, order)
              /\ log' = Append(log, [type |-> r.type, keys |-> keys,
                                     parts |-> parts, home |-> order[1]])
        /\ barrier' = IF Cardinality(parts) > 1
                      THEN WithBarriers({Message(n, Pre), Message(n, Post)},
                                        Cardinality(parts))
                      ELSE barrier
        /\ UNCHANGED <<queue, current, executed, ended>>

(* Mutant of SyncAllParties: the loop starts at partition 1.                 *)
SyncAllPartiesButFirst == Partition \ {0}

(* The partitions sync_all_partitions collects.                              *)
SyncAllParties == Partition

(* After a request the map may be replaced by a computed one; then           *)
(* sync_all_partitions.  The new map knows the keys in the copy of the graph *)
(* and no other: keys whose requests were not folded in or have left the     *)
(* window are missing, keys of requests yet to be dispatched may be there.   *)
ChangePartitionScheme ==
    LET n == Len(log) + 1
    IN  /\ SchedulerIdle
        /\ log # <<>> /\ IsRequest(Len(log))
        /\ Len(log) < MaxEntries
        /\ \E known \in SUBSET Keys :
              \E scheme \in [known -> Partition] : dataToPartition' = scheme
        /\ \E order \in Orders(SyncAllParties) :
              /\ pushes' = SyncPushes(n, Pre, order)
              /\ log' = Append(log, [type |-> "SYNC", keys |-> {},
                                     parts |-> SyncAllParties, home |-> order[1]])
        /\ barrier' = WithBarriers({Message(n, Pre)}, Cardinality(SyncAllParties))
        /\ UNCHANGED <<roundRobin, queue, current, executed, ended>>

(* END: the scheduling thread leaves its loop.                               *)
Stop ==
    /\ SchedulerIdle
    /\ ended' = TRUE
    /\ UNCHANGED <<dataToPartition, roundRobin, log, pushes, queue, current,
                   barrier, executed>>

(* push_request: a bounded queue that is full makes the scheduler wait.      *)
HasSpace(p) == Capacity = 0 \/ Len(queue[p]) < Capacity

Push ==
    /\ pushes # <<>>
    /\ LET push == Head(pushes)
       IN  /\ HasSpace(push.to)
           /\ queue' = [queue EXCEPT ![push.to] = Append(@, push.msg)]
    /\ pushes' = Tail(pushes)
    /\ UNCHANGED <<dataToPartition, roundRobin, log, current, barrier,
                   executed, ended>>

-----------------------------------------------------------------------------
(* thread_loop of the worker of partition p.                                 *)

Pop(p) ==
    /\ current[p] = NoMessage
    /\ queue[p] # <<>>
    /\ current' = [current EXCEPT ![p] = Head(queue[p])]
    /\ queue' = [queue EXCEPT ![p] = Tail(@)]
    /\ UNCHANGED <<dataToPartition, roundRobin, log, pushes, barrier,
                   executed, ended>>

(* READ, WRITE or SCAN: the operation completes and is counted.              *)
Finish(p) ==
    /\ current[p] # NoMessage /\ ~IsSync(current[p])
    /\ executed' = executed \cup {current[p].entry}
    /\ current' = [current EXCEPT ![p] = NoMessage]
    /\ UNCHANGED <<dataToPartition, roundRobin, log, pushes, queue, barrier,
                   ended>>

(* SYNC, entering pthread_barrier_wait.                                      *)
Arrive(p) ==
    LET m == current[p]
    IN  /\ IsSync(m)
        /\ m \in DOMAIN barrier
        /\ p \notin barrier[m].arrived
        /\ barrier' = [barrier EXCEPT ![m].arrived = @ \cup {p}]
        /\ UNCHANGED <<dataToPartition, roundRobin, log, pushes, queue,
                       current, executed, ended>>

(* SYNC, leaving it.  One worker is the serial thread: it destroys the       *)
(* barrier, which waits for the others to be out, and frees it.              *)
Leave(p) ==
    LET m == current[p]
    IN  /\ IsSync(m)
        /\ m \in DOMAIN barrier
        /\ p \in barrier[m].arrived
        /\ Cardinality(barrier[m].arrived) >= barrier[m].count
        /\ barrier' =
              IF Cardinality(barrier[m].left) + 1 = barrier[m].count
              THEN [b \in DOMAIN barrier \ {m} |-> barrier[b]]
              ELSE [barrier EXCEPT ![m].left = @ \cup {p}]
        /\ current' = [current EXCEPT ![p] = NoMessage]
        /\ UNCHANGED <<dataToPartition, roundRobin, log, pushes, queue,
                       executed, ended>>

Worker(p) == Pop(p) \/ Finish(p) \/ Arrive(p) \/ Leave(p)

(* Nothing is left to do: the workers wait for messages that never come.     *)
Quiescent ==
    /\ ended
    /\ \A p \in Partition : queue[p] = <<>> /\ current[p] = NoMessage

Terminated == Quiescent /\ UNCHANGED vars

Next ==
    \/ \E r \in Requests : Dispatch(r)
    \/ ChangePartitionScheme
    \/ Stop
    \/ Push
    \/ \E p \in Partition : Worker(p)
    \/ Terminated

Safety == Init /\ [][Next]_vars

(* The threads keep running; no client has to submit anything.               *)
Fairness == WF_vars(Push) /\ \A p \in Partition : WF_vars(Worker(p))

Spec == Safety /\ Fairness

-----------------------------------------------------------------------------
Messages == [entry : Nat \ {0}, phase : {Pre, Exec, Post}]

(* Type correctness of the scheduler's and the workers' state.               *)
TypeOK ==
    /\ DOMAIN dataToPartition \subseteq Keys
    /\ dataToPartition \in [DOMAIN dataToPartition -> Partition]
    /\ roundRobin \in Partition
    /\ log \in Seq(Entry)
    /\ pushes \in Seq([to : Partition, msg : Messages])
    /\ queue \in [Partition -> Seq(Messages)]
    /\ current \in [Partition -> Messages \cup {NoMessage}]
    /\ DOMAIN barrier \subseteq Messages
    /\ barrier \in [DOMAIN barrier -> [count : Nat, arrived : SUBSET Partition,
                                       left : SUBSET Partition]]
    /\ executed \subseteq Nat
    /\ ended \in BOOLEAN

Executing(p) == current[p] # NoMessage /\ ~IsSync(current[p])

Running == {current[p].entry : p \in {q \in Partition : Executing(q)}}

(* Requests on a common key are executed in the order in which they were     *)
(* submitted, whichever workers execute them and however often the map       *)
(* changed in between (dispatch, schedule_and_answer, thread_loop).          *)
ConflictOrder ==
    \A i, j \in Entries :
        (i < j /\ Conflict(i, j) /\ j \in Running \cup executed) => i \in executed

(* While the request that two barriers enclose is executed by one worker, no *)
(* other worker of a partition it involves executes anything: a SCAN reads   *)
(* every partition it spans at rest (dispatch).                              *)
ScanIsolation ==
    \A p, q \in Partition :
        (Executing(p) /\ Executing(q) /\ p # q)
            => q \notin log[current[p].entry].parts

(* Nothing dispatched under a new map starts before everything dispatched    *)
(* under the old one has been executed (sync_all_partitions).                *)
EpochOrder ==
    \A n \in Entries :
        (~IsRequest(n) /\ \E j \in Running \cup executed : j > n)
            => \A i \in 1 .. n - 1 : IsRequest(i) => i \in executed

(* A barrier travels through the queues as a raw address; as long as a       *)
(* worker still has to reach it, nobody has freed it (create_sync_request,   *)
(* thread_loop).                                                             *)
BarrierAlive ==
    \A p \in Partition :
        /\ IsSync(current[p]) => current[p] \in DOMAIN barrier
        /\ \A i \in DOMAIN queue[p] :
              IsSync(queue[p][i]) => queue[p][i] \in DOMAIN barrier

(* What a thread may be waiting for: a place in a queue, a message, the      *)
(* others at a barrier.                                                      *)
SchedulerWaits == pushes # <<>> /\ ~HasSpace(Head(pushes).to)

HeldAtBarrier(p) ==
    LET m == current[p]
    IN  /\ IsSync(m)
        /\ m \in DOMAIN barrier =>
              /\ p \in barrier[m].arrived
              /\ Cardinality(barrier[m].arrived) < barrier[m].count

WorkerWaits(p) == (current[p] = NoMessage /\ queue[p] = <<>>) \/ HeldAtBarrier(p)

(* The threads never wait on one another in a circle: if all of them wait,   *)
(* then because nothing is left to push, to pop or to execute (push_request, *)
(* sync_partitions, thread_loop).                                            *)
NoCircleOfWaiting ==
    ((pushes = <<>> \/ SchedulerWaits) /\ \A p \in Partition : WorkerWaits(p))
        => /\ pushes = <<>>
           /\ \A p \in Partition : queue[p] = <<>> /\ current[p] = NoMessage

(* Every dispatched request is executed, also with full queues and workers   *)
(* held at barriers: pushes, queues and barriers never wait on one another   *)
(* in a circle (push_request, sync_partitions, thread_loop).                 *)
EveryRequestExecuted ==
    \A i \in 1 .. MaxEntries :
        (i \in Entries /\ IsRequest(i)) ~> (i \in executed)

-----------------------------------------------------------------------------
(* The replica keeps the promise of OrderedExecution: a request is issued    *)
(* when it is dispatched, runs from the pop to the end of its execution, and *)
(* is done when it was counted.                                              *)
issued == [i \in {n \in Entries : IsRequest(n)} |-> log[i].keys]

Promise == INSTANCE OrderedExecution
             WITH Ids <- 1 .. MaxEntries, issued <- issued,
                  running <- Running, done <- executed

ImplementsOrderedExecution == Promise!Spec
=============================================================================
