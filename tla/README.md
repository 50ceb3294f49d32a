# A verification project for kvpaxos

kvpaxos is one replica of a partitioned key-value store. Requests arrive in one
total order (from Paxos in the original system, from a file at this commit). A
*scheduling thread* assigns keys to partitions and pushes requests to the queues of
*worker threads*, one per partition; requests on keys of several partitions (scans)
are enclosed by barriers. A *graph thread* follows the same requests and maintains a
workload graph, from which a better key-to-partition map is computed now and then,
by the scheduling thread itself or by a third, *partitioning thread*. The README of
the repository states the purpose, "to ensure consistency among replicas"
(README.md:3): whatever the threads' timing, two replicas that receive the same
requests must do the same to each key.

These modules model that machinery in TLA+, TLC checks them on small instances, and
TLAPS proves the safety properties for every value of the constants.

## Inventory

| Part | State | Operations | Correct when |
|---|---|---|---|
| Scheduling (`scheduler/scheduler.hpp`) | `data_to_partition_`, `round_robin_counter_`, `n_dispatched_requests_`, barriers on the heap | `dispatch`, `involved_partitions`, `map_key`, `create_sync_request`, `sync_partitions`, `sync_all_partitions` | conflicting requests keep their order; scans are isolated; a barrier outlives its users |
| Workers (`scheduler/partition.hpp`) | a queue (bounded or not), a semaphore or two, `n_executed_requests_` | `push_request`, `pop_request`, `thread_loop` | every request is executed once; no circle of waiting |
| Two-headed queue (`queue/queue.hpp`) | two queues, two semaphores per head | `push`, `notify`, `wait`, `pop`, `free` | no pop of an empty queue; heads stay within the distance; no token lost |
| Rounds at a barrier (`Scheduler`, `OldImbScheduler`) | `note_`, `n_processed_requests_`, `repartition_barrier_`, `workload_graph_` | the second half of `schedule_and_answer`, `update_graph_loop` | the graph is copied while nobody writes to it and is recent; nobody is left at the barrier |
| Rounds beside the execution (`FreeScheduler`, `NonStopScheduler`, `AsyncScheduler`, `AsyncImbScheduler`) | `repartitioning_`, `update_`, `repartition_`, `repart_semaphore_`, `input_graph_`, two map pointers | `order_partitioning`, `partitioning_loop`, `change_partition_scheme`, `schedule_and_answer`, `update_graph_loop` | one round at a time; no map freed in use, leaked or installed twice; every round ends |
| Imbalance detection (`AsyncImbScheduler`, `OldImbScheduler`) | counters per partition | `imbalance`, `is_cross_partition_intensive` | a round begins on evidence found in a row, and only then; a ratio belongs to one window |
| Workload graph (`graph/graph.hpp`, `update_graph`, `expire`) | weights of vertices and edges, totals, the queue of the window | add, increment, remove, `multilevel_cut_data` | the graph counts exactly the requests of the window; the partitioners' copy is well-formed |
| Storage (`storage/`) | one concurrent map shared by all workers | `read`, `write`, `scan` | no read of an absent key; a scan reads the keys it names; replicas agree |
| LinkedQueue (`linked_queue/`) | a list with two heads and a free head | as the queue | a node is freed once, after both heads passed it |
| Partitioners (METIS, KaHIP) | none | `multilevel_cut` | external |
| Replica (`replica.cpp`) | the messages read from a file | construct, run, populate, submit, END, metrics, join | a thread is started before it is needed; the process ends after the last request, and does end |
| Request generation (`request/`) | random generators, an acknowledged counter | create, import, export | a request reads keys only that were written before; the generation ends |
| Client, compression, utilities, experiments | | | I/O, conversions, scripts |

The parts interact by shared memory only. `workload_loop` submits to both heads of the
queue; the scheduling thread takes from head 0 and pushes to the workers; the graph
thread takes from head 1. Maps travel between the threads as pointers, barriers to
the workers as raw addresses inside messages. There is no persistence, so crashes and
restarts do not matter, and messages between threads are neither lost nor reordered;
what is hard is the interleaving of the threads, the tokens of the semaphores, and
who owns a map, a barrier or the graph at a time. `PROJECT.json` lists these hazards
line by line.

## Modules

| Module | Models |
|---|---|
| `OrderedExecution` | what a replica promises: requests are numbered, each is executed once, one starts when the earlier ones it conflicts with are done |
| `Dispatch` | scheduling thread, workers, queues, barriers, changes of the map; implements `OrderedExecution` |
| `DispatchInduction` | the inductive invariant of `Dispatch` |
| `MCDispatch` | small instances of `Dispatch` |
| `DispatchProofs` | theorems on `Dispatch` |
| `BoundedChannels` | what a partition's queue promises: every message once, in order, the sender waits while it is full |
| `ReplicaProcess` | the threads of the process from construction to the end of `main`, the queues of the partitions semaphore by semaphore; implements `BoundedChannels` |
| `ReplicaProcessProofs` | theorems on it |
| `TwoHeadedStream` | what a queue with two heads promises |
| `RepartitionHandshake` | the two-headed queue and a round at a barrier: `Scheduler`, `OldImbScheduler`; implements `TwoHeadedStream` |
| `RepartitionHandshakeProofs` | theorems on it |
| `RepartitionRounds` | what a round beside the execution promises: ordered, computed, installed, closed, one at a time |
| `AsyncRepartition` | a round beside the execution: the other four schedulers; implements `RepartitionRounds` |
| `AsyncRepartitionProofs` | theorems on it |
| `ImbalanceDetection` | when `OldImbScheduler` and `AsyncImbScheduler` ask for a round |
| `ImbalanceDetectionProofs` | theorems on it |
| `WorkloadGraph` | the graph, adding a message to it and taking one out |
| `GraphCut` | the copy of the graph for the partitioners; extends `WorkloadGraph` |
| `WorkloadGraphInduction`, `WorkloadGraphProofs` | the inductive invariant of `WorkloadGraph`, the theorems on it and on `GraphCut` |
| `MCWorkloadGraph` | small instances of `GraphCut` |
| `RequestGeneration` | the generation of a file of requests |
| `Replicas`, `MCReplicas`, `ReplicasProofs` | replicas that execute one such file as `OrderedExecution` allows, with their stores; extends the one and takes the order of the other by INSTANCE; the theorems on `RequestGeneration` and on `Replicas` |
| `LinkedQueue`, `LinkedQueueProofs`, `MCLinkedQueue` | the linked list with two heads, which implements `TwoHeadedStream` too, theorems, an instance |

### Dispatch

A request is a record of type, first key and, for a scan, its number of keys. The
action `Dispatch(r)` is one call of `dispatch` up to its first push: it maps the keys
that are unmapped (all of them to one partition, as `involved_partitions` does),
advances the round robin counter, appends the request to `log` and computes the
messages to push. Each push is then a step of its own (`Push`), because the scheduling
thread's pushes interleave with the workers and may block on a bounded queue. The order
in which the partitions of a request are enumerated is that of an `unordered_set`, hence
any, and so is the first one, which executes the request. Workers `Pop`, `Finish` a
request, `Arrive` at and `Leave` a barrier; the last to leave frees it. (In the code
the serial thread calls `pthread_barrier_destroy`, which waits until the others have
left.) `ChangePartitionScheme` stands for the end of a round of any scheduler: the map
is replaced by any map on any of the keys, and sync-all messages follow. `Stop` is END.
READ, WRITE and SCAN differ only in the keys they name; what an operation does to the
store is left to `Replicas`, here it only runs between pop and count. Two workers never
share a key's queue, so this order decides what each key sees.

`log`, `executed` and `current` give the refinement mapping to `OrderedExecution`.

### ReplicaProcess

Where `main` is says which threads run: the constructor of the scheduler starts the
scheduling thread, `run` the workers one by one, `initialize_scheduler` and `run` of
`replica.cpp` the metrics and the workload thread; `Join` is the three `join`s. The
workers are never joined and no destructor of `Scheduler` or `Partition` runs: `main`
returns and the process ends under them (`Running`). `start_worker_thread` initialises a
partition's semaphores, whereas the scheduling thread exists before; that it does not use
them too early depends on the order in `run`, and is the first conjunct of `QueuesSound`.

`push_request` and `pop_request` are one step per semaphore operation and per access to
the queue. The bounded queue is a ring whose `push` refuses when it is full and whose
result nobody looks at (`Fits`); `Capacity` 0 is the unbounded one, whose mutex makes
push and pop one step each. Barriers, which count for nothing in
`n_executed_requests_`, are left out; each request goes to one partition, any. `metrics_loop` adds the workers' counters one by one, in the order of a
hash table, while they change; it ends when the sum has reached the number of requests,
and with it `main`. So `NoEarlyEnd` depends on a sum of values of different moments: it
may be late and must not be early. Barriers may still be queued when the process ends.

### RepartitionHandshake

Messages are numbers in order of submission, the last is END. The action names follow the
statements of `submit`, `scheduling_loop`, `schedule_and_answer` and
`update_graph_loop`: every semaphore operation, every push and pop, the note, the two
arrivals and departures of each thread at `repartition_barrier_`, the copy. `Posted`
saturates at `SemValueMax`, as `sem_post` fails there without effect and the code ignores
its result. With distance 0 the constructor gives the scheduling thread's head
`SEM_VALUE_MAX` tokens and the graph thread's none. `Interval` 0 stands for the clock and
for the imbalance test: a round may start after any request. END is folded into the graph
like any message (`update_graph_loop` does not look at the type).

`TwoHeadedStream` says what the two threads get from the queue, whatever tokens the rounds
add and take: no message before it was pushed for both, and no lead beyond the distance
(`Lead`). With distance 0 the scheduling thread's lead is `SemValueMax`.

`note_` and the counters are plain variables read by another thread. The graph thread
reads them after a `sem_wait` that follows the writer's `sem_post`, or before; the model
takes them as sequentially consistent, which holds on x86 for the order that matters:
`note_` is written before `free<1>` posts.

### AsyncRepartition

One module for four schedulers; `variant` is chosen in `Init`. A *round* passes from the
graph thread (copy), over the semaphore, to the partitioning thread (delete the spare map,
compute, install, raise `update_`) to the scheduling thread (exchange the pointers,
sync-all, reset the flags); in `AsyncScheduler` the scheduling thread orders it. Each
access to a flag or pointer is a step. Maps are addresses that are allocated and freed;
`ComputeMap` may reuse a freed address. Requests arrive for ever; the only thing kept of
their number is the distance to the interval. `AsyncImbScheduler` tests as
`FreeScheduler` with a clock does: it begins a round at any request, when none runs;
`ImbalanceDetection` says at which.
`RepartitionRounds` is what the dispatching needs of all this: a round is ordered, one new
map is computed for it, the map takes the place of the active one, the round is over. No
variable of the code says where a round is. `Round` reads it off the flags, the semaphore
and the places of the three threads (`Ordered`: on its way to a map), the map of the round
is `spare` once `update_` is raised. Beginning a round while another is under way would be
no step of `RepartitionRounds`, nor would installing a map twice or dropping an order.
ROUND_ROBIN, where no round is ever ordered by the scheduling thread, is not modelled;
`METIS` and `KAHIP` behave alike. After `update_graph` the graph is never empty (the
request just added has a vertex that leaves the window later), so that the test of
`n_vertex()` is always true and is left out.

### ImbalanceDetection

One module for the two schedulers that measure the load, `variant` chosen in `Init`. In
`OldImbScheduler` the scheduling thread calls `imbalance` and waits for the round; in
`AsyncImbScheduler` the graph thread calls it while the scheduling thread goes on
counting, installs the map of the round before and begins a new window
(`SetOperationStart`, `SetCrossStart`). Each read of a counter the other thread writes
is a step (`CompareDispatched`, `ReadCounters`), the two operands of the division in
either order, as the language leaves it open. The lengths of the queues are read one by
one while workers pop and the scheduling thread pushes: any lengths up to `MaxLength`.
The threshold is an exact fraction instead of a float. `JudgeCross` is
`is_cross_partition_intensive` with the early return of `imbalance`, `JudgeLengths` the
loop over the partitions with `clear_imbalance_count`.

The interval is that of the clock, the only one `replica.cpp` builds these schedulers
for: `imbalance` may be called at any request. (With an interval in requests the graph
thread of `AsyncImbScheduler` would move `operation_start_` on its own, and
`RatioOfOneWindow` would not hold.) ROUND_ROBIN makes no checks.

### WorkloadGraph and GraphCut

The maps of `Graph` are functions on the keys they hold; `operator[]`, which inserts, is
`At` with `Put`. A message is added in steps of one key or one pair (`UpdateVertex`,
`UpdateEdge`), in the order of the two loops; `Retire` moves it into the queue and takes
the oldest message out, and `ExpireEdge` and `ExpireVertex` go down the loops of `expire`.
The other threads never see these steps (`RepartitionHandshake`, `AsyncRepartition`), but
the properties depend on them: `expire` erases a vertex in the middle of a scan and looks
it up again for the next pair, and `operator[]` then inserts it once more. `Populate` is
`process_populate_request`; END goes through `Process` like any message, with whatever key
it has. A history of length 0 is unlimited (`TL` = 0). `CutData` is
`multilevel_cut_data`: `VerticesCountWindow` and `EdgesCountWindow` compare the graph
with the messages of the window, counted afresh, `TotalsMatch` the sums kept on the side,
`CutDataSound` the rows with what METIS and KaHIP require of them. The order of a row's
neighbours is in the code that of a hash table: `SetToSeq`, some order, of which TLC takes
one and the theorem any. `InOrder` is the sorted vertices by what they are, the one
increasing sequence. Integer overflow of weights (2^31 messages) is left out.

### RequestGeneration

One action for the type of the next operation and the length of a scan, one for each kind
of operation, one for a draw that is rejected. A distribution is the set of values it may
return: `uniform_int_distribution` the whole range, the zipfian distribution 0 to the
number of items (1 is returned even of one item), the scrambled one, a hash modulo the
range, the whole range, the latest one the last key minus a zipfian draw. Floating point
is left out, and so is `next_operation`'s exception when rounding leaves a remainder.
The file carries type, key and length; the length of other operations is empty, is left
unset when the file is read (`import_cs_request`) and used by nobody.

### Replicas

Replicas that populated keys 0 to `NInitialKeys` (`initialize_scheduler` counts to and
with `n_initial_keys`, so the first key inserted may be there already) execute one file.
What a replica may run next is taken from `OrderedExecution` (`Order(r)!Conflicting`),
which `Dispatch` is shown to implement for any map and any changes of it: a request waits
for the earlier ones that name one of its keys, and for no others. The workers of a
replica share one store; a scan reads key by key, each modulo the number of keys at that
moment, while other requests go on. Values are all the same template, so an answer is
the sequence of keys it is read from. A read of an absent key throws in the worker and
nothing catches it (`alive`). `settled` remembers the scans that began when no earlier
write was outstanding: those read the keys they name, though later insertions go on under
them and the keys present have gaps.

`replicas_scans_and_inserts` is a *finding*: with insertions outstanding, two replicas
answer the same scan differently. Insertions of earlier keys that the scan does not name
may belong to partitions it does not involve; where they are late, `storage_.size()`
(storage.cpp:36) is smaller than the key, and the scan wraps to key 0. README.md:3 says
the system is to "ensure consistency among replicas". In the
shortest trace keys 2 to 6 are inserted and key 4 is scanned: with three workers and
round robin, those of keys 3 and 5 are late while that of key 4 goes on.
Scans that begin settled are right, which all are with one
worker or without insertions, and reads and stores always are (`replicas`). So answers
may differ only on scans that an insertion precedes in the file and that began before it
was executed: `ReplicasAgreeUnlessInserting`, proved.

### LinkedQueue

Node n is the n-th message, node 0 the sentinel; nodes are never reused, so "freed" is a
set. Every access to the list, a flag or a semaphore is a step of the producer, which
submits as `Scheduler::submit` does, or of one of the two readers. `passed` is read with
acquire and set with release: a head that sees a flag set also sees what the other did
before, in particular to `free_head`, so steps in a single order are enough. Two readers
may both see the flag of a node unset; then neither frees at that node (`raced`) and the
next one makes good for it: that is what `Reclaimed` says. `free` is left out; nothing
calls it here.

## What the runs check

| Run | Instance | Shows |
|---|---|---|
| `dispatch_safety` | 2 partitions, keys 0..2 with key 0 populated, unbounded queues, up to 3 requests or map changes out of a write, a read and two scans | `ConflictOrder`, `ScanIsolation`, `EpochOrder`, `BarrierAlive` |
| `dispatch_live` | 3 partitions, queues of one message, two entries, scans over overlapping partitions | `NoCircleOfWaiting`, `EveryRequestExecuted`; `ImplementsOrderedExecution`, with its fairness |
| `replica_process` | 2 partitions, queues of one message, 3 requests | `QueuesSound`, `NoEarlyEnd`, `ReplicaEnds`; `ImplementsChannels`, with its fairness |
| `handshake_bounded` | distance 5 (2 and 3 ahead), 5 messages, rounds at any request | `CopyExclusive`, `CopyFresh`, `ImplementsTwoHeads`, `EverythingProcessed` |
| `handshake_old` | distance 0, a round after each request, 5 messages | `NoOverflow` where a semaphore starts full, `EverythingProcessed` |
| `async_repartition` | all variants, interval 2, 3 addresses | `HandoverExclusive`, `ActiveAllocated`, `NoLeak`, `NoOldMap`, `RoundEnds`; `ImplementsRounds`, with its fairness |
| `imbalance` | both variants, 3 partitions, two checks in a row, threshold 1/2, lengths up to 2, 4 requests | `RoundJustified`, `EvidenceActedOn`, `RatioOfOneWindow` |
| `graph_window` | history of 2, 5 messages out of two writes, scans of 1, 2 and 3 overlapping keys and END | the graph counts the window, its totals match, the copy is sound |
| `generation` | 5 records, 3 operations, all types and distributions, scans of 0, 2, 3 and 5 | `KeysServed`, `KeysDense`; the generation ends unless a scan is as long as the store (`GenerationEndsUnlessTooLong`) |
| `replicas` | 2 replicas, every file of 5 reads, insertions and scans of 1 or 2 keys | `ReadsFindKeys`, `StoresConverge`, `SettledScansReadTheirKeys` |
| `replicas_scans_and_inserts` | 2 replicas, 6 insertions or scans | a violation of `ReplicasAgree` (a finding) |
| `linked_queue` | distance 3 (1 and 2 ahead), 4 messages | `NoUseAfterFree`, `Reclaimed`, `ImplementsTwoHeads`, `EverythingPopped` |

Type invariants are proved, hence not repeated in the runs.

Why the bounds suffice. A violation of an order needs two conflicting requests and
something between them, a scan or a change of the map: three entries. Two partitions give
every pair of a home and a partition that only waits; three partitions with queues of
one message give two barriers whose sets of workers overlap without being equal, the
smallest way to build a circle of waiting. In the handshake the counters matter
relative to one another; five messages allow each head its whole lead and several
rounds. The state of `AsyncRepartition` is finite without any bound on requests; a
third address is needed for the map being computed while two others exist, and an
interval of two tells "at a multiple" from "always". `WorkloadGraph` needs more messages than
its history holds by two or three, so that scans leave while overlapping ones stay, and a
scan of three keys, the least in which an erased vertex is looked up again. The files
of `RequestGeneration` grow by what is inserted only, so three operations show every pair
of an insertion and a request after it. The disagreement of replicas needs two
insertions past the populated keys and a scan of the second that overtakes the first; one
insertion is of a populated key, and as a scan draws only keys well below the limit, two
more must precede it: six operations (with five there is no disagreement). In
`ReplicaProcess` a queue of one message is full after the first, and three
requests put one in the worker's hands, one in the queue and one before it, or spread
them over both workers, whose counters are then read at different moments.
`ImbalanceDetection` needs two checks for a row, a third after the round it leads to, and
requests between them: four; among three partitions one can be uneven while another is
not, and a row can pass from one to another.
In `LinkedQueue` a race at one node must be followed by one at which something is freed,
and a head must reach its limit: four messages. `MaxEntries`, `MaxMessages`,
`MaxRequests`, `MaxLength`, `NRequests`, `NOperations` and `SemValueMax` are the bounds;
`NRequests` and `NOperations` are the program's own. The last replaces 2^31 - 1, and the assumption
`SemValueMax > Distance + MaxMessages` says that as many messages never fit in memory.

### Fairness

`Dispatch`: the scheduling thread completes the pushes it began and the workers run on;
nothing forces a request to arrive. `RepartitionHandshake`: weak fairness of each of the
three threads up to END; the code's threads block only where the model's do.
`AsyncRepartition`: weak fairness of each thread, and requests keep arriving: a round
that is under way when the workload ends is not finished, in the code either. Weak
fairness of a whole thread is enough since each thread is sequential.

`RequestGeneration`: weak fairness of a draw that is accepted. The generators are
pseudo-random of long period, and a value of positive probability is drawn at last; no
such assumption helps when no key is acceptable, which is what `TooLong` isolates.
`LinkedQueue`: weak fairness of the producer and of each reader. `ReplicaProcess`: weak
fairness of `main`, of the workload, scheduling and metrics threads and of each worker;
`metrics_loop` sleeps between two sums and does not spin. `WorkloadGraph`,
`ImbalanceDetection` and `Replicas` have no fairness: their properties are about safety.

The models with an end allow stuttering for ever in their last states
(`Terminated`) and nowhere else, so that TLC's deadlock check is on in every run but
`imbalance`, whose model stops when `MaxRequests` are dispatched, as `OldImbScheduler`
does when requests stop.

## What is proved

For every number of partitions, keys and requests, every distance and interval:

* `DispatchProofs`: `TypeCorrect`, `Inductive`, `ConflictOrderTheorem`,
  `ScanIsolationTheorem`, `EpochOrderTheorem`, `BarrierAliveTheorem`,
  `NoCircleOfWaitingTheorem`, and `Implements`: the safety part of `OrderedExecution`.
* `ReplicaProcessProofs`: `Inductive` and from it `QueuesSound`, `NoEarlyEnd`,
  `NobodyLeftWaiting`, type correctness, and the safety part of `BoundedChannels`, for
  every capacity.
* `RepartitionHandshakeProofs`: `HandshakeInductive` and from it `NoEmptyPop`,
  `HeadDistance`, `CopyExclusive`, `CopyFresh`, `NoOverflow`, `NobodyLeftWaiting`, type
  correctness, and `ImplementsTwoHeads`.
* `AsyncRepartitionProofs`: `HandoverInductive` and from it `ActiveAllocated`,
  `HandoverExclusive`, `NoLeak`, `NoOldMap`, type correctness, and the safety part of
  `RepartitionRounds` (`ImplementsRoundsTheorem`), for all four schedulers.
* `WorkloadGraphProofs`: `GraphInductive` and from it `GraphInv`,
  `VerticesCountWindow`, `EdgesCountWindow`, type correctness; `TotalsInductive` and
  `TotalsMatch`; `CutDataSound`; for every length of the history and any set of requests.
* `ImbalanceDetectionProofs`: `Inductive` and from it `EvidenceActedOn`,
  `RatioOfOneWindow`, the action property `RoundJustified` and type correctness, for any
  partitions, threshold and length of a row.
* `LinkedQueueProofs`: `LinkedInductive` and from it `NoUseAfterFree`,
  `FreeExclusive`, `Reclaimed`, `HeadDistance`, `NobodyLeftWaiting`, `ImplementsTwoHeads`,
  for every distance.
* `ReplicasProofs`: `ReplicasInductive` and from it `ReadsFindKeys`, `StoresConverge`,
  `SettledScansReadTheirKeys`, `ReplicasAgreeUnlessInserting`, type correctness, for any
  number of replicas and any file the generator may write; `GenerationInductive` and from it the generator's
  `KeysServed`, `KeysDense` and type correctness, for any sizes, proportions and lengths.
  The generator's proofs stand first, as those of the replicas rest on them.

The assumptions are those the modules declare: there is a partition, requests name at
least one key of `Keys` (a scan of length 0 would dereference the end of an empty set),
and the ones on constants above.

**The argument for Dispatch.** `ConflictOrder` is not inductive: it says nothing of
messages in queues. The invariant speaks of the messages *outstanding* at a partition
(in process, queued or still to be pushed) and gives each a stamp, three times its entry
plus 0, 1 or 2 for the barrier before, the request, the barrier behind. Each partition
receives and processes by increasing stamp (`InOrder`); a barrier that one partition
has passed has nothing older outstanding at any of its partitions (`BarrierHolds`, from
the counts in `BarrierShape`); two conflicting requests share a partition or have a
sync-all between them (`ConflictsMeet`, from `MapAgrees`: until the next sync-all a key
stays in a partition that all earlier requests on it involve). So when the later one
runs, the earlier one has no message outstanding, hence is executed
(`RequestProgress`). `ScanIsolation` is `BarrierHolds` for the two barriers around a
request.

That no circle of waiting arises (`NoCircleOfWaiting`), with queues of any capacity, is
shown on the least stamp outstanding. Messages are pushed by increasing stamp
(`PushesByStamp`), so where the scheduling thread waits for a place in a queue, what the
queue queue holds has a smaller stamp, and the least one is already in the hands of its
workers (`OldestInHands`). If it is a request, its worker can go on; if it is a barrier, no
partition of it has anything older, so all of them stand at that barrier, which then opens. If it is a request, its worker can go on; if it is a barrier, no partition
of it has anything older, so all of them stand at that barrier, which then opens.

**The argument for the process.** `Tokens` accounts for every message announced and every
free place of a queue: in the semaphore, or in the hands of the scheduling thread or the
worker. So a worker that got a token finds a message, and a push that got a place fits.
`Places` says that a request is in one place of one partition, hence counted once;
`Sums` that the sum so far is at most the number of requests executed by the workers
visited, a number that only grows. So a sum equal to `NRequests` means that all of them
are executed, whatever was read when. `NobodyLeftWaiting` adds `NothingLost`: a request
taken from the workload is with the scheduling thread or in one place of a partition;
where every worker waits without a token, `Tokens` leaves the queues empty and every place
free.

**The argument for the handshake.** `Tokens` accounts for every token: in a semaphore,
in the hands of a thread on its way to `pop`, or used up. `free<1>` adds one token of
each kind, an answered note uses one of each; between the two one of each is spare, or
owed when the graph thread answers before both are posted. A note is not answered
while requests are missing from the graph, so while a spare token exists the graph
thread has a message to take: the last conjunct of `Tokens`. `Meeting` says where both
threads can be and by how much their arrivals at the barrier differ.
For `NobodyLeftWaiting`: two threads at the barrier are released; with one at it, the note
is not answered yet and the other has a token and a message on its way there. Away from
it the leads add up to more than zero, so both cannot lack one of the tokens that keep the
distance (`LeadSum`), and a thread that lacks a message has taken all there are. END is the
last message (`EndIsLast`) and a thread that has the note had one before it
(`OnlyNotified`).

**The argument for the asynchronous rounds.** `OneRound` counts the places a round
passes through and shows the sum is at most one, and that the flags say which; then the
maps are told apart by where the round is (`MapsApart`, `MapsFresh`).
With at most one place taken (`OnePlace`), each step of the three threads moves the round
on by one step of `RepartitionRounds` or leaves it; the map computed differs from the
active one because that one is still allocated.

**The argument for the graph.** Between messages the graph is determined by the window;
in the middle of one it is determined by the window and by how far the loops are. `Base`
is the set of messages counted in full, `PartOf` and `PartOfBoth` say for which keys and
pairs the current message already (or still) counts, and `GraphExact` equates the graph
with these counts: its vertices are the keys of positive weight and those that were
entered for an edge and await their turn, its edges the pairs of positive weight. The
removals are right because a weight is zero exactly when nothing names the key any more.
`QueueExact` ties the deletion queue to the log.

**The argument for the totals.** A weight of n is taken as a set of n units, so that a
total is the number of elements of a set (`UnitsOf`), which one increment or removal
changes by as many: `TotalsExact`, in every state. Only at the end the number of units is
equated with the sum the property is stated with; the library's induction theorems being
out of reach, that is proved from a least set of keys for which it would fail
(`LeastSubset`).

**The argument for the copy.** `Ends` is what the ends of the rows are, determined by the
rows alone; with it a place of the flattened sequence is exactly one place of one row
(`FlattenSound`, `RowWithin`, `RowsDisjoint`). A row enumerates the neighbours of its
vertex without repetition (`Enumerates`), so places and edges correspond one to one, and
there are as many of both. That the edges are those of the window is `GraphExact`.

**The argument for the imbalance detection.** `Rows` reads the counters: among the
latest checks a counter is the length of the row of those that found the evidence, up to
the newest; a counter that would exceed the limit is cleared with the round it begins.
`OldPlaces` and `AsyncPlaces` say that no check is made while a round is under way, and
`Windows` which of the two counters of a window is already that of the new one: a thread
in `imbalance` never sees the moment between them, since a window begins within a round.

**The argument for the generation.** `Inserted` says that the keys written so far are
those below the counter, the limit one less; a draw accepted is below the limit, with the
whole of a scan.

**The argument for the replicas.** A key that a request names was written by an earlier
request of the file or populated (`KeysServed`); that write conflicts with the request,
so it is executed when the request runs (`KeyStored`). A store holds the populated keys
and those of the writes executed (`Stores`), which gives `StoresConverge` at the end. For
a settled scan all earlier writes are executed, so the store begins with 0 up to the
scan's last key without a gap; it holds more keys than any number the scan takes modulo
(`KeyBelowSize`), which therefore does not wrap. A scan that no insertion precedes begins
settled (`AnswersBegun`), so two replicas that both answered it agree.

**The argument for the linked queue.** `Done` is the last node whose flag a head has
dealt with; the flags set are those of the nodes up to either `Done` (`FlagsExact`). So
a head that sees a flag set is behind the other (`FreeBehind`), which excludes that both
are, and what it frees lies behind both. A node that both have done without a race was
freed up to (`FreedUnlessRaced`). The tokens of either kind are accounted for exactly, and
the leads of the two heads add up to the distance: if either head may lead, not both can
lack a token that keeps it, and one that lacks a message has popped all (`NobodyLeftWaiting`).

The inductive invariants (`DispatchInv`, `HandshakeInv`, `HandoverInv`, `GraphInv`,
`LinkedInv`), `NoEmptyPop`, `HeadDistance`, `FreeExclusive`, the three `NobodyLeftWaiting`, `ReplicasAgreeUnlessInserting` and the type invariants
are proved and not listed in the runs; each can be added to the configuration of its module's
run. `ImplementsTwoHeads` says what `NoEmptyPop` and `HeadDistance` say, and more.

Every invariant the runs check is proved. Only model-checked are the liveness properties
(`EveryRequestExecuted`, `EverythingProcessed`, `RoundEnds`, `GenerationEndsUnlessTooLong`,
`EverythingPopped`, `ReplicaEnds`, the fairness parts of `ImplementsOrderedExecution`,
`ImplementsChannels` and `ImplementsRounds`), since the prover handles neither fairness nor
ENABLED.

## Not modelled, and the plan

Modelled in this order: `Dispatch` with `OrderedExecution`, the two modules on rounds,
the workload graph, the generator, the replicas, the linked queue, the process with the
queues of its partitions, the imbalance detection.

What the plan has left: to show that `Dispatch` keeps its theorems when the instants of
`ChangePartitionScheme` are those of `RepartitionRounds` and its queues the
`BoundedChannels` of `ReplicaProcess`, which today rests on the fact that `Dispatch`
allows any instant and any capacity.

Left out for good:

* METIS and KaHIP: external, any map is a possible result. Compression: a pure conversion.
* Reading configurations and files, pacing, reports, thread affinity: pure input and output.
* The libevent client, which is not built; the scripts under `experiments`.
* Destructors of `Scheduler` and `Partition`, which this program never runs, and the
  setters and queries of `Graph` and `Partition` that nothing calls.
* Floating point: the exception of `next_operation` when rounding leaves a remainder, the
  last digit of thresholds and averages.
* A scan of no keys, which dereferences the end of an empty set: excluded by an assumption
  of `Dispatch` and of `Replicas`.
