--------------------------- MODULE ReplicaProcess ---------------------------
(* The life of the replica's process, from the construction of the scheduler *)
(* to the end of main: which thread starts and joins which, the queue of a   *)
(* partition semaphore by semaphore, and the metrics thread, whose sum over  *)
(* the workers' counters decides when the process may end.                   *)
(* src/replica.cpp, src/scheduler/partition.hpp and the constructor and run  *)
(* of src/scheduler/scheduler.hpp                                            *)
(*                                                                           *)
(* Each request goes to one partition here, any; barriers and the choice of  *)
(* the partition are in Dispatch, the queue the scheduling thread takes      *)
(* requests from in RepartitionHandshake.                                    *)
EXTENDS Integers, Sequences, FiniteSets

CONSTANTS
    NPartitions,   \* n_partitions
    NRequests,     \* the requests of the file
    Capacity       \* Capacity of the partitions' queues; 0 is unbounded

ASSUME NPartitionsAssumption == NPartitions \in Nat \ {0}
ASSUME NRequestsAssumption == NRequests \in Nat
ASSUME CapacityAssumption == Capacity \in Nat

Partition == 0 .. NPartitions - 1
Request == 1 .. NRequests

(* END follows the requests.                                                 *)
End == NRequests + 1

VARIABLES
    main,          \* where main is in run and initialize_scheduler
    started,       \* the partitions whose worker thread was started
    submitted,     \* how many messages workload_loop has submitted
    scheduler,     \* where the scheduling thread is
    taken,         \* how many messages it has taken
    target,        \* the partition it pushes to
    semaphore,     \* partition |-> semaphore_, the messages announced
    remaining,     \* partition |-> remaining_space_
    queue,         \* partition |-> the queue of either kind
    pushed,        \* partition |-> what was pushed to it (history)
    worker,        \* partition |-> where its worker is
    request,       \* partition |-> the request it holds
    n_executed,    \* partition |-> n_executed_requests_
    executed,      \* partition |-> the requests it executed (history)
    metrics,       \* where the metrics thread is
    visited,       \* the partitions whose counters were added up
    sum            \* the sum so far; at the end executed_requests

mainVars == <<main, started>>
schedulerVars == <<scheduler, taken, target>>
queueVars == <<semaphore, remaining, queue, pushed>>
workerVars == <<worker, request, n_executed, executed>>
metricsVars == <<metrics, visited, sum>>
vars == <<mainVars, submitted, schedulerVars, queueVars, workerVars, metricsVars>>

Nothing == 0

Init ==
    /\ main = "construct"
    /\ started = {}
    /\ submitted = 0
    /\ scheduler = "off"
    /\ taken = 0
    /\ target = 0
    /\ semaphore = [p \in Partition |-> 0]
    /\ remaining = [p \in Partition |-> 0]
    /\ queue = [p \in Partition |-> <<>>]
    /\ pushed = [p \in Partition |-> <<>>]
    /\ worker = [p \in Partition |-> "off"]
    /\ request = [p \in Partition |-> Nothing]
    /\ n_executed = [p \in Partition |-> 0]
    /\ executed = [p \in Partition |-> {}]
    /\ metrics = "off"
    /\ visited = {}
    /\ sum = 0

-----------------------------------------------------------------------------
(* main                                                                      *)

MainGoes(from, to) == main = from /\ main' = to

(* The constructor starts the scheduling thread, long before the workers;    *)
(* process_populate_request follows for every initial key (WorkloadGraph).   *)
Construct ==
    /\ MainGoes("construct", "run")
    /\ scheduler' = "idle"
    /\ UNCHANGED <<started, taken, target, queueVars, workerVars, metricsVars>>

(* run: start_worker_thread initialises the semaphores of the partition.     *)
StartWorker(p) ==
    /\ main = "run" /\ p \notin started
    /\ started' = started \cup {p}
    /\ main' = IF started' = Partition THEN "metrics" ELSE main
    /\ semaphore' = [semaphore EXCEPT ![p] = 0]
    /\ remaining' = [remaining EXCEPT ![p] = Capacity]
    /\ worker' = [worker EXCEPT ![p] = "wait"]
    /\ UNCHANGED <<schedulerVars, queue, pushed, request, n_executed, executed,
                   metricsVars>>

StartMetrics ==
    /\ MainGoes("metrics", "workload")
    /\ metrics' = "test"
    /\ UNCHANGED <<started, schedulerVars, queueVars, workerVars, visited, sum>>

(* The workload thread submits from here on.                                 *)
StartWorkload ==
    /\ MainGoes("workload", "join_scheduler")
    /\ UNCHANGED <<started, schedulerVars, queueVars, workerVars, metricsVars>>

(* After the third join main deletes the messages, writes the report and     *)
(* returns, while the workers wait for ever.                                 *)
Join ==
    /\ \/ MainGoes("join_scheduler", "join_workload") /\ scheduler = "ended"
       \/ MainGoes("join_workload", "join_metrics") /\ submitted = End
       \/ MainGoes("join_metrics", "report") /\ metrics = "ended"
       \/ MainGoes("report", "exited")
    /\ UNCHANGED <<started, schedulerVars, queueVars, workerVars, metricsVars>>

Main ==
    /\ \/ Construct \/ \E p \in Partition : StartWorker(p)
       \/ StartMetrics \/ StartWorkload \/ Join
    /\ UNCHANGED submitted

(* When main returns every other thread ends where it is.                    *)
Running == main # "exited"

-----------------------------------------------------------------------------
(* workload_loop                                                             *)

(* Mutant of Started: the workload starts as soon as the scheduler exists.   *)
StartedEarly == scheduler # "off"

Started == main \in {"join_scheduler", "join_workload", "join_metrics"}

Submit ==
    /\ Started
    /\ submitted < End
    /\ submitted' = submitted + 1
    /\ UNCHANGED <<mainVars, schedulerVars, queueVars, workerVars, metricsVars>>

-----------------------------------------------------------------------------
(* scheduling_loop and push_request                                          *)

SchedulerGoes(from, to) == scheduler = from /\ scheduler' = to

Bounded == Capacity > 0

TakeMessage ==
    /\ taken < submitted
    /\ taken' = taken + 1
    /\ IF taken' = End
       THEN SchedulerGoes("idle", "ended") /\ UNCHANGED target
       ELSE /\ SchedulerGoes("idle", IF Bounded THEN "space" ELSE "push")
            /\ target' \in Partition
    /\ UNCHANGED queueVars

(* Mutant of WaitSpace: a full queue does not make the scheduler wait.       *)
WaitSpaceUnchecked ==
    /\ SchedulerGoes("space", "push")
    /\ remaining' = [remaining EXCEPT ![target] = @ - 1]
    /\ UNCHANGED <<taken, target, semaphore, queue, pushed>>

WaitSpace ==
    /\ SchedulerGoes("space", "push")
    /\ remaining[target] > 0
    /\ remaining' = [remaining EXCEPT ![target] = @ - 1]
    /\ UNCHANGED <<taken, target, semaphore, queue, pushed>>

(* A ring that is full refuses the request, and nobody looks at the result.  *)
Fits(p) == ~Bounded \/ Len(queue[p]) < Capacity

PushToQueue ==
    /\ SchedulerGoes("push", "post")
    /\ queue' = IF Fits(target)
                THEN [queue EXCEPT ![target] = Append(@, taken)] ELSE queue
    /\ pushed' = [pushed EXCEPT ![target] = Append(@, taken)]
    /\ UNCHANGED <<taken, target, semaphore, remaining>>

PostSemaphore ==
    /\ SchedulerGoes("post", "idle")
    /\ semaphore' = [semaphore EXCEPT ![target] = @ + 1]
    /\ UNCHANGED <<taken, target, remaining, queue, pushed>>

Scheduler ==
    /\ Running
    /\ TakeMessage \/ WaitSpace \/ PushToQueue \/ PostSemaphore
    /\ UNCHANGED <<mainVars, submitted, workerVars, metricsVars>>

-----------------------------------------------------------------------------
(* thread_loop and pop_request                                               *)

WorkerGoes(p, from, to) == worker[p] = from /\ worker' = [worker EXCEPT ![p] = to]

WaitSemaphore(p) ==
    /\ WorkerGoes(p, "wait", "pop")
    /\ semaphore[p] > 0
    /\ semaphore' = [semaphore EXCEPT ![p] = @ - 1]
    /\ UNCHANGED <<remaining, queue, pushed, request, n_executed, executed>>

PopFromQueue(p) ==
    /\ WorkerGoes(p, "pop", IF Bounded THEN "release" ELSE "execute")
    /\ queue[p] # <<>>
    /\ request' = [request EXCEPT ![p] = Head(queue[p])]
    /\ queue' = [queue EXCEPT ![p] = Tail(@)]
    /\ UNCHANGED <<semaphore, remaining, pushed, n_executed, executed>>

(* Mutant of ReleaseSpace: the space is never given back.                    *)
ReleaseSpaceNot(p) ==
    /\ WorkerGoes(p, "release", "execute")
    /\ UNCHANGED <<queueVars, request, n_executed, executed>>

ReleaseSpace(p) ==
    /\ WorkerGoes(p, "release", "execute")
    /\ remaining' = [remaining EXCEPT ![p] = @ + 1]
    /\ UNCHANGED <<semaphore, queue, pushed, request, n_executed, executed>>

Execute(p) ==
    /\ WorkerGoes(p, "execute", "wait")
    /\ n_executed' = [n_executed EXCEPT ![p] = @ + 1]
    /\ executed' = [executed EXCEPT ![p] = @ \cup {request[p]}]
    /\ request' = [request EXCEPT ![p] = Nothing]
    /\ UNCHANGED queueVars

Worker(p) ==
    /\ Running
    /\ WaitSemaphore(p) \/ PopFromQueue(p) \/ ReleaseSpace(p) \/ Execute(p)
    /\ UNCHANGED <<mainVars, submitted, schedulerVars, metricsVars>>

-----------------------------------------------------------------------------
(* metrics_loop: the counters are read one after the other, in the order of  *)
(* a hash table, while the workers go on counting.                           *)

TestExecuted ==
    /\ metrics = "test"
    /\ IF sum < NRequests
       THEN metrics' = "add" /\ sum' = 0 /\ visited' = {}
       ELSE metrics' = "ended" /\ UNCHANGED <<sum, visited>>

(* Mutant of Summand: what was taken is counted, executed or not.            *)
SummandTaken(p) == n_executed[p] + (IF request[p] # Nothing THEN 1 ELSE 0)

Summand(p) == n_executed[p]

AddCounter(p) ==
    /\ metrics = "add" /\ p \notin visited
    /\ sum' = sum + Summand(p)
    /\ visited' = visited \cup {p}
    /\ metrics' = IF visited' = Partition THEN "test" ELSE "add"

Metrics ==
    /\ Running
    /\ TestExecuted \/ \E p \in Partition : AddCounter(p)
    /\ UNCHANGED <<mainVars, submitted, schedulerVars, queueVars, workerVars>>

-----------------------------------------------------------------------------

Terminated == ~Running /\ UNCHANGED vars

Next ==
    \/ Main \/ Submit \/ Scheduler \/ (\E p \in Partition : Worker(p)) \/ Metrics
    \/ Terminated

Safety == Init /\ [][Next]_vars

(* Every thread runs on.                                                     *)
Fairness ==
    /\ WF_vars(Main) /\ WF_vars(Submit) /\ WF_vars(Scheduler) /\ WF_vars(Metrics)
    /\ \A p \in Partition : WF_vars(Worker(p))

Spec == Safety /\ Fairness

-----------------------------------------------------------------------------

TypeOK ==
    /\ main \in {"construct", "run", "metrics", "workload", "join_scheduler",
                 "join_workload", "join_metrics", "report", "exited"}
    /\ started \subseteq Partition
    /\ submitted \in 0..End /\ taken \in 0..End
    /\ scheduler \in {"off", "idle", "space", "push", "post", "ended"}
    /\ target \in Partition
    /\ semaphore \in [Partition -> Nat]
    /\ remaining \in [Partition -> 0..Capacity]
    /\ queue \in [Partition -> Seq(Request)]
    /\ worker \in [Partition -> {"off", "wait", "pop", "release", "execute"}]
    /\ request \in [Partition -> Request \cup {Nothing}]
    /\ n_executed \in [Partition -> Nat]
    /\ metrics \in {"off", "test", "add", "ended"}
    /\ visited \subseteq Partition
    /\ sum \in Nat
    /\ pushed \in [Partition -> Seq(Request)]
    /\ executed \in [Partition -> SUBSET Request]

(* The two semaphores of a partition keep the queue sound though its ring    *)
(* checks nothing: none is used before start_worker_thread initialises it,   *)
(* no worker takes from an empty queue and no request is pushed to a full    *)
(* one, where it would be dropped in silence.                                *)
QueuesSound ==
    /\ scheduler \in {"space", "push", "post"} => target \in started
    /\ \A p \in Partition : worker[p] = "pop" => queue[p] # <<>>
    /\ scheduler = "push" => Fits(target)

(* The process reports and ends only when every request has been executed    *)
(* and no worker is at work on one, whose storage is destroyed with the      *)
(* process (at most barriers, which are left out here, are still queued);    *)
(* the sum of counters that other threads go on writing never runs ahead.    *)
NoEarlyEnd ==
    main \in {"report", "exited"} =>
        /\ UNION {executed[p] : p \in Partition} = Request
        /\ \A p \in Partition : worker[p] = "wait" /\ queue[p] = <<>>

(* What the scheduling thread and a worker may be waiting for.               *)
SchedulerWaits ==
    \/ scheduler = "idle" /\ taken = submitted
    \/ scheduler = "space" /\ remaining[target] = 0
    \/ scheduler = "ended"

WorkerWaits(p) == worker[p] = "wait" /\ semaphore[p] = 0

(* A full queue never stops the scheduling thread for ever, nor is a request *)
(* lost on its way: when it and every worker wait, it has taken every message*)
(* that was submitted and every request among them has been executed.        *)
NobodyLeftWaiting ==
    (SchedulerWaits /\ \A p \in Partition : WorkerWaits(p))
        => /\ scheduler # "space" /\ taken = submitted
           /\ \A r \in Request : r <= submitted => \E p \in Partition : r \in executed[p]

(* The process does end: the threads are started before they are needed,     *)
(* none waits for a message that was announced to nobody, and the counters   *)
(* reach the number of requests.                                             *)
ReplicaEnds == <>(main = "exited")

-----------------------------------------------------------------------------
(* A request is sent with its push and received with its pop.                *)
Popped(p) == Len(pushed[p]) - Len(queue[p])

Channels == INSTANCE BoundedChannels
              WITH Ends <- Partition, Messages <- Request,
                   sent <- pushed, received <- [p \in Partition |-> Popped(p)]

(* The queue of a partition is the channel that Dispatch assumes it to be,   *)
(* also when it is full, and what is in it is taken out at last.             *)
ImplementsChannels == Channels!Spec
=============================================================================
