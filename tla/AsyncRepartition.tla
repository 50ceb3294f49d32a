-------------------------- MODULE AsyncRepartition --------------------------
(* Repartitioning beside the execution of requests: FreeScheduler and the    *)
(* schedulers derived from it.  The graph thread copies the workload graph   *)
(* into input_graph_ and posts a semaphore, the partitioning thread computes *)
(* a map from the copy, and the scheduling thread installs that map after    *)
(* one of its requests.  Two flags say where a round is: repartitioning_     *)
(* (one has begun) and update_ (its map is ready); in AsyncScheduler a third *)
(* one, repartition_, carries the order from the scheduling thread.          *)
(* src/scheduler/free_scheduler.hpp, non_stop_scheduler.hpp,                 *)
(* async_scheduler.hpp, async_imb_scheduler.hpp                              *)
(*                                                                           *)
(* The flags are atomic; what they hand over (the copy, the two pointers)    *)
(* is not, and every access to it is a step of its own.  Maps are objects    *)
(* that are allocated and freed.  Requests arrive without end, so no counter *)
(* of them is kept but the distance to operation_interval_.                  *)
EXTENDS Integers, FiniteSets

CONSTANTS
    Variants,  \* the schedulers to model, out of AllVariants
    Interval,  \* operation_interval_
    Maps       \* the addresses at which maps are allocated

(* FreeScheduler and AsyncScheduler measure their intervals in operations or *)
(* by the clock.  AsyncImbScheduler begins its rounds as FreeScheduler does  *)
(* by the clock, at any request: when the queues are out of balance.         *)
AllVariants == {"FREE", "FREE_CLOCK", "NON_STOP", "ASYNC", "ASYNC_CLOCK"}

ASSUME VariantsAssumption == Variants \subseteq AllVariants
ASSUME IntervalAssumption == Interval \in Nat \ {0}
ASSUME MapsAssumption == IsFiniteSet(Maps) /\ Cardinality(Maps) > 2

VARIABLES
    variant,        \* which scheduler runs
    scheduler,      \* where the scheduling thread is
    grapher,        \* where the graph thread is
    partitioner,    \* where the partitioning thread is
    repartitioning, \* repartitioning_
    update,         \* update_
    repartition,    \* repartition_ (AsyncScheduler)
    repartSem,      \* repart_semaphore_
    sinceStart,     \* requests dispatched in the interval, up to Interval
    active,         \* data_to_partition_
    spare,          \* updated_data_to_partition_
    temp,           \* the pointer a thread holds in a local variable
    allocated,      \* the maps that are allocated
    retired         \* those of them that have been active before (history)

flagVars == <<repartitioning, update, repartition, repartSem>>
mapVars == <<active, spare, temp, allocated, retired>>
vars == <<variant, scheduler, grapher, partitioner, flagVars, sinceStart,
          mapVars>>

Async == variant \in {"ASYNC", "ASYNC_CLOCK"}

Init ==
    /\ variant \in Variants
    /\ scheduler = "dispatch"
    /\ grapher = "update"
    /\ partitioner = "wait"
    /\ repartitioning = FALSE
    /\ update = FALSE
    /\ repartition = FALSE
    /\ repartSem = 0
    /\ sinceStart = 0
    /\ \E a, b \in Maps :
          /\ a # b
          /\ active = a
          /\ spare = b
          /\ allocated = {a, b}
    /\ temp = [t \in {"scheduler", "partitioner"} |-> active]
    /\ retired = {active}

-----------------------------------------------------------------------------
(* The scheduling thread                                                     *)

SchedulerGoes(from, to) == scheduler = from /\ scheduler' = to

(* dispatch reads the active map; then n_dispatched_requests_ is counted.    *)
(* FreeScheduler starts its intervals at multiples of Interval.              *)
Dispatch ==
    /\ SchedulerGoes("dispatch", "check")
    /\ sinceStart' = CASE variant = "FREE"  -> (sinceStart + 1) % Interval
                       [] variant = "ASYNC" -> IF sinceStart < Interval
                                               THEN sinceStart + 1 ELSE Interval
                       [] OTHER             -> sinceStart
    /\ UNCHANGED <<variant, grapher, partitioner, flagVars, mapVars>>

(* Whether AsyncScheduler's interval is over; a clock may say either.        *)
IntervalAchieved == CASE variant = "ASYNC"       -> {sinceStart >= Interval}
                      [] variant = "ASYNC_CLOCK" -> BOOLEAN

(* What the scheduling thread does next.  AsyncScheduler looks at update_    *)
(* only while a round is under way.                                          *)
CheckFlags ==
    /\ \/ /\ Async /\ ~repartitioning
          /\ \E achieved \in IntervalAchieved :
                SchedulerGoes("check", IF achieved THEN "order" ELSE "dispatch")
       \/ /\ Async => repartitioning
          /\ SchedulerGoes("check", IF update THEN "take" ELSE "dispatch")
    /\ UNCHANGED <<variant, grapher, partitioner, flagVars, sinceStart, mapVars>>

(* AsyncScheduler orders a round: repartition_, then repartitioning_.        *)
OrderRound ==
    /\ \/ /\ SchedulerGoes("order", "begin")
          /\ repartition' = TRUE
          /\ UNCHANGED repartitioning
       \/ /\ SchedulerGoes("begin", "dispatch")
          /\ repartitioning' = TRUE
          /\ UNCHANGED repartition
    /\ UNCHANGED <<variant, grapher, partitioner, update, repartSem, sinceStart,
                   mapVars>>

(* Mutant of GiveBack: the old map is not handed over to be deleted.         *)
GiveBackNothing ==
    /\ SchedulerGoes("give", "sync")
    /\ UNCHANGED spare

GiveBack ==
    /\ SchedulerGoes("give", "sync")
    /\ spare' = temp["scheduler"]

(* change_partition_scheme up to the messages of sync_all_partitions, which  *)
(* are in Dispatch: the two pointers are exchanged.                          *)
ChangePartitionScheme ==
    /\ \/ /\ SchedulerGoes("take", "give")
          /\ temp' = [temp EXCEPT !["scheduler"] = active]
          /\ active' = spare
          /\ retired' = retired \cup {spare}
          /\ UNCHANGED spare
       \/ GiveBack /\ UNCHANGED <<active, temp, retired>>
    /\ UNCHANGED <<variant, grapher, partitioner, flagVars, sinceStart, allocated>>

(* Mutant of CloseRound: the next round may begin before update_ is reset.   *)
CloseRoundReversed ==
    \/ /\ SchedulerGoes("sync", "close")
       /\ repartitioning' = FALSE
       /\ UNCHANGED update
    \/ /\ SchedulerGoes("close", "restart")
       /\ update' = FALSE
       /\ UNCHANGED repartitioning

(* Mutant of CloseRound: update_ stays set.                                  *)
CloseRoundKeepsUpdate ==
    \/ /\ SchedulerGoes("sync", "close")
       /\ UNCHANGED <<update, repartitioning>>
    \/ /\ SchedulerGoes("close", "restart")
       /\ repartitioning' = FALSE
       /\ UNCHANGED update

CloseRound ==
    \/ /\ SchedulerGoes("sync", "close")
       /\ update' = FALSE
       /\ UNCHANGED repartitioning
    \/ /\ SchedulerGoes("close", "restart")
       /\ repartitioning' = FALSE
       /\ UNCHANGED update

FinishRound ==
    /\ CloseRound
    /\ UNCHANGED <<variant, grapher, partitioner, repartition, repartSem,
                   sinceStart, mapVars>>

(* AsyncScheduler's next interval begins here (operation_start_).            *)
RestartInterval ==
    /\ SchedulerGoes("restart", "dispatch")
    /\ sinceStart' = IF variant = "ASYNC" THEN 0 ELSE sinceStart
    /\ UNCHANGED <<variant, grapher, partitioner, flagVars, mapVars>>

Scheduler ==
    \/ Dispatch \/ CheckFlags \/ OrderRound \/ ChangePartitionScheme
    \/ FinishRound \/ RestartInterval

-----------------------------------------------------------------------------
(* The graph thread                                                          *)

GrapherGoes(from, to) == grapher = from /\ grapher' = to

(* update_graph and expire for the next request.  The request adds a vertex  *)
(* that leaves the window later, so that n_vertex() > 0 holds from here on.  *)
UpdateGraph ==
    /\ GrapherGoes("update", "check")
    /\ UNCHANGED <<variant, scheduler, partitioner, flagVars, sinceStart, mapVars>>

(* Mutant of MayBegin: the graph thread does not look whether a round runs.  *)
MayBeginAnyway(b) ==
    IF Async THEN b = repartition
    ELSE b \in (CASE variant = "NON_STOP" -> {TRUE}
                  [] variant = "FREE"     -> {sinceStart = 0}
                  [] OTHER                -> BOOLEAN)

(* Whether the graph thread begins a round after a request: AsyncScheduler's *)
(* when it was told to, the others' when no round runs and, in their order,  *)
(* always, at a multiple of Interval, or when the clock or the imbalance of  *)
(* the queues says so.                                                       *)
MayBegin(b) ==
    IF Async THEN b = repartition
    ELSE IF repartitioning THEN b = FALSE
    ELSE b \in (CASE variant = "NON_STOP" -> {TRUE}
                  [] variant = "FREE"     -> {sinceStart = 0}
                  [] OTHER                -> BOOLEAN)

CheckRound ==
    /\ \E b \in BOOLEAN :
          /\ MayBegin(b)
          /\ GrapherGoes("check", IF b THEN "begin" ELSE "update")
    /\ UNCHANGED <<variant, scheduler, partitioner, flagVars, sinceStart, mapVars>>

(* AsyncScheduler's takes the order; the others' set repartitioning_.        *)
BeginRound ==
    /\ GrapherGoes("begin", "copy")
    /\ IF Async
       THEN repartition' = FALSE /\ UNCHANGED repartitioning
       ELSE repartitioning' = TRUE /\ UNCHANGED repartition
    /\ UNCHANGED <<variant, scheduler, partitioner, update, repartSem,
                   sinceStart, mapVars>>

(* order_partitioning: input_graph_ is overwritten, then the partitioning    *)
(* thread is woken.                                                          *)
OrderPartitioning ==
    /\ \/ GrapherGoes("copy", "post") /\ UNCHANGED repartSem
       \/ GrapherGoes("post", "update") /\ repartSem' = repartSem + 1
    /\ UNCHANGED <<variant, scheduler, partitioner, repartitioning, update,
                   repartition, sinceStart, mapVars>>

Grapher == UpdateGraph \/ CheckRound \/ BeginRound \/ OrderPartitioning

-----------------------------------------------------------------------------
(* The partitioning thread: partitioning_loop                                *)

PartitionerGoes(from, to) == partitioner = from /\ partitioner' = to

AwaitOrder ==
    /\ PartitionerGoes("wait", "delete")
    /\ repartSem > 0
    /\ repartSem' = repartSem - 1
    /\ UNCHANGED <<variant, scheduler, grapher, repartitioning, update,
                   repartition, sinceStart, mapVars>>

(* Mutant of FreeSpare: the map that was replaced is not deleted.            *)
FreeSpareNever == UNCHANGED <<allocated, retired>>

FreeSpare ==
    /\ allocated' = allocated \ {spare}
    /\ retired' = retired \ {spare}

DeleteSpare ==
    /\ PartitionerGoes("delete", "compute")
    /\ FreeSpare
    /\ UNCHANGED <<variant, scheduler, grapher, flagVars, sinceStart, active,
                   spare, temp>>

(* partitioning reads input_graph_ and allocates a map.                      *)
ComputeMap ==
    /\ PartitionerGoes("compute", "install")
    /\ \E m \in Maps \ allocated :
          /\ allocated' = allocated \cup {m}
          /\ temp' = [temp EXCEPT !["partitioner"] = m]
    /\ UNCHANGED <<variant, scheduler, grapher, flagVars, sinceStart, active,
                   spare, retired>>

InstallSpare ==
    /\ PartitionerGoes("install", "flag")
    /\ spare' = temp["partitioner"]
    /\ UNCHANGED <<variant, scheduler, grapher, flagVars, sinceStart, active, temp,
                   allocated, retired>>

RaiseUpdate ==
    /\ PartitionerGoes("flag", "wait")
    /\ update' = TRUE
    /\ UNCHANGED <<variant, scheduler, grapher, repartitioning, repartition,
                   repartSem, sinceStart, mapVars>>

Partitioner ==
    AwaitOrder \/ DeleteSpare \/ ComputeMap \/ InstallSpare \/ RaiseUpdate

-----------------------------------------------------------------------------
Next == Scheduler \/ Grapher \/ Partitioner

Safety == Init /\ [][Next]_vars

(* The threads run on, and requests keep arriving.                           *)
Fairness == WF_vars(Scheduler) /\ WF_vars(Grapher) /\ WF_vars(Partitioner)

Spec == Safety /\ Fairness

-----------------------------------------------------------------------------
(* Type correctness of the flags, the pointers and the threads' places.      *)
TypeOK ==
    /\ variant \in Variants
    /\ scheduler \in {"dispatch", "check", "order", "begin", "take", "give",
                      "sync", "close", "restart"}
    /\ grapher \in {"update", "check", "begin", "copy", "post"}
    /\ partitioner \in {"wait", "delete", "compute", "install", "flag"}
    /\ repartitioning \in BOOLEAN
    /\ update \in BOOLEAN
    /\ repartition \in BOOLEAN
    /\ repartSem \in 0 .. 1
    /\ sinceStart \in 0 .. Interval
    /\ active \in Maps
    /\ spare \in Maps
    /\ temp \in [{"scheduler", "partitioner"} -> Maps]
    /\ allocated \subseteq Maps
    /\ retired \subseteq Maps

(* The map requests are dispatched by is never one that was deleted, and the *)
(* partitioning thread never deletes a map twice or the active one           *)
(* (partitioning_loop, change_partition_scheme).                             *)
ActiveAllocated ==
    /\ active \in allocated
    /\ partitioner = "delete" => spare \in allocated \ {active}

(* input_graph_ is not overwritten while a map is computed from it, and the  *)
(* pointers are exchanged only while the partitioning thread is at rest      *)
(* (order_partitioning, partitioning_loop, change_partition_scheme).         *)
HandoverExclusive ==
    /\ grapher = "copy" => partitioner = "wait" /\ repartSem = 0
    /\ scheduler \in {"take", "give"} => partitioner = "wait" /\ repartSem = 0

(* No map is leaked: besides the active one there is the spare one and, at   *)
(* most, the one being installed or given back.                              *)
NoLeak ==
    \A m \in allocated \ {active, spare} :
        \/ partitioner = "install" /\ m = temp["partitioner"]
        \/ scheduler = "give" /\ m = temp["scheduler"]

(* A map that was replaced never becomes the active one again: each computed *)
(* map is installed at most once (schedule_and_answer).                      *)
NoOldMap == [][active' # active => active' \notin retired]_vars

(* A round that was begun ends: its map is computed and installed, so that   *)
(* the next round can begin (schedule_and_answer, update_graph_loop).        *)
RoundEnds == repartitioning ~> ~repartitioning

(* Where the round is that the flags and the three threads carry on.         *)
Ordered ==
    \/ scheduler = "order"
    \/ repartition
    \/ grapher \in {"copy", "post"}
    \/ grapher = "begin" /\ ~Async
    \/ repartSem > 0
    \/ partitioner # "wait"

Round ==
    IF scheduler \in {"give", "sync", "close"} THEN "installed"
    ELSE IF update THEN "computed"
    ELSE IF Ordered THEN "ordered"
    ELSE "none"

(* Although no flag tells where a round is, each order leads to one map,     *)
(* which is computed after it and installed once, before the next order; and *)
(* no map that was ordered is forgotten (the loops of the three threads).    *)
InRounds == INSTANCE RepartitionRounds
              WITH round <- Round,
                   computed <- IF Round = "computed" THEN spare ELSE active

ImplementsRounds == InRounds!Spec

-----------------------------------------------------------------------------
(* The inductive invariant behind the safety properties.                     *)

Holds(b) == IF b THEN 1 ELSE 0

(* The places between which a round passes, from its order to its end.       *)
Rounds ==
    Holds(scheduler = "order")
      + Holds(repartition)
      + Holds(grapher \in {"copy", "post"} \/ (grapher = "begin" /\ ~Async))
      + repartSem
      + Holds(partitioner # "wait")
      + Holds(update)
      + Holds(scheduler = "close")

(* At most one round is under way, and the flags say so.                     *)
OneRound ==
    /\ Rounds <= 1
    /\ scheduler \in {"take", "give", "sync"} => update
    /\ Async =>
          /\ repartitioning => scheduler \notin {"order", "begin"}
          /\ Rounds = 1 <=> repartitioning \/ scheduler \in {"order", "begin"}
          /\ grapher = "begin" => repartition
    /\ ~Async =>
          /\ scheduler \notin {"order", "begin"} /\ ~repartition
          /\ repartitioning <=> Rounds = 1 /\ grapher # "begin"

(* The maps that exist: the active one and one other, wherever that one is.  *)
MapsApart ==
    /\ IF partitioner = "compute" THEN allocated = {active}
       ELSE LET other == IF scheduler = "give" THEN temp["scheduler"]
                         ELSE IF partitioner = "install" THEN temp["partitioner"]
                         ELSE spare
            IN  other # active /\ allocated = {active, other}

(* A map on its way to being installed has not been active before.           *)
MapsFresh ==
    /\ active \in retired
    /\ retired \subseteq allocated
    /\ partitioner = "install" => temp["partitioner"] \notin retired
    /\ (partitioner = "flag" \/ (update /\ scheduler \notin {"give", "sync"}))
          => spare \notin retired

HandoverInv == TypeOK /\ OneRound /\ MapsApart /\ MapsFresh
=============================================================================
