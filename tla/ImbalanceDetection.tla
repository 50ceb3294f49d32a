------------------------- MODULE ImbalanceDetection -------------------------
(* When OldImbScheduler and AsyncImbScheduler start a round: imbalance looks *)
(* at the lengths of the partitions' queues and at the share of requests     *)
(* over several partitions, and asks for a round when it has found one of    *)
(* them out of bounds more than MaxSucessiveImbalances times in a row.       *)
(* src/scheduler/async_imb_scheduler.hpp, src/scheduler/old_imb_scheduler.hpp*)
(*                                                                           *)
(* The clock decides when imbalance is called: at any request here, as with  *)
(* the interval in MICROSECONDS that replica.cpp builds both schedulers for. *)
(* What a round does is in RepartitionHandshake and in AsyncRepartition.     *)
EXTENDS Integers, Sequences, FiniteSets, Functions

CONSTANTS
    Partition,                \* the keys of partitions_
    MaxSucessiveImbalances,
    ThresholdNumerator,       \* balance_threshold_ as a fraction
    ThresholdDenominator,
    MaxLength,                \* bound of the lengths of the queues
    MaxRequests               \* bound of the requests dispatched

ASSUME PartitionAssumption == IsFiniteSet(Partition) /\ Partition # {}
ASSUME MaxSucessiveImbalancesAssumption == MaxSucessiveImbalances \in Nat
ASSUME ThresholdAssumption ==
    ThresholdNumerator \in Nat /\ ThresholdDenominator \in Nat \ {0}
ASSUME BoundsAssumption == MaxLength \in Nat /\ MaxRequests \in Nat

VARIABLES
    variant,                  \* which of the two schedulers runs
    n_dispatched_requests,
    cross_partition_count,
    operation_start,          \* the first two, when the window of the ratio began
    cross_operation_start,
    sucessive_imbalance,      \* partition |-> checks in a row that found it uneven
    sucessive_cross,          \* sucessive_cross_partition_intensive_
    repartitioning,           \* a round was asked for and is not over
    ordered,                  \* repart_semaphore_
    update,                   \* update_
    scheduler,                \* where the scheduling thread is
    checker,                  \* where the thread in imbalance is
    crossRead,                \* what is_cross_partition_intensive has read
    dispatchedRead,
    window,                   \* the two counters when the window began (history)
    lengthChecks,             \* the latest checks of the lengths (history)
    crossChecks               \* the latest checks of the ratio (history)

counterVars == <<n_dispatched_requests, cross_partition_count>>
startVars == <<operation_start, cross_operation_start, window>>
roundVars == <<repartitioning, ordered, update>>
checkVars == <<checker, crossRead, dispatchedRead, sucessive_imbalance, sucessive_cross>>
historyVars == <<lengthChecks, crossChecks>>
vars == <<variant, scheduler, counterVars, startVars, roundVars, checkVars, historyVars>>

Unread == -1

Cleared == [p \in Partition |-> 0]

Init ==
    /\ variant \in {"OldImb", "AsyncImb"}
    /\ n_dispatched_requests = 0 /\ cross_partition_count = 0
    /\ operation_start = 0 /\ cross_operation_start = 0
    /\ sucessive_imbalance = Cleared /\ sucessive_cross = 0
    /\ repartitioning = FALSE /\ ordered = FALSE /\ update = FALSE
    /\ scheduler = "idle" /\ checker = "off"
    /\ crossRead = Unread /\ dispatchedRead = Unread
    /\ window = <<0, 0>>
    /\ lengthChecks = <<>> /\ crossChecks = <<>>

SchedulerGoes(from, to) == scheduler = from /\ scheduler' = to
CheckerGoes(from, to) == checker = from /\ checker' = to

-----------------------------------------------------------------------------
(* schedule_and_answer                                                       *)

(* dispatch counts the request over several partitions before the caller     *)
(* counts the request.                                                       *)
Dispatch ==
    /\ n_dispatched_requests < MaxRequests
    /\ SchedulerGoes("idle", "count")
    /\ \E isCross \in {0, 1} : cross_partition_count' = cross_partition_count + isCross
    /\ UNCHANGED <<n_dispatched_requests, startVars, roundVars, checkVars, historyVars>>

CountDispatched ==
    /\ SchedulerGoes("count", IF variant = "OldImb" THEN "interval" ELSE "update")
    /\ n_dispatched_requests' = n_dispatched_requests + 1
    /\ UNCHANGED <<cross_partition_count, startVars, roundVars, checkVars, historyVars>>

(* OldImb: whether the interval is over is for the clock to say.             *)
TestInterval ==
    /\ \/ SchedulerGoes("interval", "idle") /\ UNCHANGED checker
       \/ SchedulerGoes("interval", "check") /\ CheckerGoes("off", "compare")
    /\ UNCHANGED <<counterVars, startVars, roundVars, crossRead, dispatchedRead,
                   sucessive_imbalance, sucessive_cross, historyVars>>

(* OldImb waits for the round, if there is one, and begins a new window.     *)
RestartOld ==
    /\ variant = "OldImb"
    /\ SchedulerGoes("restart", "idle")
    /\ operation_start' = n_dispatched_requests
    /\ cross_operation_start' = cross_partition_count
    /\ window' = <<n_dispatched_requests, cross_partition_count>>
    /\ repartitioning' = FALSE
    /\ IF repartitioning THEN lengthChecks' = <<>> /\ crossChecks' = <<>>
                         ELSE UNCHANGED historyVars
    /\ UNCHANGED <<counterVars, ordered, update, checkVars>>

(* AsyncImb: the new map is installed and a new window begins with it.       *)
TestUpdate ==
    /\ IF update
       THEN /\ SchedulerGoes("update", "start")
            /\ window' = <<n_dispatched_requests, cross_partition_count>>
       ELSE SchedulerGoes("update", "idle") /\ UNCHANGED window
    /\ update' = FALSE
    /\ UNCHANGED <<counterVars, operation_start, cross_operation_start,
                   repartitioning, ordered, checkVars, historyVars>>

(* Mutant of SetOperationStart: the round is over before the window begins.  *)
SetOperationStartEnded ==
    /\ SchedulerGoes("start", "cross_start")
    /\ operation_start' = n_dispatched_requests
    /\ repartitioning' = FALSE
    /\ UNCHANGED <<counterVars, cross_operation_start, window, ordered, update,
                   checkVars, historyVars>>

SetOperationStart ==
    /\ SchedulerGoes("start", "cross_start")
    /\ operation_start' = n_dispatched_requests
    /\ UNCHANGED <<counterVars, cross_operation_start, window, roundVars, checkVars,
                   historyVars>>

SetCrossStart ==
    /\ SchedulerGoes("cross_start", "release")
    /\ cross_operation_start' = cross_partition_count
    /\ UNCHANGED <<counterVars, operation_start, window, roundVars, checkVars,
                   historyVars>>

EndRound ==
    /\ SchedulerGoes("release", "idle")
    /\ repartitioning' = FALSE
    /\ lengthChecks' = <<>> /\ crossChecks' = <<>>
    /\ UNCHANGED <<counterVars, startVars, ordered, update, checkVars>>

Scheduler ==
    /\ \/ Dispatch \/ CountDispatched \/ TestInterval \/ RestartOld
       \/ TestUpdate \/ SetOperationStart \/ SetCrossStart \/ EndRound
    /\ UNCHANGED variant

(* partitioning_loop                                                         *)
Partitioning ==
    /\ ordered
    /\ ordered' = FALSE /\ update' = TRUE
    /\ UNCHANGED <<variant, scheduler, counterVars, startVars, repartitioning,
                   checkVars, historyVars>>

-----------------------------------------------------------------------------
(* imbalance, called by the scheduling thread of OldImb and by the graph     *)
(* thread of AsyncImb, beside which the scheduling thread goes on counting.  *)

BeginCheck ==
    /\ variant = "AsyncImb" /\ ~repartitioning
    /\ CheckerGoes("off", "compare")
    /\ UNCHANGED <<variant, scheduler, counterVars, startVars, roundVars, crossRead,
                   dispatchedRead, sucessive_imbalance, sucessive_cross, historyVars>>

CompareDispatched ==
    /\ CheckerGoes("compare",
                   IF n_dispatched_requests > operation_start THEN "read" ELSE "lengths")
    /\ UNCHANGED <<crossRead, dispatchedRead, sucessive_imbalance, sucessive_cross,
                   scheduler, roundVars, historyVars>>

(* The operands of the division are read in either order.                    *)
ReadCounters ==
    /\ checker = "read"
    /\ \/ /\ crossRead = Unread
          /\ crossRead' = cross_partition_count - cross_operation_start
          /\ UNCHANGED dispatchedRead
       \/ /\ dispatchedRead = Unread
          /\ dispatchedRead' = n_dispatched_requests - operation_start
          /\ UNCHANGED crossRead
    /\ UNCHANGED <<checker, sucessive_imbalance, sucessive_cross, scheduler, roundVars,
                   historyVars>>

(* imbalance has returned result.                                            *)
Answer(result) ==
    /\ repartitioning' = result
    /\ ordered' = (result /\ variant = "AsyncImb")
    /\ scheduler' = IF variant = "OldImb" THEN "restart" ELSE scheduler
    /\ checker' = "off"
    /\ UNCHANGED update

(* The history keeps the checks that can matter yet.                         *)
Latest(checks, check) ==
    LET all == Append(checks, check)
    IN  IF Len(all) > MaxSucessiveImbalances + 1 THEN Tail(all) ELSE all

(* Mutant of Exceeds: it takes one check more.                               *)
ExceedsLate(count) == count > MaxSucessiveImbalances + 1

Exceeds(count) == count > MaxSucessiveImbalances

IsCrossIntensive ==
    crossRead * ThresholdDenominator > ThresholdNumerator * dispatchedRead

JudgeCross ==
    /\ checker = "read" /\ crossRead # Unread /\ dispatchedRead # Unread
    /\ crossRead' = Unread /\ dispatchedRead' = Unread
    /\ crossChecks' = Latest(crossChecks, IsCrossIntensive)
    /\ LET count == IF IsCrossIntensive THEN sucessive_cross + 1 ELSE 0
       IN  IF Exceeds(count)
           THEN /\ Answer(TRUE)
                /\ sucessive_cross' = 0 /\ sucessive_imbalance' = Cleared
           ELSE /\ sucessive_cross' = count
                /\ checker' = "lengths"
                /\ UNCHANGED <<sucessive_imbalance, scheduler, roundVars>>
    /\ UNCHANGED lengthChecks

(* |length - average| > average * threshold, without the division.           *)
Uneven(length) ==
    LET sum == FoldFunction(+, 0, length)
        distance(p) == LET d == Cardinality(Partition) * length[p] - sum
                       IN  IF d < 0 THEN -d ELSE d
    IN  {p \in Partition :
            distance(p) * ThresholdDenominator > sum * ThresholdNumerator}

(* The lengths are read one by one while the queues change.                  *)
UnevenReads == {Uneven(length) : length \in [Partition -> 0..MaxLength]}

Recount(uneven) ==
    [p \in Partition |-> IF p \in uneven THEN sucessive_imbalance[p] + 1 ELSE 0]

(* Mutant of JudgeLengths: the row of the other kind of evidence goes on.    *)
JudgeLengthsKept ==
    /\ checker = "lengths"
    /\ \E uneven \in UnevenReads :
        LET count == Recount(uneven)
            result == \E p \in Partition : Exceeds(count[p])
        IN  /\ Answer(result)
            /\ sucessive_imbalance' = IF result THEN Cleared ELSE count
            /\ lengthChecks' = Latest(lengthChecks, uneven)
    /\ UNCHANGED <<crossRead, dispatchedRead, sucessive_cross, crossChecks>>

JudgeLengths ==
    /\ checker = "lengths"
    /\ \E uneven \in UnevenReads :
        LET count == Recount(uneven)
            result == \E p \in Partition : Exceeds(count[p])
        IN  /\ Answer(result)
            /\ sucessive_imbalance' = IF result THEN Cleared ELSE count
            /\ sucessive_cross' = IF result THEN 0 ELSE sucessive_cross
            /\ lengthChecks' = Latest(lengthChecks, uneven)
    /\ UNCHANGED <<crossRead, dispatchedRead, crossChecks>>

Imbalance ==
    /\ CompareDispatched \/ ReadCounters \/ JudgeCross \/ JudgeLengths
    /\ UNCHANGED <<variant, counterVars, startVars>>

-----------------------------------------------------------------------------

Next == Scheduler \/ Partitioning \/ BeginCheck \/ Imbalance

Spec == Init /\ [][Next]_vars

-----------------------------------------------------------------------------

TypeOK ==
    /\ variant \in {"OldImb", "AsyncImb"}
    /\ n_dispatched_requests \in Nat /\ cross_partition_count \in Nat
    /\ operation_start \in Nat /\ cross_operation_start \in Nat
    /\ sucessive_imbalance \in [Partition -> 0..MaxSucessiveImbalances]
    /\ sucessive_cross \in 0..MaxSucessiveImbalances
    /\ repartitioning \in BOOLEAN /\ ordered \in BOOLEAN /\ update \in BOOLEAN
    /\ scheduler \in {"idle", "count", "interval", "check", "restart", "update",
                      "start", "cross_start", "release"}
    /\ checker \in {"off", "compare", "read", "lengths"}
    /\ crossRead \in Nat \cup {Unread} /\ dispatchedRead \in Nat \cup {Unread}
    /\ window \in Nat \X Nat
    /\ lengthChecks \in Seq(SUBSET Partition)
    /\ crossChecks \in Seq(BOOLEAN)

InARow(checks, holds(_)) ==
    /\ Len(checks) > MaxSucessiveImbalances
    /\ \A i \in DOMAIN checks : holds(checks[i])

(* The evidence for a round: one partition uneven, or the ratio too high, in *)
(* each of the latest checks since the round before.                         *)
Evidence ==
    \/ \E p \in Partition : InARow(lengthChecks, LAMBDA uneven : p \in uneven)
    \/ InARow(crossChecks, LAMBDA intensive : intensive)

(* A round stops the replica or costs a partitioning: it begins only on      *)
(* evidence in a row, and evidence that led to a round counts for no second. *)
RoundJustified == [][~repartitioning /\ repartitioning' => Evidence']_vars

(* Evidence in a row is never left without its round.                        *)
EvidenceActedOn == Evidence => repartitioning

(* The ratio is one of requests of one window: the two counters it starts    *)
(* from belong to one moment, and the difference that divides is not zero,   *)
(* whatever the scheduling thread counts and installs meanwhile.             *)
RatioOfOneWindow ==
    /\ checker \in {"compare", "read"} =>
          <<operation_start, cross_operation_start>> = window
    /\ crossRead # Unread => crossRead >= 0
    /\ dispatchedRead # Unread => dispatchedRead > 0
=============================================================================
