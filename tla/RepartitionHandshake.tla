------------------------ MODULE RepartitionHandshake ------------------------
(* The two threads of Scheduler (and OldImbScheduler) that read every        *)
(* submitted message: the scheduling thread (head 0) dispatches it, the      *)
(* graph thread (head 1) folds it into the workload graph.  They share a     *)
(* queue with two heads, whose semaphores bound how far one may run ahead of *)
(* the other.  To compute a new map the scheduling thread leaves a note,     *)
(* frees the graph thread from its wait and meets it at a barrier twice; in  *)
(* between it copies the graph.                                              *)
(* src/scheduler/scheduler.hpp, src/queue/queue.hpp                          *)
(*                                                                           *)
(* Messages are numbered by the order of their submission, the last one      *)
(* being END.  A queue is then the interval between what was pushed and what *)
(* was popped at its head, and the graph is the number of messages in it.    *)
(* What dispatching and installing a map do is in Dispatch.                  *)
EXTENDS Integers, Sequences

CONSTANTS
    Distance,     \* queue_head_distance
    SemValueMax,  \* SEM_VALUE_MAX, the greatest value a semaphore holds
    Interval,     \* operation_interval_; 0: a clock or the imbalance decides
    MaxMessages   \* bound: how many messages are submitted, END included

ASSUME DistanceAssumption == Distance \in Nat
ASSUME IntervalAssumption == Interval \in Nat
ASSUME MaxMessagesAssumption == MaxMessages \in Nat \ {0}

(* 2^31 - 1 is out of reach of the messages in memory and of the distance.   *)
ASSUME SemValueMaxAssumption ==
    SemValueMax \in Nat /\ SemValueMax > Distance + MaxMessages

Head0 == 0   \* the scheduling thread's
Head1 == 1   \* the graph thread's
Heads == {Head0, Head1}

Other(h) == 1 - h

VARIABLES
    pushed,       \* per head: how many messages its queue has received
    popped,       \* per head: how many it has given away
    sem,          \* per head: semaphores, the messages announced
    ahead,        \* per head: ahead_sems, how far it may still run ahead
    submitter,    \* where the submitting thread is in submit
    scheduler,    \* where the scheduling thread is
    grapher,      \* where the graph thread is
    dispatched,   \* n_dispatched_requests_
    processed,    \* n_processed_requests_
    note,         \* note_
    tracked,      \* the messages folded into workload_graph_
    arrivals,     \* per thread: how often it arrived at repartition_barrier_
    snapshots     \* the copies of the graph that were made (history)

queueVars == <<pushed, popped, sem, ahead>>
handshakeVars == <<dispatched, processed, note, tracked, arrivals, snapshots>>
vars == <<queueVars, submitter, scheduler, grapher, handshakeVars>>

(* distance 0 is the old tracking: the graph thread never leads, and the     *)
(* scheduling thread leads as far as a semaphore counts.                     *)
Lead == IF Distance = 0
        THEN [h \in Heads |-> IF h = Head0 THEN SemValueMax ELSE 0]
        ELSE [h \in Heads |-> IF h = Head0 THEN Distance \div 2
                                           ELSE Distance - Distance \div 2]

IsEnd(m) == m = MaxMessages

Init ==
    /\ pushed = [h \in Heads |-> 0]
    /\ popped = [h \in Heads |-> 0]
    /\ sem = [h \in Heads |-> 0]
    /\ ahead = Lead
    /\ submitter = "push0"
    /\ scheduler = "wait"
    /\ grapher = "wait"
    /\ dispatched = 0
    /\ processed = 0
    /\ note = FALSE
    /\ tracked = 0
    /\ arrivals = [h \in Heads |-> 0]
    /\ snapshots = <<>>

-----------------------------------------------------------------------------
(* Queue                                                                     *)

(* sem_post: at its greatest value the semaphore refuses (EOVERFLOW), and    *)
(* nobody looks at the result.                                               *)
Posted(s, h) == [s EXCEPT ![h] = IF @ < SemValueMax THEN @ + 1 ELSE @]

Taken(s, h) == [s EXCEPT ![h] = @ - 1]

TakeSemaphore(h) ==
    /\ sem[h] > 0
    /\ sem' = Taken(sem, h)
    /\ UNCHANGED <<pushed, popped, ahead>>

(* Mutant of TakeAhead: the token is not used up.                            *)
TakeAheadKeeps(h) ==
    /\ ahead[h] > 0
    /\ UNCHANGED queueVars

TakeAhead(h) ==
    /\ ahead[h] > 0
    /\ ahead' = Taken(ahead, h)
    /\ UNCHANGED <<pushed, popped, sem>>

Pop(h) ==
    /\ popped' = [popped EXCEPT ![h] = @ + 1]
    /\ UNCHANGED <<pushed, sem, ahead>>

(* Mutant of LetOtherAdvance: the popping head's own semaphore is posted.    *)
LetSelfAdvance(h) ==
    /\ ahead' = Posted(ahead, h)
    /\ UNCHANGED <<pushed, popped, sem>>

(* The end of pop.                                                           *)
LetOtherAdvance(h) ==
    /\ ahead' = Posted(ahead, Other(h))
    /\ UNCHANGED <<pushed, popped, sem>>

-----------------------------------------------------------------------------
(* submit, called by the one thread that reads the requests: both queues     *)
(* receive the message, each under its lock, then both heads are notified.   *)

SubmitPush(h) ==
    /\ pushed' = [pushed EXCEPT ![h] = @ + 1]
    /\ UNCHANGED <<popped, sem, ahead>>

Notify(h) ==
    /\ sem' = Posted(sem, h)
    /\ UNCHANGED <<pushed, popped, ahead>>

SubmitStep ==
    CASE submitter = "push0"   -> SubmitPush(Head0) /\ submitter' = "push1"
      [] submitter = "push1"   -> SubmitPush(Head1) /\ submitter' = "notify0"
      [] submitter = "notify0" -> Notify(Head0)     /\ submitter' = "notify1"
      [] submitter = "notify1" -> Notify(Head1)     /\ submitter' = "push0"

Submit ==
    /\ submitter = "push0" => pushed[Head0] < MaxMessages
    /\ SubmitStep
    /\ UNCHANGED <<scheduler, grapher, handshakeVars>>

-----------------------------------------------------------------------------
(* The scheduling thread                                                     *)

SchedulerGoes(from, to) == scheduler = from /\ scheduler' = to

SchedulerWait ==
    /\ \/ SchedulerGoes("wait", "ahead") /\ TakeSemaphore(Head0)
       \/ SchedulerGoes("ahead", "pop") /\ TakeAhead(Head0)
    /\ UNCHANGED <<submitter, grapher, handshakeVars>>

SchedulerPop ==
    /\ \/ SchedulerGoes("pop", "post") /\ Pop(Head0)
       \/ /\ SchedulerGoes("post", IF IsEnd(popped[Head0]) THEN "ended" ELSE "dispatch")
          /\ LetOtherAdvance(Head0)
    /\ UNCHANGED <<submitter, grapher, handshakeVars>>

(* Whether a round starts after the n-th request.                            *)
RoundStarts(n) == IF Interval = 0 THEN BOOLEAN ELSE {n % Interval = 0}

SchedulerDispatch ==
    /\ \E starts \in RoundStarts(dispatched + 1) :
          SchedulerGoes("dispatch", IF starts THEN "note" ELSE "wait")
    /\ dispatched' = dispatched + 1
    /\ UNCHANGED <<queueVars, submitter, grapher, processed, note, tracked,
                   arrivals, snapshots>>

LeaveNote ==
    /\ SchedulerGoes("note", "free0")
    /\ note' = TRUE
    /\ UNCHANGED <<queueVars, submitter, grapher, dispatched, processed, tracked,
                   arrivals, snapshots>>

(* Mutant of FreeGrapher: the graph thread is not freed from its wait.       *)
FreeGrapherNot ==
    /\ SchedulerGoes("free0", "meet")
    /\ UNCHANGED <<queueVars, submitter, grapher, handshakeVars>>

(* free<1>: a token of each kind for a message that does not exist.          *)
FreeGrapher ==
    /\ \/ SchedulerGoes("free0", "free1") /\ Notify(Head1)
       \/ /\ SchedulerGoes("free1", "meet")
          /\ ahead' = Posted(ahead, Head1)
          /\ UNCHANGED <<pushed, popped, sem>>
    /\ UNCHANGED <<submitter, grapher, handshakeVars>>

(* pthread_barrier_wait on repartition_barrier_, initialised for two: each   *)
(* thread leaves it for the k-th time once the other arrived k times.        *)
Arrives(h) ==
    /\ arrivals' = [arrivals EXCEPT ![h] = @ + 1]
    /\ UNCHANGED <<queueVars, submitter, dispatched, processed, note, tracked,
                   snapshots>>

Released(h) == arrivals[Other(h)] >= arrivals[h]

SchedulerArrive ==
    /\ \/ SchedulerGoes("meet", "meeting")
       \/ SchedulerGoes("part", "parting")
    /\ Arrives(Head0)
    /\ UNCHANGED grapher

SchedulerLeave ==
    /\ \/ SchedulerGoes("meeting", "copy")
       \/ SchedulerGoes("parting", "install")
    /\ Released(Head0)
    /\ UNCHANGED <<queueVars, submitter, grapher, handshakeVars>>

CopyGraph ==
    /\ SchedulerGoes("copy", "part")
    /\ snapshots' = Append(snapshots, [dispatched |-> dispatched, tracked |-> tracked])
    /\ UNCHANGED <<queueVars, submitter, grapher, dispatched, processed, note,
                   tracked, arrivals>>

(* partitioning of the copy, the new map, sync_all_partitions.               *)
InstallMap ==
    /\ SchedulerGoes("install", "wait")
    /\ UNCHANGED <<queueVars, submitter, grapher, handshakeVars>>

Scheduler ==
    \/ SchedulerWait \/ SchedulerPop \/ SchedulerDispatch
    \/ LeaveNote \/ FreeGrapher \/ SchedulerArrive \/ SchedulerLeave
    \/ CopyGraph \/ InstallMap

-----------------------------------------------------------------------------
(* The graph thread                                                          *)

GrapherGoes(from, to) == grapher = from /\ grapher' = to

GrapherWait ==
    /\ \/ GrapherGoes("wait", "ahead") /\ TakeSemaphore(Head1)
       \/ GrapherGoes("ahead", "check") /\ TakeAhead(Head1)
    /\ UNCHANGED <<submitter, scheduler, handshakeVars>>

(* Mutant of AnswersNote: any message still to be folded in is ignored.      *)
AnswersNoteAtOnce == note

AnswersNote == note /\ processed + 1 >= dispatched

(* One step reads note_ and the counters and clears note_: none of them      *)
(* changes between the scheduling thread's note and the barrier.             *)
GrapherCheck ==
    /\ GrapherGoes("check", IF AnswersNote THEN "meet" ELSE "pop")
    /\ note' = (note /\ ~AnswersNote)
    /\ UNCHANGED <<queueVars, submitter, scheduler, dispatched, processed,
                   tracked, arrivals, snapshots>>

GrapherPop ==
    /\ \/ GrapherGoes("pop", "post") /\ Pop(Head1)
       \/ GrapherGoes("post", "update") /\ LetOtherAdvance(Head1)
    /\ UNCHANGED <<submitter, scheduler, handshakeVars>>

(* update_graph and, within the window, expire.  END is folded in as well.   *)
UpdateGraph ==
    /\ GrapherGoes("update", "count")
    /\ tracked' = tracked + 1
    /\ UNCHANGED <<queueVars, submitter, scheduler, dispatched, processed, note,
                   arrivals, snapshots>>

CountProcessed ==
    /\ GrapherGoes("count", "wait")
    /\ processed' = processed + 1
    /\ UNCHANGED <<queueVars, submitter, scheduler, dispatched, note, tracked,
                   arrivals, snapshots>>

GrapherArrive ==
    /\ \/ GrapherGoes("meet", "meeting")
       \/ GrapherGoes("part", "parting")
    /\ Arrives(Head1)
    /\ UNCHANGED scheduler

(* Mutant of AfterMeeting: the graph thread does not wait for the copy.      *)
AfterMeetingAtOnce == "wait"

AfterMeeting == "part"

GrapherLeave ==
    /\ \/ GrapherGoes("meeting", AfterMeeting)
       \/ GrapherGoes("parting", "wait")
    /\ Released(Head1)
    /\ UNCHANGED <<queueVars, submitter, scheduler, handshakeVars>>

Grapher ==
    \/ GrapherWait \/ GrapherCheck \/ GrapherPop \/ UpdateGraph
    \/ CountProcessed \/ GrapherArrive \/ GrapherLeave

-----------------------------------------------------------------------------
(* The scheduling thread has returned; the graph thread waits for messages   *)
(* that never come, and the process ends with it waiting.                    *)
Terminated ==
    /\ scheduler = "ended" /\ grapher = "wait" /\ sem[Head1] = 0
    /\ submitter = "push0"
    /\ UNCHANGED vars

Next == Submit \/ Scheduler \/ Grapher \/ Terminated

Safety == Init /\ [][Next]_vars

(* Every thread runs on; a submission that has begun is completed, and the   *)
(* submitting thread goes on up to END.                                      *)
Fairness == WF_vars(Submit) /\ WF_vars(Scheduler) /\ WF_vars(Grapher)

Spec == Safety /\ Fairness

-----------------------------------------------------------------------------
SubmitterAt == {"push0", "push1", "notify0", "notify1"}
SchedulerAt == {"wait", "ahead", "pop", "post", "dispatch", "note", "free0",
                "free1", "meet", "meeting", "copy", "part", "parting",
                "install", "ended"}
GrapherAt == {"wait", "ahead", "check", "pop", "post", "update", "count",
              "meet", "meeting", "part", "parting"}

(* Type correctness of the queue and of the two threads.                     *)
TypeOK ==
    /\ pushed \in [Heads -> Nat]
    /\ popped \in [Heads -> Nat]
    /\ sem \in [Heads -> Nat]
    /\ ahead \in [Heads -> Nat]
    /\ submitter \in SubmitterAt
    /\ scheduler \in SchedulerAt
    /\ grapher \in GrapherAt
    /\ dispatched \in Nat
    /\ processed \in Nat
    /\ note \in BOOLEAN
    /\ tracked \in Nat
    /\ arrivals \in [Heads -> Nat]
    /\ snapshots \in Seq([dispatched : Nat, tracked : Nat])

(* Neither thread takes the front of an empty queue, although the graph      *)
(* thread is given tokens for messages that do not exist (wait, free, pop).  *)
NoEmptyPop ==
    /\ scheduler = "pop" => popped[Head0] < pushed[Head0]
    /\ grapher = "pop" => popped[Head1] < pushed[Head1]

(* Neither head runs further ahead of the other than the constructor of the  *)
(* queue allows, rounds or not (wait, pop, free).                            *)
HeadDistance ==
    \A h \in Heads : popped[h] - popped[Other(h)] <= Lead[h]

(* The queue is one stream of messages with two heads, for both threads and  *)
(* whatever rounds there are: free<1> announces a message that nobody pushed *)
(* and allows a lead that nobody gained, and neither is ever used for a pop. *)
Stream == INSTANCE TwoHeadedStream
            WITH Lead <- Lead, pushed <- pushed[Head1], taken <- popped

ImplementsTwoHeads == Stream!Safety

(* The graph is copied while the graph thread does not write to it: it is    *)
(* held between the two waits at the barrier (schedule_and_answer,           *)
(* update_graph_loop).                                                       *)
CopyExclusive ==
    scheduler = "copy" => grapher \in {"meeting", "part", "parting"}

(* A copy lacks at most the last request dispatched, and holds at most the   *)
(* messages the graph thread may be ahead by (update_graph_loop's test).     *)
CopyFresh ==
    \A i \in DOMAIN snapshots :
        /\ snapshots[i].tracked >= snapshots[i].dispatched - 1
        /\ snapshots[i].tracked <= snapshots[i].dispatched + Lead[Head1]

(* No semaphore is posted beyond its greatest value, where the token would   *)
(* be lost without notice; with distance 0 one of them starts there (notify, *)
(* free, pop, the constructors).                                             *)
NoOverflow ==
    /\ submitter = "notify0" => sem[Head0] < SemValueMax
    /\ submitter = "notify1" \/ scheduler = "free0" => sem[Head1] < SemValueMax
    /\ scheduler \in {"free1", "post"} => ahead[Head1] < SemValueMax
    /\ grapher = "post" => ahead[Head0] < SemValueMax

(* What the two threads may be waiting for.                                  *)
SchedulerWaits ==
    \/ scheduler = "wait" /\ sem[Head0] = 0
    \/ scheduler = "ahead" /\ ahead[Head0] = 0
    \/ scheduler \in {"meeting", "parting"} /\ ~Released(Head0)
    \/ scheduler = "ended"

GrapherWaits ==
    \/ grapher = "wait" /\ sem[Head1] = 0
    \/ grapher = "ahead" /\ ahead[Head1] = 0
    \/ grapher \in {"meeting", "parting"} /\ ~Released(Head1)

(* Neither thread waits for the other at the queue while that one waits at   *)
(* the barrier, or for a token that nobody holds: if both wait and nothing   *)
(* is being submitted, both are through with every message.                  *)
NobodyLeftWaiting ==
    (submitter = "push0" /\ SchedulerWaits /\ GrapherWaits)
        => /\ scheduler \in {"wait", "ended"} /\ grapher = "wait"
           /\ \A h \in Heads : popped[h] = pushed[Head0]
           /\ processed = pushed[Head0]

(* Every message reaches the end of both threads' loops: no round leaves a   *)
(* token too few behind, and neither thread waits at the barrier for ever.   *)
EverythingProcessed ==
    <>[](scheduler = "ended" /\ grapher = "wait" /\ processed = MaxMessages)

-----------------------------------------------------------------------------
(* The inductive invariant behind the safety properties.                     *)

Holds(b) == IF b THEN 1 ELSE 0

(* The messages each head has been notified of.                              *)
Notified0 == pushed[Head0] - Holds(submitter \in {"push1", "notify0"})
Notified1 == pushed[Head1] - Holds(submitter \in {"notify0", "notify1"})

(* free<1> gives head 1 one token of each kind too many, and an answered     *)
(* note uses up one of each; the answer may come first.                      *)
SpareSem == Holds(scheduler \in {"free1", "meet", "meeting"} /\ note)
              - Holds(scheduler = "free0" /\ ~note)

SpareAhead == Holds(scheduler \in {"meet", "meeting"} /\ note)
                - Holds(scheduler \in {"free0", "free1"} /\ ~note)

(* Every token is accounted for: it is in a semaphore, in the hands of a     *)
(* thread on its way to pop, or was used up by a pop or an answer.           *)
Tokens ==
    /\ pushed[Head0] <= MaxMessages
    /\ pushed[Head1] = pushed[Head0] - Holds(submitter = "push1")
    /\ sem[Head0] = Notified0 - popped[Head0]
                       - Holds(scheduler \in {"ahead", "pop"})
    /\ sem[Head1] = Notified1 - popped[Head1] + SpareSem
                       - Holds(grapher \in {"ahead", "check", "pop"})
    /\ ahead[Head0] = Lead[Head0] + popped[Head1] - popped[Head0]
                         - Holds(grapher = "post") - Holds(scheduler = "pop")
    /\ ahead[Head1] = Lead[Head1] + popped[Head0] - popped[Head1] + SpareAhead
                         - Holds(scheduler = "post")
                         - Holds(grapher \in {"check", "pop"})
    /\ popped[Head1] <= popped[Head0] + Lead[Head1]
    /\ grapher = "pop" => /\ popped[Head1] < Notified1
                          /\ popped[Head1] < popped[Head0] + Lead[Head1]

(* What the counters say of the messages popped.                             *)
Counters ==
    /\ dispatched = popped[Head0] - Holds(scheduler \in {"post", "dispatch", "ended"})
    /\ tracked = popped[Head1] - Holds(grapher \in {"post", "update"})
    /\ processed = tracked - Holds(grapher = "count")

(* Where the two threads can be at the same time, and by how much one has    *)
(* arrived at the barrier more often than the other.                         *)
AtBarrier == {"meet", "meeting", "part"}

Lag == arrivals[Head0] - arrivals[Head1]

Meeting ==
    CASE scheduler \in {"free0", "free1", "meet"} ->
            IF note THEN grapher \notin AtBarrier /\ Lag = 0
            ELSE \/ grapher = "meet" /\ Lag = 0
                 \/ grapher = "meeting" /\ Lag = -1
      [] scheduler = "meeting" ->
            IF note THEN grapher \notin AtBarrier /\ Lag = 1
            ELSE \/ grapher = "meet" /\ Lag = 1
                 \/ grapher \in {"meeting", "part"} /\ Lag = 0
                 \/ grapher = "parting" /\ Lag = -1
      [] scheduler \in {"copy", "part"} ->
            /\ ~note
            /\ \/ grapher \in {"meeting", "part"} /\ Lag = 0
               \/ grapher = "parting" /\ Lag = -1
      [] scheduler = "parting" ->
            /\ ~note
            /\ \/ grapher \in {"meeting", "part"} /\ Lag = 1
               \/ grapher \notin AtBarrier /\ Lag = 0
      [] OTHER -> ~note /\ grapher \notin AtBarrier /\ Lag = 0

(* The scheduling thread leaves its loop at the last message.                *)
EndIsLast == scheduler = "ended" => popped[Head0] = MaxMessages

(* The graph thread only popped messages it has been notified of, although   *)
(* its tokens do not tell them from the others.                              *)
OnlyNotified == popped[Head1] <= Notified1

(* Between the answer to a note and the copy the graph is recent.            *)
Recent ==
    /\ (scheduler \in {"free0", "free1", "meet", "meeting", "copy"} /\ ~note)
          => processed + 1 >= dispatched
    /\ CopyFresh

HandshakeInv == TypeOK /\ Tokens /\ Counters /\ Meeting /\ Recent
=============================================================================
