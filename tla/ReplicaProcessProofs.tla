------------------------ MODULE ReplicaProcessProofs ------------------------
(* Theorems on ReplicaProcess, for any number of partitions and requests and *)
(* any capacity of the queues.                                               *)
EXTENDS ReplicaProcess, FiniteSetTheorems, TLAPS

(* Which threads have been started, by where main is.                        *)
Threads ==
    /\ scheduler = "off" <=> main = "construct"
    /\ main = "construct" => started = {}
    /\ main \notin {"construct", "run"} => started = Partition
    /\ \A p \in Partition : worker[p] = "off" <=> p \notin started
    /\ submitted > 0 => started = Partition
    /\ main \in {"construct", "run", "metrics"} => metrics = "off"
    /\ main \in {"report", "exited"} => metrics = "ended" /\ started = Partition

(* The scheduling thread has one request in its hands, and has seen END when *)
(* it ends.                                                                  *)
Scheduling ==
    /\ taken <= submitted
    /\ scheduler \in {"space", "push", "post"} => taken \in Request
    /\ scheduler = "off" => taken = 0
    /\ ~Bounded => scheduler # "space" /\ \A p \in Partition : worker[p] # "release"

Holds(b) == IF b THEN 1 ELSE 0

(* Every message in a queue was announced, or is being so, or is about to be *)
(* taken; every free place of a queue is announced or being given back.      *)
Tokens(p) ==
    /\ Len(queue[p]) = semaphore[p] + Holds(worker[p] = "pop")
                          + Holds(scheduler = "post" /\ target = p)
    /\ IF p \in started /\ Bounded
       THEN Capacity = Len(queue[p]) + remaining[p]
                          + Holds(scheduler = "push" /\ target = p)
                          + Holds(worker[p] = "release")
       ELSE remaining[p] = 0

Elements(s) == {s[i] : i \in 1..Len(s)}

Distinct(s) == \A i, j \in 1..Len(s) : i # j => s[i] # s[j]

Queued(p) == Elements(queue[p])

Held(p) == IF worker[p] \in {"release", "execute"} THEN {request[p]} ELSE {}

(* A request is in one place of one partition only.                          *)
Given(p) == Queued(p) \cup Held(p) \cup executed[p]

Places ==
    /\ \A p \in Partition : \A r \in Given(p) :
          /\ r \in Request /\ r <= taken
          /\ scheduler \in {"space", "push"} => r # taken
    /\ \A p, q \in Partition : p # q => Given(p) \cap Given(q) = {}

PlacesOf(p) ==
    /\ Distinct(queue[p])
    /\ Queued(p) \cap Held(p) = {}
    /\ Queued(p) \cap executed[p] = {}
    /\ Held(p) \cap executed[p] = {}
    /\ n_executed[p] = Cardinality(executed[p])

(* The sum never exceeds the requests executed by the workers visited.       *)
Executed(P) == UNION {executed[p] : p \in P}

Sums ==
    /\ sum <= Cardinality(Executed(visited))
    /\ metrics = "ended" => sum >= NRequests

IInv ==
    /\ TypeOK /\ Threads /\ Scheduling
    /\ \A p \in Partition : Tokens(p) /\ PlacesOf(p)
    /\ Places /\ Sums

-----------------------------------------------------------------------------
(* Sequences without repetition, at their two ends.                          *)
LEMMA AppendElements ==
  ASSUME NEW S, NEW s \in Seq(S), NEW e \in S
  PROVE  /\ Elements(Append(s, e)) = Elements(s) \cup {e}
         /\ Distinct(s) /\ e \notin Elements(s) => Distinct(Append(s, e))
  <1>1. /\ Append(s, e) \in Seq(S) /\ Len(Append(s, e)) = Len(s) + 1
        /\ Append(s, e)[Len(s) + 1] = e
        /\ \A i \in 1..Len(s) : Append(s, e)[i] = s[i]
    OBVIOUS
  <1>2. 1..(Len(s) + 1) = (1..Len(s)) \cup {Len(s) + 1}
    OBVIOUS
  <1>3. Elements(Append(s, e)) = Elements(s) \cup {e}
    BY <1>1, <1>2 DEF Elements
  <1>4. ASSUME Distinct(s), e \notin Elements(s) PROVE Distinct(Append(s, e))
    BY <1>1, <1>2, <1>4 DEF Elements, Distinct
  <1> QED
    BY <1>3, <1>4

LEMMA TailElements ==
  ASSUME NEW S, NEW s \in Seq(S), s # <<>>
  PROVE  /\ Head(s) \in S /\ Tail(s) \in Seq(S) /\ Len(Tail(s)) = Len(s) - 1
         /\ Elements(s) = Elements(Tail(s)) \cup {Head(s)}
         /\ Distinct(s) => Distinct(Tail(s)) /\ Head(s) \notin Elements(Tail(s))
  <1>1. /\ Head(s) = s[1] /\ Head(s) \in S /\ Tail(s) \in Seq(S)
        /\ Len(s) \in Nat \ {0} /\ Len(Tail(s)) = Len(s) - 1
        /\ \A i \in 1..(Len(s) - 1) : Tail(s)[i] = s[i + 1]
    OBVIOUS
  <1>2. Elements(s) \subseteq Elements(Tail(s)) \cup {Head(s)}
    <2>1. SUFFICES ASSUME NEW i \in 1..Len(s)
                   PROVE  s[i] \in Elements(Tail(s)) \cup {Head(s)}
      BY DEF Elements
    <2>2. CASE i = 1
      BY <1>1, <2>2
    <2>3. CASE i # 1
      <3>1. i - 1 \in 1..(Len(s) - 1) /\ Tail(s)[i - 1] = s[i]
        BY <1>1, <2>3
      <3> QED
        BY <1>1, <3>1 DEF Elements
    <2> QED
      BY <2>2, <2>3
  <1>3. Elements(Tail(s)) \cup {Head(s)} \subseteq Elements(s)
    BY <1>1 DEF Elements
  <1>4. ASSUME Distinct(s)
        PROVE  Distinct(Tail(s)) /\ Head(s) \notin Elements(Tail(s))
    BY <1>1, <1>4 DEF Elements, Distinct
  <1> QED
    BY <1>1, <1>2, <1>3, <1>4

(* Sets of requests are finite.                                              *)
LEMMA RequestsFinite ==
  ASSUME NEW S, S \subseteq Request
  PROVE  /\ IsFiniteSet(S) /\ Cardinality(S) \in 0..NRequests
         /\ \A T \in SUBSET S : Cardinality(T) <= Cardinality(S)
  <1>1. IsFiniteSet(Request) /\ Cardinality(Request) = NRequests
    BY NRequestsAssumption, FS_Interval DEF Request
  <1>2. IsFiniteSet(S) /\ Cardinality(S) <= NRequests
    BY <1>1, FS_Subset
  <1>3. Cardinality(S) \in Nat
    BY <1>2, FS_CardinalityType
  <1>4. ASSUME NEW T \in SUBSET S PROVE Cardinality(T) <= Cardinality(S)
    BY <1>2, FS_Subset
  <1> QED
    BY <1>2, <1>3, <1>4, NRequestsAssumption

-----------------------------------------------------------------------------
LEMMA InitIInv == Init => IInv
  <1> SUFFICES ASSUME Init PROVE IInv
    OBVIOUS
  <1>1. TypeOK
    BY NPartitionsAssumption, NRequestsAssumption, CapacityAssumption
    DEF Init, TypeOK, Partition, End, Nothing
  <1>2. Threads /\ Scheduling
    BY DEF Init, Threads, Scheduling
  <1>3. \A p \in Partition : Queued(p) = {} /\ Held(p) = {} /\ executed[p] = {}
    BY DEF Init, Queued, Elements, Held
  <1>4. Places
    BY <1>3 DEF Places, Given
  <1>5. \A p \in Partition : Tokens(p) /\ PlacesOf(p)
    BY <1>3, FS_EmptySet DEF Init, Tokens, PlacesOf, Holds, Distinct
  <1>6. Sums
    BY FS_EmptySet DEF Init, Sums, Executed
  <1> QED
    BY <1>1, <1>2, <1>4, <1>5, <1>6 DEF IInv

-----------------------------------------------------------------------------
(* What the queues hold, and the sum, stay as they are in a step that only   *)
(* moves main, the workload thread or the end of the scheduling thread.      *)
LEMMA PlacesKept ==
  ASSUME IInv, UNCHANGED <<queue, request, executed, n_executed, visited, sum, metrics>>,
         \A p \in Partition : Held(p)' = Held(p),
         taken' >= taken, taken' \in Int,
         scheduler' \in {"space", "push"} =>
             \/ taken' > taken
             \/ scheduler \in {"space", "push"} /\ taken' = taken
  PROVE  Places' /\ Sums' /\ \A p \in Partition : PlacesOf(p)'
  <1>1. \A p \in Partition : /\ Queued(p)' = Queued(p) /\ executed[p]' = executed[p]
                             /\ Given(p)' = Given(p)
    BY DEF Queued, Given
  <1>2. taken \in Int /\ \A p \in Partition : \A r \in Given(p) : r \in Int /\ r <= taken
    BY DEF IInv, TypeOK, Places, Request
  <1>3. Places'
    <2>1. ASSUME NEW p \in Partition, NEW r \in Given(p)
          PROVE  /\ r \in Request /\ r <= taken'
                 /\ scheduler' \in {"space", "push"} => r # taken'
      BY <1>2 DEF IInv, Places
    <2> QED
      BY <1>1, <2>1 DEF IInv, Places
  <1>4. Sums'
    BY DEF IInv, Sums, Executed
  <1>5. \A p \in Partition : PlacesOf(p)'
    BY <1>1 DEF IInv, PlacesOf
  <1> QED
    BY <1>3, <1>4, <1>5

LEMMA ConstructIInv == ASSUME IInv, Construct, UNCHANGED submitted PROVE IInv'
  <1>1. TypeOK'
    BY DEF IInv, TypeOK, Construct, MainGoes, queueVars, workerVars, metricsVars
  <1>2. Threads' /\ Scheduling'
    BY DEF IInv, Threads, Scheduling, Construct, MainGoes, queueVars, workerVars,
           metricsVars, Bounded
  <1>3. \A p \in Partition : Tokens(p)'
    BY DEF IInv, Threads, Tokens, Construct, MainGoes, queueVars, workerVars, Bounded
  <1>4. Places' /\ Sums' /\ \A p \in Partition : PlacesOf(p)'
    <2>1. taken' = taken /\ taken \in Int
      BY DEF IInv, TypeOK, Construct
    <2>2. scheduler' \notin {"space", "push"}
      BY DEF Construct
    <2>3. \A p \in Partition : Held(p)' = Held(p)
      BY DEF Held, Construct, workerVars
    <2> QED
      BY <2>1, <2>2, <2>3, PlacesKept DEF Construct, queueVars, workerVars, metricsVars
  <1> QED
    BY <1>1, <1>2, <1>3, <1>4 DEF IInv

(* No message was taken yet, so the queue is empty when its semaphores are   *)
(* initialised, though the scheduling thread runs already.                   *)
LEMMA StartWorkerIInv ==
  ASSUME IInv, NEW p \in Partition, StartWorker(p), UNCHANGED submitted PROVE IInv'
  <1>1. submitted = 0 /\ taken = 0 /\ scheduler \notin {"space", "push", "post"}
    <2>1. p \notin started /\ p \in Partition
      BY DEF StartWorker
    <2>2. /\ ~(submitted > 0) /\ submitted \in 0..End
          /\ taken <= submitted /\ taken \in 0..End
      BY <2>1 DEF IInv, TypeOK, Threads, Scheduling
    <2>3. submitted = 0 /\ taken = 0
      BY <2>2, NRequestsAssumption DEF End
    <2>4. scheduler \in {"space", "push", "post"} => taken \in Request
      BY DEF IInv, Scheduling
    <2> QED
      BY <2>3, <2>4 DEF Request
  <1>2. queue[p] = <<>>
    <2> SUFFICES ASSUME queue[p] # <<>> PROVE FALSE
      OBVIOUS
    <2>1. Len(queue[p]) \in Nat \ {0}
      BY DEF IInv, TypeOK
    <2>2. queue[p][1] \in Given(p)
      BY <2>1 DEF Given, Queued, Elements
    <2> QED
      BY <1>1, <2>2 DEF IInv, Places, Request
  <1>3. TypeOK'
    <2>1. /\ main' \in {"run", "metrics"} /\ started' \subseteq Partition
          /\ semaphore' \in [Partition -> Nat] /\ remaining' \in [Partition -> 0..Capacity]
      BY SMTT(20), CapacityAssumption DEF IInv, TypeOK, StartWorker
    <2>2. worker' \in [Partition -> {"off", "wait", "pop", "release", "execute"}]
      BY DEF IInv, TypeOK, StartWorker
    <2> QED
      BY <2>1, <2>2 DEF IInv, TypeOK, StartWorker, schedulerVars, metricsVars
  <1>4. Threads'
    BY DEF IInv, TypeOK, Threads, StartWorker, schedulerVars, metricsVars
  <1>5. Scheduling'
    BY DEF IInv, TypeOK, Scheduling, StartWorker, schedulerVars, Bounded
  <1>6. ASSUME NEW q \in Partition PROVE Tokens(q)'
    <2>1. CASE q = p
      BY <1>1, <1>2, <2>1, CapacityAssumption
      DEF IInv, TypeOK, StartWorker, Tokens, Holds, schedulerVars, Bounded
    <2>2. CASE q # p
      BY <2>2 DEF IInv, TypeOK, StartWorker, Tokens, schedulerVars
    <2> QED
      BY <2>1, <2>2
  <1>7. Places' /\ Sums' /\ \A q \in Partition : PlacesOf(q)'
    <2>1. taken' = taken /\ taken \in Int /\ scheduler' = scheduler
      BY DEF IInv, TypeOK, StartWorker, schedulerVars
    <2>2. \A q \in Partition : Held(q)' = Held(q)
      BY DEF IInv, TypeOK, Threads, Held, StartWorker
    <2> QED
      BY <1>1, <2>1, <2>2, PlacesKept DEF StartWorker, metricsVars
  <1> QED
    BY <1>3, <1>4, <1>5, <1>6, <1>7 DEF IInv

LEMMA MainIInv ==
  ASSUME IInv, StartMetrics \/ StartWorkload \/ Join, UNCHANGED submitted PROVE IInv'
  <1> USE DEF StartMetrics, StartWorkload, Join, MainGoes, schedulerVars, queueVars,
              workerVars, metricsVars
  <1>0. UNCHANGED <<started, taken, target, scheduler, semaphore, remaining, queue,
                    pushed, worker, request, n_executed, executed, visited, sum>>
    OBVIOUS
  <1>1. TypeOK'
    BY DEF IInv, TypeOK
  <1>2. Threads'
    BY DEF IInv, TypeOK, Threads
  <1>3. Scheduling' /\ \A p \in Partition : Tokens(p)'
    BY <1>0 DEF IInv, Scheduling, Tokens, Bounded
  <1>4. Places' /\ \A p \in Partition : PlacesOf(p)'
    BY <1>0 DEF IInv, Places, PlacesOf, Given, Held, Queued
  <1>5. Sums'
    BY DEF IInv, Sums, Executed, Threads
  <1> QED
    BY <1>1, <1>2, <1>3, <1>4, <1>5 DEF IInv

LEMMA SubmitIInv == ASSUME IInv, Submit PROVE IInv'
  <1> USE DEF Submit, Started, mainVars, schedulerVars, queueVars, workerVars, metricsVars
  <1>1. TypeOK'
    BY NRequestsAssumption DEF IInv, TypeOK, End
  <1>2. Threads' /\ Scheduling'
    BY DEF IInv, TypeOK, Threads, Scheduling, Bounded
  <1>3. \A p \in Partition : Tokens(p)'
    BY DEF IInv, Tokens, Bounded
  <1>4. Places' /\ Sums' /\ \A p \in Partition : PlacesOf(p)'
    BY DEF IInv, Places, PlacesOf, Given, Held, Queued, Sums, Executed
  <1> QED
    BY <1>1, <1>2, <1>3, <1>4 DEF IInv

LEMMA TakeMessageIInv ==
  ASSUME IInv, TakeMessage, UNCHANGED <<mainVars, submitted, workerVars, metricsVars>>
  PROVE  IInv'
  <1> USE DEF TakeMessage, SchedulerGoes, mainVars, queueVars, workerVars, metricsVars
  <1>1. taken \in Int /\ taken' = taken + 1 /\ scheduler = "idle" /\ taken' \in 1..End
    BY NRequestsAssumption DEF IInv, TypeOK, End
  <1>2. TypeOK'
    BY <1>1 DEF IInv, TypeOK
  <1>3. Threads'
    BY DEF IInv, Threads
  <1>4. Scheduling'
    BY <1>1, NRequestsAssumption DEF IInv, TypeOK, Scheduling, End, Request, Bounded
  <1>5. \A p \in Partition : Tokens(p)'
    BY <1>1 DEF IInv, Tokens, Holds, Bounded
  <1>6. Places' /\ Sums' /\ \A p \in Partition : PlacesOf(p)'
    <2>1. \A p \in Partition : Held(p)' = Held(p)
      BY DEF Held
    <2> QED
      BY <1>1, <2>1, PlacesKept
  <1> QED
    BY <1>2, <1>3, <1>4, <1>5, <1>6 DEF IInv

LEMMA WaitSpaceIInv ==
  ASSUME IInv, WaitSpace, UNCHANGED <<mainVars, submitted, workerVars, metricsVars>>
  PROVE  IInv'
  <1> USE DEF WaitSpace, SchedulerGoes, mainVars, workerVars, metricsVars
  <1>1. TypeOK'
    BY CapacityAssumption DEF IInv, TypeOK
  <1>2. Threads' /\ Scheduling'
    BY DEF IInv, Threads, Scheduling, Bounded
  <1>3. ASSUME NEW p \in Partition PROVE Tokens(p)'
    <2>1. target \in started /\ Bounded
      BY NRequestsAssumption DEF IInv, TypeOK, Threads, Scheduling, Request
    <2> QED
      BY SMTT(20), <1>1, <2>1, CapacityAssumption DEF IInv, TypeOK, Tokens, Holds, Bounded
  <1>4. Places' /\ Sums' /\ \A p \in Partition : PlacesOf(p)'
    <2>1. \A p \in Partition : Held(p)' = Held(p)
      BY DEF Held
    <2> QED
      BY <2>1, PlacesKept DEF IInv, TypeOK
  <1> QED
    BY <1>1, <1>2, <1>3, <1>4 DEF IInv

(* The place announced is there: the ring never refuses.                     *)
LEMMA PushFits == ASSUME IInv, scheduler = "push" PROVE target \in started /\ Fits(target)
  <1>1. target \in started /\ target \in Partition
    BY NRequestsAssumption DEF IInv, TypeOK, Threads, Scheduling, Request
  <1>2. Len(queue[target]) \in Nat /\ remaining[target] \in Nat
    BY <1>1, CapacityAssumption DEF IInv, TypeOK
  <1>3. Bounded => Capacity = Len(queue[target]) + remaining[target] + 1
                              + Holds(worker[target] = "release")
    BY <1>1 DEF IInv, Tokens, Holds
  <1> QED
    BY <1>1, <1>2, <1>3, CapacityAssumption DEF Fits, Holds

LEMMA PushToQueueIInv ==
  ASSUME IInv, PushToQueue, UNCHANGED <<mainVars, submitted, workerVars, metricsVars>>
  PROVE  IInv'
  <1> USE DEF PushToQueue, SchedulerGoes, mainVars, workerVars, metricsVars
  <1>1. /\ target \in started /\ target \in Partition /\ taken \in Request
        /\ queue' = [queue EXCEPT ![target] = Append(@, taken)]
        /\ queue[target] \in Seq(Request)
    BY PushFits DEF IInv, TypeOK, Scheduling
  <1>2. TypeOK'
    BY <1>1 DEF IInv, TypeOK
  <1>3. Threads' /\ Scheduling'
    BY DEF IInv, Threads, Scheduling, Bounded
  <1>4. ASSUME NEW p \in Partition PROVE Tokens(p)'
    <2>1. CASE p = target
      <3>1. Len(queue'[p]) = Len(queue[p]) + 1 /\ Len(queue[p]) \in Nat
        BY <1>1, <2>1 DEF IInv, TypeOK
      <3> QED
        BY SMTT(20), <1>1, <2>1, <3>1, CapacityAssumption DEF IInv, TypeOK, Tokens, Holds,
                                                              Bounded
    <2>2. CASE p # target
      BY <1>1, <2>2 DEF IInv, TypeOK, Tokens, Holds, Bounded
    <2> QED
      BY <2>1, <2>2
  <1>5. ASSUME NEW p \in Partition
        PROVE  Given(p)' = IF p = target THEN Given(p) \cup {taken} ELSE Given(p)
    BY <1>1, AppendElements DEF IInv, TypeOK, Given, Queued, Held
  <1>6. \A p \in Partition : taken \notin Given(p)
    BY DEF IInv, Places
  <1>7. Places'
    <2>1. ASSUME NEW p \in Partition, NEW r \in Given(p)'
          PROVE  r \in Request /\ r <= taken'
      BY <1>1, <1>5 DEF IInv, Places, Request
    <2>2. ASSUME NEW p \in Partition, NEW q \in Partition, p # q
          PROVE  Given(p)' \cap Given(q)' = {}
      BY <1>5, <1>6, <2>2 DEF IInv, Places
    <2> QED
      BY <2>1, <2>2 DEF Places
  <1>8. ASSUME NEW p \in Partition PROVE PlacesOf(p)'
    <2>1. CASE p = target
      <3>1. /\ Queued(p)' = Queued(p) \cup {taken} /\ Held(p)' = Held(p)
            /\ taken \notin Queued(p) \cup Held(p) \cup executed[p]
        BY <1>1, <1>6, <2>1, AppendElements DEF IInv, TypeOK, Given, Queued, Held
      <3>2. Distinct(queue'[p])
        BY <1>1, <2>1, <3>1, AppendElements DEF IInv, TypeOK, PlacesOf, Queued
      <3> QED
        BY <3>1, <3>2 DEF IInv, PlacesOf
    <2>2. CASE p # target
      BY <1>1, <2>2 DEF IInv, TypeOK, PlacesOf, Queued, Held
    <2> QED
      BY <2>1, <2>2
  <1>9. Sums'
    BY DEF IInv, Sums, Executed
  <1> QED
    BY <1>2, <1>3, <1>4, <1>7, <1>8, <1>9 DEF IInv

LEMMA PostSemaphoreIInv ==
  ASSUME IInv, PostSemaphore, UNCHANGED <<mainVars, submitted, workerVars, metricsVars>>
  PROVE  IInv'
  <1> USE DEF PostSemaphore, SchedulerGoes, mainVars, workerVars, metricsVars
  <1>1. TypeOK'
    BY DEF IInv, TypeOK
  <1>2. Threads' /\ Scheduling'
    BY DEF IInv, Threads, Scheduling, Bounded
  <1>3. ASSUME NEW p \in Partition PROVE Tokens(p)'
    BY SMTT(20) DEF IInv, TypeOK, Tokens, Holds, Bounded
  <1>4. Places' /\ Sums' /\ \A p \in Partition : PlacesOf(p)'
    <2>1. \A p \in Partition : Held(p)' = Held(p)
      BY DEF Held
    <2> QED
      BY <2>1, PlacesKept DEF IInv, TypeOK
  <1> QED
    BY <1>1, <1>2, <1>3, <1>4 DEF IInv

LEMMA TokensTyped ==
  ASSUME IInv, NEW p \in Partition
  PROVE  /\ Len(queue[p]) \in Nat /\ semaphore[p] \in Nat /\ Capacity \in Nat
         /\ remaining[p] \in Int /\ remaining[p] >= 0
  BY CapacityAssumption DEF IInv, TypeOK

LEMMA WaitSemaphoreIInv ==
  ASSUME IInv, NEW p \in Partition, WaitSemaphore(p),
         UNCHANGED <<mainVars, submitted, schedulerVars, metricsVars>>
  PROVE  IInv'
  <1> USE DEF WaitSemaphore, WorkerGoes, mainVars, schedulerVars, metricsVars
  <1>1. TypeOK'
    BY SMTT(20) DEF IInv, TypeOK
  <1>2. Threads' /\ Scheduling'
    BY DEF IInv, TypeOK, Threads, Scheduling, Bounded
  <1>3. ASSUME NEW q \in Partition PROVE Tokens(q)'
    <2>1. Tokens(p)'
      <3>1. /\ worker[p] = "wait" /\ worker'[p] = "pop" /\ semaphore'[p] = semaphore[p] - 1
            /\ queue' = queue /\ remaining' = remaining
        BY DEF IInv, TypeOK
      <3> QED
        BY <3>1, TokensTyped DEF IInv, Tokens, Holds, Bounded
    <2>2. CASE q # p
      BY <2>2 DEF IInv, TypeOK, Tokens, Bounded
    <2> QED
      BY <2>1, <2>2
  <1>4. Places' /\ Sums' /\ \A q \in Partition : PlacesOf(q)'
    <2>1. \A q \in Partition : Held(q)' = Held(q)
      BY DEF IInv, TypeOK, Held
    <2> QED
      BY SMTT(20), <2>1, PlacesKept DEF IInv, TypeOK
  <1> QED
    BY <1>1, <1>2, <1>3, <1>4 DEF IInv

(* The message announced is there: no worker pops an empty queue.            *)
LEMMA PopFinds ==
  ASSUME IInv, NEW p \in Partition, worker[p] = "pop"
  PROVE  queue[p] # <<>> /\ Len(queue[p]) > 0 /\ queue[p] \in Seq(Request)
  BY DEF IInv, TypeOK, Tokens, Holds

LEMMA PopFromQueueIInv ==
  ASSUME IInv, NEW p \in Partition, PopFromQueue(p),
         UNCHANGED <<mainVars, submitted, schedulerVars, metricsVars>>
  PROVE  IInv'
  <1> USE DEF PopFromQueue, WorkerGoes, mainVars, schedulerVars, metricsVars
  <1>1. /\ queue[p] \in Seq(Request) /\ queue[p] # <<>>
        /\ request'[p] = Head(queue[p]) /\ queue'[p] = Tail(queue[p])
        /\ \A q \in Partition : q # p => request'[q] = request[q] /\ queue'[q] = queue[q]
    BY PopFinds DEF IInv, TypeOK
  <1>2. /\ Head(queue[p]) \in Request /\ Tail(queue[p]) \in Seq(Request)
        /\ Len(Tail(queue[p])) = Len(queue[p]) - 1
        /\ Elements(queue[p]) = Elements(Tail(queue[p])) \cup {Head(queue[p])}
        /\ Distinct(Tail(queue[p])) /\ Head(queue[p]) \notin Elements(Tail(queue[p]))
    BY <1>1, TailElements DEF IInv, PlacesOf
  <1>3. TypeOK'
    BY <1>2 DEF IInv, TypeOK
  <1>4. Threads' /\ Scheduling'
    BY DEF IInv, TypeOK, Threads, Scheduling, Bounded
  <1>5. ASSUME NEW q \in Partition PROVE Tokens(q)'
    <2>1. Tokens(p)'
      <3>1. worker'[p] = IF Bounded THEN "release" ELSE "execute"
        BY DEF IInv, TypeOK
      <3>2. Len(queue'[p]) = Len(queue[p]) - 1 /\ Len(queue[p]) \in Nat
        BY <1>1, <1>2
      <3>3. p \in started
        BY DEF IInv, Threads
      <3> QED
        BY <3>1, <3>2, <3>3, TokensTyped DEF IInv, Tokens, Holds, Bounded
    <2>2. CASE q # p
      BY <2>2 DEF IInv, TypeOK, Tokens, Holds, Bounded
    <2> QED
      BY <2>1, <2>2
  <1>6. /\ Held(p) = {} /\ Held(p)' = {Head(queue[p])}
        /\ Queued(p) = Queued(p)' \cup {Head(queue[p])}
    BY <1>1, <1>2 DEF IInv, TypeOK, Held, Queued
  <1>7. ASSUME NEW q \in Partition, q # p
        PROVE  Held(q)' = Held(q) /\ Queued(q)' = Queued(q)
    BY <1>1, <1>7 DEF IInv, TypeOK, Held, Queued
  <1>8. ASSUME NEW q \in Partition PROVE Given(q)' = Given(q)
    BY <1>6, <1>7 DEF Given
  <1>9. Places'
    BY <1>8 DEF IInv, Places
  <1>10. ASSUME NEW q \in Partition PROVE PlacesOf(q)'
    <2>1. CASE q = p
      BY <1>1, <1>2, <1>6, <2>1 DEF IInv, PlacesOf, Queued
    <2>2. CASE q # p
      BY <1>1, <1>7, <2>2 DEF IInv, PlacesOf
    <2> QED
      BY <2>1, <2>2
  <1>11. Sums'
    BY DEF IInv, Sums, Executed
  <1> QED
    BY <1>3, <1>4, <1>5, <1>9, <1>10, <1>11 DEF IInv

LEMMA ReleaseSpaceIInv ==
  ASSUME IInv, NEW p \in Partition, ReleaseSpace(p),
         UNCHANGED <<mainVars, submitted, schedulerVars, metricsVars>>
  PROVE  IInv'
  <1> USE DEF ReleaseSpace, WorkerGoes, mainVars, schedulerVars, metricsVars
  <1>1. p \in started /\ Bounded
    BY DEF IInv, Threads, Scheduling
  <1>2. Capacity = Len(queue[p]) + remaining[p] + Holds(scheduler = "push" /\ target = p) + 1
    BY <1>1 DEF IInv, Tokens, Holds
  <1>3. remaining[p] + 1 \in 0..Capacity
    BY <1>2, TokensTyped DEF Holds
  <1>4. TypeOK'
    BY <1>3 DEF IInv, TypeOK
  <1>5. Threads' /\ Scheduling'
    BY <1>1 DEF IInv, TypeOK, Threads, Scheduling, Bounded
  <1>6. ASSUME NEW q \in Partition PROVE Tokens(q)'
    <2>1. Tokens(p)'
      <3>1. /\ worker[p] = "release" /\ worker'[p] = "execute"
            /\ remaining'[p] = remaining[p] + 1 /\ queue' = queue /\ semaphore' = semaphore
            /\ UNCHANGED <<started, scheduler, target>>
        BY DEF IInv, TypeOK
      <3>2. Len(queue'[p]) = semaphore'[p] + Holds(worker'[p] = "pop")
                               + Holds(scheduler' = "post" /\ target' = p)
        <4>1. Len(queue[p]) = semaphore[p] + Holds(worker[p] = "pop")
                                + Holds(scheduler = "post" /\ target = p)
          BY DEF IInv, Tokens
        <4> QED
          BY <3>1, <4>1 DEF Holds
      <3>3. Capacity = Len(queue'[p]) + remaining'[p]
                         + Holds(scheduler' = "push" /\ target' = p)
                         + Holds(worker'[p] = "release")
        BY <1>2, <3>1, TokensTyped DEF Holds
      <3> QED
        BY <1>1, <3>1, <3>2, <3>3 DEF Tokens, Bounded
    <2>2. CASE q # p
      BY <2>2 DEF IInv, TypeOK, Tokens, Bounded
    <2> QED
      BY <2>1, <2>2
  <1>7. Places' /\ Sums' /\ \A q \in Partition : PlacesOf(q)'
    <2>1. \A q \in Partition : Held(q)' = Held(q)
      BY DEF IInv, TypeOK, Held
    <2> QED
      BY SMTT(20), <2>1, PlacesKept DEF IInv, TypeOK
  <1> QED
    BY <1>4, <1>5, <1>6, <1>7 DEF IInv

(* What has been executed only grows.                                        *)
LEMMA ExecutedIn ==
  ASSUME IInv
  PROVE  \A P \in SUBSET Partition : Executed(P) \subseteq Request
  BY DEF IInv, TypeOK, Executed

LEMMA ExecuteIInv ==
  ASSUME IInv, NEW p \in Partition, Execute(p),
         UNCHANGED <<mainVars, submitted, schedulerVars, metricsVars>>
  PROVE  IInv'
  <1> USE DEF Execute, WorkerGoes, mainVars, schedulerVars, metricsVars
  <1>1. /\ Held(p) = {request[p]} /\ Held(p)' = {} /\ request[p] \in Request
        /\ request[p] \notin executed[p] /\ executed'[p] = executed[p] \cup {request[p]}
    <2>1. Held(p) = {request[p]} /\ Held(p)' = {}
      BY DEF IInv, TypeOK, Held
    <2> QED
      BY <2>1 DEF IInv, TypeOK, Places, PlacesOf, Given
  <1>2. ASSUME NEW q \in Partition, q # p
        PROVE  Held(q)' = Held(q) /\ executed'[q] = executed[q]
    BY <1>2 DEF IInv, TypeOK, Held
  <1>3. ASSUME NEW q \in Partition PROVE Queued(q)' = Queued(q) /\ Given(q)' = Given(q)
    BY <1>1, <1>2 DEF queueVars, Queued, Given
  <1>4. TypeOK'
    BY SMTT(20), <1>1 DEF IInv, TypeOK, queueVars
  <1>5. Threads' /\ Scheduling' /\ \A q \in Partition : Tokens(q)'
    BY DEF IInv, TypeOK, Threads, Scheduling, Tokens, Holds, Bounded, queueVars
  <1>6. Places'
    BY <1>3 DEF IInv, Places
  <1>7. ASSUME NEW q \in Partition PROVE PlacesOf(q)'
    <2>1. CASE q = p
      <3>1. IsFiniteSet(executed[p])
        BY RequestsFinite DEF IInv, TypeOK
      <3>2. Cardinality(executed'[p]) = Cardinality(executed[p]) + 1
        BY <1>1, <3>1, FS_AddElement
      <3>3. n_executed'[p] = n_executed[p] + 1
        BY DEF IInv, TypeOK
      <3> QED
        BY <1>1, <1>3, <2>1, <3>2, <3>3 DEF IInv, PlacesOf, queueVars
    <2>2. CASE q # p
      BY <1>2, <1>3, <2>2 DEF IInv, TypeOK, PlacesOf, queueVars
    <2> QED
      BY <2>1, <2>2
  <1>8. Sums'
    <2>1. Executed(visited) \subseteq Executed(visited)' /\ Executed(visited)' \subseteq Request
      <3>1. \A q \in visited : executed[q] \subseteq executed'[q]
        BY <1>1, <1>2 DEF IInv, TypeOK
      <3>2. \A q \in visited : executed'[q] \subseteq Request
        BY <1>4 DEF IInv, TypeOK
      <3> QED
        BY <3>1, <3>2 DEF Executed
    <2>2. /\ Cardinality(Executed(visited)) <= Cardinality(Executed(visited)')
          /\ Cardinality(Executed(visited)) \in Int /\ Cardinality(Executed(visited)') \in Int
      BY <2>1, RequestsFinite
    <2> QED
      BY <2>2 DEF IInv, TypeOK, Sums
  <1> QED
    BY <1>4, <1>5, <1>6, <1>7, <1>8 DEF IInv

LEMMA TestExecutedIInv ==
  ASSUME IInv, TestExecuted,
         UNCHANGED <<mainVars, submitted, schedulerVars, queueVars, workerVars>>
  PROVE  IInv'
  <1> USE DEF TestExecuted, mainVars, schedulerVars, queueVars, workerVars
  <1>1. TypeOK'
    BY DEF IInv, TypeOK
  <1>2. Threads' /\ Scheduling' /\ \A p \in Partition : Tokens(p)'
    BY DEF IInv, Threads, Scheduling, Tokens, Bounded
  <1>3. Places' /\ \A p \in Partition : PlacesOf(p)'
    BY DEF IInv, Places, PlacesOf, Given, Held, Queued
  <1>4. Sums'
    <2>1. CASE sum < NRequests
      BY <2>1, FS_EmptySet DEF Sums, Executed
    <2>2. CASE ~(sum < NRequests)
      BY <2>2, NRequestsAssumption DEF IInv, TypeOK, Sums, Executed
    <2> QED
      BY <2>1, <2>2
  <1> QED
    BY <1>1, <1>2, <1>3, <1>4 DEF IInv

(* The worker added is new, so what it executed is counted for the first     *)
(* time.                                                                     *)
LEMMA AddCounterIInv ==
  ASSUME IInv, NEW p \in Partition, AddCounter(p),
         UNCHANGED <<mainVars, submitted, schedulerVars, queueVars, workerVars>>
  PROVE  IInv'
  <1> USE DEF AddCounter, Summand, mainVars, schedulerVars, queueVars, workerVars
  <1>1. TypeOK'
    <2>1. sum + n_executed[p] \in Nat
      BY SMTT(20) DEF IInv, TypeOK
    <2> QED
      BY <2>1 DEF IInv, TypeOK
  <1>2. Threads' /\ Scheduling' /\ \A q \in Partition : Tokens(q)'
    BY DEF IInv, Threads, Scheduling, Tokens, Bounded
  <1>3. Places' /\ \A q \in Partition : PlacesOf(q)'
    BY DEF IInv, Places, PlacesOf, Given, Held, Queued
  <1>4. Sums'
    <2>1. Executed(visited)' = Executed(visited) \cup executed[p]
      BY DEF Executed
    <2>2. Executed(visited) \cap executed[p] = {}
      <3>1. \A q \in visited : executed[q] \cap executed[p] = {}
        BY DEF IInv, TypeOK, Places, Given
      <3> QED
        BY <3>1 DEF Executed
    <2>3. /\ IsFiniteSet(Executed(visited)) /\ IsFiniteSet(executed[p])
          /\ Cardinality(Executed(visited)) \in Nat
      <3>1. Executed(visited) \subseteq Request /\ executed[p] \subseteq Request
        BY ExecutedIn DEF IInv, TypeOK
      <3> QED
        BY <3>1, RequestsFinite
    <2>4. Cardinality(Executed(visited)') = Cardinality(Executed(visited)) + Cardinality(executed[p])
      <3>1. Cardinality(Executed(visited) \cap executed[p]) = 0
        BY <2>2, FS_EmptySet
      <3>2. Cardinality(executed[p]) \in Nat
        BY <2>3, FS_CardinalityType
      <3> QED
        <4>1. Cardinality(Executed(visited) \cup executed[p])
                = Cardinality(Executed(visited)) + Cardinality(executed[p])
                    - Cardinality(Executed(visited) \cap executed[p])
          BY <2>3, FS_Union
        <4>2. Cardinality(Executed(visited) \cup executed[p])
                = Cardinality(Executed(visited)) + Cardinality(executed[p])
          BY <2>3, <3>1, <3>2, <4>1
        <4> QED
          BY <2>1, <4>2
    <2>5. n_executed[p] = Cardinality(executed[p]) /\ n_executed[p] \in Nat
      BY DEF IInv, TypeOK, PlacesOf
    <2> QED
      BY <2>3, <2>4, <2>5 DEF IInv, TypeOK, Sums
  <1> QED
    BY <1>1, <1>2, <1>3, <1>4 DEF IInv

LEMMA NextIInv == IInv /\ [Next]_vars => IInv'
  <1> SUFFICES ASSUME IInv, [Next]_vars PROVE IInv'
    OBVIOUS
  <1>1. CASE Main
    BY <1>1, ConstructIInv, StartWorkerIInv, MainIInv DEF Main
  <1>2. CASE Submit
    BY <1>2, SubmitIInv
  <1>3. CASE Scheduler
    BY <1>3, TakeMessageIInv, WaitSpaceIInv, PushToQueueIInv,
       PostSemaphoreIInv DEF Scheduler
  <1>4. ASSUME NEW p \in Partition, Worker(p) PROVE IInv'
    BY <1>4, WaitSemaphoreIInv, PopFromQueueIInv, ReleaseSpaceIInv, ExecuteIInv DEF Worker
  <1>5. CASE Metrics
    BY <1>5, TestExecutedIInv, AddCounterIInv DEF Metrics
  <1>6. CASE UNCHANGED vars
    <2> USE <1>6 DEF vars, mainVars, schedulerVars, queueVars, workerVars, metricsVars
    <2>1. TypeOK' /\ Threads' /\ Scheduling'
      BY DEF IInv, TypeOK, Threads, Scheduling, Bounded
    <2>2. Sums' /\ \A p \in Partition : Tokens(p)'
      BY DEF IInv, Tokens, Sums, Executed, Bounded
    <2>3. Places' /\ \A p \in Partition : PlacesOf(p)'
      BY DEF IInv, Places, PlacesOf, Given, Held, Queued
    <2> QED
      BY <2>1, <2>2, <2>3 DEF IInv
  <1> QED
    BY <1>1, <1>2, <1>3, <1>4, <1>5, <1>6 DEF Next, Terminated

THEOREM Inductive == Safety => []IInv
  BY InitIInv, NextIInv, PTL DEF Safety

-----------------------------------------------------------------------------
(* Every variable keeps its type; in particular the space of a queue stays   *)
(* within its capacity.                                                      *)
THEOREM TypeCorrect == Safety => []TypeOK
  BY Inductive, PTL DEF IInv

(* push_request and pop_request: the two semaphores of a partition are       *)
(* initialised before they are used and keep its unchecked queue sound.      *)
THEOREM QueuesSoundTheorem == Safety => []QueuesSound
  <1>1. ASSUME IInv PROVE QueuesSound
    <2>1. scheduler \in {"space", "push", "post"} => target \in started
      BY <1>1, NRequestsAssumption DEF IInv, TypeOK, Threads, Scheduling, Request
    <2> QED
      BY <1>1, <2>1, PushFits, PopFinds DEF QueuesSound
  <1> QED
    BY <1>1, Inductive, PTL

(* metrics_loop: when the racing sum of the counters lets main go on to its  *)
(* end, every request has been executed and every worker waits.              *)
THEOREM NoEarlyEndTheorem == Safety => []NoEarlyEnd
  <1>1. ASSUME IInv, main \in {"report", "exited"}
        PROVE  /\ UNION {executed[p] : p \in Partition} = Request
               /\ \A p \in Partition : worker[p] = "wait" /\ queue[p] = <<>>
    <2>1. sum >= NRequests /\ sum <= Cardinality(Executed(visited)) /\ sum \in Nat
      BY <1>1 DEF IInv, TypeOK, Threads, Sums
    <2>2. Executed(visited) \subseteq Request /\ visited \subseteq Partition
      BY <1>1, ExecutedIn DEF IInv, TypeOK
    <2>3. Executed(visited) = Request
      <3>1. IsFiniteSet(Request) /\ Cardinality(Request) = NRequests
        BY NRequestsAssumption, FS_Interval DEF Request
      <3>2. Cardinality(Executed(visited)) \in Nat
        BY <2>2, RequestsFinite
      <3>3. Cardinality(Executed(visited)) <= Cardinality(Request)
        BY <2>2, <3>1, FS_Subset
      <3>4. Cardinality(Executed(visited)) = Cardinality(Request)
        BY <2>1, <3>1, <3>2, <3>3, NRequestsAssumption
      <3> QED
        BY <2>2, <3>1, <3>4, FS_Subset
    <2>4. UNION {executed[p] : p \in Partition} = Request
      BY <1>1, <2>2, <2>3, ExecutedIn DEF Executed
    <2>5. ASSUME NEW p \in Partition PROVE Queued(p) = {} /\ Held(p) = {}
      <3>1. Queued(p) \cup Held(p) \subseteq Request
        BY <1>1 DEF IInv, Places, Given
      <3>2. (Queued(p) \cup Held(p)) \cap executed[p] = {}
        BY <1>1 DEF IInv, PlacesOf
      <3>3. ASSUME NEW q \in Partition, q # p
            PROVE  (Queued(p) \cup Held(p)) \cap executed[q] = {}
        BY <1>1, <3>3 DEF IInv, Places, Given
      <3> QED
        BY <2>4, <3>1, <3>2, <3>3
    <2>6. ASSUME NEW p \in Partition PROVE worker[p] = "wait" /\ queue[p] = <<>>
      <3>1. queue[p] = <<>>
        <4> SUFFICES ASSUME queue[p] # <<>> PROVE FALSE
          OBVIOUS
        <4>1. Len(queue[p]) \in Nat \ {0}
          BY <1>1 DEF IInv, TypeOK
        <4> QED
          <5>1. queue[p][1] \in Queued(p)
            BY <4>1 DEF Queued, Elements
          <5> QED
            BY <2>5, <5>1
      <3>2. worker[p] # "off" /\ worker[p] # "pop"
        BY <1>1, <3>1, PopFinds DEF IInv, Threads
      <3>3. worker[p] \notin {"release", "execute"}
        BY <2>5 DEF Held
      <3> QED
        BY <1>1, <3>1, <3>2, <3>3 DEF IInv, TypeOK
    <2> QED
      BY <2>4, <2>6
  <1>2. IInv => NoEarlyEnd
    BY <1>1 DEF NoEarlyEnd
  <1> QED
    BY <1>2, Inductive, PTL

(* push_request and pop_request implement the channels that Dispatch takes   *)
(* for granted: what is pushed to a partition is popped once and in order,   *)
(* and never more than Capacity requests are under way.                      *)
THEOREM ImplementsChannelsTheorem == Safety => Channels!Safety
<1>1. Init => Channels!Init
  <2>1. ASSUME Init, NEW p \in Partition PROVE Popped(p) = 0
    BY <2>1 DEF Init, Popped
  <2> QED
    BY <2>1 DEF Init, Channels!Init
<1>2. IInv /\ [Next]_vars => [Channels!Next]_(Channels!vars)
  <2> SUFFICES ASSUME IInv, [Next]_vars
               PROVE  [Channels!Next]_(Channels!vars)
    OBVIOUS
  <2>1. ASSUME PushToQueue PROVE Channels!Send(target, taken)
    <3>1. /\ target \in Partition /\ taken \in Request /\ Fits(target)
          /\ queue' = [queue EXCEPT ![target] = Append(@, taken)]
          /\ pushed' = [pushed EXCEPT ![target] = Append(@, taken)]
          /\ \A p \in Partition : queue[p] \in Seq(Request) /\ pushed[p] \in Seq(Request)
      BY <2>1, PushFits DEF PushToQueue, SchedulerGoes, IInv, TypeOK, Scheduling
    <3>2. ASSUME NEW p \in Partition PROVE Popped(p)' = Popped(p)
      <4>1. CASE p = target
        <5>1. /\ Len(queue'[p]) = Len(queue[p]) + 1 /\ Len(queue[p]) \in Nat
              /\ Len(pushed'[p]) = Len(pushed[p]) + 1 /\ Len(pushed[p]) \in Nat
          BY <3>1, <4>1 DEF IInv, TypeOK
        <5> QED
          BY <5>1 DEF Popped
      <4>2. CASE p # target
        BY <3>1, <4>2 DEF IInv, TypeOK, Popped
      <4> QED
        BY <4>1, <4>2
    <3>3. Capacity = 0 \/ Channels!UnderWay(target) < Capacity
      <4>1. Len(queue[target]) \in Nat /\ Len(pushed[target]) \in Nat
        BY <3>1
      <4>2. Channels!UnderWay(target) = Len(queue[target])
        BY <3>1, <4>1 DEF Channels!UnderWay, Popped
      <4> QED
        BY <3>1, <4>2, CapacityAssumption DEF Fits, Bounded
    <3> QED
      BY <3>1, <3>2, <3>3 DEF Channels!Send
  <2>2. ASSUME NEW p \in Partition, PopFromQueue(p) PROVE Channels!Receive(p)
    <3>1. /\ queue[p] \in Seq(Request) /\ queue[p] # <<>> /\ Len(queue[p]) > 0
          /\ queue' = [queue EXCEPT ![p] = Tail(@)] /\ UNCHANGED pushed
          /\ pushed[p] \in Seq(Request)
      BY <2>2, PopFinds DEF PopFromQueue, WorkerGoes, IInv, TypeOK
    <3>2. Len(queue[p]) \in Nat /\ Len(pushed[p]) \in Nat
      BY <3>1
    <3>3. Popped(p)' = Popped(p) + 1
      <4>1. Len(queue'[p]) = Len(queue[p]) - 1
        BY <3>1 DEF IInv, TypeOK
      <4>2. pushed' = pushed
        BY <3>1
      <4> QED
        BY <3>2, <4>1, <4>2 DEF Popped
    <3>4. ASSUME NEW q \in Partition, q # p PROVE Popped(q)' = Popped(q)
      BY <3>1, <3>4 DEF IInv, TypeOK, Popped
    <3>5. Channels!UnderWay(p) > 0
      BY <3>1, <3>2 DEF Channels!UnderWay, Popped
    <3> QED
      BY <3>1, <3>3, <3>4, <3>5 DEF Channels!Receive
  <2>3. ASSUME UNCHANGED <<queue, pushed>> PROVE UNCHANGED Channels!vars
    <3>1. \A p \in Partition : Popped(p)' = Popped(p)
      BY <2>3 DEF Popped
    <3> QED
      BY <2>3, <3>1 DEF Channels!vars
  <2>4. \/ PushToQueue
        \/ \E p \in Partition : PopFromQueue(p)
        \/ UNCHANGED <<queue, pushed>>
    BY DEF Next, Main, Construct, StartWorker, StartMetrics, StartWorkload, Join, Submit,
           Scheduler, TakeMessage, WaitSpace, PostSemaphore, Worker, WaitSemaphore,
           ReleaseSpace, Execute, Metrics, Terminated, vars, queueVars
  <2>5. CASE PushToQueue
    <3>1. target \in Partition /\ taken \in Request
      BY <2>5 DEF PushToQueue, SchedulerGoes, IInv, TypeOK, Scheduling
    <3> QED
      BY <2>1, <2>5, <3>1 DEF Channels!Next
  <2>6. CASE \E p \in Partition : PopFromQueue(p)
    BY <2>2, <2>6 DEF Channels!Next
  <2> QED
    BY <2>3, <2>4, <2>5, <2>6
<1> QED
  BY <1>1, <1>2, Inductive, PTL DEF Safety, Channels!Safety

-----------------------------------------------------------------------------
(* Nothing is lost.                                                          *)

(* A request taken is in the hands of the scheduling thread or in one of the *)
(* three places of a partition.                                              *)
NothingLost ==
    \A r \in Request :
        r <= taken => \/ r = taken /\ scheduler \in {"space", "push"}
                      \/ \E p \in Partition : r \in Given(p)

EndTaken == scheduler = "ended" => taken = End

(* What was given to a partition stays with it; what is taken next is in the *)
(* hands of the scheduling thread until it is pushed.                        *)
LEMMA GivenKept ==
  ASSUME IInv, [Next]_vars, NEW p \in Partition
  PROVE  Given(p) \subseteq Given(p)'
  <1>1. CASE Scheduler /\ PushToQueue
    <2>1. /\ target \in Partition /\ taken \in Request
          /\ queue' = [queue EXCEPT ![target] = Append(@, taken)]
          /\ queue[p] \in Seq(Request)
          /\ UNCHANGED <<worker, request, executed>>
      BY <1>1, PushFits DEF IInv, TypeOK, Scheduling, PushToQueue, SchedulerGoes,
         Scheduler, workerVars
    <2>2. Queued(p) \subseteq Queued(p)'
      BY <2>1, AppendElements DEF IInv, TypeOK, Queued
    <2>3. Held(p)' = Held(p) /\ executed' = executed
      BY <2>1 DEF Held
    <2> QED
      BY <2>2, <2>3 DEF Given
  <1>2. ASSUME NEW q \in Partition, Worker(q), PopFromQueue(q) PROVE Given(p) \subseteq Given(p)'
    <2> USE <1>2 DEF PopFromQueue, WorkerGoes
    <2>1. CASE p = q
      <3>1. /\ queue[p] \in Seq(Request) /\ queue[p] # <<>>
            /\ request'[p] = Head(queue[p]) /\ queue'[p] = Tail(queue[p])
            /\ worker[p] = "pop" /\ worker'[p] \in {"release", "execute"}
            /\ executed' = executed
        BY <2>1 DEF IInv, TypeOK
      <3>2. Queued(p) = Queued(p)' \cup {Head(queue[p])}
        BY <3>1, TailElements DEF Queued
      <3>3. Held(p) = {} /\ Held(p)' = {Head(queue[p])}
        BY <3>1 DEF Held
      <3> QED
        BY <3>1, <3>2, <3>3 DEF Given
    <2>2. CASE p # q
      BY <2>2 DEF IInv, TypeOK, Given, Queued, Held
    <2> QED
      BY <2>1, <2>2
  <1>3. ASSUME NEW q \in Partition, Worker(q), Execute(q) PROVE Given(p) \subseteq Given(p)'
    <2> USE <1>3 DEF Execute, WorkerGoes, queueVars
    <2>1. Queued(p)' = Queued(p)
      BY DEF Queued
    <2>2. CASE p = q
      <3>1. Held(p) = {request[p]} /\ executed'[p] = executed[p] \cup {request[p]}
        BY <2>2 DEF IInv, TypeOK, Held
      <3> QED
        BY <2>1, <3>1 DEF Given
    <2>3. CASE p # q
      BY <2>1, <2>3 DEF IInv, TypeOK, Given, Held
    <2> QED
      BY <2>2, <2>3
  <1>4. ASSUME UNCHANGED <<queue, executed>>, Held(p)' = Held(p)
        PROVE  Given(p) \subseteq Given(p)'
    BY <1>4 DEF Given, Queued
  <1>5. CASE Main
    <2>1. UNCHANGED <<queue, request, executed>>
      BY <1>5 DEF Main, Construct, StartWorker, StartMetrics, StartWorkload, Join,
                  queueVars,
         workerVars
    <2>2. Held(p)' = Held(p)
      <3>1. CASE UNCHANGED worker
        BY <2>1, <3>1 DEF Held
      <3>2. ASSUME NEW q \in Partition, StartWorker(q) PROVE Held(p)' = Held(p)
        <4>1. worker[q] = "off" /\ worker' = [worker EXCEPT ![q] = "wait"]
          BY <3>2 DEF IInv, Threads, StartWorker
        <4> QED
          BY <2>1, <4>1 DEF IInv, TypeOK, Held
      <3> QED
        BY <1>5, <3>1, <3>2 DEF Main, Construct, StartMetrics, StartWorkload, Join,
                                workerVars
    <2> QED
      BY <1>4, <2>1, <2>2
  <1>6. CASE Submit \/ Metrics \/ UNCHANGED vars
    <2>1. UNCHANGED <<queue, executed, worker, request>>
      BY <1>6 DEF Submit, Metrics, vars, queueVars, workerVars
    <2> QED
      BY <1>4, <2>1 DEF Held
  <1>7. CASE Scheduler /\ ~PushToQueue
    <2>1. UNCHANGED <<queue, executed, worker, request>>
      BY <1>7 DEF Scheduler, TakeMessage, WaitSpace, PostSemaphore, queueVars, workerVars
    <2> QED
      BY <1>4, <2>1 DEF Held
  <1>8. ASSUME NEW q \in Partition, Worker(q), WaitSemaphore(q) \/ ReleaseSpace(q)
        PROVE  Given(p) \subseteq Given(p)'
    <2>1. UNCHANGED <<queue, executed, request>>
      BY <1>8 DEF WaitSemaphore, ReleaseSpace
    <2>2. Held(p)' = Held(p)
      BY <1>8, <2>1 DEF IInv, TypeOK, WaitSemaphore, ReleaseSpace, WorkerGoes, Held
    <2> QED
      BY <1>4, <2>1, <2>2
  <1>9. ASSUME NEW q \in Partition, Worker(q) PROVE Given(p) \subseteq Given(p)'
    BY <1>2, <1>3, <1>8, <1>9 DEF Worker
  <1> QED
    BY <1>1, <1>5, <1>6, <1>7, <1>9 DEF Next, Terminated

(* What becomes of the request in the hands of the scheduling thread.        *)
LEMMA TakenGiven ==
  ASSUME IInv, [Next]_vars
  PROVE  \/ UNCHANGED <<scheduler, taken>>
         \/ scheduler \notin {"space", "push", "ended"} /\ scheduler' = "idle" /\ taken' = taken
         \/ scheduler = "space" /\ scheduler' = "push" /\ taken' = taken
         \/ /\ scheduler = "push" /\ scheduler' = "post" /\ taken' = taken
            /\ \E p \in Partition : taken \in Given(p)'
         \/ /\ scheduler = "idle" /\ taken' = taken + 1
            /\ IF taken' = End THEN scheduler' = "ended" ELSE scheduler' \in {"space", "push"}
  <1>1. CASE Main
    BY <1>1 DEF Main, Construct, StartWorker, StartMetrics, StartWorkload, Join,
       schedulerVars, IInv, Threads, MainGoes
  <1>2. CASE Submit \/ Metrics \/ UNCHANGED vars \/ \E p \in Partition : Worker(p)
    BY <1>2 DEF Submit, Metrics, vars, Worker, schedulerVars
  <1>3. CASE Scheduler /\ (TakeMessage \/ WaitSpace \/ PostSemaphore)
    BY <1>3 DEF TakeMessage, WaitSpace, PostSemaphore, SchedulerGoes
  <1>4. CASE Scheduler /\ PushToQueue
    <2>1. /\ target \in Partition /\ taken \in Request
          /\ queue'[target] = Append(queue[target], taken)
          /\ queue[target] \in Seq(Request) /\ target' = target
      BY <1>4, PushFits DEF IInv, TypeOK, Scheduling, PushToQueue, SchedulerGoes
    <2>2. ASSUME NEW p \in Partition, p = target PROVE taken \in Given(p)'
      <3>1. queue[p] \in Seq(Request) /\ queue'[p] = Append(queue[p], taken)
        BY <2>1, <2>2
      <3>2. taken \in Elements(Append(queue[p], taken))
        BY <2>1, <3>1, AppendElements
      <3> QED
        BY <3>1, <3>2 DEF Given, Queued
    <2> QED
      BY <1>4, <2>1, <2>2 DEF PushToQueue, SchedulerGoes
  <1> QED
    BY <1>1, <1>2, <1>3, <1>4 DEF Next, Scheduler, Terminated

(* No step loses a request.                                                  *)
LEMMA LostStep == ASSUME IInv, NothingLost, EndTaken, [Next]_vars PROVE NothingLost' /\ EndTaken'
  <1>1. EndTaken'
    BY TakenGiven DEF EndTaken
  <1>2. taken \in Int /\ taken' \in Int /\ taken <= taken' /\ taken' <= taken + 1
    BY TakenGiven DEF IInv, TypeOK, End
  <1>3. ASSUME NEW r \in Request, r <= taken'
        PROVE  \/ r = taken' /\ scheduler' \in {"space", "push"}
               \/ \E p \in Partition : r \in Given(p)'
    <2>1. r \in Int /\ r # End
      BY NRequestsAssumption DEF Request, End
    <2>2. CASE \E p \in Partition : r \in Given(p)
      BY <2>2, GivenKept
    <2>3. CASE r <= taken /\ r = taken /\ scheduler \in {"space", "push"}
      BY <1>2, <1>3, <2>1, <2>3, TakenGiven
    <2>4. CASE r > taken
      <3>1. r = taken' /\ taken' = taken + 1
        BY <1>2, <1>3, <2>1, <2>4
      <3> QED
        BY <1>2, <2>1, <3>1, TakenGiven
    <2> QED
      BY <1>2, <2>1, <2>2, <2>3, <2>4 DEF NothingLost
  <1> QED
    BY <1>1, <1>3 DEF NothingLost

(* push_request and pop_request: when the scheduling thread and every worker *)
(* wait, there is nothing left that one of them should have done.            *)
THEOREM NobodyLeftWaitingTheorem == Safety => []NobodyLeftWaiting
  <1>1. ASSUME IInv, NothingLost, EndTaken, SchedulerWaits,
               \A p \in Partition : WorkerWaits(p)
        PROVE  /\ scheduler # "space" /\ taken = submitted
               /\ \A r \in Request : r <= submitted => \E p \in Partition : r \in executed[p]
    <2>1. scheduler # "space"
      <3> SUFFICES ASSUME scheduler = "space" PROVE FALSE
        OBVIOUS
      <3>1. target \in Partition /\ target \in started /\ remaining[target] = 0
        BY <1>1, NRequestsAssumption DEF IInv, TypeOK, Threads, Scheduling, Request,
                                         SchedulerWaits
      <3>2. worker[target] = "wait" /\ semaphore[target] = 0
        BY <1>1, <3>1 DEF WorkerWaits
      <3>3. Len(queue[target]) = 0
        BY <1>1, <3>1, <3>2 DEF IInv, Tokens, Holds
      <3>4. Bounded
        BY <1>1 DEF IInv, Scheduling
      <3>5. Capacity = 0
        BY <1>1, <3>1, <3>2, <3>3, <3>4 DEF IInv, Tokens, Holds
      <3> QED
        BY <3>4, <3>5 DEF Bounded
    <2>2. taken = submitted
      BY <1>1, <2>1, NRequestsAssumption DEF SchedulerWaits, EndTaken, IInv, TypeOK,
                                             Scheduling, End
    <2>3. scheduler \notin {"space", "push", "post"}
      BY <1>1, <2>1 DEF SchedulerWaits
    <2>4. ASSUME NEW r \in Request, r <= submitted PROVE \E p \in Partition : r \in executed[p]
      <3>1. PICK p \in Partition : r \in Given(p)
        BY <1>1, <2>2, <2>3, <2>4 DEF NothingLost
      <3>2. worker[p] = "wait" /\ semaphore[p] = 0
        BY <1>1 DEF WorkerWaits
      <3>3. Held(p) = {}
        BY <3>2 DEF Held
      <3>4. Len(queue[p]) = 0
        BY <1>1, <2>3, <3>2 DEF IInv, Tokens, Holds
      <3>5. Queued(p) = {}
        BY <3>4 DEF Queued, Elements
      <3> QED
        BY <3>1, <3>3, <3>5 DEF Given
    <2> QED
      BY <2>1, <2>2, <2>4
  <1>2. Init => NothingLost /\ EndTaken
    BY NRequestsAssumption DEF Init, NothingLost, EndTaken, Request
  <1>3. IInv /\ NothingLost /\ EndTaken /\ [Next]_vars => NothingLost' /\ EndTaken'
    BY LostStep
  <1>4. IInv /\ NothingLost /\ EndTaken => NobodyLeftWaiting
    BY <1>1 DEF NobodyLeftWaiting
  <1> QED
    BY <1>2, <1>3, <1>4, Inductive, PTL DEF Safety

=============================================================================
