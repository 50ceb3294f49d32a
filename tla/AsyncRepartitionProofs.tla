----------------------- MODULE AsyncRepartitionProofs -----------------------
(* Proofs about AsyncRepartition for every scheduler, every interval and     *)
(* every set of addresses.                                                   *)
EXTENDS AsyncRepartition, FiniteSetTheorems, TLAPS

(* The state the constructors leave satisfies the invariant.                 *)
LEMMA InvInit == Init => HandoverInv
<1> SUFFICES ASSUME Init PROVE HandoverInv
  OBVIOUS
<1>1. TypeOK
  <2>1. /\ variant \in Variants /\ scheduler = "dispatch" /\ grapher = "update"
        /\ partitioner = "wait"
        /\ active \in Maps /\ spare \in Maps
        /\ allocated \subseteq Maps /\ retired \subseteq Maps
    BY DEF Init
  <2>2. repartitioning \in BOOLEAN /\ update \in BOOLEAN /\ repartition \in BOOLEAN
    BY Zenon DEF Init
  <2>3. repartSem \in 0 .. 1 /\ sinceStart \in 0 .. Interval
    BY IntervalAssumption DEF Init
  <2>4. temp \in [{"scheduler", "partitioner"} -> Maps]
    <3>1. temp = [t \in {"scheduler", "partitioner"} |-> active]
      BY DEF Init
    <3> QED
      BY <2>1, <3>1
  <2> QED
    BY <2>1, <2>2, <2>3, <2>4, Zenon DEF TypeOK
<1>2. OneRound
  BY DEF Init, OneRound, Rounds, Holds, Async
<1>3. MapsApart /\ MapsFresh
  BY DEF Init, MapsApart, MapsFresh
<1> QED
  BY <1>1, <1>2, <1>3 DEF HandoverInv

(* Dispatching a request keeps the invariant.                                *)
LEMMA InvDispatch == ASSUME HandoverInv, Dispatch PROVE HandoverInv'
<1> USE DEF HandoverInv
<1>1. TypeOK'
  BY IntervalAssumption DEF TypeOK, Dispatch, SchedulerGoes, flagVars, mapVars
<1>2. OneRound'
  BY DEF OneRound, Rounds, Holds, Async, TypeOK, Dispatch, SchedulerGoes, flagVars, mapVars
<1>3. MapsApart'
  BY DEF MapsApart, OneRound, Rounds, Holds, TypeOK, Dispatch, SchedulerGoes, flagVars,
         mapVars
<1>4. MapsFresh'
  BY DEF MapsFresh, MapsApart, OneRound, Rounds, Holds, TypeOK, Dispatch, SchedulerGoes,
         flagVars, mapVars
<1> QED
  BY <1>1, <1>2, <1>3, <1>4

(* Looking at the flags keeps the invariant.                                 *)
LEMMA InvCheckFlags == ASSUME HandoverInv, CheckFlags PROVE HandoverInv'
<1> USE DEF HandoverInv
<1>1. TypeOK'
  BY IntervalAssumption DEF TypeOK, CheckFlags, SchedulerGoes, IntervalAchieved, flagVars,
                            mapVars
<1>2. OneRound'
  <2>1. /\ scheduler = "check" /\ scheduler' \in {"order", "take", "dispatch"}
        /\ scheduler' = "order" => Async /\ ~repartitioning
        /\ scheduler' = "take" => update
        /\ UNCHANGED <<variant, grapher, partitioner, flagVars>>
    BY DEF CheckFlags, SchedulerGoes, IntervalAchieved, Async
  <2> QED
    BY <2>1 DEF OneRound, Rounds, Holds, Async, TypeOK, flagVars
<1>3. MapsApart'
  BY DEF MapsApart, OneRound, Rounds, Holds, TypeOK, CheckFlags, SchedulerGoes,
         IntervalAchieved, flagVars, mapVars
<1>4. MapsFresh'
  BY DEF MapsFresh, MapsApart, OneRound, Rounds, Holds, TypeOK, CheckFlags, SchedulerGoes,
         IntervalAchieved, flagVars, mapVars
<1> QED
  BY <1>1, <1>2, <1>3, <1>4

(* AsyncScheduler's order of a round keeps the invariant.                    *)
LEMMA InvOrderRound == ASSUME HandoverInv, OrderRound PROVE HandoverInv'
<1> USE DEF HandoverInv
<1>1. TypeOK'
  BY IntervalAssumption DEF TypeOK, OrderRound, SchedulerGoes, flagVars, mapVars
<1>2. OneRound'
  BY DEF OneRound, Rounds, Holds, Async, TypeOK, OrderRound, SchedulerGoes, flagVars,
         mapVars
<1>3. MapsApart'
  BY DEF MapsApart, OneRound, Rounds, Holds, TypeOK, OrderRound, SchedulerGoes, flagVars,
         mapVars
<1>4. MapsFresh'
  BY DEF MapsFresh, MapsApart, OneRound, Rounds, Holds, TypeOK, OrderRound, SchedulerGoes,
         flagVars, mapVars
<1> QED
  BY <1>1, <1>2, <1>3, <1>4

(* Exchanging the two maps keeps the invariant.                              *)
LEMMA InvChangePartitionScheme == ASSUME HandoverInv, ChangePartitionScheme PROVE HandoverInv'
<1> USE DEF HandoverInv
<1>1. TypeOK'
  BY IntervalAssumption DEF TypeOK, ChangePartitionScheme, GiveBack, SchedulerGoes,
                            flagVars, mapVars
<1>2. OneRound'
  BY DEF OneRound, Rounds, Holds, Async, TypeOK, ChangePartitionScheme, GiveBack,
         SchedulerGoes, flagVars, mapVars
<1>3. MapsApart'
  BY DEF MapsApart, OneRound, Rounds, Holds, TypeOK, ChangePartitionScheme, GiveBack,
         SchedulerGoes, flagVars, mapVars
<1>4. MapsFresh'
  BY DEF MapsFresh, MapsApart, OneRound, Rounds, Holds, TypeOK, ChangePartitionScheme,
         GiveBack, SchedulerGoes, flagVars, mapVars
<1> QED
  BY <1>1, <1>2, <1>3, <1>4

(* Resetting the flags keeps the invariant.                                  *)
LEMMA InvFinishRound == ASSUME HandoverInv, FinishRound PROVE HandoverInv'
<1> USE DEF HandoverInv
<1>1. TypeOK'
  BY IntervalAssumption DEF TypeOK, FinishRound, CloseRound, SchedulerGoes, flagVars,
                            mapVars
<1>2. OneRound'
  BY DEF OneRound, Rounds, Holds, Async, TypeOK, FinishRound, CloseRound, SchedulerGoes,
         flagVars, mapVars
<1>3. MapsApart'
  BY DEF MapsApart, OneRound, Rounds, Holds, TypeOK, FinishRound, CloseRound,
         SchedulerGoes, flagVars, mapVars
<1>4. MapsFresh'
  BY DEF MapsFresh, MapsApart, OneRound, Rounds, Holds, TypeOK, FinishRound, CloseRound,
         SchedulerGoes, flagVars, mapVars
<1> QED
  BY <1>1, <1>2, <1>3, <1>4

(* Beginning an interval keeps the invariant.                                *)
LEMMA InvRestartInterval == ASSUME HandoverInv, RestartInterval PROVE HandoverInv'
<1> USE DEF HandoverInv
<1>1. TypeOK'
  BY IntervalAssumption DEF TypeOK, RestartInterval, SchedulerGoes, flagVars, mapVars
<1>2. OneRound'
  BY DEF OneRound, Rounds, Holds, Async, TypeOK, RestartInterval, SchedulerGoes, flagVars,
         mapVars
<1>3. MapsApart'
  BY DEF MapsApart, OneRound, Rounds, Holds, TypeOK, RestartInterval, SchedulerGoes,
         flagVars, mapVars
<1>4. MapsFresh'
  BY DEF MapsFresh, MapsApart, OneRound, Rounds, Holds, TypeOK, RestartInterval,
         SchedulerGoes, flagVars, mapVars
<1> QED
  BY <1>1, <1>2, <1>3, <1>4

(* Folding a request into the graph keeps the invariant.                     *)
LEMMA InvUpdateGraph == ASSUME HandoverInv, UpdateGraph PROVE HandoverInv'
<1> USE DEF HandoverInv
<1>1. TypeOK'
  BY IntervalAssumption DEF TypeOK, UpdateGraph, GrapherGoes, flagVars, mapVars
<1>2. OneRound'
  BY DEF OneRound, Rounds, Holds, Async, TypeOK, UpdateGraph, GrapherGoes, flagVars, mapVars
<1>3. MapsApart'
  BY DEF MapsApart, OneRound, Rounds, Holds, TypeOK, UpdateGraph, GrapherGoes, flagVars,
         mapVars
<1>4. MapsFresh'
  BY DEF MapsFresh, MapsApart, OneRound, Rounds, Holds, TypeOK, UpdateGraph, GrapherGoes,
         flagVars, mapVars
<1> QED
  BY <1>1, <1>2, <1>3, <1>4

(* The graph thread's look at the flags keeps the invariant.                 *)
LEMMA InvCheckRound == ASSUME HandoverInv, CheckRound PROVE HandoverInv'
<1> USE DEF HandoverInv
<1>1. TypeOK'
  BY IntervalAssumption DEF TypeOK, CheckRound, MayBegin, GrapherGoes, flagVars, mapVars
<1>2. OneRound'
  <2>1. /\ grapher = "check" /\ grapher' \in {"begin", "update"}
        /\ grapher' = "begin" => IF Async THEN repartition ELSE ~repartitioning
        /\ UNCHANGED <<variant, scheduler, partitioner, flagVars>>
    BY DEF CheckRound, MayBegin, GrapherGoes
  <2> QED
    BY <2>1 DEF OneRound, Rounds, Holds, Async, TypeOK, flagVars
<1>3. MapsApart'
  BY DEF MapsApart, OneRound, Rounds, Holds, TypeOK, CheckRound, MayBegin, GrapherGoes,
         flagVars, mapVars
<1>4. MapsFresh'
  BY DEF MapsFresh, MapsApart, OneRound, Rounds, Holds, TypeOK, CheckRound, MayBegin,
         GrapherGoes, flagVars, mapVars
<1> QED
  BY <1>1, <1>2, <1>3, <1>4

(* Beginning a round keeps the invariant.                                    *)
LEMMA InvBeginRound == ASSUME HandoverInv, BeginRound PROVE HandoverInv'
<1> USE DEF HandoverInv
<1>1. TypeOK'
  BY IntervalAssumption DEF TypeOK, BeginRound, GrapherGoes, flagVars, mapVars
<1>2. OneRound'
  BY DEF OneRound, Rounds, Holds, Async, TypeOK, BeginRound, GrapherGoes, flagVars, mapVars
<1>3. MapsApart'
  BY DEF MapsApart, OneRound, Rounds, Holds, TypeOK, BeginRound, GrapherGoes, flagVars,
         mapVars
<1>4. MapsFresh'
  BY DEF MapsFresh, MapsApart, OneRound, Rounds, Holds, TypeOK, BeginRound, GrapherGoes,
         flagVars, mapVars
<1> QED
  BY <1>1, <1>2, <1>3, <1>4

(* Copying the graph and posting the order keep the invariant.               *)
LEMMA InvOrderPartitioning == ASSUME HandoverInv, OrderPartitioning PROVE HandoverInv'
<1> USE DEF HandoverInv
<1>1. TypeOK'
  BY IntervalAssumption DEF TypeOK, OneRound, Rounds, Holds, Async, OrderPartitioning,
                            GrapherGoes, flagVars, mapVars
<1>2. OneRound'
  <2>1. CASE GrapherGoes("copy", "post") /\ UNCHANGED repartSem
    BY <2>1 DEF OneRound, Rounds, Holds, Async, TypeOK, OrderPartitioning, GrapherGoes,
                mapVars
  <2>2. CASE GrapherGoes("post", "update") /\ repartSem' = repartSem + 1
    BY <2>2 DEF OneRound, Rounds, Holds, Async, TypeOK, OrderPartitioning, GrapherGoes,
                mapVars
  <2> QED
    BY <2>1, <2>2 DEF OrderPartitioning
<1>3. MapsApart'
  BY DEF MapsApart, OneRound, Rounds, Holds, TypeOK, OrderPartitioning, GrapherGoes,
         flagVars, mapVars
<1>4. MapsFresh'
  BY DEF MapsFresh, MapsApart, OneRound, Rounds, Holds, TypeOK, OrderPartitioning,
         GrapherGoes, flagVars, mapVars
<1> QED
  BY <1>1, <1>2, <1>3, <1>4

(* Taking the order keeps the invariant.                                     *)
LEMMA InvAwaitOrder == ASSUME HandoverInv, AwaitOrder PROVE HandoverInv'
<1> USE DEF HandoverInv
<1>1. TypeOK'
  BY IntervalAssumption DEF TypeOK, AwaitOrder, PartitionerGoes, flagVars, mapVars
<1>2. OneRound'
  BY DEF OneRound, Rounds, Holds, Async, TypeOK, AwaitOrder, PartitionerGoes, flagVars,
         mapVars
<1>3. MapsApart'
  BY DEF MapsApart, OneRound, Rounds, Holds, TypeOK, AwaitOrder, PartitionerGoes, flagVars,
         mapVars
<1>4. MapsFresh'
  BY DEF MapsFresh, MapsApart, OneRound, Rounds, Holds, TypeOK, AwaitOrder,
         PartitionerGoes, flagVars, mapVars
<1> QED
  BY <1>1, <1>2, <1>3, <1>4

(* Deleting the map that was replaced keeps the invariant.                   *)
LEMMA InvDeleteSpare == ASSUME HandoverInv, DeleteSpare PROVE HandoverInv'
<1> USE DEF HandoverInv
<1>1. TypeOK'
  BY IntervalAssumption DEF TypeOK, DeleteSpare, FreeSpare, PartitionerGoes, flagVars,
                            mapVars
<1>2. OneRound'
  BY DEF OneRound, Rounds, Holds, Async, TypeOK, DeleteSpare, FreeSpare, PartitionerGoes,
         flagVars, mapVars
<1>3. MapsApart'
  BY DEF MapsApart, OneRound, Rounds, Holds, TypeOK, DeleteSpare, FreeSpare,
         PartitionerGoes, flagVars, mapVars
<1>4. MapsFresh'
  BY DEF MapsFresh, MapsApart, OneRound, Rounds, Holds, TypeOK, DeleteSpare, FreeSpare,
         PartitionerGoes, flagVars, mapVars
<1> QED
  BY <1>1, <1>2, <1>3, <1>4

(* Computing a map keeps the invariant.                                      *)
LEMMA InvComputeMap == ASSUME HandoverInv, ComputeMap PROVE HandoverInv'
<1> USE DEF HandoverInv
<1>1. TypeOK'
  BY IntervalAssumption DEF TypeOK, ComputeMap, PartitionerGoes, flagVars, mapVars
<1>2. OneRound'
  BY DEF OneRound, Rounds, Holds, Async, TypeOK, ComputeMap, PartitionerGoes, flagVars,
         mapVars
<1>3. MapsApart'
  BY DEF MapsApart, OneRound, Rounds, Holds, TypeOK, ComputeMap, PartitionerGoes, flagVars,
         mapVars
<1>4. MapsFresh'
  BY DEF MapsFresh, MapsApart, OneRound, Rounds, Holds, TypeOK, ComputeMap,
         PartitionerGoes, flagVars, mapVars
<1> QED
  BY <1>1, <1>2, <1>3, <1>4

(* Putting the computed map in place keeps the invariant.                    *)
LEMMA InvInstallSpare == ASSUME HandoverInv, InstallSpare PROVE HandoverInv'
<1> USE DEF HandoverInv
<1>1. TypeOK'
  BY IntervalAssumption DEF TypeOK, InstallSpare, PartitionerGoes, flagVars, mapVars
<1>2. OneRound'
  BY DEF OneRound, Rounds, Holds, Async, TypeOK, InstallSpare, PartitionerGoes, flagVars,
         mapVars
<1>3. MapsApart'
  BY DEF MapsApart, OneRound, Rounds, Holds, TypeOK, InstallSpare, PartitionerGoes,
         flagVars, mapVars
<1>4. MapsFresh'
  BY DEF MapsFresh, MapsApart, OneRound, Rounds, Holds, TypeOK, InstallSpare,
         PartitionerGoes, flagVars, mapVars
<1> QED
  BY <1>1, <1>2, <1>3, <1>4

(* Announcing the computed map keeps the invariant.                          *)
LEMMA InvRaiseUpdate == ASSUME HandoverInv, RaiseUpdate PROVE HandoverInv'
<1> USE DEF HandoverInv
<1>1. TypeOK'
  BY IntervalAssumption DEF TypeOK, RaiseUpdate, PartitionerGoes, flagVars, mapVars
<1>2. OneRound'
  BY DEF OneRound, Rounds, Holds, Async, TypeOK, RaiseUpdate, PartitionerGoes, flagVars,
         mapVars
<1>3. MapsApart'
  BY DEF MapsApart, OneRound, Rounds, Holds, TypeOK, RaiseUpdate, PartitionerGoes,
         flagVars, mapVars
<1>4. MapsFresh'
  BY DEF MapsFresh, MapsApart, OneRound, Rounds, Holds, TypeOK, RaiseUpdate,
         PartitionerGoes, flagVars, mapVars
<1> QED
  BY <1>1, <1>2, <1>3, <1>4

(* Every step keeps the invariant.                                           *)
LEMMA InvNext == HandoverInv /\ [Next]_vars => HandoverInv'
<1> SUFFICES ASSUME HandoverInv, [Next]_vars PROVE HandoverInv'
  OBVIOUS
<1>1. CASE Scheduler
  BY <1>1, InvDispatch, InvCheckFlags, InvOrderRound, InvChangePartitionScheme,
     InvFinishRound, InvRestartInterval DEF Scheduler
<1>2. CASE Grapher
  BY <1>2, InvUpdateGraph, InvCheckRound, InvBeginRound, InvOrderPartitioning DEF Grapher
<1>3. CASE Partitioner
  BY <1>3, InvAwaitOrder, InvDeleteSpare, InvComputeMap, InvInstallSpare, InvRaiseUpdate
     DEF Partitioner
<1>4. CASE UNCHANGED vars
  BY <1>4 DEF HandoverInv, TypeOK, OneRound, Rounds, Async, MapsApart, MapsFresh,
     vars, flagVars, mapVars
<1> QED
  BY <1>1, <1>2, <1>3, <1>4 DEF Next

(* The invariant holds in every reachable state.                             *)
THEOREM HandoverInductive == Safety => []HandoverInv
BY InvInit, InvNext, PTL DEF Safety

(* The flags, the pointers and the threads' places keep their types; in      *)
(* particular the semaphore never counts more than one order.                *)
THEOREM HandoverTypes == Safety => []TypeOK
<1>1. HandoverInv => TypeOK
  BY DEF HandoverInv
<1> QED
  BY <1>1, HandoverInductive, PTL

(* The active map is never one that was deleted, and no map is deleted twice *)
(* or while it is active.                                                    *)
THEOREM ActiveAllocatedTheorem == Safety => []ActiveAllocated
<1>1. HandoverInv => ActiveAllocated
  <2> SUFFICES ASSUME HandoverInv PROVE ActiveAllocated
    OBVIOUS
  <2>1. partitioner = "delete" => scheduler # "give"
    BY DEF HandoverInv, OneRound, Rounds, Holds, TypeOK
  <2> QED
    BY <2>1 DEF HandoverInv, MapsApart, ActiveAllocated
<1> QED
  BY <1>1, HandoverInductive, PTL

(* The graph thread writes the copy, and the scheduling thread exchanges the *)
(* maps, only while the partitioning thread is at rest.                      *)
THEOREM HandoverExclusiveTheorem == Safety => []HandoverExclusive
<1>1. HandoverInv => HandoverExclusive
  BY DEF HandoverInv, OneRound, Rounds, Holds, TypeOK, HandoverExclusive
<1> QED
  BY <1>1, HandoverInductive, PTL

(* No map is leaked.                                                         *)
THEOREM NoLeakTheorem == Safety => []NoLeak
<1>1. HandoverInv => NoLeak
  BY DEF HandoverInv, MapsApart, NoLeak
<1> QED
  BY <1>1, HandoverInductive, PTL

(* No map becomes the active one a second time.                              *)
THEOREM NoOldMapTheorem == Safety => NoOldMap
<1>1. HandoverInv /\ [Next]_vars => [active' # active => active' \notin retired]_vars
  <2> SUFFICES ASSUME HandoverInv, Next, active' # active PROVE active' \notin retired
    OBVIOUS
  <2>1. SchedulerGoes("take", "give") /\ active' = spare
    BY DEF Next, Scheduler, Dispatch, CheckFlags, OrderRound, ChangePartitionScheme,
       FinishRound, RestartInterval, Grapher, UpdateGraph, CheckRound, BeginRound,
       OrderPartitioning, Partitioner, AwaitOrder, DeleteSpare, ComputeMap,
       InstallSpare, RaiseUpdate, flagVars, mapVars
  <2> QED
    BY <2>1 DEF SchedulerGoes, HandoverInv, OneRound, MapsFresh
<1> QED
  BY <1>1, HandoverInductive, PTL DEF Safety, NoOldMap

-----------------------------------------------------------------------------
(* Maps change in rounds.                                                    *)

(* A round is in one place: the sum of OneRound, in words.                   *)
LEMMA OnePlace ==
    ASSUME HandoverInv
    PROVE  /\ scheduler \in {"take", "give", "sync"} => update
           /\ update => ~Ordered /\ scheduler \notin {"order", "close"}
           /\ scheduler = "close" => ~Ordered
           /\ ~Async => /\ ~repartition /\ scheduler \notin {"order", "begin"}
                        /\ (~repartitioning /\ grapher # "begin")
                              => ~update /\ ~Ordered /\ scheduler # "close"
           /\ Async => /\ grapher = "begin" => repartition
                       /\ (~repartitioning /\ scheduler \notin {"order", "begin"})
                             => ~update /\ ~Ordered /\ scheduler # "close"
<1> USE DEF HandoverInv
<1>1. repartSem \in {0, 1}
  BY DEF TypeOK
<1>2. scheduler \in {"take", "give", "sync"} => update
  BY DEF OneRound
<1>3. Rounds <= 1
  BY DEF OneRound
<1>4. Rounds = 0 \/ Rounds = 1
  BY <1>1, <1>3 DEF Rounds, Holds
<1>5. Rounds = 0 => ~update /\ ~Ordered /\ scheduler # "close"
  BY <1>1 DEF Rounds, Holds, Ordered
<1>6. update => ~Ordered /\ scheduler \notin {"order", "close"}
  BY <1>1, <1>3 DEF Rounds, Holds, Ordered
<1>7. scheduler = "close" => ~Ordered
  BY <1>1, <1>3 DEF Rounds, Holds, Ordered
<1> QED
  BY <1>2, <1>4, <1>5, <1>6, <1>7 DEF OneRound

(* The spare map is one that can be installed, once it is computed.          *)
LEMMA SpareNew ==
    ASSUME HandoverInv, partitioner = "flag" PROVE spare \in Maps \ {active}
<1>1. scheduler # "give"
  BY OnePlace DEF Ordered
<1> QED
  BY <1>1 DEF HandoverInv, TypeOK, MapsApart

(* A step that leaves the round where it is and the active map alone.        *)
LEMMA RoundStays ==
    ASSUME Round' = Round, active' = active, Round = "computed" => spare' = spare
    PROVE  UNCHANGED InRounds!vars
BY DEF InRounds!vars

(* The scheduling thread's steps are those of a round, or none.              *)
LEMMA RoundScheduler ==
    ASSUME HandoverInv, Scheduler PROVE [InRounds!Next]_(InRounds!vars)
<1> USE DEF SchedulerGoes
<1>0. Scheduler => UNCHANGED <<variant, grapher, partitioner, repartSem>>
  BY DEF Scheduler, Dispatch, CheckFlags, OrderRound, ChangePartitionScheme, FinishRound,
         RestartInterval, flagVars, mapVars
<1>1. CASE Dispatch \/ RestartInterval
  <2>1. /\ scheduler \in {"dispatch", "restart"} /\ scheduler' \in {"check", "dispatch"}
        /\ UNCHANGED <<active, spare, update, repartition>>
    BY <1>1 DEF Dispatch, RestartInterval, flagVars, mapVars
  <2>2. Ordered' = Ordered
    BY <1>0, <2>1 DEF Ordered, Async
  <2>3. Round' = Round
    BY <2>1, <2>2 DEF Round
  <2> QED
    BY <2>1, <2>3, RoundStays
<1>2. CASE CheckFlags
  <2>1. /\ scheduler = "check" /\ scheduler' \in {"order", "take", "dispatch"}
        /\ scheduler' = "order" => Async /\ ~repartitioning
        /\ UNCHANGED <<active, spare, update, repartition>>
    BY <1>2 DEF CheckFlags, flagVars, mapVars
  <2>2. CASE scheduler' = "order"
    <3>1. ~update /\ ~Ordered
      BY <2>1, <2>2, OnePlace
    <3>2. Ordered'
      BY <2>2 DEF Ordered
    <3>3. Round = "none" /\ Round' = "ordered"
      BY <2>1, <2>2, <3>1, <3>2 DEF Round
    <3> QED
      BY <2>1, <3>3 DEF InRounds!Next, InRounds!Order, InRounds!Goes
  <2>3. CASE scheduler' # "order"
    <3>1. Ordered' = Ordered
      BY <1>0, <2>1, <2>3 DEF Ordered, Async
    <3>2. Round' = Round
      BY <2>1, <2>3, <3>1 DEF Round
    <3> QED
      BY <2>1, <3>2, RoundStays
  <2> QED
    BY <2>2, <2>3
<1>3. CASE OrderRound
  <2>1. UNCHANGED <<active, spare, update>>
    BY <1>3 DEF OrderRound, mapVars
  <2>2. CASE scheduler = "order"
    <3>1. scheduler' = "begin" /\ repartition'
      BY <1>3, <2>2 DEF OrderRound
    <3>2. ~update /\ Ordered /\ Ordered'
      BY <2>2, <3>1, OnePlace DEF Ordered
    <3>3. Round' = Round
      BY <2>1, <2>2, <3>1, <3>2 DEF Round
    <3> QED
      BY <2>1, <3>3, RoundStays
  <2>3. CASE scheduler = "begin"
    <3>1. scheduler' = "dispatch" /\ UNCHANGED repartition
      BY <1>3, <2>3 DEF OrderRound
    <3>2. Ordered' = Ordered
      BY <1>0, <2>3, <3>1 DEF Ordered, Async
    <3>3. Round' = Round
      BY <2>1, <2>3, <3>1, <3>2 DEF Round
    <3> QED
      BY <2>1, <3>3, RoundStays
  <2> QED
    BY <1>3, <2>2, <2>3 DEF OrderRound
<1>4. CASE ChangePartitionScheme
  <2>1. UNCHANGED <<update, repartition>>
    BY <1>4 DEF ChangePartitionScheme, flagVars
  <2>2. CASE scheduler = "take"
    <3>1. scheduler' = "give" /\ active' = spare /\ update
      BY <1>4, <2>2, OnePlace DEF ChangePartitionScheme, GiveBack
    <3>2. Round = "computed" /\ Round' = "installed"
      BY <2>2, <3>1 DEF Round
    <3> QED
      BY <3>1, <3>2 DEF InRounds!Next, InRounds!Install, InRounds!Goes
  <2>3. CASE scheduler = "give"
    <3>1. scheduler' = "sync" /\ active' = active
      BY <1>4, <2>3 DEF ChangePartitionScheme, GiveBack
    <3>2. Round = "installed" /\ Round' = "installed"
      BY <2>3, <3>1 DEF Round
    <3> QED
      BY <3>1, <3>2, RoundStays
  <2> QED
    BY <1>4, <2>2, <2>3 DEF ChangePartitionScheme, GiveBack
<1>5. CASE FinishRound
  <2>1. UNCHANGED <<active, spare, repartition>>
    BY <1>5 DEF FinishRound, mapVars
  <2>2. CASE scheduler = "sync"
    <3>1. scheduler' = "close"
      BY <1>5, <2>2 DEF FinishRound, CloseRound
    <3>2. Round = "installed" /\ Round' = "installed"
      BY <2>2, <3>1 DEF Round
    <3> QED
      BY <2>1, <3>2, RoundStays
  <2>3. CASE scheduler = "close"
    <3>1. scheduler' = "restart" /\ update' = update
      BY <1>5, <2>3 DEF FinishRound, CloseRound
    <3>2. ~update /\ ~Ordered
      BY <2>3, OnePlace
    <3>3. Ordered' = Ordered
      BY <1>0, <2>1, <2>3, <3>1 DEF Ordered, Async
    <3>4. Round = "installed" /\ Round' = "none"
      BY <2>3, <3>1, <3>2, <3>3 DEF Round
    <3> QED
      BY <2>1, <3>4 DEF InRounds!Next, InRounds!Close, InRounds!Goes
  <2> QED
    BY <1>5, <2>2, <2>3 DEF FinishRound, CloseRound
<1> QED
  BY <1>1, <1>2, <1>3, <1>4, <1>5 DEF Scheduler

(* The graph thread's steps order a round, or are none of its steps.         *)
LEMMA RoundGrapher ==
    ASSUME HandoverInv, Grapher PROVE [InRounds!Next]_(InRounds!vars)
<1> USE DEF GrapherGoes
<1>0. UNCHANGED <<variant, scheduler, partitioner, update, active, spare>>
  BY DEF Grapher, UpdateGraph, CheckRound, BeginRound, OrderPartitioning, flagVars, mapVars
<1>1. CASE UNCHANGED Ordered
  <2>1. Round' = Round
    BY <1>0, <1>1 DEF Round
  <2> QED
    BY <1>0, <2>1, RoundStays
<1>2. CASE UpdateGraph
  <2>1. grapher = "update" /\ grapher' = "check" /\ UNCHANGED <<repartition, repartSem>>
    BY <1>2 DEF UpdateGraph, flagVars
  <2> QED
    BY <1>0, <1>1, <2>1 DEF Ordered, Async
<1>3. CASE CheckRound
  <2>1. /\ grapher = "check" /\ grapher' \in {"begin", "update"}
        /\ UNCHANGED <<repartition, repartSem>>
        /\ (grapher' = "begin" /\ Async) => repartition
        /\ (grapher' = "begin" /\ ~Async) => ~repartitioning
    BY <1>3 DEF CheckRound, MayBegin, flagVars
  <2>2. CASE grapher' = "begin" /\ ~Async
    <3>1. ~update /\ ~Ordered /\ scheduler \notin {"take", "give", "sync", "close"}
      BY <2>1, <2>2, OnePlace
    <3>2. Ordered'
      BY <1>0, <2>2 DEF Ordered, Async
    <3>3. Round = "none" /\ Round' = "ordered"
      BY <1>0, <3>1, <3>2 DEF Round
    <3> QED
      BY <1>0, <3>3 DEF InRounds!Next, InRounds!Order, InRounds!Goes
  <2>3. CASE ~(grapher' = "begin" /\ ~Async)
    <3>1. Ordered' = Ordered
      BY <1>0, <2>1, <2>3 DEF Ordered, Async
    <3> QED
      BY <1>1, <3>1
  <2> QED
    BY <2>2, <2>3
<1>4. CASE BeginRound
  <2>1. grapher = "begin" /\ grapher' = "copy"
    BY <1>4 DEF BeginRound
  <2>2. Ordered /\ Ordered'
    BY <2>1, OnePlace DEF Ordered
  <2> QED
    BY <1>1, <2>2
<1>5. CASE OrderPartitioning
  <2>1. /\ grapher \in {"copy", "post"}
        /\ grapher' = "post" \/ repartSem' = repartSem + 1
    BY <1>5 DEF OrderPartitioning
  <2>2. repartSem \in Nat
    BY DEF HandoverInv, TypeOK
  <2>3. Ordered /\ Ordered'
    BY <2>1, <2>2 DEF Ordered
  <2> QED
    BY <1>1, <2>3
<1> QED
  BY <1>2, <1>3, <1>4, <1>5 DEF Grapher

(* The partitioning thread's steps compute the map of a round, or none.      *)
LEMMA RoundPartitioner ==
    ASSUME HandoverInv, Partitioner PROVE [InRounds!Next]_(InRounds!vars)
<1> USE DEF PartitionerGoes
<1>0. UNCHANGED <<variant, scheduler, grapher, repartition, active>>
  BY DEF Partitioner, AwaitOrder, DeleteSpare, ComputeMap, InstallSpare, RaiseUpdate,
         flagVars, mapVars
<1>1. Ordered
  BY DEF Partitioner, AwaitOrder, DeleteSpare, ComputeMap, InstallSpare, RaiseUpdate,
         Ordered
<1>2. ~update /\ scheduler \notin {"give", "sync", "close"}
  BY <1>1, OnePlace
<1>3. Round = "ordered"
  BY <1>1, <1>2 DEF Round
<1>4. CASE AwaitOrder \/ DeleteSpare \/ ComputeMap \/ InstallSpare
  <2>1. partitioner' # "wait" /\ update' = update
    BY <1>4 DEF AwaitOrder, DeleteSpare, ComputeMap, InstallSpare, flagVars
  <2>2. Ordered'
    BY <2>1 DEF Ordered
  <2>3. Round' = "ordered"
    BY <1>0, <1>2, <2>1, <2>2 DEF Round
  <2> QED
    BY <1>0, <1>3, <2>3, RoundStays
<1>5. CASE RaiseUpdate
  <2>1. partitioner = "flag" /\ update' /\ spare' = spare
    BY <1>5 DEF RaiseUpdate, mapVars
  <2>2. Round' = "computed"
    BY <1>0, <1>2, <2>1 DEF Round
  <2> QED
    BY <1>0, <1>3, <2>1, <2>2, SpareNew DEF InRounds!Next, InRounds!Compute, InRounds!Goes
<1> QED
  BY <1>4, <1>5 DEF Partitioner

(* Whatever the scheduler and however the three threads interleave, the maps *)
(* change in the rounds of RepartitionRounds: a step of a thread is a step   *)
(* of its round or none at all.                                              *)
THEOREM ImplementsRoundsTheorem == Safety => InRounds!Safety
<1>1. Init => InRounds!Init
  <2> SUFFICES ASSUME Init PROVE InRounds!Init
    OBVIOUS
  <2>1. ~Ordered /\ ~update /\ scheduler = "dispatch" /\ active \in Maps
    BY DEF Init, Ordered
  <2>2. Round = "none"
    BY <2>1 DEF Round
  <2> QED
    BY <2>1, <2>2 DEF InRounds!Init
<1>2. HandoverInv /\ [Next]_vars => [InRounds!Next]_(InRounds!vars)
  <2> SUFFICES ASSUME HandoverInv, [Next]_vars PROVE [InRounds!Next]_(InRounds!vars)
    OBVIOUS
  <2>1. CASE UNCHANGED vars
    <3>1. Round' = Round /\ UNCHANGED <<active, spare>>
      BY <2>1 DEF vars, flagVars, mapVars, Round, Ordered, Async
    <3> QED
      BY <3>1, RoundStays
  <2> QED
    BY <2>1, RoundScheduler, RoundGrapher, RoundPartitioner DEF Next
<1> QED
  BY <1>1, <1>2, HandoverInductive, PTL DEF Safety, InRounds!Safety

=============================================================================
