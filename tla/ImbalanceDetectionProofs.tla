---------------------- MODULE ImbalanceDetectionProofs ----------------------
(* Theorems on ImbalanceDetection, for any number of partitions, any         *)
(* threshold and any number of checks in a row.                              *)
EXTENDS ImbalanceDetection, TLAPS

(* Each scheduler has its own part of the places.                            *)
OldPlaces ==
    variant = "OldImb" =>
        /\ ~ordered /\ ~update
        /\ scheduler \in {"idle", "count", "interval", "check", "restart"}
        /\ checker # "off" <=> scheduler = "check"
        /\ repartitioning => scheduler = "restart"

(* A round of AsyncImb is in one place: ordered, computed, or being          *)
(* installed.  No check is made while there is one.                          *)
AsyncPlaces ==
    variant = "AsyncImb" =>
        /\ scheduler \in {"idle", "count", "update", "start", "cross_start", "release"}
        /\ ordered => ~update /\ scheduler \notin {"start", "cross_start", "release"}
        /\ update => scheduler \notin {"start", "cross_start", "release"}
        /\ repartitioning <=> \/ ordered \/ update
                              \/ scheduler \in {"start", "cross_start", "release"}
        /\ checker # "off" => ~repartitioning

(* The window begins when a map is about to be installed; the two starts     *)
(* follow one after the other.                                               *)
Windows ==
    /\ window = IF scheduler = "start"
                THEN <<n_dispatched_requests, cross_partition_count>>
                ELSE IF scheduler = "cross_start"
                THEN <<operation_start, cross_partition_count>>
                ELSE <<operation_start, cross_operation_start>>
    /\ operation_start <= n_dispatched_requests
    /\ cross_operation_start <= cross_partition_count

Reads ==
    /\ checker # "read" => crossRead = Unread /\ dispatchedRead = Unread
    /\ checker = "read" => n_dispatched_requests > operation_start
    /\ dispatchedRead # Unread => dispatchedRead > 0

(* Among n checks, those of found found the evidence: count is the length of *)
(* the row of the latest ones that did.                                      *)
Row(n, found, count) ==
    /\ count <= n
    /\ n - count + 1 .. n \subseteq found
    /\ count < n => n - count \notin found

FoundUneven(p) == {k \in DOMAIN lengthChecks : p \in lengthChecks[k]}

FoundCross == {k \in DOMAIN crossChecks : crossChecks[k]}

(* The counters are the lengths of the rows, and are cleared with the round. *)
Rows ==
    IF repartitioning
    THEN sucessive_imbalance = Cleared /\ sucessive_cross = 0
    ELSE /\ \A p \in Partition :
               Row(Len(lengthChecks), FoundUneven(p), sucessive_imbalance[p])
         /\ Row(Len(crossChecks), FoundCross, sucessive_cross)

HistoriesBounded ==
    /\ Len(lengthChecks) <= MaxSucessiveImbalances + 1
    /\ Len(crossChecks) <= MaxSucessiveImbalances + 1

IInv ==
    /\ TypeOK /\ OldPlaces /\ AsyncPlaces /\ Windows /\ Reads
    /\ Rows /\ HistoriesBounded

-----------------------------------------------------------------------------
(* The history keeps as many checks as a row may have, and one more.         *)
LEMMA LatestShape ==
    ASSUME NEW S, NEW checks \in Seq(S), NEW check \in S,
           Len(checks) <= MaxSucessiveImbalances + 1
    PROVE  \E d \in {0, 1} :
              /\ d = 1 => Len(checks) = MaxSucessiveImbalances + 1
              /\ Len(checks) - d <= MaxSucessiveImbalances
              /\ Latest(checks, check) \in Seq(S)
              /\ Len(Latest(checks, check)) = Len(checks) - d + 1
              /\ Latest(checks, check)[Len(checks) - d + 1] = check
              /\ \A k \in 1 .. Len(checks) - d : Latest(checks, check)[k] = checks[k + d]
<1> DEFINE all == Append(checks, check)
<1>1. /\ all \in Seq(S) /\ Len(all) = Len(checks) + 1 /\ Len(checks) \in Nat
      /\ all[Len(checks) + 1] = check /\ \A k \in 1..Len(checks) : all[k] = checks[k]
  OBVIOUS
<1>2. MaxSucessiveImbalances \in Nat
  BY MaxSucessiveImbalancesAssumption
<1>3. Latest(checks, check) =
          IF Len(all) > MaxSucessiveImbalances + 1 THEN Tail(all) ELSE all
  BY DEF Latest
<1> HIDE DEF all
<1>4. CASE Len(checks) = MaxSucessiveImbalances + 1
  <2>1. Latest(checks, check) = Tail(all)
    BY <1>1, <1>2, <1>3, <1>4
  <2>2. /\ Tail(all) \in Seq(S) /\ Len(Tail(all)) = Len(all) - 1
        /\ \A k \in 1 .. Len(all) - 1 : Tail(all)[k] = all[k + 1]
    BY <1>1
  <2>3. Len(checks) >= 1
    BY <1>2, <1>4
  <2>4. WITNESS 1 \in {0, 1}
  <2> QED
    BY <1>1, <1>2, <1>4, <2>1, <2>2, <2>3
<1>5. CASE Len(checks) # MaxSucessiveImbalances + 1
  <2>1. Latest(checks, check) = all
    <3>1. ~(Len(all) > MaxSucessiveImbalances + 1)
      BY <1>1, <1>2, <1>5
    <3> QED
      BY <1>3, <3>1
  <2>2. WITNESS 0 \in {0, 1}
  <2> QED
    BY <1>1, <1>2, <1>5, <2>1
<1> QED
  BY <1>4, <1>5

(* A check that finds the evidence makes the row longer, another ends it.    *)
LEMMA RowGoesOn ==
    ASSUME NEW n \in Nat, NEW d \in {0, 1}, n - d \in Nat, NEW count \in Nat,
           NEW found, NEW newFound,
           count <= MaxSucessiveImbalances,
           d = 1 => n = MaxSucessiveImbalances + 1,
           Row(n, found, count),
           \A k \in 1 .. n - d : k \in newFound <=> k + d \in found
    PROVE  Row(n - d + 1, newFound, IF n - d + 1 \in newFound THEN count + 1 ELSE 0)
<1> DEFINE m == n - d + 1
<1> USE MaxSucessiveImbalancesAssumption
<1>1. CASE m \in newFound
  <2>1. count + 1 <= m
    BY DEF Row
  <2>2. ASSUME NEW k \in m - (count + 1) + 1 .. m PROVE k \in newFound
    <3>1. CASE k = m
      BY <1>1, <3>1
    <3>2. CASE k # m
      <4>1. k + d \in n - count + 1 .. n /\ k \in 1 .. n - d
        BY <2>1, <2>2, <3>2
      <4> QED
        BY <4>1 DEF Row
    <3> QED
      BY <3>1, <3>2
  <2>3. ASSUME count + 1 < m PROVE m - (count + 1) \notin newFound
    <3>1. m - (count + 1) \in 1 .. n - d /\ m - (count + 1) + d = n - count /\ count < n
      BY <2>3
    <3> QED
      BY <3>1 DEF Row
  <2> QED
    BY <1>1, <2>1, <2>2, <2>3 DEF Row
<1>2. CASE m \notin newFound
  BY <1>2 DEF Row
<1> QED
  BY <1>1, <1>2

(* Evidence in a row is a row longer than the counters may count.            *)
LEMMA RowIsEvidence ==
    ASSUME NEW n \in Nat, NEW found, NEW count \in Nat, Row(n, found, count),
           n <= MaxSucessiveImbalances + 1
    PROVE  (n > MaxSucessiveImbalances /\ 1..n \subseteq found)
              <=> count > MaxSucessiveImbalances
<1> USE MaxSucessiveImbalancesAssumption DEF Row
<1>1. ASSUME count > MaxSucessiveImbalances
      PROVE  n > MaxSucessiveImbalances /\ 1..n \subseteq found
  <2>1. n = count
    BY <1>1
  <2> QED
    BY <1>1, <2>1
<1>2. ASSUME n > MaxSucessiveImbalances, 1..n \subseteq found, count <= MaxSucessiveImbalances
      PROVE  FALSE
  <2>1. n - count \in 1..n
    BY <1>2
  <2> QED
    BY <1>2, <2>1
<1> QED
  BY <1>1, <1>2

-----------------------------------------------------------------------------

LEMMA UnevenReadsTyped == UnevenReads \subseteq SUBSET Partition
<1>1. \A length : Uneven(length) \subseteq Partition
  BY DEF Uneven
<1> QED
  BY <1>1 DEF UnevenReads

(* Nothing found and nothing counted.                                        *)
LEMMA EmptyRow ==
    ASSUME NEW found, found \subseteq {}
    PROVE  Row(0, found, 0)
BY DEF Row

(* What Init and the end of a round assign has its type.                     *)
LEMMA ClearTyped ==
    /\ <<>> \in Seq(SUBSET Partition) /\ <<>> \in Seq(BOOLEAN)
    /\ Cleared \in [Partition -> 0..MaxSucessiveImbalances]
    /\ 0 \in 0..MaxSucessiveImbalances
    /\ \A m, n \in Nat : <<m, n>> \in Nat \X Nat
BY MaxSucessiveImbalancesAssumption DEF Cleared

LEMMA InitIInv == Init => IInv
<1> SUFFICES ASSUME Init PROVE IInv
  OBVIOUS
<1> USE MaxSucessiveImbalancesAssumption DEF Init
<1>1. TypeOK
  BY ClearTyped DEF TypeOK, Unread
<1>2. OldPlaces /\ AsyncPlaces /\ Windows /\ Reads
  BY DEF OldPlaces, AsyncPlaces, Windows, Reads, Unread
<1>3. Len(lengthChecks) = 0 /\ Len(crossChecks) = 0
  OBVIOUS
<1>4. FoundCross \subseteq {} /\ \A p \in Partition : FoundUneven(p) \subseteq {}
  BY DEF FoundCross, FoundUneven
<1>5. Rows
  BY <1>3, <1>4, EmptyRow DEF Rows, Cleared
<1>6. HistoriesBounded
  BY <1>3 DEF HistoriesBounded
<1> QED
  BY <1>1, <1>2, <1>5, <1>6 DEF IInv

-----------------------------------------------------------------------------
(* The steps that make no check.                                             *)

LEMMA RowsKept ==
    ASSUME Rows, HistoriesBounded,
           UNCHANGED <<lengthChecks, crossChecks, repartitioning,
                       sucessive_imbalance, sucessive_cross>>
    PROVE  Rows' /\ HistoriesBounded'
BY DEF Rows, HistoriesBounded, FoundUneven, FoundCross, Row, Cleared

(* With the end of a round both histories and both counters are clear.       *)
LEMMA RowsCleared ==
    ASSUME sucessive_imbalance = Cleared, sucessive_cross = 0,
           lengthChecks' = <<>>, crossChecks' = <<>>, repartitioning' = FALSE,
           UNCHANGED <<sucessive_imbalance, sucessive_cross>>
    PROVE  Rows' /\ HistoriesBounded'
<1>1. Len(lengthChecks') = 0 /\ Len(crossChecks') = 0
  OBVIOUS
<1>2. FoundCross' \subseteq {} /\ \A p \in Partition : FoundUneven(p)' \subseteq {}
  BY DEF FoundCross, FoundUneven
<1>3. Rows'
  BY <1>1, <1>2, EmptyRow DEF Rows, Cleared
<1>4. HistoriesBounded'
  BY <1>1, MaxSucessiveImbalancesAssumption DEF HistoriesBounded
<1> QED
  BY <1>3, <1>4

LEMMA DispatchStep == IInv /\ UNCHANGED variant /\ Dispatch => IInv'
<1> SUFFICES ASSUME IInv, UNCHANGED variant, Dispatch PROVE IInv'
  OBVIOUS
<1> USE DEF IInv, Dispatch, SchedulerGoes, counterVars, startVars,
           roundVars, checkVars, historyVars
<1>1. TypeOK'
  BY DEF TypeOK
<1>2. OldPlaces' /\ AsyncPlaces'
  BY DEF TypeOK, OldPlaces, AsyncPlaces
<1>3. Windows' /\ Reads'
  BY DEF TypeOK, OldPlaces, AsyncPlaces, Windows, Reads
<1>4. Rows' /\ HistoriesBounded'
  BY RowsKept
<1> QED
  BY <1>1, <1>2, <1>3, <1>4

LEMMA CountDispatchedStep == IInv /\ UNCHANGED variant /\ CountDispatched => IInv'
<1> SUFFICES ASSUME IInv, UNCHANGED variant, CountDispatched PROVE IInv'
  OBVIOUS
<1> USE DEF IInv, CountDispatched, SchedulerGoes, counterVars, startVars,
           roundVars, checkVars, historyVars
<1>1. TypeOK'
  BY DEF TypeOK
<1>2. OldPlaces' /\ AsyncPlaces'
  BY DEF TypeOK, OldPlaces, AsyncPlaces
<1>3. Windows' /\ Reads'
  BY DEF TypeOK, OldPlaces, AsyncPlaces, Windows, Reads
<1>4. Rows' /\ HistoriesBounded'
  BY RowsKept
<1> QED
  BY <1>1, <1>2, <1>3, <1>4

LEMMA TestIntervalStep == IInv /\ UNCHANGED variant /\ TestInterval => IInv'
<1> SUFFICES ASSUME IInv, UNCHANGED variant, TestInterval PROVE IInv'
  OBVIOUS
<1> USE DEF IInv, TestInterval, SchedulerGoes, CheckerGoes, counterVars, startVars,
           roundVars, checkVars, historyVars
<1>1. TypeOK'
  BY DEF TypeOK
<1>2. OldPlaces' /\ AsyncPlaces'
  BY DEF TypeOK, OldPlaces, AsyncPlaces
<1>3. Windows' /\ Reads'
  BY DEF TypeOK, OldPlaces, AsyncPlaces, Windows, Reads
<1>4. Rows' /\ HistoriesBounded'
  BY RowsKept
<1> QED
  BY <1>1, <1>2, <1>3, <1>4

LEMMA RestartOldStep == IInv /\ UNCHANGED variant /\ RestartOld => IInv'
<1> SUFFICES ASSUME IInv, UNCHANGED variant, RestartOld PROVE IInv'
  OBVIOUS
<1> USE DEF IInv, RestartOld, SchedulerGoes, counterVars, startVars,
           roundVars, checkVars, historyVars
<1>1. TypeOK'
  BY ClearTyped DEF TypeOK
<1>2. OldPlaces' /\ AsyncPlaces'
  BY DEF TypeOK, OldPlaces, AsyncPlaces
<1>3. Windows' /\ Reads'
  BY DEF TypeOK, OldPlaces, AsyncPlaces, Windows, Reads
<1>4. Rows' /\ HistoriesBounded'
  <2>1. CASE repartitioning
    BY <2>1, RowsCleared DEF Rows
  <2>2. CASE ~repartitioning
    BY <2>2, RowsKept DEF TypeOK
  <2> QED
    BY <2>1, <2>2
<1> QED
  BY <1>1, <1>2, <1>3, <1>4

LEMMA TestUpdateStep == IInv /\ UNCHANGED variant /\ TestUpdate => IInv'
<1> SUFFICES ASSUME IInv, UNCHANGED variant, TestUpdate PROVE IInv'
  OBVIOUS
<1> USE DEF IInv, TestUpdate, SchedulerGoes, counterVars, startVars,
           roundVars, checkVars, historyVars
<1>1. TypeOK'
  BY ClearTyped DEF TypeOK
<1>2. OldPlaces' /\ AsyncPlaces'
  BY DEF TypeOK, OldPlaces, AsyncPlaces
<1>3. Windows' /\ Reads'
  BY DEF TypeOK, OldPlaces, AsyncPlaces, Windows, Reads
<1>4. Rows' /\ HistoriesBounded'
  BY RowsKept
<1> QED
  BY <1>1, <1>2, <1>3, <1>4

LEMMA SetOperationStartStep == IInv /\ UNCHANGED variant /\ SetOperationStart => IInv'
<1> SUFFICES ASSUME IInv, UNCHANGED variant, SetOperationStart PROVE IInv'
  OBVIOUS
<1> USE DEF IInv, SetOperationStart, SchedulerGoes, counterVars, startVars,
           roundVars, checkVars, historyVars
<1>1. TypeOK'
  BY DEF TypeOK
<1>2. OldPlaces' /\ AsyncPlaces'
  BY DEF TypeOK, OldPlaces, AsyncPlaces
<1>3. Windows' /\ Reads'
  BY DEF TypeOK, OldPlaces, AsyncPlaces, Windows, Reads
<1>4. Rows' /\ HistoriesBounded'
  BY RowsKept
<1> QED
  BY <1>1, <1>2, <1>3, <1>4

LEMMA SetCrossStartStep == IInv /\ UNCHANGED variant /\ SetCrossStart => IInv'
<1> SUFFICES ASSUME IInv, UNCHANGED variant, SetCrossStart PROVE IInv'
  OBVIOUS
<1> USE DEF IInv, SetCrossStart, SchedulerGoes, counterVars, startVars,
           roundVars, checkVars, historyVars
<1>1. TypeOK'
  BY DEF TypeOK
<1>2. OldPlaces' /\ AsyncPlaces'
  BY DEF TypeOK, OldPlaces, AsyncPlaces
<1>3. Windows' /\ Reads'
  BY DEF TypeOK, OldPlaces, AsyncPlaces, Windows, Reads
<1>4. Rows' /\ HistoriesBounded'
  BY RowsKept
<1> QED
  BY <1>1, <1>2, <1>3, <1>4

LEMMA EndRoundStep == IInv /\ UNCHANGED variant /\ EndRound => IInv'
<1> SUFFICES ASSUME IInv, UNCHANGED variant, EndRound PROVE IInv'
  OBVIOUS
<1> USE DEF IInv, EndRound, SchedulerGoes, counterVars, startVars,
           roundVars, checkVars, historyVars
<1>1. TypeOK'
  BY ClearTyped DEF TypeOK
<1>2. OldPlaces' /\ AsyncPlaces'
  BY DEF TypeOK, OldPlaces, AsyncPlaces
<1>3. Windows' /\ Reads'
  BY DEF TypeOK, OldPlaces, AsyncPlaces, Windows, Reads
<1>4. Rows' /\ HistoriesBounded'
  <2>1. repartitioning
    BY DEF TypeOK, OldPlaces, AsyncPlaces
  <2> QED
    BY <2>1, RowsCleared DEF Rows
<1> QED
  BY <1>1, <1>2, <1>3, <1>4

LEMMA PartitioningStep == IInv /\ UNCHANGED variant /\ Partitioning => IInv'
<1> SUFFICES ASSUME IInv, UNCHANGED variant, Partitioning PROVE IInv'
  OBVIOUS
<1> USE DEF IInv, Partitioning, counterVars, startVars, checkVars, historyVars
<1>1. TypeOK'
  BY DEF TypeOK
<1>2. OldPlaces' /\ AsyncPlaces'
  BY DEF TypeOK, OldPlaces, AsyncPlaces
<1>3. Windows' /\ Reads'
  BY DEF TypeOK, OldPlaces, AsyncPlaces, Windows, Reads
<1>4. Rows' /\ HistoriesBounded'
  BY RowsKept
<1> QED
  BY <1>1, <1>2, <1>3, <1>4

LEMMA BeginCheckStep == IInv /\ BeginCheck => IInv'
<1> SUFFICES ASSUME IInv, BeginCheck PROVE IInv'
  OBVIOUS
<1> USE DEF IInv, BeginCheck, CheckerGoes, counterVars, startVars, roundVars, historyVars
<1>1. TypeOK'
  BY DEF TypeOK
<1>2. OldPlaces' /\ AsyncPlaces'
  BY DEF TypeOK, OldPlaces, AsyncPlaces
<1>3. Windows' /\ Reads'
  BY DEF TypeOK, Windows, Reads
<1>4. Rows' /\ HistoriesBounded'
  BY RowsKept
<1> QED
  BY <1>1, <1>2, <1>3, <1>4

-----------------------------------------------------------------------------
(* The steps of imbalance.  While a check is made there is no round, and the *)
(* window stands still.                                                      *)

LEMMA WhileChecking ==
    ASSUME IInv, checker # "off"
    PROVE  /\ ~repartitioning /\ ~ordered /\ ~update
           /\ scheduler \notin {"start", "cross_start"}
BY DEF IInv, TypeOK, OldPlaces, AsyncPlaces

LEMMA CompareDispatchedStep ==
    IInv /\ CompareDispatched /\ UNCHANGED <<variant, counterVars, startVars>> => IInv'
<1> SUFFICES ASSUME IInv, CompareDispatched, UNCHANGED <<variant, counterVars, startVars>>
             PROVE  IInv'
  OBVIOUS
<1> USE DEF IInv, CompareDispatched, CheckerGoes, counterVars, startVars, roundVars, historyVars
<1>1. TypeOK'
  BY DEF TypeOK
<1>2. OldPlaces' /\ AsyncPlaces'
  BY DEF TypeOK, OldPlaces, AsyncPlaces
<1>3. Windows' /\ Reads'
  BY DEF TypeOK, Windows, Reads
<1>4. Rows' /\ HistoriesBounded'
  BY RowsKept
<1> QED
  BY <1>1, <1>2, <1>3, <1>4

LEMMA ReadCountersStep ==
    IInv /\ ReadCounters /\ UNCHANGED <<variant, counterVars, startVars>> => IInv'
<1> SUFFICES ASSUME IInv, ReadCounters, UNCHANGED <<variant, counterVars, startVars>>
             PROVE  IInv'
  OBVIOUS
<1> USE DEF IInv, ReadCounters, counterVars, startVars, roundVars, historyVars
<1>1. /\ n_dispatched_requests - operation_start \in Nat \ {0}
      /\ cross_partition_count - cross_operation_start \in Nat
  BY DEF TypeOK, Windows, Reads
<1>2. TypeOK'
  BY <1>1 DEF TypeOK
<1>3. OldPlaces' /\ AsyncPlaces'
  BY DEF TypeOK, OldPlaces, AsyncPlaces
<1>4. Windows' /\ Reads'
  BY <1>1 DEF TypeOK, Windows, Reads
<1>5. Rows' /\ HistoriesBounded'
  BY RowsKept
<1> QED
  BY <1>2, <1>3, <1>4, <1>5

(* What a check of the ratio makes of the row of such checks.                *)
LEMMA CrossRow ==
    ASSUME IInv, ~repartitioning, crossChecks' = Latest(crossChecks, IsCrossIntensive)
    PROVE  /\ crossChecks' \in Seq(BOOLEAN)
           /\ Len(crossChecks') <= MaxSucessiveImbalances + 1
           /\ Row(Len(crossChecks'), FoundCross',
                  IF IsCrossIntensive THEN sucessive_cross + 1 ELSE 0)
<1> DEFINE n == Len(crossChecks)
<1> USE MaxSucessiveImbalancesAssumption
<1>1. /\ crossChecks \in Seq(BOOLEAN) /\ n \in Nat /\ n <= MaxSucessiveImbalances + 1
      /\ sucessive_cross \in Nat /\ sucessive_cross <= MaxSucessiveImbalances
      /\ Row(n, FoundCross, sucessive_cross)
  BY DEF IInv, TypeOK, HistoriesBounded, Rows
<1>2. IsCrossIntensive \in BOOLEAN
  BY DEF IsCrossIntensive
<1>3. PICK d \in {0, 1} :
        /\ d = 1 => n = MaxSucessiveImbalances + 1
        /\ n - d <= MaxSucessiveImbalances
        /\ crossChecks' \in Seq(BOOLEAN) /\ Len(crossChecks') = n - d + 1
        /\ crossChecks'[n - d + 1] = IsCrossIntensive
        /\ \A k \in 1 .. n - d : crossChecks'[k] = crossChecks[k + d]
  <2>1. \A check \in BOOLEAN : \E d \in {0, 1} :
          /\ d = 1 => n = MaxSucessiveImbalances + 1
          /\ n - d <= MaxSucessiveImbalances
          /\ Latest(crossChecks, check) \in Seq(BOOLEAN)
          /\ Len(Latest(crossChecks, check)) = n - d + 1
          /\ Latest(crossChecks, check)[n - d + 1] = check
          /\ \A k \in 1 .. n - d : Latest(crossChecks, check)[k] = crossChecks[k + d]
    BY <1>1, LatestShape
  <2> QED
    BY <1>2, <2>1, Zenon
<1>4. DOMAIN crossChecks = 1..n /\ DOMAIN crossChecks' = 1..(n - d + 1)
  BY <1>1, <1>3
<1>5. n - d \in Nat
  BY <1>1, <1>3
<1> HIDE DEF n
<1>6. ASSUME NEW k \in 1 .. n - d PROVE k \in FoundCross' <=> k + d \in FoundCross
  <2>1. k \in 1..(n - d + 1) /\ k + d \in 1..n
    BY <1>1, <1>5
  <2>2. crossChecks'[k] = crossChecks[k + d]
    BY <1>3
  <2> QED
    BY <1>4, <2>1, <2>2 DEF FoundCross
<1>7. n - d + 1 \in FoundCross' <=> IsCrossIntensive
  <2>1. n - d + 1 \in 1..(n - d + 1)
    BY <1>5
  <2> QED
    BY <1>3, <1>4, <2>1 DEF FoundCross
<1>8. Row(n - d + 1, FoundCross',
          IF n - d + 1 \in FoundCross' THEN sucessive_cross + 1 ELSE 0)
  BY <1>1, <1>3, <1>5, <1>6, RowGoesOn
<1> QED
  BY <1>1, <1>3, <1>5, <1>7, <1>8

(* The same of a check of the lengths, for each partition.                   *)
LEMMA LengthRow ==
    ASSUME IInv, ~repartitioning, NEW uneven \in SUBSET Partition,
           lengthChecks' = Latest(lengthChecks, uneven)
    PROVE  /\ lengthChecks' \in Seq(SUBSET Partition)
           /\ Len(lengthChecks') <= MaxSucessiveImbalances + 1
           /\ \A p \in Partition :
                 Row(Len(lengthChecks'), FoundUneven(p)', Recount(uneven)[p])
<1> DEFINE n == Len(lengthChecks)
<1> USE MaxSucessiveImbalancesAssumption
<1>1. /\ lengthChecks \in Seq(SUBSET Partition) /\ n \in Nat
      /\ n <= MaxSucessiveImbalances + 1
  BY DEF IInv, TypeOK, HistoriesBounded
<1>2. PICK d \in {0, 1} :
        /\ d = 1 => n = MaxSucessiveImbalances + 1
        /\ n - d <= MaxSucessiveImbalances
        /\ lengthChecks' \in Seq(SUBSET Partition) /\ Len(lengthChecks') = n - d + 1
        /\ lengthChecks'[n - d + 1] = uneven
        /\ \A k \in 1 .. n - d : lengthChecks'[k] = lengthChecks[k + d]
  BY SMTT(20), <1>1, LatestShape
<1>3. DOMAIN lengthChecks = 1..n /\ DOMAIN lengthChecks' = 1..(n - d + 1)
  BY <1>1, <1>2
<1>4. n - d \in Nat
  BY <1>1, <1>2
<1>5. ASSUME NEW p \in Partition
      PROVE  Row(n - d + 1, FoundUneven(p)', Recount(uneven)[p])
  <2>1. /\ sucessive_imbalance[p] \in Nat /\ sucessive_imbalance[p] <= MaxSucessiveImbalances
        /\ Row(n, FoundUneven(p), sucessive_imbalance[p])
    BY DEF IInv, TypeOK, Rows
  <2> HIDE DEF n
  <2>2. ASSUME NEW k \in 1 .. n - d PROVE k \in FoundUneven(p)' <=> k + d \in FoundUneven(p)
    <3>1. k \in 1..(n - d + 1) /\ k + d \in 1..n
      BY <1>1, <1>4
    <3>2. lengthChecks'[k] = lengthChecks[k + d]
      BY <1>2
    <3> QED
      BY <1>3, <3>1, <3>2 DEF FoundUneven
  <2>3. n - d + 1 \in FoundUneven(p)' <=> p \in uneven
    <3>1. n - d + 1 \in 1..(n - d + 1)
      BY <1>4
    <3> QED
      BY <1>2, <1>3, <3>1 DEF FoundUneven
  <2>4. Row(n - d + 1, FoundUneven(p)',
            IF n - d + 1 \in FoundUneven(p)' THEN sucessive_imbalance[p] + 1 ELSE 0)
    BY <1>1, <1>2, <1>4, <2>1, <2>2, RowGoesOn
  <2> QED
    BY <2>3, <2>4 DEF Recount
<1> QED
  BY <1>2, <1>5

-----------------------------------------------------------------------------

LEMMA JudgeCrossStep ==
    IInv /\ JudgeCross /\ UNCHANGED <<variant, counterVars, startVars>> => IInv'
<1> SUFFICES ASSUME IInv, JudgeCross, UNCHANGED <<variant, counterVars, startVars>>
             PROVE  IInv'
  OBVIOUS
<1> DEFINE count == IF IsCrossIntensive THEN sucessive_cross + 1 ELSE 0
<1> USE MaxSucessiveImbalancesAssumption
<1>1. ~repartitioning /\ ~ordered /\ ~update /\ scheduler \notin {"start", "cross_start"}
  BY WhileChecking DEF JudgeCross
<1>2. /\ crossChecks' \in Seq(BOOLEAN)
      /\ Len(crossChecks') <= MaxSucessiveImbalances + 1
      /\ Row(Len(crossChecks'), FoundCross', count)
  BY <1>1, CrossRow DEF JudgeCross
<1>3. count \in Nat
  BY DEF IInv, TypeOK
<1>4. CASE Exceeds(count)
  <2>1. /\ Answer(TRUE) /\ sucessive_cross' = 0 /\ sucessive_imbalance' = Cleared
        /\ crossRead' = Unread /\ dispatchedRead' = Unread /\ lengthChecks' = lengthChecks
    BY <1>4 DEF JudgeCross
  <2> HIDE DEF count
  <2> USE <1>1, <1>2, <2>1 DEF IInv, Answer, counterVars, startVars
  <2>2. TypeOK'
    BY ClearTyped DEF TypeOK, Unread
  <2>3. OldPlaces' /\ AsyncPlaces'
    BY DEF TypeOK, OldPlaces, AsyncPlaces, JudgeCross
  <2>4. Windows' /\ Reads'
    BY DEF TypeOK, Windows, Reads, Unread
  <2>5. Rows' /\ HistoriesBounded'
    BY DEF Rows, HistoriesBounded, Cleared
  <2> QED
    BY <2>2, <2>3, <2>4, <2>5
<1>5. CASE ~Exceeds(count)
  <2>1. /\ sucessive_cross' = count /\ checker' = "lengths"
        /\ crossRead' = Unread /\ dispatchedRead' = Unread
        /\ UNCHANGED <<lengthChecks, sucessive_imbalance, scheduler, roundVars>>
    BY <1>5 DEF JudgeCross
  <2>2. count \in 0..MaxSucessiveImbalances
    BY <1>3, <1>5 DEF Exceeds
  <2> HIDE DEF count
  <2> USE <1>1, <1>2, <2>1, <2>2 DEF IInv, counterVars, startVars, roundVars
  <2>3. TypeOK'
    BY DEF TypeOK, Unread
  <2>4. OldPlaces' /\ AsyncPlaces'
    BY DEF TypeOK, OldPlaces, AsyncPlaces, JudgeCross
  <2>5. Windows' /\ Reads'
    BY DEF TypeOK, Windows, Reads, Unread
  <2>6. Rows' /\ HistoriesBounded'
    <3>1. \A p \in Partition : FoundUneven(p)' = FoundUneven(p)
      BY DEF FoundUneven
    <3> QED
      BY <3>1 DEF Rows, HistoriesBounded
  <2> QED
    BY <2>3, <2>4, <2>5, <2>6
<1> QED
  BY <1>4, <1>5

LEMMA JudgeLengthsStep ==
    IInv /\ JudgeLengths /\ UNCHANGED <<variant, counterVars, startVars>> => IInv'
<1> SUFFICES ASSUME IInv, JudgeLengths, UNCHANGED <<variant, counterVars, startVars>>
             PROVE  IInv'
  OBVIOUS
<1> USE MaxSucessiveImbalancesAssumption
<1>1. PICK uneven \in SUBSET Partition :
        LET result == \E p \in Partition : Exceeds(Recount(uneven)[p])
        IN  /\ Answer(result)
            /\ sucessive_imbalance' = IF result THEN Cleared ELSE Recount(uneven)
            /\ sucessive_cross' = IF result THEN 0 ELSE sucessive_cross
            /\ lengthChecks' = Latest(lengthChecks, uneven)
  BY UnevenReadsTyped DEF JudgeLengths
<1> DEFINE count == Recount(uneven)
           result == \E p \in Partition : Exceeds(count[p])
<1>2. ~repartitioning /\ ~ordered /\ ~update /\ scheduler \notin {"start", "cross_start"}
  BY WhileChecking DEF JudgeLengths
<1>3. /\ lengthChecks' \in Seq(SUBSET Partition)
      /\ Len(lengthChecks') <= MaxSucessiveImbalances + 1
      /\ \A p \in Partition : Row(Len(lengthChecks'), FoundUneven(p)', count[p])
  BY <1>1, <1>2, LengthRow
<1>4. count \in [Partition -> Nat]
  BY DEF IInv, TypeOK, Recount
<1>5. UNCHANGED <<crossRead, dispatchedRead, crossChecks>> /\ checker = "lengths"
  BY DEF JudgeLengths
<1> USE DEF IInv, Answer, counterVars, startVars
<1>6. CASE result
  <2>1. /\ Answer(TRUE) /\ sucessive_imbalance' = Cleared /\ sucessive_cross' = 0
    BY <1>1, <1>6
  <2> HIDE DEF count, result
  <2> USE <1>2, <1>3, <1>5, <2>1
  <2>2. TypeOK'
    BY ClearTyped DEF TypeOK
  <2>3. OldPlaces' /\ AsyncPlaces'
    BY DEF TypeOK, OldPlaces, AsyncPlaces
  <2>4. Windows' /\ Reads'
    BY DEF TypeOK, Windows, Reads
  <2>5. Rows' /\ HistoriesBounded'
    BY DEF Rows, HistoriesBounded, Cleared
  <2> QED
    BY <2>2, <2>3, <2>4, <2>5
<1>7. CASE ~result
  <2>1. /\ Answer(FALSE) /\ sucessive_imbalance' = count /\ sucessive_cross' = sucessive_cross
    BY <1>1, <1>7
  <2>2. count \in [Partition -> 0..MaxSucessiveImbalances]
    <3>1. \A p \in Partition : count[p] \in 0..MaxSucessiveImbalances
      BY <1>4, <1>7 DEF Exceeds
    <3> QED
      BY <1>4, <3>1
  <2> HIDE DEF count, result
  <2> USE <1>2, <1>3, <1>5, <2>1, <2>2
  <2>3. TypeOK'
    BY DEF TypeOK
  <2>4. OldPlaces' /\ AsyncPlaces'
    BY DEF TypeOK, OldPlaces, AsyncPlaces
  <2>5. Windows' /\ Reads'
    BY DEF TypeOK, Windows, Reads
  <2>6. Rows' /\ HistoriesBounded'
    <3>1. FoundCross' = FoundCross
      BY DEF FoundCross
    <3> QED
      BY <3>1 DEF Rows, HistoriesBounded
  <2> QED
    BY <2>3, <2>4, <2>5, <2>6
<1> QED
  BY <1>6, <1>7

-----------------------------------------------------------------------------

LEMMA NextIInv == IInv /\ [Next]_vars => IInv'
<1> SUFFICES ASSUME IInv, [Next]_vars PROVE IInv'
  OBVIOUS
<1>1. CASE Scheduler
  BY <1>1, DispatchStep, CountDispatchedStep, TestIntervalStep, RestartOldStep,
     TestUpdateStep, SetOperationStartStep, SetCrossStartStep, EndRoundStep DEF Scheduler
<1>2. CASE Partitioning
  BY <1>2, PartitioningStep DEF Partitioning
<1>3. CASE BeginCheck
  BY <1>3, BeginCheckStep
<1>4. CASE Imbalance
  BY <1>4, CompareDispatchedStep, ReadCountersStep, JudgeCrossStep, JudgeLengthsStep
     DEF Imbalance
<1>5. CASE UNCHANGED vars
  <2> USE <1>5 DEF vars, counterVars, startVars, roundVars, checkVars, historyVars, IInv
  <2>1. TypeOK'
    BY DEF TypeOK
  <2>2. OldPlaces' /\ AsyncPlaces'
    BY DEF OldPlaces, AsyncPlaces
  <2>3. Windows' /\ Reads'
    BY DEF Windows, Reads
  <2>4. Rows' /\ HistoriesBounded'
    BY RowsKept
  <2> QED
    BY <2>1, <2>2, <2>3, <2>4
<1> QED
  BY <1>1, <1>2, <1>3, <1>4, <1>5 DEF Next

(* IInv is inductive: each scheduler is in its places, a round is in one     *)
(* place, the starts are those of the window, and the counters are the       *)
(* lengths of the rows of the latest checks.                                 *)
THEOREM Inductive == Spec => []IInv
<1>1. Init => IInv
  BY InitIInv
<1>2. IInv /\ [Next]_vars => IInv'
  BY NextIInv
<1> QED
  BY <1>1, <1>2, PTL DEF Spec

(* The type invariant; what it says of the code: the counters of checks in a *)
(* row never pass MaxSucessiveImbalances, and the differences of the         *)
(* counters that the ratio is made of are natural numbers.                   *)
THEOREM TypeCorrect == Spec => []TypeOK
<1>1. IInv => TypeOK
  BY DEF IInv
<1> QED
  BY <1>1, Inductive, PTL

-----------------------------------------------------------------------------
(* Evidence in the words of the rows.                                        *)

LEMMA EvidenceOfRows ==
    ASSUME lengthChecks \in Seq(SUBSET Partition), crossChecks \in Seq(BOOLEAN)
    PROVE  Evidence <=>
              \/ \E p \in Partition :
                    /\ Len(lengthChecks) > MaxSucessiveImbalances
                    /\ 1..Len(lengthChecks) \subseteq FoundUneven(p)
              \/ /\ Len(crossChecks) > MaxSucessiveImbalances
                 /\ 1..Len(crossChecks) \subseteq FoundCross
<1>1. \A p \in Partition :
         InARow(lengthChecks, LAMBDA uneven : p \in uneven) <=>
             /\ Len(lengthChecks) > MaxSucessiveImbalances
             /\ 1..Len(lengthChecks) \subseteq FoundUneven(p)
  BY DEF InARow, FoundUneven
<1>2. InARow(crossChecks, LAMBDA intensive : intensive) <=>
          /\ Len(crossChecks) > MaxSucessiveImbalances
          /\ 1..Len(crossChecks) \subseteq FoundCross
  BY DEF InARow, FoundCross
<1> QED
  BY <1>1, <1>2 DEF Evidence

(* Evidence in a row is never left without its round: a row as long as the   *)
(* evidence is long is one that the counter has counted past its bound.      *)
THEOREM EvidenceActedOnTheorem == Spec => []EvidenceActedOn
<1>1. ASSUME IInv, ~repartitioning PROVE ~Evidence
  <2>1. /\ lengthChecks \in Seq(SUBSET Partition) /\ crossChecks \in Seq(BOOLEAN)
        /\ Len(lengthChecks) <= MaxSucessiveImbalances + 1
        /\ Len(crossChecks) <= MaxSucessiveImbalances + 1
    BY <1>1 DEF IInv, TypeOK, HistoriesBounded
  <2>2. ASSUME NEW p \in Partition
        PROVE  ~(/\ Len(lengthChecks) > MaxSucessiveImbalances
                 /\ 1..Len(lengthChecks) \subseteq FoundUneven(p))
    <3>1. /\ Row(Len(lengthChecks), FoundUneven(p), sucessive_imbalance[p])
          /\ sucessive_imbalance[p] \in 0..MaxSucessiveImbalances
      BY <1>1 DEF IInv, TypeOK, Rows
    <3>2. /\ Len(lengthChecks) \in Nat /\ sucessive_imbalance[p] \in Nat
          /\ ~(sucessive_imbalance[p] > MaxSucessiveImbalances)
      BY <2>1, <3>1, MaxSucessiveImbalancesAssumption
    <3> QED
      BY <2>1, <3>1, <3>2, RowIsEvidence
  <2>3. ~(/\ Len(crossChecks) > MaxSucessiveImbalances
          /\ 1..Len(crossChecks) \subseteq FoundCross)
    <3>1. /\ Row(Len(crossChecks), FoundCross, sucessive_cross)
          /\ sucessive_cross \in 0..MaxSucessiveImbalances
      BY <1>1 DEF IInv, TypeOK, Rows
    <3>2. /\ Len(crossChecks) \in Nat /\ sucessive_cross \in Nat
          /\ ~(sucessive_cross > MaxSucessiveImbalances)
      BY <2>1, <3>1, MaxSucessiveImbalancesAssumption
    <3> QED
      BY <2>1, <3>1, <3>2, RowIsEvidence
  <2> QED
    BY <2>1, <2>2, <2>3, EvidenceOfRows
<1>2. IInv => EvidenceActedOn
  BY <1>1 DEF EvidenceActedOn
<1> QED
  BY <1>2, Inductive, PTL

(* The ratio is one of requests of one window, whatever the scheduling       *)
(* thread counts and installs meanwhile: no check is made between the        *)
(* assignments of the two starts, and the divisor is not zero.               *)
THEOREM RatioOfOneWindowTheorem == Spec => []RatioOfOneWindow
<1>1. IInv => RatioOfOneWindow
  <2> SUFFICES ASSUME IInv PROVE RatioOfOneWindow
    OBVIOUS
  <2>1. checker # "off" => scheduler \notin {"start", "cross_start"}
    BY WhileChecking
  <2>2. crossRead # Unread => crossRead >= 0
    BY DEF IInv, TypeOK
  <2> QED
    BY <2>1, <2>2 DEF IInv, Windows, Reads, RatioOfOneWindow
<1> QED
  BY <1>1, Inductive, PTL

(* A round begins only on evidence in a row, none of which led to a round    *)
(* before: the histories are those since the end of the last one.            *)
THEOREM RoundJustifiedTheorem == Spec => RoundJustified
<1>1. ASSUME IInv, IInv', [Next]_vars, ~repartitioning, repartitioning' PROVE Evidence'
  <2> USE MaxSucessiveImbalancesAssumption
  <2>1. lengthChecks' \in Seq(SUBSET Partition) /\ crossChecks' \in Seq(BOOLEAN)
    BY <1>1 DEF IInv, TypeOK
  <2>2. JudgeCross \/ JudgeLengths
    <3>1. ~UNCHANGED repartitioning
      BY <1>1 DEF IInv, TypeOK
    <3>2. ~(repartitioning' = FALSE)
      BY <1>1
    <3> QED
      BY <1>1, <3>1, <3>2
         DEF Next, Scheduler, Dispatch, CountDispatched, TestInterval, RestartOld,
             TestUpdate, SetOperationStart, SetCrossStart, EndRound, Partitioning,
             BeginCheck, Imbalance, CompareDispatched, ReadCounters, vars, roundVars
  <2>3. CASE JudgeCross
    <3> DEFINE count == IF IsCrossIntensive THEN sucessive_cross + 1 ELSE 0
    <3>1. /\ Len(crossChecks') <= MaxSucessiveImbalances + 1
          /\ Row(Len(crossChecks'), FoundCross', count)
      BY <1>1, <2>3, CrossRow DEF JudgeCross
    <3>2. count \in Nat /\ count > MaxSucessiveImbalances
      <4>1. sucessive_cross \in Nat
        BY <1>1 DEF IInv, TypeOK
      <4>2. ASSUME ~Exceeds(count) PROVE FALSE
        <5>1. UNCHANGED repartitioning
          BY <2>3, <4>2 DEF JudgeCross, roundVars
        <5> QED
          BY <1>1, <5>1
      <4> QED
        BY <4>1, <4>2 DEF Exceeds
    <3>3. Len(crossChecks') \in Nat
      BY <2>1
    <3> HIDE DEF count
    <3>4. /\ Len(crossChecks') > MaxSucessiveImbalances
          /\ 1..Len(crossChecks') \subseteq FoundCross'
      BY <3>1, <3>2, <3>3, RowIsEvidence
    <3>5. \A k \in DOMAIN crossChecks' : crossChecks'[k]
      BY <2>1, <3>4 DEF FoundCross
    <3> QED
      BY <3>4, <3>5 DEF Evidence, InARow
  <2>4. CASE JudgeLengths
    <3>1. PICK uneven \in SUBSET Partition :
            /\ \E p \in Partition : Exceeds(Recount(uneven)[p])
            /\ lengthChecks' = Latest(lengthChecks, uneven)
      BY <1>1, <2>4, UnevenReadsTyped DEF JudgeLengths, Answer
    <3>2. PICK p \in Partition : Recount(uneven)[p] > MaxSucessiveImbalances
      BY <3>1 DEF Exceeds
    <3>3. /\ Len(lengthChecks') <= MaxSucessiveImbalances + 1
          /\ Row(Len(lengthChecks'), FoundUneven(p)', Recount(uneven)[p])
      BY <1>1, <3>1, LengthRow
    <3>4. Len(lengthChecks') \in Nat /\ Recount(uneven)[p] \in Nat
      BY SMTT(20), <1>1, <2>1 DEF IInv, TypeOK, Recount
    <3>5. /\ Len(lengthChecks') > MaxSucessiveImbalances
          /\ 1..Len(lengthChecks') \subseteq FoundUneven(p)'
      BY <3>2, <3>3, <3>4, RowIsEvidence
    <3>6. \A k \in DOMAIN lengthChecks' : p \in lengthChecks'[k]
      BY <2>1, <3>5 DEF FoundUneven
    <3> QED
      BY <3>5, <3>6 DEF Evidence, InARow
  <2> QED
    BY <2>2, <2>3, <2>4
<1>2. IInv /\ IInv' /\ [Next]_vars => [~repartitioning /\ repartitioning' => Evidence']_vars
  BY <1>1
<1> QED
  BY <1>2, Inductive, PTL DEF Spec, RoundJustified
=============================================================================
