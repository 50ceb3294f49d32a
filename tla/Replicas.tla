------------------------------ MODULE Replicas ------------------------------
(* Replicas that execute one file of requests (RequestGeneration), each at   *)
(* its own pace, and what their stores answer.  A replica executes as        *)
(* OrderedExecution allows, which is all that Dispatch guarantees: requests  *)
(* that name a common key in their order, others in any order and at the     *)
(* same time, whatever the map and its changes.  The store is one map for    *)
(* all workers of a replica; every value is the same template, so what       *)
(* distinguishes two answers is the keys they are read from.                 *)
(* src/replica.cpp; src/scheduler/partition.hpp; src/storage/storage.cpp     *)
EXTENDS RequestGeneration, FiniteSets

CONSTANTS
    NInitialKeys,    \* the replica's argument: keys 0..NInitialKeys are populated
    Replica          \* the replicas

ASSUME NInitialKeysAssumption == NInitialKeys \in Nat /\ NInitialKeys >= NRecords - 1
ASSUME NoEmptyScanAssumption == 0 \notin ScanLengths

VARIABLES
    executed,    \* replica |-> the requests executed, by their places in the file
    store,       \* replica |-> the keys of storage_
    result,      \* replica |-> request |-> the keys a scan has read
    alive,       \* replica |-> whether no worker has died
    settled      \* replica |-> the scans begun when no earlier write was
                 \* outstanding (history)

generation == vars
replicas == <<executed, store, result, alive, settled>>
allVars == <<generation, replicas>>

-----------------------------------------------------------------------------

ReplicasInit ==
    /\ Init
    /\ executed = [r \in Replica |-> {}]
    /\ store = [r \in Replica |-> 0..NInitialKeys]
    /\ result = [r \in Replica |-> [n \in 1..NOperations |-> <<>>]]
    /\ alive = [r \in Replica |-> TRUE]
    /\ settled = [r \in Replica |-> {}]

Generate ==
    /\ \/ DrawOperation
       \/ Insert
       \/ DrawKey
       \/ Reject
    /\ UNCHANGED replicas

(* What the replica promises of its order, for the keys the file names.      *)
KeysOf(n) == file[n].key .. file[n].key + file[n].size - 1

Order(r) == INSTANCE OrderedExecution
              WITH Ids <- 1..NOperations, Keys <- Nat,
                   issued <- [n \in DOMAIN file |-> KeysOf(n)],
                   running <- {}, done <- executed[r]

(* Mutant of MayRun: requests do not wait for one another.                   *)
MayRunAnyTime(r, n) ==
    /\ Generated
    /\ alive[r]
    /\ n \in DOMAIN file \ executed[r]

MayRun(r, n) ==
    /\ Generated
    /\ alive[r]
    /\ n \in DOMAIN file \ executed[r]
    /\ \A m \in 1 .. n - 1 : Order(r)!Conflicting(m, n) => m \in executed[r]

Done(r, n) == executed' = [executed EXCEPT ![r] = @ \cup {n}]

Write(r, n) ==
    /\ MayRun(r, n)
    /\ file[n].type = "WRITE"
    /\ store' = [store EXCEPT ![r] = @ \cup {file[n].key}]
    /\ Done(r, n)
    /\ UNCHANGED <<generation, result, alive, settled>>

(* Nothing catches what storage_.at throws.                                  *)
Read(r, n) ==
    /\ MayRun(r, n)
    /\ file[n].type = "READ"
    /\ IF file[n].key \in store[r]
       THEN Done(r, n) /\ UNCHANGED alive
       ELSE alive' = [alive EXCEPT ![r] = FALSE] /\ UNCHANGED executed
    /\ UNCHANGED <<generation, store, result, settled>>

Error == -1

(* Mutant of ScanKey: the number of keys is that of the start.               *)
ScanKeyPopulated(r, n, i) == (file[n].key + i) % (NInitialKeys + 1)

(* The key of an iteration of scan, modulo the number of keys just then.     *)
ScanKey(r, n, i) == (file[n].key + i) % Cardinality(store[r])

Settled(r, n) ==
    \A m \in 1 .. n - 1 : file[m].type = "WRITE" => m \in executed[r]

(* One iteration of scan; an absent key makes the answer ERROR.              *)
ScanNext(r, n) ==
    /\ MayRun(r, n)
    /\ file[n].type = "SCAN"
    /\ LET i == Len(result[r][n])
           key == ScanKey(r, n, i)
       IN /\ IF key \in store[r]
             THEN /\ result' = [result EXCEPT ![r][n] = Append(@, key)]
                  /\ IF i + 1 = file[n].size THEN Done(r, n) ELSE UNCHANGED executed
             ELSE /\ result' = [result EXCEPT ![r][n] = <<Error>>]
                  /\ Done(r, n)
          /\ settled' = IF i = 0 /\ Settled(r, n)
                        THEN [settled EXCEPT ![r] = @ \cup {n}] ELSE settled
    /\ UNCHANGED <<generation, store, alive>>

ReplicasTerminated ==
    /\ Generated
    /\ \A r \in Replica : alive[r] => executed[r] = DOMAIN file
    /\ UNCHANGED allVars

ReplicasNext ==
    \/ Generate
    \/ \E r \in Replica, n \in 1..NOperations :
          Write(r, n) \/ Read(r, n) \/ ScanNext(r, n)
    \/ ReplicasTerminated

ReplicasSpec == ReplicasInit /\ [][ReplicasNext]_allVars

-----------------------------------------------------------------------------

ReplicasTypeOK ==
    /\ TypeOK
    /\ executed \in [Replica -> SUBSET (1..NOperations)]
    /\ store \in [Replica -> SUBSET Nat]
    /\ result \in [Replica -> [1..NOperations -> Seq(Nat \cup {Error})]]
    /\ alive \in [Replica -> BOOLEAN]
    /\ settled \in [Replica -> SUBSET (1..NOperations)]

(* No worker meets a READ of a key that is not stored yet, though the keys   *)
(* of the file are stored by other workers at their own pace: the insertion  *)
(* of a key and the reads of it keep their order.                            *)
ReadsFindKeys == \A r \in Replica : alive[r]

(* Replicas that have executed the whole file hold the same keys, those      *)
(* populated and those inserted.                                             *)
StoresConverge ==
    \A r \in Replica :
        (Generated /\ executed[r] = DOMAIN file) =>
            store[r] = 0 .. (IF limit > NInitialKeys THEN limit ELSE NInitialKeys)

(* A scan that begins when no earlier write is outstanding reads the keys it *)
(* names, though later insertions go on under it and leave the keys with     *)
(* gaps: with one worker, or without insertions, every scan does.            *)
SettledScansReadTheirKeys ==
    \A r \in Replica : \A n \in settled[r] \cap executed[r] :
        result[r][n] = [i \in 1..file[n].size |-> file[n].key + i - 1]

(* No insertion precedes the request in the file.                            *)
NoInsertBefore(n) == \A m \in 1 .. n - 1 : file[m].type # "WRITE"

(* Where the answers of two replicas are bound to agree: of a file without   *)
(* insertions on all, otherwise on those no insertion precedes and on those  *)
(* whose scan began settled at both (Storage::scan).                         *)
ReplicasAgreeUnlessInserting ==
    \A r, s \in Replica : \A n \in executed[r] \cap executed[s] :
        NoInsertBefore(n) \/ n \in settled[r] \cap settled[s]
            => result[r][n] = result[s][n]

(* Two replicas that execute the same requests give the same answers         *)
(* (README.md:3).                                                            *)
ReplicasAgree ==
    \A r, s \in Replica :
        \A n \in executed[r] \cap executed[s] : result[r][n] = result[s][n]

=============================================================================
