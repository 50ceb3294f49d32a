-------------------------- MODULE RequestGeneration --------------------------
(* The generation of a file of requests after YCSB: the type of each         *)
(* operation is drawn first, then the length of a scan, then a key, again    *)
(* and again until it is one that the requests so far have inserted.  What   *)
(* the random generators draw is any value of their range; that the file     *)
(* carries it unchanged is assumed.                                          *)
(* src/request/                                                              *)
EXTENDS Integers, Sequences

CONSTANTS
    NRecords,          \* workload.n_records
    NOperations,       \* workload.n_operations
    Types,             \* the operations of positive proportion
    Distributions,     \* the values of workload.data_distribution allowed
    ExpectedNewKeys,   \* twice the insertions expected, as computed for ZIPFIAN
    ScanLengths        \* what scan_length_generator may return

ASSUME NRecordsAssumption == NRecords \in Nat /\ NRecords >= 2
ASSUME NOperationsAssumption == NOperations \in Nat
ASSUME TypesAssumption == Types \subseteq {"READ", "UPDATE", "WRITE", "SCAN"}
ASSUME DistributionsAssumption ==
    Distributions \subseteq {"UNIFORM", "ZIPFIAN", "LATEST"}
ASSUME ExpectedNewKeysAssumption == ExpectedNewKeys \in Nat
ASSUME ScanLengthsAssumption == ScanLengths \subseteq Nat

VARIABLES
    distribution,    \* the data distribution of this run
    counter, limit,  \* insertkeysequence: counter_ and limit_
    operation,       \* the operation whose key is to be drawn, or "none"
    length,          \* the length of that scan, or 1
    file             \* the requests exported

vars == <<distribution, counter, limit, operation, length, file>>

-----------------------------------------------------------------------------
(* Random keys                                                               *)

(* zipfian_int_distribution::next for a number of items that is given; the   *)
(* base is 0.                                                                *)
Zipfian(items) == {0, 1} \cup 0..items

(* A hash of what the distribution above returns, modulo the items.          *)
ScrambledZipfian(min, max) == min..max

(* Mutant of SkewedLatest: the draw is added to the last key.                *)
SkewedLatestUpwards == {limit + z : z \in Zipfian(limit)}

SkewedLatest == {limit - z : z \in Zipfian(limit)}

DataKeys ==
    CASE distribution = "UNIFORM" -> 0..NRecords
      [] distribution = "ZIPFIAN" -> ScrambledZipfian(0, NRecords + ExpectedNewKeys)
      [] distribution = "LATEST" -> SkewedLatest

-----------------------------------------------------------------------------

Init ==
    /\ distribution \in Distributions
    /\ counter = NRecords
    /\ limit = NRecords - 1
    /\ operation = "none"
    /\ length = 1
    /\ file = <<>>

(* next_operation, and the length of a scan.                                 *)
DrawOperation ==
    /\ Len(file) < NOperations
    /\ operation = "none"
    /\ operation' \in Types
    /\ IF operation' = "SCAN" THEN length' \in ScanLengths ELSE length' = 1
    /\ UNCHANGED <<distribution, counter, limit, file>>

Export(type, key) ==
    /\ file' = Append(file, [type |-> type, key |-> key, size |-> length])
    /\ operation' = "none"

(* Mutant of Insert: the counter moves before it is read.                    *)
InsertIncrementedFirst ==
    /\ operation = "WRITE"
    /\ counter' = counter + 1
    /\ limit' = IF counter + 1 > limit THEN counter + 1 ELSE limit
    /\ Export("WRITE", counter + 1)
    /\ UNCHANGED <<distribution, length>>

(* An insertion takes the next key and acknowledges it at once.              *)
Insert ==
    /\ operation = "WRITE"
    /\ counter' = counter + 1
    /\ limit' = IF counter > limit THEN counter ELSE limit
    /\ Export("WRITE", counter)
    /\ UNCHANGED <<distribution, length>>

(* Mutant of Accepted: a scan is judged by its first key.                    *)
AcceptedByFirstKey(key) == key < limit

Accepted(key) ==
    IF operation = "SCAN" THEN key + length < limit ELSE key < limit

(* Updates are exported as writes.                                           *)
DrawKey ==
    /\ operation \in {"READ", "UPDATE", "SCAN"}
    /\ \E key \in DataKeys :
          /\ Accepted(key)
          /\ Export(IF operation = "UPDATE" THEN "WRITE" ELSE operation, key)
    /\ UNCHANGED <<distribution, counter, limit, length>>

Reject ==
    /\ operation \in {"READ", "UPDATE", "SCAN"}
    /\ \E key \in DataKeys : ~Accepted(key)
    /\ UNCHANGED vars

Generated == Len(file) = NOperations

Terminated == Generated /\ UNCHANGED vars

Next == DrawOperation \/ Insert \/ DrawKey \/ Reject \/ Terminated

(* A generator that may return a key of its range returns it at last, so     *)
(* that a loop which may end does end.                                       *)
Fairness == WF_vars(DrawOperation) /\ WF_vars(Insert) /\ WF_vars(DrawKey)

Spec == Init /\ [][Next]_vars /\ Fairness

-----------------------------------------------------------------------------

TypeOK ==
    /\ distribution \in Distributions
    /\ counter \in Nat /\ limit \in Nat
    /\ operation \in {"none", "READ", "UPDATE", "WRITE", "SCAN"}
    /\ length \in Nat
    /\ file \in Seq([type : {"READ", "WRITE", "SCAN"}, key : Nat, size : Nat])

(* The keys a store holds that was populated with NRecords keys and then     *)
(* executed the first n requests.                                            *)
Stored(n) ==
    (0 .. NRecords - 1)
        \cup {file[m].key : m \in {l \in 1..n : file[l].type = "WRITE"}}

(* A request reads keys only that are populated or that an earlier request   *)
(* of the file writes, whatever the distribution: READ of an absent key      *)
(* would end the replica.                                                    *)
KeysServed ==
    \A n \in 1..Len(file) :
        file[n].type # "WRITE" =>
            file[n].key .. file[n].key + file[n].size - 1 \subseteq Stored(n - 1)

(* At every point of the file the keys written are the first natural         *)
(* numbers: Storage::scan takes keys modulo their number.                    *)
KeysDense == \A n \in 0..Len(file) : \E top \in Stored(n) : Stored(n) = 0..top

(* For a scan at least as long as the last key inserted no key is ever       *)
(* accepted and no other length drawn.                                       *)
TooLong == operation = "SCAN" /\ length >= limit

(* Nothing else keeps the generation from its end: the file is completed, or *)
(* the generator draws keys for such a scan for ever.                        *)
GenerationEndsUnlessTooLong == <>Generated \/ <>[]TooLong

=============================================================================
