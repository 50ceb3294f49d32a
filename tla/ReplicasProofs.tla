--------------------------- MODULE ReplicasProofs ---------------------------
(* Theorems on RequestGeneration and on Replicas, which extends it, for any  *)
(* number of replicas and any file.                                          *)
EXTENDS Replicas, FiniteSetTheorems, TLAPS

(* The file that the generator writes.                                       *)

(* The assumptions on the generator's constants, together.                   *)
LEMMA GenerationConstants ==
    /\ NRecords \in Nat /\ NRecords >= 2 /\ NOperations \in Nat
    /\ Types \subseteq {"READ", "UPDATE", "WRITE", "SCAN"}
    /\ Distributions \subseteq {"UNIFORM", "ZIPFIAN", "LATEST"}
    /\ ExpectedNewKeys \in Nat /\ ScanLengths \subseteq Nat
  BY NRecordsAssumption, NOperationsAssumption, TypesAssumption, DistributionsAssumption,
     ExpectedNewKeysAssumption, ScanLengthsAssumption

(* The keys inserted are exactly those up to limit, and after each request   *)
(* those up to some earlier limit.                                           *)
Inserted ==
    /\ limit >= 1
    /\ counter = limit + 1
    /\ Stored(Len(file)) = 0..limit
    /\ operation \in {"READ", "UPDATE"} => length = 1

GeneratorInv == TypeOK /\ Inserted /\ KeysServed /\ KeysDense

LEMMA StoredStart ==
    ASSUME file = <<>>
    PROVE  Stored(0) = 0 .. NRecords - 1 /\ Len(file) = 0
  BY DEF Stored

(* A request appended changes none of the earlier stores and adds the key it *)
(* writes.                                                                   *)
LEMMA StoredAppend ==
    ASSUME TypeOK, NEW type \in {"READ", "WRITE", "SCAN"}, NEW key \in Nat,
           file' = Append(file, [type |-> type, key |-> key, size |-> length])
    PROVE  /\ Len(file) \in Nat /\ Len(file') = Len(file) + 1
           /\ \A n \in 1..Len(file) : file'[n] = file[n]
           /\ file'[Len(file) + 1] = [type |-> type, key |-> key, size |-> length]
           /\ \A n \in 0..Len(file) : Stored(n)' = Stored(n)
           /\ \A n : n = Len(file) + 1 =>
                  Stored(n)' =
                      Stored(n - 1) \cup (IF type = "WRITE" THEN {key} ELSE {})
<1> DEFINE r == [type |-> type, key |-> key, size |-> length]
           L == Len(file)
<1>1. /\ L \in Nat /\ Len(file') = L + 1
      /\ \A n \in 1..L : file'[n] = file[n]
      /\ file'[L + 1] = r
  BY DEF TypeOK
<1>2. ASSUME NEW n \in 0..L PROVE Stored(n)' = Stored(n)
  <2>1. \A m \in 1..n : m \in 1..L
    BY <1>1
  <2> QED
    BY <1>1, <2>1 DEF Stored
<1>3. ASSUME NEW n, n = L + 1
      PROVE  Stored(n)' =
                 Stored(n - 1) \cup (IF type = "WRITE" THEN {key} ELSE {})
  <2>1. n \in Nat /\ n - 1 = L /\ 1..n = (1..L) \cup {n}
    BY <1>1, <1>3
  <2>2. r.type = type /\ r.key = key
    OBVIOUS
  <2> HIDE DEF r, L
  <2>3. {m \in 1..n : file'[m].type = "WRITE"} =
            {m \in 1..L : file[m].type = "WRITE"}
                \cup (IF type = "WRITE" THEN {n} ELSE {})
    BY <1>1, <1>3, <2>1, <2>2
  <2>4. {file'[m].key : m \in {l \in 1..n : file'[l].type = "WRITE"}} =
            {file[m].key : m \in {l \in 1..L : file[l].type = "WRITE"}}
                \cup (IF type = "WRITE" THEN {key} ELSE {})
    BY <1>1, <1>3, <2>2, <2>3
  <2> QED
    BY <2>1, <2>4 DEF Stored
<1> QED
  BY <1>1, <1>2, <1>3

(* What may be exported after GeneratorInv: a write of a known or of the     *)
(* next key, or a request on known keys.                                     *)
LEMMA ExportPreserves ==
    ASSUME GeneratorInv, NEW type \in {"READ", "WRITE", "SCAN"}, NEW key \in Nat,
           Export(type, key), UNCHANGED <<distribution, length>>,
           \/ type = "WRITE" /\ key = counter /\ counter' = counter + 1
              /\ limit' = counter
           \/ key <= limit /\ key + length - 1 <= limit
              /\ UNCHANGED <<counter, limit>>
    PROVE  GeneratorInv'
<1> DEFINE r == [type |-> type, key |-> key, size |-> length]
           L == Len(file)
<1> USE DEF GeneratorInv
<1>1. /\ file' = Append(file, r) /\ operation' = "none"
      /\ length' = length /\ distribution' = distribution
  BY DEF Export
<1>2. /\ L \in Nat /\ Len(file') = L + 1
      /\ \A n \in 1..L : file'[n] = file[n]
      /\ file'[L + 1] = r
      /\ \A n \in 0..L : Stored(n)' = Stored(n)
      /\ \A n : n = L + 1 =>
             Stored(n)' =
                 Stored(L) \cup (IF type = "WRITE" THEN {key} ELSE {})
  <2>1. L \in Nat /\ \A n : n = L + 1 => n - 1 = L
    BY DEF TypeOK
  <2> QED
    BY <1>1, <2>1, StoredAppend
<1>3. /\ limit \in Nat /\ counter \in Nat /\ length \in Nat /\ limit >= 1
      /\ counter = limit + 1 /\ Stored(L) = 0..limit
  BY DEF TypeOK, Inserted
<1>4. TypeOK'
  <2>1. r \in [type : {"READ", "WRITE", "SCAN"}, key : Nat, size : Nat]
    BY <1>3
  <2>2. counter' \in Nat /\ limit' \in Nat
    BY <1>3
  <2> QED
    BY <1>1, <2>1, <2>2 DEF TypeOK
<1>5. /\ \A n : n = L + 1 => Stored(n)' = 0..limit'
      /\ limit' >= 1 /\ counter' = limit' + 1
  <2>1. CASE type = "WRITE" /\ key = counter /\ counter' = counter + 1 /\ limit' = counter
    <3>1. 0..limit' = (0..limit) \cup {key}
      BY <1>3, <2>1
    <3> QED
      <4>1. ASSUME NEW n, n = L + 1 PROVE Stored(n)' = 0..limit'
        <5>1. Stored(n)' = Stored(L) \cup {key}
          BY <1>2, <2>1, <4>1
        <5> QED
          BY <1>3, <3>1, <5>1
      <4>2. limit' >= 1 /\ counter' = limit' + 1
        BY <1>3, <2>1
      <4> QED
        BY <4>1, <4>2
  <2>2. CASE key <= limit /\ UNCHANGED <<counter, limit>>
    <3>1. key \in 0..limit
      BY <1>3, <2>2
    <3> QED
      BY <1>2, <1>3, <2>2, <3>1
  <2> QED
    BY <2>1, <2>2
<1>6. Inserted'
  <2>1. Stored(Len(file))' = 0..limit'
    <3>1. (\A n : n = Len(file) => Stored(n) = 0..limit)'
      BY <1>2, <1>5
    <3> QED
      BY <3>1
  <2> QED
    BY <1>1, <1>5, <2>1 DEF Inserted
<1>7. KeysServed'
  <2> SUFFICES ASSUME NEW n \in 1 .. L + 1, file'[n].type # "WRITE"
               PROVE file'[n].key .. file'[n].key + file'[n].size - 1
                         \subseteq Stored(n - 1)'
    BY <1>2 DEF KeysServed
  <2>1. CASE n \in 1..L
    <3>1. n - 1 \in 0..L
      BY <1>2, <2>1
    <3> QED
      BY <1>2, <2>1, <3>1 DEF KeysServed
  <2>2. CASE n = L + 1
    <3>1. r.type = type /\ r.key = key /\ r.size = length /\ n - 1 = L /\ L \in 0..L
      BY <1>2, <2>2
    <3> HIDE DEF r
    <3>2. type # "WRITE" /\ key + length - 1 <= limit
      BY <1>2, <2>2, <3>1
    <3>3. key .. key + length - 1 \subseteq 0..limit
      BY <1>3, <3>2
    <3> QED
      BY <1>2, <1>3, <2>2, <3>1, <3>3
  <2> QED
    BY <1>2, <2>1, <2>2
<1>8. KeysDense'
  <2> SUFFICES ASSUME NEW n \in 0 .. L + 1
               PROVE (\E top \in Stored(n) : Stored(n) = 0..top)'
    BY <1>2 DEF KeysDense
  <2>1. CASE n \in 0..L
    BY <1>2, <2>1 DEF KeysDense
  <2>2. CASE n = L + 1
    <3>1. limit' \in 0..limit'
      BY <1>3, <1>5
    <3> QED
      BY <1>5, <2>2, <3>1
  <2> QED
    BY <1>2, <2>1, <2>2
<1> QED
  BY <1>4, <1>6, <1>7, <1>8

LEMMA DataKeysTyped ==
    ASSUME TypeOK, limit >= 1
    PROVE  DataKeys \subseteq Nat
<1>1. SkewedLatest \subseteq Nat
  BY DEF TypeOK, SkewedLatest, Zipfian
<1>2. /\ 0..NRecords \subseteq Nat
      /\ ScrambledZipfian(0, NRecords + ExpectedNewKeys) \subseteq Nat
  BY GenerationConstants DEF ScrambledZipfian
<1> QED
  BY <1>1, <1>2, GenerationConstants DEF TypeOK, DataKeys

LEMMA StutterPreserves ==
    ASSUME GeneratorInv, UNCHANGED <<distribution, counter, limit, file>>,
           operation' \in {"none", "READ", "UPDATE", "WRITE", "SCAN"}, length' \in Nat,
           operation' \in {"READ", "UPDATE"} => length' = 1
    PROVE  GeneratorInv'
<1>1. TypeOK'
  BY DEF GeneratorInv, TypeOK
<1>2. \A n : Stored(n)' = Stored(n)
  BY DEF Stored
<1>3. Stored(Len(file))' = Stored(Len(file))
  BY <1>2
<1>4. Inserted'
  BY <1>3 DEF GeneratorInv, Inserted
<1>5. KeysServed' /\ KeysDense'
  BY <1>2 DEF GeneratorInv, KeysServed, KeysDense
<1> QED
  BY <1>1, <1>4, <1>5 DEF GeneratorInv

LEMMA GeneratorInit == Init => GeneratorInv
<1> SUFFICES ASSUME Init PROVE GeneratorInv
  OBVIOUS
<1> USE GenerationConstants DEF Init
<1>1. Stored(0) = 0..limit /\ Len(file) = 0 /\ limit \in 0..limit
  BY StoredStart
<1>2. TypeOK /\ Inserted
  BY <1>1 DEF TypeOK, Inserted
<1>3. KeysServed
  BY <1>1 DEF KeysServed
<1>4. KeysDense
  <2>1. \A n \in 0..Len(file) : n = 0
    BY <1>1
  <2> QED
    BY <1>1, <2>1 DEF KeysDense
<1> QED
  BY <1>2, <1>3, <1>4 DEF GeneratorInv

LEMMA GeneratorNext == GeneratorInv /\ [Next]_vars => GeneratorInv'
<1> SUFFICES ASSUME GeneratorInv, [Next]_vars PROVE GeneratorInv'
  OBVIOUS
<1>0. /\ limit \in Nat /\ counter \in Nat /\ length \in Nat /\ limit >= 1
      /\ counter = limit + 1
  BY DEF GeneratorInv, TypeOK, Inserted
<1>1. CASE DrawOperation
  <2>1. /\ operation' \in Types
        /\ (operation' = "SCAN" /\ length' \in ScanLengths)
              \/ (operation' # "SCAN" /\ length' = 1)
    BY <1>1 DEF DrawOperation
  <2>2. length' \in Nat /\ (operation' \in {"READ", "UPDATE"} => length' = 1)
    <3>1. CASE operation' = "SCAN" /\ length' \in ScanLengths
      BY <3>1, GenerationConstants
    <3>2. CASE operation' # "SCAN" /\ length' = 1
      BY <3>2
    <3> QED
      BY <2>1, <3>1, <3>2
  <2>3. operation' \in {"none", "READ", "UPDATE", "WRITE", "SCAN"}
    BY <2>1, GenerationConstants
  <2> QED
    BY <1>1, <2>2, <2>3, StutterPreserves DEF DrawOperation
<1>2. CASE Insert
  <2>1. Export("WRITE", counter) /\ UNCHANGED <<distribution, length>>
        /\ counter' = counter + 1 /\ limit' = counter
    BY <1>0, <1>2 DEF Insert
  <2> QED
    BY <1>0, <2>1, ExportPreserves
<1>3. CASE DrawKey
  <2>1. PICK key \in DataKeys :
            /\ Accepted(key)
            /\ Export(IF operation = "UPDATE" THEN "WRITE" ELSE operation, key)
    BY <1>3 DEF DrawKey
  <2>2. key \in Nat
    BY <1>0, DataKeysTyped DEF GeneratorInv
  <2> DEFINE type == IF operation = "UPDATE" THEN "WRITE" ELSE operation
  <2>3. type \in {"READ", "WRITE", "SCAN"}
    BY <1>3 DEF DrawKey
  <2>4. UNCHANGED <<distribution, counter, limit, length>>
    BY <1>3 DEF DrawKey
  <2>5. key <= limit /\ key + length - 1 <= limit
    <3>1. CASE operation = "SCAN"
      BY <1>0, <2>1, <2>2, <3>1 DEF Accepted
    <3>2. CASE operation # "SCAN"
      <4>1. length = 1
        BY <1>3, <3>2 DEF DrawKey, GeneratorInv, Inserted
      <4> QED
        BY <1>0, <2>1, <2>2, <3>2, <4>1 DEF Accepted
    <3> QED
      BY <3>1, <3>2
  <2> QED
    BY <2>1, <2>2, <2>3, <2>4, <2>5, ExportPreserves
<1>4. CASE UNCHANGED vars
  <2>1. /\ UNCHANGED <<distribution, counter, limit, file>>
        /\ operation' = operation /\ length' = length
    BY <1>4 DEF vars
  <2>2. /\ operation' \in {"none", "READ", "UPDATE", "WRITE", "SCAN"}
        /\ length' \in Nat
        /\ operation' \in {"READ", "UPDATE"} => length' = 1
    BY <2>1 DEF GeneratorInv, TypeOK, Inserted
  <2> QED
    BY <2>1, <2>2, StutterPreserves
<1> QED
  BY <1>1, <1>2, <1>3, <1>4 DEF Next, Reject, Terminated

(* The file is sound after each of the generator's steps.                    *)
THEOREM GenerationInductive == Spec => []GeneratorInv
  BY GeneratorInit, GeneratorNext, PTL DEF Spec

(* A request never names a key that no earlier request wrote.                *)
THEOREM KeysServedTheorem == Spec => []KeysServed
<1>1. GeneratorInv => KeysServed
  BY DEF GeneratorInv
<1> QED
  BY GenerationInductive, <1>1, PTL

(* The keys written are the first natural numbers at every point.            *)
THEOREM KeysDenseTheorem == Spec => []KeysDense
<1>1. GeneratorInv => KeysDense
  BY DEF GeneratorInv
<1> QED
  BY GenerationInductive, <1>1, PTL

(* The generator's counters are natural numbers, and with them every key and *)
(* size exported.                                                            *)
THEOREM GenerationTypes == Spec => []TypeOK
<1>1. GeneratorInv => TypeOK
  BY DEF GeneratorInv
<1> QED
  BY GenerationInductive, <1>1, PTL

-----------------------------------------------------------------------------
(* The replicas that execute it.                                             *)

(* The keys that requests of S insert or write.                              *)
Written(S) == {file[m].key : m \in {l \in S : file[l].type = "WRITE"}}

(* No request is executed before the file is complete, and none is empty.    *)
Files ==
    /\ GeneratorInv
    /\ Len(file) <= NOperations
    /\ operation # "none" => ~Generated
    /\ length >= 1 /\ \A n \in DOMAIN file : file[n].size >= 1
    /\ ~Generated =>
         \A r \in Replica : executed[r] = {} /\ settled[r] = {}

(* A store holds what was populated and what the executed requests wrote.    *)
Stores ==
    \A r \in Replica :
        /\ executed[r] \subseteq DOMAIN file
        /\ store[r] = (0..NInitialKeys) \cup Written(executed[r])

KeysRead(r, n) == Len(result[r][n])

(* A settled scan has read its keys up to some point, none of which a later  *)
(* insertion can move.                                                       *)
ScanSettled(r, n) ==
    /\ n \in DOMAIN file /\ file[n].type = "SCAN" /\ Settled(r, n)
    /\ KeysRead(r, n) \in 1..file[n].size
    /\ result[r][n] = [i \in 1..KeysRead(r, n) |-> file[n].key + i - 1]
    /\ n \in executed[r] <=> KeysRead(r, n) = file[n].size

Scans == \A r \in Replica : \A n \in settled[r] : ScanSettled(r, n)

IInv == ReplicasTypeOK /\ Files /\ Stores /\ Scans /\ ReadsFindKeys

-----------------------------------------------------------------------------
(* What the generator has established about the file.                        *)

LEMMA FileTyped ==
    ASSUME ReplicasTypeOK
    PROVE  /\ Len(file) \in Nat /\ DOMAIN file = 1..Len(file)
           /\ \A n \in DOMAIN file :
                 /\ n \in Nat /\ n >= 1
                 /\ file[n].type \in {"READ", "WRITE", "SCAN"}
                 /\ file[n].key \in Nat /\ file[n].size \in Nat
<1> DEFINE R == [type : {"READ", "WRITE", "SCAN"}, key : Nat, size : Nat]
<1>1. file \in Seq(R)
  BY DEF ReplicasTypeOK, TypeOK
<1>2. /\ Len(file) \in Nat /\ DOMAIN file = 1..Len(file)
      /\ \A n \in 1..Len(file) : file[n] \in R
  <2> HIDE DEF R
  <2> QED
    BY <1>1
<1> QED
  BY <1>2

LEMMA GenerationStep ==
    ASSUME GeneratorInv, [Next]_generation PROVE GeneratorInv'
  BY GeneratorNext DEF generation, vars

(* Each key a request reads was populated or is written by an earlier        *)
(* request.                                                                  *)
LEMMA KeyServed ==
    ASSUME IInv, NEW n \in DOMAIN file, file[n].type # "WRITE",
           NEW key \in file[n].key .. file[n].key + file[n].size - 1
    PROVE  \/ key \in 0..NInitialKeys
           \/ \E m \in 1 .. n - 1 :
                 m \in DOMAIN file /\ file[m].type = "WRITE" /\ file[m].key = key
<1>1. DOMAIN file = 1..Len(file) /\ n \in Nat /\ Len(file) \in Nat
  BY FileTyped DEF IInv
<1>2. key \in Stored(n - 1)
  BY <1>1 DEF IInv, Files, GeneratorInv, KeysServed
<1>3. CASE key \in 0 .. NRecords - 1
  BY <1>3, NInitialKeysAssumption, GenerationConstants
<1>4. CASE key \in {file[m].key : m \in {l \in 1 .. n - 1 : file[l].type = "WRITE"}}
  BY <1>1, <1>4
<1> QED
  BY <1>2, <1>3, <1>4 DEF Stored

LEMMA WrittenBelow ==
    ASSUME IInv, NEW S \in SUBSET DOMAIN file
    PROVE  /\ Written(S) \subseteq 0..limit
           /\ (0 .. NRecords - 1) \cup Written(DOMAIN file) = 0..limit
           /\ limit \in Nat
<1>1. DOMAIN file = 1..Len(file)
  BY FileTyped DEF IInv
<1>2. Stored(Len(file)) = 0..limit
  BY DEF IInv, Files, GeneratorInv, Inserted
<1>3. Stored(Len(file)) = (0 .. NRecords - 1) \cup Written(DOMAIN file)
  BY <1>1 DEF Stored, Written
<1>4. Written(S) \subseteq Written(DOMAIN file)
  BY DEF Written
<1>5. limit \in Nat
  BY DEF IInv, ReplicasTypeOK, TypeOK
<1> QED
  BY <1>2, <1>3, <1>4, <1>5

-----------------------------------------------------------------------------
(* A request that may run finds its keys stored: the writes of them have     *)
(* been executed, for they conflict with it.                                 *)
LEMMA KeyStored ==
    ASSUME IInv, NEW r \in Replica, NEW n, MayRun(r, n), file[n].type # "WRITE",
           NEW key \in file[n].key .. file[n].key + file[n].size - 1
    PROVE  key \in store[r]
<1>1. n \in DOMAIN file
  BY DEF MayRun
<1>2. CASE key \in 0..NInitialKeys
  BY <1>2 DEF IInv, Stores
<1>3. ASSUME NEW m \in 1 .. n - 1, m \in DOMAIN file, file[m].type = "WRITE",
             file[m].key = key
      PROVE  key \in store[r]
  <2>1. key \in KeysOf(m) /\ key \in KeysOf(n)
    <3>1. file[m].size >= 1 /\ file[m].size \in Nat /\ file[m].key \in Nat
      BY <1>3, FileTyped DEF IInv, Files
    <3> QED
      BY <1>3, <3>1 DEF KeysOf
  <2>2. Order(r)!Conflicting(m, n)
    BY <1>1, <1>3, <2>1 DEF Order!Conflicting
  <2>3. m \in executed[r]
    BY <2>2 DEF MayRun
  <2> QED
    BY <1>3, <2>3 DEF IInv, Stores, Written
<1> QED
  BY <1>1, <1>2, <1>3, KeyServed

(* Once the earlier writes are executed the store begins with all keys up to *)
(* those of the scan, whatever else was inserted: no key wraps around.       *)
LEMMA KeyBelowSize ==
    ASSUME IInv, NEW r \in Replica, NEW n \in DOMAIN file, file[n].type = "SCAN",
           Settled(r, n),
           NEW key \in file[n].key .. file[n].key + file[n].size - 1
    PROVE  key \in store[r] /\ key % Cardinality(store[r]) = key
<1>1. DOMAIN file = 1..Len(file) /\ n \in Nat /\ n >= 1 /\ Len(file) \in Nat
  BY FileTyped DEF IInv
<1>2. key \in Stored(n - 1)
  BY <1>1 DEF IInv, Files, GeneratorInv, KeysServed
<1>3. PICK top \in Stored(n - 1) : Stored(n - 1) = 0..top
  <2>1. n - 1 \in 0..Len(file)
    BY <1>1
  <2> QED
    BY <2>1 DEF IInv, Files, GeneratorInv, KeysDense
<1>4. top \in Nat /\ key \in 0..top
  <2>1. top \in 0..top
    BY <1>3
  <2> QED
    BY <1>2, <1>3, <2>1
<1>5. 0..top \subseteq store[r]
  <2>1. ASSUME NEW k \in Stored(n - 1) PROVE k \in store[r]
    <3>1. CASE k \in 0 .. NRecords - 1
      BY <3>1, NInitialKeysAssumption, GenerationConstants DEF IInv, Stores
    <3>2. CASE k \in {file[m].key : m \in {l \in 1 .. n - 1 : file[l].type = "WRITE"}}
      BY <3>2 DEF Settled, IInv, Stores, Written
    <3> QED
      BY <2>1, <3>1, <3>2 DEF Stored
  <2> QED
    BY <1>3, <2>1
<1>6. IsFiniteSet(store[r])
  <2>1. Written(executed[r]) \subseteq 0..limit /\ limit \in Nat
    BY WrittenBelow DEF IInv, Stores
  <2>2. IsFiniteSet(0..NInitialKeys) /\ IsFiniteSet(0..limit)
    BY <2>1, NInitialKeysAssumption, FS_Interval
  <2>3. IsFiniteSet(Written(executed[r]))
    BY <2>1, <2>2, FS_Subset
  <2>4. IsFiniteSet((0..NInitialKeys) \cup Written(executed[r]))
    BY <2>2, <2>3, FS_Union
  <2> QED
    BY <2>4 DEF IInv, Stores
<1>7. Cardinality(0..top) = top + 1
  BY <1>4, FS_Interval
<1>8. Cardinality(store[r]) \in Nat /\ Cardinality(0..top) <= Cardinality(store[r])
  BY <1>5, <1>6, FS_Subset, FS_CardinalityType
<1>9. ASSUME NEW c \in Nat, top + 1 <= c PROVE key % c = key
  BY <1>4, <1>9
<1> QED
  BY <1>4, <1>5, <1>7, <1>8, <1>9

-----------------------------------------------------------------------------
LEMMA InitIInv == ReplicasInit => IInv
<1> SUFFICES ASSUME ReplicasInit PROVE IInv
  OBVIOUS
<1>1. GeneratorInv
  BY GeneratorInit DEF ReplicasInit
<1>2. Len(file) = 0 /\ DOMAIN file = {} /\ file = <<>>
  BY DEF ReplicasInit, Init
<1>3. ReplicasTypeOK
  <2>1. TypeOK
    BY <1>1 DEF GeneratorInv, TypeOK
  <2> QED
    BY <2>1, NInitialKeysAssumption DEF ReplicasInit, ReplicasTypeOK
<1>4. Files
  BY <1>1, <1>2, GenerationConstants DEF ReplicasInit, Init, Files
<1>5. Stores /\ Scans /\ ReadsFindKeys
  BY <1>2 DEF ReplicasInit, Stores, Written, Scans, ReadsFindKeys
<1> QED
  BY <1>3, <1>4, <1>5 DEF IInv

(* While the file is generated no replica has executed anything.             *)
LEMMA GenerateIInv == ASSUME IInv, Generate PROVE IInv'
<1>1. UNCHANGED replicas /\ [Next]_generation
  BY DEF Generate, Next
<1>2. GeneratorInv'
  BY <1>1, GenerationStep DEF IInv, Files
<1>3. ReplicasTypeOK'
  BY <1>1, <1>2 DEF IInv, ReplicasTypeOK, GeneratorInv, TypeOK,
                    replicas
<1>4. ~Generated
  BY DEF Generate, IInv, Files, DrawOperation, Insert,
         DrawKey,
         Reject, Generated
<1>5. \A r \in Replica : executed[r] = {} /\ settled[r] = {}
  BY <1>4 DEF IInv, Files
<1>6. Stores' /\ Scans' /\ ReadsFindKeys'
  <2>1. \A r \in Replica : executed'[r] = {} /\ settled'[r] = {}
    BY <1>1, <1>5 DEF replicas
  <2>2. \A r \in Replica : store'[r] = 0..NInitialKeys
    BY <1>1, <1>5 DEF replicas, IInv, Stores, Written
  <2> QED
    BY <1>1, <2>1, <2>2 DEF Stores, Scans, Written, replicas, IInv, ReadsFindKeys
<1>7. Files'
  <2>1. CASE DrawOperation
    <3>1. /\ length' \in ScanLengths \/ length' = 1
          /\ Len(file) < NOperations /\ file' = file
      BY <2>1 DEF DrawOperation
    <3>2. length' >= 1
      <4>1. ScanLengths \subseteq Nat \ {0}
        BY NoEmptyScanAssumption, GenerationConstants
      <4>2. CASE length' \in ScanLengths
        BY <4>1, <4>2
      <4>3. CASE length' = 1
        BY <4>3
      <4> QED
        BY <3>1, <4>2, <4>3
    <3>3. ~Generated'
      BY <1>4, <3>1 DEF Generated
    <3> QED
      BY <1>1, <1>2, <1>5, <3>1, <3>2, <3>3 DEF IInv, Files, replicas
  <2>2. CASE Reject
    BY <1>1, <1>2, <2>2 DEF Reject, vars, IInv, Files,
                            Generated, replicas
  <2>3. CASE Insert \/ DrawKey
    <3>1. PICK type, key : Export(type, key)
      BY <2>3 DEF Insert, DrawKey
    <3>2. length' = length
      BY <2>3 DEF Insert, DrawKey
    <3> DEFINE e == [type |-> type, key |-> key, size |-> length]
    <3>3. file' = Append(file, e) /\ operation' = "none" /\ e.size = length
      BY <3>1 DEF Export
    <3> HIDE DEF e
    <3>4. /\ Len(file') = Len(file) + 1 /\ DOMAIN file' = 1..(Len(file) + 1)
          /\ \A n \in 1..Len(file) : file'[n] = file[n]
          /\ file'[Len(file) + 1] = e /\ Len(file) \in Nat /\ DOMAIN file = 1..Len(file)
      BY <3>3, FileTyped DEF IInv, ReplicasTypeOK, TypeOK
    <3>5. \A n \in DOMAIN file' : file'[n].size >= 1
      BY <3>2, <3>3, <3>4 DEF IInv, Files
    <3>6. Len(file') <= NOperations
      <4>1. /\ Len(file) <= NOperations /\ Len(file) # NOperations
            /\ NOperations \in Nat
        BY <1>4, GenerationConstants DEF IInv, Files, Generated
      <4>2. Len(file') = Len(file) + 1 /\ Len(file) \in Nat
        BY <3>4
      <4> QED
        BY <4>1, <4>2
    <3> QED
      BY <1>1, <1>2, <1>5, <3>2, <3>3, <3>5, <3>6 DEF IInv, Files, replicas
  <2> QED
    BY <2>1, <2>2, <2>3 DEF Generate
<1> QED
  BY <1>3, <1>6, <1>7 DEF IInv

(* A step of a replica leaves the file as it is.                             *)
LEMMA FilesKept ==
    ASSUME IInv, UNCHANGED generation, Generated PROVE Files'
<1>1. GeneratorInv'
  BY GenerationStep DEF IInv, Files
<1>2. UNCHANGED <<length, operation, file>>
  BY DEF generation, vars
<1> QED
  BY <1>1, <1>2 DEF IInv, Files, Generated

(* Another request executed takes nothing away from what settled scans read. *)
LEMMA ScanSettledKept ==
    ASSUME NEW r, NEW n, ScanSettled(r, n), UNCHANGED file,
           result'[r][n] = result[r][n], executed[r] \subseteq executed'[r],
           n \in executed'[r] => n \in executed[r]
    PROVE  ScanSettled(r, n)'
<1>1. KeysRead(r, n)' = KeysRead(r, n)
  BY DEF KeysRead
<1>2. Settled(r, n)'
  BY DEF ScanSettled, Settled
<1> QED
  BY <1>1, <1>2 DEF ScanSettled

LEMMA WrittenAdds ==
    ASSUME NEW S, NEW n
    PROVE  Written(S \cup {n}) =
             Written(S) \cup (IF file[n].type = "WRITE" THEN {file[n].key} ELSE {})
  BY DEF Written

LEMMA WriteIInv ==
    ASSUME IInv, NEW r \in Replica, NEW n \in 1..NOperations, Write(r, n) PROVE IInv'
<1>1. /\ UNCHANGED <<distribution, counter, limit, operation, length, file, result, alive,
                     settled>>
      /\ n \in DOMAIN file /\ n \notin executed[r] /\ file[n].type = "WRITE"
      /\ Generated /\ UNCHANGED generation
  BY DEF Write, MayRun, generation, vars
<1>2. /\ executed'[r] = executed[r] \cup {n} /\ store'[r] = store[r] \cup {file[n].key}
      /\ \A s \in Replica : s # r => executed'[s] = executed[s] /\ store'[s] = store[s]
  BY DEF Write, Done, IInv, ReplicasTypeOK
<1>3. ReplicasTypeOK'
  <2>1. file[n].key \in Nat
    BY <1>1, FileTyped DEF IInv
  <2>2. TypeOK'
    BY <1>1 DEF IInv, ReplicasTypeOK, TypeOK
  <2> QED
    BY <1>1, <2>1, <2>2 DEF Write, Done, IInv, ReplicasTypeOK
<1>4. Files'
  BY <1>1, FilesKept
<1>5. Stores'
  <2>1. ASSUME NEW s \in Replica
        PROVE  store'[s] = (0..NInitialKeys) \cup Written(executed'[s])
    BY <1>1, <1>2, WrittenAdds DEF IInv, Stores
  <2>2. \A S : Written(S)' = {file[m].key : m \in {l \in S' : file[l].type = "WRITE"}}
    BY <1>1 DEF Written
  <2> QED
    BY <1>1, <1>2, <2>1 DEF IInv, Stores, Written
<1>6. Scans'
  <2> SUFFICES ASSUME NEW s \in Replica, NEW m \in settled[s] PROVE ScanSettled(s, m)'
    BY <1>1 DEF Scans
  <2>1. ScanSettled(s, m)
    BY DEF IInv, Scans
  <2>2. s = r => m # n
    BY <1>1, <2>1 DEF ScanSettled
  <2> QED
    BY <1>1, <1>2, <2>1, <2>2, ScanSettledKept
<1> QED
  BY <1>1, <1>3, <1>4, <1>5, <1>6 DEF IInv, ReadsFindKeys

LEMMA ReadIInv ==
    ASSUME IInv, NEW r \in Replica, NEW n \in 1..NOperations, Read(r, n) PROVE IInv'
<1>1. /\ UNCHANGED <<distribution, counter, limit, operation, length, file, store, result,
                     settled>>
      /\ n \in DOMAIN file /\ n \notin executed[r] /\ file[n].type = "READ"
      /\ Generated /\ UNCHANGED generation /\ MayRun(r, n)
  BY DEF Read, MayRun, generation, vars
<1>2. file[n].key \in store[r]
  <2>1. file[n].key \in file[n].key .. file[n].key + file[n].size - 1
    BY <1>1, FileTyped DEF IInv, Files
  <2> QED
    BY <1>1, <2>1, KeyStored
<1>3. /\ executed' = [executed EXCEPT ![r] = @ \cup {n}] /\ alive' = alive
      /\ executed'[r] = executed[r] \cup {n}
      /\ \A s \in Replica : s # r => executed'[s] = executed[s]
  BY <1>2 DEF Read, Done, IInv, ReplicasTypeOK
<1>4. ReplicasTypeOK'
  <2>1. TypeOK'
    BY <1>1 DEF IInv, ReplicasTypeOK, TypeOK
  <2> QED
    BY <1>1, <1>3, <2>1 DEF IInv, ReplicasTypeOK
<1>5. Files'
  BY <1>1, FilesKept
<1>6. Stores'
  <2>1. ASSUME NEW s \in Replica PROVE Written(executed'[s]) = Written(executed[s])
    <3>1. CASE s = r
      BY <1>1, <1>3, <3>1 DEF Written
    <3>2. CASE s # r
      BY <1>3, <3>2
    <3> QED
      BY <3>1, <3>2
  <2> QED
    BY <1>1, <1>3, <2>1 DEF IInv, Stores, Written
<1>7. Scans'
  <2> SUFFICES ASSUME NEW s \in Replica, NEW m \in settled[s] PROVE ScanSettled(s, m)'
    BY <1>1 DEF Scans
  <2>1. ScanSettled(s, m)
    BY DEF IInv, Scans
  <2>2. s = r => m # n
    BY <1>1, <2>1 DEF ScanSettled
  <2> QED
    BY <1>1, <1>3, <2>1, <2>2, ScanSettledKept
<1> QED
  BY <1>3, <1>4, <1>5, <1>6, <1>7 DEF IInv, ReadsFindKeys

(* Numbers counted from k go on with the next one.                           *)
LEMMA NextKeyRead ==
    ASSUME NEW s \in Seq(Nat \cup {Error}), NEW k \in Nat,
           \A j \in 1..Len(s) : s[j] = k + j - 1
    PROVE  /\ Len(Append(s, k + Len(s))) = Len(s) + 1
           /\ Append(s, k + Len(s)) = [j \in 1..(Len(s) + 1) |-> k + j - 1]
<1> DEFINE i == Len(s)
           t == Append(s, k + i)
<1>1. i \in Nat /\ k + i \in Nat
  OBVIOUS
<1>2. /\ Len(t) = i + 1 /\ t \in Seq(Nat \cup {Error})
      /\ t[i + 1] = k + i /\ \A j \in 1..i : t[j] = s[j]
  BY <1>1
<1>3. t = [j \in 1..(i + 1) |-> t[j]]
  BY <1>1, <1>2
<1> HIDE DEF t, i
<1>4. \A j \in 1..(i + 1) : t[j] = k + j - 1
  <2>1. \A j \in 1..i : t[j] = k + j - 1
    BY <1>2 DEF i
  <2>2. \A j \in 1..(i + 1) : j \in 1..i \/ j = i + 1
    BY <1>1
  <2>3. k + (i + 1) - 1 = k + i
    BY <1>1
  <2> QED
    BY <1>2, <2>1, <2>2, <2>3
<1>5. t = [j \in 1..(i + 1) |-> k + j - 1]
  BY <1>3, <1>4
<1> QED
  BY <1>2, <1>5 DEF t, i

(* One key of a scan.  When it is settled the key is the one it names.       *)
LEMMA ScanNextIInv ==
    ASSUME IInv, NEW r \in Replica, NEW n \in 1..NOperations, ScanNext(r, n) PROVE IInv'
<1> DEFINE i == Len(result[r][n])
           key == ScanKey(r, n, i)
<1>1. /\ UNCHANGED <<distribution, counter, limit, operation, length, file, store, alive>>
      /\ n \in DOMAIN file /\ n \notin executed[r] /\ file[n].type = "SCAN"
      /\ Generated /\ UNCHANGED generation /\ MayRun(r, n)
  BY DEF ScanNext, MayRun, generation, vars
<1>2. /\ i \in Nat /\ result[r][n] \in Seq(Nat \cup {Error})
      /\ file[n].key \in Nat /\ file[n].size \in Nat /\ file[n].size >= 1
      /\ n \in Nat /\ n >= 1
  <2>1. result[r][n] \in Seq(Nat \cup {Error})
    BY DEF IInv, ReplicasTypeOK
  <2>2. i \in Nat
    BY <2>1
  <2> QED
    BY <1>1, <2>1, <2>2, FileTyped DEF IInv, Files
<1>3. \/ /\ key \in store[r]
         /\ result' = [result EXCEPT ![r][n] = Append(@, key)]
         /\ IF i + 1 = file[n].size THEN Done(r, n) ELSE UNCHANGED executed
      \/ /\ key \notin store[r]
         /\ result' = [result EXCEPT ![r][n] = <<Error>>]
         /\ Done(r, n)
  BY DEF ScanNext
<1>4. settled' = IF i = 0 /\ Settled(r, n)
                 THEN [settled EXCEPT ![r] = @ \cup {n}] ELSE settled
  BY DEF ScanNext
<1>5. /\ executed' \in [Replica -> SUBSET (1..NOperations)]
      /\ executed'[r] = executed[r] \/ executed'[r] = executed[r] \cup {n}
      /\ \A s \in Replica : s # r => executed'[s] = executed[s]
  <2>1. CASE Done(r, n)
    BY <2>1 DEF Done, IInv, ReplicasTypeOK
  <2>2. CASE UNCHANGED executed
    BY <2>2 DEF IInv, ReplicasTypeOK
  <2> QED
    BY <1>3, <2>1, <2>2
<1>6. ReplicasTypeOK'
  <2>1. TypeOK'
    BY <1>1 DEF IInv, ReplicasTypeOK, TypeOK
  <2>2. settled' \in [Replica -> SUBSET (1..NOperations)]
    BY <1>4 DEF IInv, ReplicasTypeOK
  <2>3. result' \in [Replica -> [1..NOperations -> Seq(Nat \cup {Error})]]
    <3>1. \E new \in Seq(Nat \cup {Error}) : result' = [result EXCEPT ![r][n] = new]
      <4>1. CASE key \in store[r] /\ result' = [result EXCEPT ![r][n] = Append(@, key)]
        <5>1. key \in Nat
          BY <4>1 DEF IInv, ReplicasTypeOK
        <5>2. Append(result[r][n], key) \in Seq(Nat \cup {Error})
          BY <1>2, <5>1
        <5> QED
          BY <4>1, <5>2
      <4>2. CASE result' = [result EXCEPT ![r][n] = <<Error>>]
        <5>1. <<Error>> \in Seq(Nat \cup {Error})
          OBVIOUS
        <5> QED
          BY <4>2, <5>1
      <4> QED
        BY <1>3, <4>1, <4>2
    <3> QED
      BY <3>1 DEF IInv, ReplicasTypeOK
  <2> QED
    BY <1>1, <1>5, <2>1, <2>2, <2>3 DEF IInv, ReplicasTypeOK
<1>7. Files'
  BY <1>1, FilesKept
<1>8. Stores'
  <2>1. ASSUME NEW s \in Replica PROVE Written(executed'[s]) = Written(executed[s])
    <3>1. CASE s = r
      BY <1>1, <1>5, <3>1 DEF Written
    <3>2. CASE s # r
      BY <1>5, <3>2
    <3> QED
      BY <3>1, <3>2
  <2> QED
    BY <1>1, <1>5, <2>1 DEF IInv, Stores, Written
<1>9. ASSUME NEW s \in Replica, NEW m \in settled'[s], ~(s = r /\ m = n)
      PROVE  ScanSettled(s, m)'
  <2>1. m \in settled[s]
    BY <1>4, <1>9 DEF IInv, ReplicasTypeOK
  <2>2. ScanSettled(s, m) /\ m \in 1..NOperations
    BY <2>1 DEF IInv, ReplicasTypeOK, Scans
  <2>3. result'[s][m] = result[s][m]
    <3>1. PICK new : result' = [result EXCEPT ![r][n] = new]
      BY <1>3
    <3> QED
      BY <1>9, <2>2, <3>1 DEF IInv, ReplicasTypeOK
  <2> QED
    BY <1>1, <1>5, <1>9, <2>2, <2>3, ScanSettledKept
<1>10. ASSUME n \in settled'[r] PROVE ScanSettled(r, n)'
  <2>1. /\ Settled(r, n) /\ i \in 0 .. file[n].size - 1
        /\ result[r][n] = [j \in 1..i |-> file[n].key + j - 1]
    <3>1. CASE n \in settled[r]
      BY <1>1, <1>2, <3>1 DEF IInv, Scans, ScanSettled, KeysRead
    <3>2. CASE n \notin settled[r]
      <4>1. i = 0 /\ Settled(r, n)
        BY <1>4, <1>10, <3>2
      <4>2. result[r][n] = <<>>
        BY <1>2, <4>1
      <4> QED
        BY <1>2, <4>1, <4>2
    <3> QED
      BY <3>1, <3>2
  <2>2. key = file[n].key + i /\ key \in store[r]
    <3>1. file[n].key + i \in file[n].key .. file[n].key + file[n].size - 1
      BY <1>2, <2>1
    <3>2. /\ file[n].key + i \in store[r]
          /\ (file[n].key + i) % Cardinality(store[r]) = file[n].key + i
      BY <1>1, <2>1, <3>1, KeyBelowSize
    <3> QED
      BY <3>2 DEF ScanKey
  <2>3. result'[r][n] = Append(result[r][n], key)
    BY ZenonT(30), <1>3, <2>2 DEF IInv, ReplicasTypeOK
  <2>4. n \in executed'[r] <=> i + 1 = file[n].size
    BY <1>1, <1>3, <2>2 DEF Done, IInv, ReplicasTypeOK
  <2> HIDE DEF key
  <2>5. /\ Len(result'[r][n]) = i + 1
        /\ result'[r][n] = [j \in 1..(i + 1) |-> file[n].key + j - 1]
    <3> DEFINE read == result[r][n]
    <3>1. /\ read \in Seq(Nat \cup {Error}) /\ i = Len(read) /\ file[n].key \in Nat
          /\ \A j \in 1..i : read[j] = file[n].key + j - 1
      BY <1>2, <2>1
    <3>2. result'[r][n] = Append(read, file[n].key + Len(read))
      BY <2>2, <2>3
    <3> HIDE DEF read
    <3> QED
      BY <3>1, <3>2, NextKeyRead
  <2>6. Settled(r, n)'
    BY <1>1, <1>5, <2>1 DEF Settled
  <2>7. KeysRead(r, n)' = i + 1
    BY <2>5 DEF KeysRead
  <2>8. i + 1 \in 1..file[n].size
    BY <1>2, <2>1
  <2> HIDE DEF i
  <2> QED
    BY <1>1, <2>4, <2>5, <2>6, <2>7, <2>8 DEF ScanSettled
<1>11. Scans'
  BY <1>9, <1>10 DEF Scans
<1> QED
  BY <1>1, <1>6, <1>7, <1>8, <1>11 DEF IInv, ReadsFindKeys

LEMMA NextIInv == IInv /\ [ReplicasNext]_allVars => IInv'
<1> SUFFICES ASSUME IInv, [ReplicasNext]_allVars PROVE IInv'
  OBVIOUS
<1>1. CASE Generate
  BY <1>1, GenerateIInv
<1>2. ASSUME NEW r \in Replica, NEW n \in 1..NOperations,
             Write(r, n) \/ Read(r, n) \/ ScanNext(r, n)
      PROVE  IInv'
  BY <1>2, WriteIInv, ReadIInv, ScanNextIInv
<1>3. CASE UNCHANGED allVars
  <2> USE <1>3 DEF allVars, generation, vars, replicas
  <2>1. GeneratorInv'
    BY GenerationStep DEF IInv, Files
  <2>2. ReplicasTypeOK'
    BY DEF IInv, ReplicasTypeOK, TypeOK
  <2>3. Files'
    BY <2>1 DEF IInv, Files, Generated
  <2>4. Stores' /\ Scans' /\ ReadsFindKeys'
    BY DEF IInv, Stores, Written, Scans, ScanSettled, KeysRead, Settled, ReadsFindKeys
  <2> QED
    BY <2>2, <2>3, <2>4 DEF IInv
<1> QED
  BY <1>1, <1>2, <1>3 DEF ReplicasNext, ReplicasTerminated

THEOREM ReplicasInductive == ReplicasSpec => []IInv
  BY InitIInv, NextIInv, PTL DEF ReplicasSpec

-----------------------------------------------------------------------------
(* What is executed, stored and answered keeps its type.                     *)
THEOREM TypeCorrect == ReplicasSpec => []ReplicasTypeOK
  BY ReplicasInductive, PTL DEF IInv

(* thread_loop: no READ meets an absent key, though other workers insert     *)
(* the keys at their own pace; storage_.at, which nobody catches, does not   *)
(* throw.                                                                    *)
THEOREM ReadsFindKeysTheorem == ReplicasSpec => []ReadsFindKeys
  BY ReplicasInductive, PTL DEF IInv

(* Replicas that have executed the file hold the same keys.                  *)
THEOREM StoresConvergeTheorem == ReplicasSpec => []StoresConverge
<1>1. ASSUME IInv PROVE StoresConverge
  <2> SUFFICES ASSUME NEW r \in Replica, executed[r] = DOMAIN file
               PROVE  store[r] = 0 .. (IF limit > NInitialKeys THEN limit ELSE NInitialKeys)
    BY DEF StoresConverge
  <2>1. /\ (0 .. NRecords - 1) \cup Written(DOMAIN file) = 0..limit /\ limit \in Nat
    BY <1>1, WrittenBelow
  <2>2. 0 .. NRecords - 1 \subseteq 0..NInitialKeys
    BY NInitialKeysAssumption, GenerationConstants
  <2>3. store[r] = (0..NInitialKeys) \cup (0..limit)
    BY <1>1, <2>1, <2>2 DEF IInv, Stores
  <2> QED
    BY <2>1, <2>3, NInitialKeysAssumption
<1> QED
  BY <1>1, ReplicasInductive, PTL

LEMMA SettledScansRead == IInv => SettledScansReadTheirKeys
  BY DEF IInv, Scans, ScanSettled, SettledScansReadTheirKeys

(* Storage::scan: a scan that begins when the earlier writes are executed    *)
(* reads the keys it names, though the number of keys, modulo which it       *)
(* counts, grows while it runs.                                              *)
THEOREM SettledScansTheorem == ReplicasSpec => []SettledScansReadTheirKeys
  BY SettledScansRead, ReplicasInductive, PTL

-----------------------------------------------------------------------------
(* Where the replicas' answers agree.                                        *)

Begun(r, n) == n \in executed[r] \/ result[r][n] # <<>>

(* A scan that no insertion precedes begins settled; only scans answer.      *)
AnswersBegun ==
    \A r \in Replica : \A n \in 1..NOperations : Begun(r, n) =>
        /\ Generated /\ n \in DOMAIN file
        /\ file[n].type = "SCAN" /\ NoInsertBefore(n) => n \in settled[r]
        /\ file[n].type # "SCAN" => result[r][n] = <<>>

LEMMA AnswersInit == ReplicasInit => AnswersBegun
  BY DEF ReplicasInit, AnswersBegun, Begun

(* What is begun stays so, and what has begun is not affected by the others. *)
LEMMA AnswersStep == ASSUME IInv, AnswersBegun, [ReplicasNext]_allVars PROVE AnswersBegun'
<1>1. CASE Generate
  <2>1. UNCHANGED <<executed, result, settled>>
    BY <1>1 DEF Generate, replicas
  <2>2. ~Generated
    BY <1>1 DEF Generate, IInv, Files, DrawOperation, Insert,
                DrawKey, Reject, Generated
  <2>3. \A r \in Replica : \A n \in 1..NOperations : ~Begun(r, n)
    BY <2>2 DEF AnswersBegun
  <2> QED
    BY <2>1, <2>3 DEF AnswersBegun, Begun
<1>2. ASSUME NEW r \in Replica, NEW n \in 1..NOperations, Write(r, n) \/ Read(r, n)
      PROVE  AnswersBegun'
  <2>1. /\ UNCHANGED <<file, result, settled>> /\ Generated /\ n \in DOMAIN file
        /\ file[n].type # "SCAN"
        /\ Done(r, n) \/ UNCHANGED executed
    BY <1>2 DEF Write, Read, MayRun, generation, vars
  <2>2. \A s \in Replica : \A m \in 1..NOperations :
            m \in executed'[s] => m \in executed[s] \/ (s = r /\ m = n)
    BY <2>1 DEF Done, IInv, ReplicasTypeOK
  <2>3. result[r][n] = <<>>
    BY <2>1 DEF AnswersBegun, Begun
  <2> QED
    BY <2>1, <2>2, <2>3 DEF AnswersBegun, Begun, NoInsertBefore, Generated
<1>3. ASSUME NEW r \in Replica, NEW n \in 1..NOperations, ScanNext(r, n)
      PROVE  AnswersBegun'
  <2>1. /\ UNCHANGED file /\ Generated /\ n \in DOMAIN file
        /\ file[n].type = "SCAN"
        /\ Done(r, n) \/ UNCHANGED executed
        /\ \E new : result' = [result EXCEPT ![r][n] = new]
        /\ settled' = IF Len(result[r][n]) = 0 /\ Settled(r, n)
                      THEN [settled EXCEPT ![r] = @ \cup {n}] ELSE settled
    BY <1>3 DEF ScanNext, MayRun, generation, vars
  <2>2. ASSUME NEW s \in Replica, NEW m \in 1..NOperations, ~(s = r /\ m = n)
        PROVE  /\ m \in executed'[s] <=> m \in executed[s]
               /\ result'[s][m] = result[s][m]
               /\ m \in settled[s] => m \in settled'[s]
    BY <2>1, <2>2 DEF Done, IInv, ReplicasTypeOK
  <2>3. ASSUME NoInsertBefore(n) PROVE n \in settled'[r]
    <3>1. CASE Begun(r, n)
      <4>1. n \in settled[r]
        BY <2>1, <2>3, <3>1 DEF AnswersBegun
      <4> QED
        BY <2>1, <4>1 DEF IInv, ReplicasTypeOK
    <3>2. CASE ~Begun(r, n)
      <4>1. Len(result[r][n]) = 0
        BY <3>2 DEF Begun
      <4>2. Settled(r, n)
        BY <2>3 DEF Settled, NoInsertBefore
      <4> QED
        BY <2>1, <4>1, <4>2 DEF IInv, ReplicasTypeOK
    <3> QED
      BY <3>1, <3>2
  <2>4. Generated' /\ \A m : NoInsertBefore(m)' <=> NoInsertBefore(m)
    BY <2>1 DEF Generated, NoInsertBefore
  <2> QED
    BY <2>1, <2>2, <2>3, <2>4 DEF AnswersBegun, Begun
<1>4. CASE UNCHANGED allVars
  BY <1>4 DEF allVars, generation, vars, replicas, AnswersBegun, Begun, NoInsertBefore,
              Generated
<1> QED
  BY <1>1, <1>2, <1>3, <1>4 DEF ReplicasNext, ReplicasTerminated

(* README.md:3: replicas that execute one file give the same answers to      *)
(* every request that no insertion precedes, whatever their maps and their   *)
(* pace, and to every scan that began settled at both.                       *)
THEOREM ReplicasAgreeTheorem == ReplicasSpec => []ReplicasAgreeUnlessInserting
<1>1. ASSUME IInv, AnswersBegun PROVE ReplicasAgreeUnlessInserting
  <2> SUFFICES ASSUME NEW r \in Replica, NEW s \in Replica,
                      NEW n \in executed[r] \cap executed[s],
                      NoInsertBefore(n) \/ n \in settled[r] \cap settled[s]
               PROVE  result[r][n] = result[s][n]
    BY DEF ReplicasAgreeUnlessInserting
  <2>1. n \in 1..NOperations /\ Begun(r, n) /\ Begun(s, n)
    BY <1>1 DEF IInv, ReplicasTypeOK, Begun
  <2>2. CASE n \in settled[r] \cap settled[s]
    <3>1. SettledScansReadTheirKeys
      BY <1>1, SettledScansRead
    <3>2. ASSUME NEW t \in {r, s}
          PROVE  result[t][n] = [i \in 1..file[n].size |-> file[n].key + i - 1]
      BY <2>2, <3>1 DEF SettledScansReadTheirKeys
    <3> QED
      BY <3>2, Zenon
  <2>3. CASE NoInsertBefore(n) /\ n \notin settled[r] \cap settled[s]
    <3>1. file[n].type # "SCAN"
      BY <1>1, <2>1, <2>3 DEF AnswersBegun
    <3> QED
      BY <1>1, <2>1, <3>1 DEF AnswersBegun
  <2> QED
    BY <2>2, <2>3
<1> QED
  BY <1>1, AnswersInit, AnswersStep, ReplicasInductive, PTL DEF ReplicasSpec

=============================================================================
