--------------------------- MODULE DispatchProofs ---------------------------
(* Proofs about Dispatch for every number of partitions, every set of keys   *)
(* and requests, every queue capacity and every bound on the log.            *)
EXTENDS DispatchInduction, FiniteSetTheorems, SequenceTheorems, TLAPS

-----------------------------------------------------------------------------
(* The partitions, the messages and their stamps.                            *)

(* There are finitely many partitions, at least one.                         *)
LEMMA PartitionFinite == /\ IsFiniteSet(Partition)
                         /\ Cardinality(Partition) = NPartitions
                         /\ Partition # {}
                         /\ Partition \subseteq Nat
<1>1. NPartitions \in Nat /\ NPartitions >= 1 /\ NPartitions - 1 \in Int
  BY PartitionsAssumption
<1>2. IsFiniteSet(Partition) /\ Cardinality(Partition) = NPartitions
  BY <1>1, FS_Interval DEF Partition
<1>3. 0 \in Partition /\ Partition \subseteq Nat
  BY <1>1 DEF Partition
<1> QED
  BY <1>2, <1>3

(* A set of partitions is finite.                                            *)
LEMMA PartsFinite ==
    ASSUME NEW S \in SUBSET Partition
    PROVE  IsFiniteSet(S) /\ Cardinality(S) \in Nat
BY PartitionFinite, FS_Subset, FS_CardinalityType

(* A set of partitions with at most one member is a singleton.               *)
LEMMA SinglePartition ==
    ASSUME NEW S \in SUBSET Partition, NEW p \in S, Cardinality(S) <= 1
    PROVE  S = {p}
<1>1. IsFiniteSet(S) /\ Cardinality(S) \in Nat
  BY PartsFinite
<1>2. {p} \in SUBSET S /\ Cardinality({p}) = 1
  BY FS_Singleton
<1>3. Cardinality({p}) <= Cardinality(S) /\ (Cardinality(S) = Cardinality({p}) => S = {p})
  BY <1>1, <1>2, FS_Subset
<1> QED
  BY <1>1, <1>2, <1>3

(* The fields of a message are those it was made of.                         *)
LEMMA MessagePhase ==
    ASSUME NEW n, NEW phase \in {Pre, Exec, Post}
    PROVE  /\ Message(n, phase).entry = n
           /\ Message(n, phase).phase = phase
           /\ Message(n, phase).phase = Exec <=> phase = Exec
           /\ Pre # Exec /\ Post # Exec
BY DEF Message, Pre, Exec, Post

(* What the messages of the n-th entry look like.                            *)
LEMMA MessageFields ==
    ASSUME NEW n \in Nat \ {0}
    PROVE  /\ Message(n, Pre) \in Messages
           /\ Message(n, Exec) \in Messages
           /\ Message(n, Post) \in Messages
           /\ Stamp(Message(n, Pre)) = 3 * n
           /\ Stamp(Message(n, Exec)) = 3 * n + 1
           /\ Stamp(Message(n, Post)) = 3 * n + 2
BY DEF Messages, Message, Stamp, Pre, Exec, Post

(* A message is one of the three of its entry, and its stamp identifies it.  *)
LEMMA MessageCases ==
    ASSUME NEW m \in Messages
    PROVE  /\ m.entry \in Nat \ {0}
           /\ m.phase \in {Pre, Exec, Post}
           /\ m = Message(m.entry, m.phase)
           /\ m # NoMessage
           /\ Stamp(m) \in Nat
           /\ IsSync(m) <=> m.phase # Exec
BY DEF Messages, Message, NoMessage, Stamp, Pre, Exec, Post, IsSync

(* NoMessage is not the message of an entry.                                 *)
LEMMA NoMessageFields == NoMessage.phase = Exec /\ NoMessage \notin Messages
BY DEF NoMessage, Message, Messages

-----------------------------------------------------------------------------
(* The pushes of one entry.                                                  *)

Pushed == [to : Partition, msg : Messages]

(* An order enumerates its set, each member once.                            *)
LEMMA OrderProperties ==
    ASSUME NEW S \in SUBSET Partition, S # {}, NEW order \in Orders(S)
    PROVE  /\ order \in Seq(S)
           /\ Len(order) = Cardinality(S)
           /\ Len(order) \in Nat \ {0}
           /\ order[1] \in S
           /\ \A i, j \in 1 .. Len(order) : order[i] = order[j] => i = j
           /\ \A p \in S : \E i \in 1 .. Len(order) : order[i] = p
<1>1. Cardinality(S) \in Nat /\ Cardinality(S) # 0
  BY PartsFinite, FS_EmptySet
<1>2. order \in [1 .. Cardinality(S) -> S]
  BY DEF Orders
<1>3. order \in Seq(S) /\ Len(order) = Cardinality(S)
  BY <1>1, <1>2
<1> QED
  BY <1>1, <1>2, <1>3 DEF Orders

(* SyncPushes pushes the same barrier to each partition, in the order given. *)
LEMMA SyncPushesProperties ==
    ASSUME NEW S \in SUBSET Partition, S # {}, NEW order \in Orders(S),
           NEW n \in Nat \ {0}, NEW phase \in {Pre, Post}
    PROVE  LET ps == SyncPushes(n, phase, order)
           IN  /\ ps \in Seq(Pushed)
               /\ Len(ps) = Len(order)
               /\ \A i \in 1 .. Len(ps) :
                     ps[i] = [to |-> order[i], msg |-> Message(n, phase)]
<1> DEFINE e(i) == [to |-> order[i], msg |-> Message(n, phase)]
<1>1. order \in Seq(S) /\ Len(order) \in Nat
  BY OrderProperties
<1>2. Message(n, phase) \in Messages
  BY MessageFields
<1>3. \A i \in 1 .. Len(order) : e(i) \in Pushed
  BY <1>1, <1>2, ElementOfSeq DEF Pushed
<1>4. SyncPushes(n, phase, order) = [i \in 1 .. Len(order) |-> e(i)]
  BY DEF SyncPushes
<1> HIDE DEF e
<1>5. /\ SyncPushes(n, phase, order) \in Seq(Pushed)
      /\ Len(SyncPushes(n, phase, order)) = Len(order)
      /\ \A i \in 1 .. Len(order) : SyncPushes(n, phase, order)[i] = e(i)
  BY <1>1, <1>3, <1>4
<1> QED
  BY <1>5 DEF e

(* The pushes of a cross-partition request, one by one.                      *)
LEMMA CrossPushes ==
    ASSUME NEW S \in SUBSET Partition, S # {}, NEW order \in Orders(S),
           NEW n \in Nat \ {0}, Len(order) > 1
    PROVE  LET ps == RequestPushes(n, order)
               L == Len(order)
           IN  /\ ps \in Seq(Pushed)
               /\ Len(ps) = 2 * L + 1
               /\ \A i \in 1 .. L :
                     ps[i] = [to |-> order[i], msg |-> Message(n, Pre)]
               /\ ps[L + 1] = [to |-> order[1], msg |-> Message(n, Exec)]
               /\ \A i \in 1 .. L :
                     ps[L + 1 + i] = [to |-> order[i], msg |-> Message(n, Post)]
<1> DEFINE pre == SyncPushes(n, Pre, order)
           post == SyncPushes(n, Post, order)
           push == [to |-> order[1], msg |-> Message(n, Exec)]
           L == Len(order)
<1>1. L \in Nat \ {0} /\ order[1] \in Partition
  BY OrderProperties
<1>2. push \in Pushed
  BY <1>1, MessageFields DEF Pushed
<1>3. <<push>> \in Seq(Pushed) /\ Len(<<push>>) = 1 /\ <<push>>[1] = push
  BY <1>2
<1>4. /\ pre \in Seq(Pushed) /\ Len(pre) = L
      /\ \A i \in 1 .. L : pre[i] = [to |-> order[i], msg |-> Message(n, Pre)]
  BY SyncPushesProperties
<1>5. /\ post \in Seq(Pushed) /\ Len(post) = L
      /\ \A i \in 1 .. L : post[i] = [to |-> order[i], msg |-> Message(n, Post)]
  BY SyncPushesProperties
<1>6. RequestPushes(n, order) = (pre \o <<push>>) \o post
  BY <1>3, <1>4, <1>5, ConcatAssociative DEF RequestPushes
<1> HIDE DEF pre, post, push
<1>7. /\ pre \o <<push>> \in Seq(Pushed) /\ Len(pre \o <<push>>) = L + 1
      /\ \A i \in 1 .. L : (pre \o <<push>>)[i] = pre[i]
      /\ (pre \o <<push>>)[L + 1] = push
  <2>1. \A i \in 1 .. Len(pre) + Len(<<push>>) : (pre \o <<push>>)[i] =
           IF i <= Len(pre) THEN pre[i] ELSE <<push>>[i - Len(pre)]
    BY <1>3, <1>4, ConcatProperties
  <2> QED
    BY <2>1, <1>1, <1>3, <1>4, ConcatProperties
<1> DEFINE front == pre \o <<push>>
<1> HIDE DEF front
<1>8. /\ front \o post \in Seq(Pushed) /\ Len(front \o post) = 2 * L + 1
      /\ \A i \in 1 .. 2 * L + 1 : (front \o post)[i] =
            IF i <= L + 1 THEN front[i] ELSE post[i - (L + 1)]
  <2>1. /\ front \in Seq(Pushed) /\ Len(front) = L + 1
    BY <1>7 DEF front
  <2>2. \A i \in 1 .. Len(front) + Len(post) : (front \o post)[i] =
           IF i <= Len(front) THEN front[i] ELSE post[i - Len(front)]
    BY <2>1, <1>5, ConcatProperties
  <2>3. Len(front) + Len(post) = 2 * L + 1
    BY <2>1, <1>5, <1>1
  <2>4. front \o post \in Seq(Pushed) /\ Len(front \o post) = Len(front) + Len(post)
    BY <2>1, <1>5, ConcatProperties
  <2> QED
    BY <2>1, <2>2, <2>3, <2>4
<1>9. \A i \in 1 .. L : /\ (front \o post)[i] = pre[i]
                        /\ (front \o post)[L + 1 + i] = post[i]
  BY <1>1, <1>7, <1>8 DEF front
<1>10. (front \o post)[L + 1] = push
  BY <1>1, <1>7, <1>8 DEF front
<1> QED
  BY <1>4, <1>5, <1>6, <1>8, <1>9, <1>10 DEF front, push

(* What the proofs need of the pushes of a request.                          *)
LEMMA RequestPushesProperties ==
    ASSUME NEW S \in SUBSET Partition, S # {}, NEW order \in Orders(S),
           NEW n \in Nat \ {0}
    PROVE  LET ps == RequestPushes(n, order)
           IN  /\ ps \in Seq(Pushed)
               /\ \A i \in DOMAIN ps :
                     /\ ps[i].to \in S
                     /\ \/ /\ ps[i].msg = Message(n, Exec)
                           /\ ps[i].to = order[1]
                        \/ /\ Cardinality(S) > 1
                           /\ ps[i].msg \in {Message(n, Pre), Message(n, Post)}
               /\ \A i, j \in DOMAIN ps :
                     (i < j /\ ps[i].to = ps[j].to)
                         => Stamp(ps[i].msg) < Stamp(ps[j].msg)
               /\ \E i \in DOMAIN ps :
                     ps[i] = [to |-> order[1], msg |-> Message(n, Exec)]
               /\ Cardinality(S) > 1 =>
                     \A p \in S : \A m \in {Message(n, Pre), Message(n, Post)} :
                        \E i \in DOMAIN ps : ps[i] = [to |-> p, msg |-> m]
<1> DEFINE ps == RequestPushes(n, order)
           L == Len(order)
           push == [to |-> order[1], msg |-> Message(n, Exec)]
<1>1. /\ L \in Nat \ {0} /\ L = Cardinality(S) /\ order[1] \in S
      /\ \A i \in 1 .. L : order[i] \in S
      /\ \A i, j \in 1 .. L : order[i] = order[j] => i = j
      /\ \A p \in S : \E i \in 1 .. L : order[i] = p
  BY OrderProperties, ElementOfSeq
<1>2. CASE L > 1
  <2>0. /\ ps \in Seq(Pushed) /\ Len(ps) = 2 * L + 1
        /\ \A i \in 1 .. L : ps[i] = [to |-> order[i], msg |-> Message(n, Pre)]
        /\ ps[L + 1] = push
        /\ \A i \in 1 .. L :
              ps[L + 1 + i] = [to |-> order[i], msg |-> Message(n, Post)]
    BY <1>2, CrossPushes
  <2> HIDE DEF ps
  <2>1. /\ ps \in Seq(Pushed) /\ DOMAIN ps = 1 .. 2 * L + 1
        /\ \A i \in 1 .. L : ps[i] = [to |-> order[i], msg |-> Message(n, Pre)]
        /\ ps[L + 1] = push
        /\ \A i \in 1 .. L :
              ps[L + 1 + i] = [to |-> order[i], msg |-> Message(n, Post)]
    BY <2>0, LenProperties
  <2>a. ASSUME NEW i \in 1 .. L
        PROVE  ps[i].to = order[i] /\ ps[i].msg = Message(n, Pre)
    <3>1. ps[i] = [to |-> order[i], msg |-> Message(n, Pre)]
      BY <2>1
    <3> QED
      BY <3>1
  <2>b. ASSUME NEW i \in 1 .. L
        PROVE  ps[L + 1 + i].to = order[i] /\ ps[L + 1 + i].msg = Message(n, Post)
    <3>1. ps[L + 1 + i] = [to |-> order[i], msg |-> Message(n, Post)]
      BY <2>1
    <3> QED
      BY <3>1
  <2>2. ASSUME NEW i \in DOMAIN ps
        PROVE  \/ /\ i \in 1 .. L
                  /\ ps[i] = [to |-> order[i], msg |-> Message(n, Pre)]
               \/ i = L + 1 /\ ps[i] = push
               \/ /\ i - (L + 1) \in 1 .. L
                  /\ ps[i] = [to |-> order[i - (L + 1)], msg |-> Message(n, Post)]
    <3>1. CASE i \in 1 .. L
      BY <3>1, <2>1
    <3>2. CASE i = L + 1
      BY <3>2, <2>1
    <3>3. CASE i > L + 1
      <4>1. i - (L + 1) \in 1 .. L /\ i = L + 1 + (i - (L + 1))
        BY <3>3, <2>1, <1>1
      <4> QED
        BY <4>1, <2>1
    <3> QED
      BY <3>1, <3>2, <3>3, <2>1, <1>1
  <2>3. \A i \in DOMAIN ps :
           /\ ps[i].to \in S
           /\ \/ /\ ps[i].msg = Message(n, Exec)
                 /\ ps[i].to = order[1]
              \/ /\ Cardinality(S) > 1
                 /\ ps[i].msg \in {Message(n, Pre), Message(n, Post)}
    BY <2>2, <1>1, <1>2
  <2>4. ASSUME NEW i \in DOMAIN ps, NEW j \in DOMAIN ps, i < j,
               ps[i].to = ps[j].to
        PROVE  Stamp(ps[i].msg) < Stamp(ps[j].msg)
    <3>1. /\ Stamp(Message(n, Pre)) = 3 * n
          /\ Stamp(Message(n, Exec)) = 3 * n + 1
          /\ Stamp(Message(n, Post)) = 3 * n + 2
      BY MessageFields
    <3> L \in Nat /\ L > 1 /\ i \in 1 .. 2 * L + 1 /\ j \in 1 .. 2 * L + 1 /\ i < j
      BY <1>1, <1>2, <2>1, <2>4
    <3>2. CASE i <= L /\ j <= L
      <4>1. i \in 1 .. L /\ j \in 1 .. L
        BY <3>2
      <4>2. order[i] = order[j]
        BY <4>1, <2>a, <2>4
      <4> QED
        BY <4>1, <4>2, <1>1
    <3>3. CASE i > L + 1 /\ j > L + 1
      <4>1. i - (L + 1) \in 1 .. L /\ j - (L + 1) \in 1 .. L
        BY <3>3
      <4>2. order[i - (L + 1)] = order[j - (L + 1)]
        <5>1. i = L + 1 + (i - (L + 1)) /\ j = L + 1 + (j - (L + 1))
          OBVIOUS
        <5>2. ps[i].to = order[i - (L + 1)] /\ ps[j].to = order[j - (L + 1)]
          BY <5>1, <4>1, <2>b
        <5> QED
          BY <5>2, <2>4
      <4>3. i - (L + 1) = j - (L + 1)
        BY <4>1, <4>2, <1>1
      <4> QED
        BY <4>3
    <3>4. CASE i <= L /\ j >= L + 1
      <4>1. Stamp(ps[i].msg) = 3 * n
        <5>1. i \in 1 .. L
          BY <3>4
        <5> QED
          BY <5>1, <3>1, <2>a
      <4>2. Stamp(ps[j].msg) \in {3 * n + 1, 3 * n + 2}
        BY <3>1, <3>4, <2>2, <1>1
      <4> QED
        BY <4>1, <4>2
    <3>5. CASE i = L + 1 /\ j > L + 1
      <4>1. Stamp(ps[i].msg) = 3 * n + 1
        BY <3>1, <3>5, <2>1
      <4>2. Stamp(ps[j].msg) = 3 * n + 2
        BY <3>1, <3>5, <2>2, <1>1
      <4> QED
        BY <4>1, <4>2
    <3> QED
      BY <3>2, <3>3, <3>4, <3>5, <2>1, <2>4, <1>1
  <2>5. L + 1 \in DOMAIN ps
    BY <2>1, <1>1
  <2>6. ASSUME NEW p \in S, NEW m \in {Message(n, Pre), Message(n, Post)}
        PROVE  \E i \in DOMAIN ps : ps[i] = [to |-> p, msg |-> m]
    <3>1. PICK i \in 1 .. L : order[i] = p
      BY <1>1
    <3>2. i \in DOMAIN ps /\ L + 1 + i \in DOMAIN ps
      BY <2>1, <1>1
    <3> QED
      BY <3>1, <3>2, <2>1
  <2> QED
    BY <2>1, <2>3, <2>4, <2>5, <2>6 DEF ps
<1>3. CASE L = 1
  <2>1. ps = <<push>>
    BY <1>3 DEF RequestPushes
  <2>2. push \in Pushed
    BY <1>1, MessageFields DEF Pushed
  <2>3. ps \in Seq(Pushed) /\ DOMAIN ps = {1} /\ ps[1] = push
    BY <2>1, <2>2
  <2> HIDE DEF ps
  <2> QED
    BY <2>3, <1>1, <1>3 DEF ps
<1> QED
  BY <1>1, <1>2, <1>3

-----------------------------------------------------------------------------
(* Type correctness.                                                         *)

BarrierRecord == [count : Nat, arrived : SUBSET Partition, left : SUBSET Partition]

(* Allocating barriers keeps the barriers well typed.                        *)
LEMMA WithBarriersType ==
    ASSUME TypeOK, NEW new \in SUBSET Messages, NEW parties \in Nat
    PROVE  /\ DOMAIN WithBarriers(new, parties) = DOMAIN barrier \cup new
           /\ DOMAIN WithBarriers(new, parties) \subseteq Messages
           /\ WithBarriers(new, parties)
                 \in [DOMAIN WithBarriers(new, parties) -> BarrierRecord]
BY DEF TypeOK, WithBarriers, NewBarrier, BarrierRecord

(* A request names at least one key, and only known ones.                    *)
LEMMA RequestKeys ==
    ASSUME NEW r \in Requests
    PROVE  /\ KeysOf(r) \subseteq Keys
           /\ KeysOf(r) # {}
           /\ r.type \in {"READ", "WRITE", "SCAN"}
BY RequestsAssumption

(* The partitions of a request are partitions, and there is at least one.    *)
LEMMA InvolvedType ==
    ASSUME TypeOK, NEW keys \in SUBSET Keys, keys # {}
    PROVE  /\ DOMAIN MapWith(keys) = DOMAIN dataToPartition \cup keys
           /\ \A k \in DOMAIN MapWith(keys) : MapWith(keys)[k] \in Partition
           /\ InvolvedPartitions(keys) \subseteq Partition
           /\ InvolvedPartitions(keys) # {}
           /\ NextRoundRobin(keys) \in Partition
<1>1. DOMAIN MapWith(keys) = DOMAIN dataToPartition \cup keys
  BY DEF MapWith
<1>2. \A k \in DOMAIN MapWith(keys) : MapWith(keys)[k] \in Partition
  BY DEF MapWith, Mapped, TypeOK
<1>3. InvolvedPartitions(keys) \subseteq Partition /\ InvolvedPartitions(keys) # {}
  BY <1>1, <1>2 DEF InvolvedPartitions
<1>4. NextRoundRobin(keys) \in Partition
  BY PartitionsAssumption DEF NextRoundRobin, TypeOK, Partition
<1> QED
  BY <1>1, <1>2, <1>3, <1>4

(* The entries are the indices of the log.                                   *)
LEMMA LogLength == TypeOK => Len(log) \in Nat /\ Entries = DOMAIN log
BY LenProperties DEF TypeOK, Entries

(* An entry of the log names known keys and existing partitions.             *)
LEMMA LogEntry ==
    ASSUME TypeOK, NEW i \in Entries
    PROVE  /\ log[i] \in Entry
           /\ i \in Nat \ {0}
           /\ log[i].keys \subseteq Keys
           /\ log[i].parts \subseteq Partition
<1>1. log[i] \in Entry
  BY ElementOfSeq DEF TypeOK, Entries
<1> QED
  BY <1>1, LogLength DEF Entry, Entries

(* The populated store is well typed.                                        *)
LEMMA TypeInit == Init => TypeOK
<1> SUFFICES ASSUME Init PROVE TypeOK
  OBVIOUS
<1> USE DEF Init
<1>1. DOMAIN dataToPartition = InitialKeys /\ InitialKeys \subseteq Keys
  BY KeysAssumption
<1>2. \A k \in InitialKeys : k % NPartitions \in Partition
  BY PartitionsAssumption, KeysAssumption DEF Partition, InitialKeys
<1>3. roundRobin \in Partition
  BY PartitionsAssumption, KeysAssumption DEF Partition
<1>4. DOMAIN barrier = {} /\ barrier \in [DOMAIN barrier -> BarrierRecord]
  OBVIOUS
<1>5. log \in Seq(Entry) /\ pushes \in Seq([to : Partition, msg : Messages])
  OBVIOUS
<1>6. queue \in [Partition -> Seq(Messages)]
  OBVIOUS
<1> QED
  BY <1>1, <1>2, <1>3, <1>4, <1>5, <1>6 DEF TypeOK, BarrierRecord

(* Dispatching a request keeps the state well typed.                         *)
LEMMA TypeDispatch == TypeOK /\ (\E r \in Requests : Dispatch(r)) => TypeOK'
<1> SUFFICES ASSUME TypeOK, NEW r \in Requests, Dispatch(r) PROVE TypeOK'
  OBVIOUS
<1> DEFINE keys == KeysOf(r)
           parts == InvolvedPartitions(keys)
           n == Len(log) + 1
<1>1. keys \in SUBSET Keys /\ keys # {} /\ r.type \in {"READ", "WRITE", "SCAN"}
  BY RequestKeys
<1>2. parts \in SUBSET Partition /\ parts # {} /\ n \in Nat \ {0}
  <2>1. n \in Nat \ {0}
    BY LogLength
  <2> HIDE DEF keys
  <2>2. parts \subseteq Partition /\ parts # {}
    BY <1>1, InvolvedType
  <2> QED
    BY <2>1, <2>2
<1>3. PICK order \in Orders(parts) :
         /\ pushes' = RequestPushes(n, order)
         /\ log' = Append(log, [type |-> r.type, keys |-> keys,
                                parts |-> parts, home |-> order[1]])
  BY DEF Dispatch
<1>4. pushes' \in Seq([to : Partition, msg : Messages])
  BY <1>2, <1>3, RequestPushesProperties DEF Pushed
<1>5. log' \in Seq(Entry)
  <2>1. order[1] \in parts
    BY <1>2, OrderProperties
  <2>2. [type |-> r.type, keys |-> keys, parts |-> parts, home |-> order[1]] \in Entry
    BY <2>1, <1>1, <1>2 DEF Entry
  <2>3. log \in Seq(Entry)
    BY DEF TypeOK
  <2> HIDE DEF keys, parts
  <2> QED
    BY <2>2, <2>3, <1>3, AppendProperties
<1>6. /\ DOMAIN dataToPartition' \subseteq Keys
      /\ dataToPartition' \in [DOMAIN dataToPartition' -> Partition]
      /\ roundRobin' \in Partition
  <2>1. dataToPartition' = MapWith(keys) /\ roundRobin' = NextRoundRobin(keys)
    BY DEF Dispatch
  <2>2. DOMAIN dataToPartition \subseteq Keys
    BY DEF TypeOK
  <2>3. MapWith(keys) = [k \in DOMAIN MapWith(keys) |-> MapWith(keys)[k]]
    BY DEF MapWith
  <2> HIDE DEF keys
  <2> QED
    BY <2>1, <2>2, <2>3, <1>1, InvolvedType
<1>7. /\ DOMAIN barrier' \subseteq Messages
      /\ barrier' \in [DOMAIN barrier' -> BarrierRecord]
  <2>1. Cardinality(parts) \in Nat
    BY <1>2, PartsFinite
  <2>2. {Message(n, Pre), Message(n, Post)} \in SUBSET Messages
    BY <1>2, MessageFields
  <2>3. \/ barrier' = barrier
        \/ barrier' = WithBarriers({Message(n, Pre), Message(n, Post)}, Cardinality(parts))
    BY DEF Dispatch
  <2> HIDE DEF parts, n
  <2>4. CASE barrier' = barrier
    BY <2>4 DEF TypeOK, BarrierRecord
  <2>5. CASE barrier' = WithBarriers({Message(n, Pre), Message(n, Post)}, Cardinality(parts))
    BY <2>1, <2>2, <2>5, WithBarriersType
  <2> QED
    BY <2>3, <2>4, <2>5
<1>8. UNCHANGED <<queue, current, executed, ended>>
  BY DEF Dispatch
<1> HIDE DEF keys, parts, n
<1> QED
  BY <1>4, <1>5, <1>6, <1>7, <1>8 DEF TypeOK, BarrierRecord

(* Installing a new map keeps the state well typed.                          *)
LEMMA TypeChange == TypeOK /\ ChangePartitionScheme => TypeOK'
<1> SUFFICES ASSUME TypeOK, ChangePartitionScheme PROVE TypeOK'
  OBVIOUS
<1> DEFINE n == Len(log) + 1
<1>1. n \in Nat \ {0}
  BY LogLength
<1>2. Partition \in SUBSET Partition /\ Partition # {} /\ NPartitions \in Nat
      /\ Cardinality(Partition) = NPartitions
  BY PartitionFinite, PartitionsAssumption
<1>3. PICK order \in Orders(Partition) :
         /\ pushes' = SyncPushes(n, Pre, order)
         /\ log' = Append(log, [type |-> "SYNC", keys |-> {},
                                parts |-> Partition, home |-> order[1]])
  BY DEF ChangePartitionScheme, SyncAllParties
<1>4. pushes' \in Seq([to : Partition, msg : Messages])
  BY <1>1, <1>2, <1>3, SyncPushesProperties DEF Pushed
<1>5. log' \in Seq(Entry)
  <2>1. order[1] \in Partition
    BY <1>2, OrderProperties
  <2>2. [type |-> "SYNC", keys |-> {}, parts |-> Partition, home |-> order[1]] \in Entry
    BY <2>1 DEF Entry
  <2>3. log \in Seq(Entry)
    BY DEF TypeOK
  <2> QED
    BY <2>2, <2>3, <1>3, AppendProperties
<1>6. /\ DOMAIN dataToPartition' \subseteq Keys
      /\ dataToPartition' \in [DOMAIN dataToPartition' -> Partition]
  <2>1. \E known \in SUBSET Keys : dataToPartition' \in [known -> Partition]
    BY DEF ChangePartitionScheme
  <2> QED
    BY <2>1
<1>7. /\ DOMAIN barrier' \subseteq Messages
      /\ barrier' \in [DOMAIN barrier' -> BarrierRecord]
  <2>1. {Message(n, Pre)} \in SUBSET Messages
    BY <1>1, MessageFields
  <2>2. barrier' = WithBarriers({Message(n, Pre)}, NPartitions)
    BY <1>2 DEF ChangePartitionScheme, SyncAllParties
  <2> HIDE DEF n
  <2> QED
    BY <2>1, <2>2, <1>2, WithBarriersType
<1>8. UNCHANGED <<roundRobin, queue, current, executed, ended>>
  BY DEF ChangePartitionScheme
<1> HIDE DEF n
<1> QED
  BY <1>4, <1>5, <1>6, <1>7, <1>8 DEF TypeOK, BarrierRecord

(* Pushing a message keeps the state well typed.                             *)
LEMMA TypePush == TypeOK /\ Push => TypeOK'
<1> SUFFICES ASSUME TypeOK, Push PROVE TypeOK'
  OBVIOUS
<1>1. pushes \in Seq([to : Partition, msg : Messages]) /\ pushes # <<>>
  BY DEF TypeOK, Push
<1>2. Head(pushes) \in [to : Partition, msg : Messages]
  BY <1>1, HeadTailProperties
<1>3. pushes' \in Seq([to : Partition, msg : Messages])
  BY <1>1, HeadTailProperties DEF Push
<1>4. queue' \in [Partition -> Seq(Messages)]
  <2>1. queue[Head(pushes).to] \in Seq(Messages)
    BY <1>2 DEF TypeOK
  <2>2. Append(queue[Head(pushes).to], Head(pushes).msg) \in Seq(Messages)
    BY <1>2, <2>1, AppendProperties
  <2>3. queue' = [queue EXCEPT ![Head(pushes).to] =
                      Append(queue[Head(pushes).to], Head(pushes).msg)]
    BY DEF Push
  <2> QED
    BY <2>2, <2>3 DEF TypeOK
<1> QED
  BY <1>3, <1>4 DEF TypeOK, Push

(* A worker's step keeps the state well typed.                               *)
LEMMA TypeWorker == TypeOK /\ (\E p \in Partition : Worker(p)) => TypeOK'
<1> SUFFICES ASSUME TypeOK, NEW p \in Partition, Worker(p) PROVE TypeOK'
  OBVIOUS
<1>1. CASE Pop(p)
  <2>1. queue[p] \in Seq(Messages) /\ queue[p] # <<>>
    BY <1>1 DEF TypeOK, Pop
  <2>2. Head(queue[p]) \in Messages /\ Tail(queue[p]) \in Seq(Messages)
    BY <2>1, HeadTailProperties
  <2>3. current' \in [Partition -> Messages \cup {NoMessage}]
    BY <2>2, <1>1 DEF TypeOK, Pop
  <2>4. queue' \in [Partition -> Seq(Messages)]
    BY <2>2, <1>1 DEF TypeOK, Pop
  <2> QED
    BY <2>3, <2>4, <1>1 DEF TypeOK, Pop
<1>2. CASE Finish(p)
  <2>1. current[p] \in Messages
    BY <1>2 DEF TypeOK, Finish
  <2>2. executed' \subseteq Nat
    BY <2>1, <1>2, MessageCases DEF TypeOK, Finish
  <2>3. current' \in [Partition -> Messages \cup {NoMessage}]
    BY <1>2 DEF TypeOK, Finish
  <2> QED
    BY <2>2, <2>3, <1>2 DEF TypeOK, Finish
<1>3. CASE Arrive(p)
  <2>1. barrier' = [barrier EXCEPT ![current[p]].arrived = @ \cup {p}]
    BY <1>3 DEF Arrive
  <2>2. barrier \in [DOMAIN barrier -> BarrierRecord]
    BY DEF TypeOK, BarrierRecord
  <2>3. DOMAIN barrier' = DOMAIN barrier /\ barrier' \in [DOMAIN barrier -> BarrierRecord]
    BY <2>1, <2>2 DEF BarrierRecord
  <2> QED
    BY <2>3, <1>3 DEF TypeOK, Arrive, BarrierRecord
<1>4. CASE Leave(p)
  <2>1. \/ barrier' = [b \in DOMAIN barrier \ {current[p]} |-> barrier[b]]
        \/ barrier' = [barrier EXCEPT ![current[p]].left = @ \cup {p}]
    BY <1>4 DEF Leave
  <2>2. barrier \in [DOMAIN barrier -> BarrierRecord]
    BY DEF TypeOK, BarrierRecord
  <2>3. /\ DOMAIN barrier' \subseteq DOMAIN barrier
        /\ barrier' \in [DOMAIN barrier' -> BarrierRecord]
    BY <2>1, <2>2 DEF BarrierRecord
  <2>4. current' \in [Partition -> Messages \cup {NoMessage}]
    BY <1>4 DEF TypeOK, Leave
  <2> QED
    BY <2>3, <2>4, <1>4 DEF TypeOK, Leave, BarrierRecord
<1> QED
  BY <1>1, <1>2, <1>3, <1>4 DEF Worker

(* Every step keeps the state well typed.                                    *)
LEMMA TypeStep == TypeOK /\ [Next]_vars => TypeOK'
<1> SUFFICES ASSUME TypeOK, [Next]_vars PROVE TypeOK'
  OBVIOUS
<1>1. CASE Stop
  BY <1>1 DEF Stop, TypeOK
<1>2. CASE UNCHANGED vars
  BY <1>2 DEF TypeOK, vars
<1>3. CASE Terminated
  BY <1>2, <1>3 DEF Terminated
<1> QED
  BY <1>1, <1>2, <1>3, TypeDispatch, TypeChange, TypePush, TypeWorker DEF Next

(* The variables of the scheduler and of the workers keep their types.       *)
THEOREM TypeCorrect == Safety => []TypeOK
BY TypeInit, TypeStep, PTL DEF Safety

-----------------------------------------------------------------------------
(* How each step changes what is outstanding.                                *)

(* What is outstanding at a partition, one place at a time.                  *)
LEMMA OutstandingMembers ==
    ASSUME TypeOK, NEW p \in Partition
    PROVE  \A m : m \in Outstanding(p) <=>
              \/ m = current[p] /\ m # NoMessage
              \/ \E i \in DOMAIN queue[p] : m = queue[p][i]
              \/ \E i \in DOMAIN pushes : pushes[i].to = p /\ m = pushes[i].msg
BY DEF Outstanding

(* Only messages are outstanding.                                            *)
LEMMA OutstandingType ==
    ASSUME TypeOK, NEW p \in Partition
    PROVE  Outstanding(p) \subseteq Messages
<1>1. \A i \in DOMAIN queue[p] : queue[p][i] \in Messages
  <2>1. queue[p] \in Seq(Messages)
    BY DEF TypeOK
  <2> QED
    BY <2>1, ElementOfSeq, LenProperties
<1>2. \A i \in DOMAIN pushes : pushes[i].msg \in Messages
  <2>1. pushes \in Seq([to : Partition, msg : Messages])
    BY DEF TypeOK
  <2>2. \A i \in DOMAIN pushes : pushes[i] \in [to : Partition, msg : Messages]
    BY <2>1, ElementOfSeq, LenProperties
  <2> QED
    BY <2>2
<1>3. current[p] # NoMessage => current[p] \in Messages
  BY DEF TypeOK
<1> QED
  BY <1>1, <1>2, <1>3 DEF Outstanding

(* A push moves a message from the scheduling thread to a queue.             *)
LEMMA PushSequences ==
    ASSUME TypeOK, Push
    PROVE  LET push == pushes[1]
           IN  /\ push.to \in Partition /\ push.msg \in Messages
               /\ Len(pushes) \in Nat \ {0} /\ DOMAIN pushes = 1 .. Len(pushes)
               /\ DOMAIN pushes' = 1 .. Len(pushes) - 1
               /\ \A i \in DOMAIN pushes' : pushes'[i] = pushes[i + 1]
               /\ \A p \in Partition \ {push.to} : queue'[p] = queue[p]
               /\ Len(queue[push.to]) \in Nat
               /\ DOMAIN queue[push.to] = 1 .. Len(queue[push.to])
               /\ DOMAIN queue'[push.to] = 1 .. Len(queue[push.to]) + 1
               /\ \A i \in DOMAIN queue[push.to] :
                     queue'[push.to][i] = queue[push.to][i]
               /\ queue'[push.to][Len(queue[push.to]) + 1] = push.msg
<1> DEFINE push == pushes[1]
           Pushes == [to : Partition, msg : Messages]
<1>1. pushes \in Seq(Pushes) /\ pushes # <<>>
  BY DEF TypeOK, Push
<1>2. /\ Len(pushes) \in Nat \ {0} /\ DOMAIN pushes = 1 .. Len(pushes)
      /\ Head(pushes) = push /\ push \in Pushes
  <2> HIDE DEF Pushes
  <2>1. Len(pushes) \in Nat \ {0} /\ DOMAIN pushes = 1 .. Len(pushes)
    BY <1>1, EmptySeq, LenProperties
  <2>2. pushes[1] \in Pushes
    BY <1>1, <2>1, ElementOfSeq
  <2>3. Head(pushes) = pushes[1]
    BY <1>1
  <2> QED
    BY <2>1, <2>2, <2>3
<1>3. /\ pushes' \in Seq(Pushes) /\ Len(pushes') = Len(pushes) - 1
      /\ DOMAIN pushes' = 1 .. Len(pushes) - 1
      /\ \A i \in DOMAIN pushes' : pushes'[i] = pushes[i + 1]
  <2>1. pushes' = Tail(pushes)
    BY DEF Push
  <2>2. /\ Tail(pushes) \in Seq(Pushes) /\ Len(Tail(pushes)) = Len(pushes) - 1
        /\ \A i \in 1 .. Len(Tail(pushes)) : Tail(pushes)[i] = pushes[i + 1]
    BY <1>1, HeadTailProperties
  <2>3. DOMAIN Tail(pushes) = 1 .. Len(Tail(pushes))
    BY <2>2, LenProperties
  <2> QED
    BY <2>1, <2>2, <2>3
<1>4. push.to \in Partition /\ push.msg \in Messages
  BY <1>2
<1>5. queue' = [queue EXCEPT ![push.to] = Append(queue[push.to], push.msg)]
  BY <1>2 DEF Push
<1>6. queue[push.to] \in Seq(Messages)
  BY <1>4 DEF TypeOK
<1>7. /\ queue'[push.to] = Append(queue[push.to], push.msg)
      /\ \A p \in Partition \ {push.to} : queue'[p] = queue[p]
  BY <1>4, <1>5 DEF TypeOK
<1> HIDE DEF push
<1>8. /\ Len(queue[push.to]) \in Nat
      /\ DOMAIN queue[push.to] = 1 .. Len(queue[push.to])
  BY <1>6, LenProperties
<1>9. /\ DOMAIN queue'[push.to] = 1 .. Len(queue[push.to]) + 1
      /\ \A i \in DOMAIN queue[push.to] : queue'[push.to][i] = queue[push.to][i]
      /\ queue'[push.to][Len(queue[push.to]) + 1] = push.msg
  BY <1>4, <1>6, <1>7, <1>8, AppendProperties, LenProperties
<1> QED
  BY <1>2, <1>3, <1>4, <1>7, <1>8, <1>9 DEF push

(* A push moves a message but leaves it outstanding where it was.            *)
LEMMA OutstandingPush ==
    ASSUME TypeOK, Push, NEW p \in Partition
    PROVE  Outstanding(p)' = Outstanding(p)
<1>1. TypeOK' /\ current' = current
  BY TypePush DEF Push
<1>2. ASSUME NEW m
      PROVE  (\/ \E i \in DOMAIN queue[p] : m = queue[p][i]
              \/ \E i \in DOMAIN pushes : pushes[i].to = p /\ m = pushes[i].msg)
             <=> (\/ \E i \in DOMAIN queue'[p] : m = queue'[p][i]
                  \/ \E i \in DOMAIN pushes' : pushes'[i].to = p /\ m = pushes'[i].msg)
  <2> DEFINE push == pushes[1]
  <2>1. (\E i \in DOMAIN pushes : pushes[i].to = p /\ m = pushes[i].msg)
        <=> \/ push.to = p /\ m = push.msg
            \/ \E i \in DOMAIN pushes' : pushes'[i].to = p /\ m = pushes'[i].msg
    <3>1. ASSUME NEW i \in DOMAIN pushes
          PROVE  i = 1 \/ (i - 1 \in DOMAIN pushes' /\ pushes[i] = pushes'[i - 1])
      <4>1. i = 1 \/ i - 1 \in DOMAIN pushes'
        BY PushSequences
      <4>2. i - 1 \in DOMAIN pushes' => pushes'[i - 1] = pushes[i]
        BY PushSequences
      <4> QED
        BY <4>1, <4>2
    <3>2. ASSUME NEW i \in DOMAIN pushes'
          PROVE  i + 1 \in DOMAIN pushes /\ pushes'[i] = pushes[i + 1]
      BY PushSequences
    <3>3. 1 \in DOMAIN pushes
      BY PushSequences
    <3> QED
      BY <3>1, <3>2, <3>3
  <2>2. (\E i \in DOMAIN queue'[p] : m = queue'[p][i])
        <=> \/ push.to = p /\ m = push.msg
            \/ \E i \in DOMAIN queue[p] : m = queue[p][i]
    <3>1. CASE push.to # p
      BY <3>1, PushSequences
    <3>2. CASE push.to = p
      <4> DEFINE L == Len(queue[p])
      <4>1. /\ L \in Nat /\ DOMAIN queue[p] = 1 .. L /\ DOMAIN queue'[p] = 1 .. L + 1
            /\ \A i \in 1 .. L : queue'[p][i] = queue[p][i]
            /\ queue'[p][L + 1] = push.msg
        BY <3>2, PushSequences
      <4> HIDE DEF L, push
      <4>2. \A i \in 1 .. L + 1 : i = L + 1 \/ i \in 1 .. L
        BY <4>1
      <4>3. L + 1 \in 1 .. L + 1 /\ \A i \in 1 .. L : i \in 1 .. L + 1
        BY <4>1
      <4> QED
        BY <3>2, <4>1, <4>2, <4>3
    <3> QED
      BY <3>1, <3>2
  <2> QED
    BY <2>1, <2>2
<1> DEFINE Waiting == {queue[p][i] : i \in DOMAIN queue[p]}
                        \cup {pushes[i].msg : i \in {j \in DOMAIN pushes : pushes[j].to = p}}
<1>3. \A m : m \in Waiting <=> m \in Waiting'
  BY <1>2
<1>4. /\ Outstanding(p) = {m \in {current[p]} : m # NoMessage} \cup Waiting
      /\ Outstanding(p)' = {m \in {current'[p]} : m # NoMessage} \cup Waiting'
  BY DEF Outstanding
<1>5. Waiting = Waiting'
  BY <1>3
<1> HIDE DEF Waiting
<1> QED
  BY <1>1, <1>4, <1>5

(* A pop moves the first message of a queue to the worker.                   *)
LEMMA PopSequences ==
    ASSUME TypeOK, NEW p \in Partition, Pop(p)
    PROVE  /\ Len(queue[p]) \in Nat \ {0}
           /\ DOMAIN queue[p] = 1 .. Len(queue[p])
           /\ queue[p][1] \in Messages
           /\ current[p] = NoMessage
           /\ current'[p] = queue[p][1]
           /\ DOMAIN queue'[p] = 1 .. Len(queue[p]) - 1
           /\ \A i \in DOMAIN queue'[p] : queue'[p][i] = queue[p][i + 1]
           /\ \A q \in Partition \ {p} : queue'[q] = queue[q] /\ current'[q] = current[q]
           /\ pushes' = pushes
<1>1. queue[p] \in Seq(Messages) /\ queue[p] # <<>>
  BY DEF TypeOK, Pop
<1>2. Len(queue[p]) \in Nat \ {0} /\ DOMAIN queue[p] = 1 .. Len(queue[p])
  BY <1>1, EmptySeq, LenProperties
<1>3. queue[p][1] \in Messages
  BY <1>1, <1>2, ElementOfSeq
<1>4. Head(queue[p]) = queue[p][1]
  BY <1>1
<1>5. current'[p] = Head(queue[p]) /\ queue'[p] = Tail(queue[p])
  BY DEF TypeOK, Pop
<1>6. /\ Tail(queue[p]) \in Seq(Messages) /\ Len(Tail(queue[p])) = Len(queue[p]) - 1
      /\ \A i \in 1 .. Len(Tail(queue[p])) : Tail(queue[p])[i] = queue[p][i + 1]
  BY <1>1, HeadTailProperties
<1>7. DOMAIN Tail(queue[p]) = 1 .. Len(queue[p]) - 1
  BY <1>6, LenProperties
<1>8. \A q \in Partition \ {p} : queue'[q] = queue[q] /\ current'[q] = current[q]
  BY DEF TypeOK, Pop
<1> QED
  BY <1>2, <1>3, <1>4, <1>5, <1>6, <1>7, <1>8 DEF Pop

(* A pop moves a message but leaves it outstanding where it was.             *)
LEMMA OutstandingPop ==
    ASSUME TypeOK, NEW q \in Partition, Pop(q), NEW p \in Partition
    PROVE  Outstanding(p)' = Outstanding(p)
<1> DEFINE Handled == {m \in {current[p]} : m # NoMessage}
                        \cup {queue[p][i] : i \in DOMAIN queue[p]}
           Coming == {pushes[i].msg : i \in {j \in DOMAIN pushes : pushes[j].to = p}}
<1>1. Outstanding(p) = Handled \cup Coming /\ Outstanding(p)' = Handled' \cup Coming'
  BY DEF Outstanding
<1>2. Coming' = Coming
  BY PopSequences
<1>3. \A m : m \in Handled <=> m \in Handled'
  <2>1. CASE p # q
    BY <2>1, PopSequences
  <2>2. CASE p = q
    <3> DEFINE L == Len(queue[p])
    <3>1. /\ L \in Nat \ {0} /\ DOMAIN queue[p] = 1 .. L /\ DOMAIN queue'[p] = 1 .. L - 1
          /\ \A i \in DOMAIN queue'[p] : queue'[p][i] = queue[p][i + 1]
          /\ current[p] = NoMessage /\ current'[p] = queue[p][1]
          /\ queue[p][1] # NoMessage
      BY <2>2, PopSequences, MessageCases
    <3> HIDE DEF L
    <3>2. ASSUME NEW i \in DOMAIN queue[p]
          PROVE  i = 1 \/ (i - 1 \in DOMAIN queue'[p] /\ queue[p][i] = queue'[p][i - 1])
      <4>1. i = 1 \/ i - 1 \in DOMAIN queue'[p]
        BY <3>1
      <4>2. i - 1 \in DOMAIN queue'[p] => queue'[p][i - 1] = queue[p][i]
        BY <3>1
      <4> QED
        BY <4>1, <4>2
    <3>3. ASSUME NEW i \in DOMAIN queue'[p]
          PROVE  i + 1 \in DOMAIN queue[p] /\ queue'[p][i] = queue[p][i + 1]
      BY <3>1
    <3>4. 1 \in DOMAIN queue[p]
      BY <3>1
    <3>5. \A m : m \in Handled <=> \E i \in DOMAIN queue[p] : m = queue[p][i]
      BY <3>1
    <3>6. \A m : m \in Handled' <=> \/ m = queue[p][1]
                                    \/ \E i \in DOMAIN queue'[p] : m = queue'[p][i]
      BY <3>1
    <3> HIDE DEF Handled
    <3> QED
      BY <3>2, <3>3, <3>4, <3>5, <3>6
  <2> QED
    BY <2>1, <2>2
<1>4. Handled = Handled'
  BY <1>3
<1> HIDE DEF Handled, Coming
<1> QED
  BY <1>1, <1>2, <1>4

(* A worker processes the outstanding message with the smallest stamp.       *)
LEMMA CurrentFirst ==
    ASSUME TypeOK, InOrder, NEW p \in Partition, current[p] # NoMessage,
           NEW m \in Outstanding(p), m # current[p]
    PROVE  Stamp(current[p]) < Stamp(m)
<1>1. CASE \E i \in DOMAIN queue[p] : m = queue[p][i]
  BY <1>1 DEF InOrder
<1>2. CASE \E i \in DOMAIN pushes : pushes[i].to = p /\ m = pushes[i].msg
  BY <1>2 DEF InOrder
<1> QED
  BY <1>1, <1>2, OutstandingMembers

(* A worker that is through with its message takes it out, and only there.   *)
Completes(p) ==
    /\ current[p] # NoMessage
    /\ current' = [current EXCEPT ![p] = NoMessage]
    /\ UNCHANGED <<queue, pushes>>

(* Completing a message removes it from its partition, and nothing else.     *)
LEMMA OutstandingCompletes ==
    ASSUME TypeOK, InOrder, NEW p \in Partition, Completes(p)
    PROVE  /\ Outstanding(p)' = Outstanding(p) \ {current[p]}
           /\ \A q \in Partition \ {p} : Outstanding(q)' = Outstanding(q)
           /\ current[p] \in Outstanding(p)
           /\ current[p] \in Messages
<1>1. current'[p] = NoMessage /\ \A q \in Partition \ {p} : current'[q] = current[q]
  BY DEF TypeOK, Completes
<1>2. \A q \in Partition \ {p} : Outstanding(q)' = Outstanding(q)
  BY <1>1 DEF Outstanding, Completes
<1>3. current[p] \in Messages /\ current[p] \in Outstanding(p)
  BY DEF TypeOK, Completes, Outstanding
<1> DEFINE Waiting == {queue[p][i] : i \in DOMAIN queue[p]}
                        \cup {pushes[i].msg : i \in {j \in DOMAIN pushes : pushes[j].to = p}}
<1>4. current[p] \notin Waiting
  <2>1. Stamp(current[p]) \in Nat
    BY <1>3, MessageCases
  <2>2. \A i \in DOMAIN queue[p] : Stamp(current[p]) < Stamp(queue[p][i])
    BY DEF InOrder, Completes
  <2>3. \A i \in DOMAIN pushes : pushes[i].to = p =>
           Stamp(current[p]) < Stamp(pushes[i].msg)
    BY DEF InOrder, Completes
  <2> QED
    BY <2>1, <2>2, <2>3
<1>5. Waiting' = Waiting
  BY DEF Completes
<1>6. Outstanding(p) = {current[p]} \cup Waiting
  BY DEF Outstanding, Completes
<1>7. Outstanding(p)' = Waiting'
  BY <1>1 DEF Outstanding
<1> HIDE DEF Waiting
<1> QED
  BY <1>2, <1>3, <1>4, <1>5, <1>6, <1>7

(* A new entry adds its pushes.                                              *)
NewPushes(p) == {pushes'[i].msg : i \in {j \in DOMAIN pushes' : pushes'[j].to = p}}

(* Dispatching an entry adds exactly its messages.                           *)
LEMMA OutstandingNew ==
    ASSUME TypeOK, pushes = <<>>, UNCHANGED <<queue, current>>, NEW p \in Partition
    PROVE  Outstanding(p)' = Outstanding(p) \cup NewPushes(p)
BY DEF Outstanding, NewPushes

(* The stamps of what is outstanding are below those of a new entry.         *)
LEMMA OldStamps ==
    ASSUME TypeOK, MessageShape, NEW p \in Partition, NEW m \in Outstanding(p)
    PROVE  /\ m \in Messages
           /\ m.entry \in Nat \ {0}
           /\ m.entry <= Len(log)
           /\ Stamp(m) \in Nat
           /\ Stamp(m) < 3 * (Len(log) + 1)
<1>1. m \in Messages
  BY OutstandingType
<1>2. m.entry \in Entries
  BY DEF MessageShape
<1>3. m.entry \in Nat \ {0} /\ m.entry <= Len(log) /\ Len(log) \in Nat
  BY <1>1, <1>2, LogLength, MessageCases DEF Entries
<1>4. Stamp(m) <= 3 * m.entry + 2 /\ Stamp(m) \in Nat
  BY <1>1, MessageCases DEF Stamp, Pre, Exec, Post
<1> QED
  BY <1>1, <1>3, <1>4

-----------------------------------------------------------------------------
(* Messages stay in order.                                                   *)

(* A push keeps the messages of each partition in order.                     *)
LEMMA InOrderPush == ASSUME TypeOK, InOrder, Push PROVE InOrder'
<1> DEFINE push == pushes[1]
           L == Len(queue[push.to])
<1> USE DEF InOrder
<1>1. /\ current' = current
      /\ push.to \in Partition
      /\ 1 \in DOMAIN pushes
      /\ \A i \in DOMAIN pushes' : /\ i + 1 \in DOMAIN pushes /\ 1 < i + 1
                                   /\ pushes'[i] = pushes[i + 1]
      /\ \A i, j \in DOMAIN pushes' : i < j => i + 1 < j + 1
      /\ \A p \in Partition \ {push.to} : queue'[p] = queue[p]
  BY PushSequences DEF Push
<1>2. /\ L \in Nat /\ DOMAIN queue[push.to] = 1 .. L
      /\ DOMAIN queue'[push.to] = 1 .. L + 1
      /\ \A i \in 1 .. L : queue'[push.to][i] = queue[push.to][i]
      /\ queue'[push.to][L + 1] = push.msg
  BY PushSequences
<1>3. \A i \in DOMAIN pushes : pushes[i].to \in Partition
  <2>1. pushes \in Seq([to : Partition, msg : Messages])
    BY DEF TypeOK
  <2>2. \A i \in DOMAIN pushes : pushes[i] \in [to : Partition, msg : Messages]
    BY <2>1, ElementOfSeq, LenProperties
  <2> QED
    BY <2>2
<1> HIDE DEF push, L
<1>4. \A i \in DOMAIN queue'[push.to] :
         \/ i \in 1 .. L /\ queue'[push.to][i] = queue[push.to][i]
         \/ i = L + 1 /\ queue'[push.to][i] = push.msg
  BY <1>2
<1>5. /\ \A i \in 1 .. L : Stamp(queue[push.to][i]) < Stamp(push.msg)
      /\ current[push.to] # NoMessage => Stamp(current[push.to]) < Stamp(push.msg)
  BY <1>1, <1>2 DEF push
<1>6. ASSUME NEW p \in Partition, NEW i \in DOMAIN queue'[p], NEW j \in DOMAIN queue'[p], i < j
      PROVE  Stamp(queue'[p][i]) < Stamp(queue'[p][j])
  <2>1. CASE p # push.to
    BY <2>1, <1>1, <1>6
  <2>2. CASE p = push.to
    <3>1. i \in 1 .. L
      BY <2>2, <1>2, <1>6
    <3>2. CASE j \in 1 .. L
      BY <2>2, <3>1, <3>2, <1>2, <1>6
    <3>3. CASE j = L + 1
      BY <2>2, <3>1, <3>3, <1>2, <1>5
    <3> QED
      BY <3>2, <3>3, <2>2, <1>4
  <2> QED
    BY <2>1, <2>2
<1>7. ASSUME NEW p \in Partition, NEW i \in DOMAIN queue'[p], current'[p] # NoMessage
      PROVE  Stamp(current'[p]) < Stamp(queue'[p][i])
  <2>1. CASE p # push.to
    BY <2>1, <1>1, <1>7
  <2>2. CASE p = push.to
    BY <2>2, <1>1, <1>2, <1>4, <1>5, <1>7
  <2> QED
    BY <2>1, <2>2
<1>8. ASSUME NEW i \in DOMAIN pushes'
      PROVE  /\ current'[pushes'[i].to] # NoMessage =>
                   Stamp(current'[pushes'[i].to]) < Stamp(pushes'[i].msg)
             /\ \A j \in DOMAIN queue'[pushes'[i].to] :
                   Stamp(queue'[pushes'[i].to][j]) < Stamp(pushes'[i].msg)
  <2> DEFINE later == pushes[i + 1]
  <2>1. pushes'[i] = later /\ i + 1 \in DOMAIN pushes /\ 1 < i + 1
    BY <1>1
  <2>2. current[later.to] # NoMessage => Stamp(current[later.to]) < Stamp(later.msg)
    BY <2>1
  <2>3. \A j \in DOMAIN queue[later.to] : Stamp(queue[later.to][j]) < Stamp(later.msg)
    BY <2>1
  <2>4. push.to = later.to => Stamp(push.msg) < Stamp(later.msg)
    BY <1>1, <2>1 DEF push
  <2>5. \A j \in DOMAIN queue'[later.to] : Stamp(queue'[later.to][j]) < Stamp(later.msg)
    <3>1. CASE later.to # push.to
      <4>1. later.to \in Partition
        BY <1>3, <2>1
      <4>2. queue'[later.to] = queue[later.to]
        BY <3>1, <4>1, <1>1
      <4> QED
        BY <4>2, <2>3
    <3>2. CASE later.to = push.to
      BY <3>2, <1>2, <1>4, <2>3, <2>4
    <3> QED
      BY <3>1, <3>2
  <2> HIDE DEF later
  <2> QED
    BY <2>1, <2>2, <2>5, <1>1
<1>9. ASSUME NEW i \in DOMAIN pushes', NEW j \in DOMAIN pushes', i < j,
             pushes'[i].to = pushes'[j].to
      PROVE  Stamp(pushes'[i].msg) < Stamp(pushes'[j].msg)
  <2>1. /\ i + 1 \in DOMAIN pushes /\ j + 1 \in DOMAIN pushes /\ i + 1 < j + 1
        /\ pushes'[i] = pushes[i + 1] /\ pushes'[j] = pushes[j + 1]
    BY <1>1, <1>9
  <2> QED
    BY <2>1, <1>9
<1> QED
  BY <1>6, <1>7, <1>8, <1>9

(* A pop keeps the messages of each partition in order.                      *)
LEMMA InOrderPop == ASSUME TypeOK, InOrder, NEW p \in Partition, Pop(p) PROVE InOrder'
<1> DEFINE L == Len(queue[p])
<1> USE DEF InOrder
<1>1. /\ L \in Nat \ {0} /\ DOMAIN queue[p] = 1 .. L
      /\ DOMAIN queue'[p] = 1 .. L - 1
      /\ \A i \in DOMAIN queue'[p] : queue'[p][i] = queue[p][i + 1]
      /\ current'[p] = queue[p][1]
  BY PopSequences
<1>2. /\ pushes' = pushes
      /\ \A q \in Partition \ {p} : queue'[q] = queue[q] /\ current'[q] = current[q]
  BY PopSequences
<1> HIDE DEF L
<1>3. /\ 1 \in DOMAIN queue[p]
      /\ \A i \in DOMAIN queue'[p] : /\ i + 1 \in DOMAIN queue[p] /\ 1 < i + 1
                                     /\ queue'[p][i] = queue[p][i + 1]
      /\ \A i, j \in DOMAIN queue'[p] : i < j => i + 1 < j + 1
  BY <1>1
<1>4. \A i \in DOMAIN pushes : pushes[i].to \in Partition
  <2>1. pushes \in Seq([to : Partition, msg : Messages])
    BY DEF TypeOK
  <2>2. \A i \in DOMAIN pushes : pushes[i] \in [to : Partition, msg : Messages]
    BY <2>1, ElementOfSeq, LenProperties
  <2> QED
    BY <2>2
<1>5. ASSUME NEW q \in Partition, NEW i \in DOMAIN queue'[q], NEW j \in DOMAIN queue'[q], i < j
      PROVE  Stamp(queue'[q][i]) < Stamp(queue'[q][j])
  <2>1. CASE q # p
    BY <2>1, <1>2, <1>5
  <2>2. CASE q = p
    <3>1. /\ i + 1 \in DOMAIN queue[p] /\ j + 1 \in DOMAIN queue[p] /\ i + 1 < j + 1
          /\ queue'[p][i] = queue[p][i + 1] /\ queue'[p][j] = queue[p][j + 1]
      BY <2>2, <1>3, <1>5
    <3> QED
      BY <2>2, <3>1
  <2> QED
    BY <2>1, <2>2
<1>6. ASSUME NEW q \in Partition, NEW i \in DOMAIN queue'[q], current'[q] # NoMessage
      PROVE  Stamp(current'[q]) < Stamp(queue'[q][i])
  <2>1. CASE q # p
    BY <2>1, <1>2, <1>6
  <2>2. CASE q = p
    <3>1. i + 1 \in DOMAIN queue[p] /\ 1 < i + 1 /\ queue'[p][i] = queue[p][i + 1]
      BY <2>2, <1>3
    <3> QED
      BY <2>2, <3>1, <1>1, <1>3
  <2> QED
    BY <2>1, <2>2
<1>7. ASSUME NEW i \in DOMAIN pushes'
      PROVE  /\ current'[pushes'[i].to] # NoMessage =>
                   Stamp(current'[pushes'[i].to]) < Stamp(pushes'[i].msg)
             /\ \A j \in DOMAIN queue'[pushes'[i].to] :
                   Stamp(queue'[pushes'[i].to][j]) < Stamp(pushes'[i].msg)
  <2> DEFINE to == pushes[i].to
  <2>1. /\ pushes'[i] = pushes[i] /\ i \in DOMAIN pushes /\ to \in Partition
        /\ \A j \in DOMAIN queue[to] : Stamp(queue[to][j]) < Stamp(pushes[i].msg)
    BY <1>2, <1>4
  <2>2. CASE to # p
    BY <2>1, <2>2, <1>2
  <2>3. CASE to = p
    <3> HIDE DEF to
    <3>1. \A j \in DOMAIN queue'[p] : Stamp(queue'[p][j]) < Stamp(pushes[i].msg)
      BY <2>1, <2>3, <1>3
    <3>2. Stamp(current'[p]) < Stamp(pushes[i].msg)
      BY <2>1, <2>3, <1>1, <1>3
    <3> QED
      BY <2>1, <2>3, <3>1, <3>2 DEF to
  <2> QED
    BY <2>2, <2>3
<1> QED
  BY <1>2, <1>5, <1>6, <1>7

(* Completing a message keeps the messages of each partition in order.       *)
LEMMA InOrderCompletes ==
    ASSUME TypeOK, InOrder, NEW p \in Partition, Completes(p) PROVE InOrder'
<1>1. current'[p] = NoMessage /\ \A q \in Partition \ {p} : current'[q] = current[q]
  BY DEF TypeOK, Completes
<1>2. \A i \in DOMAIN pushes : pushes[i].to \in Partition
  <2>1. pushes \in Seq([to : Partition, msg : Messages])
    BY DEF TypeOK
  <2>2. \A i \in DOMAIN pushes : pushes[i] \in [to : Partition, msg : Messages]
    BY <2>1, ElementOfSeq, LenProperties
  <2> QED
    BY <2>2
<1> QED
  BY <1>1, <1>2 DEF InOrder, Completes

(* The pushes of a new entry go behind everything that is outstanding.       *)
LEMMA InOrderNew ==
    ASSUME TypeOK, TypeOK', InOrder, MessageShape, pushes = <<>>,
           UNCHANGED <<queue, current>>,
           \A i \in DOMAIN pushes' : Stamp(pushes'[i].msg) >= 3 * (Len(log) + 1),
           \A i, j \in DOMAIN pushes' : (i < j /\ pushes'[i].to = pushes'[j].to)
               => Stamp(pushes'[i].msg) < Stamp(pushes'[j].msg)
    PROVE  InOrder'
<1>1. \A i \in DOMAIN pushes' : /\ pushes'[i].to \in Partition
                                /\ Stamp(pushes'[i].msg) \in Nat
  <2>1. pushes' \in Seq([to : Partition, msg : Messages])
    BY DEF TypeOK
  <2>2. \A i \in DOMAIN pushes' : pushes'[i] \in [to : Partition, msg : Messages]
    BY <2>1, ElementOfSeq, LenProperties
  <2> QED
    BY <2>2, MessageCases
<1>2. Len(log) \in Nat
  BY LogLength
<1>3. ASSUME NEW p \in Partition, NEW m \in Outstanding(p), NEW i \in DOMAIN pushes'
      PROVE  Stamp(m) < Stamp(pushes'[i].msg)
  BY <1>1, <1>2, OldStamps
<1>4. \A p \in Partition : /\ current[p] # NoMessage => current[p] \in Outstanding(p)
                           /\ \A j \in DOMAIN queue[p] : queue[p][j] \in Outstanding(p)
  BY OutstandingMembers
<1> QED
  BY <1>1, <1>3, <1>4 DEF InOrder

-----------------------------------------------------------------------------
(* A new entry of the log.                                                   *)

(* Appending an entry to the log leaves the earlier ones as they are.        *)
LEMMA AppendedLog ==
    ASSUME TypeOK, NEW e \in Entry, log' = Append(log, e)
    PROVE  /\ Len(log) \in Nat
           /\ Entries' = Entries \cup {Len(log) + 1}
           /\ Len(log) + 1 \notin Entries
           /\ Len(log) + 1 \in Nat \ {0}
           /\ \A i \in Entries : i \in Nat \ {0} /\ i < Len(log) + 1
           /\ log'[Len(log) + 1] = e
           /\ \A i \in Entries : log'[i] = log[i]
<1>1. log \in Seq(Entry) /\ Len(log) \in Nat
  BY LogLength DEF TypeOK
<1>2. Len(log') = Len(log) + 1
  BY <1>1, AppendProperties
<1>3. /\ log'[Len(log) + 1] = e
      /\ \A i \in 1 .. Len(log) : log'[i] = log[i]
  BY <1>1, AppendProperties
<1> QED
  BY <1>1, <1>2, <1>3 DEF Entries

(* What Dispatch and ChangePartitionScheme have in common: they append one   *)
(* entry, prepare its pushes and allocate its barriers.                      *)
NewEntry(n, e) ==
    LET barriers == BarriersOf(n)'
    IN  /\ n = Len(log) + 1
        /\ Len(log) < MaxEntries
        /\ e \in Entry
        /\ log' = Append(log, e)
        /\ pushes = <<>>
        /\ UNCHANGED <<queue, current, executed>>
        /\ e.home \in e.parts
        /\ e.type = "SYNC" => e.parts = Partition /\ e.keys = {}
        /\ Cardinality(e.parts) <= 1 => e.parts = {e.home}
        /\ \A p \in Partition : \A m \in NewPushes(p) :
              /\ m \in Messages
              /\ m.entry = n
              /\ p \in e.parts
              /\ m.phase = Exec => e.type # "SYNC" /\ p = e.home
              /\ m.phase # Exec => m \in barriers
        /\ \A p \in e.parts : barriers \subseteq NewPushes(p)
        /\ e.type # "SYNC" => Message(n, Exec) \in NewPushes(e.home)
        /\ DOMAIN barrier' = DOMAIN barrier \cup barriers
        /\ \A b \in DOMAIN barrier \ barriers : barrier'[b] = barrier[b]
        /\ \A b \in barriers : barrier'[b] = NewBarrier(Cardinality(e.parts))

(* The barriers of an entry do not depend on later entries.                  *)
LEMMA BarriersOfKept ==
    ASSUME TypeOK, NEW e \in Entry, log' = Append(log, e)
    PROVE  \A i \in Entries : /\ IsRequest(i)' <=> IsRequest(i)
                              /\ BarriersOf(i)' = BarriersOf(i)
BY AppendedLog DEF IsRequest, BarriersOf

(* A barrier names its entry.                                                *)
LEMMA BarriersOfShape ==
    ASSUME NEW n, NEW b \in BarriersOf(n)
    PROVE  b.entry = n /\ b.phase # Exec
BY DEF BarriersOf, Message, Pre, Exec, Post

(* A new entry keeps LogShape.                                               *)
LEMMA NewEntryLogShape ==
    ASSUME TypeOK, LogShape, NEW n, NEW e, NewEntry(n, e)
    PROVE  LogShape'
<1>1. /\ n = Len(log) + 1 /\ e \in Entry /\ log' = Append(log, e)
      /\ Len(log) < MaxEntries
      /\ e.home \in e.parts
      /\ e.type = "SYNC" => e.parts = Partition /\ e.keys = {}
      /\ Cardinality(e.parts) <= 1 => e.parts = {e.home}
  BY DEF NewEntry
<1>2. Entries' = Entries \cup {n} /\ log'[n] = e /\ \A i \in Entries : log'[i] = log[i]
  BY <1>1, AppendedLog
<1>3. Len(log') <= MaxEntries
  <2>1. log \in Seq(Entry) /\ Len(log) \in Nat
    BY LogLength DEF TypeOK
  <2>2. Len(log') = Len(log) + 1
    BY <1>1, <2>1, AppendProperties
  <2> QED
    BY <2>1, <2>2, <1>1, BoundAssumption
<1> QED
  BY ZenonT(30), <1>1, <1>2, <1>3 DEF LogShape, IsRequest

(* A new entry keeps MessageShape.                                           *)
LEMMA NewEntryMessageShape ==
    ASSUME TypeOK, MessageShape, NEW n, NEW e, NewEntry(n, e)
    PROVE  MessageShape'
<1>1. n = Len(log) + 1 /\ e \in Entry /\ log' = Append(log, e)
  BY DEF NewEntry
<1>2. Entries' = Entries \cup {n} /\ log'[n] = e /\ \A i \in Entries : log'[i] = log[i]
  BY <1>1, AppendedLog
<1>3. ASSUME NEW p \in Partition, NEW m \in Outstanding(p)
      PROVE  /\ m.entry \in Entries'
             /\ p \in log'[m.entry].parts
             /\ m.phase = Exec => IsRequest(m.entry)' /\ p = log'[m.entry].home
             /\ m.phase # Exec => m \in BarriersOf(m.entry)'
  BY <1>1, <1>2, BarriersOfKept DEF MessageShape
<1>4. ASSUME NEW p \in Partition, NEW m \in NewPushes(p)
      PROVE  /\ m.entry \in Entries'
             /\ p \in log'[m.entry].parts
             /\ m.phase = Exec => IsRequest(m.entry)' /\ p = log'[m.entry].home
             /\ m.phase # Exec => m \in BarriersOf(m.entry)'
  BY <1>2 DEF NewEntry, IsRequest
<1>5. \A p \in Partition : Outstanding(p)' = Outstanding(p) \cup NewPushes(p)
  BY OutstandingNew DEF NewEntry
<1> QED
  BY <1>3, <1>4, <1>5 DEF MessageShape

(* A new entry keeps RequestProgress: its request is outstanding.            *)
LEMMA NewEntryRequestProgress ==
    ASSUME TypeOK, LogShape, RequestProgress, MessageShape, NEW n, NEW e, NewEntry(n, e)
    PROVE  RequestProgress'
<1>1. n = Len(log) + 1 /\ e \in Entry /\ log' = Append(log, e) /\ executed' = executed
      /\ e.home \in Partition
  BY DEF NewEntry, Entry
<1>2. /\ Entries' = Entries \cup {n} /\ log'[n] = e
      /\ n \in Nat \ {0}
      /\ \A i \in Entries : log'[i] = log[i] /\ i \in Nat \ {0} /\ i < n
  BY <1>1, AppendedLog
<1>3. \A p \in Partition : Outstanding(p)' = Outstanding(p) \cup NewPushes(p)
  BY OutstandingNew DEF NewEntry
<1>4. executed' \subseteq Entries'
  BY <1>1, <1>2 DEF RequestProgress
<1>5. ASSUME NEW i \in Entries', IsRequest(i)'
      PROVE  i \in executed' \/ Message(i, Exec) \in Outstanding(log[i].home)'
  <2>1. CASE i \in Entries
    <3>1. IsRequest(i) /\ log[i].home \in Partition
      BY <2>1, <1>1, <1>2, <1>5, LogEntry DEF IsRequest, Entry
    <3> QED
      BY <3>1, <2>1, <1>1, <1>2, <1>3 DEF RequestProgress
  <2>2. CASE i = n
    <3>1. e.type # "SYNC" /\ log'[i].home = e.home
      BY <2>2, <1>2, <1>5 DEF IsRequest
    <3>2. Message(n, Exec) \in NewPushes(e.home)
      BY <3>1 DEF NewEntry
    <3> QED
      BY <2>2, <3>1, <3>2, <1>1, <1>3
  <2> QED
    BY <2>1, <2>2, <1>2
<1>6. ASSUME NEW i \in executed', NEW m \in Outstanding(log[i].home)'
      PROVE  Stamp(m) > Stamp(Message(i, Exec))
  <2> DEFINE h == log[i].home
  <2>1. i \in executed /\ i \in Entries /\ log'[i] = log[i] /\ h \in Partition
    BY <1>1, <1>2, LogEntry DEF RequestProgress, Entry
  <2>2. m \in Outstanding(h) \cup NewPushes(h)
    BY <2>1, <1>3
  <2>3. CASE m \in Outstanding(h)
    BY <2>1, <2>3 DEF RequestProgress
  <2>4. CASE m \in NewPushes(h)
    <3>1. m \in Messages /\ m.entry = n
      BY <2>1, <2>4 DEF NewEntry
    <3>2. Stamp(m) >= 3 * n
      BY <3>1, <1>2, MessageCases DEF Stamp, Pre, Exec, Post
    <3>3. i \in Nat \ {0} /\ i < n /\ Stamp(Message(i, Exec)) = 3 * i + 1
      BY <2>1, <1>2, MessageFields
    <3>4. Stamp(m) \in Nat /\ n \in Nat
      BY <3>1, <1>2, MessageCases
    <3> QED
      BY <3>2, <3>3, <3>4
  <2> QED
    BY <2>2, <2>3, <2>4
<1> QED
  BY <1>4, <1>5, <1>6 DEF RequestProgress

(* A new entry keeps BarrierShape: its barriers are fresh.                   *)
LEMMA NewEntryBarrierShape ==
    ASSUME TypeOK, LogShape, MessageShape, BarrierShape, NEW n, NEW e, NewEntry(n, e)
    PROVE  BarrierShape'
<1> DEFINE barriers == BarriersOf(n)'
<1>1. /\ n = Len(log) + 1 /\ e \in Entry /\ log' = Append(log, e)
      /\ e.parts \subseteq Partition /\ current' = current
  BY DEF NewEntry, Entry
<1>2. /\ Entries' = Entries \cup {n} /\ log'[n] = e /\ n \notin Entries
      /\ \A i \in Entries : log'[i] = log[i] /\ BarriersOf(i)' = BarriersOf(i)
  BY <1>1, AppendedLog, BarriersOfKept
<1>3. \A p \in Partition : Outstanding(p)' = Outstanding(p) \cup NewPushes(p)
  BY OutstandingNew DEF NewEntry
<1>4. /\ DOMAIN barrier' = DOMAIN barrier \cup barriers
      /\ \A b \in DOMAIN barrier \ barriers : barrier'[b] = barrier[b]
      /\ \A b \in barriers : barrier'[b] = NewBarrier(Cardinality(e.parts))
      /\ \A p \in e.parts : barriers \subseteq NewPushes(p)
      /\ \A p \in Partition : \A m \in NewPushes(p) :
            m.entry = n /\ m \in Messages /\ (m.phase # Exec => m \in barriers)
  BY DEF NewEntry
<1>5. \A b \in barriers : b.entry = n
  BY BarriersOfShape, <1>2 DEF BarriersOf, Message
<1>6. \A b \in DOMAIN barrier : b.entry \in Entries /\ b \notin barriers
  BY <1>2, <1>5 DEF BarrierShape
<1> HIDE DEF barriers
<1>7. ASSUME NEW p \in Partition, NEW m \in Outstanding(p)', m.phase # Exec
      PROVE  m \in DOMAIN barrier'
  BY <1>3, <1>4, <1>7 DEF BarrierShape
<1>8. ASSUME NEW b \in DOMAIN barrier
      PROVE  /\ b.entry \in Entries'
             /\ b \in BarriersOf(b.entry)'
             /\ barrier'[b].count = Cardinality(log'[b.entry].parts)
             /\ barrier'[b].left \subseteq barrier'[b].arrived
             /\ barrier'[b].arrived \subseteq log'[b.entry].parts
             /\ \A p \in log'[b.entry].parts \ barrier'[b].left : b \in Outstanding(p)'
             /\ \A p \in barrier'[b].arrived \ barrier'[b].left : current'[p] = b
             /\ \A p \in barrier'[b].left : \A m \in Outstanding(p)' : Stamp(m) > Stamp(b)
  <2>1. /\ b.entry \in Entries /\ barrier'[b] = barrier[b]
        /\ log'[b.entry] = log[b.entry]
        /\ BarriersOf(b.entry)' = BarriersOf(b.entry)
        /\ log[b.entry].parts \subseteq Partition
    BY <1>2, <1>4, <1>6, LogEntry
  <2>2. b \in Messages /\ Len(log) \in Nat /\ b.entry \in Nat /\ b.entry <= Len(log)
    BY <2>1, LogLength, MessageCases DEF TypeOK, Entries
  <2>3. Stamp(b) < 3 * n
    BY <2>2, <1>1, MessageCases DEF Stamp, Pre, Exec, Post
  <2>4. barrier[b].left \subseteq Partition
    BY <2>1 DEF BarrierShape
  <2>5. ASSUME NEW p \in barrier[b].left, NEW m \in Outstanding(p)'
        PROVE  Stamp(m) > Stamp(b)
    <3>1. m \in Outstanding(p) \/ m \in NewPushes(p)
      BY <1>3, <2>4
    <3>2. CASE m \in Outstanding(p)
      BY <3>2 DEF BarrierShape
    <3>3. CASE m \in NewPushes(p)
      <4>1. m \in Messages /\ m.entry = n
        BY <3>3, <1>4, <2>4
      <4>2. Stamp(m) >= 3 * n /\ Stamp(m) \in Nat /\ n \in Nat
        <5>1. n \in Nat
          BY <1>1, LogLength
        <5>2. m.entry \in Nat /\ m.phase \in {Pre, Exec, Post}
          BY <4>1, MessageCases
        <5> QED
          BY <4>1, <5>1, <5>2 DEF Stamp, Pre, Exec, Post
      <4>3. Stamp(b) \in Nat
        BY <2>2, MessageCases
      <4> QED
        BY <4>2, <4>3, <2>3
    <3> QED
      BY <3>1, <3>2, <3>3
  <2>6. \A p \in log[b.entry].parts \ barrier[b].left : b \in Outstanding(p)'
    BY <1>3, <2>1 DEF BarrierShape
  <2> QED
    BY <1>1, <1>2, <2>1, <2>5, <2>6 DEF BarrierShape
<1>9. ASSUME NEW b \in barriers
      PROVE  /\ b.entry \in Entries'
             /\ b \in BarriersOf(b.entry)'
             /\ barrier'[b].count = Cardinality(log'[b.entry].parts)
             /\ barrier'[b].left \subseteq barrier'[b].arrived
             /\ barrier'[b].arrived \subseteq log'[b.entry].parts
             /\ \A p \in log'[b.entry].parts \ barrier'[b].left : b \in Outstanding(p)'
             /\ \A p \in barrier'[b].arrived \ barrier'[b].left : current'[p] = b
             /\ \A p \in barrier'[b].left : \A m \in Outstanding(p)' : Stamp(m) > Stamp(b)
  <2>1. b.entry = n /\ n \in Entries' /\ log'[n] = e /\ b \in BarriersOf(n)'
    BY <1>2, <1>5 DEF barriers
  <2>2. /\ barrier'[b].count = Cardinality(e.parts)
        /\ barrier'[b].left = {} /\ barrier'[b].arrived = {}
    BY <1>4 DEF NewBarrier
  <2>3. \A p \in e.parts : b \in Outstanding(p)'
    BY <1>1, <1>3, <1>4
  <2> QED
    BY <2>1, <2>2, <2>3
<1> QED
  BY <1>4, <1>7, <1>8, <1>9 DEF BarrierShape

(* A new entry keeps BarrierHolds: its barriers are outstanding everywhere.  *)
LEMMA NewEntryBarrierHolds ==
    ASSUME TypeOK, LogShape, MessageShape, BarrierHolds, NEW n, NEW e, NewEntry(n, e)
    PROVE  BarrierHolds'
<1> DEFINE barriers == BarriersOf(n)'
<1>1. /\ n = Len(log) + 1 /\ e \in Entry /\ log' = Append(log, e)
      /\ e.parts \subseteq Partition
  BY DEF NewEntry, Entry
<1>2. /\ Entries' = Entries \cup {n} /\ log'[n] = e /\ n \in Nat \ {0}
      /\ \A i \in Entries : log'[i] = log[i] /\ BarriersOf(i)' = BarriersOf(i)
      /\ \A i \in Entries : i \in Nat \ {0} /\ i < n
  BY <1>1, AppendedLog, BarriersOfKept
<1>3. \A p \in Partition : Outstanding(p)' = Outstanding(p) \cup NewPushes(p)
  BY OutstandingNew DEF NewEntry
<1>4. /\ \A p \in e.parts : barriers \subseteq NewPushes(p)
      /\ \A p \in Partition : \A m \in NewPushes(p) : m.entry = n /\ m \in Messages
  BY DEF NewEntry
<1>5. ASSUME NEW i \in Entries', NEW b \in BarriersOf(i)', NEW p \in log'[i].parts,
             NEW q \in log'[i].parts, b \notin Outstanding(p)', NEW m \in Outstanding(q)'
      PROVE  Stamp(m) >= Stamp(b)
  <2>1. CASE i = n
    <3>1. b \in Outstanding(p)'
      BY <2>1, <1>1, <1>2, <1>3, <1>4
    <3> QED
      BY <3>1, <1>5
  <2>2. CASE i \in Entries
    <3>1. /\ b \in BarriersOf(i) /\ log[i].parts \subseteq Partition
          /\ p \in log[i].parts /\ q \in log[i].parts
      BY <2>2, <1>2, LogEntry
    <3>2. b \notin Outstanding(p) /\ m \in Outstanding(q) \cup NewPushes(q)
      BY <3>1, <1>3, <1>5
    <3>3. CASE m \in Outstanding(q)
      BY <3>1, <3>2, <3>3, <2>2 DEF BarrierHolds
    <3>4. CASE m \in NewPushes(q)
      <4>1. m \in Messages /\ m.entry = n
        BY <3>1, <3>4, <1>4
      <4>2. Stamp(m) >= 3 * n /\ Stamp(m) \in Nat
        BY <4>1, <1>2, MessageCases DEF Stamp, Pre, Exec, Post
      <4>3. Stamp(b) <= 3 * i + 2 /\ Stamp(b) \in Nat /\ i \in Nat /\ i < n
        <5>1. i \in Nat \ {0} /\ i < n
          BY <2>2, <1>2
        <5>2. b \in {Message(i, Pre), Message(i, Post)}
          BY <3>1 DEF BarriersOf
        <5>3. /\ Stamp(Message(i, Pre)) = 3 * i
              /\ Stamp(Message(i, Post)) = 3 * i + 2
          BY <5>1, MessageFields
        <5>4. Stamp(b) = 3 * i \/ Stamp(b) = 3 * i + 2
          BY <5>2, <5>3
        <5> QED
          BY <5>1, <5>4
      <4> QED
        BY <4>2, <4>3, <1>2
    <3> QED
      BY <3>2, <3>3, <3>4
  <2> QED
    BY <2>1, <2>2, <1>2
<1> QED
  BY <1>5 DEF BarrierHolds

(* Dispatching a request appends an entry for it.                            *)
LEMMA DispatchIsNewEntry ==
    ASSUME TypeOK, NEW r \in Requests, Dispatch(r)
    PROVE  \E e : /\ NewEntry(Len(log) + 1, e)
                  /\ e.type # "SYNC"
                  /\ e.keys = KeysOf(r)
                  /\ e.parts = InvolvedPartitions(KeysOf(r))
<1> DEFINE keys == KeysOf(r)
           parts == InvolvedPartitions(keys)
<1>1. keys \in SUBSET Keys /\ keys # {} /\ r.type \in {"READ", "WRITE", "SCAN"}
  BY RequestKeys
<1>2. parts \in SUBSET Partition /\ parts # {}
  <2> HIDE DEF keys
  <2> QED
    BY <1>1, InvolvedType
<1>3. PICK n : n = Len(log) + 1
  OBVIOUS
<1>4. n \in Nat \ {0}
  BY <1>3, LogLength
<1>5. PICK order \in Orders(parts) :
         /\ pushes' = RequestPushes(n, order)
         /\ log' = Append(log, [type |-> r.type, keys |-> keys,
                                parts |-> parts, home |-> order[1]])
  BY <1>3 DEF Dispatch
<1> DEFINE e == [type |-> r.type, keys |-> keys, parts |-> parts, home |-> order[1]]
<1>6. order[1] \in parts
  BY <1>2, OrderProperties
<1>7. /\ e \in Entry /\ e.type = r.type /\ e.keys = keys
      /\ e.parts = parts /\ e.home = order[1] /\ e.type # "SYNC"
  BY <1>1, <1>2, <1>6 DEF Entry
<1>8. barrier' = IF Cardinality(parts) > 1
                 THEN WithBarriers({Message(n, Pre), Message(n, Post)}, Cardinality(parts))
                 ELSE barrier
  BY <1>3 DEF Dispatch
<1>9. pushes = <<>> /\ UNCHANGED <<queue, current, executed>> /\ Len(log) < MaxEntries
  BY DEF Dispatch, SchedulerIdle
<1> HIDE DEF keys, parts, e
<1>10. log' = Append(log, e)
  BY <1>5 DEF e
<1>11. log'[n] = e
  BY <1>3, <1>7, <1>10, AppendedLog
<1>12. BarriersOf(n)' = IF Cardinality(parts) > 1
                        THEN {Message(n, Pre), Message(n, Post)} ELSE {}
  BY <1>7, <1>11 DEF BarriersOf, IsRequest
<1>13. Cardinality(e.parts) <= 1 => e.parts = {e.home}
  BY <1>2, <1>6, <1>7, SinglePartition
<1>14. /\ pushes' \in Seq(Pushed)
       /\ \A i \in DOMAIN pushes' :
             /\ pushes'[i].to \in parts
             /\ \/ /\ pushes'[i].msg = Message(n, Exec)
                   /\ pushes'[i].to = order[1]
                \/ /\ Cardinality(parts) > 1
                   /\ pushes'[i].msg \in {Message(n, Pre), Message(n, Post)}
       /\ \E i \in DOMAIN pushes' :
             pushes'[i] = [to |-> order[1], msg |-> Message(n, Exec)]
       /\ Cardinality(parts) > 1 =>
             \A p \in parts : \A m \in {Message(n, Pre), Message(n, Post)} :
                \E i \in DOMAIN pushes' : pushes'[i] = [to |-> p, msg |-> m]
  <2> DEFINE ps == RequestPushes(n, order)
  <2>1. /\ ps \in Seq(Pushed)
        /\ \A i \in DOMAIN ps :
              /\ ps[i].to \in parts
              /\ \/ /\ ps[i].msg = Message(n, Exec)
                    /\ ps[i].to = order[1]
                 \/ /\ Cardinality(parts) > 1
                    /\ ps[i].msg \in {Message(n, Pre), Message(n, Post)}
        /\ \E i \in DOMAIN ps : ps[i] = [to |-> order[1], msg |-> Message(n, Exec)]
        /\ Cardinality(parts) > 1 =>
              \A p \in parts : \A m \in {Message(n, Pre), Message(n, Post)} :
                 \E i \in DOMAIN ps : ps[i] = [to |-> p, msg |-> m]
    BY <1>2, <1>4, RequestPushesProperties
  <2> HIDE DEF ps
  <2>2. pushes' = ps
    BY <1>5 DEF ps
  <2> QED
    BY <2>1, <2>2
<1>15. ASSUME NEW p \in Partition, NEW m \in NewPushes(p)
       PROVE  /\ m \in Messages
              /\ m.entry = n
              /\ p \in e.parts
              /\ m.phase = Exec => e.type # "SYNC" /\ p = e.home
              /\ m.phase # Exec => m \in BarriersOf(n)'
  <2>1. PICK i \in DOMAIN pushes' : pushes'[i].to = p /\ m = pushes'[i].msg
    BY DEF NewPushes
  <2>2. m \in {Message(n, Pre), Message(n, Exec), Message(n, Post)} /\ p \in parts
    BY <2>1, <1>14
  <2>3. m \in Messages /\ m.entry = n
    BY <2>2, <1>4, MessageFields, MessagePhase
  <2>4. CASE m = Message(n, Exec) /\ p = order[1]
    <3>1. m.phase = Exec
      BY <2>4 DEF Message
    <3> QED
      BY <2>2, <2>3, <2>4, <3>1, <1>7
  <2>5. CASE Cardinality(parts) > 1 /\ m \in {Message(n, Pre), Message(n, Post)}
    <3>1. m.phase # Exec
      BY <2>5 DEF Message, Pre, Exec, Post
    <3> QED
      BY <2>2, <2>3, <2>5, <3>1, <1>7, <1>12
  <2> QED
    BY <2>1, <2>4, <2>5, <1>14
<1>16. \A p \in e.parts : BarriersOf(n)' \subseteq NewPushes(p)
  <2>1. ASSUME Cardinality(parts) > 1, NEW p \in parts,
               NEW m \in {Message(n, Pre), Message(n, Post)}
        PROVE  m \in NewPushes(p)
    <3>1. PICK i \in DOMAIN pushes' : pushes'[i] = [to |-> p, msg |-> m]
      BY <2>1, <1>14
    <3>2. pushes'[i].to = p /\ pushes'[i].msg = m
      BY <3>1
    <3> QED
      BY <3>2 DEF NewPushes
  <2> QED
    BY <2>1, <1>7, <1>12
<1>17. Message(n, Exec) \in NewPushes(e.home)
  <2>1. PICK i \in DOMAIN pushes' :
           pushes'[i] = [to |-> order[1], msg |-> Message(n, Exec)]
    BY <1>14
  <2>2. pushes'[i].to = order[1] /\ pushes'[i].msg = Message(n, Exec)
    BY <2>1
  <2> QED
    BY <2>2, <1>7 DEF NewPushes
<1>18. /\ DOMAIN barrier' = DOMAIN barrier \cup BarriersOf(n)'
       /\ \A b \in DOMAIN barrier \ BarriersOf(n)' : barrier'[b] = barrier[b]
       /\ \A b \in BarriersOf(n)' : barrier'[b] = NewBarrier(Cardinality(e.parts))
  BY <1>7, <1>8, <1>12 DEF WithBarriers
<1>19. NewEntry(n, e)
  BY <1>3, <1>6, <1>7, <1>9, <1>10, <1>13, <1>15, <1>16, <1>17, <1>18 DEF NewEntry
<1> QED
  BY <1>3, <1>7, <1>19 DEF keys, parts

(* Changing the map appends an entry for the sync-all.                       *)
LEMMA ChangeIsNewEntry ==
    ASSUME TypeOK, ChangePartitionScheme
    PROVE  \E e : NewEntry(Len(log) + 1, e) /\ e.type = "SYNC"
<1>1. PICK n : n = Len(log) + 1
  OBVIOUS
<1>2. n \in Nat \ {0}
  BY <1>1, LogLength
<1>3. /\ Partition \in SUBSET Partition /\ Partition # {} /\ NPartitions \in Nat
      /\ Cardinality(Partition) = NPartitions
  BY PartitionFinite, PartitionsAssumption
<1>4. PICK order \in Orders(Partition) :
         /\ pushes' = SyncPushes(n, Pre, order)
         /\ log' = Append(log, [type |-> "SYNC", keys |-> {},
                                parts |-> Partition, home |-> order[1]])
  BY <1>1 DEF ChangePartitionScheme, SyncAllParties
<1> DEFINE e == [type |-> "SYNC", keys |-> {}, parts |-> Partition, home |-> order[1]]
<1>5. /\ order[1] \in Partition /\ Len(order) \in Nat
      /\ \A p \in Partition : \E i \in 1 .. Len(order) : order[i] = p
      /\ \A i \in 1 .. Len(order) : order[i] \in Partition
  BY <1>3, OrderProperties, ElementOfSeq
<1>6. /\ e \in Entry /\ e.type = "SYNC" /\ e.keys = {}
      /\ e.parts = Partition /\ e.home = order[1]
  BY <1>5 DEF Entry
<1>7. barrier' = WithBarriers({Message(n, Pre)}, Cardinality(Partition))
  BY <1>1 DEF ChangePartitionScheme, SyncAllParties
<1>8. pushes = <<>> /\ UNCHANGED <<queue, current, executed>> /\ Len(log) < MaxEntries
  BY DEF ChangePartitionScheme, SchedulerIdle
<1> HIDE DEF e
<1>9. log' = Append(log, e)
  BY <1>4 DEF e
<1>10. log'[n] = e
  BY <1>1, <1>6, <1>9, AppendedLog
<1>11. BarriersOf(n)' = {Message(n, Pre)}
  BY <1>6, <1>10 DEF BarriersOf, IsRequest
<1>12. Cardinality(e.parts) <= 1 => e.parts = {e.home}
  BY <1>3, <1>5, <1>6, SinglePartition
<1>13. /\ Len(pushes') = Len(order) /\ DOMAIN pushes' = 1 .. Len(order)
       /\ \A i \in DOMAIN pushes' :
             pushes'[i] = [to |-> order[i], msg |-> Message(n, Pre)]
  <2>1. /\ pushes' \in Seq(Pushed) /\ Len(pushes') = Len(order)
        /\ \A i \in 1 .. Len(pushes') :
              pushes'[i] = [to |-> order[i], msg |-> Message(n, Pre)]
    BY <1>2, <1>3, <1>4, SyncPushesProperties
  <2>2. DOMAIN pushes' = 1 .. Len(pushes')
    BY <2>1, LenProperties
  <2> QED
    BY <2>1, <2>2
<1>14. Message(n, Pre) \in Messages /\ Message(n, Pre).entry = n
       /\ Message(n, Pre).phase # Exec
  BY <1>2, MessageFields, MessagePhase
<1>15. \A i \in DOMAIN pushes' :
          pushes'[i].to = order[i] /\ pushes'[i].msg = Message(n, Pre)
  <2>1. ASSUME NEW i \in DOMAIN pushes'
        PROVE  pushes'[i].to = order[i] /\ pushes'[i].msg = Message(n, Pre)
    <3>1. pushes'[i] = [to |-> order[i], msg |-> Message(n, Pre)]
      BY <1>13
    <3> QED
      BY <3>1
  <2> QED
    BY <2>1
<1>16. \A p \in Partition : NewPushes(p) = {Message(n, Pre)}
  BY <1>5, <1>13, <1>15 DEF NewPushes
<1>17. /\ DOMAIN barrier' = DOMAIN barrier \cup BarriersOf(n)'
       /\ \A b \in DOMAIN barrier \ BarriersOf(n)' : barrier'[b] = barrier[b]
       /\ \A b \in BarriersOf(n)' : barrier'[b] = NewBarrier(Cardinality(e.parts))
  BY <1>6, <1>7, <1>11 DEF WithBarriers
<1>18. NewEntry(n, e)
  BY <1>1, <1>5, <1>6, <1>8, <1>9, <1>11, <1>12, <1>14, <1>16, <1>17 DEF NewEntry
<1> QED
  BY <1>1, <1>6, <1>18

(* The map and the conflicts when a request is dispatched: a key that was    *)
(* mapped stays where it was, a new one goes to a partition of the request.  *)
LEMMA DispatchMap ==
    ASSUME TypeOK, MapAgrees, ConflictsMeet, NEW r \in Requests, Dispatch(r)
    PROVE  MapAgrees' /\ ConflictsMeet'
<1> DEFINE keys == KeysOf(r)
<1>1. keys \in SUBSET Keys /\ keys # {}
  BY RequestKeys
<1>2. PICK n : n = Len(log) + 1
  OBVIOUS
<1>3. PICK e : /\ NewEntry(n, e) /\ e.type # "SYNC" /\ e.keys = keys
               /\ e.parts = InvolvedPartitions(keys)
  BY <1>2, DispatchIsNewEntry
<1>4. e \in Entry /\ log' = Append(log, e)
  BY <1>3 DEF NewEntry
<1>5. /\ Entries' = Entries \cup {n} /\ log'[n] = e
      /\ \A i \in Entries : log'[i] = log[i] /\ i \in Nat /\ i < n
      /\ n \in Nat /\ n \notin Entries
  BY <1>2, <1>4, AppendedLog
<1>6. /\ \A i \in Entries : IsRequest(i)' <=> IsRequest(i)
      /\ IsRequest(n)'
  BY <1>3, <1>4, <1>5, BarriersOfKept DEF IsRequest
<1> HIDE DEF keys
<1>7. /\ DOMAIN dataToPartition' = DOMAIN dataToPartition \cup keys
      /\ \A k \in DOMAIN dataToPartition : dataToPartition'[k] = dataToPartition[k]
      /\ \A k \in keys : dataToPartition'[k] \in e.parts
  <2>1. dataToPartition' = MapWith(keys)
    BY DEF Dispatch, keys
  <2>2. \A k \in keys : MapWith(keys)[k] \in InvolvedPartitions(keys)
    BY DEF InvolvedPartitions
  <2> QED
    BY <2>1, <2>2, <1>3 DEF MapWith, Mapped
<1>8. MapAgrees'
  <2>1. ASSUME NEW i \in Entries, NEW k \in log[i].keys
        PROVE  \/ \E j \in Entries' : i < j /\ ~IsRequest(j)'
               \/ k \in DOMAIN dataToPartition' /\ dataToPartition'[k] \in log[i].parts
    BY <1>5, <1>6, <1>7 DEF MapAgrees, Mapped
  <2>2. ASSUME NEW k \in e.keys
        PROVE  k \in DOMAIN dataToPartition' /\ dataToPartition'[k] \in e.parts
    BY <1>3, <1>7
  <2> QED
    BY <2>1, <2>2, <1>5 DEF MapAgrees, Mapped
<1>9. ASSUME NEW i \in Entries', NEW j \in Entries', i < j, Conflict(i, j)'
      PROVE  \/ \E m \in Entries' : i < m /\ m < j /\ ~IsRequest(m)'
             \/ log'[i].parts \cap log'[j].parts # {}
  <2>1. i \in Entries
    BY <1>5, <1>9
  <2>2. CASE j \in Entries
    <3>1. Conflict(i, j)
      BY <2>1, <2>2, <1>5, <1>9 DEF Conflict
    <3>2. \/ \E m \in Entries : i < m /\ m < j /\ ~IsRequest(m)
          \/ log[i].parts \cap log[j].parts # {}
      BY <2>1, <2>2, <3>1, <1>9 DEF ConflictsMeet
    <3> QED
      BY <3>2, <2>1, <2>2, <1>5, <1>6
  <2>3. CASE j = n
    <3>1. PICK k \in log[i].keys : k \in e.keys
      BY <2>1, <2>3, <1>5, <1>9 DEF Conflict
    <3>2. CASE \E m \in Entries : i < m /\ ~IsRequest(m)
      BY <3>2, <2>3, <1>5, <1>6
    <3>3. CASE Mapped(k) /\ dataToPartition[k] \in log[i].parts
      <4>1. dataToPartition[k] \in e.parts
        BY <3>1, <3>3, <1>3, <1>7 DEF Mapped
      <4> QED
        BY <3>3, <4>1, <2>1, <2>3, <1>5
    <3> QED
      BY <3>2, <3>3, <2>1 DEF MapAgrees
  <2> QED
    BY <2>2, <2>3, <1>5
<1> QED
  BY <1>8, <1>9 DEF ConflictsMeet

(* When the map is replaced, the sync-all stands between every earlier       *)
(* request and every later one.                                              *)
LEMMA ChangeMap ==
    ASSUME TypeOK, LogShape, MapAgrees, ConflictsMeet, ChangePartitionScheme
    PROVE  MapAgrees' /\ ConflictsMeet'
<1>1. PICK n : n = Len(log) + 1
  OBVIOUS
<1>2. PICK e : NewEntry(n, e) /\ e.type = "SYNC"
  BY <1>1, ChangeIsNewEntry
<1>3. e \in Entry /\ log' = Append(log, e) /\ e.keys = {}
  BY <1>2 DEF NewEntry
<1>4. /\ Entries' = Entries \cup {n} /\ log'[n] = e
      /\ \A i \in Entries : log'[i] = log[i] /\ i \in Nat /\ i < n
      /\ n \in Nat /\ n \notin Entries
  BY <1>1, <1>3, AppendedLog
<1>5. /\ \A i \in Entries : IsRequest(i)' <=> IsRequest(i)
      /\ ~IsRequest(n)'
  BY <1>2, <1>3, <1>4, BarriersOfKept DEF IsRequest
<1>6. MapAgrees'
  BY <1>3, <1>4, <1>5 DEF MapAgrees
<1>7. ASSUME NEW i \in Entries', NEW j \in Entries', i < j, Conflict(i, j)'
      PROVE  \/ \E m \in Entries' : i < m /\ m < j /\ ~IsRequest(m)'
             \/ log'[i].parts \cap log'[j].parts # {}
  <2>1. i \in Entries /\ j \in Entries
    BY <1>3, <1>4, <1>7 DEF Conflict
  <2>2. Conflict(i, j)
    BY <2>1, <1>4, <1>7 DEF Conflict
  <2>3. \/ \E m \in Entries : i < m /\ m < j /\ ~IsRequest(m)
        \/ log[i].parts \cap log[j].parts # {}
    BY <2>1, <2>2, <1>7 DEF ConflictsMeet
  <2> QED
    BY <2>1, <2>3, <1>4, <1>5
<1> QED
  BY <1>6, <1>7 DEF ConflictsMeet

(* Both steps of the scheduling thread that append to the log keep the       *)
(* invariant.                                                                *)
LEMMA InvNewEntry ==
    ASSUME DispatchInv, TypeOK', NEW n, NEW e, NewEntry(n, e),
           \A i, j \in DOMAIN pushes' : (i < j /\ pushes'[i].to = pushes'[j].to)
               => Stamp(pushes'[i].msg) < Stamp(pushes'[j].msg),
           MapAgrees', ConflictsMeet'
    PROVE  DispatchInv'
<1> USE DEF DispatchInv
<1>1. pushes = <<>> /\ UNCHANGED <<queue, current>> /\ n = Len(log) + 1
  BY DEF NewEntry
<1>2. ASSUME NEW i \in DOMAIN pushes'
      PROVE  Stamp(pushes'[i].msg) >= 3 * (Len(log) + 1)
  <2> DEFINE m == pushes'[i].msg
  <2>1. pushes'[i].to \in Partition
    <3>1. pushes' \in Seq([to : Partition, msg : Messages])
      BY DEF TypeOK
    <3>2. pushes'[i] \in [to : Partition, msg : Messages]
      BY <3>1, ElementOfSeq, LenProperties
    <3> QED
      BY <3>2
  <2>2. m \in NewPushes(pushes'[i].to)
    BY DEF NewPushes
  <2> HIDE DEF m
  <2>3. m \in Messages /\ m.entry = Len(log) + 1
    BY <2>1, <2>2, <1>1 DEF NewEntry
  <2>4. Stamp(m) >= 3 * (Len(log) + 1)
    BY <2>3, MessageCases DEF Stamp, Pre, Exec, Post
  <2> QED
    BY <2>4 DEF m
<1>3. InOrder'
  BY <1>1, <1>2, InOrderNew
<1> QED
  BY <1>3, NewEntryLogShape, NewEntryMessageShape, NewEntryRequestProgress,
     NewEntryBarrierShape, NewEntryBarrierHolds

(* Dispatching a request keeps the invariant.                                *)
LEMMA InvDispatch == ASSUME DispatchInv, NEW r \in Requests, Dispatch(r)
                     PROVE  DispatchInv'
<1> USE DEF DispatchInv
<1>1. TypeOK'
  BY TypeDispatch
<1>2. MapAgrees' /\ ConflictsMeet'
  BY DispatchMap
<1>3. \E e : NewEntry(Len(log) + 1, e)
  BY DispatchIsNewEntry
<1>4. \A i, j \in DOMAIN pushes' : (i < j /\ pushes'[i].to = pushes'[j].to)
         => Stamp(pushes'[i].msg) < Stamp(pushes'[j].msg)
  <2> DEFINE keys == KeysOf(r)
             parts == InvolvedPartitions(keys)
             n == Len(log) + 1
  <2>1. keys \in SUBSET Keys /\ keys # {} /\ n \in Nat \ {0}
    BY RequestKeys, LogLength
  <2>2. parts \in SUBSET Partition /\ parts # {} /\ n \in Nat \ {0}
    <3> HIDE DEF keys
    <3>1. parts \subseteq Partition /\ parts # {}
      BY <2>1, InvolvedType
    <3> QED
      BY <2>1, <3>1
  <2>3. PICK order \in Orders(parts) : pushes' = RequestPushes(n, order)
    BY DEF Dispatch
  <2> DEFINE ps == RequestPushes(n, order)
  <2>4. \A i, j \in DOMAIN ps : (i < j /\ ps[i].to = ps[j].to)
           => Stamp(ps[i].msg) < Stamp(ps[j].msg)
    BY <2>2, RequestPushesProperties
  <2> HIDE DEF ps
  <2>5. pushes' = ps
    BY <2>3 DEF ps
  <2> QED
    BY <2>4, <2>5
<1> QED
  BY <1>1, <1>2, <1>3, <1>4, InvNewEntry

(* Installing a new map keeps the invariant.                                 *)
LEMMA InvChange == ASSUME DispatchInv, ChangePartitionScheme PROVE DispatchInv'
<1> USE DEF DispatchInv
<1>1. TypeOK'
  BY TypeChange
<1>2. MapAgrees' /\ ConflictsMeet'
  BY ChangeMap
<1>3. \E e : NewEntry(Len(log) + 1, e)
  BY ChangeIsNewEntry
<1>4. \A i, j \in DOMAIN pushes' : (i < j /\ pushes'[i].to = pushes'[j].to)
         => Stamp(pushes'[i].msg) < Stamp(pushes'[j].msg)
  <2> DEFINE n == Len(log) + 1
  <2>1. Partition \in SUBSET Partition /\ Partition # {} /\ n \in Nat \ {0}
    BY PartitionFinite, LogLength
  <2>2. PICK order \in Orders(Partition) : pushes' = SyncPushes(n, Pre, order)
    BY DEF ChangePartitionScheme, SyncAllParties
  <2> DEFINE ps == SyncPushes(n, Pre, order)
  <2>3. /\ ps \in Seq(Pushed) /\ Len(ps) = Len(order)
        /\ \A i \in 1 .. Len(ps) : ps[i] = [to |-> order[i], msg |-> Message(n, Pre)]
    BY <2>1, SyncPushesProperties
  <2>4. \A i, j \in 1 .. Len(order) : order[i] = order[j] => i = j
    BY <2>1, OrderProperties
  <2>5. DOMAIN ps = 1 .. Len(order) /\ Len(order) \in Nat
    BY <2>3, LenProperties
  <2> HIDE DEF ps
  <2>6. \A i \in DOMAIN ps : ps[i].to = order[i]
    <3>1. ASSUME NEW i \in DOMAIN ps PROVE ps[i].to = order[i]
      <4>1. ps[i] = [to |-> order[i], msg |-> Message(n, Pre)]
        BY <2>3, <2>5
      <4> QED
        BY <4>1
    <3> QED
      BY <3>1
  <2>7. ASSUME NEW i \in DOMAIN ps, NEW j \in DOMAIN ps, i < j PROVE ps[i].to # ps[j].to
    BY <2>4, <2>5, <2>6, <2>7
  <2>8. pushes' = ps
    BY <2>2 DEF ps
  <2> QED
    BY <2>7, <2>8
<1> QED
  BY <1>1, <1>2, <1>3, <1>4, InvNewEntry

-----------------------------------------------------------------------------
(* The workers.                                                              *)

(* Pushing and popping move messages without completing any.                 *)
LEMMA InvSilent ==
    ASSUME DispatchInv, TypeOK', InOrder',
           \A p \in Partition : Outstanding(p)' = Outstanding(p),
           \A p \in Partition : current[p] # NoMessage => current'[p] = current[p],
           UNCHANGED <<dataToPartition, log, barrier, executed>>
    PROVE  DispatchInv'
<1> USE DEF DispatchInv
<1>1. /\ Entries' = Entries
      /\ \A i \in Entries : IsRequest(i)' = IsRequest(i) /\ BarriersOf(i)' = BarriersOf(i)
  BY DEF Entries, IsRequest, BarriersOf
<1>2. \A i \in Entries : log[i].parts \subseteq Partition /\ log[i].home \in log[i].parts
  BY LogEntry DEF LogShape
<1>3. LogShape' /\ MapAgrees' /\ ConflictsMeet'
  BY <1>1 DEF LogShape, MapAgrees, ConflictsMeet, Conflict, Mapped
<1>4. MessageShape'
  BY <1>1 DEF MessageShape
<1>5. RequestProgress'
  BY <1>1, <1>2 DEF RequestProgress
<1>6. BarrierShape'
  <2>1. \A b \in DOMAIN barrier : b \in Messages /\ b # NoMessage
    BY MessageCases DEF TypeOK
  <2>2. \A b \in DOMAIN barrier : /\ b.entry \in Entries
                                  /\ barrier[b].arrived \subseteq Partition
    BY <1>2 DEF BarrierShape
  <2> QED
    BY <1>1, <1>2, <2>1, <2>2 DEF BarrierShape
<1>7. BarrierHolds'
  BY <1>1, <1>2 DEF BarrierHolds
<1> QED
  BY <1>3, <1>4, <1>5, <1>6, <1>7

(* A push keeps the invariant.                                               *)
LEMMA InvPush == ASSUME DispatchInv, Push PROVE DispatchInv'
<1> USE DEF DispatchInv
<1>1. TypeOK' /\ InOrder'
  BY TypePush, InOrderPush
<1>2. \A p \in Partition : Outstanding(p)' = Outstanding(p)
  BY OutstandingPush
<1> QED
  BY <1>1, <1>2, InvSilent DEF Push

(* A pop keeps the invariant.                                                *)
LEMMA InvPop == ASSUME DispatchInv, NEW p \in Partition, Pop(p) PROVE DispatchInv'
<1> USE DEF DispatchInv
<1>1. TypeOK'
  BY TypeWorker DEF Worker
<1>2. InOrder'
  BY InOrderPop
<1>3. \A q \in Partition : Outstanding(q)' = Outstanding(q)
  BY OutstandingPop
<1>4. \A q \in Partition : current[q] # NoMessage => current'[q] = current[q]
  BY PopSequences
<1> QED
  BY <1>1, <1>2, <1>3, <1>4, InvSilent DEF Pop

(* Executing a request keeps the invariant.                                  *)
LEMMA InvFinish == ASSUME DispatchInv, NEW p \in Partition, Finish(p) PROVE DispatchInv'
<1> DEFINE m == current[p]
<1> USE DEF DispatchInv
<1>1. /\ Completes(p)
      /\ UNCHANGED <<dataToPartition, log, barrier>>
      /\ executed' = executed \cup {m.entry}
      /\ m.phase = Exec
  BY DEF Finish, Completes, IsSync
<1>2. /\ Outstanding(p)' = Outstanding(p) \ {m}
      /\ \A q \in Partition \ {p} : Outstanding(q)' = Outstanding(q)
      /\ m \in Outstanding(p) /\ m \in Messages
  BY <1>1, OutstandingCompletes
<1>3. \A q \in Partition : /\ Outstanding(q)' \subseteq Outstanding(q)
                           /\ \A x \in Outstanding(q) : x = m \/ x \in Outstanding(q)'
  BY <1>2
<1>4. /\ Entries' = Entries
      /\ \A i \in Entries : IsRequest(i)' = IsRequest(i) /\ BarriersOf(i)' = BarriersOf(i)
  BY <1>1 DEF Entries, IsRequest, BarriersOf
<1>5. \A i \in Entries : log[i].parts \subseteq Partition /\ log[i].home \in log[i].parts
  BY LogEntry DEF LogShape
<1>6. TypeOK' /\ InOrder'
  BY <1>1, TypeWorker, InOrderCompletes DEF Worker
<1>7. m.entry \in Entries /\ p = log[m.entry].home /\ m = Message(m.entry, Exec)
  BY <1>1, <1>2, MessageCases DEF MessageShape
<1>8. \A b \in Messages : b.phase # Exec => b # m
  BY <1>1
<1> HIDE DEF m
<1>9. LogShape' /\ MapAgrees' /\ ConflictsMeet'
  BY <1>1, <1>4 DEF LogShape, MapAgrees, ConflictsMeet, Conflict, Mapped
<1>10. MessageShape'
  BY <1>1, <1>3, <1>4 DEF MessageShape
<1>11. RequestProgress'
  <2>1. executed' \subseteq Entries'
    BY <1>1, <1>4, <1>7 DEF RequestProgress
  <2>2. ASSUME NEW n \in Entries, IsRequest(n)
        PROVE  n \in executed' \/ Message(n, Exec) \in Outstanding(log[n].home)'
    <3>1. CASE Message(n, Exec) = m
      <4>1. Message(n, Exec).entry = n
        BY MessagePhase
      <4> QED
        BY <3>1, <4>1, <1>1
    <3>2. CASE Message(n, Exec) # m
      BY <2>2, <3>2, <1>1, <1>3, <1>5 DEF RequestProgress
    <3> QED
      BY <3>1, <3>2
  <2>3. ASSUME NEW n \in executed', NEW x \in Outstanding(log[n].home)'
        PROVE  Stamp(x) > Stamp(Message(n, Exec))
    <3>1. CASE n \in executed
      <4>1. n \in Entries /\ log[n].home \in Partition
        BY <3>1, <1>5 DEF RequestProgress
      <4> QED
        BY <3>1, <4>1, <1>1, <1>3 DEF RequestProgress
    <3>2. CASE n = m.entry
      <4>1. x \in Outstanding(p) /\ x # m
        BY <3>2, <1>1, <1>2, <1>7
      <4>2. current[p] # NoMessage /\ x # current[p]
        BY <4>1, <1>1 DEF Completes, m
      <4>3. Stamp(m) < Stamp(x)
        BY <4>1, <4>2, CurrentFirst DEF m
      <4>4. Stamp(m) \in Nat /\ Stamp(x) \in Nat
        BY <4>1, <1>2, OutstandingType, MessageCases
      <4> QED
        BY <3>2, <4>3, <4>4, <1>7
    <3> QED
      BY <3>1, <3>2, <1>1
  <2> QED
    BY <2>1, <2>2, <2>3, <1>1, <1>4 DEF RequestProgress
<1>12. BarrierShape'
  <2>1. ASSUME NEW b \in DOMAIN barrier
        PROVE  /\ b.entry \in Entries /\ b # m
               /\ \A q \in log[b.entry].parts \ barrier[b].left : b \in Outstanding(q)'
               /\ \A q \in barrier[b].arrived \ barrier[b].left : current'[q] = b
               /\ \A q \in barrier[b].left : \A x \in Outstanding(q)' : Stamp(x) > Stamp(b)
    <3>1. b.entry \in Entries /\ b \in BarriersOf(b.entry)
      BY DEF BarrierShape
    <3>2. b # m
      BY <3>1, <1>1, BarriersOfShape
    <3>3. /\ barrier[b].left \subseteq barrier[b].arrived
          /\ barrier[b].arrived \subseteq Partition
      BY <3>1, <1>5 DEF BarrierShape
    <3>4. \A q \in log[b.entry].parts \ barrier[b].left : b \in Outstanding(q)'
      BY <3>1, <3>2, <1>3, <1>5 DEF BarrierShape
    <3>5. \A q \in barrier[b].arrived \ barrier[b].left : current'[q] = b
      <4>1. \A q \in barrier[b].arrived \ barrier[b].left : current[q] = b
        BY DEF BarrierShape
      <4>2. \A q \in Partition \ {p} : current'[q] = current[q]
        BY <1>1 DEF Completes, TypeOK
      <4> QED
        BY <3>2, <3>3, <4>1, <4>2 DEF m
    <3>6. \A q \in barrier[b].left : \A x \in Outstanding(q)' : Stamp(x) > Stamp(b)
      BY <3>3, <1>3 DEF BarrierShape
    <3> QED
      BY <3>1, <3>2, <3>4, <3>5, <3>6
  <2>2. \A q \in Partition : \A x \in Outstanding(q)' : x.phase # Exec => x \in DOMAIN barrier
    BY <1>3 DEF BarrierShape
  <2> QED
    BY <2>1, <2>2, <1>1, <1>4 DEF BarrierShape
<1>13. BarrierHolds'
  <2>1. \A n \in Entries : \A b \in BarriersOf(n) : b # m
    BY <1>1, BarriersOfShape
  <2> QED
    BY <2>1, <1>1, <1>3, <1>4, <1>5 DEF BarrierHolds
<1> QED
  BY <1>6, <1>9, <1>10, <1>11, <1>12, <1>13

(* Reaching a barrier keeps the invariant.                                   *)
LEMMA InvArrive == ASSUME DispatchInv, NEW p \in Partition, Arrive(p) PROVE DispatchInv'
<1> DEFINE m == current[p]
<1> USE DEF DispatchInv
<1>1. /\ m.phase # Exec /\ m # NoMessage
      /\ m \in DOMAIN barrier /\ p \notin barrier[m].arrived
      /\ UNCHANGED <<dataToPartition, log, pushes, queue, current, executed>>
  BY DEF Arrive, IsSync
<1>2. /\ DOMAIN barrier' = DOMAIN barrier
      /\ barrier'[m].count = barrier[m].count
      /\ barrier'[m].left = barrier[m].left
      /\ barrier'[m].arrived = barrier[m].arrived \cup {p}
      /\ \A b \in DOMAIN barrier \ {m} : barrier'[b] = barrier[b]
  <2>1. barrier' = [barrier EXCEPT ![m].arrived = @ \cup {p}]
    BY DEF Arrive
  <2>2. barrier[m] \in BarrierRecord
    BY <1>1 DEF TypeOK, BarrierRecord
  <2> QED
    BY <1>1, <2>1, <2>2 DEF BarrierRecord
<1>3. \A q \in Partition : Outstanding(q)' = Outstanding(q)
  BY <1>1 DEF Outstanding
<1>4. /\ Entries' = Entries
      /\ \A i \in Entries : IsRequest(i)' = IsRequest(i) /\ BarriersOf(i)' = BarriersOf(i)
  BY <1>1 DEF Entries, IsRequest, BarriersOf
<1>5. \A i \in Entries : log[i].parts \subseteq Partition /\ log[i].home \in log[i].parts
  BY LogEntry DEF LogShape
<1>6. TypeOK' /\ InOrder'
  BY <1>1, TypeWorker DEF Worker, InOrder
<1>7. m \in Outstanding(p) /\ m.entry \in Entries /\ p \in log[m.entry].parts
  BY <1>1, OutstandingMembers DEF MessageShape
<1> HIDE DEF m
<1>8. LogShape' /\ MapAgrees' /\ ConflictsMeet' /\ MessageShape' /\ RequestProgress'
  BY <1>1, <1>3, <1>4, <1>5 DEF LogShape, MapAgrees, ConflictsMeet, Conflict, Mapped,
     MessageShape, RequestProgress
<1>9. BarrierShape'
  <2>1. ASSUME NEW b \in DOMAIN barrier
        PROVE  /\ b.entry \in Entries
               /\ b \in BarriersOf(b.entry)
               /\ barrier'[b].count = Cardinality(log[b.entry].parts)
               /\ barrier'[b].left \subseteq barrier'[b].arrived
               /\ barrier'[b].arrived \subseteq log[b.entry].parts
               /\ \A q \in log[b.entry].parts \ barrier'[b].left : b \in Outstanding(q)
               /\ \A q \in barrier'[b].arrived \ barrier'[b].left : current[q] = b
               /\ \A q \in barrier'[b].left : \A x \in Outstanding(q) : Stamp(x) > Stamp(b)
    <3>1. CASE b # m
      BY <3>1, <1>2 DEF BarrierShape
    <3>2. CASE b = m
      BY <3>2, <1>2, <1>7 DEF BarrierShape, m
    <3> QED
      BY <3>1, <3>2
  <2>2. \A b \in DOMAIN barrier : log[b.entry].parts \subseteq Partition
    BY <2>1, <1>5
  <2>3. \A q \in Partition : \A x \in Outstanding(q)' : x.phase # Exec => x \in DOMAIN barrier'
    BY <1>2, <1>3 DEF BarrierShape
  <2>4. ASSUME NEW b \in DOMAIN barrier
        PROVE  /\ \A q \in log[b.entry].parts \ barrier'[b].left : b \in Outstanding(q)'
               /\ \A q \in barrier'[b].left : \A x \in Outstanding(q)' : Stamp(x) > Stamp(b)
    <3>1. barrier'[b].left \subseteq Partition
      BY <2>1, <2>2
    <3> QED
      BY <2>1, <2>2, <3>1, <1>3
  <2> QED
    BY <2>1, <2>3, <2>4, <1>1, <1>2, <1>4 DEF BarrierShape
<1>10. BarrierHolds'
  BY <1>1, <1>3, <1>4, <1>5 DEF BarrierHolds
<1> QED
  BY <1>6, <1>8, <1>9, <1>10

(* Leaving a barrier keeps the invariant.                                    *)
LEMMA InvLeave == ASSUME DispatchInv, NEW p \in Partition, Leave(p) PROVE DispatchInv'
<1> DEFINE m == current[p]
           parts == log[m.entry].parts
<1> USE DEF DispatchInv
<1>1. /\ Completes(p)
      /\ UNCHANGED <<dataToPartition, log, executed>>
      /\ m.phase # Exec
      /\ m \in DOMAIN barrier /\ p \in barrier[m].arrived
      /\ Cardinality(barrier[m].arrived) >= barrier[m].count
  BY DEF Leave, Completes, IsSync
<1>2. /\ Outstanding(p)' = Outstanding(p) \ {m}
      /\ \A q \in Partition \ {p} : Outstanding(q)' = Outstanding(q)
      /\ m \in Outstanding(p) /\ m \in Messages
  BY <1>1, OutstandingCompletes
<1>3. \A q \in Partition : /\ Outstanding(q)' \subseteq Outstanding(q)
                           /\ \A x \in Outstanding(q) : x = m \/ x \in Outstanding(q)'
  BY <1>2
<1>4. /\ Entries' = Entries
      /\ \A i \in Entries : IsRequest(i)' = IsRequest(i) /\ BarriersOf(i)' = BarriersOf(i)
  BY <1>1 DEF Entries, IsRequest, BarriersOf
<1>5. \A i \in Entries : log[i].parts \subseteq Partition /\ log[i].home \in log[i].parts
  BY LogEntry DEF LogShape
<1>6. TypeOK' /\ InOrder'
  BY <1>1, TypeWorker, InOrderCompletes DEF Worker
<1>7. /\ m.entry \in Entries /\ parts \subseteq Partition
      /\ barrier[m].count = Cardinality(parts)
      /\ barrier[m].arrived \subseteq parts
      /\ barrier[m].left \subseteq barrier[m].arrived
  BY <1>1, <1>5 DEF BarrierShape
<1>8. barrier[m].arrived = parts
  <2>1. IsFiniteSet(parts) /\ Cardinality(parts) \in Nat
    BY <1>7, PartsFinite
  <2>2. /\ Cardinality(barrier[m].arrived) <= Cardinality(parts)
        /\ Cardinality(parts) = Cardinality(barrier[m].arrived)
              => parts = barrier[m].arrived
        /\ Cardinality(barrier[m].arrived) \in Nat
    BY <1>7, <2>1, FS_Subset, FS_CardinalityType
  <2> QED
    BY <1>1, <1>7, <2>1, <2>2
<1>9. p \notin barrier[m].left /\ p \in parts
  <2>1. Stamp(m) \in Nat
    BY <1>2, MessageCases
  <2>2. p \in barrier[m].left => Stamp(m) > Stamp(m)
    BY <1>1, <1>2 DEF BarrierShape
  <2> QED
    BY <2>1, <2>2, <1>1, <1>8
<1>10. ASSUME NEW q \in parts, NEW x \in Outstanding(q)
       PROVE  Stamp(x) >= Stamp(m)
  <2>1. q \in Partition /\ x \in Messages
    BY <1>7, OutstandingType
  <2>2. Stamp(x) \in Nat /\ Stamp(m) \in Nat
    BY <2>1, <1>2, MessageCases
  <2>3. CASE q \in barrier[m].left
    BY <2>2, <2>3, <1>1 DEF BarrierShape
  <2>4. CASE q \notin barrier[m].left
    <3>1. current[q] = m /\ m # NoMessage
      BY <2>4, <1>1, <1>2, <1>8, MessageCases DEF BarrierShape
    <3>2. x = m \/ Stamp(m) < Stamp(x)
      BY <2>1, <3>1, CurrentFirst
    <3> QED
      BY <2>2, <3>2
  <2> QED
    BY <2>3, <2>4
<1>11. ASSUME NEW x \in Outstanding(p)'
       PROVE  Stamp(x) > Stamp(m)
  <2>1. x \in Outstanding(p) /\ x # m
    BY <1>2
  <2>2. Stamp(m) < Stamp(x)
    BY <2>1, <1>1, CurrentFirst DEF Completes
  <2>3. Stamp(x) \in Nat /\ Stamp(m) \in Nat
    BY <2>1, <1>2, OutstandingType, MessageCases
  <2> QED
    BY <2>2, <2>3
<1>12. \A q \in Partition \ {p} : current'[q] = current[q]
  BY <1>1 DEF Completes, TypeOK
<1>13. \/ /\ Cardinality(barrier[m].left) + 1 = barrier[m].count
          /\ DOMAIN barrier' = DOMAIN barrier \ {m}
          /\ \A b \in DOMAIN barrier \ {m} : barrier'[b] = barrier[b]
       \/ /\ DOMAIN barrier' = DOMAIN barrier
          /\ barrier'[m].count = barrier[m].count
          /\ barrier'[m].arrived = barrier[m].arrived
          /\ barrier'[m].left = barrier[m].left \cup {p}
          /\ \A b \in DOMAIN barrier \ {m} : barrier'[b] = barrier[b]
  <2>1. \/ /\ Cardinality(barrier[m].left) + 1 = barrier[m].count
           /\ barrier' = [b \in DOMAIN barrier \ {m} |-> barrier[b]]
        \/ barrier' = [barrier EXCEPT ![m].left = @ \cup {p}]
    BY DEF Leave
  <2>2. barrier[m] \in BarrierRecord
    BY <1>1 DEF TypeOK, BarrierRecord
  <2>3. CASE barrier' = [b \in DOMAIN barrier \ {m} |-> barrier[b]]
             /\ Cardinality(barrier[m].left) + 1 = barrier[m].count
    BY <2>3
  <2>4. CASE barrier' = [barrier EXCEPT ![m].left = @ \cup {p}]
    BY <1>1, <2>2, <2>4 DEF BarrierRecord
  <2> QED
    BY <2>1, <2>3, <2>4
<1>14. \A n : Message(n, Exec) # m
  BY <1>1, MessagePhase
<1>15. LogShape' /\ MapAgrees' /\ ConflictsMeet'
  BY <1>1, <1>4 DEF LogShape, MapAgrees, ConflictsMeet, Conflict, Mapped
<1>16. \A q \in Partition : m \in Outstanding(q) => q \in parts
  BY DEF MessageShape
<1> HIDE DEF m, parts
<1>17. MessageShape'
  BY <1>1, <1>3, <1>4 DEF MessageShape
<1>18. RequestProgress'
  <2>1. \A n \in Entries : IsRequest(n) =>
           n \in executed \/ Message(n, Exec) \in Outstanding(log[n].home)'
    BY <1>1, <1>3, <1>5, <1>14 DEF RequestProgress
  <2>2. \A n \in executed : \A x \in Outstanding(log[n].home)' :
           Stamp(x) > Stamp(Message(n, Exec))
    BY <1>1, <1>3, <1>5 DEF RequestProgress
  <2> QED
    BY <2>1, <2>2, <1>1, <1>4 DEF RequestProgress
<1>19. ASSUME NEW b \in DOMAIN barrier \ {m}
       PROVE  /\ \A q \in log[b.entry].parts \ barrier[b].left : b \in Outstanding(q)'
              /\ \A q \in barrier[b].arrived \ barrier[b].left : current'[q] = b
              /\ \A q \in barrier[b].left : \A x \in Outstanding(q)' : Stamp(x) > Stamp(b)
  <2>1. b.entry \in Entries /\ log[b.entry].parts \subseteq Partition
    BY <1>5 DEF BarrierShape
  <2>2. /\ barrier[b].left \subseteq barrier[b].arrived
        /\ barrier[b].arrived \subseteq Partition
    BY <2>1 DEF BarrierShape
  <2>3. \A q \in log[b.entry].parts \ barrier[b].left : b \in Outstanding(q)'
    BY <2>1, <1>3 DEF BarrierShape
  <2>4. \A q \in barrier[b].arrived \ barrier[b].left : current[q] = b
    BY DEF BarrierShape
  <2>5. \A q \in barrier[b].arrived \ barrier[b].left : current'[q] = b
    BY <2>2, <2>4, <1>12 DEF m
  <2>6. \A q \in barrier[b].left : \A x \in Outstanding(q)' : Stamp(x) > Stamp(b)
    BY <2>2, <1>3 DEF BarrierShape
  <2> QED
    BY <2>3, <2>5, <2>6
<1>20. BarrierShape'
  <2>1. CASE /\ Cardinality(barrier[m].left) + 1 = barrier[m].count
             /\ DOMAIN barrier' = DOMAIN barrier \ {m}
             /\ \A b \in DOMAIN barrier \ {m} : barrier'[b] = barrier[b]
    <3>1. barrier[m].left \cup {p} = parts
      <4>1. IsFiniteSet(parts) /\ Cardinality(parts) \in Nat
        BY <1>7, PartsFinite
      <4>2. IsFiniteSet(barrier[m].left)
        BY <1>7, <4>1, FS_Subset
      <4>3. Cardinality(barrier[m].left \cup {p}) = Cardinality(barrier[m].left) + 1
        BY <4>2, <1>9, FS_AddElement
      <4>4. barrier[m].left \cup {p} \in SUBSET parts
        BY <1>7, <1>9
      <4> QED
        BY <4>1, <4>3, <4>4, <2>1, <1>7, FS_Subset
    <3>2. \A q \in Partition : m \notin Outstanding(q)'
      <4>1. ASSUME NEW q \in Partition, m \in Outstanding(q)' PROVE FALSE
        <5>1. q \in parts /\ q # p
          BY <4>1, <1>2, <1>3, <1>16
        <5>2. q \in barrier[m].left /\ m \in Outstanding(q)
          BY <5>1, <3>1, <4>1, <1>3
        <5>3. Stamp(m) > Stamp(m)
          BY <5>2, <1>1 DEF BarrierShape
        <5> QED
          BY <5>3, <1>2, MessageCases
      <4> QED
        BY <4>1
    <3>3. \A q \in Partition : \A x \in Outstanding(q)' :
             x.phase # Exec => x \in DOMAIN barrier'
      BY <3>2, <2>1, <1>3 DEF BarrierShape
    <3>4. \A b \in DOMAIN barrier' : b \in DOMAIN barrier \ {m} /\ barrier'[b] = barrier[b]
      BY <2>1
    <3> QED
      BY <3>3, <3>4, <1>1, <1>4, <1>19 DEF BarrierShape
  <2>2. CASE /\ DOMAIN barrier' = DOMAIN barrier
             /\ barrier'[m].count = barrier[m].count
             /\ barrier'[m].arrived = barrier[m].arrived
             /\ barrier'[m].left = barrier[m].left \cup {p}
             /\ \A b \in DOMAIN barrier \ {m} : barrier'[b] = barrier[b]
    <3>1. \A q \in Partition : \A x \in Outstanding(q)' :
             x.phase # Exec => x \in DOMAIN barrier'
      BY <2>2, <1>3 DEF BarrierShape
    <3>2. /\ \A q \in parts \ barrier'[m].left : m \in Outstanding(q)'
          /\ \A q \in barrier'[m].arrived \ barrier'[m].left : current'[q] = m
          /\ \A q \in barrier'[m].left : \A x \in Outstanding(q)' : Stamp(x) > Stamp(m)
      <4>1. \A q \in parts \ barrier'[m].left :
               q \in Partition \ {p} /\ m \in Outstanding(q)
        BY <2>2, <1>1, <1>7 DEF BarrierShape, parts
      <4>2. \A q \in barrier'[m].arrived \ barrier'[m].left :
               q \in Partition \ {p} /\ current[q] = m
        BY <2>2, <1>1, <1>7 DEF BarrierShape
      <4>3. \A q \in barrier[m].left : \A x \in Outstanding(q)' : Stamp(x) > Stamp(m)
        <5>1. barrier[m].left \subseteq Partition
          BY <1>7
        <5> QED
          BY <5>1, <1>1, <1>3 DEF BarrierShape
      <4> QED
        BY <4>1, <4>2, <4>3, <2>2, <1>2, <1>11, <1>12
    <3>3. /\ m \in BarriersOf(m.entry)
          /\ barrier'[m].left \subseteq barrier'[m].arrived
      BY <2>2, <1>1, <1>7 DEF BarrierShape
    <3>4. ASSUME NEW b \in DOMAIN barrier'
          PROVE  /\ b.entry \in Entries
                 /\ b \in BarriersOf(b.entry)
                 /\ barrier'[b].count = Cardinality(log[b.entry].parts)
                 /\ barrier'[b].left \subseteq barrier'[b].arrived
                 /\ barrier'[b].arrived \subseteq log[b.entry].parts
                 /\ \A q \in log[b.entry].parts \ barrier'[b].left : b \in Outstanding(q)'
                 /\ \A q \in barrier'[b].arrived \ barrier'[b].left : current'[q] = b
                 /\ \A q \in barrier'[b].left : \A x \in Outstanding(q)' : Stamp(x) > Stamp(b)
      <4>1. CASE b = m
        BY <4>1, <2>2, <3>2, <3>3, <1>7 DEF parts
      <4>2. CASE b # m
        BY <4>2, <2>2, <1>19 DEF BarrierShape
      <4> QED
        BY <4>1, <4>2
    <3> QED
      BY <3>1, <3>4, <1>1, <1>4 DEF BarrierShape
  <2> QED
    BY <2>1, <2>2, <1>13
<1>21. BarrierHolds'
  <2>1. ASSUME NEW n \in Entries, NEW b \in BarriersOf(n), NEW q1 \in log[n].parts,
               NEW q2 \in log[n].parts, b \notin Outstanding(q1)',
               NEW x \in Outstanding(q2)'
        PROVE  Stamp(x) >= Stamp(b)
    <3>1. q1 \in Partition /\ q2 \in Partition /\ x \in Outstanding(q2)
      BY <1>3, <1>5
    <3>2. CASE b = m
      <4>1. n = m.entry
        BY <3>2, BarriersOfShape
      <4> QED
        BY <3>1, <3>2, <4>1, <1>10 DEF parts
    <3>3. CASE b # m
      BY <2>1, <3>1, <3>3, <1>3 DEF BarrierHolds
    <3> QED
      BY <3>2, <3>3
  <2> QED
    BY <2>1, <1>1, <1>4 DEF BarrierHolds
<1> QED
  BY <1>6, <1>15, <1>17, <1>18, <1>20, <1>21

-----------------------------------------------------------------------------
(* The invariant is inductive.                                               *)

(* The invariant holds of the populated store.                               *)
LEMMA InvInit == Init => DispatchInv
<1> SUFFICES ASSUME Init PROVE DispatchInv
  OBVIOUS
<1>1. TypeOK
  BY TypeInit
<1>2. Entries = {} /\ executed = {} /\ DOMAIN barrier = {}
  BY DEF Init, Entries
<1>3. \A p \in Partition : Outstanding(p) = {}
  BY DEF Init, Outstanding
<1>4. InOrder
  BY DEF Init, InOrder
<1>5. Len(log) <= MaxEntries
  BY BoundAssumption DEF Init
<1> QED
  BY <1>1, <1>2, <1>3, <1>4, <1>5 DEF DispatchInv, LogShape, MessageShape, RequestProgress,
     BarrierShape, BarrierHolds, MapAgrees, ConflictsMeet

(* A step that touches none of the invariant's variables keeps it.           *)
LEMMA InvUnchanged == ASSUME DispatchInv, UNCHANGED <<dataToPartition, log, pushes,
                             queue, current, barrier, executed>>, TypeOK'
                      PROVE  DispatchInv'
<1> USE DEF DispatchInv
<1>1. InOrder'
  BY DEF InOrder
<1>2. \A p \in Partition : Outstanding(p)' = Outstanding(p)
  BY DEF Outstanding
<1> QED
  BY <1>1, <1>2, InvSilent

(* Every step keeps the invariant.                                           *)
LEMMA InvNext == DispatchInv /\ [Next]_vars => DispatchInv'
<1> SUFFICES ASSUME DispatchInv, [Next]_vars PROVE DispatchInv'
  OBVIOUS
<1>1. TypeOK'
  BY TypeStep DEF DispatchInv
<1>2. CASE \E r \in Requests : Dispatch(r)
  BY <1>2, InvDispatch
<1>3. CASE ChangePartitionScheme
  BY <1>3, InvChange
<1>4. CASE Stop
  BY <1>1, <1>4, InvUnchanged DEF Stop
<1>5. CASE Push
  BY <1>5, InvPush
<1>6. CASE \E p \in Partition : Worker(p)
  BY <1>6, InvPop, InvFinish, InvArrive, InvLeave DEF Worker
<1>7. CASE Terminated
  BY <1>1, <1>7, InvUnchanged DEF Terminated, vars
<1>8. CASE UNCHANGED vars
  BY <1>1, <1>8, InvUnchanged DEF vars
<1> QED
  BY <1>2, <1>3, <1>4, <1>5, <1>6, <1>7, <1>8 DEF Next

(* The invariant that the properties below follow from holds in every state. *)
THEOREM Inductive == Safety => []DispatchInv
BY InvInit, InvNext, PTL DEF Safety

-----------------------------------------------------------------------------
(* What follows from it.                                                     *)

(* A request has started: a worker executes it or has executed it.           *)
Started(j) == j \in Running \cup executed

(* A request being executed is outstanding at its home partition.            *)
LEMMA RunningRequest ==
    ASSUME DispatchInv, NEW p \in Partition, Executing(p)
    PROVE  LET n == current[p].entry
           IN  /\ current[p] = Message(n, Exec)
               /\ current[p] \in Outstanding(p)
               /\ n \in Entries
               /\ IsRequest(n)
               /\ p = log[n].home
<1> USE DEF DispatchInv
<1>1. current[p] \in Messages /\ current[p].phase = Exec /\ current[p] # NoMessage
  BY DEF Executing, IsSync, TypeOK
<1>2. current[p] \in Outstanding(p)
  BY <1>1, OutstandingMembers
<1> QED
  BY <1>1, <1>2, MessageCases DEF MessageShape

(* Nothing older is outstanding at the home of a request that has started.   *)
LEMMA StartedBehind ==
    ASSUME DispatchInv, NEW j, Started(j)
    PROVE  /\ j \in Entries
           /\ log[j].home \in Partition
           /\ \A m \in Outstanding(log[j].home) : Stamp(m) >= 3 * j + 1
<1> USE DEF DispatchInv
<1>1. CASE j \in executed
  <2>1. j \in Entries
    BY <1>1 DEF RequestProgress
  <2>2. log[j].home \in Partition /\ j \in Nat \ {0}
    BY <2>1, LogEntry DEF LogShape
  <2>3. \A m \in Outstanding(log[j].home) : Stamp(m) > Stamp(Message(j, Exec))
    BY <1>1 DEF RequestProgress
  <2>4. \A m \in Outstanding(log[j].home) : Stamp(m) \in Nat
    BY <2>2, OutstandingType, MessageCases
  <2> QED
    BY <2>1, <2>2, <2>3, <2>4, MessageFields
<1>2. CASE j \in Running
  <2>1. PICK p \in Partition : Executing(p) /\ j = current[p].entry
    BY <1>2 DEF Running
  <2>2. /\ current[p] = Message(j, Exec) /\ current[p] # NoMessage
        /\ j \in Entries /\ p = log[j].home
    BY <2>1, RunningRequest DEF Executing
  <2>3. j \in Nat \ {0}
    BY <2>2, LogEntry
  <2>4. \A m \in Outstanding(p) : m = current[p] \/ Stamp(current[p]) < Stamp(m)
    BY <2>2, CurrentFirst
  <2>5. \A m \in Outstanding(p) : Stamp(m) \in Nat
    BY OutstandingType, MessageCases
  <2>6. Stamp(current[p]) = 3 * j + 1
    BY <2>2, <2>3, MessageFields
  <2> QED
    BY <2>2, <2>4, <2>5, <2>6, <2>3
<1> QED
  BY <1>1, <1>2 DEF Started

(* A request that has not been executed is outstanding at its home, and the  *)
(* barrier behind it at every partition it involves.                         *)
LEMMA UnexecutedAhead ==
    ASSUME DispatchInv, NEW i \in Entries, IsRequest(i), i \notin executed
    PROVE  \A p \in log[i].parts :
              \E m \in Outstanding(p) : m.entry = i /\ Stamp(m) <= 3 * i + 2
<1> USE DEF DispatchInv
<1> DEFINE h == log[i].home
<1>1. /\ i \in Nat \ {0} /\ log[i].parts \subseteq Partition /\ h \in log[i].parts
      /\ Cardinality(log[i].parts) <= 1 => log[i].parts = {h}
      /\ Cardinality(log[i].parts) \in Nat
  BY LogEntry, PartsFinite DEF LogShape
<1>2. Message(i, Exec) \in Outstanding(h)
  BY DEF RequestProgress
<1>3. /\ Stamp(Message(i, Exec)) = 3 * i + 1 /\ Message(i, Exec).entry = i
      /\ Stamp(Message(i, Post)) = 3 * i + 2 /\ Message(i, Post).entry = i
  BY <1>1, MessageFields, MessagePhase
<1> HIDE DEF h
<1>4. CASE Cardinality(log[i].parts) <= 1
  BY <1>1, <1>2, <1>3, <1>4
<1>5. CASE Cardinality(log[i].parts) > 1
  <2>1. Message(i, Post) \in BarriersOf(i)
    BY <1>5 DEF BarriersOf
  <2>2. ASSUME NEW p \in log[i].parts
        PROVE  Message(i, Post) \in Outstanding(p)
    <3>1. Message(i, Post) \notin Outstanding(p) =>
             Stamp(Message(i, Exec)) >= Stamp(Message(i, Post))
      BY <2>1, <1>1, <1>2 DEF BarrierHolds
    <3> QED
      BY <3>1, <1>1, <1>3
  <2> QED
    BY <2>2, <1>1, <1>3
<1> QED
  BY <1>1, <1>4, <1>5

(* What is behind the barrier of a sync-all starts only when everything      *)
(* ahead of it has been executed.                                            *)
LEMMA EpochLemma ==
    ASSUME DispatchInv, NEW n \in Entries, ~IsRequest(n), NEW j, Started(j), j > n,
           NEW i \in Entries, i < n, IsRequest(i)
    PROVE  i \in executed
<1> USE DEF DispatchInv
<1> SUFFICES ASSUME i \notin executed PROVE FALSE
  OBVIOUS
<1>1. i \in Nat \ {0} /\ n \in Nat \ {0} /\ j \in Nat \ {0}
  BY StartedBehind, LogEntry
<1>2. log[n].parts = Partition /\ Message(n, Pre) \in BarriersOf(n)
  BY DEF LogShape, BarriersOf
<1>3. Stamp(Message(n, Pre)) = 3 * n
  BY <1>1, MessageFields
<1>4. /\ log[j].home \in Partition
      /\ Message(n, Pre) \notin Outstanding(log[j].home)
  <2>1. /\ log[j].home \in Partition
        /\ \A m \in Outstanding(log[j].home) : Stamp(m) >= 3 * j + 1
    BY StartedBehind
  <2>2. ~(3 * n >= 3 * j + 1)
    BY <1>1
  <2> QED
    BY <2>1, <2>2, <1>3
<1>5. log[i].home \in log[i].parts /\ log[i].home \in Partition
  BY LogEntry DEF LogShape
<1>6. PICK m \in Outstanding(log[i].home) : Stamp(m) <= 3 * i + 2
  BY <1>5, UnexecutedAhead
<1>7. Stamp(m) >= 3 * n
  BY <1>2, <1>3, <1>4, <1>5 DEF BarrierHolds
<1>8. Stamp(m) \in Nat
  BY <1>5, OutstandingType, MessageCases
<1> QED
  BY <1>1, <1>6, <1>7, <1>8

(* The invariant implies EpochOrder.                                         *)
LEMMA EpochOrderHolds == DispatchInv => EpochOrder
<1> SUFFICES ASSUME DispatchInv, NEW n \in Entries, ~IsRequest(n),
                    NEW j \in Running \cup executed, j > n,
                    NEW i \in 1 .. n - 1, IsRequest(i)
             PROVE  i \in executed
  BY DEF EpochOrder
<1>1. Started(j)
  BY DEF Started
<1>2. i \in Entries /\ i < n
  BY LogLength DEF Entries, DispatchInv
<1> QED
  BY <1>1, <1>2, EpochLemma

(* The invariant implies ConflictOrder.                                      *)
LEMMA ConflictOrderHolds == DispatchInv => ConflictOrder
<1> SUFFICES ASSUME DispatchInv, NEW i \in Entries, NEW j \in Entries, i < j,
                    Conflict(i, j), j \in Running \cup executed, i \notin executed
             PROVE  FALSE
  BY DEF ConflictOrder
<1> USE DEF DispatchInv
<1>1. Started(j) /\ i \in Nat \ {0} /\ j \in Nat \ {0}
  BY LogEntry DEF Started
<1>2. IsRequest(i) /\ IsRequest(j)
  BY DEF Conflict, LogShape
<1>3. CASE \E n \in Entries : i < n /\ n < j /\ ~IsRequest(n)
  <2>1. PICK n \in Entries : i < n /\ n < j /\ ~IsRequest(n)
    BY <1>3
  <2>2. j > n
    BY <2>1, <1>1, LogEntry
  <2> QED
    BY <2>1, <2>2, <1>1, <1>2, EpochLemma
<1>4. CASE log[i].parts \cap log[j].parts # {}
  <2>1. PICK a \in log[i].parts : a \in log[j].parts
    BY <1>4
  <2>2. a \in Partition
    BY <2>1, LogEntry
  <2>3. PICK m \in Outstanding(a) : Stamp(m) <= 3 * i + 2
    BY <1>2, UnexecutedAhead
  <2>4. Stamp(m) \in Nat /\ Stamp(m) < 3 * j
    BY <2>2, <2>3, <1>1, OutstandingType, MessageCases
  <2>5. /\ log[j].home \in Partition /\ log[j].home \in log[j].parts
        /\ \A x \in Outstanding(log[j].home) : Stamp(x) >= 3 * j + 1
    BY <1>1, StartedBehind DEF LogShape
  <2>6. CASE Cardinality(log[j].parts) <= 1
    <3>1. a = log[j].home
      BY <2>1, <2>6 DEF LogShape
    <3> QED
      BY <3>1, <2>3, <2>4, <2>5, <1>1
  <2>7. CASE Cardinality(log[j].parts) > 1
    <3>1. Message(j, Pre) \in BarriersOf(j) /\ Stamp(Message(j, Pre)) = 3 * j
      BY <2>7, <1>1, <1>2, MessageFields DEF BarriersOf
    <3>2. Message(j, Pre) \notin Outstanding(log[j].home)
      BY <3>1, <2>5, <1>1
    <3>3. Stamp(m) >= 3 * j
      BY <3>1, <3>2, <2>1, <2>3, <2>5 DEF BarrierHolds
    <3> QED
      BY <3>3, <2>4, <1>1
  <2>8. Cardinality(log[j].parts) \in Nat
    BY LogEntry, PartsFinite
  <2> QED
    BY <2>6, <2>7, <2>8
<1> QED
  BY <1>3, <1>4 DEF ConflictsMeet

(* The invariant implies ScanIsolation.                                      *)
LEMMA ScanIsolationHolds == DispatchInv => ScanIsolation
<1> SUFFICES ASSUME DispatchInv, NEW p \in Partition, NEW q \in Partition,
                    Executing(p), Executing(q), p # q, q \in log[current[p].entry].parts
             PROVE  FALSE
  BY DEF ScanIsolation
<1> USE DEF DispatchInv
<1> DEFINE n == current[p].entry
           k == current[q].entry
<1>1. /\ current[p] = Message(n, Exec) /\ current[p] \in Outstanding(p)
      /\ n \in Entries /\ IsRequest(n) /\ p = log[n].home
  BY RunningRequest
<1>2. /\ current[q] = Message(k, Exec) /\ current[q] \in Outstanding(q)
      /\ k \in Entries /\ q = log[k].home /\ current[q] # NoMessage
  BY RunningRequest DEF Executing
<1> HIDE DEF n, k
<1>3. n \in Nat \ {0} /\ k \in Nat \ {0} /\ p \in log[n].parts
  BY <1>1, <1>2, LogEntry DEF LogShape
<1>4. Cardinality(log[n].parts) > 1
  <2>1. Cardinality(log[n].parts) \in Nat
    BY <1>1, LogEntry, PartsFinite
  <2>2. Cardinality(log[n].parts) <= 1 => log[n].parts = {p}
    BY <1>1 DEF LogShape
  <2> QED
    BY <2>1, <2>2 DEF n
<1>5. /\ Message(n, Pre) \in BarriersOf(n) /\ Message(n, Post) \in BarriersOf(n)
      /\ Stamp(Message(n, Pre)) = 3 * n /\ Stamp(Message(n, Post)) = 3 * n + 2
      /\ Stamp(Message(n, Exec)) = 3 * n + 1 /\ Stamp(Message(k, Exec)) = 3 * k + 1
  BY <1>1, <1>3, <1>4, MessageFields DEF BarriersOf
<1>6. Message(n, Post) \in Outstanding(q)
  <2>1. q \in log[n].parts
    BY DEF n
  <2>2. Message(n, Post) \notin Outstanding(q) =>
           Stamp(Message(n, Exec)) >= Stamp(Message(n, Post))
    BY <2>1, <1>1, <1>3, <1>5 DEF BarrierHolds
  <2> QED
    BY <2>2, <1>3, <1>5
<1>7. Message(n, Pre) \notin Outstanding(p)
  <2>1. Message(n, Pre) \in Outstanding(p) =>
           \/ Message(n, Pre) = Message(n, Exec)
           \/ Stamp(Message(n, Exec)) < Stamp(Message(n, Pre))
    BY <1>1, CurrentFirst DEF Executing
  <2> QED
    BY <2>1, <1>3, <1>5
<1>8. Stamp(Message(k, Exec)) >= 3 * n
  <2>1. q \in log[n].parts
    BY DEF n
  <2> QED
    BY <2>1, <1>1, <1>2, <1>3, <1>5, <1>7 DEF BarrierHolds
<1>9. Stamp(Message(k, Exec)) < 3 * n + 2
  <2>1. Message(n, Post) # Message(k, Exec)
    BY MessagePhase
  <2> QED
    BY <2>1, <1>2, <1>5, <1>6, CurrentFirst
<1>10. k = n
  BY <1>3, <1>5, <1>8, <1>9
<1> QED
  BY <1>1, <1>2, <1>10

(* The invariant implies BarrierAlive.                                       *)
LEMMA BarrierAliveHolds == DispatchInv => BarrierAlive
<1> SUFFICES ASSUME DispatchInv, NEW p \in Partition
             PROVE  /\ IsSync(current[p]) => current[p] \in DOMAIN barrier
                    /\ \A i \in DOMAIN queue[p] :
                          IsSync(queue[p][i]) => queue[p][i] \in DOMAIN barrier
  BY DEF BarrierAlive
<1> USE DEF DispatchInv
<1>1. IsSync(current[p]) => current[p] \in Outstanding(p)
  BY OutstandingMembers DEF IsSync
<1>2. \A i \in DOMAIN queue[p] : queue[p][i] \in Outstanding(p)
  BY OutstandingMembers
<1> QED
  BY <1>1, <1>2 DEF BarrierShape, IsSync

(* Requests on a common key are executed in the order of their submission,   *)
(* across cross-partition requests and changes of the map.                   *)
THEOREM ConflictOrderTheorem == Safety => []ConflictOrder
BY Inductive, ConflictOrderHolds, PTL

(* No worker of an involved partition executes anything while a              *)
(* cross-partition request is executed.                                      *)
THEOREM ScanIsolationTheorem == Safety => []ScanIsolation
BY Inductive, ScanIsolationHolds, PTL

(* A new map takes effect only when all that was dispatched under the old    *)
(* one has been executed.                                                    *)
THEOREM EpochOrderTheorem == Safety => []EpochOrder
BY Inductive, EpochOrderHolds, PTL

(* No worker reaches a barrier that has been freed.                          *)
THEOREM BarrierAliveTheorem == Safety => []BarrierAlive
BY Inductive, BarrierAliveHolds, PTL

-----------------------------------------------------------------------------
(* Nobody waits in a circle.                                                 *)

(* The scheduling thread makes the pushes of a request by stamp: the         *)
(* barriers ahead, the request, the barriers behind.                         *)
LEMMA RequestPushesByStamp ==
    ASSUME NEW S \in SUBSET Partition, S # {}, NEW order \in Orders(S),
           NEW n \in Nat \ {0}
    PROVE  LET ps == RequestPushes(n, order)
           IN  \A i, j \in DOMAIN ps : i < j => Stamp(ps[i].msg) <= Stamp(ps[j].msg)
<1> DEFINE ps == RequestPushes(n, order)
           L == Len(order)
<1> SUFFICES \A i, j \in DOMAIN ps : i < j => Stamp(ps[i].msg) <= Stamp(ps[j].msg)
  OBVIOUS
<1>1. /\ L \in Nat \ {0}
      /\ Stamp(Message(n, Pre)) = 3 * n
      /\ Stamp(Message(n, Exec)) = 3 * n + 1
      /\ Stamp(Message(n, Post)) = 3 * n + 2
  BY OrderProperties, MessageFields
<1>2. CASE L > 1
  <2>1. /\ ps \in Seq(Pushed) /\ Len(ps) = 2 * L + 1
        /\ \A i \in 1 .. L : ps[i] = [to |-> order[i], msg |-> Message(n, Pre)]
        /\ ps[L + 1] = [to |-> order[1], msg |-> Message(n, Exec)]
        /\ \A i \in 1 .. L :
              ps[L + 1 + i] = [to |-> order[i], msg |-> Message(n, Post)]
    BY <1>2, CrossPushes
  <2> HIDE DEF ps
  <2>2. DOMAIN ps = 1 .. 2 * L + 1
    BY <2>1, LenProperties
  <2>a. ASSUME NEW i \in 1 .. L PROVE ps[i].msg = Message(n, Pre)
    <3>1. ps[i] = [to |-> order[i], msg |-> Message(n, Pre)]
      BY <2>1
    <3> QED
      BY <3>1
  <2>3. ASSUME NEW i \in DOMAIN ps
        PROVE  Stamp(ps[i].msg) = IF i <= L THEN 3 * n
                                  ELSE IF i = L + 1 THEN 3 * n + 1 ELSE 3 * n + 2
    <3>1. CASE i <= L
      <4>1. i \in 1 .. L
        BY <3>1, <2>2, <1>1
      <4>2. ps[i].msg = Message(n, Pre)
        BY <4>1, <2>a
      <4> QED
        BY <3>1, <4>2, <1>1
    <3>2. CASE i = L + 1
      <4>1. ps[i].msg = Message(n, Exec)
        BY <3>2, <2>1
      <4> QED
        BY <3>2, <4>1, <1>1
    <3>3. CASE i > L + 1
      <4>1. i - (L + 1) \in 1 .. L /\ i = L + 1 + (i - (L + 1))
        BY <3>3, <2>2, <1>1
      <4>2. ps[i] = [to |-> order[i - (L + 1)], msg |-> Message(n, Post)]
        BY <4>1, <2>1
      <4>3. ps[i].msg = Message(n, Post)
        BY <4>2
      <4> QED
        BY <3>3, <4>1, <4>3, <1>1
    <3> QED
      BY <3>1, <3>2, <3>3, <2>2, <1>1
  <2> SUFFICES ASSUME NEW i \in DOMAIN ps, NEW j \in DOMAIN ps, i < j
               PROVE  Stamp(ps[i].msg) <= Stamp(ps[j].msg)
    BY DEF ps
  <2>4. i \in Nat /\ j \in Nat
    BY <2>2
  <2> QED
    BY <2>3, <2>4, <1>1
<1>3. CASE L = 1
  <2>1. ps = <<[to |-> order[1], msg |-> Message(n, Exec)]>>
    BY <1>3 DEF RequestPushes
  <2>2. DOMAIN ps = {1}
    BY <2>1
  <2> HIDE DEF ps
  <2>3. \A i, j \in DOMAIN ps : i < j => Stamp(ps[i].msg) <= Stamp(ps[j].msg)
    BY <2>2
  <2> QED
    BY <2>3 DEF ps
<1>4. L \in Nat /\ L # 0
  BY <1>1
<1> HIDE DEF ps, L
<1> QED
  BY <1>2, <1>3, <1>4

LEMMA PushesByStampStep ==
    ASSUME TypeOK, PushesByStamp, [Next]_vars PROVE PushesByStamp'
<1>1. CASE \E r \in Requests : Dispatch(r)
  <2>1. PICK r \in Requests : Dispatch(r)
    BY <1>1
  <2> DEFINE parts == InvolvedPartitions(KeysOf(r))
             n == Len(log) + 1
  <2>2. parts \in SUBSET Partition /\ parts # {} /\ n \in Nat \ {0}
    <3>1. KeysOf(r) \in SUBSET Keys /\ KeysOf(r) # {}
      BY RequestKeys
    <3>2. n \in Nat \ {0}
      BY LogLength
    <3> HIDE DEF n
    <3> QED
      BY <3>1, <3>2, InvolvedType
  <2>3. PICK order \in Orders(parts) : pushes' = RequestPushes(n, order)
    BY <2>1 DEF Dispatch
  <2> HIDE DEF parts, n
  <2> QED
    BY <2>2, <2>3, RequestPushesByStamp DEF PushesByStamp
<1>2. CASE ChangePartitionScheme
  <2> DEFINE n == Len(log) + 1
  <2>1. n \in Nat \ {0}
    BY LogLength
  <2>2. PICK order \in Orders(Partition) : pushes' = SyncPushes(n, Pre, order)
    BY <1>2 DEF ChangePartitionScheme, SyncAllParties
  <2> HIDE DEF n
  <2>3. /\ pushes' \in Seq(Pushed)
        /\ \A i \in 1 .. Len(pushes') :
              pushes'[i] = [to |-> order[i], msg |-> Message(n, Pre)]
    BY <2>1, <2>2, PartitionFinite, SyncPushesProperties
  <2>4. \A i \in DOMAIN pushes' : pushes'[i].msg = Message(n, Pre)
    <3>1. DOMAIN pushes' = 1 .. Len(pushes')
      BY <2>3, LenProperties
    <3> QED
      BY <3>1, <2>3
  <2>5. Stamp(Message(n, Pre)) \in Nat
    BY <2>1, MessageFields
  <2> QED
    BY <2>4, <2>5 DEF PushesByStamp
<1>3. CASE Push
  <2>1. /\ Len(pushes) \in Nat \ {0} /\ DOMAIN pushes = 1 .. Len(pushes)
        /\ DOMAIN pushes' = 1 .. Len(pushes) - 1
        /\ \A i \in DOMAIN pushes' : pushes'[i] = pushes[i + 1]
    BY <1>3, PushSequences
  <2> SUFFICES ASSUME NEW i \in DOMAIN pushes', NEW j \in DOMAIN pushes', i < j
               PROVE  Stamp(pushes'[i].msg) <= Stamp(pushes'[j].msg)
    BY DEF PushesByStamp
  <2>2. i + 1 \in DOMAIN pushes /\ j + 1 \in DOMAIN pushes /\ i + 1 < j + 1
    BY <2>1
  <2> QED
    BY <2>1, <2>2 DEF PushesByStamp
<1>4. CASE UNCHANGED pushes
  BY <1>4 DEF PushesByStamp
<1> QED
  BY <1>1, <1>2, <1>3, <1>4
     DEF Next, vars, Stop, Worker, Pop, Finish, Arrive, Leave, Terminated

(* Among messages there is one of least stamp.                               *)
LEMMA LeastStamp ==
    ASSUME NEW M \in SUBSET Messages, M # {}
    PROVE  \E m \in M : \A o \in M : Stamp(m) <= Stamp(o)
<1> DEFINE T == {Stamp(m) : m \in M}
           Before == OpToRel(<, Nat)
<1>1. T \in SUBSET Nat /\ T # {}
  BY MessageCases
<1>2. PICK x \in T : \A y \in T : ~(<<y, x>> \in Before)
  BY <1>1, NatLessThanWellFounded, WFMin
<1>3. \A y \in T : ~(y < x)
  BY <1>1, <1>2 DEF OpToRel
<1>4. PICK m \in M : x = Stamp(m)
  BY <1>1
<1> QED
  BY <1>1, <1>3, <1>4

(* Of what is outstanding, a message of least stamp is in the hands of its   *)
(* worker when all threads wait: neither a worker nor the scheduling thread  *)
(* is held up by anything older.                                             *)
LEMMA OldestInHands ==
    ASSUME DispatchInv, PushesByStamp, pushes = <<>> \/ SchedulerWaits,
           \A p \in Partition : WorkerWaits(p),
           NEW q \in Partition, NEW m \in Outstanding(q),
           \A p \in Partition : \A o \in Outstanding(p) : Stamp(m) <= Stamp(o)
    PROVE  current[q] = m /\ HeldAtBarrier(q)
<1> USE DEF DispatchInv
<1>0. /\ \A p \in Partition : \A o \in Outstanding(p) : Stamp(o) \in Nat
      /\ m # NoMessage
  BY OutstandingType, MessageCases
<1>1. CASE m = current[q] /\ m # NoMessage
  BY <1>1 DEF WorkerWaits
<1>2. ASSUME NEW i \in DOMAIN queue[q], m = queue[q][i] PROVE FALSE
  <2>1. current[q] = NoMessage
    <3> SUFFICES ASSUME current[q] # NoMessage PROVE FALSE
      OBVIOUS
    <3>1. Stamp(current[q]) < Stamp(m) /\ current[q] \in Outstanding(q)
      BY <1>2, OutstandingMembers DEF InOrder
    <3> QED
      BY <3>1, <1>0
  <2>2. queue[q] # <<>>
    BY <1>2
  <2> QED
    BY <2>1, <2>2 DEF WorkerWaits, HeldAtBarrier, IsSync
<1>3. ASSUME NEW i \in DOMAIN pushes, pushes[i].to = q, m = pushes[i].msg PROVE FALSE
  <2> DEFINE h == pushes[1].to
  <2>1. pushes # <<>> /\ pushes \in Seq(Pushed)
    BY <1>3 DEF TypeOK, Pushed
  <2>2. /\ Len(pushes) \in Nat \ {0} /\ DOMAIN pushes = 1 .. Len(pushes)
        /\ Head(pushes) = pushes[1] /\ pushes[1] \in Pushed
    <3>1. Len(pushes) \in Nat \ {0} /\ DOMAIN pushes = 1 .. Len(pushes)
      BY <2>1, EmptySeq, LenProperties
    <3>2. pushes[1] \in Pushed
      BY <2>1, <3>1, ElementOfSeq
    <3>3. Head(pushes) = pushes[1]
      BY <2>1
    <3> QED
      BY <3>1, <3>2, <3>3
  <2>3. h \in Partition /\ pushes[1].msg \in Messages
    BY <2>2 DEF Pushed
  <2>4. Capacity \in Nat \ {0} /\ ~(Len(queue[h]) < Capacity)
    BY <2>1, <2>2, CapacityAssumption DEF SchedulerWaits, HasSpace
  <2> HIDE DEF h
  <2>5. 1 \in DOMAIN queue[h]
    <3>1. queue[h] \in Seq(Messages)
      BY <2>3 DEF TypeOK
    <3>2. Len(queue[h]) \in Nat /\ DOMAIN queue[h] = 1 .. Len(queue[h])
      BY <3>1, LenProperties
    <3> QED
      BY <3>2, <2>4
  <2>6. queue[h][1] \in Outstanding(h) /\ Stamp(queue[h][1]) \in Nat
    BY <2>3, <2>5, <1>0, OutstandingMembers
  <2>7. Stamp(queue[h][1]) < Stamp(pushes[1].msg)
    <3>1. 1 \in DOMAIN pushes
      BY <2>2
    <3>2. \A j \in DOMAIN queue[pushes[1].to] :
             Stamp(queue[pushes[1].to][j]) < Stamp(pushes[1].msg)
      BY <3>1 DEF InOrder
    <3> QED
      BY <3>2, <2>5 DEF h
  <2>8. Stamp(pushes[1].msg) <= Stamp(m)
    <3>1. 1 \in DOMAIN pushes /\ (i = 1 \/ 1 < i)
      BY <2>2
    <3>2. Stamp(pushes[1].msg) \in Nat
      BY <2>3, MessageCases
    <3> QED
      BY <3>1, <3>2, <1>3 DEF PushesByStamp
  <2>9. Stamp(pushes[1].msg) \in Nat /\ Stamp(m) \in Nat /\ Stamp(m) <= Stamp(queue[h][1])
    BY <2>3, <2>6, <1>0, MessageCases
  <2> QED
    BY <2>6, <2>7, <2>8, <2>9
<1> QED
  BY <1>1, <1>2, <1>3, OutstandingMembers

(* The oldest barrier is waited for by all its partitions, so it opens.      *)
LEMMA NoCircleHolds == DispatchInv /\ PushesByStamp => NoCircleOfWaiting
<1> SUFFICES ASSUME DispatchInv, PushesByStamp, pushes = <<>> \/ SchedulerWaits,
                    \A p \in Partition : WorkerWaits(p),
                    ~(/\ pushes = <<>>
                      /\ \A p \in Partition : queue[p] = <<>> /\ current[p] = NoMessage)
             PROVE  FALSE
  BY DEF NoCircleOfWaiting
<1> USE DEF DispatchInv
<1> DEFINE M == UNION {Outstanding(p) : p \in Partition}
<1>1. M \in SUBSET Messages
  BY OutstandingType
<1>2. M # {}
  <2>1. CASE pushes # <<>>
    <3>1. pushes \in Seq(Pushed)
      BY DEF TypeOK, Pushed
    <3>2. 1 \in DOMAIN pushes /\ pushes[1] \in Pushed
      BY <2>1, <3>1, EmptySeq, LenProperties, ElementOfSeq
    <3>3. pushes[1].to \in Partition
      BY <3>2 DEF Pushed
    <3>4. pushes[1].msg \in Outstanding(pushes[1].to)
      BY <3>2, <3>3, OutstandingMembers
    <3> QED
      BY <3>3, <3>4
  <2>2. ASSUME NEW p \in Partition, queue[p] # <<>> PROVE M # {}
    <3>1. queue[p] \in Seq(Messages)
      BY DEF TypeOK
    <3>2. 1 \in DOMAIN queue[p]
      BY <2>2, <3>1, EmptySeq, LenProperties
    <3>3. queue[p][1] \in Outstanding(p)
      BY <3>2, OutstandingMembers
    <3> QED
      BY <3>3
  <2>3. ASSUME NEW p \in Partition, current[p] # NoMessage PROVE M # {}
    <3>1. current[p] \in Outstanding(p)
      BY <2>3, OutstandingMembers
    <3> QED
      BY <3>1
  <2> QED
    BY <2>1, <2>2, <2>3
<1>3. PICK m \in M : \A o \in M : Stamp(m) <= Stamp(o)
  BY <1>1, <1>2, LeastStamp
<1>4. \A p \in Partition : \A o \in Outstanding(p) : Stamp(m) <= Stamp(o)
  BY <1>3
<1>5. PICK p \in Partition : m \in Outstanding(p)
  BY <1>3
<1>6. \A q \in Partition : m \in Outstanding(q) => current[q] = m /\ HeldAtBarrier(q)
  BY <1>4, OldestInHands
<1> HIDE DEF M
<1> DEFINE b == barrier[m]
<1>7. IsSync(m) /\ m \in DOMAIN barrier /\ m \in Messages
  <2>1. m \in Messages
    BY <1>5, OutstandingType
  <2>2. IsSync(m)
    BY <1>5, <1>6 DEF HeldAtBarrier
  <2> QED
    BY <1>5, <2>1, <2>2, MessageCases DEF BarrierShape
<1>8. \A q \in Partition : m \in Outstanding(q) =>
         q \in b.arrived /\ Cardinality(b.arrived) < b.count
  BY <1>6, <1>7 DEF HeldAtBarrier
<1>9. /\ m.entry \in Entries
      /\ b.count = Cardinality(log[m.entry].parts)
      /\ b.left \subseteq b.arrived /\ b.arrived \subseteq log[m.entry].parts
      /\ \A q \in log[m.entry].parts \ b.left : m \in Outstanding(q)
  BY <1>7 DEF BarrierShape
<1>10. log[m.entry].parts \subseteq Partition
  BY <1>9, LogEntry
<1>11. b.arrived = log[m.entry].parts
  BY <1>8, <1>9, <1>10
<1>12. Cardinality(log[m.entry].parts) \in Nat
  BY <1>10, PartsFinite
<1> QED
  BY <1>5, <1>8, <1>9, <1>11, <1>12

(* Pushes, queues of any capacity and barriers never wait on one another in  *)
(* a circle: whenever something is left to do, some thread can go on.        *)
THEOREM NoCircleOfWaitingTheorem == Safety => []NoCircleOfWaiting
<1>1. Init => PushesByStamp
  BY DEF Init, PushesByStamp
<1>2. Safety => []PushesByStamp
  BY <1>1, PushesByStampStep, TypeCorrect, PTL DEF Safety
<1> QED
  BY <1>2, Inductive, NoCircleHolds, PTL

-----------------------------------------------------------------------------
(* Dispatch implements OrderedExecution.                                     *)

(* What the refinement mapping takes for issued.                             *)
LEMMA RequestsIssued ==
    /\ DOMAIN issued = {n \in Entries : IsRequest(n)}
    /\ \A i \in DOMAIN issued : issued[i] = log[i].keys
BY DEF issued

(* The initial state is one of OrderedExecution.                             *)
LEMMA PromiseInit == Init => Promise!Init
<1> SUFFICES ASSUME Init PROVE Promise!Init
  OBVIOUS
<1>1. Entries = {}
  BY DEF Init, Entries
<1>2. issued = <<>>
  <2>1. {n \in Entries : IsRequest(n)} = {}
    BY <1>1
  <2> QED
    BY <2>1 DEF issued
<1>3. Running = {} /\ executed = {}
  BY DEF Init, Running, Executing
<1> QED
  BY <1>2, <1>3 DEF Promise!Init

(* Dispatching a request issues it; Running and executed stay.               *)
LEMMA DispatchIssues ==
    ASSUME DispatchInv, NEW r \in Requests, Dispatch(r)
    PROVE  \E i \in 1 .. MaxEntries : \E keys \in SUBSET Keys : Promise!Issue(i, keys)
<1> USE DEF DispatchInv
<1>1. PICK n : n = Len(log) + 1
  OBVIOUS
<1>2. PICK e : NewEntry(n, e) /\ e.type # "SYNC"
  BY <1>1, DispatchIsNewEntry
<1>3. /\ e \in Entry /\ log' = Append(log, e) /\ e.keys \subseteq Keys
      /\ UNCHANGED <<current, executed>>
  BY <1>2 DEF NewEntry, Entry
<1>4. /\ Entries' = Entries \cup {n} /\ log'[n] = e /\ n \notin Entries
      /\ \A i \in Entries : log'[i] = log[i] /\ i < n
      /\ Len(log) \in Nat
  BY <1>1, <1>3, AppendedLog
<1>5. /\ \A i \in Entries : IsRequest(i)' <=> IsRequest(i)
      /\ IsRequest(n)'
  BY <1>2, <1>3, <1>4, BarriersOfKept DEF IsRequest
<1>6. n \in 1 .. MaxEntries
  BY <1>1, <1>4, BoundAssumption DEF Dispatch
<1>7. issued' = [j \in DOMAIN issued \cup {n} |-> IF j = n THEN e.keys ELSE issued[j]]
  <2>1. {i \in Entries' : IsRequest(i)'} = {i \in Entries : IsRequest(i)} \cup {n}
    BY <1>4, <1>5
  <2>2. issued' = [i \in {k \in Entries' : IsRequest(k)'} |-> log'[i].keys]
    BY DEF issued
  <2>3. \A i \in {k \in Entries : IsRequest(k)} : i # n /\ log'[i].keys = issued[i]
    BY <1>4, RequestsIssued
  <2>4. log'[n].keys = e.keys
    BY <1>4
  <2> QED
    BY <2>1, <2>2, <2>3, <2>4, RequestsIssued
<1>8. Running' = Running
  BY <1>3 DEF Running, Executing
<1>9. \A j \in DOMAIN issued : j < n
  BY <1>4, RequestsIssued
<1>10. Promise!Issue(n, e.keys)
  BY <1>3, <1>7, <1>8, <1>9 DEF Promise!Issue, Promise!Numbers
<1> QED
  BY <1>3, <1>6, <1>10

(* Installing a new map is invisible to OrderedExecution.                    *)
LEMMA ChangeStutters ==
    ASSUME DispatchInv, ChangePartitionScheme
    PROVE  UNCHANGED <<issued, Running, executed>>
<1> USE DEF DispatchInv
<1>1. PICK n : n = Len(log) + 1
  OBVIOUS
<1>2. PICK e : NewEntry(n, e) /\ e.type = "SYNC"
  BY <1>1, ChangeIsNewEntry
<1>3. e \in Entry /\ log' = Append(log, e) /\ UNCHANGED <<current, executed>>
  BY <1>2 DEF NewEntry
<1>4. /\ Entries' = Entries \cup {n} /\ log'[n] = e
      /\ \A i \in Entries : log'[i] = log[i]
  BY <1>1, <1>3, AppendedLog
<1>5. /\ \A i \in Entries : IsRequest(i)' <=> IsRequest(i)
      /\ ~IsRequest(n)'
  BY <1>2, <1>3, <1>4, BarriersOfKept DEF IsRequest
<1>6. {i \in Entries' : IsRequest(i)'} = {i \in Entries : IsRequest(i)}
  BY <1>4, <1>5
<1>7. issued' = [i \in {k \in Entries' : IsRequest(k)'} |-> log'[i].keys]
  BY DEF issued
<1>8. issued' = issued
  BY <1>4, <1>6, <1>7 DEF issued
<1>9. Running' = Running
  BY <1>3 DEF Running, Executing
<1> QED
  BY <1>3, <1>8, <1>9

(* Popping a request starts it, in its turn.                                 *)
LEMMA PopStarts ==
    ASSUME DispatchInv, NEW p \in Partition, Pop(p)
    PROVE  \/ \E i \in 1 .. MaxEntries : Promise!Start(i)
           \/ UNCHANGED <<issued, Running, executed>>
<1> USE DEF DispatchInv
<1> DEFINE m == queue[p][1]
<1>1. /\ m \in Messages /\ current[p] = NoMessage /\ current'[p] = m
      /\ \A q \in Partition \ {p} : current'[q] = current[q]
      /\ log' = log /\ executed' = executed
      /\ m # NoMessage
  BY PopSequences, MessageCases DEF Pop
<1>2. m \in Outstanding(p)
  BY PopSequences, OutstandingMembers
<1> HIDE DEF m
<1>3. issued' = issued
  BY <1>1 DEF issued, Entries, IsRequest
<1>4. \A q \in Partition \ {p} : Executing(q)' <=> Executing(q)
  BY <1>1 DEF Executing
<1>5. ~Executing(p)
  BY <1>1 DEF Executing
<1>6. CASE m.phase # Exec
  <2>1. ~Executing(p)'
    BY <1>1, <1>6 DEF Executing, IsSync
  <2>2. Running' = Running
    BY <1>1, <1>4, <1>5, <2>1 DEF Running
  <2> QED
    BY <2>2, <1>1, <1>3
<1>7. CASE m.phase = Exec
  <2>0. PICK i : i = m.entry
    OBVIOUS
  <2>1. Executing(p)'
    BY <1>1, <1>7 DEF Executing, IsSync
  <2>2. Running' = Running \cup {i}
    BY <1>1, <1>4, <1>5, <2>0, <2>1 DEF Running
  <2>3. i \in Entries /\ IsRequest(i) /\ p = log[i].home /\ m = Message(i, Exec)
    BY <1>1, <1>2, <1>7, <2>0, MessageCases DEF MessageShape
  <2>4. i \notin executed
    <3>1. i \in executed => Stamp(m) > Stamp(m)
      BY <2>3, <1>2 DEF RequestProgress
    <3> QED
      BY <3>1, <1>1, MessageCases
  <2>5. i \notin Running
    <3>1. ASSUME NEW q \in Partition, Executing(q), i = current[q].entry PROVE FALSE
      <4>1. q = log[i].home
        BY <3>1, RunningRequest
      <4> QED
        BY <4>1, <3>1, <2>3, <1>5
    <3> QED
      BY <3>1 DEF Running
  <2>6. ConflictOrder'
    <3> HIDE DEF DispatchInv
    <3>1. DispatchInv'
      BY InvPop
    <3>2. DispatchInv' => ConflictOrder'
      BY ConflictOrderHolds, PTL
    <3> QED
      BY <3>1, <3>2
  <2>7. \A j \in DOMAIN issued : (j < i /\ issued[j] \cap issued[i] # {}) => j \in executed
    <3>1. i \in Running' /\ i \in DOMAIN issued
      BY <2>2, <2>3, RequestsIssued
    <3>2. ASSUME NEW j \in DOMAIN issued, j < i, issued[j] \cap issued[i] # {}
          PROVE  j \in executed
      <4>1. j \in Entries' /\ i \in Entries' /\ Conflict(j, i)'
        BY <3>1, <3>2, <2>3, <1>1, RequestsIssued DEF Conflict, Entries
      <4> QED
        BY <4>1, <3>1, <3>2, <2>6, <1>1 DEF ConflictOrder
    <3> QED
      BY <3>2
  <2>8. i \in DOMAIN issued
    BY <2>3, RequestsIssued
  <2>9. Promise!Start(i)
    BY <2>2, <2>4, <2>5, <2>7, <2>8, <1>1, <1>3
    DEF Promise!Start, Promise!Numbers, Promise!Conflicting
  <2>10. i \in 1 .. MaxEntries
    BY <2>3, LogLength, BoundAssumption DEF LogShape, Entries
  <2> QED
    BY <2>9, <2>10
<1> QED
  BY <1>6, <1>7

(* Finishing a request makes it done; the other steps of a worker and the    *)
(* pushes are invisible.                                                     *)
LEMMA FinishFinishes ==
    ASSUME DispatchInv, NEW p \in Partition, Finish(p)
    PROVE  \E i \in 1 .. MaxEntries : Promise!Finish(i)
<1> USE DEF DispatchInv
<1> DEFINE i == current[p].entry
<1>1. Executing(p)
  BY DEF Finish, Executing
<1>2. i \in Entries /\ p = log[i].home
  BY <1>1, RunningRequest
<1>3. /\ current'[p] = NoMessage /\ \A q \in Partition \ {p} : current'[q] = current[q]
      /\ log' = log /\ executed' = executed \cup {i}
  BY DEF Finish, TypeOK
<1>4. ~Executing(p)' /\ \A q \in Partition \ {p} : Executing(q)' <=> Executing(q)
  BY <1>3 DEF Executing
<1>5. \A q \in Partition \ {p} : Executing(q) => current[q].entry # i
  BY <1>2, RunningRequest
<1>6. i \in Running /\ Running' = Running \ {i}
  BY <1>1, <1>3, <1>4, <1>5 DEF Running
<1>7. issued' = issued
  BY <1>3 DEF issued, Entries, IsRequest
<1>8. Promise!Finish(i)
  BY <1>3, <1>6, <1>7 DEF Promise!Finish
<1>9. i \in 1 .. MaxEntries
  BY <1>2, LogLength, BoundAssumption DEF LogShape, Entries
<1> QED
  BY <1>8, <1>9

(* Reaching and leaving barriers is invisible to OrderedExecution.           *)
LEMMA BarrierStutters ==
    ASSUME DispatchInv, NEW p \in Partition, Arrive(p) \/ Leave(p)
    PROVE  UNCHANGED <<issued, Running, executed>>
<1> USE DEF DispatchInv
<1>1. /\ log' = log /\ executed' = executed
      /\ \A q \in Partition \ {p} : current'[q] = current[q]
      /\ current'[p] = current[p] \/ current'[p] = NoMessage
      /\ IsSync(current[p])
  BY DEF Arrive, Leave, TypeOK
<1>2. ~Executing(p) /\ ~Executing(p)'
  BY <1>1 DEF Executing
<1>3. \A q \in Partition \ {p} : Executing(q)' <=> Executing(q)
  BY <1>1 DEF Executing
<1>4. Running' = Running
  BY <1>1, <1>2, <1>3 DEF Running
<1> QED
  BY <1>1, <1>4 DEF issued, Entries, IsRequest

(* Every step is a step of OrderedExecution or invisible to it.              *)
LEMMA PromiseStep ==
    ASSUME DispatchInv, [Next]_vars
    PROVE  [Promise!Next]_<<issued, Running, executed>>
<1>1. CASE \E r \in Requests : Dispatch(r)
  BY <1>1, DispatchIssues DEF Promise!Next
<1>2. CASE ChangePartitionScheme
  BY <1>2, ChangeStutters
<1>3. CASE Stop \/ Push \/ Terminated \/ UNCHANGED vars
  <2>1. UNCHANGED <<log, current, executed>>
    BY <1>3 DEF Stop, Push, Terminated, vars
  <2> QED
    BY <2>1 DEF issued, Entries, IsRequest, Running, Executing
<1>4. CASE \E p \in Partition : Worker(p)
  <2>1. PICK p \in Partition : Worker(p)
    BY <1>4
  <2>2. CASE Pop(p)
    BY <2>2, PopStarts DEF Promise!Next
  <2>3. CASE Finish(p)
    BY <2>3, FinishFinishes DEF Promise!Next
  <2>4. CASE Arrive(p) \/ Leave(p)
    BY <2>4, BarrierStutters
  <2> QED
    BY <2>1, <2>2, <2>3, <2>4 DEF Worker
<1> QED
  BY <1>1, <1>2, <1>3, <1>4 DEF Next

(* Every step of the threads is a step of OrderedExecution or invisible in   *)
(* it.                                                                       *)
THEOREM Implements == Safety => Promise!Safety
<1>1. DispatchInv /\ [Next]_vars => [Promise!Next]_Promise!vars
  BY PromiseStep DEF Promise!vars
<1> QED
  BY <1>1, PromiseInit, Inductive, PTL DEF Safety, Promise!Safety
=============================================================================
