------------------------- MODULE DispatchInduction --------------------------
(* The inductive invariant behind the safety properties of Dispatch.         *)
(*                                                                           *)
(* It speaks of the messages that are outstanding at a partition: the one    *)
(* its worker processes, those in its queue, and those the scheduling thread *)
(* has still to push there.  Every message has a stamp, and every partition  *)
(* receives and processes messages by increasing stamp.                      *)
EXTENDS Dispatch

Outstanding(p) ==
    {m \in {current[p]} : m # NoMessage}
        \cup {queue[p][i] : i \in DOMAIN queue[p]}
        \cup {pushes[i].msg : i \in {j \in DOMAIN pushes : pushes[j].to = p}}

(* The barriers dispatching the n-th entry creates.                          *)
BarriersOf(n) ==
    IF IsRequest(n)
    THEN IF Cardinality(log[n].parts) > 1 THEN {Message(n, Pre), Message(n, Post)}
                                          ELSE {}
    ELSE {Message(n, Pre)}

(* The scheduling thread pushes, the queues hold, and the workers process    *)
(* the messages of one partition by increasing stamp.                        *)
InOrder ==
    /\ \A p \in Partition : \A i, j \in DOMAIN queue[p] :
          i < j => Stamp(queue[p][i]) < Stamp(queue[p][j])
    /\ \A p \in Partition : \A i \in DOMAIN queue[p] :
          current[p] # NoMessage => Stamp(current[p]) < Stamp(queue[p][i])
    /\ \A i \in DOMAIN pushes :
          /\ current[pushes[i].to] # NoMessage =>
                Stamp(current[pushes[i].to]) < Stamp(pushes[i].msg)
          /\ \A j \in DOMAIN queue[pushes[i].to] :
                Stamp(queue[pushes[i].to][j]) < Stamp(pushes[i].msg)
    /\ \A i, j \in DOMAIN pushes :
          (i < j /\ pushes[i].to = pushes[j].to)
              => Stamp(pushes[i].msg) < Stamp(pushes[j].msg)

(* The scheduling thread is done with everything older when it pushes a      *)
(* message, whatever the partition.                                          *)
PushesByStamp ==
    \A i, j \in DOMAIN pushes : i < j => Stamp(pushes[i].msg) <= Stamp(pushes[j].msg)

(* What the log says of an entry.                                            *)
LogShape ==
    /\ Len(log) <= MaxEntries
    /\ \A n \in Entries :
          /\ log[n].home \in log[n].parts
          /\ ~IsRequest(n) => log[n].parts = Partition /\ log[n].keys = {}
          /\ Cardinality(log[n].parts) <= 1 => log[n].parts = {log[n].home}

(* An outstanding message belongs to an entry of the log, at a partition     *)
(* that entry involves; a request is outstanding only at its home.           *)
MessageShape ==
    \A p \in Partition : \A m \in Outstanding(p) :
        /\ m.entry \in Entries
        /\ p \in log[m.entry].parts
        /\ m.phase = Exec => IsRequest(m.entry) /\ p = log[m.entry].home
        /\ m.phase # Exec => m \in BarriersOf(m.entry)

(* A request is outstanding at its home until it has been executed, and what *)
(* has been executed lies behind its home partition.                         *)
RequestProgress ==
    /\ executed \subseteq Entries
    /\ \A n \in Entries : IsRequest(n) =>
          n \in executed \/ Message(n, Exec) \in Outstanding(log[n].home)
    /\ \A n \in executed : \A m \in Outstanding(log[n].home) :
          Stamp(m) > Stamp(Message(n, Exec))

(* A barrier is allocated as long as it is outstanding somewhere, and counts *)
(* exactly the partitions that have still to reach or to leave it.           *)
BarrierShape ==
    /\ \A p \in Partition : \A m \in Outstanding(p) :
          m.phase # Exec => m \in DOMAIN barrier
    /\ \A b \in DOMAIN barrier :
          /\ b.entry \in Entries
          /\ b \in BarriersOf(b.entry)
          /\ barrier[b].count = Cardinality(log[b.entry].parts)
          /\ barrier[b].left \subseteq barrier[b].arrived
          /\ barrier[b].arrived \subseteq log[b.entry].parts
          /\ \A p \in log[b.entry].parts \ barrier[b].left : b \in Outstanding(p)
          /\ \A p \in barrier[b].arrived \ barrier[b].left : current[p] = b
          /\ \A p \in barrier[b].left : \A m \in Outstanding(p) :
                Stamp(m) > Stamp(b)

(* Once one partition is past a barrier, every partition it involves has     *)
(* reached it: nothing older is outstanding there.                           *)
BarrierHolds ==
    \A n \in Entries : \A b \in BarriersOf(n) : \A p, q \in log[n].parts :
        b \notin Outstanding(p) => \A m \in Outstanding(q) : Stamp(m) >= Stamp(b)

(* Until the map is replaced, a key stays in a partition that every earlier  *)
(* request on it involves.                                                   *)
MapAgrees ==
    \A i \in Entries : \A k \in log[i].keys :
        \/ \E n \in Entries : i < n /\ ~IsRequest(n)
        \/ Mapped(k) /\ dataToPartition[k] \in log[i].parts

(* Two requests on a common key have a partition in common or a sync-all     *)
(* between them.                                                             *)
ConflictsMeet ==
    \A i, j \in Entries :
        (i < j /\ Conflict(i, j)) =>
            \/ \E n \in Entries : i < n /\ n < j /\ ~IsRequest(n)
            \/ log[i].parts \cap log[j].parts # {}

DispatchInv ==
    /\ TypeOK
    /\ InOrder
    /\ LogShape
    /\ MessageShape
    /\ RequestProgress
    /\ BarrierShape
    /\ BarrierHolds
    /\ MapAgrees
    /\ ConflictsMeet
=============================================================================
