----------------------- MODULE WorkloadGraphInduction -----------------------
(* The inductive invariant of WorkloadGraph: what the graph holds in the     *)
(* middle of a message.                                                      *)
EXTENDS WorkloadGraph

Keys == UNION {KeysOf(m) : m \in Requests}

(* The messages counted in full: while one is added, those of the window     *)
(* before it; otherwise the window.                                          *)
Base == {n \in DOMAIN log :
            IF phase = "update"
            THEN n < Len(log) /\ (TL > 0 => n >= Len(log) - TL)
            ELSE TL > 0 => n > Len(log) - TL}

(* The message added or taken out counts for the keys already added, or not  *)
(* yet taken out,                                                            *)
PartOf(k) ==
    /\ k \in KeysOf(message)
    /\ \/ phase = "update" /\ (k < message.key + i \/ (k = message.key + i /\ i < j))
       \/ phase = "expire" /\ k <= message.key + i

(* and likewise for the pairs.                                               *)
OrderedPart(a, b) ==
    /\ a < b
    /\ {a, b} \subseteq KeysOf(message)
    /\ \/ phase = "update" /\ (a < message.key + i \/ (a = message.key + i /\ b < message.key + j))
       \/ phase = "expire" /\ (a < message.key + i \/ (a = message.key + i /\ b <= message.key + j))

PartOfBoth(a, b) == OrderedPart(a, b) \/ OrderedPart(b, a)

Naming(l, S, k) == Cardinality({n \in S : k \in KeysOf(l[n])})

NamingBoth(l, S, a, b) ==
    Cardinality({n \in S : {a, b} \subseteq KeysOf(l[n])})

Weight(k) == Naming(log, Base, k) + (IF PartOf(k) THEN 1 ELSE 0)

PairWeight(a, b) ==
    NamingBoth(log, Base, a, b) + (IF PartOfBoth(a, b) THEN 1 ELSE 0)

(* A vertex that was added for its edge has no weight until its turn.        *)
Awaited(k) ==
    /\ phase = "update"
    /\ k \in KeysOf(message)
    /\ k < message.key + j \/ i > 0

Present == {k \in Keys : Weight(k) > 0 \/ Awaited(k)}

(* While a scan is taken out, an edge may be listed by its lower key when    *)
(* the vertex of the upper one is gone.                                      *)
Linked(a) == {b \in Keys \ {a} : PairWeight(a, b) > 0}

Fields == {"vertex", "edges", "n_edges", "total_vertex", "total_edges"}

GraphExact ==
    /\ DOMAIN graph = Fields
    /\ graph = [f \in Fields |-> graph[f]]
    /\ graph.vertex = [k \in Present |-> Weight(k)]
    /\ graph.edges = [a \in Present |-> [b \in Linked(a) |-> PairWeight(a, b)]]

(* The queue holds the last TL messages, the one being added excepted.       *)
Added == IF phase = "update" THEN Len(log) - 1 ELSE Len(log)

QueueExact ==
    deletion = [n \in 1..TL |-> LET at == Added - TL + n
                               IN IF at > 0 THEN log[at] ELSE Dummy]

Positions ==
    /\ phase = "update" =>
          /\ log # <<>>
          /\ message = log[Len(log)]
          /\ \/ 0 <= i /\ i <= j /\ j < DataSize(message)
             \/ i = DataSize(message) /\ j = i
    /\ phase = "expire" =>
          /\ 0 < TL /\ TL < Len(log)
          /\ message = log[Len(log) - TL]
          /\ 0 <= i /\ i <= j /\ j < DataSize(message)

(* In every state the graph is exactly what the window and the part of the   *)
(* current message make it, and the queue holds the window.                  *)
GraphInv == GraphExact /\ QueueExact /\ Positions

=============================================================================
