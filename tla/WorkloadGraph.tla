---------------------------- MODULE WorkloadGraph ----------------------------
(* The workload graph: a vertex per key, weighted by the requests that name  *)
(* it, an edge between keys that one scan names.  A thread adds each message *)
(* to it key by key and pair by pair and, when the history is limited to TL  *)
(* messages, takes the oldest one out again.  Other threads look at the      *)
(* graph between two messages only (RepartitionHandshake); the steps of one  *)
(* message are separate here because taking a scan out passes through graphs *)
(* in which an edge is known at one end only.                                *)
(* src/graph/graph.hpp; update_graph and expire in                           *)
(* src/scheduler/scheduler.hpp                                               *)
EXTENDS Integers, Sequences, FiniteSets

CONSTANTS
    Requests,    \* what may be submitted: records of type, key and size
    TL,          \* the length of the history, in messages; 0: unlimited
    MaxMessages  \* bound: how many messages are added

ASSUME TLAssumption == TL \in Nat
ASSUME MaxMessagesAssumption == MaxMessages \in Nat
ASSUME RequestsAssumption ==
    Requests \subseteq [type : {"READ", "WRITE", "SCAN", "END"}, key : Int,
                        size : Nat \ {0}]

Dummy == [type |-> "DUMMY", key |-> 0, size |-> 1]

(* Only a scan has a length; the message of any other type names one key,    *)
(* and END is added like the rest.                                           *)
DataSize(m) == IF m.type = "SCAN" THEN m.size ELSE 1

KeysOf(m) == m.key .. m.key + DataSize(m) - 1

VARIABLES
    graph,        \* workload_graph_
    deletion,     \* graph_deletion_queue_
    running,      \* whether the threads run, or the store is still populated
    phase,        \* "wait": between messages; "update"; "expire"
    message,      \* the message being added, or taken out
    i, j,         \* the loops' variables
    log           \* the messages added so far (history)

vars == <<graph, deletion, running, phase, message, i, j, log>>

-----------------------------------------------------------------------------
(* Graph.  An unordered_map is a function on the keys it holds; operator[]   *)
(* inserts the value of a new key.                                           *)

NoEntries == [k \in {} |-> 0]

At(f, k, default) == IF k \in DOMAIN f THEN f[k] ELSE default

Put(f, k, v) == [x \in DOMAIN f \cup {k} |-> IF x = k THEN v ELSE f[x]]

Erase(f, k) == [x \in DOMAIN f \ {k} |-> f[x]]

Edge(e, a, b) == At(At(e, a, NoEntries), b, 0)

PutEdge(e, a, b, w) == Put(e, a, Put(At(e, a, NoEntries), b, w))

EraseEdge(e, a, b) == Put(e, a, Erase(At(e, a, NoEntries), b))

EmptyGraph == [vertex |-> NoEntries, edges |-> NoEntries, n_edges |-> 0,
               total_vertex |-> 0, total_edges |-> 0]

AddVertice(g, v) ==
    IF v \in DOMAIN g.vertex
    THEN g
    ELSE [g EXCEPT !.vertex = Put(@, v, 0), !.edges = Put(@, v, NoEntries)]

IncrementVertice(g, v, w) ==
    [g EXCEPT !.vertex = Put(@, v, At(@, v, 0) + w), !.total_vertex = @ + w]

RemoveWeightlessVertice(g, v) ==
    IF At(g.vertex, v, 0) = 0
    THEN [g EXCEPT !.vertex = Erase(@, v), !.edges = Erase(@, v)]
    ELSE g

(* Mutant of AddEdge: the edge is counted from each of its ends.             *)
AddEdgeCountedTwice(g, a, b) ==
    IF b \in DOMAIN At(g.edges, a, NoEntries)
    THEN g
    ELSE [g EXCEPT !.edges = PutEdge(PutEdge(@, a, b, 0), b, a, 0),
                   !.n_edges = @ + 2]

AddEdge(g, a, b) ==
    IF b \in DOMAIN At(g.edges, a, NoEntries)
    THEN g
    ELSE [g EXCEPT !.edges = PutEdge(PutEdge(@, a, b, 0), b, a, 0),
                   !.n_edges = @ + 1]

IncrementEdge(g, a, b, w) ==
    LET there == PutEdge(g.edges, a, b, Edge(g.edges, a, b) + w)
        back == PutEdge(there, b, a, Edge(there, b, a) + w)
    IN [g EXCEPT !.edges = back, !.total_edges = @ + w]

RemoveWeightlessEdge(g, a, b) ==
    IF Edge(g.edges, a, b) = 0
    THEN [g EXCEPT !.edges = EraseEdge(EraseEdge(@, b, a), a, b),
                   !.n_edges = @ - 1]
    ELSE g

-----------------------------------------------------------------------------

Init ==
    /\ graph = EmptyGraph
    /\ deletion = [n \in 1..TL |-> Dummy]
    /\ running = FALSE
    /\ phase = "wait"
    /\ message = Dummy
    /\ i = 0
    /\ j = 0
    /\ log = <<>>

(* update_graph begins.                                                      *)
Begin(m) ==
    /\ phase = "wait"
    /\ Len(log) < MaxMessages
    /\ log' = Append(log, m)
    /\ message' = m
    /\ phase' = "update"
    /\ i' = 0
    /\ j' = 0
    /\ UNCHANGED <<graph, deletion>>

(* process_populate_request, in the main thread before the threads have      *)
(* anything to do; the keys come in order.                                   *)
Populate(m) ==
    /\ ~running
    /\ m.type = "WRITE"
    /\ m.key = Len(log)
    /\ Begin(m)
    /\ UNCHANGED running

Ended == \E n \in DOMAIN log : log[n].type = "END"

(* update_graph_loop takes a message; none follows END.                      *)
Process(m) ==
    /\ ~Ended
    /\ Begin(m)
    /\ running' = TRUE

(* The next pair of the loops for i, and in it for j, in update_graph.       *)
Advance ==
    IF j + 1 < DataSize(message)
    THEN i' = i /\ j' = j + 1
    ELSE i' = i + 1 /\ j' = i + 1

UpdateVertex ==
    /\ phase = "update"
    /\ i < DataSize(message)
    /\ i = j
    /\ graph' = IncrementVertice(AddVertice(graph, message.key + i),
                                 message.key + i, 1)
    /\ Advance
    /\ UNCHANGED <<deletion, running, phase, message, log>>

UpdateEdge ==
    /\ phase = "update"
    /\ i < j
    /\ LET a == message.key + i
           b == message.key + j
       IN graph' = IncrementEdge(AddEdge(AddVertice(graph, b), a, b), a, b, 1)
    /\ Advance
    /\ UNCHANGED <<deletion, running, phase, message, log>>

(* Mutant of Retire: the oldest message is taken before the new one is in.   *)
RetireEarly ==
    /\ phase = "update"
    /\ i = DataSize(message)
    /\ IF TL < 2
       THEN phase' = "wait" /\ UNCHANGED <<deletion, message, i, j>>
       ELSE /\ message' = deletion[2]
            /\ deletion' = Append(Tail(deletion), message)
            /\ i' = DataSize(deletion[2]) - 1
            /\ j' = DataSize(deletion[2]) - 1
            /\ phase' = IF deletion[2].type = "DUMMY" THEN "wait" ELSE "expire"
    /\ UNCHANGED <<graph, running, log>>

(* The message enters the history and the oldest one leaves it.              *)
Retire ==
    /\ phase = "update"
    /\ i = DataSize(message)
    /\ IF TL = 0
       THEN phase' = "wait" /\ UNCHANGED <<deletion, message, i, j>>
       ELSE LET queued == Append(deletion, message)
                expired == Head(queued)
            IN /\ deletion' = Tail(queued)
               /\ message' = expired
               /\ i' = DataSize(expired) - 1
               /\ j' = DataSize(expired) - 1
               /\ phase' = IF expired.type = "DUMMY" THEN "wait" ELSE "expire"
    /\ UNCHANGED <<graph, running, log>>

(* Mutant of ExpireEdge: the vertex is left to its own turn, which is over.  *)
ExpireEdgeOnly ==
    /\ phase = "expire"
    /\ i < j
    /\ LET a == message.key + i
           b == message.key + j
       IN graph' = RemoveWeightlessEdge(IncrementEdge(graph, a, b, -1), a, b)
    /\ j' = j - 1
    /\ UNCHANGED <<deletion, running, phase, message, i, log>>

(* expire goes down from the last key and from the last pair of each.        *)
ExpireEdge ==
    /\ phase = "expire"
    /\ i < j
    /\ LET a == message.key + i
           b == message.key + j
       IN graph' = RemoveWeightlessVertice(
                       RemoveWeightlessEdge(IncrementEdge(graph, a, b, -1), a, b),
                       b)
    /\ j' = j - 1
    /\ UNCHANGED <<deletion, running, phase, message, i, log>>

ExpireVertex ==
    /\ phase = "expire"
    /\ i = j
    /\ graph' = RemoveWeightlessVertice(
                    IncrementVertice(graph, message.key + i, -1),
                    message.key + i)
    /\ i' = i - 1
    /\ j' = DataSize(message) - 1
    /\ phase' = IF i = 0 THEN "wait" ELSE "expire"
    /\ UNCHANGED <<deletion, running, message, log>>

Terminated ==
    /\ phase = "wait"
    /\ Len(log) = MaxMessages \/ Ended
    /\ UNCHANGED vars

Next ==
    \/ \E m \in Requests : Populate(m) \/ Process(m)
    \/ UpdateVertex
    \/ UpdateEdge
    \/ Retire
    \/ ExpireEdge
    \/ ExpireVertex
    \/ Terminated

Spec == Init /\ [][Next]_vars

-----------------------------------------------------------------------------

TypeOK ==
    /\ DOMAIN graph.vertex \subseteq Int
    /\ \A k \in DOMAIN graph.vertex : graph.vertex[k] \in Nat
    /\ \A a \in DOMAIN graph.edges :
          \A b \in DOMAIN graph.edges[a] : graph.edges[a][b] \in Nat
    /\ Len(deletion) = TL
    /\ running \in BOOLEAN
    /\ phase \in {"wait", "update", "expire"}
    /\ message \in Requests \cup {Dummy}
    /\ i \in Int /\ j \in Int
    /\ log \in Seq(Requests) /\ Len(log) <= MaxMessages

(* The messages that the graph ought to count: the last TL, or all.          *)
Window == {n \in DOMAIN log : TL > 0 => n > Len(log) - TL}

Counted(k) == Cardinality({n \in Window : k \in KeysOf(log[n])})

CountedTogether(a, b) ==
    Cardinality({n \in Window : {a, b} \subseteq KeysOf(log[n])})

WindowKeys == UNION {KeysOf(log[n]) : n \in Window}

(* Between messages the graph holds the keys of the window, no other, and    *)
(* weighs each with the number of requests that name it: neither adding nor  *)
(* expire, nor what expire inserts by looking at an erased vertex, leaves a  *)
(* trace.                                                                    *)
VerticesCountWindow ==
    phase = "wait" => graph.vertex = [k \in WindowKeys |-> Counted(k)]

(* Between messages each pair of keys that some scan of the window names has *)
(* an edge, known at both ends with the number of those scans, and no other  *)
(* pair has; no end of an edge is a key without a vertex.                    *)
EdgesCountWindow ==
    phase = "wait" =>
        graph.edges =
            [a \in WindowKeys |->
                [b \in {k \in WindowKeys \ {a} : CountedTogether(a, k) > 0} |->
                    CountedTogether(a, b)]]

=============================================================================
