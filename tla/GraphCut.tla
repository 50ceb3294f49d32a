------------------------------ MODULE GraphCut ------------------------------
(* The copy of the workload graph that the partitioners read: compressed     *)
(* sparse rows, in which a vertex is its position in the order of the keys.  *)
(* src/graph/graph.hpp, multilevel_cut_data; src/scheduler/input_graph.hpp;  *)
(* src/graph/partitioning.cpp                                                *)
EXTENDS WorkloadGraph, SequencesExt, FiniteSetsExt

InOrder(S) ==
    CHOOSE s \in [1 .. Cardinality(S) -> S] :
        \A m, n \in 1 .. Cardinality(S) : m < n => s[m] < s[n]

SortedVertex(g) == InOrder(DOMAIN g.vertex)

(* The neighbours that have a position, in the order of the hash table.      *)
Neighbours(g, v) == SetToSeq(DOMAIN g.edges[v] \cap DOMAIN g.vertex)

(* Mutant of CutData: a row's end is counted from the row's beginning.       *)
CutDataRelative(g) ==
    LET sorted == SortedVertex(g)
        position == [v \in DOMAIN g.vertex |->
                        (CHOOSE n \in DOMAIN sorted : sorted[n] = v) - 1]
        rows == [n \in DOMAIN sorted |-> Neighbours(g, sorted[n])]
    IN [vertice_weight |-> [n \in DOMAIN sorted |-> g.vertex[sorted[n]]],
        x_edges |-> <<0>> \o [n \in DOMAIN rows |-> Len(rows[n])],
        edges |-> FlattenSeq([n \in DOMAIN rows |->
                     [k \in DOMAIN rows[n] |-> position[rows[n][k]]]]),
        edges_weight |-> FlattenSeq([n \in DOMAIN rows |->
                     [k \in DOMAIN rows[n] |-> g.edges[sorted[n]][rows[n][k]]]])]

CutData(g) ==
    LET sorted == SortedVertex(g)
        position == [v \in DOMAIN g.vertex |->
                        (CHOOSE n \in DOMAIN sorted : sorted[n] = v) - 1]
        rows == [n \in DOMAIN sorted |-> Neighbours(g, sorted[n])]
        end[n \in 0 .. Len(rows)] == IF n = 0 THEN 0 ELSE end[n - 1] + Len(rows[n])
    IN [vertice_weight |-> [n \in DOMAIN sorted |-> g.vertex[sorted[n]]],
        x_edges |-> [n \in 1 .. Len(rows) + 1 |-> end[n - 1]],
        edges |-> FlattenSeq([n \in DOMAIN rows |->
                     [k \in DOMAIN rows[n] |-> position[rows[n][k]]]]),
        edges_weight |-> FlattenSeq([n \in DOMAIN rows |->
                     [k \in DOMAIN rows[n] |-> g.edges[sorted[n]][rows[n][k]]]])]

-----------------------------------------------------------------------------

(* The totals that the graph keeps on the side: while the graph changes, the *)
(* weight of its vertices, and between messages that of its edges and their  *)
(* number.  An edge is stored at both ends and counted once.                 *)
TotalsMatch ==
    LET ends == {e \in WindowKeys \X WindowKeys :
                    e[1] < e[2] /\ CountedTogether(e[1], e[2]) > 0}
    IN /\ graph.total_vertex =
              MapThenSumSet(LAMBDA k : graph.vertex[k], DOMAIN graph.vertex)
       /\ phase = "wait" =>
              /\ graph.n_edges = Cardinality(ends)
              /\ graph.total_edges =
                     MapThenSumSet(LAMBDA e : CountedTogether(e[1], e[2]), ends)

(* What METIS_PartGraphKway and kaffpa require of their input, and what makes*)
(* it the window's graph: rows that follow one another and end with the      *)
(* edges, neighbours that are other vertices, each edge listed from both     *)
(* ends with one weight, and as positions the keys in their order.           *)
CutDataSound ==
    phase = "wait" =>
        LET cut == CutData(graph)
            key == InOrder(WindowKeys)
            row(n) == cut.x_edges[n] + 1 .. cut.x_edges[n + 1]
            listed == UNION {{<<key[n], key[cut.edges[e] + 1], cut.edges_weight[e]>> :
                                  e \in row(n)} : n \in DOMAIN key}
            together == {<<a, b, CountedTogether(a, b)>> : a, b \in WindowKeys}
        IN /\ cut.vertice_weight = [n \in DOMAIN key |-> Counted(key[n])]
           /\ Len(cut.x_edges) = Len(key) + 1
           /\ cut.x_edges[1] = 0
           /\ \A n \in DOMAIN key : cut.x_edges[n] <= cut.x_edges[n + 1]
           /\ cut.x_edges[Len(key) + 1] = Len(cut.edges)
           /\ Len(cut.edges) = Len(cut.edges_weight)
           /\ Cardinality(listed) = Len(cut.edges)
           /\ listed = {t \in together : t[1] # t[2] /\ t[3] > 0}

=============================================================================
