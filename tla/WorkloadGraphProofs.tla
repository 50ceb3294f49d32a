------------------------ MODULE WorkloadGraphProofs ------------------------
(* Theorems on WorkloadGraph, and on the totals that GraphCut states.        *)
EXTENDS WorkloadGraphInduction, GraphCut, FiniteSetTheorems, TLAPS

-----------------------------------------------------------------------------
(* Maps                                                                      *)

(* What operator[] finds after an assignment, at the key and elsewhere.      *)
LEMMA PutFacts ==
    ASSUME NEW f, NEW k, NEW v
    PROVE  /\ DOMAIN Put(f, k, v) = DOMAIN f \cup {k}
           /\ Put(f, k, v)[k] = v
           /\ \A x \in DOMAIN f \ {k} : Put(f, k, v)[x] = f[x]
           /\ Put(f, k, v) = [x \in DOMAIN Put(f, k, v) |-> Put(f, k, v)[x]]
           /\ \A d : At(Put(f, k, v), k, d) = v
           /\ \A x, d : x # k => At(Put(f, k, v), x, d) = At(f, x, d)
  BY DEF Put, At

(* What is left after erase.                                                 *)
LEMMA EraseFacts ==
    ASSUME NEW f, NEW k
    PROVE  /\ DOMAIN Erase(f, k) = DOMAIN f \ {k}
           /\ \A x \in DOMAIN f \ {k} : Erase(f, k)[x] = f[x]
           /\ Erase(f, k) = [x \in DOMAIN Erase(f, k) |-> Erase(f, k)[x]]
           /\ \A x, d : x # k => At(Erase(f, k), x, d) = At(f, x, d)
  BY DEF Erase, At

(* The second assignment to a key, and its erasure, hide the first.          *)
LEMMA PutHides ==
    ASSUME NEW f, NEW k, NEW u, NEW v
    PROVE  /\ Put(Put(f, k, u), k, v) = Put(f, k, v)
           /\ Erase(Put(f, k, u), k) = Erase(f, k)
  BY DEF Put, Erase

(* t is e with the weight of one edge set, at its first end.                 *)
EdgeSet(e, t, a, b, w) ==
    /\ DOMAIN t = DOMAIN e \cup {a}
    /\ t[a] = Put(At(e, a, NoEntries), b, w)
    /\ \A x \in DOMAIN e \ {a} : t[x] = e[x]
    /\ t = [x \in DOMAIN t |-> t[x]]
    /\ \A x : x # a => At(t, x, NoEntries) = At(e, x, NoEntries)

LEMMA PutEdgeSets ==
    ASSUME NEW e, NEW a, NEW b, NEW w
    PROVE  EdgeSet(e, PutEdge(e, a, b, w), a, b, w)
<1> DEFINE r == Put(At(e, a, NoEntries), b, w)
           t == Put(e, a, r)
<1>1. PutEdge(e, a, b, w) = t
  BY DEF PutEdge
<1> HIDE DEF r
<1>2. /\ DOMAIN t = DOMAIN e \cup {a}
      /\ t[a] = r
      /\ \A x \in DOMAIN e \ {a} : t[x] = e[x]
      /\ \A x : x # a => At(t, x, NoEntries) = At(e, x, NoEntries)
  BY DEF Put, At
<1>3. t = [x \in DOMAIN t |-> t[x]]
  BY DEF Put
<1> HIDE DEF t
<1> QED
  BY <1>1, <1>2, <1>3 DEF r, EdgeSet

-----------------------------------------------------------------------------
(* Graphs                                                                    *)

Weights == [Keys -> Nat]

PairWeights == [Keys -> [Keys -> Nat]]

(* The edges of a vertex.                                                    *)
Row(E, a) == [b \in {k \in Keys \ {a} : E[a][k] > 0} |-> E[a][b]]

(* g has the vertices P, weighed by V, and the edges weighed by E.           *)
Shape(g, V, E, P) ==
    /\ DOMAIN g = Fields
    /\ g = [f \in Fields |-> g[f]]
    /\ g.vertex = [k \in P |-> V[k]]
    /\ g.edges = [a \in P |-> Row(E, a)]

LEMMA RowPut ==
    ASSUME NEW E \in PairWeights, NEW F \in PairWeights,
           NEW a \in Keys, NEW b \in Keys \ {a}, F[a][b] > 0,
           \A c \in Keys \ {b} : F[a][c] = E[a][c]
    PROVE  Row(F, a) = Put(Row(E, a), b, F[a][b])
  BY DEF Row, Put, PairWeights

LEMMA RowErase ==
    ASSUME NEW E \in PairWeights, NEW F \in PairWeights,
           NEW a \in Keys, NEW b \in Keys \ {a}, F[a][b] = 0,
           \A c \in Keys \ {b} : F[a][c] = E[a][c]
    PROVE  Row(F, a) = Erase(Row(E, a), b)
  BY DEF Row, Erase, PairWeights

LEMMA RowSame ==
    ASSUME NEW E \in PairWeights, NEW F \in PairWeights,
           NEW a \in Keys,
           \A c \in Keys : F[a][c] = E[a][c]
    PROVE  Row(F, a) = Row(E, a)
  BY DEF Row, PairWeights

(* A vertex without weight has no edge.                                      *)
LEMMA RowEmpty ==
    ASSUME NEW E \in PairWeights, NEW a \in Keys,
           \A c \in Keys : E[a][c] = 0
    PROVE  Row(E, a) = NoEntries
  BY DEF Row, NoEntries, PairWeights

LEMMA RowAt ==
    ASSUME NEW E \in PairWeights, NEW a \in Keys, NEW b \in Keys \ {a}
    PROVE  /\ At(Row(E, a), b, 0) = E[a][b]
           /\ b \in DOMAIN Row(E, a) <=> E[a][b] > 0
  BY DEF Row, At, PairWeights

(* add_vertice                                                               *)
LEMMA AddVerticeShape ==
    ASSUME NEW g, NEW V \in Weights, NEW E \in PairWeights,
           NEW P \in SUBSET Keys, NEW v \in Keys, Shape(g, V, E, P),
           v \notin P => /\ V[v] = 0
                         /\ \A c \in Keys : E[v][c] = 0
    PROVE  Shape(AddVertice(g, v), V, E, P \cup {v})
<1>1. CASE v \in P
  BY <1>1 DEF Shape, AddVertice
<1>2. CASE v \notin P
  <2> DEFINE h == AddVertice(g, v)
  <2>1. h = [g EXCEPT !.vertex = Put(@, v, 0), !.edges = Put(@, v, NoEntries)]
    BY <1>2 DEF Shape, AddVertice
  <2>2. /\ DOMAIN h = Fields
        /\ h = [f \in Fields |-> h[f]]
        /\ h.vertex = Put(g.vertex, v, 0)
        /\ h.edges = Put(g.edges, v, NoEntries)
    BY <2>1 DEF Shape, Fields
  <2>3. h.vertex = [k \in P \cup {v} |-> V[k]]
    BY <1>2, <2>2 DEF Put, Shape
  <2>4. h.edges = [a \in P \cup {v} |-> Row(E, a)]
    <3>1. Row(E, v) = NoEntries
      BY <1>2, RowEmpty
    <3> QED
      BY <1>2, <2>2, <3>1 DEF Put, Shape
  <2> QED
    BY <2>2, <2>3, <2>4 DEF Shape
<1> QED
  BY <1>1, <1>2

(* increment_vertice_weight                                                  *)
LEMMA IncrementVerticeShape ==
    ASSUME NEW g, NEW V \in Weights, NEW W \in Weights, NEW E \in PairWeights,
           NEW P \in SUBSET Keys, NEW v \in P, NEW w \in Int,
           Shape(g, V, E, P),
           W[v] = V[v] + w, \A k \in Keys \ {v} : W[k] = V[k]
    PROVE  Shape(IncrementVertice(g, v, w), W, E, P)
<1> DEFINE h == IncrementVertice(g, v, w)
<1>1. /\ DOMAIN h = Fields
      /\ h = [f \in Fields |-> h[f]]
      /\ h.vertex = Put(g.vertex, v, At(g.vertex, v, 0) + w)
      /\ h.edges = g.edges
  BY DEF Shape, Fields, IncrementVertice
<1>2. At(g.vertex, v, 0) = V[v]
  BY DEF Shape, At
<1>3. h.vertex = [k \in P |-> W[k]]
  BY <1>1, <1>2 DEF Put, Shape
<1> QED
  BY <1>1, <1>3 DEF Shape

(* remove_weightless_vertice                                                 *)
LEMMA RemoveVerticeShape ==
    ASSUME NEW g, NEW V \in Weights, NEW E \in PairWeights,
           NEW P \in SUBSET Keys, NEW v \in P, Shape(g, V, E, P)
    PROVE  Shape(RemoveWeightlessVertice(g, v), V, E,
                 IF V[v] = 0 THEN P \ {v} ELSE P)
<1> DEFINE h == RemoveWeightlessVertice(g, v)
<1>1. At(g.vertex, v, 0) = V[v]
  BY DEF Shape, At
<1>2. CASE V[v] # 0
  BY <1>1, <1>2 DEF RemoveWeightlessVertice
<1>3. CASE V[v] = 0
  <2>1. h = [g EXCEPT !.vertex = Erase(@, v), !.edges = Erase(@, v)]
    BY <1>1, <1>3 DEF RemoveWeightlessVertice
  <2>2. /\ DOMAIN h = Fields
        /\ h = [f \in Fields |-> h[f]]
        /\ h.vertex = Erase(g.vertex, v)
        /\ h.edges = Erase(g.edges, v)
    BY <2>1 DEF Shape, Fields
  <2>3. h.vertex = [k \in P \ {v} |-> V[k]]
    BY <2>2 DEF Erase, Shape
  <2>4. h.edges = [a \in P \ {v} |-> Row(E, a)]
    BY <2>2 DEF Erase, Shape
  <2> QED
    BY <1>3, <2>2, <2>3, <2>4 DEF Shape
<1> QED
  BY <1>2, <1>3

(* h is g with the weight of an edge changed by w, at both ends.             *)
EdgeIncremented(g, h, a, b, w) ==
    /\ DOMAIN h = Fields
    /\ h = [f \in Fields |-> h[f]]
    /\ h.vertex = g.vertex
    /\ DOMAIN h.edges = DOMAIN g.edges \cup {a, b}
    /\ h.edges = [x \in DOMAIN h.edges |-> h.edges[x]]
    /\ h.edges[a] = Put(At(g.edges, a, NoEntries), b, Edge(g.edges, a, b) + w)
    /\ h.edges[b] = Put(At(g.edges, b, NoEntries), a, Edge(g.edges, b, a) + w)
    /\ \A x \in DOMAIN g.edges \ {a, b} : h.edges[x] = g.edges[x]

(* increment_edge_weight, whatever the edges were.                           *)
LEMMA IncrementEdgeIncrements ==
    ASSUME NEW g, DOMAIN g = Fields, g = [f \in Fields |-> g[f]],
           NEW a, NEW b, a # b, NEW w
    PROVE  EdgeIncremented(g, IncrementEdge(g, a, b, w), a, b, w)
<1> DEFINE e == g.edges
           w1 == Edge(e, a, b) + w
           there == PutEdge(e, a, b, w1)
           w2 == Edge(there, b, a) + w
           back == PutEdge(there, b, a, w2)
           h == IncrementEdge(g, a, b, w)
<1>1. /\ DOMAIN h = Fields
      /\ h = [f \in Fields |-> h[f]]
      /\ h.vertex = g.vertex
      /\ h.edges = back
  BY DEF Fields, IncrementEdge
<1>2. EdgeSet(e, there, a, b, w1)
  BY PutEdgeSets
<1>3. EdgeSet(there, back, b, a, w2)
  BY PutEdgeSets
<1>4. At(there, b, NoEntries) = At(e, b, NoEntries)
  <2> HIDE DEF there, w1
  <2> QED
    BY <1>2 DEF EdgeSet
<1>5. Edge(there, b, a) = Edge(e, b, a)
  BY <1>4 DEF Edge
<1> HIDE DEF e, there, back, h, w1, w2
<1>6. DOMAIN back = DOMAIN e \cup {a, b}
  BY <1>2, <1>3 DEF EdgeSet
<1>7. back[a] = Put(At(e, a, NoEntries), b, w1)
  BY <1>2, <1>3 DEF EdgeSet
<1>8. back[b] = Put(At(e, b, NoEntries), a, Edge(e, b, a) + w)
  BY <1>3, <1>4, <1>5 DEF EdgeSet, w2
<1>9. \A x \in DOMAIN e \ {a, b} : back[x] = e[x]
  BY <1>2, <1>3 DEF EdgeSet
<1>10. back = [x \in DOMAIN back |-> back[x]]
  BY <1>3 DEF EdgeSet
<1> QED
  BY <1>1, <1>6, <1>7, <1>8, <1>9, <1>10 DEF EdgeIncremented, e, h, w1

(* add_edge and increment_edge_weight, between vertices of the graph.        *)
LEMMA UpdateEdgeShape ==
    ASSUME NEW g, NEW V \in Weights, NEW E \in PairWeights,
           NEW F \in PairWeights, NEW P \in SUBSET Keys,
           NEW a \in P, NEW b \in P \ {a}, Shape(g, V, E, P),
           E[a][b] = E[b][a],
           F[a][b] = E[a][b] + 1, F[b][a] = E[b][a] + 1,
           \A x, y \in Keys : {x, y} # {a, b} => F[x][y] = E[x][y]
    PROVE  Shape(IncrementEdge(AddEdge(g, a, b), a, b, 1), V, F, P)
<1> DEFINE e == g.edges
           g1 == AddEdge(g, a, b)
           e1 == g1.edges
           h == IncrementEdge(g1, a, b, 1)
<1>1. /\ E[a][b] \in Nat /\ F[a][b] > 0 /\ F[b][a] > 0
      /\ a \in Keys /\ b \in Keys /\ a \in Keys \ {b} /\ b \in Keys \ {a}
  BY DEF PairWeights
<1>2. /\ DOMAIN e = P
      /\ \A x \in P : e[x] = Row(E, x) /\ At(e, x, NoEntries) = Row(E, x)
  BY DEF Shape, At
<1>3. /\ DOMAIN g1 = Fields
      /\ g1 = [f \in Fields |-> g1[f]]
      /\ g1.vertex = g.vertex
      /\ DOMAIN e1 = P
      /\ \A x \in P \ {a, b} : e1[x] = Row(E, x)
      /\ Edge(e1, a, b) = E[a][b]
      /\ Edge(e1, b, a) = E[b][a]
      /\ Put(At(e1, a, NoEntries), b, F[a][b]) = Put(Row(E, a), b, F[a][b])
      /\ Put(At(e1, b, NoEntries), a, F[b][a]) = Put(Row(E, b), a, F[b][a])
  <2>1. CASE b \in DOMAIN At(e, a, NoEntries)
    <3>1. g1 = g
      BY <2>1 DEF AddEdge
    <3>2. Edge(e, a, b) = E[a][b] /\ Edge(e, b, a) = E[b][a]
      BY <1>1, <1>2, RowAt DEF Edge
    <3> QED
      BY <3>1, <3>2, <1>2 DEF Shape
  <2>2. CASE b \notin DOMAIN At(e, a, NoEntries)
    <3> DEFINE there == PutEdge(e, a, b, 0)
               back == PutEdge(there, b, a, 0)
    <3>1. g1 = [g EXCEPT !.edges = back, !.n_edges = @ + 1]
      BY <2>2 DEF AddEdge
    <3>2. /\ DOMAIN g1 = Fields
          /\ g1 = [f \in Fields |-> g1[f]]
          /\ g1.vertex = g.vertex
          /\ e1 = back
      BY <3>1 DEF Shape, Fields
    <3>3. /\ DOMAIN there = P
          /\ there[a] = Put(Row(E, a), b, 0)
          /\ \A x \in P \ {a} : there[x] = Row(E, x)
      <4>1. EdgeSet(e, there, a, b, 0)
        BY PutEdgeSets
      <4> QED
        BY <1>2, <4>1 DEF EdgeSet
    <3>4. At(there, b, NoEntries) = Row(E, b)
      BY <3>3 DEF At
    <3>5. /\ DOMAIN back = P
          /\ back[b] = Put(Row(E, b), a, 0)
          /\ \A x \in P \ {b} : back[x] = there[x]
      <4>1. EdgeSet(there, back, b, a, 0)
        BY PutEdgeSets
      <4> HIDE DEF there, back
      <4> QED
        BY <3>3, <3>4, <4>1 DEF EdgeSet
    <3>6. /\ At(e1, a, NoEntries) = Put(Row(E, a), b, 0)
          /\ At(e1, b, NoEntries) = Put(Row(E, b), a, 0)
          /\ DOMAIN e1 = P
          /\ \A x \in P \ {a, b} : e1[x] = Row(E, x)
      <4> HIDE DEF there, back, g1
      <4> QED
        BY <3>2, <3>3, <3>5 DEF At
    <3>7. E[a][b] = 0 /\ E[b][a] = 0
      BY <2>2, <1>1, <1>2, RowAt
    <3>8. Edge(e1, a, b) = 0 /\ Edge(e1, b, a) = 0
      <4> HIDE DEF e1
      <4> QED
        BY <3>6 DEF Edge, At, Put
    <3> QED
      BY <3>2, <3>6, <3>7, <3>8, PutHides
  <2> QED
    BY <2>1, <2>2
<1>4. /\ DOMAIN h = Fields
      /\ h = [f \in Fields |-> h[f]]
      /\ h.vertex = g.vertex
      /\ DOMAIN h.edges = P
      /\ h.edges = [x \in DOMAIN h.edges |-> h.edges[x]]
      /\ h.edges[a] = Put(Row(E, a), b, F[a][b])
      /\ h.edges[b] = Put(Row(E, b), a, F[b][a])
      /\ \A x \in P \ {a, b} : h.edges[x] = Row(E, x)
  <2> HIDE DEF g1, h
  <2>1. EdgeIncremented(g1, h, a, b, 1)
    BY <1>3, IncrementEdgeIncrements DEF h
  <2> QED
    BY <1>3, <2>1 DEF EdgeIncremented
<1>5. /\ Row(F, a) = Put(Row(E, a), b, F[a][b])
      /\ Row(F, b) = Put(Row(E, b), a, F[b][a])
  <2>1. \A c \in Keys \ {b} : F[a][c] = E[a][c]
    BY <1>1
  <2>2. \A c \in Keys \ {a} : F[b][c] = E[b][c]
    BY <1>1
  <2> QED
    BY <1>1, <2>1, <2>2, RowPut
<1>6. \A x \in P \ {a, b} : Row(F, x) = Row(E, x)
  <2>1. \A x \in P \ {a, b} : \A c \in Keys : F[x][c] = E[x][c]
    OBVIOUS
  <2> QED
    BY <2>1, RowSame
<1>7. h.edges = [x \in P |-> Row(F, x)]
  <2> HIDE DEF h
  <2>1. \A x \in P : h.edges[x] = Row(F, x)
    BY <1>4, <1>5, <1>6
  <2> QED
    BY <1>4, <2>1
<1> QED
  BY <1>4, <1>7 DEF Shape

(* h is g without an edge that both of its ends knew.                        *)
EdgeErased(g, h, a, b) ==
    /\ DOMAIN h = Fields
    /\ h = [f \in Fields |-> h[f]]
    /\ h.vertex = g.vertex
    /\ DOMAIN h.edges = DOMAIN g.edges
    /\ h.edges = [x \in DOMAIN h.edges |-> h.edges[x]]
    /\ h.edges[a] = Erase(g.edges[a], b)
    /\ h.edges[b] = Erase(g.edges[b], a)
    /\ \A x \in DOMAIN g.edges \ {a, b} : h.edges[x] = g.edges[x]

(* remove_weightless_edge, of an edge without weight.                        *)
LEMMA RemoveEdgeErases ==
    ASSUME NEW g, DOMAIN g = Fields, g = [f \in Fields |-> g[f]],
           NEW a \in DOMAIN g.edges, NEW b \in DOMAIN g.edges, a # b,
           Edge(g.edges, a, b) = 0
    PROVE  EdgeErased(g, RemoveWeightlessEdge(g, a, b), a, b)
<1> DEFINE e == g.edges
           r1 == Erase(e[b], a)
           e1 == Put(e, b, r1)
           r2 == Erase(e[a], b)
           e2 == Put(e1, a, r2)
           h == RemoveWeightlessEdge(g, a, b)
<1>1. EraseEdge(e, b, a) = e1
  BY DEF EraseEdge, At
<1>2. /\ DOMAIN e1 = DOMAIN e
      /\ e1[b] = r1
      /\ \A x \in DOMAIN e \ {b} : e1[x] = e[x]
  <2> HIDE DEF r1
  <2> QED
    BY DEF Put
<1>3. EraseEdge(e1, a, b) = e2
  <2> HIDE DEF e1
  <2> QED
    BY <1>2 DEF EraseEdge, At
<1>4. /\ DOMAIN e2 = DOMAIN e
      /\ e2[a] = r2
      /\ e2[b] = r1
      /\ \A x \in DOMAIN e \ {a, b} : e2[x] = e[x]
  <2> HIDE DEF r1, r2, e1
  <2> QED
    BY <1>2 DEF Put
<1>5. e2 = [x \in DOMAIN e2 |-> e2[x]]
  BY DEF Put
<1>6. h = [g EXCEPT !.edges = e2, !.n_edges = @ - 1]
  BY <1>1, <1>3 DEF RemoveWeightlessEdge
<1>7. /\ DOMAIN h = Fields
      /\ h = [f \in Fields |-> h[f]]
      /\ h.vertex = g.vertex
      /\ h.edges = e2
  <2> HIDE DEF e2
  <2> QED
    BY <1>6 DEF Fields
<1> HIDE DEF h, e2, e1, r1, r2
<1>8. h.edges[a] = Erase(g.edges[a], b)
  BY <1>4, <1>7 DEF r2
<1>9. h.edges[b] = Erase(g.edges[b], a)
  BY <1>4, <1>7 DEF r1
<1>10. DOMAIN h.edges = DOMAIN g.edges
  BY <1>4, <1>7 DEF e
<1>11. h.edges = [x \in DOMAIN h.edges |-> h.edges[x]]
  BY <1>5, <1>7
<1>12. \A x \in DOMAIN g.edges \ {a, b} : h.edges[x] = g.edges[x]
  BY <1>4, <1>7 DEF e
<1>13. DOMAIN h = Fields /\ h = [f \in Fields |-> h[f]] /\ h.vertex = g.vertex
  BY <1>7
<1> HIDE DEF e
<1> QED
  BY <1>8, <1>9, <1>10, <1>11, <1>12, <1>13 DEF EdgeErased, h

(* expire, of one pair: the edge loses a weight and is erased at zero; the   *)
(* vertex that the erasure may have brought back is gone with it.            *)
LEMMA ExpireEdgeShape ==
    ASSUME NEW g, NEW V \in Weights, NEW E \in PairWeights,
           NEW F \in PairWeights, NEW P \in SUBSET Keys,
           NEW a \in P, NEW b \in Keys \ {a}, Shape(g, V, E, P),
           b \in P => V[b] > 0,
           b \notin P => E[a][b] = 1,
           E[a][b] = E[b][a], E[a][b] > 0,
           F[a][b] = E[a][b] - 1, F[b][a] = E[b][a] - 1,
           \A x, y \in Keys : {x, y} # {a, b} => F[x][y] = E[x][y]
    PROVE  Shape(RemoveWeightlessVertice(
                     RemoveWeightlessEdge(IncrementEdge(g, a, b, -1), a, b), b),
                 V, F, P)
<1> DEFINE h == IncrementEdge(g, a, b, -1)
           k == RemoveWeightlessEdge(h, a, b)
           l == RemoveWeightlessVertice(k, b)
<1>1. /\ E[a][b] \in Nat /\ F[a][b] \in Nat /\ F[a][b] = F[b][a]
      /\ a \in Keys /\ a \in Keys \ {b} /\ P \subseteq Keys
  BY DEF PairWeights
<1>2. /\ DOMAIN g = Fields
      /\ g = [f \in Fields |-> g[f]]
      /\ DOMAIN g.edges = P
      /\ \A x \in P : g.edges[x] = Row(E, x)
      /\ At(g.edges, a, NoEntries) = Row(E, a)
      /\ b \in P => At(g.edges, b, NoEntries) = Row(E, b)
      /\ DOMAIN g.vertex = P
      /\ b \in P => At(g.vertex, b, 0) = V[b]
      /\ b \notin P => At(g.vertex, b, 0) = 0
      /\ g.vertex = [x \in P |-> V[x]]
  BY DEF Shape, At
<1>3. EdgeIncremented(g, h, a, b, -1)
  BY <1>2, IncrementEdgeIncrements
<1>4. Edge(g.edges, a, b) = E[a][b]
  BY <1>1, <1>2, RowAt DEF Edge
<1>5. b \in P => Edge(g.edges, b, a) = E[b][a]
  BY <1>1, <1>2, RowAt DEF Edge
<1>6. \A x \in Keys \ {a, b} : Row(F, x) = Row(E, x)
  <2>1. \A x \in Keys \ {a, b} : \A c \in Keys : F[x][c] = E[x][c]
    OBVIOUS
  <2> QED
    BY <2>1, RowSame
<1>7. /\ \A c \in Keys \ {b} : F[a][c] = E[a][c]
      /\ \A c \in Keys \ {a} : F[b][c] = E[b][c]
  BY <1>1
<1> HIDE DEF h
<1>8. /\ DOMAIN h = Fields
      /\ h = [f \in Fields |-> h[f]]
      /\ h.vertex = g.vertex
      /\ DOMAIN h.edges = P \cup {b}
      /\ h.edges = [x \in DOMAIN h.edges |-> h.edges[x]]
      /\ h.edges[a] = Put(Row(E, a), b, F[a][b])
      /\ b \in P => h.edges[b] = Put(Row(E, b), a, F[b][a])
      /\ \A x \in P \ {a, b} : h.edges[x] = Row(F, x)
  BY <1>1, <1>2, <1>3, <1>4, <1>5, <1>6 DEF EdgeIncremented
<1>9. Edge(h.edges, a, b) = F[a][b]
  BY <1>8 DEF Edge, At, Put
<1>10. ASSUME F[a][b] > 0 PROVE Shape(l, V, F, P)
  <2>1. k = h
    BY <1>9, <1>10 DEF RemoveWeightlessEdge
  <2>2. b \in P
    BY <1>10, <1>1
  <2>3. l = h
    BY <1>2, <1>8, <2>1, <2>2 DEF RemoveWeightlessVertice
  <2>4. Row(F, a) = Put(Row(E, a), b, F[a][b])
    BY <1>1, <1>7, <1>10, RowPut
  <2>5. Row(F, b) = Put(Row(E, b), a, F[b][a])
    BY <1>1, <1>7, <1>10, RowPut
  <2>6. h.edges = [x \in P |-> Row(F, x)]
    BY <1>8, <2>2, <2>4, <2>5
  <2> HIDE DEF l
  <2> QED
    BY <1>2, <1>8, <2>3, <2>6 DEF Shape
<1>11. ASSUME F[a][b] = 0 PROVE Shape(l, V, F, P)
  <2>1. EdgeErased(h, k, a, b)
    BY <1>8, <1>9, <1>11, RemoveEdgeErases
  <2> HIDE DEF k
  <2>2. Row(F, a) = Erase(Row(E, a), b)
    BY <1>1, <1>7, <1>11, RowErase
  <2>3. Row(F, b) = Erase(Row(E, b), a)
    BY <1>1, <1>7, <1>11, RowErase
  <2>4. Erase(Put(Row(E, a), b, F[a][b]), b) = Erase(Row(E, a), b)
    BY PutHides
  <2>5. Erase(Put(Row(E, b), a, F[b][a]), a) = Erase(Row(E, b), a)
    BY PutHides
  <2>6. /\ DOMAIN k = Fields
        /\ k = [f \in Fields |-> k[f]]
        /\ k.vertex = g.vertex
        /\ DOMAIN k.edges = P \cup {b}
        /\ k.edges = [x \in DOMAIN k.edges |-> k.edges[x]]
        /\ k.edges[a] = Row(F, a)
        /\ b \in P => k.edges[b] = Row(F, b)
        /\ \A x \in P \ {a, b} : k.edges[x] = Row(F, x)
    BY <1>8, <2>1, <2>2, <2>3, <2>4, <2>5 DEF EdgeErased
  <2>7. CASE b \in P
    <3>1. l = k
      BY <1>2, <2>6, <2>7 DEF RemoveWeightlessVertice
    <3>2. k.edges = [x \in P |-> Row(F, x)]
      BY <2>6, <2>7
    <3> HIDE DEF l
    <3> QED
      BY <1>2, <2>6, <3>1, <3>2 DEF Shape
  <2>8. CASE b \notin P
    <3>1. l = [k EXCEPT !.vertex = Erase(@, b), !.edges = Erase(@, b)]
      BY <1>2, <2>6, <2>8 DEF RemoveWeightlessVertice
    <3>2. /\ DOMAIN l = Fields
          /\ l = [f \in Fields |-> l[f]]
          /\ l.vertex = Erase(g.vertex, b)
          /\ l.edges = Erase(k.edges, b)
      BY <3>1, <2>6 DEF Fields
    <3> HIDE DEF l
    <3>3. l.vertex = [x \in P |-> V[x]]
      <4>1. Erase([x \in P |-> V[x]], b) = [x \in P |-> V[x]]
        BY <2>8 DEF Erase
      <4> QED
        BY <1>2, <3>2, <4>1
    <3>4. l.edges = [x \in P |-> Row(F, x)]
      <4>1. (P \cup {b}) \ {b} = P
        BY <2>8
      <4>2. \A x \in P : k.edges[x] = Row(F, x)
        BY <2>6, <2>8
      <4>3. Erase(k.edges, b) = [x \in P |-> k.edges[x]]
        BY <2>6, <4>1 DEF Erase
      <4> QED
        BY <3>2, <4>2, <4>3
    <3> QED
      BY <3>2, <3>3, <3>4 DEF Shape
  <2> QED
    BY <2>7, <2>8
<1> QED
  BY <1>1, <1>10, <1>11 DEF h

-----------------------------------------------------------------------------
(* Counting                                                                  *)

LEMMA NamingNat ==
    ASSUME NEW l, NEW S, IsFiniteSet(S), NEW k
    PROVE  Naming(l, S, k) \in Nat
<1>1. IsFiniteSet({n \in S : k \in KeysOf(l[n])})
  BY FS_Subset
<1> QED
  BY <1>1, FS_CardinalityType DEF Naming

LEMMA NamingBothNat ==
    ASSUME NEW l, NEW S, IsFiniteSet(S), NEW a, NEW b
    PROVE  NamingBoth(l, S, a, b) \in Nat
<1>1. IsFiniteSet({n \in S : {a, b} \subseteq KeysOf(l[n])})
  BY FS_Subset
<1> QED
  BY <1>1, FS_CardinalityType DEF NamingBoth

LEMMA NamingBothSymmetric ==
    ASSUME NEW l, NEW S, NEW a, NEW b
    PROVE  NamingBoth(l, S, a, b) = NamingBoth(l, S, b, a)
<1>1. {a, b} = {b, a}
  OBVIOUS
<1> QED
  BY <1>1 DEF NamingBoth

(* What names both keys names one.                                           *)
LEMMA NamingBothZero ==
    ASSUME NEW l, NEW S, IsFiniteSet(S), NEW a, NEW b, Naming(l, S, a) = 0
    PROVE  NamingBoth(l, S, a, b) = 0
<1> DEFINE one == {n \in S : a \in KeysOf(l[n])}
           both == {n \in S : {a, b} \subseteq KeysOf(l[n])}
<1>1. IsFiniteSet(one)
  BY FS_Subset
<1>2. one = {}
  BY <1>1, FS_EmptySet DEF Naming
<1>3. both = {}
  BY <1>2
<1> QED
  BY <1>3, FS_EmptySet DEF NamingBoth

(* One more message.                                                         *)
LEMMA NamingOneMore ==
    ASSUME NEW l, NEW S, IsFiniteSet(S), NEW n, n \notin S, NEW k
    PROVE  Naming(l, S \cup {n}, k) =
               Naming(l, S, k) + (IF k \in KeysOf(l[n]) THEN 1 ELSE 0)
<1> DEFINE those == {x \in S : k \in KeysOf(l[x])}
           more == {x \in S \cup {n} : k \in KeysOf(l[x])}
<1>1. IsFiniteSet(those)
  BY FS_Subset
<1>2. Cardinality(those) \in Nat
  BY <1>1, FS_CardinalityType
<1>3. CASE k \in KeysOf(l[n])
  <2>1. more = those \cup {n} /\ n \notin those
    BY <1>3
  <2>2. Cardinality(those \cup {n}) = Cardinality(those) + 1
    BY <1>1, <2>1, FS_AddElement
  <2> QED
    BY <1>3, <2>1, <2>2 DEF Naming
<1>4. CASE k \notin KeysOf(l[n])
  <2>1. more = those
    BY <1>4
  <2> QED
    BY <1>2, <1>4, <2>1 DEF Naming
<1> QED
  BY <1>3, <1>4

LEMMA NamingBothOneMore ==
    ASSUME NEW l, NEW S, IsFiniteSet(S), NEW n, n \notin S, NEW a, NEW b
    PROVE  NamingBoth(l, S \cup {n}, a, b) =
               NamingBoth(l, S, a, b)
                   + (IF {a, b} \subseteq KeysOf(l[n]) THEN 1 ELSE 0)
<1> DEFINE those == {x \in S : {a, b} \subseteq KeysOf(l[x])}
           more == {x \in S \cup {n} : {a, b} \subseteq KeysOf(l[x])}
<1>1. IsFiniteSet(those)
  BY FS_Subset
<1>2. Cardinality(those) \in Nat
  BY <1>1, FS_CardinalityType
<1>3. CASE {a, b} \subseteq KeysOf(l[n])
  <2>1. more = those \cup {n} /\ n \notin those
    BY <1>3
  <2>2. Cardinality(those \cup {n}) = Cardinality(those) + 1
    BY <1>1, <2>1, FS_AddElement
  <2> QED
    BY <1>3, <2>1, <2>2 DEF NamingBoth
<1>4. CASE ~({a, b} \subseteq KeysOf(l[n]))
  <2>1. more = those
    BY <1>4
  <2>2. NamingBoth(l, S \cup {n}, a, b) = NamingBoth(l, S, a, b)
    BY <2>1 DEF NamingBoth
  <2>3. NamingBoth(l, S, a, b) \in Nat
    BY <1>2 DEF NamingBoth
  <2> HIDE DEF those, more
  <2> QED
    BY <1>4, <2>2, <2>3
<1> QED
  BY <1>3, <1>4

(* Histories that agree on the messages counted.                             *)
LEMMA NamingSame ==
    ASSUME NEW l, NEW l2, NEW S, \A n \in S : l2[n] = l[n], NEW a, NEW b
    PROVE  /\ Naming(l2, S, a) = Naming(l, S, a)
           /\ NamingBoth(l2, S, a, b) = NamingBoth(l, S, a, b)
<1>1. {n \in S : a \in KeysOf(l2[n])} = {n \in S : a \in KeysOf(l[n])}
  OBVIOUS
<1>2. {n \in S : {a, b} \subseteq KeysOf(l2[n])} =
          {n \in S : {a, b} \subseteq KeysOf(l[n])}
  OBVIOUS
<1> QED
  BY <1>1, <1>2 DEF Naming, NamingBoth

-----------------------------------------------------------------------------
(* The invariant                                                             *)

VW == [k \in Keys |-> Weight(k)]

EW == [a \in Keys |-> [b \in Keys |-> PairWeight(a, b)]]

Basics ==
    /\ log \in Seq(Requests) /\ Len(log) <= MaxMessages
    /\ i \in Int /\ j \in Int
    /\ phase \in {"wait", "update", "expire"}
    /\ running \in BOOLEAN
    /\ message \in Requests \cup {Dummy}

IInv == Basics /\ GraphInv

(* What a step does to the weights: nothing,                                 *)
QuietStep ==
    /\ graph' = graph
    /\ \A k \in Keys : Weight(k)' = Weight(k)
    /\ \A a, b \in Keys : a # b => PairWeight(a, b)' = PairWeight(a, b)

(* the weight of one key changes by w,                                       *)
VertexStep(v, w) ==
    /\ v \in Keys /\ EW' = EW
    /\ VW'[v] = VW[v] + w
    /\ \A k \in Keys \ {v} : VW'[k] = VW[k]

(* or that of one pair does.                                                 *)
EdgeStep(v, u, w) ==
    /\ v \in Keys /\ u \in Keys /\ v < u /\ VW' = VW
    /\ EW'[v][u] = EW[v][u] + w
    /\ \A x, y \in Keys : {x, y} # {v, u} => EW'[x][y] = EW[x][y]

LEMMA DataSizeNat ==
    ASSUME NEW m \in Requests \cup {Dummy}
    PROVE  DataSize(m) \in Nat \ {0} /\ m.key \in Int
  BY RequestsAssumption DEF Dummy, DataSize

LEMMA KeysOfMessage ==
    ASSUME NEW m \in Requests
    PROVE  KeysOf(m) \subseteq Keys /\ m # Dummy /\ m.type # "DUMMY"
  BY RequestsAssumption DEF Keys, Dummy

LEMMA KeysInt == Keys \subseteq Int
  BY DataSizeNat DEF Keys, KeysOf

LEMMA BaseFinite == Basics => IsFiniteSet(Base) /\ Base \subseteq 1..Len(log)
<1> SUFFICES ASSUME Basics PROVE IsFiniteSet(Base) /\ Base \subseteq 1..Len(log)
  OBVIOUS
<1>1. Len(log) \in Nat /\ DOMAIN log = 1..Len(log)
  BY DEF Basics
<1>2. Base \subseteq 1..Len(log)
  BY <1>1 DEF Base
<1>3. IsFiniteSet(1..Len(log))
  BY <1>1, FS_Interval
<1> QED
  BY <1>2, <1>3, FS_Subset

LEMMA WeightsTyped == Basics => VW \in Weights /\ EW \in PairWeights
<1> SUFFICES ASSUME Basics PROVE VW \in Weights /\ EW \in PairWeights
  OBVIOUS
<1>1. IsFiniteSet(Base)
  BY BaseFinite
<1>2. \A k \in Keys : Weight(k) \in Nat
  <2> TAKE k \in Keys
  <2>1. Naming(log, Base, k) \in Nat
    BY <1>1, NamingNat
  <2> QED
    BY <2>1 DEF Weight
<1>3. \A a, b \in Keys : PairWeight(a, b) \in Nat
  <2> TAKE a, b \in Keys
  <2>1. NamingBoth(log, Base, a, b) \in Nat
    BY <1>1, NamingBothNat
  <2> QED
    BY <2>1 DEF PairWeight
<1> QED
  BY <1>2, <1>3 DEF VW, EW, Weights, PairWeights

LEMMA ExactIsShape == GraphExact <=> Shape(graph, VW, EW, Present)
<1>1. \A a \in Present : Row(EW, a) = [b \in Linked(a) |-> PairWeight(a, b)]
  BY DEF Row, EW, Linked, Present
<1>2. [a \in Present |-> Row(EW, a)] =
          [a \in Present |-> [b \in Linked(a) |-> PairWeight(a, b)]]
  BY <1>1
<1>3. [k \in Present |-> VW[k]] = [k \in Present |-> Weight(k)]
  BY DEF VW, Present
<1> QED
  BY <1>2, <1>3 DEF GraphExact, Shape

LEMMA WeightsTypedNext == Basics' => VW' \in Weights /\ EW' \in PairWeights
<1>1. (Basics => VW \in Weights /\ EW \in PairWeights)'
  BY WeightsTyped, PTL
<1> QED
  BY <1>1 DEF Weights, PairWeights, Keys, KeysOf, DataSize

LEMMA ExactIsShapeNext == GraphExact' <=> Shape(graph', VW', EW', Present')
<1>1. (GraphExact <=> Shape(graph, VW, EW, Present))'
  BY ExactIsShape, PTL
<1> QED
  BY <1>1 DEF Shape, Row, Keys, KeysOf, DataSize, Fields

LEMMA PairWeightSymmetric == \A a, b : PairWeight(a, b) = PairWeight(b, a)
  BY NamingBothSymmetric DEF PairWeight, PartOfBoth

(* A vertex without weight is in no edge but that of the current scan.       *)
LEMMA NoWeightNoPair ==
    Basics => \A a \in Keys : Weight(a) = 0 =>
                 /\ ~PartOf(a)
                 /\ \A b \in Keys : NamingBoth(log, Base, a, b) = 0
<1> SUFFICES ASSUME Basics, NEW a \in Keys, Weight(a) = 0
             PROVE  /\ ~PartOf(a)
                    /\ \A b \in Keys : NamingBoth(log, Base, a, b) = 0
  OBVIOUS
<1>1. IsFiniteSet(Base)
  BY BaseFinite
<1>2. Naming(log, Base, a) \in Nat
  BY <1>1, NamingNat
<1>3. Naming(log, Base, a) = 0 /\ ~PartOf(a)
  BY <1>2 DEF Weight
<1> QED
  BY <1>1, <1>3, NamingBothZero

(* Loop steps leave the history alone.                                       *)
LEMMA BaseSame ==
    ASSUME UNCHANGED log, phase = "update" <=> phase' = "update"
    PROVE  Base' = Base
  BY DEF Base

LEMMA UpdateVertexExact ==
    ASSUME Basics, Basics', GraphExact, Positions, UpdateVertex
    PROVE  GraphExact' /\ VertexStep(message.key + i, 1)
<1> DEFINE v == message.key + i
<1>1. /\ message \in Requests /\ DataSize(message) \in Nat \ {0}
      /\ message.key \in Int /\ i \in Int /\ j \in Int
      /\ KeysOf(message) = message.key .. message.key + DataSize(message) - 1
      /\ KeysOf(message) \subseteq Keys
      /\ phase = "update" /\ phase' = "update" /\ message' = message
      /\ 0 <= i /\ i < DataSize(message) /\ i = j
      /\ UNCHANGED <<log, message>>
  <2>1. phase = "update" /\ i < DataSize(message) /\ i = j /\ UNCHANGED <<log, message, phase>>
    BY DEF UpdateVertex
  <2>2. message = log[Len(log)] /\ log # <<>>
    BY <2>1 DEF Positions
  <2>3. DataSize(message) \in Nat /\ i \in Int
    BY DataSizeNat DEF Basics
  <2>4. 0 <= i
    BY <2>1, <2>3 DEF Positions
  <2>5. message \in Requests
    BY <2>2 DEF Basics
  <2> QED
    BY <2>1, <2>4, <2>5, DataSizeNat, KeysOfMessage DEF KeysOf, Basics
<1>2. \/ i' = i /\ j' = i + 1 /\ i + 1 < DataSize(message)
      \/ i' = i + 1 /\ j' = i + 1 /\ i + 1 = DataSize(message)
  BY <1>1 DEF UpdateVertex, Advance
<1>3. v \in KeysOf(message) /\ v \in Keys /\ v \in Int
  BY <1>1
<1>4. Base' = Base
  BY <1>1, BaseSame
<1>5. ~PartOf(v)
  BY <1>1 DEF PartOf
<1>6. \A k \in Keys : PartOf(k)' <=> PartOf(k) \/ k = v
  <2> SUFFICES ASSUME NEW k \in Keys PROVE PartOf(k)' <=> PartOf(k) \/ k = v
    OBVIOUS
  <2>1. k \in Int
    BY KeysInt
  <2>2. KeysOf(message)' = KeysOf(message)
    BY <1>1
  <2> QED
    BY <1>1, <1>2, <1>3, <2>1, <2>2 DEF PartOf
<1>7. \A a, b \in Keys : OrderedPart(a, b)' <=> OrderedPart(a, b)
  <2> SUFFICES ASSUME NEW a \in Keys, NEW b \in Keys
               PROVE OrderedPart(a, b)' <=> OrderedPart(a, b)
    OBVIOUS
  <2>1. a \in Int /\ b \in Int
    BY KeysInt
  <2>2. KeysOf(message)' = KeysOf(message)
    BY <1>1
  <2>3. b \in KeysOf(message) => b <= message.key + DataSize(message) - 1
    BY <1>1
  <2> QED
    BY <1>1, <1>2, <2>1, <2>2, <2>3 DEF OrderedPart
<1>8. \A k \in Keys : Weight(k)' = Weight(k) + (IF k = v THEN 1 ELSE 0)
  <2> TAKE k \in Keys
  <2>1. Naming(log, Base, k)' = Naming(log, Base, k)
    BY <1>1, <1>4
  <2>2. Naming(log, Base, k) \in Nat
    BY BaseFinite, NamingNat
  <2> QED
    BY <1>5, <1>6, <2>1, <2>2 DEF Weight
<1>9. \A a, b \in Keys : PairWeight(a, b)' = PairWeight(a, b)
  <2> TAKE a, b \in Keys
  <2>1. NamingBoth(log, Base, a, b)' = NamingBoth(log, Base, a, b)
    BY <1>1, <1>4
  <2> QED
    BY <1>7, <2>1 DEF PairWeight, PartOfBoth
<1>10. \A k \in Keys : Awaited(k)' \/ k = v <=> Awaited(k) \/ k = v
  <2> SUFFICES ASSUME NEW k \in Keys
               PROVE Awaited(k)' \/ k = v <=> Awaited(k) \/ k = v
    OBVIOUS
  <2>1. k \in Int
    BY KeysInt
  <2>2. KeysOf(message)' = KeysOf(message)
    BY <1>1
  <2> QED
    BY <1>1, <1>2, <1>3, <2>1, <2>2 DEF Awaited
<1>11. VW \in Weights /\ EW \in PairWeights /\ VW' \in Weights /\ EW' \in PairWeights
  BY WeightsTyped, WeightsTypedNext
<1>12. \A k \in Keys : Weight(k) \in Nat
  BY <1>11 DEF VW, Weights
<1>13. Present' = Present \cup {v}
  <2>1. Keys' = Keys
    BY DEF Keys, KeysOf, DataSize
  <2> QED
    BY <1>3, <1>8, <1>10, <1>12, <2>1 DEF Present
<1>14. EW' = EW
  BY <1>9 DEF EW, Keys, KeysOf, DataSize
<1>15. VW'[v] = VW[v] + 1 /\ \A k \in Keys \ {v} : VW'[k] = VW[k]
  <2>1. VW' = [k \in Keys |-> Weight(k)']
    BY DEF VW, Keys, KeysOf, DataSize
  <2> QED
    BY <1>3, <1>8, <1>12, <2>1 DEF VW
<1>16. v \notin Present => VW[v] = 0 /\ \A c \in Keys : EW[v][c] = 0
  <2> SUFFICES ASSUME v \notin Present
               PROVE VW[v] = 0 /\ \A c \in Keys : EW[v][c] = 0
    OBVIOUS
  <2>1. Weight(v) = 0 /\ ~Awaited(v)
    BY <1>3, <1>12 DEF Present
  <2>2. \A c \in Keys : NamingBoth(log, Base, v, c) = 0
    BY <1>3, <2>1, NoWeightNoPair
  <2>3. i = 0
    BY <1>1, <1>3, <2>1 DEF Awaited
  <2>4. \A c \in Keys : ~PartOfBoth(v, c)
    <3> TAKE c \in Keys
    <3>1. c \in Int /\ v = message.key
      BY <1>1, <2>3, KeysInt
    <3>2. c \in KeysOf(message) => message.key <= c
      BY <1>1
    <3> QED
      BY <1>1, <2>3, <3>1, <3>2 DEF PartOfBoth, OrderedPart
  <2> QED
    BY <1>3, <2>1, <2>2, <2>4 DEF VW, EW, PairWeight
<1>17. Shape(graph, VW, EW, Present)
  BY ExactIsShape
<1>18. Present \subseteq Keys
  BY DEF Present
<1> HIDE DEF v
<1>19. Shape(AddVertice(graph, v), VW, EW, Present \cup {v})
  BY <1>3, <1>11, <1>16, <1>17, <1>18, AddVerticeShape
<1>20. Shape(IncrementVertice(AddVertice(graph, v), v, 1), VW', EW, Present \cup {v})
  <2>1. Present \cup {v} \subseteq Keys
    BY <1>3, <1>18
  <2> QED
    BY <1>11, <1>15, <1>19, <2>1, IncrementVerticeShape
<1>21. graph' = IncrementVertice(AddVertice(graph, v), v, 1)
  BY DEF UpdateVertex, v
<1>22. VertexStep(v, 1)
  BY <1>3, <1>14, <1>15 DEF VertexStep
<1>23. GraphExact'
  BY <1>13, <1>14, <1>20, <1>21, ExactIsShapeNext
<1> QED
  BY <1>22, <1>23 DEF v

LEMMA UpdateEdgeExact ==
    ASSUME Basics, Basics', GraphExact, Positions, UpdateEdge
    PROVE  /\ GraphExact' /\ EdgeStep(message.key + i, message.key + j, 1)
           /\ Shape(AddVertice(graph, message.key + j), VW, EW,
                    Present \cup {message.key + j})
           /\ message.key + i \in Present
<1> DEFINE v == message.key + i
           u == message.key + j
<1>1. /\ message \in Requests /\ DataSize(message) \in Nat \ {0}
      /\ message.key \in Int /\ i \in Int /\ j \in Int
      /\ KeysOf(message) = message.key .. message.key + DataSize(message) - 1
      /\ KeysOf(message) \subseteq Keys
      /\ phase = "update" /\ phase' = "update" /\ message' = message
      /\ 0 <= i /\ i < j /\ j < DataSize(message)
      /\ UNCHANGED <<log, message>>
  <2>1. phase = "update" /\ i < j /\ UNCHANGED <<log, message, phase>>
    BY DEF UpdateEdge
  <2>2. message = log[Len(log)] /\ log # <<>>
    BY <2>1 DEF Positions
  <2>3. DataSize(message) \in Nat /\ i \in Int /\ j \in Int
    BY DataSizeNat DEF Basics
  <2>4. 0 <= i /\ j < DataSize(message)
    BY <2>1, <2>3 DEF Positions
  <2>5. message \in Requests
    BY <2>2 DEF Basics
  <2> QED
    BY <2>1, <2>3, <2>4, <2>5, DataSizeNat, KeysOfMessage DEF KeysOf
<1>2. \/ i' = i /\ j' = j + 1 /\ j + 1 < DataSize(message)
      \/ i' = i + 1 /\ j' = i + 1 /\ j + 1 = DataSize(message)
  BY <1>1 DEF UpdateEdge, Advance
<1>3. /\ v \in KeysOf(message) /\ v \in Keys /\ v \in Int
      /\ u \in KeysOf(message) /\ u \in Keys /\ u \in Int
      /\ v < u
  BY <1>1
<1>4. Base' = Base
  BY <1>1, BaseSame
<1>5. ~PartOfBoth(v, u) /\ PartOf(v)
  BY <1>1, <1>3 DEF PartOfBoth, OrderedPart, PartOf
<1>6. \A k \in Keys : PartOf(k)' <=> PartOf(k)
  <2> SUFFICES ASSUME NEW k \in Keys PROVE PartOf(k)' <=> PartOf(k)
    OBVIOUS
  <2>1. k \in Int
    BY KeysInt
  <2>2. KeysOf(message)' = KeysOf(message)
    BY <1>1
  <2> QED
    BY SMTT(20), <1>1, <1>2, <2>1, <2>2 DEF PartOf
<1>7. \A a, b \in Keys : OrderedPart(a, b)' <=> OrderedPart(a, b) \/ (a = v /\ b = u)
  <2> SUFFICES ASSUME NEW a \in Keys, NEW b \in Keys
               PROVE OrderedPart(a, b)' <=> OrderedPart(a, b) \/ (a = v /\ b = u)
    OBVIOUS
  <2>1. a \in Int /\ b \in Int
    BY KeysInt
  <2>2. KeysOf(message)' = KeysOf(message)
    BY <1>1
  <2>3. b \in KeysOf(message) => b <= message.key + DataSize(message) - 1
    BY <1>1
  <2>4. OrderedPart(a, b) <=>
          /\ a < b /\ a \in KeysOf(message) /\ b \in KeysOf(message)
          /\ a < message.key + i \/ (a = message.key + i /\ b < message.key + j)
    BY <1>1 DEF OrderedPart
  <2>5. OrderedPart(a, b)' <=>
          /\ a < b /\ a \in KeysOf(message) /\ b \in KeysOf(message)
          /\ a < message.key + i' \/ (a = message.key + i' /\ b < message.key + j')
    BY <1>1, <2>2 DEF OrderedPart
  <2>6. CASE i' = i /\ j' = j + 1
    BY <1>1, <1>3, <2>1, <2>4, <2>5, <2>6
  <2>7. CASE i' = i + 1 /\ j' = i + 1 /\ j + 1 = DataSize(message)
    <3>1. b \in KeysOf(message) => b <= message.key + j
      BY <1>1, <2>1, <2>3, <2>7
    <3>2. a < message.key + i' <=> a < message.key + i \/ a = message.key + i
      BY <1>1, <2>1, <2>7
    <3>3. ~(a < b /\ a = message.key + i' /\ b < message.key + j')
      BY <1>1, <2>1, <2>7
    <3>4. b \in KeysOf(message) => (b = u \/ b < message.key + j)
      BY <1>1, <2>1, <3>1
    <3> QED
      BY <1>3, <2>4, <2>5, <3>2, <3>3, <3>4
  <2> QED
    BY <1>2, <2>6, <2>7
<1>8. \A k \in Keys : Weight(k)' = Weight(k)
  <2> TAKE k \in Keys
  <2>1. Naming(log, Base, k)' = Naming(log, Base, k)
    BY <1>1, <1>4
  <2> QED
    BY <1>6, <2>1 DEF Weight
<1>9. \A a, b \in Keys : PartOfBoth(a, b)' <=> PartOfBoth(a, b) \/ {a, b} = {v, u}
  <2> SUFFICES ASSUME NEW a \in Keys, NEW b \in Keys
               PROVE PartOfBoth(a, b)' <=> PartOfBoth(a, b) \/ {a, b} = {v, u}
    OBVIOUS
  <2>1. {a, b} = {v, u} <=> (a = v /\ b = u) \/ (b = v /\ a = u)
    <3> HIDE DEF v, u
    <3> QED
      OBVIOUS
  <2> QED
    BY <1>7, <2>1 DEF PartOfBoth
<1>10. \A a, b \in Keys : PairWeight(a, b)' =
                               PairWeight(a, b) + (IF {a, b} = {v, u} THEN 1 ELSE 0)
  <2> TAKE a, b \in Keys
  <2>1. NamingBoth(log, Base, a, b)' = NamingBoth(log, Base, a, b)
    BY <1>1, <1>4
  <2>2. NamingBoth(log, Base, a, b) \in Nat
    BY BaseFinite, NamingBothNat
  <2>3. {a, b} = {v, u} => ~PartOfBoth(a, b)
    <3> SUFFICES ASSUME {a, b} = {v, u} PROVE ~PartOfBoth(a, b)
      OBVIOUS
    <3>1. (a = v /\ b = u) \/ (b = v /\ a = u)
      <4> HIDE DEF v, u
      <4> QED
        OBVIOUS
    <3> QED
      BY <1>5, <3>1 DEF PartOfBoth
  <2> QED
    BY <1>9, <2>1, <2>2, <2>3 DEF PairWeight
<1>11. \A k \in Keys : Awaited(k)' <=> Awaited(k) \/ k = u
  <2> SUFFICES ASSUME NEW k \in Keys PROVE Awaited(k)' <=> Awaited(k) \/ k = u
    OBVIOUS
  <2>1. k \in Int
    BY KeysInt
  <2>2. KeysOf(message)' = KeysOf(message)
    BY <1>1
  <2>3. Awaited(k) <=> k \in KeysOf(message) /\ (k < message.key + j \/ i > 0)
    BY <1>1 DEF Awaited
  <2>4. Awaited(k)' <=> k \in KeysOf(message) /\ (k < message.key + j' \/ i' > 0)
    BY <1>1, <2>2 DEF Awaited
  <2>5. CASE i' = i /\ j' = j + 1
    BY SMTT(20), <1>1, <1>3, <2>1, <2>3, <2>4, <2>5
  <2>6. CASE i' = i + 1 /\ j + 1 = DataSize(message)
    <3>1. k \in KeysOf(message) => (k = u \/ k < message.key + j)
      BY <1>1, <2>1, <2>6
    <3>2. i' > 0
      BY <1>1, <2>6
    <3> QED
      BY <1>3, <2>3, <2>4, <3>1, <3>2
  <2> QED
    BY <1>2, <2>5, <2>6
<1>12. VW \in Weights /\ EW \in PairWeights /\ VW' \in Weights /\ EW' \in PairWeights
  BY WeightsTyped, WeightsTypedNext
<1>13. \A k \in Keys : Weight(k) \in Nat
  BY <1>12 DEF VW, Weights
<1>14. Keys' = Keys
  BY DEF Keys, KeysOf, DataSize
<1>15. Present' = Present \cup {u}
  BY <1>3, <1>8, <1>11, <1>13, <1>14 DEF Present
<1>16. VW' = VW
  BY <1>8, <1>14 DEF VW
<1>17. \A a, b \in Keys : EW'[a][b] = EW[a][b] + (IF {a, b} = {v, u} THEN 1 ELSE 0)
  <2>1. EW' = [a \in Keys |-> [b \in Keys |-> PairWeight(a, b)']]
    BY <1>14 DEF EW
  <2> HIDE DEF v, u
  <2> QED
    BY <1>10, <2>1 DEF EW
<1>18. v \in Present
  <2>1. Naming(log, Base, v) \in Nat
    BY BaseFinite, NamingNat
  <2>2. Weight(v) > 0
    BY <1>5, <2>1 DEF Weight
  <2> QED
    BY <1>3, <2>2 DEF Present
<1>19. u \notin Present => VW[u] = 0 /\ \A c \in Keys : EW[u][c] = 0
  <2> SUFFICES ASSUME u \notin Present
               PROVE VW[u] = 0 /\ \A c \in Keys : EW[u][c] = 0
    OBVIOUS
  <2>1. Weight(u) = 0 /\ ~Awaited(u)
    BY <1>3, <1>13 DEF Present
  <2>2. \A c \in Keys : NamingBoth(log, Base, u, c) = 0
    BY <1>3, <2>1, NoWeightNoPair
  <2>3. i = 0
    BY <1>1, <1>3, <2>1 DEF Awaited
  <2>4. \A c \in Keys : ~PartOfBoth(u, c)
    <3> TAKE c \in Keys
    <3>1. c \in Int
      BY KeysInt
    <3>2. c \in KeysOf(message) => message.key <= c
      BY <1>1
    <3> QED
      BY <1>1, <1>3, <2>3, <3>1, <3>2 DEF PartOfBoth, OrderedPart
  <2> QED
    BY <1>3, <2>1, <2>2, <2>4 DEF VW, EW, PairWeight
<1>20. EW[v][u] = EW[u][v]
  BY <1>3, PairWeightSymmetric DEF EW
<1>21. Shape(graph, VW, EW, Present)
  BY ExactIsShape
<1>22. Present \subseteq Keys
  BY DEF Present
<1>23. graph' = IncrementEdge(AddEdge(AddVertice(graph, u), v, u), v, u, 1)
  BY DEF UpdateEdge
<1>24. v # u
  BY <1>3
<1> HIDE DEF v, u
<1>25. Shape(AddVertice(graph, u), VW, EW, Present \cup {u})
  BY <1>3, <1>12, <1>19, <1>21, <1>22, AddVerticeShape
<1>26. /\ EW'[v][u] = EW[v][u] + 1
       /\ EW'[u][v] = EW[u][v] + 1
       /\ \A x, y \in Keys : {x, y} # {v, u} => EW'[x][y] = EW[x][y]
  <2>1. {u, v} = {v, u}
    OBVIOUS
  <2>2. \A x, y \in Keys : EW[x][y] \in Nat
    BY <1>12 DEF PairWeights
  <2>3. EW'[v][u] = EW[v][u] + 1
    BY <1>3, <1>17
  <2>4. EW'[u][v] = EW[u][v] + 1
    BY <1>3, <1>17, <2>1
  <2>5. \A x, y \in Keys : {x, y} # {v, u} => EW'[x][y] = EW[x][y]
    <3> TAKE x, y \in Keys
    <3>1. EW'[x][y] = EW[x][y] + (IF {x, y} = {v, u} THEN 1 ELSE 0)
      BY <1>17
    <3>2. EW[x][y] \in Nat
      BY <2>2
    <3> QED
      BY <3>1, <3>2
  <2> QED
    BY <2>3, <2>4, <2>5
<1>27. /\ Present \cup {u} \in SUBSET Keys
       /\ v \in Present \cup {u} /\ u \in (Present \cup {u}) \ {v}
  BY <1>3, <1>18, <1>22, <1>24
<1>28. Shape(IncrementEdge(AddEdge(AddVertice(graph, u), v, u), v, u, 1),
             VW, EW', Present \cup {u})
  BY <1>12, <1>20, <1>25, <1>26, <1>27, UpdateEdgeShape
<1>29. EdgeStep(v, u, 1)
  BY <1>3, <1>16, <1>26 DEF EdgeStep
<1>30. GraphExact'
  BY <1>15, <1>16, <1>23, <1>28, ExactIsShapeNext
<1> QED
  BY <1>18, <1>25, <1>29, <1>30 DEF v, u

LEMMA ExpireVertexExact ==
    ASSUME Basics, Basics', GraphExact, Positions, ExpireVertex
    PROVE  GraphExact' /\ VertexStep(message.key + i, -1)
<1> DEFINE v == message.key + i
<1>1. /\ message \in Requests /\ DataSize(message) \in Nat \ {0}
      /\ message.key \in Int /\ i \in Int /\ j \in Int
      /\ KeysOf(message) = message.key .. message.key + DataSize(message) - 1
      /\ KeysOf(message) \subseteq Keys
      /\ phase = "expire" /\ message' = message
      /\ phase' = IF i = 0 THEN "wait" ELSE "expire"
      /\ 0 <= i /\ i = j /\ i < DataSize(message)
      /\ i' = i - 1 /\ j' = DataSize(message) - 1
      /\ UNCHANGED <<log, message>>
  <2>1. /\ phase = "expire" /\ i = j /\ UNCHANGED <<log, message>>
        /\ phase' = IF i = 0 THEN "wait" ELSE "expire"
        /\ i' = i - 1 /\ j' = DataSize(message) - 1
    BY DEF ExpireVertex
  <2>2. 0 < TL /\ TL < Len(log) /\ message = log[Len(log) - TL]
    BY <2>1 DEF Positions
  <2>3. DataSize(message) \in Nat /\ i \in Int /\ j \in Int
    BY DataSizeNat DEF Basics
  <2>4. 0 <= i /\ j < DataSize(message)
    BY <2>1, <2>3 DEF Positions
  <2>5. message \in Requests
    BY <2>2, TLAssumption DEF Basics
  <2> QED
    BY <2>1, <2>3, <2>4, <2>5, DataSizeNat, KeysOfMessage DEF KeysOf
<1>2. v \in KeysOf(message) /\ v \in Keys /\ v \in Int
  BY <1>1
<1>3. Base' = Base
  BY <1>1, BaseSame
<1>4. PartOf(v)
  BY <1>1, <1>2 DEF PartOf
<1>5. \A k \in Keys : PartOf(k)' <=> PartOf(k) /\ k # v
  <2> SUFFICES ASSUME NEW k \in Keys PROVE PartOf(k)' <=> PartOf(k) /\ k # v
    OBVIOUS
  <2>1. k \in Int
    BY KeysInt
  <2>2. KeysOf(message)' = KeysOf(message)
    BY <1>1
  <2>3. k \in KeysOf(message) => message.key <= k
    BY <1>1
  <2> QED
    BY SMTT(20), <1>1, <2>1, <2>2, <2>3 DEF PartOf
<1>6. \A a, b \in Keys : OrderedPart(a, b)' <=> OrderedPart(a, b)
  <2> SUFFICES ASSUME NEW a \in Keys, NEW b \in Keys
               PROVE OrderedPart(a, b)' <=> OrderedPart(a, b)
    OBVIOUS
  <2>1. a \in Int /\ b \in Int
    BY KeysInt
  <2>2. KeysOf(message)' = KeysOf(message)
    BY <1>1
  <2>3. /\ b \in KeysOf(message) => b <= message.key + DataSize(message) - 1
        /\ a \in KeysOf(message) => message.key <= a
    BY <1>1
  <2> QED
    BY <1>1, <2>1, <2>2, <2>3 DEF OrderedPart
<1>7. \A k \in Keys : Weight(k)' = Weight(k) - (IF k = v THEN 1 ELSE 0)
  <2> TAKE k \in Keys
  <2>1. Naming(log, Base, k)' = Naming(log, Base, k)
    BY <1>1, <1>3
  <2>2. Naming(log, Base, k) \in Nat
    BY BaseFinite, NamingNat
  <2> QED
    BY <1>4, <1>5, <2>1, <2>2 DEF Weight
<1>8. \A a, b \in Keys : PairWeight(a, b)' = PairWeight(a, b)
  <2> TAKE a, b \in Keys
  <2>1. NamingBoth(log, Base, a, b)' = NamingBoth(log, Base, a, b)
    BY <1>1, <1>3
  <2> QED
    BY <1>6, <2>1 DEF PairWeight, PartOfBoth
<1>9. \A k : ~Awaited(k) /\ ~Awaited(k)'
  BY <1>1 DEF Awaited
<1>10. VW \in Weights /\ EW \in PairWeights /\ VW' \in Weights /\ EW' \in PairWeights
  BY WeightsTyped, WeightsTypedNext
<1>11. \A k \in Keys : Weight(k) \in Nat
  BY <1>10 DEF VW, Weights
<1>12. Keys' = Keys
  BY DEF Keys, KeysOf, DataSize
<1>13. EW' = EW
  BY <1>8, <1>12 DEF EW
<1>14. VW'[v] = VW[v] + (-1) /\ \A k \in Keys \ {v} : VW'[k] = VW[k]
  <2>1. VW' = [k \in Keys |-> Weight(k)']
    BY <1>12 DEF VW
  <2> QED
    BY <1>2, <1>7, <1>11, <2>1 DEF VW
<1>15. v \in Present /\ Present \in SUBSET Keys
  <2>1. Naming(log, Base, v) \in Nat
    BY BaseFinite, NamingNat
  <2>2. Weight(v) > 0
    BY <1>4, <2>1 DEF Weight
  <2> QED
    BY <1>2, <2>2 DEF Present
<1>16. Present' = IF VW'[v] = 0 THEN Present \ {v} ELSE Present
  <2>1. Present' = {k \in Keys : Weight(k)' > 0}
    BY <1>9, <1>12 DEF Present
  <2>2. Present = {k \in Keys : Weight(k) > 0}
    BY <1>9 DEF Present
  <2>3. \A k \in Keys : VW'[k] = Weight(k)' /\ VW'[k] \in Nat
    <3>1. VW' = [k \in Keys |-> Weight(k)']
      BY <1>12 DEF VW
    <3>2. \A k \in Keys : VW'[k] \in Nat
      BY <1>10 DEF Weights
    <3> QED
      BY <3>1, <3>2
  <2>4. \A k \in Keys \ {v} : Weight(k)' = Weight(k)
    BY <1>7, <1>11
  <2> HIDE DEF v
  <2>5. \A k \in Keys \ {v} : k \in Present' <=> k \in Present
    BY <2>1, <2>2, <2>4
  <2>6. \A k \in Keys : k \in Present' <=> VW'[k] # 0
    BY <2>1, <2>3
  <2>7. Present' \subseteq Keys
    BY <2>1
  <2> QED
    BY <1>15, <2>5, <2>6, <2>7
<1>17. Shape(graph, VW, EW, Present)
  BY ExactIsShape
<1>18. graph' = RemoveWeightlessVertice(IncrementVertice(graph, v, -1), v)
  BY DEF ExpireVertex
<1> HIDE DEF v
<1>19. Shape(IncrementVertice(graph, v, -1), VW', EW, Present)
  BY <1>10, <1>14, <1>15, <1>17, IncrementVerticeShape
<1>20. Shape(graph', VW', EW, IF VW'[v] = 0 THEN Present \ {v} ELSE Present)
  BY <1>10, <1>15, <1>18, <1>19, RemoveVerticeShape
<1>21. VertexStep(v, -1)
  BY <1>2, <1>13, <1>14 DEF VertexStep
<1>22. GraphExact'
  BY <1>13, <1>16, <1>20, ExactIsShapeNext
<1> QED
  BY <1>21, <1>22 DEF v

LEMMA ExpireEdgeExact ==
    ASSUME Basics, Basics', GraphExact, Positions, ExpireEdge
    PROVE  /\ GraphExact' /\ EdgeStep(message.key + i, message.key + j, -1)
           /\ message.key + i \in Present
<1> DEFINE v == message.key + i
           u == message.key + j
<1>1. /\ message \in Requests /\ DataSize(message) \in Nat \ {0}
      /\ message.key \in Int /\ i \in Int /\ j \in Int
      /\ KeysOf(message) = message.key .. message.key + DataSize(message) - 1
      /\ KeysOf(message) \subseteq Keys
      /\ phase = "expire" /\ phase' = "expire" /\ message' = message
      /\ 0 <= i /\ i < j /\ j < DataSize(message)
      /\ i' = i /\ j' = j - 1
      /\ UNCHANGED <<log, message>>
  <2>1. /\ phase = "expire" /\ i < j /\ UNCHANGED <<log, message, phase, i>>
        /\ j' = j - 1
    BY DEF ExpireEdge
  <2>2. 0 < TL /\ TL < Len(log) /\ message = log[Len(log) - TL]
    BY <2>1 DEF Positions
  <2>3. DataSize(message) \in Nat /\ i \in Int /\ j \in Int
    BY DataSizeNat DEF Basics
  <2>4. 0 <= i /\ j < DataSize(message)
    BY <2>1, <2>3 DEF Positions
  <2>5. message \in Requests
    BY <2>2, TLAssumption DEF Basics
  <2> QED
    BY <2>1, <2>3, <2>4, <2>5, DataSizeNat, KeysOfMessage DEF KeysOf
<1>2. /\ v \in KeysOf(message) /\ v \in Keys /\ v \in Int
      /\ u \in KeysOf(message) /\ u \in Keys /\ u \in Int
      /\ v < u
  BY <1>1
<1>3. Base' = Base
  BY <1>1, BaseSame
<1>4. PartOfBoth(v, u) /\ PartOf(v) /\ ~PartOf(u)
  BY <1>1, <1>2 DEF PartOfBoth, OrderedPart, PartOf
<1>5. \A k \in Keys : PartOf(k)' <=> PartOf(k)
  <2>1. KeysOf(message)' = KeysOf(message)
    BY <1>1
  <2> QED
    BY <1>1, <2>1 DEF PartOf
<1>6. \A a, b \in Keys : OrderedPart(a, b)' <=> OrderedPart(a, b) /\ ~(a = v /\ b = u)
  <2> SUFFICES ASSUME NEW a \in Keys, NEW b \in Keys
               PROVE OrderedPart(a, b)' <=> OrderedPart(a, b) /\ ~(a = v /\ b = u)
    OBVIOUS
  <2>1. a \in Int /\ b \in Int
    BY KeysInt
  <2>2. KeysOf(message)' = KeysOf(message)
    BY <1>1
  <2> QED
    BY SMTT(20), <1>1, <2>1, <2>2 DEF OrderedPart
<1>7. \A k \in Keys : Weight(k)' = Weight(k)
  <2> TAKE k \in Keys
  <2>1. Naming(log, Base, k)' = Naming(log, Base, k)
    BY <1>1, <1>3
  <2> QED
    BY <1>5, <2>1 DEF Weight
<1>8. \A a, b \in Keys : PartOfBoth(a, b)' <=> PartOfBoth(a, b) /\ {a, b} # {v, u}
  <2> SUFFICES ASSUME NEW a \in Keys, NEW b \in Keys
               PROVE PartOfBoth(a, b)' <=> PartOfBoth(a, b) /\ {a, b} # {v, u}
    OBVIOUS
  <2>1. {a, b} = {v, u} <=> (a = v /\ b = u) \/ (b = v /\ a = u)
    <3> HIDE DEF v, u
    <3> QED
      OBVIOUS
  <2>2. ~OrderedPart(u, v)
    BY <1>2 DEF OrderedPart
  <2>3. OrderedPart(a, b)' <=> OrderedPart(a, b) /\ ~(a = v /\ b = u)
    BY <1>6
  <2>4. OrderedPart(b, a)' <=> OrderedPart(b, a) /\ ~(b = v /\ a = u)
    BY <1>6
  <2> HIDE DEF v, u
  <2>5. CASE a = v /\ b = u
    BY <2>1, <2>2, <2>3, <2>4, <2>5 DEF PartOfBoth
  <2>6. CASE b = v /\ a = u
    BY <2>1, <2>2, <2>3, <2>4, <2>6 DEF PartOfBoth
  <2>7. CASE {a, b} # {v, u}
    BY <2>1, <2>3, <2>4, <2>7 DEF PartOfBoth
  <2> QED
    BY <2>1, <2>5, <2>6, <2>7
<1>9. \A a, b \in Keys : {a, b} = {v, u} => PartOfBoth(a, b)
  <2> SUFFICES ASSUME NEW a \in Keys, NEW b \in Keys, {a, b} = {v, u}
               PROVE PartOfBoth(a, b)
    OBVIOUS
  <2>1. (a = v /\ b = u) \/ (b = v /\ a = u)
    <3> HIDE DEF v, u
    <3> QED
      OBVIOUS
  <2> QED
    BY <1>4, <2>1 DEF PartOfBoth
<1>10. \A a, b \in Keys : PairWeight(a, b)' =
                               PairWeight(a, b) - (IF {a, b} = {v, u} THEN 1 ELSE 0)
  <2> TAKE a, b \in Keys
  <2>1. NamingBoth(log, Base, a, b)' = NamingBoth(log, Base, a, b)
    BY <1>1, <1>3
  <2>2. NamingBoth(log, Base, a, b) \in Nat
    BY BaseFinite, NamingBothNat
  <2> HIDE DEF v, u
  <2>3. CASE {a, b} = {v, u}
    <3>1. PartOfBoth(a, b) /\ ~PartOfBoth(a, b)'
      BY <1>8, <1>9, <2>3
    <3> QED
      BY <2>1, <2>2, <2>3, <3>1 DEF PairWeight
  <2>4. CASE {a, b} # {v, u}
    <3>1. PartOfBoth(a, b)' <=> PartOfBoth(a, b)
      BY <1>8, <2>4
    <3> QED
      BY <2>1, <2>2, <2>4, <3>1 DEF PairWeight
  <2> QED
    BY <2>3, <2>4
<1>11. \A k : ~Awaited(k) /\ ~Awaited(k)'
  BY <1>1 DEF Awaited
<1>12. VW \in Weights /\ EW \in PairWeights /\ VW' \in Weights /\ EW' \in PairWeights
  BY WeightsTyped, WeightsTypedNext
<1>13. \A k \in Keys : Weight(k) \in Nat
  BY <1>12 DEF VW, Weights
<1>14. Keys' = Keys
  BY DEF Keys, KeysOf, DataSize
<1>15. Present' = Present
  BY <1>7, <1>11, <1>14 DEF Present
<1>16. VW' = VW
  BY <1>7, <1>14 DEF VW
<1>17. \A a, b \in Keys : EW'[a][b] = EW[a][b] - (IF {a, b} = {v, u} THEN 1 ELSE 0)
  <2>1. EW' = [a \in Keys |-> [b \in Keys |-> PairWeight(a, b)']]
    BY <1>14 DEF EW
  <2> HIDE DEF v, u
  <2> QED
    BY <1>10, <2>1 DEF EW
<1>18. v \in Present
  <2>1. Naming(log, Base, v) \in Nat
    BY BaseFinite, NamingNat
  <2>2. Weight(v) > 0
    BY <1>4, <2>1 DEF Weight
  <2> QED
    BY <1>2, <2>2 DEF Present
<1>19. EW[v][u] = PairWeight(v, u) /\ EW[v][u] = EW[u][v]
  BY <1>2, PairWeightSymmetric DEF EW
<1>20. PairWeight(v, u) = NamingBoth(log, Base, u, v) + 1
  <2>1. NamingBoth(log, Base, v, u) = NamingBoth(log, Base, u, v)
    BY NamingBothSymmetric
  <2> QED
    BY <1>4, <2>1 DEF PairWeight
<1>21. EW[v][u] > 0
  <2>1. NamingBoth(log, Base, u, v) \in Nat
    BY BaseFinite, NamingBothNat
  <2> QED
    BY <1>19, <1>20, <2>1
<1>22. u \notin Present => EW[v][u] = 1
  <2> SUFFICES ASSUME u \notin Present PROVE EW[v][u] = 1
    OBVIOUS
  <2>1. Weight(u) = 0
    BY <1>2, <1>13 DEF Present
  <2>2. NamingBoth(log, Base, u, v) = 0
    BY <1>2, <2>1, NoWeightNoPair
  <2> QED
    BY <1>19, <1>20, <2>2
<1>23. u \in Present => VW[u] > 0
  BY <1>11 DEF Present, VW
<1>24. Shape(graph, VW, EW, Present)
  BY ExactIsShape
<1>25. graph' = RemoveWeightlessVertice(
                    RemoveWeightlessEdge(IncrementEdge(graph, v, u, -1), v, u), u)
  BY DEF ExpireEdge
<1>26. Present \in SUBSET Keys /\ u \in Keys \ {v} /\ v \in Keys
  BY <1>2 DEF Present
<1> HIDE DEF v, u
<1>27. /\ EW'[v][u] = EW[v][u] - 1
       /\ EW'[u][v] = EW[u][v] - 1
       /\ \A x, y \in Keys : {x, y} # {v, u} => EW'[x][y] = EW[x][y]
  <2>1. {u, v} = {v, u}
    OBVIOUS
  <2>2. \A x, y \in Keys : EW[x][y] \in Nat
    BY <1>12 DEF PairWeights
  <2>3. EW'[v][u] = EW[v][u] - 1
    BY <1>17, <1>26
  <2>4. EW'[u][v] = EW[u][v] - 1
    BY <1>17, <1>26, <2>1
  <2>5. \A x, y \in Keys : {x, y} # {v, u} => EW'[x][y] = EW[x][y]
    <3> TAKE x, y \in Keys
    <3>1. EW'[x][y] = EW[x][y] - (IF {x, y} = {v, u} THEN 1 ELSE 0)
      BY <1>17
    <3>2. EW[x][y] \in Nat
      BY <2>2
    <3> QED
      BY <3>1, <3>2
  <2> QED
    BY <2>3, <2>4, <2>5
<1>28. Shape(graph', VW, EW', Present)
  BY <1>12, <1>18, <1>19, <1>21, <1>22, <1>23, <1>24, <1>25, <1>26, <1>27,
     ExpireEdgeShape
<1>29. EdgeStep(v, u, -1)
  <2>1. EW[v][u] - 1 = EW[v][u] + (-1)
    BY <1>12, <1>26 DEF PairWeights
  <2>2. v < u
    BY <1>2 DEF v, u
  <2> QED
    BY <1>16, <1>26, <1>27, <2>1, <2>2 DEF EdgeStep
<1>30. GraphExact'
  BY <1>15, <1>16, <1>28, ExactIsShapeNext
<1> QED
  BY <1>18, <1>29, <1>30 DEF v, u

(* A step that changes the weights of nothing leaves an exact graph exact.   *)
LEMMA SameWeights ==
    ASSUME QuietStep, GraphExact, Present' = Present
    PROVE  GraphExact'
<1> USE DEF QuietStep
<1>1. Keys' = Keys /\ Present \subseteq Keys
  BY DEF Keys, KeysOf, DataSize, Present
<1>2. \A a \in Present : Linked(a)' = Linked(a) /\ Linked(a) \subseteq Keys \ {a}
  BY <1>1 DEF Linked
<1>3. [k \in Present |-> Weight(k)'] = [k \in Present |-> Weight(k)]
  BY <1>1
<1>4. \A a \in Present :
          [b \in Linked(a) |-> PairWeight(a, b)'] = [b \in Linked(a) |-> PairWeight(a, b)]
  BY <1>1, <1>2
<1>5. [a \in Present |-> [b \in Linked(a)' |-> PairWeight(a, b)']] =
          [a \in Present |-> [b \in Linked(a) |-> PairWeight(a, b)]]
  BY <1>2, <1>4
<1>6. /\ DOMAIN graph = Fields
      /\ graph = [f \in Fields |-> graph[f]]
      /\ graph.vertex = [k \in Present |-> Weight(k)]
      /\ graph.edges = [a \in Present |-> [b \in Linked(a) |-> PairWeight(a, b)]]
  BY DEF GraphExact
<1> QED
  BY <1>3, <1>5, <1>6 DEF GraphExact, Fields

LEMMA BeginExact ==
    ASSUME Basics, GraphExact, NEW m \in Requests, Begin(m)
    PROVE  GraphExact' /\ QuietStep
<1>1. /\ phase = "wait" /\ phase' = "update" /\ log' = Append(log, m)
      /\ message' = m /\ i' = 0 /\ j' = 0 /\ graph' = graph
  BY DEF Begin
<1>2. /\ log \in Seq(Requests) /\ Len(log) \in Nat /\ Len(log') = Len(log) + 1
      /\ DOMAIN log = 1..Len(log) /\ DOMAIN log' = 1..Len(log) + 1
      /\ \A n \in 1..Len(log) : log'[n] = log[n]
  BY <1>1 DEF Basics
<1>3. Base' = Base
  <2>1. Base' = {n \in DOMAIN log' : n < Len(log') /\ (TL > 0 => n >= Len(log') - TL)}
    BY <1>1 DEF Base
  <2>2. Base = {n \in DOMAIN log : TL > 0 => n > Len(log) - TL}
    BY <1>1 DEF Base
  <2>3. \A n : n \in DOMAIN log' /\ n < Len(log') <=> n \in DOMAIN log
    BY <1>2
  <2>4. \A n \in DOMAIN log : n >= Len(log') - TL <=> n > Len(log) - TL
    BY <1>2, TLAssumption
  <2> QED
    BY <2>1, <2>2, <2>3, <2>4
<1>4. \A n \in Base : log'[n] = log[n]
  BY <1>2, BaseFinite
<1>5. \A k : ~PartOf(k) /\ ~PartOf(k)'
  <2>1. m.key \in Int
    BY DataSizeNat
  <2>2. \A k \in KeysOf(m) : k >= m.key /\ k \in Int
    BY <2>1, DataSizeNat DEF KeysOf
  <2>3. \A k : ~PartOf(k)
    BY <1>1 DEF PartOf
  <2>4. KeysOf(message)' = KeysOf(m)
    BY <1>1 DEF KeysOf, DataSize
  <2> QED
    BY <1>1, <2>1, <2>2, <2>3, <2>4 DEF PartOf
<1>6. \A a, b : ~OrderedPart(a, b) /\ ~OrderedPart(a, b)'
  <2>1. m.key \in Int
    BY DataSizeNat
  <2>2. \A k \in KeysOf(m) : k >= m.key /\ k \in Int
    BY <2>1, DataSizeNat DEF KeysOf
  <2>3. \A a, b : ~OrderedPart(a, b)
    BY <1>1 DEF OrderedPart
  <2>4. KeysOf(message)' = KeysOf(m)
    BY <1>1 DEF KeysOf, DataSize
  <2>5. \A a, b : ~OrderedPart(a, b)'
    BY <1>1, <2>1, <2>2, <2>4 DEF OrderedPart
  <2> QED
    BY <2>3, <2>5
<1>7. \A k \in Keys : Weight(k)' = Weight(k)
  <2> TAKE k \in Keys
  <2>1. Naming(log', Base, k) = Naming(log, Base, k)
    BY <1>4, NamingSame
  <2> QED
    BY <1>3, <1>5, <2>1 DEF Weight
<1>8. \A a, b \in Keys : PairWeight(a, b)' = PairWeight(a, b)
  <2> TAKE a, b \in Keys
  <2>1. NamingBoth(log', Base, a, b) = NamingBoth(log, Base, a, b)
    BY <1>4, NamingSame
  <2> QED
    BY <1>3, <1>6, <2>1 DEF PairWeight, PartOfBoth
<1>9. \A k \in Keys : ~Awaited(k) /\ ~Awaited(k)'
  <2>1. m.key \in Int
    BY DataSizeNat
  <2>2. \A k \in KeysOf(m) : k >= m.key /\ k \in Int
    BY <2>1, DataSizeNat DEF KeysOf
  <2>3. KeysOf(message)' = KeysOf(m)
    BY <1>1 DEF KeysOf, DataSize
  <2> QED
    BY <1>1, <2>1, <2>2, <2>3 DEF Awaited
<1>10. Present' = Present
  <2>1. Keys' = Keys
    BY DEF Keys, KeysOf, DataSize
  <2> QED
    BY <1>7, <1>9, <2>1 DEF Present
<1>11. QuietStep
  BY <1>1, <1>7, <1>8 DEF QuietStep
<1> QED
  BY <1>10, <1>11, SameWeights

(* What the message being added weighs when it is wholly added.              *)
LEMMA AddedWhole ==
    ASSUME Basics, Positions, phase = "update", i = DataSize(message)
    PROVE  /\ \A k \in Keys : Weight(k) = Naming(log, Base \cup {Len(log)}, k)
           /\ \A a, b \in Keys : a # b =>
                  PairWeight(a, b) = NamingBoth(log, Base \cup {Len(log)}, a, b)
           /\ Present = {k \in Keys : Weight(k) > 0}
<1>1. /\ Len(log) \in Nat /\ Len(log) > 0 /\ DOMAIN log = 1..Len(log)
      /\ message = log[Len(log)] /\ message \in Requests
  BY DEF Basics, Positions
<1>2. /\ DataSize(message) \in Nat \ {0} /\ message.key \in Int
      /\ KeysOf(message) = message.key .. message.key + DataSize(message) - 1
  BY <1>1, DataSizeNat DEF KeysOf
<1>3. Len(log) \notin Base
  BY <1>1 DEF Base
<1>4. IsFiniteSet(Base)
  BY BaseFinite
<1>5. \A k \in Keys : PartOf(k) <=> k \in KeysOf(message)
  BY <1>2 DEF PartOf
<1>6. \A a, b \in Keys : a # b => (PartOfBoth(a, b) <=> {a, b} \subseteq KeysOf(message))
  <2> SUFFICES ASSUME NEW a \in Keys, NEW b \in Keys, a # b
               PROVE PartOfBoth(a, b) <=> {a, b} \subseteq KeysOf(message)
    OBVIOUS
  <2>1. a \in Int /\ b \in Int
    BY KeysInt
  <2>2. OrderedPart(a, b) <=> a < b /\ {a, b} \subseteq KeysOf(message)
    BY <1>2, <2>1 DEF OrderedPart
  <2>3. OrderedPart(b, a) <=> b < a /\ {a, b} \subseteq KeysOf(message)
    BY <1>2, <2>1 DEF OrderedPart
  <2> QED
    BY <2>1, <2>2, <2>3 DEF PartOfBoth
<1>7. \A k \in Keys : Weight(k) = Naming(log, Base \cup {Len(log)}, k)
  <2> TAKE k \in Keys
  <2>1. Naming(log, Base \cup {Len(log)}, k) =
            Naming(log, Base, k) + (IF k \in KeysOf(log[Len(log)]) THEN 1 ELSE 0)
    BY <1>3, <1>4, NamingOneMore
  <2> QED
    BY <1>1, <1>5, <2>1 DEF Weight
<1>8. \A a, b \in Keys : a # b =>
          PairWeight(a, b) = NamingBoth(log, Base \cup {Len(log)}, a, b)
  <2> SUFFICES ASSUME NEW a \in Keys, NEW b \in Keys, a # b
               PROVE PairWeight(a, b) = NamingBoth(log, Base \cup {Len(log)}, a, b)
    OBVIOUS
  <2>1. NamingBoth(log, Base \cup {Len(log)}, a, b) =
            NamingBoth(log, Base, a, b)
                + (IF {a, b} \subseteq KeysOf(log[Len(log)]) THEN 1 ELSE 0)
    BY <1>3, <1>4, NamingBothOneMore
  <2>2. PartOfBoth(a, b) <=> {a, b} \subseteq KeysOf(log[Len(log)])
    BY <1>1, <1>6
  <2>3. PairWeight(a, b) = NamingBoth(log, Base, a, b) + (IF PartOfBoth(a, b) THEN 1 ELSE 0)
    BY DEF PairWeight
  <2>4. CASE PartOfBoth(a, b)
    BY <2>1, <2>2, <2>3, <2>4
  <2>5. CASE ~PartOfBoth(a, b)
    BY <2>1, <2>2, <2>3, <2>5
  <2> QED
    BY <2>4, <2>5
<1>9. \A k \in Keys : Awaited(k) => Weight(k) > 0
  <2> TAKE k \in Keys
  <2>1. Awaited(k) => PartOf(k)
    BY <1>5 DEF Awaited
  <2>2. Naming(log, Base, k) \in Nat
    BY <1>4, NamingNat
  <2> QED
    BY <2>1, <2>2 DEF Weight
<1> QED
  BY <1>7, <1>8, <1>9 DEF Present

(* The message at the head of the deletion queue.                            *)
LEMMA Expired ==
    ASSUME Basics, Positions, QueueExact, phase = "update", TL > 0
    PROVE  /\ deletion \in Seq(Requests \cup {Dummy})
           /\ Len(deletion) = TL
           /\ Head(Append(deletion, message)) =
                  IF Len(log) > TL THEN log[Len(log) - TL] ELSE Dummy
<1>1. /\ Len(log) \in Nat /\ Len(log) > 0 /\ \A n \in 1..Len(log) : log[n] \in Requests
      /\ TL \in Nat /\ Added = Len(log) - 1
  BY TLAssumption DEF Basics, Positions, Added
<1>2. \A n \in 1..TL : deletion[n] =
          IF Len(log) - 1 - TL + n > 0 THEN log[Len(log) - 1 - TL + n] ELSE Dummy
  BY <1>1 DEF QueueExact
<1>3. \A n \in 1..TL : deletion[n] \in Requests \cup {Dummy}
  <2> TAKE n \in 1..TL
  <2>1. CASE Len(log) - 1 - TL + n > 0
    <3>1. Len(log) - 1 - TL + n \in 1..Len(log)
      BY <1>1, <2>1
    <3> QED
      BY <1>1, <1>2, <2>1, <3>1
  <2>2. CASE ~(Len(log) - 1 - TL + n > 0)
    BY <1>2, <2>2
  <2> QED
    BY <2>1, <2>2
<1>4. deletion = [n \in 1..TL |-> deletion[n]]
  BY DEF QueueExact
<1>5. deletion \in Seq(Requests \cup {Dummy}) /\ Len(deletion) = TL
  BY <1>1, <1>3, <1>4
<1>6. message \in Requests \cup {Dummy}
  BY DEF Basics
<1>7. Head(Append(deletion, message)) = deletion[1]
  BY <1>1, <1>5, <1>6
<1>8. deletion[1] = IF Len(log) > TL THEN log[Len(log) - TL] ELSE Dummy
  <2>1. 1 \in 1..TL
    BY <1>1
  <2>2. Len(log) - 1 - TL + 1 = Len(log) - TL
    BY <1>1
  <2>3. Len(log) - TL > 0 <=> Len(log) > TL
    BY <1>1
  <2> QED
    BY <1>2, <2>1, <2>2, <2>3
<1> QED
  BY <1>5, <1>7, <1>8

LEMMA RetireExact ==
    ASSUME Basics, Basics', GraphExact, QueueExact, Positions, Retire
    PROVE  GraphExact' /\ QuietStep
<1> DEFINE L == Len(log)
           Whole == Base \cup {L}
<1>1. /\ phase = "update" /\ i = DataSize(message)
      /\ graph' = graph /\ log' = log
  BY DEF Retire
<1>2. /\ L \in Nat /\ L > 0 /\ DOMAIN log = 1..L
      /\ \A n \in 1..L : log[n] \in Requests
  BY <1>1 DEF Basics, Positions
<1>3. /\ \A k \in Keys : Weight(k) = Naming(log, Whole, k)
      /\ \A a, b \in Keys : a # b => PairWeight(a, b) = NamingBoth(log, Whole, a, b)
      /\ Present = {k \in Keys : Weight(k) > 0}
  BY <1>1, AddedWhole
<1>4. Whole = {n \in 1..L : TL > 0 => n >= L - TL}
  <2>1. Base = {n \in 1..L : n < L /\ (TL > 0 => n >= L - TL)}
    BY <1>1, <1>2 DEF Base
  <2> QED
    BY <1>2, <2>1, TLAssumption
<1>5. phase' # "update"
  BY DEF Retire
<1>6. Base' = {n \in 1..L : TL > 0 => n > L - TL}
  BY <1>1, <1>2, <1>5 DEF Base
<1>7. /\ \A k \in Keys : Weight(k)' = Weight(k)
      /\ \A a, b \in Keys : a # b => PairWeight(a, b)' = PairWeight(a, b)
  <2>1. CASE phase' = "wait"
    <3>1. ~(TL > 0 /\ L > TL)
      <4> SUFFICES ASSUME TL > 0, L > TL PROVE FALSE
        OBVIOUS
      <4>1. Head(Append(deletion, message)) = log[L - TL]
        BY <1>1, Expired
      <4>2. L - TL \in 1..L
        BY <1>2, TLAssumption
      <4>3. log[L - TL].type # "DUMMY"
        BY <1>2, <4>2, KeysOfMessage
      <4> QED
        BY <2>1, <4>1, <4>3, TLAssumption DEF Retire
    <3>2. Base' = Whole
      BY <1>2, <1>4, <1>6, <3>1, TLAssumption
    <3>3. \A k, a, b : ~PartOf(k)' /\ ~OrderedPart(a, b)'
      BY <2>1 DEF PartOf, OrderedPart
    <3>4. IsFiniteSet(Whole)
      BY BaseFinite, FS_AddElement
    <3>5. \A k \in Keys : Weight(k)' = Weight(k)
      <4> TAKE k \in Keys
      <4>1. Naming(log, Whole, k) \in Nat
        BY <3>4, NamingNat
      <4>2. Weight(k)' = Naming(log', Base', k) + (IF PartOf(k)' THEN 1 ELSE 0)
        BY DEF Weight
      <4>3. Naming(log', Base', k) = Naming(log, Whole, k)
        BY <1>1, <3>2
      <4>4. ~PartOf(k)' /\ Weight(k) = Naming(log, Whole, k)
        BY <1>3, <3>3
      <4> HIDE DEF Whole
      <4> QED
        BY <4>1, <4>2, <4>3, <4>4
    <3>6. \A a, b \in Keys : a # b => PairWeight(a, b)' = PairWeight(a, b)
      <4> SUFFICES ASSUME NEW a \in Keys, NEW b \in Keys, a # b
                   PROVE PairWeight(a, b)' = PairWeight(a, b)
        OBVIOUS
      <4>1. NamingBoth(log, Whole, a, b) \in Nat
        BY <3>4, NamingBothNat
      <4>2. PairWeight(a, b)' = NamingBoth(log', Base', a, b)
                                    + (IF PartOfBoth(a, b)' THEN 1 ELSE 0)
        BY DEF PairWeight
      <4>3. ~PartOfBoth(a, b)'
        BY <3>3 DEF PartOfBoth
      <4>4. NamingBoth(log', Base', a, b) = NamingBoth(log, Whole, a, b)
        BY <1>1, <3>2
      <4>5. PairWeight(a, b) = NamingBoth(log, Whole, a, b)
        BY <1>3
      <4> HIDE DEF Whole
      <4> QED
        BY <4>1, <4>2, <4>3, <4>4, <4>5
    <3> QED
      BY <3>5, <3>6
  <2>2. CASE phase' = "expire"
    <3> DEFINE o == L - TL
               e == log[o]
    <3>1. /\ TL > 0
          /\ message' = Head(Append(deletion, message))
          /\ i' = DataSize(Head(Append(deletion, message))) - 1
          /\ j' = DataSize(Head(Append(deletion, message))) - 1
          /\ Head(Append(deletion, message)).type # "DUMMY"
      BY <2>2, TLAssumption DEF Retire
    <3>2. L > TL /\ Head(Append(deletion, message)) = e
      <4>1. Head(Append(deletion, message)) =
                IF L > TL THEN log[L - TL] ELSE Dummy
        BY <1>1, <3>1, Expired
      <4>2. Dummy.type = "DUMMY"
        BY DEF Dummy
      <4> QED
        BY <3>1, <4>1, <4>2
    <3>3. o \in 1..L /\ e \in Requests
      BY <1>2, <3>1, <3>2, TLAssumption
    <3>4. Whole = Base' \cup {o} /\ o \notin Base'
      <4>1. Whole = {n \in 1..L : n >= o}
        BY <1>4, <3>1
      <4>2. Base' = {n \in 1..L : n > o}
        BY <1>6, <3>1
      <4>3. \A n \in 1..L : n >= o <=> n > o \/ n = o
        BY <3>3
      <4>4. o \notin Base'
        BY <3>3, <4>2
      <4> HIDE DEF o, Whole
      <4> QED
        BY <3>3, <4>1, <4>2, <4>3, <4>4
    <3>5. IsFiniteSet(Base')
      <4>1. IsFiniteSet(1..L)
        BY <1>2, FS_Interval
      <4>2. Base' \subseteq 1..L
        BY <1>6
      <4> QED
        BY <4>1, <4>2, FS_Subset
    <3>6. /\ message' = e /\ i' = DataSize(e) - 1 /\ j' = DataSize(e) - 1
          /\ KeysOf(message)' = KeysOf(e)
      BY <3>1, <3>2 DEF KeysOf, DataSize
    <3>7. /\ DataSize(e) \in Nat \ {0} /\ e.key \in Int
          /\ KeysOf(e) = e.key .. e.key + DataSize(e) - 1
      BY <3>3, DataSizeNat DEF KeysOf
    <3> HIDE DEF e, o, Whole
    <3>8. \A k \in Keys : PartOf(k)' <=> k \in KeysOf(e)
      <4> SUFFICES ASSUME NEW k \in Keys PROVE PartOf(k)' <=> k \in KeysOf(e)
        OBVIOUS
      <4>1. PartOf(k)' <=> k \in KeysOf(e) /\ k <= e.key + (DataSize(e) - 1)
        BY <2>2, <3>6 DEF PartOf
      <4> QED
        BY <3>7, <4>1
    <3>9. \A a, b \in Keys : OrderedPart(a, b)' <=> a < b /\ {a, b} \subseteq KeysOf(e)
      <4> SUFFICES ASSUME NEW a \in Keys, NEW b \in Keys
                   PROVE OrderedPart(a, b)' <=> a < b /\ {a, b} \subseteq KeysOf(e)
        OBVIOUS
      <4>1. OrderedPart(a, b)' <=>
                /\ a < b /\ {a, b} \subseteq KeysOf(e)
                /\ \/ a < e.key + (DataSize(e) - 1)
                   \/ a = e.key + (DataSize(e) - 1) /\ b <= e.key + (DataSize(e) - 1)
        BY <2>2, <3>6 DEF OrderedPart
      <4>2. a \in Int /\ b \in Int
        BY KeysInt
      <4>3. b \in KeysOf(e) => b <= e.key + (DataSize(e) - 1)
        BY <3>7
      <4> QED
        BY <3>7, <4>1, <4>2, <4>3
    <3>10. \A k \in Keys : Weight(k)' = Weight(k)
      <4> TAKE k \in Keys
      <4>1. Naming(log, Base' \cup {o}, k) =
                Naming(log, Base', k) + (IF k \in KeysOf(e) THEN 1 ELSE 0)
        BY <3>4, <3>5, NamingOneMore DEF e
      <4>2. Weight(k)' = Naming(log', Base', k) + (IF PartOf(k)' THEN 1 ELSE 0)
        BY DEF Weight
      <4> QED
        BY <1>1, <1>3, <3>4, <3>8, <4>1, <4>2
    <3>11. \A a, b \in Keys : a # b => PairWeight(a, b)' = PairWeight(a, b)
      <4> SUFFICES ASSUME NEW a \in Keys, NEW b \in Keys, a # b
                   PROVE PairWeight(a, b)' = PairWeight(a, b)
        OBVIOUS
      <4>1. NamingBoth(log, Base' \cup {o}, a, b) =
                NamingBoth(log, Base', a, b)
                    + (IF {a, b} \subseteq KeysOf(e) THEN 1 ELSE 0)
        BY <3>4, <3>5, NamingBothOneMore DEF e
      <4>2. PairWeight(a, b)' = NamingBoth(log', Base', a, b)
                                    + (IF PartOfBoth(a, b)' THEN 1 ELSE 0)
        BY DEF PairWeight
      <4>3. PartOfBoth(a, b)' <=> {a, b} \subseteq KeysOf(e)
        <5>1. a \in Int /\ b \in Int
          BY KeysInt
        <5>2. OrderedPart(a, b)' <=> a < b /\ {a, b} \subseteq KeysOf(e)
          BY <3>9
        <5>3. OrderedPart(b, a)' <=> b < a /\ {a, b} \subseteq KeysOf(e)
          BY <3>9
        <5> QED
          BY <5>1, <5>2, <5>3 DEF PartOfBoth
      <4>4. PairWeight(a, b) = NamingBoth(log, Base' \cup {o}, a, b)
        BY <1>3, <3>4
      <4>5. CASE PartOfBoth(a, b)'
        BY <1>1, <4>1, <4>2, <4>3, <4>4, <4>5
      <4>6. CASE ~PartOfBoth(a, b)'
        BY <1>1, <4>1, <4>2, <4>3, <4>4, <4>6
      <4> QED
        BY <4>5, <4>6
    <3> QED
      BY <3>10, <3>11
  <2> QED
    BY <1>5, <2>1, <2>2 DEF Basics
<1>8. Present' = Present
  <2>1. Keys' = Keys
    BY DEF Keys, KeysOf, DataSize
  <2>2. \A k : ~Awaited(k)'
    BY <1>5 DEF Awaited
  <2> QED
    BY <1>3, <1>7, <2>1, <2>2 DEF Present
<1>9. QuietStep
  BY <1>1, <1>7 DEF QuietStep
<1> QED
  BY <1>8, <1>9, SameWeights

-----------------------------------------------------------------------------
(* The rest of the invariant                                                 *)

LEMMA ExpiredTyped ==
    ASSUME Basics, Positions, QueueExact, phase = "update", TL > 0
    PROVE  Head(Append(deletion, message)) \in Requests \cup {Dummy}
<1>1. Len(log) > TL => Len(log) - TL \in 1..Len(log)
  BY TLAssumption DEF Basics
<1>2. Len(log) > TL => log[Len(log) - TL] \in Requests
  BY <1>1 DEF Basics
<1> QED
  BY <1>2, Expired

LEMMA BasicsNext ==
    ASSUME Basics, Positions, QueueExact, [Next]_vars
    PROVE  Basics'
<1>1. ASSUME NEW m \in Requests, Begin(m), running' \in BOOLEAN PROVE Basics'
  <2>1. /\ log' = Append(log, m) /\ Len(log) < MaxMessages
        /\ message' = m /\ phase' = "update" /\ i' = 0 /\ j' = 0
    BY <1>1 DEF Begin
  <2>2. log' \in Seq(Requests) /\ Len(log') = Len(log) + 1 /\ Len(log) \in Nat
    BY <2>1 DEF Basics
  <2>3. Len(log') <= MaxMessages
    BY <2>1, <2>2, MaxMessagesAssumption
  <2> QED
    BY <1>1, <2>1, <2>2, <2>3 DEF Basics
<1>2. ASSUME NEW m \in Requests, Populate(m) \/ Process(m) PROVE Basics'
  <2>1. Begin(m)
    BY <1>2 DEF Populate, Process
  <2>2. running' \in BOOLEAN
    BY <1>2 DEF Populate, Process, Basics
  <2> QED
    BY <1>1, <2>1, <2>2
<1>3. CASE UpdateVertex
  BY <1>3 DEF UpdateVertex, Advance, Basics
<1>4. CASE UpdateEdge
  BY <1>4 DEF UpdateEdge, Advance, Basics
<1>5. CASE Retire
  <2>1. CASE TL = 0
    BY <1>5, <2>1 DEF Retire, Basics
  <2>2. CASE TL > 0
    <3> DEFINE e == Head(Append(deletion, message))
    <3>1. /\ message' = e /\ i' = DataSize(e) - 1 /\ j' = DataSize(e) - 1
          /\ phase' = IF e.type = "DUMMY" THEN "wait" ELSE "expire"
          /\ phase = "update" /\ UNCHANGED <<running, log>>
      BY <1>5, <2>2, TLAssumption DEF Retire
    <3>2. e \in Requests \cup {Dummy}
      BY <2>2, <3>1, ExpiredTyped
    <3>3. DataSize(e) \in Nat
      BY <3>2, DataSizeNat
    <3> HIDE DEF e
    <3> QED
      BY <3>1, <3>2, <3>3 DEF Basics
  <2> QED
    BY <2>1, <2>2, TLAssumption
<1>6. CASE ExpireEdge
  BY <1>6 DEF ExpireEdge, Basics
<1>7. CASE ExpireVertex
  <2>1. DataSize(message) \in Nat
    BY DataSizeNat DEF Basics
  <2> QED
    BY <1>7, <2>1 DEF ExpireVertex, Basics
<1>8. CASE UNCHANGED vars
  BY <1>8 DEF vars, Basics
<1> QED
  BY <1>1, <1>2, <1>3, <1>4, <1>5, <1>6, <1>7, <1>8 DEF Next, Terminated

(* Steps that neither begin nor end the addition of a message.               *)
LEMMA QueueSame ==
    ASSUME QueueExact, UNCHANGED <<deletion, log>>,
           phase = "update" <=> phase' = "update"
    PROVE  QueueExact'
  BY DEF QueueExact, Added

LEMMA QueueNext ==
    ASSUME Basics, Positions, QueueExact, [Next]_vars
    PROVE  QueueExact'
<1>1. ASSUME NEW m \in Requests, Begin(m) PROVE QueueExact'
  <2>1. /\ phase = "wait" /\ phase' = "update" /\ log' = Append(log, m)
        /\ deletion' = deletion
    BY <1>1 DEF Begin
  <2>2. Added' = Added /\ Added = Len(log) /\ Len(log) \in Nat
    BY <2>1 DEF Added, Basics
  <2>3. \A n \in 1..Len(log) : log'[n] = log[n]
    BY <2>1 DEF Basics
  <2>4. \A n \in 1..TL : LET at == Added - TL + n
                         IN (IF at > 0 THEN log'[at] ELSE Dummy) =
                            (IF at > 0 THEN log[at] ELSE Dummy)
    <3> SUFFICES ASSUME NEW n \in 1..TL, Added - TL + n > 0
                 PROVE log'[Added - TL + n] = log[Added - TL + n]
      OBVIOUS
    <3>1. Added - TL + n \in 1..Len(log)
      BY <2>2, TLAssumption
    <3> QED
      BY <2>3, <3>1
  <2>5. deletion' = [n \in 1..TL |-> LET at == Added - TL + n
                                     IN IF at > 0 THEN log'[at] ELSE Dummy]
    BY <2>1, <2>4 DEF QueueExact
  <2> QED
    BY <2>2, <2>5 DEF QueueExact, Dummy
<1>2. CASE UpdateVertex
  BY <1>2, QueueSame DEF UpdateVertex
<1>3. CASE UpdateEdge
  BY <1>3, QueueSame DEF UpdateEdge
<1>4. CASE Retire
  <2>1. phase = "update" /\ phase' # "update" /\ log' = log
    BY <1>4 DEF Retire
  <2>2. /\ Len(log) \in Nat /\ Len(log) > 0 /\ message = log[Len(log)]
        /\ Added = Len(log) - 1 /\ Added' = Len(log)
    BY <2>1 DEF Basics, Positions, Added
  <2>3. CASE TL = 0
    <3>1. 1..TL = {}
      BY <2>3
    <3>2. deletion' = deletion
      BY <1>4, <2>3 DEF Retire
    <3> QED
      BY <3>1, <3>2 DEF QueueExact
  <2>4. CASE TL > 0
    <3>1. deletion' = Tail(Append(deletion, message))
      BY <1>4, <2>4, TLAssumption DEF Retire
    <3>2. deletion \in Seq(Requests \cup {Dummy}) /\ Len(deletion) = TL
      BY <2>1, <2>4, Expired
    <3>3. message \in Requests \cup {Dummy}
      BY DEF Basics
    <3>4. /\ deletion' = [n \in 1..TL |-> deletion'[n]]
          /\ \A n \in 1..TL : deletion'[n] = IF n = TL THEN message ELSE deletion[n + 1]
      <4>1. Append(deletion, message) \in Seq(Requests \cup {Dummy})
        BY <3>2, <3>3
      <4>2. /\ Len(Append(deletion, message)) = TL + 1
            /\ \A n \in 1..TL : Append(deletion, message)[n] = deletion[n]
            /\ Append(deletion, message)[TL + 1] = message
        BY <3>2, <3>3
      <4> DEFINE q == Append(deletion, message)
      <4> HIDE DEF q
      <4>3. q \in Seq(Requests \cup {Dummy}) /\ Len(q) = TL + 1 /\ deletion' = Tail(q)
        BY <3>1, <4>1, <4>2 DEF q
      <4>4. /\ Tail(q) \in Seq(Requests \cup {Dummy}) /\ Len(Tail(q)) = TL
            /\ \A n \in 1..TL : Tail(q)[n] = q[n + 1]
        BY <2>4, <4>3, TLAssumption
      <4>5. deletion' = [n \in 1..TL |-> deletion'[n]]
        <5> DEFINE t == Tail(q)
        <5>1. t \in Seq(Requests \cup {Dummy}) /\ Len(t) = TL
          BY <4>4
        <5>2. deletion' = t
          BY <4>3
        <5> HIDE DEF t
        <5>3. DOMAIN t = 1..TL /\ t = [n \in DOMAIN t |-> t[n]]
          BY <5>1
        <5> QED
          BY <5>2, <5>3
      <4>6. \A n \in 1..TL : deletion'[n] = IF n = TL THEN message ELSE deletion[n + 1]
        BY <4>2, <4>3, <4>4, TLAssumption DEF q
      <4> QED
        BY <4>5, <4>6
    <3>5. \A n \in 1..TL : deletion'[n] = LET at == Len(log) - TL + n
                                          IN IF at > 0 THEN log[at] ELSE Dummy
      <4> TAKE n \in 1..TL
      <4>1. CASE n = TL
        <5>1. Len(log) - TL + n = Len(log)
          BY <2>2, <4>1, TLAssumption
        <5> QED
          BY <2>2, <3>4, <4>1, <5>1
      <4>2. CASE n # TL
        <5>1. n + 1 \in 1..TL
          BY <4>2, TLAssumption
        <5>2. Added - TL + (n + 1) = Len(log) - TL + n
          BY <2>2, TLAssumption
        <5>3. deletion[n + 1] = IF Added - TL + (n + 1) > 0
                                THEN log[Added - TL + (n + 1)] ELSE Dummy
          BY <5>1 DEF QueueExact
        <5> QED
          BY <3>4, <4>2, <5>2, <5>3
      <4> QED
        BY <4>1, <4>2
    <3>6. deletion' = [n \in 1..TL |-> LET at == Len(log) - TL + n
                                       IN IF at > 0 THEN log[at] ELSE Dummy]
      BY <3>4, <3>5
    <3> QED
      BY <2>1, <2>2, <3>6 DEF QueueExact, Dummy
  <2> QED
    BY <2>3, <2>4, TLAssumption
<1>5. CASE ExpireEdge
  BY <1>5, QueueSame DEF ExpireEdge
<1>6. CASE ExpireVertex
  BY <1>6, QueueSame DEF ExpireVertex
<1>7. CASE UNCHANGED vars
  BY <1>7, QueueSame DEF vars
<1> QED
  BY <1>1, <1>2, <1>3, <1>4, <1>5, <1>6, <1>7 DEF Next, Terminated, Populate, Process

LEMMA PositionsNext ==
    ASSUME Basics, Positions, QueueExact, [Next]_vars
    PROVE  Positions'
<1> USE DEF Positions
<1>1. ASSUME NEW m \in Requests, Begin(m) PROVE Positions'
  <2>1. /\ phase' = "update" /\ log' = Append(log, m)
        /\ message' = m /\ i' = 0 /\ j' = 0
    BY <1>1 DEF Begin
  <2>2. log' # <<>> /\ log'[Len(log')] = m
    BY <2>1 DEF Basics
  <2>3. 0 < DataSize(m)
    BY DataSizeNat
  <2> QED
    BY <2>1, <2>2, <2>3 DEF DataSize
<1>2. CASE UpdateVertex
  <2>1. DataSize(message) \in Nat /\ DataSize(message)' = DataSize(message)
    BY <1>2, DataSizeNat DEF Basics, UpdateVertex, DataSize
  <2> QED
    BY <1>2, <2>1 DEF UpdateVertex, Advance, Basics
<1>3. CASE UpdateEdge
  <2>1. DataSize(message) \in Nat /\ DataSize(message)' = DataSize(message)
    BY <1>3, DataSizeNat DEF Basics, UpdateEdge, DataSize
  <2> QED
    BY <1>3, <2>1 DEF UpdateEdge, Advance, Basics
<1>4. CASE Retire
  <2>1. phase = "update" /\ phase' # "update" /\ log' = log
    BY <1>4 DEF Retire
  <2>2. CASE phase' = "wait"
    BY <2>2
  <2>3. CASE phase' = "expire"
    <3> DEFINE e == Head(Append(deletion, message))
    <3>1. /\ TL > 0 /\ message' = e /\ i' = DataSize(e) - 1 /\ j' = DataSize(e) - 1
          /\ e.type # "DUMMY"
      BY <1>4, <2>3, TLAssumption DEF Retire
    <3>2. e = IF Len(log) > TL THEN log[Len(log) - TL] ELSE Dummy
      BY <2>1, <3>1, Expired
    <3>3. e \in Requests \cup {Dummy}
      BY <2>1, <3>1, ExpiredTyped
    <3> HIDE DEF e
    <3>4. Len(log) > TL /\ e = log[Len(log) - TL]
      BY <3>1, <3>2 DEF Dummy
    <3>5. DataSize(e) \in Nat \ {0} /\ DataSize(message)' = DataSize(e)
      BY <3>1, <3>3, DataSizeNat DEF DataSize
    <3> QED
      BY <2>1, <2>3, <3>1, <3>4, <3>5
  <2> QED
    BY <1>4, <2>1, <2>2, <2>3 DEF Retire
<1>5. CASE ExpireEdge
  <2>1. DataSize(message) \in Nat /\ DataSize(message)' = DataSize(message)
    BY <1>5, DataSizeNat DEF Basics, ExpireEdge, DataSize
  <2> QED
    BY <1>5, <2>1 DEF ExpireEdge, Basics
<1>6. CASE ExpireVertex
  <2>1. DataSize(message) \in Nat /\ DataSize(message)' = DataSize(message)
    BY <1>6, DataSizeNat DEF Basics, ExpireVertex, DataSize
  <2> QED
    BY <1>6, <2>1 DEF ExpireVertex, Basics
<1>7. CASE UNCHANGED vars
  BY <1>7 DEF vars, DataSize
<1> QED
  BY <1>1, <1>2, <1>3, <1>4, <1>5, <1>6, <1>7 DEF Next, Terminated, Populate, Process

LEMMA GraphNext ==
    ASSUME IInv, [Next]_vars, Basics'
    PROVE  GraphExact'
<1> USE DEF IInv, GraphInv
<1>1. ASSUME NEW m \in Requests, Begin(m) PROVE GraphExact'
  BY <1>1, BeginExact
<1>2. CASE UpdateVertex
  BY <1>2, UpdateVertexExact
<1>3. CASE UpdateEdge
  BY <1>3, UpdateEdgeExact
<1>4. CASE Retire
  BY <1>4, RetireExact
<1>5. CASE ExpireEdge
  BY <1>5, ExpireEdgeExact
<1>6. CASE ExpireVertex
  BY <1>6, ExpireVertexExact
<1>7. CASE UNCHANGED vars
  <2>1. /\ graph' = graph /\ log' = log /\ phase' = phase
        /\ message' = message /\ i' = i /\ j' = j
    BY <1>7 DEF vars
  <2>2. Base' = Base
    BY <2>1, BaseSame
  <2>3. Present' = Present /\ \A k \in Keys : Weight(k)' = Weight(k)
    BY <2>1, <2>2
    DEF Present, Weight, PartOf, Awaited, Naming, Keys, KeysOf, DataSize
  <2>4. \A a, b \in Keys : a # b => PairWeight(a, b)' = PairWeight(a, b)
    BY <2>1, <2>2
    DEF PairWeight, PartOfBoth, OrderedPart, NamingBoth, KeysOf, DataSize
  <2> QED
    BY <2>1, <2>3, <2>4, SameWeights DEF QuietStep
<1> QED
  BY <1>1, <1>2, <1>3, <1>4, <1>5, <1>6, <1>7 DEF Next, Terminated, Populate, Process

LEMMA NothingNamed ==
    ASSUME NEW l, NEW S, S = {}, NEW a, NEW b
    PROVE  Naming(l, S, a) = 0 /\ NamingBoth(l, S, a, b) = 0
<1>1. {n \in S : a \in KeysOf(l[n])} = {} /\ {n \in S : {a, b} \subseteq KeysOf(l[n])} = {}
  OBVIOUS
<1> QED
  BY <1>1, FS_EmptySet DEF Naming, NamingBoth

LEMMA InitInv == Init => IInv
<1> SUFFICES ASSUME Init PROVE IInv
  OBVIOUS
<1>1. Basics
  <2>1. log = <<>> /\ Len(log) = 0 /\ log \in Seq(Requests)
    BY DEF Init
  <2>2. Len(log) <= MaxMessages
    BY <2>1, MaxMessagesAssumption
  <2>3. running \in BOOLEAN
    BY Zenon DEF Init
  <2> QED
    BY <2>1, <2>2, <2>3 DEF Init, Basics
<1>2. Positions
  BY DEF Init, Positions
<1>3. QueueExact
  <2>1. Added = 0
    BY DEF Init, Added
  <2>2. \A n \in 1..TL : (IF Added - TL + n > 0 THEN log[Added - TL + n] ELSE Dummy) = Dummy
    <3> SUFFICES ASSUME NEW n \in 1..TL PROVE ~(Added - TL + n > 0)
      OBVIOUS
    <3> QED
      BY <2>1, TLAssumption
  <2> QED
    BY <2>2 DEF Init, QueueExact
<1>4. GraphExact
  <2>1. Base = {}
    BY DEF Init, Base
  <2>2. \A k \in Keys : Weight(k) = 0 /\ ~Awaited(k)
    BY SMTT(20), <2>1, NothingNamed DEF Init, Weight, PartOf, Awaited
  <2>3. Present = {}
    BY <2>2 DEF Present
  <2> QED
    BY <2>3 DEF Init, GraphExact, EmptyGraph, NoEntries, Fields
<1> QED
  BY <1>1, <1>2, <1>3, <1>4 DEF IInv, GraphInv

(* In every state, also in the middle of a message, the graph is exactly     *)
(* what the window and the part of the current message make it, and the      *)
(* deletion queue is the window: update_graph and expire keep it so through  *)
(* each increment and each removal.                                          *)
THEOREM GraphInductive == Spec => []IInv
<1>1. IInv /\ [Next]_vars => IInv'
  BY BasicsNext, QueueNext, PositionsNext, GraphNext DEF IInv, GraphInv
<1> QED
  BY InitInv, <1>1, PTL DEF Spec

THEOREM GraphInvHolds == Spec => []GraphInv
<1>1. IInv => GraphInv
  BY DEF IInv
<1> QED
  BY GraphInductive, <1>1, PTL

-----------------------------------------------------------------------------
(* What the invariant says between messages                                  *)

LEMMA BetweenMessages ==
    ASSUME IInv, phase = "wait"
    PROVE  /\ Present = WindowKeys
           /\ \A k \in Keys : Weight(k) = Counted(k)
           /\ \A a, b \in Keys : PairWeight(a, b) = CountedTogether(a, b)
<1>1. Base = Window
  BY DEF Base, Window
<1>2. /\ IsFiniteSet(Base) /\ Base \subseteq 1..Len(log) /\ Len(log) \in Nat
      /\ log \in Seq(Requests)
  BY BaseFinite DEF IInv, Basics
<1>3. \A k \in Keys : Weight(k) = Naming(log, Base, k)
  <2> TAKE k \in Keys
  <2>1. Naming(log, Base, k) \in Nat
    BY <1>2, NamingNat
  <2> QED
    BY <2>1 DEF Weight, PartOf
<1>4. \A a, b \in Keys : PairWeight(a, b) = NamingBoth(log, Base, a, b)
  <2> TAKE a, b \in Keys
  <2>1. NamingBoth(log, Base, a, b) \in Nat
    BY <1>2, NamingBothNat
  <2> QED
    BY <2>1 DEF PairWeight, PartOfBoth, OrderedPart
<1>5. \A k \in Keys : Naming(log, Base, k) > 0 <=> k \in WindowKeys
  <2> TAKE k \in Keys
  <2> DEFINE S == {n \in Base : k \in KeysOf(log[n])}
  <2>1. IsFiniteSet(S)
    BY <1>2, FS_Subset
  <2>2. Cardinality(S) \in Nat /\ (Cardinality(S) = 0 <=> S = {})
    BY <2>1, FS_CardinalityType, FS_EmptySet
  <2>3. S # {} <=> k \in WindowKeys
    BY <1>1 DEF WindowKeys
  <2> QED
    BY <2>2, <2>3 DEF Naming
<1>6. WindowKeys \subseteq Keys
  BY <1>1, <1>2 DEF WindowKeys, Keys
<1>7. Present = WindowKeys
  BY <1>3, <1>5, <1>6 DEF Present, Awaited
<1> QED
  BY <1>1, <1>3, <1>4, <1>7 DEF Naming, NamingBoth, Counted, CountedTogether

LEMMA VerticesOfWindow == IInv => VerticesCountWindow
<1> SUFFICES ASSUME IInv, phase = "wait"
             PROVE graph.vertex = [k \in WindowKeys |-> Counted(k)]
  BY DEF VerticesCountWindow
<1>1. Present = WindowKeys /\ \A k \in Present : Weight(k) = Counted(k)
  BY BetweenMessages DEF Present
<1> QED
  BY <1>1 DEF IInv, GraphInv, GraphExact

LEMMA EdgesOfWindow == IInv => EdgesCountWindow
<1> SUFFICES ASSUME IInv, phase = "wait"
             PROVE graph.edges =
                 [a \in WindowKeys |->
                    [b \in {k \in WindowKeys \ {a} : CountedTogether(a, k) > 0} |->
                        CountedTogether(a, b)]]
  BY DEF EdgesCountWindow
<1>1. /\ Present = WindowKeys /\ Present \subseteq Keys
      /\ \A a, b \in Keys : PairWeight(a, b) = CountedTogether(a, b)
  BY BetweenMessages DEF Present
<1>2. \A a, b \in Keys : CountedTogether(a, b) > 0 => b \in WindowKeys
  <2> SUFFICES ASSUME NEW a \in Keys, NEW b \in Keys, CountedTogether(a, b) > 0
               PROVE b \in WindowKeys
    OBVIOUS
  <2> DEFINE S == {n \in Window : {a, b} \subseteq KeysOf(log[n])}
  <2>1. S # {}
    <3> SUFFICES ASSUME S = {} PROVE FALSE
      OBVIOUS
    <3> QED
      BY FS_EmptySet DEF CountedTogether
  <2> QED
    BY <2>1 DEF WindowKeys
<1>3. ASSUME NEW a \in Present
      PROVE [b \in Linked(a) |-> PairWeight(a, b)] =
            [b \in {k \in WindowKeys \ {a} : CountedTogether(a, k) > 0} |->
                CountedTogether(a, b)]
  <2>1. Linked(a) = {k \in WindowKeys \ {a} : CountedTogether(a, k) > 0}
    BY <1>1, <1>2, <1>3 DEF Linked
  <2>2. \A b \in Linked(a) : PairWeight(a, b) = CountedTogether(a, b)
    BY <1>1, <1>3 DEF Linked
  <2> QED
    BY <2>1, <2>2
<1> QED
  BY <1>1, <1>3 DEF IInv, GraphInv, GraphExact

(* The vertices count the window, for every length of the history and every  *)
(* set of requests.                                                          *)
THEOREM VerticesCountWindowHolds == Spec => []VerticesCountWindow
  BY GraphInductive, VerticesOfWindow, PTL

(* The edges count the scans of the window, at both ends.                    *)
THEOREM EdgesCountWindowHolds == Spec => []EdgesCountWindow
  BY GraphInductive, EdgesOfWindow, PTL

(* No weight is ever negative, though expire subtracts before it looks, and  *)
(* the queue keeps its length.                                               *)
THEOREM TypeCorrect == Spec => []TypeOK
<1>1. IInv => TypeOK
  <2> SUFFICES ASSUME IInv PROVE TypeOK
    OBVIOUS
  <2> USE DEF IInv, GraphInv
  <2>1. VW \in Weights /\ EW \in PairWeights
    BY WeightsTyped
  <2>2. Shape(graph, VW, EW, Present)
    BY ExactIsShape
  <2>3. /\ DOMAIN graph.vertex \subseteq Int
        /\ \A k \in DOMAIN graph.vertex : graph.vertex[k] \in Nat
    BY <2>1, <2>2, KeysInt DEF Shape, Weights, Present
  <2>4. \A a \in DOMAIN graph.edges :
           \A b \in DOMAIN graph.edges[a] : graph.edges[a][b] \in Nat
    <3>1. graph.edges = [a \in Present |-> Row(EW, a)] /\ Present \subseteq Keys
      BY <2>2 DEF Shape, Present
    <3> SUFFICES ASSUME NEW a \in Present, NEW b \in DOMAIN Row(EW, a)
                 PROVE Row(EW, a)[b] \in Nat
      BY <3>1
    <3>2. b \in Keys /\ Row(EW, a)[b] = EW[a][b]
      BY DEF Row
    <3> QED
      BY <2>1, <3>1, <3>2 DEF PairWeights
  <2>5. Len(deletion) = TL
    BY TLAssumption DEF QueueExact
  <2> QED
    BY <2>3, <2>4, <2>5 DEF TypeOK, Basics
<1> QED
  BY GraphInductive, <1>1, PTL

-----------------------------------------------------------------------------
(* Sums                                                                      *)

(* A weight of n as a set of n units.                                         *)
UnitsOf(f) == UNION {{x} \X (1..f[x]) : x \in DOMAIN f}

(* The recursion that MapThenSumSet stands for.                              *)
Adds(sum, f) ==
    sum = [s \in SUBSET DOMAIN f |->
              IF s = {} THEN 0
              ELSE LET x == CHOOSE x \in s : TRUE IN f[x] + sum[s \ {x}]]

(* The units of the keys s.                                                  *)
Within(f, s) == UNION {{x} \X (1..f[x]) : x \in s}

(* Induction over the subsets of a finite set: the least one that is not as  *)
(* it ought to be.                                                           *)
LEMMA LeastSubset ==
    ASSUME NEW S, IsFiniteSet(S), NEW T \in SUBSET SUBSET S, T # {}
    PROVE  \E s \in T : \A t \in T : ~(t \subseteq s /\ t # s)
<1>1. T \subseteq FiniteSubsetsOf(S)
  BY FS_Subset DEF FiniteSubsetsOf
<1>2. PICK s \in T : \A t \in T : ~(<<t, s>> \in StrictSubsetOrdering(S))
  BY <1>1, WFMin, FS_StrictSubsetOrderingWellFounded
<1> QED
  BY <1>1, <1>2 DEF StrictSubsetOrdering, FiniteSubsetsOf

LEMMA WithinOneMore ==
    ASSUME NEW S, NEW f \in [S -> Nat], NEW s \in SUBSET S, NEW x \in s,
           IsFiniteSet(Within(f, s \ {x}))
    PROVE  /\ IsFiniteSet(Within(f, s))
           /\ Cardinality(Within(f, s)) = f[x] + Cardinality(Within(f, s \ {x}))
<1>1. f[x] \in Nat
  OBVIOUS
<1>2. IsFiniteSet(1..f[x]) /\ Cardinality(1..f[x]) = f[x]
  BY <1>1, FS_Interval
<1>3. IsFiniteSet({x}) /\ Cardinality({x}) = 1
  BY FS_Singleton
<1>4. IsFiniteSet({x} \X (1..f[x])) /\ Cardinality({x} \X (1..f[x])) = f[x]
  BY <1>1, <1>2, <1>3, FS_Product
<1>5. Within(f, s) = Within(f, s \ {x}) \cup ({x} \X (1..f[x]))
  BY DEF Within
<1>6. Within(f, s \ {x}) \cap ({x} \X (1..f[x])) = {}
  BY DEF Within
<1>7. Cardinality({}) = 0
  BY FS_EmptySet
<1>8. Cardinality(Within(f, s \ {x})) \in Nat
  BY FS_CardinalityType
<1> DEFINE rest == Within(f, s \ {x})
           more == {x} \X (1..f[x])
<1> HIDE DEF rest, more
<1>9. /\ IsFiniteSet(rest \cup more)
      /\ Cardinality(rest \cup more) =
             Cardinality(rest) + Cardinality(more) - Cardinality(rest \cap more)
  BY <1>4, FS_Union DEF rest, more
<1>10. /\ Within(f, s) = rest \cup more /\ Cardinality(rest \cap more) = 0
       /\ Cardinality(more) = f[x] /\ Cardinality(rest) \in Nat
  BY <1>4, <1>5, <1>6, <1>7, <1>8 DEF rest, more
<1>11. Cardinality(Within(f, s)) = f[x] + Cardinality(rest)
  BY <1>1, <1>9, <1>10
<1> QED
  BY <1>9, <1>10, <1>11 DEF rest

LEMMA WithinFinite ==
    ASSUME NEW S, IsFiniteSet(S), NEW f \in [S -> Nat]
    PROVE  \A s \in SUBSET S : IsFiniteSet(Within(f, s))
<1> DEFINE T == {s \in SUBSET S : ~IsFiniteSet(Within(f, s))}
<1>1. SUFFICES ASSUME T # {} PROVE FALSE
  OBVIOUS
<1>2. PICK s \in T : \A t \in T : ~(t \subseteq s /\ t # s)
  <2>1. T \in SUBSET SUBSET S
    OBVIOUS
  <2> HIDE DEF T
  <2> QED
    BY <1>1, <2>1, LeastSubset
<1>3. s # {}
  <2>1. Within(f, {}) = {}
    BY DEF Within
  <2> QED
    BY <2>1, FS_EmptySet
<1>4. PICK x \in s : TRUE
  BY <1>3
<1>5. IsFiniteSet(Within(f, s \ {x}))
  BY <1>2
<1> QED
  BY <1>2, <1>5, WithinOneMore

(* There is a function that adds up, and it counts the units.                *)
LEMMA SumIsUnits ==
    ASSUME NEW S, IsFiniteSet(S), NEW f \in [S -> Nat]
    PROVE  /\ IsFiniteSet(UnitsOf(f))
           /\ \E sum : Adds(sum, f)
           /\ \A sum : Adds(sum, f) => sum[S] = Cardinality(UnitsOf(f))
<1> DEFINE picked(s) == CHOOSE x \in s : TRUE
<1>1. \A s \in SUBSET S : IsFiniteSet(Within(f, s))
  BY WithinFinite
<1>2. \A s \in SUBSET S : s # {} =>
         /\ picked(s) \in s
         /\ Cardinality(Within(f, s)) =
                f[picked(s)] + Cardinality(Within(f, s \ {picked(s)}))
  <2> SUFFICES ASSUME NEW s \in SUBSET S, s # {}
               PROVE  /\ picked(s) \in s
                      /\ Cardinality(Within(f, s)) =
                             f[picked(s)] + Cardinality(Within(f, s \ {picked(s)}))
    OBVIOUS
  <2>1. picked(s) \in s
    OBVIOUS
  <2> DEFINE x == picked(s)
  <2> HIDE DEF picked
  <2>2. IsFiniteSet(Within(f, s \ {x}))
    BY <1>1
  <2> QED
    BY <2>1, <2>2, WithinOneMore
<1>3. Cardinality(Within(f, {})) = 0
  <2>1. Within(f, {}) = {}
    BY DEF Within
  <2> QED
    BY <2>1, FS_EmptySet
<1>4. UnitsOf(f) = Within(f, S)
  BY DEF UnitsOf, Within
<1>5. \E sum : Adds(sum, f)
  <2> DEFINE sum == [s \in SUBSET S |-> Cardinality(Within(f, s))]
  <2>1. \A s \in SUBSET S : sum[s] =
           IF s = {} THEN 0 ELSE LET x == CHOOSE x \in s : TRUE IN f[x] + sum[s \ {x}]
    BY <1>2, <1>3
  <2>2. Adds(sum, f)
    BY <2>1 DEF Adds
  <2> QED
    BY <2>2
<1>6. ASSUME NEW sum, Adds(sum, f)
      PROVE  \A s \in SUBSET S : sum[s] = Cardinality(Within(f, s))
  <2> DEFINE T == {s \in SUBSET S : sum[s] # Cardinality(Within(f, s))}
  <2>1. SUFFICES ASSUME T # {} PROVE FALSE
    OBVIOUS
  <2>2. PICK s \in T : \A t \in T : ~(t \subseteq s /\ t # s)
    <3>1. T \in SUBSET SUBSET S
      OBVIOUS
    <3> HIDE DEF T
    <3> QED
      BY <2>1, <3>1, LeastSubset
  <2>3. sum[s] = IF s = {} THEN 0 ELSE f[picked(s)] + sum[s \ {picked(s)}]
    BY <1>6 DEF Adds
  <2>4. s # {}
    BY <1>3, <2>3
  <2>5. sum[s \ {picked(s)}] = Cardinality(Within(f, s \ {picked(s)}))
    BY <1>2, <2>2, <2>4
  <2> QED
    BY <1>2, <2>3, <2>4, <2>5
<1> QED
  BY <1>1, <1>4, <1>5, <1>6

LEMMA SumOfFunction ==
    ASSUME NEW f, IsFiniteSet(DOMAIN f), f \in [DOMAIN f -> Nat]
    PROVE  MapThenSumSet(LAMBDA x : f[x], DOMAIN f) = Cardinality(UnitsOf(f))
<1>1. MapThenSumSet(LAMBDA x : f[x], DOMAIN f) = (CHOOSE sum : Adds(sum, f))[DOMAIN f]
  BY DEF MapThenSumSet, MapThenFoldSet, Adds
<1> QED
  BY <1>1, SumIsUnits

(* What has a weight.                                                        *)
Support(f) == {x \in DOMAIN f : f[x] > 0}

(* One weight grows by one.                                                  *)
LEMMA OneUnitMore ==
    ASSUME NEW S, NEW f \in [S -> Nat], NEW g \in [S -> Nat], NEW x \in S,
           g[x] = f[x] + 1, \A y \in S \ {x} : g[y] = f[y]
    PROVE  /\ IsFiniteSet(UnitsOf(f)) <=> IsFiniteSet(UnitsOf(g))
           /\ IsFiniteSet(UnitsOf(f)) =>
                 Cardinality(UnitsOf(g)) = Cardinality(UnitsOf(f)) + 1
           /\ IsFiniteSet(Support(f)) <=> IsFiniteSet(Support(g))
           /\ IsFiniteSet(Support(f)) =>
                 Cardinality(Support(g)) =
                     Cardinality(Support(f)) + (IF f[x] = 0 THEN 1 ELSE 0)
<1>1. \A y \in S : f[y] \in Nat /\ g[y] \in Nat
  OBVIOUS
<1>2. DOMAIN f = S /\ DOMAIN g = S
  OBVIOUS
<1> DEFINE u == <<x, g[x]>>
<1>3. 1..g[x] = 1..f[x] \cup {g[x]} /\ g[x] \notin 1..f[x]
  BY <1>1
<1>4. UnitsOf(g) = UnitsOf(f) \cup {u}
  <2>1. ASSUME NEW t PROVE t \in UnitsOf(g) <=> t \in UnitsOf(f) \/ t = u
    <3>1. t \in UnitsOf(g) <=> \E y \in S : \E n \in 1..g[y] : t = <<y, n>>
      BY <1>2 DEF UnitsOf
    <3>2. t \in UnitsOf(f) <=> \E y \in S : \E n \in 1..f[y] : t = <<y, n>>
      BY <1>2 DEF UnitsOf
    <3> QED
      BY <1>3, <3>1, <3>2
  <2> QED
    BY <2>1
<1>5. u \notin UnitsOf(f)
  BY <1>2, <1>3 DEF UnitsOf
<1>6. UnitsOf(f) = UnitsOf(g) \ {u}
  BY <1>4, <1>5
<1>7. f[x] = 0 => Support(g) = Support(f) \cup {x} /\ x \notin Support(f)
  BY <1>1, <1>2 DEF Support
<1>8. f[x] # 0 => Support(g) = Support(f)
  BY <1>1, <1>2 DEF Support
<1>9. f[x] = 0 => Support(f) = Support(g) \ {x}
  BY <1>7
<1> HIDE DEF u
<1>10. /\ IsFiniteSet(UnitsOf(f)) => /\ IsFiniteSet(UnitsOf(g))
                                     /\ Cardinality(UnitsOf(g)) = Cardinality(UnitsOf(f)) + 1
       /\ IsFiniteSet(UnitsOf(g)) => IsFiniteSet(UnitsOf(f))
  <2>1. ASSUME IsFiniteSet(UnitsOf(f))
        PROVE  /\ IsFiniteSet(UnitsOf(f) \cup {u})
               /\ Cardinality(UnitsOf(f) \cup {u}) = Cardinality(UnitsOf(f)) + 1
    BY <1>5, <2>1, FS_AddElement
  <2>2. IsFiniteSet(UnitsOf(g)) => IsFiniteSet(UnitsOf(g) \ {u})
    BY FS_RemoveElement
  <2> QED
    BY <1>4, <1>6, <2>1, <2>2
<1>11. IsFiniteSet(Support(f)) => Cardinality(Support(f)) \in Nat
  BY FS_CardinalityType
<1>12. /\ IsFiniteSet(Support(f)) =>
             /\ IsFiniteSet(Support(g))
             /\ Cardinality(Support(g)) =
                    Cardinality(Support(f)) + (IF f[x] = 0 THEN 1 ELSE 0)
       /\ IsFiniteSet(Support(g)) => IsFiniteSet(Support(f))
  <2>1. CASE f[x] = 0
    BY <1>7, <1>9, <1>11, <2>1, FS_AddElement, FS_RemoveElement
  <2>2. CASE f[x] # 0
    BY <1>8, <1>11, <2>2
  <2> QED
    BY <2>1, <2>2
<1> QED
  BY <1>10, <1>12

-----------------------------------------------------------------------------
(* The totals                                                                *)

Pairs == {e \in Keys \X Keys : e[1] < e[2]}

PW == [e \in Pairs |-> PairWeight(e[1], e[2])]

(* The totals are those of the weights, in every state: what the graph       *)
(* counts on the side moves with each increment and each removal.            *)
TotalsExact ==
    /\ IsFiniteSet(UnitsOf(VW)) /\ graph.total_vertex = Cardinality(UnitsOf(VW))
    /\ IsFiniteSet(UnitsOf(PW)) /\ graph.total_edges = Cardinality(UnitsOf(PW))
    /\ IsFiniteSet(Support(PW)) /\ graph.n_edges = Cardinality(Support(PW))

(* What each operation does to the totals.                                   *)
LEMMA OperationsTotals ==
    ASSUME NEW g, DOMAIN g = Fields, NEW a, NEW b, NEW w
    PROVE  /\ LET h == AddVertice(g, a)
              IN  /\ DOMAIN h = Fields /\ h.total_vertex = g.total_vertex
                  /\ h.total_edges = g.total_edges /\ h.n_edges = g.n_edges
           /\ LET h == IncrementVertice(g, a, w)
              IN  /\ DOMAIN h = Fields /\ h.total_vertex = g.total_vertex + w
                  /\ h.total_edges = g.total_edges /\ h.n_edges = g.n_edges
           /\ LET h == RemoveWeightlessVertice(g, a)
              IN  /\ DOMAIN h = Fields /\ h.total_vertex = g.total_vertex
                  /\ h.total_edges = g.total_edges /\ h.n_edges = g.n_edges
           /\ LET h == AddEdge(g, a, b)
              IN  /\ DOMAIN h = Fields /\ h.total_vertex = g.total_vertex
                  /\ h.total_edges = g.total_edges
                  /\ h.n_edges = IF b \in DOMAIN At(g.edges, a, NoEntries)
                                 THEN g.n_edges ELSE g.n_edges + 1
           /\ LET h == IncrementEdge(g, a, b, w)
              IN  /\ DOMAIN h = Fields /\ h.total_vertex = g.total_vertex
                  /\ h.total_edges = g.total_edges + w /\ h.n_edges = g.n_edges
           /\ LET h == RemoveWeightlessEdge(g, a, b)
              IN  /\ DOMAIN h = Fields /\ h.total_vertex = g.total_vertex
                  /\ h.total_edges = g.total_edges
                  /\ h.n_edges = IF Edge(g.edges, a, b) = 0
                                 THEN g.n_edges - 1 ELSE g.n_edges
<1> USE DEF Fields
<1>1. LET h == AddVertice(g, a)
      IN  /\ DOMAIN h = Fields /\ h.total_vertex = g.total_vertex
          /\ h.total_edges = g.total_edges /\ h.n_edges = g.n_edges
  BY DEF AddVertice
<1>2. LET h == IncrementVertice(g, a, w)
      IN  /\ DOMAIN h = Fields /\ h.total_vertex = g.total_vertex + w
          /\ h.total_edges = g.total_edges /\ h.n_edges = g.n_edges
  BY DEF IncrementVertice
<1>3. LET h == RemoveWeightlessVertice(g, a)
      IN  /\ DOMAIN h = Fields /\ h.total_vertex = g.total_vertex
          /\ h.total_edges = g.total_edges /\ h.n_edges = g.n_edges
  BY DEF RemoveWeightlessVertice
<1>4. LET h == AddEdge(g, a, b)
      IN  /\ DOMAIN h = Fields /\ h.total_vertex = g.total_vertex
          /\ h.total_edges = g.total_edges
          /\ h.n_edges = IF b \in DOMAIN At(g.edges, a, NoEntries)
                         THEN g.n_edges ELSE g.n_edges + 1
  BY DEF AddEdge
<1>5. LET h == IncrementEdge(g, a, b, w)
      IN  /\ DOMAIN h = Fields /\ h.total_vertex = g.total_vertex
          /\ h.total_edges = g.total_edges + w /\ h.n_edges = g.n_edges
  BY DEF IncrementEdge
<1>6. LET h == RemoveWeightlessEdge(g, a, b)
      IN  /\ DOMAIN h = Fields /\ h.total_vertex = g.total_vertex
          /\ h.total_edges = g.total_edges
          /\ h.n_edges = IF Edge(g.edges, a, b) = 0
                         THEN g.n_edges - 1 ELSE g.n_edges
  BY DEF RemoveWeightlessEdge
<1> HIDE DEF Fields
<1> QED
  BY <1>1, <1>2, <1>3, <1>4, <1>5, <1>6

(* The weights of the pairs, after a step that changes one of them or none.  *)
LEMMA PairsTyped ==
    ASSUME Basics, Basics'
    PROVE  /\ VW \in [Keys -> Nat] /\ VW' \in [Keys -> Nat]
           /\ PW \in [Pairs -> Nat] /\ PW' \in [Pairs -> Nat]
           /\ \A e \in Pairs : /\ PW[e] = EW[e[1]][e[2]] /\ PW'[e] = EW'[e[1]][e[2]]
                               /\ PW[e] = PairWeight(e[1], e[2])
                               /\ PW'[e] = PairWeight(e[1], e[2])'
<1>1. VW \in Weights /\ EW \in PairWeights /\ VW' \in Weights /\ EW' \in PairWeights
  BY WeightsTyped, WeightsTypedNext
<1>2. Keys' = Keys /\ Pairs' = Pairs
  BY DEF Pairs, Keys, KeysOf, DataSize
<1>3. \A e \in Pairs : e[1] \in Keys /\ e[2] \in Keys
  BY DEF Pairs
<1>4. PW' = [e \in Pairs |-> PairWeight(e[1], e[2])']
  BY <1>2 DEF PW
<1>5. EW' = [a \in Keys |-> [b \in Keys |-> PairWeight(a, b)']]
  BY <1>2 DEF EW
<1>6. \A e \in Pairs : /\ PW[e] = EW[e[1]][e[2]] /\ PW'[e] = EW'[e[1]][e[2]]
                       /\ PW[e] = PairWeight(e[1], e[2])
                       /\ PW'[e] = PairWeight(e[1], e[2])'
  BY <1>3, <1>4, <1>5 DEF PW, EW
<1>7. PW \in [Pairs -> Nat]
  BY <1>1, <1>3, <1>6 DEF PW, PairWeights
<1>8. PW' \in [Pairs -> Nat]
  BY <1>1, <1>3, <1>4, <1>6 DEF PairWeights
<1> QED
  BY <1>1, <1>6, <1>7, <1>8 DEF Weights

LEMMA QuietTotals ==
    ASSUME Basics, Basics', TotalsExact, QuietStep
    PROVE  TotalsExact'
<1>1. \A e \in Pairs : PW'[e] = PW[e]
  <2> SUFFICES ASSUME NEW e \in Pairs PROVE PW'[e] = PW[e]
    OBVIOUS
  <2>1. e[1] \in Keys /\ e[2] \in Keys /\ e[1] < e[2]
    BY DEF Pairs
  <2>2. e[1] \in Int /\ e[2] \in Int
    BY <2>1, KeysInt
  <2>3. e[1] # e[2]
    BY <2>1, <2>2
  <2> QED
    BY <2>1, <2>3, PairsTyped DEF QuietStep
<1>2. PW' = PW
  BY <1>1, PairsTyped
<1>3. VW' = VW
  <2>1. VW' = [k \in Keys |-> Weight(k)']
    BY DEF VW, Keys, KeysOf, DataSize
  <2> QED
    BY <2>1 DEF QuietStep, VW
<1>4. graph' = graph
  BY DEF QuietStep
<1> QED
  BY <1>2, <1>3, <1>4 DEF TotalsExact, UnitsOf, Support

(* The totals of the vertices follow the weight of one.                      *)
LEMMA VertexTotals ==
    ASSUME Basics, Basics', TotalsExact, NEW v, NEW w \in {1, -1}, VertexStep(v, w),
           graph'.total_vertex = graph.total_vertex + w,
           graph'.total_edges = graph.total_edges, graph'.n_edges = graph.n_edges
    PROVE  TotalsExact'
<1>1. PW' = PW
  <2>1. \A e \in Pairs : PW'[e] = PW[e]
    BY PairsTyped DEF VertexStep
  <2> QED
    BY <2>1, PairsTyped
<1>2. /\ VW \in [Keys -> Nat] /\ VW' \in [Keys -> Nat] /\ v \in Keys
      /\ VW'[v] = VW[v] + w /\ \A k \in Keys \ {v} : VW'[k] = VW[k]
  BY PairsTyped DEF VertexStep
<1>3. /\ IsFiniteSet(UnitsOf(VW')) /\ Cardinality(UnitsOf(VW)) \in Nat
      /\ Cardinality(UnitsOf(VW')) = Cardinality(UnitsOf(VW)) + w
  <2>1. IsFiniteSet(UnitsOf(VW)) /\ Cardinality(UnitsOf(VW)) \in Nat
    BY FS_CardinalityType DEF TotalsExact
  <2>2. CASE w = 1
    <3>1. VW'[v] = VW[v] + 1
      BY <1>2, <2>2
    <3> QED
      BY <1>2, <2>1, <2>2, <3>1, OneUnitMore
  <2>3. CASE w = -1
    <3>1. VW[v] = VW'[v] + 1 /\ \A k \in Keys \ {v} : VW[k] = VW'[k]
      BY <1>2, <2>3
    <3>2. /\ IsFiniteSet(UnitsOf(VW'))
          /\ Cardinality(UnitsOf(VW)) = Cardinality(UnitsOf(VW')) + 1
      BY <1>2, <2>1, <3>1, OneUnitMore
    <3>3. Cardinality(UnitsOf(VW')) \in Nat
      BY <3>2, FS_CardinalityType
    <3> QED
      BY <2>1, <2>3, <3>2, <3>3
  <2> QED
    BY <2>2, <2>3
<1>4. IsFiniteSet(UnitsOf(VW)') /\ Cardinality(UnitsOf(VW)') = Cardinality(UnitsOf(VW)) + w
  BY <1>3 DEF UnitsOf
<1>5. UnitsOf(PW)' = UnitsOf(PW) /\ Support(PW)' = Support(PW)
  BY <1>1 DEF UnitsOf, Support
<1> QED
  BY <1>4, <1>5 DEF TotalsExact

(* Those of the edges follow the weight of a pair, and their number its      *)
(* first weight and its last.                                                *)
LEMMA EdgeTotals ==
    ASSUME Basics, Basics', TotalsExact, NEW v, NEW u, NEW w \in {1, -1},
           EdgeStep(v, u, w),
           graph'.total_vertex = graph.total_vertex,
           graph'.total_edges = graph.total_edges + w,
           graph'.n_edges =
               IF w = 1
               THEN IF EW[v][u] = 0 THEN graph.n_edges + 1 ELSE graph.n_edges
               ELSE IF EW'[v][u] = 0 THEN graph.n_edges - 1 ELSE graph.n_edges
    PROVE  TotalsExact'
<1> DEFINE p == <<v, u>>
<1>1. p \in Pairs /\ PW[p] = EW[v][u] /\ PW'[p] = EW'[v][u]
  BY PairsTyped DEF EdgeStep, Pairs
<1>2. /\ PW \in [Pairs -> Nat] /\ PW' \in [Pairs -> Nat] /\ PW'[p] = PW[p] + w
  BY <1>1, PairsTyped DEF EdgeStep
<1>3. \A e \in Pairs \ {p} : PW'[e] = PW[e]
  <2> SUFFICES ASSUME NEW e \in Pairs \ {p} PROVE PW'[e] = PW[e]
    OBVIOUS
  <2>1. /\ e[1] \in Keys /\ e[2] \in Keys /\ e[1] < e[2]
        /\ e = <<e[1], e[2]>> /\ e # p
    BY DEF Pairs
  <2>2. v \in Keys /\ u \in Keys /\ v < u
    BY DEF EdgeStep
  <2>3. e[1] \in Int /\ e[2] \in Int /\ v \in Int /\ u \in Int
    BY <2>1, <2>2, KeysInt
  <2>4. {e[1], e[2]} # {v, u}
    BY <2>1, <2>2, <2>3
  <2>5. EW'[e[1]][e[2]] = EW[e[1]][e[2]]
    BY <2>1, <2>4 DEF EdgeStep
  <2> QED
    BY <2>5, PairsTyped
<1> HIDE DEF p
<1>4. /\ IsFiniteSet(UnitsOf(PW)) /\ Cardinality(UnitsOf(PW)) \in Nat
      /\ IsFiniteSet(Support(PW)) /\ Cardinality(Support(PW)) \in Nat
  BY FS_CardinalityType DEF TotalsExact
<1>5. CASE w = 1
  <2>1. PW'[p] = PW[p] + 1
    BY <1>2, <1>5
  <2>2. /\ IsFiniteSet(UnitsOf(PW'))
        /\ Cardinality(UnitsOf(PW')) = Cardinality(UnitsOf(PW)) + 1
        /\ IsFiniteSet(Support(PW'))
        /\ Cardinality(Support(PW')) =
               Cardinality(Support(PW)) + (IF PW[p] = 0 THEN 1 ELSE 0)
    BY <1>1, <1>2, <1>3, <1>4, <2>1, OneUnitMore
  <2>3. /\ graph'.total_edges = Cardinality(UnitsOf(PW'))
        /\ graph'.n_edges = Cardinality(Support(PW'))
    BY <1>1, <1>4, <1>5, <2>2 DEF TotalsExact
  <2>4. graph'.total_vertex = Cardinality(UnitsOf(VW')) /\ IsFiniteSet(UnitsOf(VW'))
    BY DEF TotalsExact, EdgeStep
  <2> QED
    BY <2>2, <2>3, <2>4 DEF TotalsExact, UnitsOf, Support
<1>6. CASE w = -1
  <2>1. PW[p] = PW'[p] + 1 /\ \A e \in Pairs \ {p} : PW[e] = PW'[e]
    BY <1>1, <1>2, <1>3, <1>6
  <2>2. /\ IsFiniteSet(UnitsOf(PW'))
        /\ Cardinality(UnitsOf(PW)) = Cardinality(UnitsOf(PW')) + 1
        /\ IsFiniteSet(Support(PW'))
        /\ Cardinality(Support(PW)) =
               Cardinality(Support(PW')) + (IF PW'[p] = 0 THEN 1 ELSE 0)
    BY <1>1, <1>2, <1>4, <2>1, OneUnitMore
  <2>3. Cardinality(UnitsOf(PW')) \in Nat /\ Cardinality(Support(PW')) \in Nat
    BY <2>2, FS_CardinalityType
  <2>4. /\ graph'.total_edges = Cardinality(UnitsOf(PW'))
        /\ graph'.n_edges = Cardinality(Support(PW'))
    BY <1>1, <1>4, <1>6, <2>2, <2>3 DEF TotalsExact
  <2>5. graph'.total_vertex = Cardinality(UnitsOf(VW')) /\ IsFiniteSet(UnitsOf(VW'))
    BY DEF TotalsExact, EdgeStep
  <2> QED
    BY <2>2, <2>4, <2>5 DEF TotalsExact, UnitsOf, Support
<1> QED
  BY <1>5, <1>6

LEMMA TotalsNext ==
    ASSUME IInv, Basics', TotalsExact, [Next]_vars
    PROVE  TotalsExact'
<1> USE DEF IInv, GraphInv
<1>1. /\ DOMAIN graph = Fields /\ graph.total_vertex \in Int
      /\ graph.total_edges \in Int /\ graph.n_edges \in Int
  BY FS_CardinalityType DEF GraphExact, TotalsExact
<1>2. ASSUME NEW m \in Requests, Begin(m) PROVE TotalsExact'
  BY <1>2, BeginExact, QuietTotals
<1>3. CASE UpdateVertex
  <2> DEFINE v == message.key + i
             g == AddVertice(graph, v)
  <2>1. VertexStep(v, 1)
    BY <1>3, UpdateVertexExact
  <2>2. graph' = IncrementVertice(g, v, 1)
    BY <1>3 DEF UpdateVertex
  <2> HIDE DEF v
  <2>3. /\ DOMAIN g = Fields /\ g.total_vertex = graph.total_vertex
        /\ g.total_edges = graph.total_edges /\ g.n_edges = graph.n_edges
    BY <1>1, OperationsTotals
  <2> HIDE DEF g
  <2>4. /\ graph'.total_vertex = g.total_vertex + 1
        /\ graph'.total_edges = g.total_edges /\ graph'.n_edges = g.n_edges
    BY <2>2, <2>3, OperationsTotals
  <2> QED
    BY <2>1, <2>3, <2>4, VertexTotals
<1>4. CASE UpdateEdge
  <2> DEFINE v == message.key + i
             u == message.key + j
             g == AddVertice(graph, u)
             h == AddEdge(g, v, u)
  <2>1. EdgeStep(v, u, 1) /\ Shape(g, VW, EW, Present \cup {u}) /\ v \in Present
    BY <1>4, UpdateEdgeExact
  <2>2. graph' = IncrementEdge(h, v, u, 1)
    BY <1>4 DEF UpdateEdge
  <2> HIDE DEF v, u
  <2>3. /\ DOMAIN g = Fields /\ g.total_vertex = graph.total_vertex
        /\ g.total_edges = graph.total_edges /\ g.n_edges = graph.n_edges
    BY <1>1, OperationsTotals
  <2>4. u \in DOMAIN At(g.edges, v, NoEntries) <=> EW[v][u] # 0
    <3>1. At(g.edges, v, NoEntries) = Row(EW, v)
      BY <2>1 DEF Shape, At
    <3>2. EW \in PairWeights
      BY WeightsTyped
    <3>3. v \in Keys /\ u \in Keys \ {v} /\ EW[v][u] \in Nat
      <4>1. v \in Keys /\ u \in Keys /\ v < u
        BY <2>1 DEF EdgeStep
      <4>2. v \in Int /\ u \in Int
        BY <4>1, KeysInt
      <4> QED
        BY <3>2, <4>1, <4>2 DEF PairWeights
    <3>4. u \in DOMAIN Row(EW, v) <=> EW[v][u] > 0
      BY <3>2, <3>3, RowAt
    <3> QED
      BY <3>1, <3>3, <3>4
  <2> HIDE DEF g
  <2>5. /\ DOMAIN h = Fields /\ h.total_vertex = g.total_vertex
        /\ h.total_edges = g.total_edges
        /\ h.n_edges = IF EW[v][u] = 0 THEN g.n_edges + 1 ELSE g.n_edges
    BY <2>3, <2>4, OperationsTotals
  <2> HIDE DEF h
  <2>6. /\ graph'.total_vertex = h.total_vertex
        /\ graph'.total_edges = h.total_edges + 1 /\ graph'.n_edges = h.n_edges
    BY <2>2, <2>5, OperationsTotals
  <2> QED
    BY <2>1, <2>3, <2>5, <2>6, EdgeTotals
<1>5. CASE Retire
  BY <1>5, RetireExact, QuietTotals
<1>6. CASE ExpireEdge
  <2> DEFINE v == message.key + i
             u == message.key + j
             g == IncrementEdge(graph, v, u, -1)
             h == RemoveWeightlessEdge(g, v, u)
  <2>1. EdgeStep(v, u, -1) /\ v \in Present
    BY <1>6, ExpireEdgeExact
  <2>2. graph' = RemoveWeightlessVertice(h, u)
    BY <1>6 DEF ExpireEdge
  <2> HIDE DEF v, u
  <2>3. /\ DOMAIN g = Fields /\ g.total_vertex = graph.total_vertex
        /\ g.total_edges = graph.total_edges + (-1) /\ g.n_edges = graph.n_edges
    BY <1>1, OperationsTotals
  <2>4. v \in Keys /\ u \in Keys /\ v # u
    <3>1. v \in Keys /\ u \in Keys /\ v < u
      BY <2>1 DEF EdgeStep
    <3>2. v \in Int /\ u \in Int
      BY <3>1, KeysInt
    <3> QED
      BY <3>1, <3>2
  <2>5. Edge(g.edges, v, u) = EW'[v][u]
    <3>1. Shape(graph, VW, EW, Present) /\ EW \in PairWeights
      BY ExactIsShape, WeightsTyped
    <3>2. EdgeIncremented(graph, g, v, u, -1)
      BY <2>4, <3>1, IncrementEdgeIncrements DEF Shape
    <3>3. At(graph.edges, v, NoEntries) = Row(EW, v)
      BY <2>1, <3>1 DEF Shape, At
    <3>4. Edge(graph.edges, v, u) = EW[v][u]
      BY <2>4, <3>1, <3>3, RowAt DEF Edge
    <3> HIDE DEF g
    <3>5. At(g.edges, v, NoEntries) = Put(At(graph.edges, v, NoEntries), u, EW[v][u] + (-1))
      BY <3>2, <3>4 DEF EdgeIncremented, At
    <3> DEFINE row == At(graph.edges, v, NoEntries)
               w == EW[v][u] + (-1)
    <3>6. Edge(g.edges, v, u) = w
      <4> HIDE DEF row, w
      <4>1. Edge(g.edges, v, u) = At(Put(row, u, w), u, 0)
        BY <3>5 DEF Edge, row, w
      <4>2. At(Put(row, u, w), u, 0) = w
        BY DEF Put, At
      <4> QED
        BY <4>1, <4>2
    <3> QED
      BY <2>1, <3>6 DEF EdgeStep
  <2> HIDE DEF g
  <2>6. /\ DOMAIN h = Fields /\ h.total_vertex = g.total_vertex
        /\ h.total_edges = g.total_edges
        /\ h.n_edges = IF EW'[v][u] = 0 THEN g.n_edges - 1 ELSE g.n_edges
    <3>1. /\ DOMAIN h = Fields /\ h.total_vertex = g.total_vertex
          /\ h.total_edges = g.total_edges
          /\ h.n_edges = IF Edge(g.edges, v, u) = 0 THEN g.n_edges - 1 ELSE g.n_edges
      BY <2>3, OperationsTotals
    <3> QED
      BY <2>5, <3>1
  <2> HIDE DEF h
  <2>7. /\ graph'.total_vertex = h.total_vertex
        /\ graph'.total_edges = h.total_edges /\ graph'.n_edges = h.n_edges
    BY <2>2, <2>6, OperationsTotals
  <2> QED
    BY <2>1, <2>3, <2>6, <2>7, EdgeTotals
<1>7. CASE ExpireVertex
  <2> DEFINE v == message.key + i
             g == IncrementVertice(graph, v, -1)
  <2>1. VertexStep(v, -1)
    BY <1>7, ExpireVertexExact
  <2>2. graph' = RemoveWeightlessVertice(g, v)
    BY <1>7 DEF ExpireVertex
  <2> HIDE DEF v
  <2>3. /\ DOMAIN g = Fields /\ g.total_vertex = graph.total_vertex + (-1)
        /\ g.total_edges = graph.total_edges /\ g.n_edges = graph.n_edges
    BY <1>1, OperationsTotals
  <2> HIDE DEF g
  <2>4. /\ graph'.total_vertex = g.total_vertex
        /\ graph'.total_edges = g.total_edges /\ graph'.n_edges = g.n_edges
    BY <2>2, <2>3, OperationsTotals
  <2> QED
    BY <2>1, <2>3, <2>4, VertexTotals
<1>8. CASE UNCHANGED vars
  <2>1. /\ graph' = graph /\ log' = log /\ phase' = phase
        /\ message' = message /\ i' = i /\ j' = j
    BY <1>8 DEF vars
  <2>2. Base' = Base
    BY <2>1, BaseSame
  <2>3. \A k \in Keys : Weight(k)' = Weight(k)
    BY <2>1, <2>2 DEF Weight, PartOf, Naming, KeysOf, DataSize
  <2>4. \A a, b \in Keys : a # b => PairWeight(a, b)' = PairWeight(a, b)
    BY <2>1, <2>2
    DEF PairWeight, PartOfBoth, OrderedPart, NamingBoth, KeysOf, DataSize
  <2> QED
    BY <2>1, <2>3, <2>4, QuietTotals DEF QuietStep
<1> QED
  BY <1>2, <1>3, <1>4, <1>5, <1>6, <1>7, <1>8 DEF Next, Terminated, Populate, Process

(* No weight, no unit.                                                       *)
LEMMA NoUnits ==
    ASSUME NEW f, \A x \in DOMAIN f : f[x] = 0
    PROVE  /\ IsFiniteSet(UnitsOf(f)) /\ Cardinality(UnitsOf(f)) = 0
           /\ IsFiniteSet(Support(f)) /\ Cardinality(Support(f)) = 0
<1>1. UnitsOf(f) = {}
  BY DEF UnitsOf
<1>2. Support(f) = {}
  BY DEF Support
<1> QED
  BY <1>1, <1>2, FS_EmptySet

LEMMA InitTotals == Init => TotalsExact
<1> SUFFICES ASSUME Init PROVE TotalsExact
  OBVIOUS
<1>1. Base = {}
  BY DEF Init, Base
<1>2. \A k \in Keys : Weight(k) = 0
  BY SMTT(20), <1>1, NothingNamed DEF Init, Weight, PartOf
<1>3. \A a, b \in Keys : PairWeight(a, b) = 0
  BY SMTT(20), <1>1, NothingNamed DEF Init, PairWeight, PartOfBoth, OrderedPart
<1>4. \A k \in DOMAIN VW : VW[k] = 0
  BY <1>2 DEF VW
<1>5. \A e \in DOMAIN PW : PW[e] = 0
  BY <1>3 DEF PW, Pairs
<1> QED
  BY <1>4, <1>5, NoUnits DEF TotalsExact, Init, EmptyGraph

(* The totals follow every increment and every removal.                      *)
THEOREM TotalsInductive == Spec => []TotalsExact
<1>1. IInv /\ IInv' /\ TotalsExact /\ [Next]_vars => TotalsExact'
  BY TotalsNext DEF IInv
<1> QED
  BY InitTotals, GraphInductive, <1>1, PTL DEF Spec

-----------------------------------------------------------------------------

(* A graph has finitely many vertices.                                       *)
LEMMA PresentFinite == Basics => IsFiniteSet(Present)
<1> SUFFICES ASSUME Basics PROVE IsFiniteSet(Present)
  OBVIOUS
<1> DEFINE named == [n \in 0..Len(log) |->
                        IF n = 0 THEN KeysOf(message) ELSE KeysOf(log[n])]
           all == {named[n] : n \in 0..Len(log)}
<1>1. Len(log) \in Nat /\ \A n \in 1..Len(log) : log[n] \in Requests
  BY DEF Basics
<1>2. IsFiniteSet(0..Len(log))
  BY <1>1, FS_Interval
<1>3. \A m \in Requests \cup {Dummy} : IsFiniteSet(KeysOf(m))
  BY DataSizeNat, FS_Interval DEF KeysOf
<1>4. \A n \in 0..Len(log) : IsFiniteSet(named[n])
  <2> TAKE n \in 0..Len(log)
  <2>1. n = 0 => named[n] = KeysOf(message) /\ message \in Requests \cup {Dummy}
    BY DEF Basics
  <2>2. n # 0 => named[n] = KeysOf(log[n]) /\ log[n] \in Requests \cup {Dummy}
    BY <1>1
  <2> HIDE DEF named
  <2> QED
    BY <1>3, <2>1, <2>2
<1>5. Present \subseteq UNION all
  <2> SUFFICES ASSUME NEW k \in Present PROVE \E n \in 0..Len(log) : k \in named[n]
    OBVIOUS
  <2>1. CASE k \in KeysOf(message)
    BY <1>1, <2>1
  <2>2. CASE k \notin KeysOf(message)
    <3>a. ~Awaited(k) /\ ~PartOf(k)
      BY <2>2 DEF Awaited, PartOf
    <3>b. Weight(k) > 0
      BY <3>a DEF Present
    <3>c. Weight(k) = Naming(log, Base, k) + 0
      BY <3>a DEF Weight
    <3>d. Naming(log, Base, k) \in Nat
      BY BaseFinite, NamingNat
    <3> HIDE DEF named, all
    <3>1. Naming(log, Base, k) > 0
      BY <3>b, <3>c, <3>d
    <3>2. PICK n \in Base : k \in KeysOf(log[n])
      <4>1. {n \in Base : k \in KeysOf(log[n])} # {}
        <5> SUFFICES ASSUME {n \in Base : k \in KeysOf(log[n])} = {} PROVE FALSE
          OBVIOUS
        <5>1. Naming(log, Base, k) = Cardinality({})
          BY DEF Naming
        <5> QED
          BY <3>1, <5>1, FS_EmptySet
      <4> QED
        BY <4>1
    <3>3. n \in 1..Len(log)
      BY BaseFinite
    <3>4. named[n] = KeysOf(log[n]) /\ n \in 0..Len(log)
      BY <1>1, <3>3 DEF named
    <3> QED
      BY <3>2, <3>4
  <2> QED
    BY <2>1, <2>2
<1>6. IsFiniteSet(all)
  <2> HIDE DEF named
  <2>1. [n \in 0..Len(log) |-> named[n]] \in Surjection(0..Len(log), all)
    BY DEF Surjection
  <2> HIDE DEF all
  <2> QED
    BY <1>2, <2>1, FS_Surjection
<1>7. \A s \in all : IsFiniteSet(s)
  BY <1>4
<1> HIDE DEF all
<1>8. IsFiniteSet(UNION all)
  BY <1>6, <1>7, FS_UNION
<1> QED
  BY <1>5, <1>8, FS_Subset

(* Leaving out what has no weight leaves the units as they are.              *)
LEMMA UnitsOfPart ==
    ASSUME NEW S, NEW T \in SUBSET S, NEW f \in [S -> Nat], NEW g \in [T -> Nat],
           \A x \in T : g[x] = f[x], \A x \in S \ T : f[x] = 0
    PROVE  UnitsOf(g) = UnitsOf(f)
<1>1. ASSUME NEW u PROVE u \in UnitsOf(g) <=> u \in UnitsOf(f)
  <2>1. u \in UnitsOf(f) <=> \E x \in S : u \in {x} \X (1..f[x])
    BY DEF UnitsOf
  <2>2. u \in UnitsOf(g) <=> \E x \in T : u \in {x} \X (1..g[x])
    BY DEF UnitsOf
  <2>3. \A x \in S \ T : u \notin {x} \X (1..f[x])
    OBVIOUS
  <2> QED
    BY <2>1, <2>2, <2>3
<1> QED
  BY <1>1

(* The totals are the sums: that of the vertices in every state, those of    *)
(* the edges between messages, for every length of the history.              *)
THEOREM TotalsMatchHolds == Spec => []TotalsMatch
<1> DEFINE ends == {e \in WindowKeys \X WindowKeys :
                       e[1] < e[2] /\ CountedTogether(e[1], e[2]) > 0}
           together == [e \in ends |-> CountedTogether(e[1], e[2])]
<1>1. ASSUME IInv, TotalsExact
      PROVE  graph.total_vertex =
                 MapThenSumSet(LAMBDA k : graph.vertex[k], DOMAIN graph.vertex)
  <2> DEFINE f == graph.vertex
  <2>1. f = [k \in Present |-> Weight(k)]
    BY <1>1 DEF IInv, GraphInv, GraphExact
  <2>2. \A k \in Keys : Weight(k) \in Nat /\ VW[k] = Weight(k)
    BY <1>1, WeightsTyped DEF IInv, VW, Weights
  <2>3. Present \in SUBSET Keys /\ \A k \in Keys \ Present : Weight(k) = 0
    BY <2>2 DEF Present
  <2>4. VW \in [Keys -> Nat]
    BY <2>2 DEF VW
  <2>5. f \in [Present -> Nat] /\ DOMAIN f = Present /\ \A k \in Present : f[k] = VW[k]
    BY <2>1, <2>2, <2>3
  <2> HIDE DEF f
  <2>6. UnitsOf(f) = UnitsOf(VW)
    BY <2>2, <2>3, <2>4, <2>5, UnitsOfPart
  <2>7. MapThenSumSet(LAMBDA k : f[k], DOMAIN f) = Cardinality(UnitsOf(f))
    BY <1>1, <2>5, PresentFinite, SumOfFunction DEF IInv
  <2> QED
    BY <1>1, <2>6, <2>7 DEF TotalsExact, f
<1>2. ASSUME IInv, TotalsExact, phase = "wait"
      PROVE  /\ graph.n_edges = Cardinality(ends)
             /\ graph.total_edges =
                    MapThenSumSet(LAMBDA e : CountedTogether(e[1], e[2]), ends)
  <2>1. /\ Present = WindowKeys /\ WindowKeys \subseteq Keys
        /\ \A a, b \in Keys : PairWeight(a, b) = CountedTogether(a, b)
    BY <1>2, BetweenMessages DEF Present
  <2>2. /\ PW \in [Pairs -> Nat]
        /\ \A e \in Pairs : PW[e] = CountedTogether(e[1], e[2])
    <3>1. \A e \in Pairs : PW[e] = EW[e[1]][e[2]] /\ e[1] \in Keys /\ e[2] \in Keys
      BY DEF PW, EW, Pairs
    <3>2. EW \in PairWeights
      BY <1>2, WeightsTyped DEF IInv
    <3>3. \A e \in Pairs : PW[e] \in Nat
      BY <3>1, <3>2 DEF PairWeights
    <3> QED
      BY <2>1, <3>1, <3>3 DEF PW, EW
  <2>3. \A a, b \in Keys : CountedTogether(a, b) > 0 => a \in WindowKeys /\ b \in WindowKeys
    <3> SUFFICES ASSUME NEW a \in Keys, NEW b \in Keys, CountedTogether(a, b) > 0
                 PROVE a \in WindowKeys /\ b \in WindowKeys
      OBVIOUS
    <3> DEFINE S == {n \in Window : {a, b} \subseteq KeysOf(log[n])}
    <3>1. S # {}
      <4> SUFFICES ASSUME S = {} PROVE FALSE
        OBVIOUS
      <4> QED
        BY FS_EmptySet DEF CountedTogether
    <3> QED
      BY <3>1 DEF WindowKeys
  <2>4. ends = Support(PW)
    <3>1. \A e \in ends : e \in Pairs /\ PW[e] > 0
      BY <2>1, <2>2 DEF Pairs
    <3>2. \A e \in Pairs : PW[e] > 0 => e \in ends
      BY <2>1, <2>2, <2>3 DEF Pairs
    <3> QED
      BY <2>2, <3>1, <3>2 DEF Support
  <2>5. /\ ends \in SUBSET Pairs /\ IsFiniteSet(ends) /\ together \in [ends -> Nat]
        /\ \A e \in ends : together[e] = PW[e]
        /\ \A e \in Pairs \ ends : PW[e] = 0
    <3>1. ends \in SUBSET Pairs /\ \A e \in Pairs \ ends : PW[e] = 0
      BY <2>2, <2>4 DEF Support
    <3>2. IsFiniteSet(ends)
      BY <1>2, <2>4 DEF TotalsExact
    <3> QED
      BY <2>2, <3>1, <3>2
  <2> DEFINE adds(sum) ==
          sum = [s \in SUBSET ends |->
                    IF s = {} THEN 0
                    ELSE LET x == CHOOSE x \in s : TRUE
                         IN CountedTogether(x[1], x[2]) + sum[s \ {x}]]
  <2>6. MapThenSumSet(LAMBDA e : CountedTogether(e[1], e[2]), ends) =
            (CHOOSE sum : adds(sum))[ends]
    BY DEF MapThenSumSet, MapThenFoldSet
  <2>7. DOMAIN together = ends /\ \A e \in ends : together[e] = CountedTogether(e[1], e[2])
    OBVIOUS
  <2> HIDE DEF ends, together
  <2>8. ASSUME NEW sum PROVE adds(sum) <=> Adds(sum, together)
    <3>1. \A s \in SUBSET ends : s # {} =>
             LET x == CHOOSE x \in s : TRUE
             IN together[x] = CountedTogether(x[1], x[2])
      BY <2>7
    <3>2. [s \in SUBSET ends |->
             IF s = {} THEN 0
             ELSE LET x == CHOOSE x \in s : TRUE
                  IN CountedTogether(x[1], x[2]) + sum[s \ {x}]] =
          [s \in SUBSET ends |->
             IF s = {} THEN 0
             ELSE LET x == CHOOSE x \in s : TRUE IN together[x] + sum[s \ {x}]]
      BY <3>1
    <3> QED
      BY <2>7, <3>2 DEF Adds
  <2> HIDE DEF adds
  <2>9. (CHOOSE sum : adds(sum))[ends] = Cardinality(UnitsOf(together))
    <3>1. /\ \E sum : Adds(sum, together)
          /\ \A sum : Adds(sum, together) => sum[ends] = Cardinality(UnitsOf(together))
      BY <2>5, SumIsUnits
    <3>2. adds(CHOOSE sum : adds(sum))
      BY <2>8, <3>1
    <3> QED
      BY <2>8, <3>1, <3>2
  <2>10. UnitsOf(together) = UnitsOf(PW)
    BY <2>2, <2>5, UnitsOfPart
  <2> QED
    BY <1>2, <2>4, <2>6, <2>9, <2>10 DEF TotalsExact
<1>3. IInv /\ TotalsExact => TotalsMatch
  BY <1>1, <1>2 DEF TotalsMatch
<1> QED
  BY GraphInductive, TotalsInductive, <1>3, PTL

-----------------------------------------------------------------------------
(* The copy for the partitioners                                             *)

Before == {p \in Nat \X Nat : p[1] < p[2]}

(* Induction over the numbers, likewise by the least one.                    *)
LEMMA LeastNumber ==
    ASSUME NEW T \in SUBSET Nat, T # {}
    PROVE  \E x \in T : \A y \in T : x <= y
<1>1. IsWellFoundedOn(Before, Nat)
  BY NatLessThanWellFounded DEF OpToRel, Before
<1>2. PICK x \in T : \A y \in T : ~(<<y, x>> \in Before)
  BY <1>1, WFMin
<1>3. \A y \in T : ~(y < x)
  BY <1>2 DEF Before
<1> QED
  BY <1>3

LEMMA Greatest ==
    ASSUME NEW S, \A x \in S : x \in Int, IsFiniteSet(S), S # {}
    PROVE  \E x \in S : \A y \in S : y <= x
<1> DEFINE T == {s \in SUBSET S : s # {} /\ \A x \in s : \E y \in s : y > x}
<1>0. SUFFICES ASSUME T # {} PROVE FALSE
  <2>1. S \notin T
    OBVIOUS
  <2>2. PICK x \in S : \A y \in S : ~(y > x)
    BY <2>1
  <2> QED
    BY <2>2
<1>1. PICK s \in T : \A t \in T : ~(t \subseteq s /\ t # s)
  <2>1. T \in SUBSET SUBSET S
    OBVIOUS
  <2> HIDE DEF T
  <2> QED
    BY <1>0, <2>1, LeastSubset
<1>2. PICK x \in s : TRUE
  BY <1>1
<1>3. PICK y \in s : y > x
  BY <1>1
<1>a. s \in SUBSET S
  BY <1>1
<1>b. x \in Int /\ y \in Int /\ y # x
  BY <1>3, <1>a
<1>4. s \ {x} \notin T /\ s \ {x} # {} /\ s \ {x} \in SUBSET S
  <2>1. s \ {x} \subseteq s /\ s \ {x} # s
    OBVIOUS
  <2>2. s \ {x} \notin T
    BY <1>1, <2>1
  <2> QED
    BY <1>a, <1>b, <2>2
<1>5. PICK z \in s \ {x} : \A u \in s \ {x} : ~(u > z)
  BY <1>4
<1>6. PICK u \in s : u > z
  BY <1>1, <1>5
<1>7. u = x
  BY <1>5, <1>6
<1> QED
  BY <1>3, <1>5, <1>6, <1>7

Increasing(s, n) == \A a, b \in 1..n : a < b => s[a] < s[b]

LEMMA OrderExists ==
    ASSUME NEW S, \A x \in S : x \in Int, IsFiniteSet(S)
    PROVE  \E s \in [1..Cardinality(S) -> S] : Increasing(s, Cardinality(S))
<1> DEFINE ordered(t) == \E s \in [1..Cardinality(t) -> t] : Increasing(s, Cardinality(t))
           T == {t \in SUBSET S : ~ordered(t)}
<1>0. SUFFICES ASSUME T # {} PROVE FALSE
  OBVIOUS
<1>1. PICK t \in T : \A u \in T : ~(u \subseteq t /\ u # t)
  <2>1. T \in SUBSET SUBSET S
    OBVIOUS
  <2> HIDE DEF T
  <2> QED
    BY <1>0, <2>1, LeastSubset
<1>2. t # {}
  <2> SUFFICES ordered({})
    BY <1>1
  <2>1. [a \in {} |-> 0] \in [1..0 -> {}]
    OBVIOUS
  <2>2. Increasing([a \in {} |-> 0], 0)
    BY DEF Increasing
  <2> QED
    BY <2>1, <2>2, FS_EmptySet
<1>3. IsFiniteSet(t) /\ \A x \in t : x \in Int
  BY <1>1, FS_Subset
<1>4. PICK x \in t : \A y \in t : y <= x
  BY <1>2, <1>3, Greatest
<1> DEFINE rest == t \ {x}
           n == Cardinality(rest)
<1>5. n \in Nat /\ Cardinality(t) = n + 1
  <2>1. IsFiniteSet(rest) /\ n = Cardinality(t) - 1
    BY <1>3, FS_RemoveElement
  <2> QED
    BY <1>3, <2>1, FS_CardinalityType
<1>6. ordered(rest)
  <2>1. rest \subseteq t /\ rest # t /\ rest \in SUBSET S
    BY <1>1
  <2>2. rest \notin T
    BY <1>1, <2>1
  <2> HIDE DEF ordered, rest
  <2> QED
    BY <2>1, <2>2
<1>7. PICK s \in [1..n -> rest] : Increasing(s, n)
  BY <1>6
<1> DEFINE more == [a \in 1..n + 1 |-> IF a = n + 1 THEN x ELSE s[a]]
<1> HIDE DEF n
<1>8. more \in [1..n + 1 -> t]
  BY <1>5
<1>9. Increasing(more, n + 1)
  <2> SUFFICES ASSUME NEW a \in 1..n + 1, NEW b \in 1..n + 1, a < b
               PROVE  more[a] < more[b]
    BY DEF Increasing
  <2>1. a \in 1..n /\ more[a] = s[a] /\ s[a] \in rest
    BY <1>5
  <2>2. CASE b = n + 1
    <3>1. s[a] \in Int /\ x \in Int /\ s[a] <= x /\ s[a] # x
      BY <1>3, <1>4, <2>1
    <3> QED
      BY <2>1, <2>2, <3>1
  <2>3. CASE b # n + 1
    <3>1. b \in 1..n /\ more[b] = s[b]
      BY <1>5, <2>3
    <3> QED
      BY <1>7, <2>1, <3>1 DEF Increasing
  <2> QED
    BY <2>2, <2>3
<1>10. ordered(t)
  BY <1>5, <1>8, <1>9
<1> QED
  BY <1>1, <1>10

(* The keys in order: each of them once.                                     *)
LEMMA InOrderSound ==
    ASSUME NEW S, \A x \in S : x \in Int, IsFiniteSet(S)
    PROVE  /\ Cardinality(S) \in Nat
           /\ InOrder(S) \in [1..Cardinality(S) -> S]
           /\ \A a, b \in 1..Cardinality(S) : InOrder(S)[a] = InOrder(S)[b] => a = b
           /\ \A k \in S : \E a \in 1..Cardinality(S) : InOrder(S)[a] = k
<1> DEFINE n == Cardinality(S)
           s == InOrder(S)
<1>1. s \in [1..n -> S] /\ Increasing(s, n)
  <2>1. \E f \in [1..n -> S] : \A a, b \in 1..n : a < b => f[a] < f[b]
    BY OrderExists DEF Increasing
  <2> QED
    BY <2>1 DEF InOrder, Increasing
<1>2. n \in Nat
  BY FS_CardinalityType
<1> HIDE DEF n, s
<1>3. \A a, b \in 1..n : s[a] = s[b] => a = b
  <2> SUFFICES ASSUME NEW a \in 1..n, NEW b \in 1..n, s[a] = s[b], a # b PROVE FALSE
    OBVIOUS
  <2>1. s[a] \in Int /\ s[b] \in Int
    BY <1>1
  <2>2. a < b \/ b < a
    BY <1>2
  <2> QED
    BY <1>1, <2>1, <2>2 DEF Increasing
<1>4. s \in Injection(1..n, S)
  BY <1>1, <1>3 DEF Injection, IsInjective
<1>5. IsFiniteSet(1..n) /\ Cardinality(1..n) = n
  BY <1>2, FS_Interval
<1>6. s \in Surjection(1..n, S)
  BY <1>4, <1>5, FS_Injection DEF n
<1> QED
  BY <1>1, <1>2, <1>3, <1>6 DEF Surjection, n, s

(* The elements of a set in some order: each of them once.                   *)
LEMMA SetToSeqSound ==
    ASSUME NEW S, IsFiniteSet(S)
    PROVE  /\ Cardinality(S) \in Nat
           /\ SetToSeq(S) \in [1..Cardinality(S) -> S]
           /\ \A a, b \in 1..Cardinality(S) : SetToSeq(S)[a] = SetToSeq(S)[b] => a = b
           /\ \A x \in S : \E a \in 1..Cardinality(S) : SetToSeq(S)[a] = x
<1> DEFINE n == Cardinality(S)
           s == SetToSeq(S)
<1>1. n \in Nat /\ ExistsBijection(1..n, S)
  BY FS_CardinalityType
<1>2. \E f \in [1..n -> S] : IsInjective(f)
  BY <1>1 DEF ExistsBijection, Bijection, Injection
<1>3. s \in [1..n -> S] /\ IsInjective(s)
  BY <1>2 DEF SetToSeq
<1> HIDE DEF n, s
<1>4. s \in Injection(1..n, S)
  BY <1>3 DEF Injection
<1>5. IsFiniteSet(1..n) /\ Cardinality(1..n) = n
  BY <1>1, FS_Interval
<1>6. s \in Surjection(1..n, S)
  BY <1>4, <1>5, FS_Injection DEF n
<1> QED
  BY <1>1, <1>3, <1>6 DEF IsInjective, Surjection, n, s

-----------------------------------------------------------------------------

(* The recursion that gives the ends of the rows.                            *)
Ends(end, len, N) == end = [n \in 0..N |-> IF n = 0 THEN 0 ELSE end[n - 1] + len[n]]

LEMMA EndsExist ==
    ASSUME NEW N \in Nat, NEW len \in [1..N -> Nat]
    PROVE  \E end : Ends(end, len, N)
<1> DEFINE end == [n \in 0..N |-> Cardinality(Within(len, 1..n))]
<1> DEFINE S == 1..N
<1>0. IsFiniteSet(S) /\ len \in [S -> Nat]
  <2>1. IsFiniteSet(1..N)
    BY FS_Interval
  <2> QED
    BY <2>1
<1>1. \A s \in SUBSET S : IsFiniteSet(Within(len, s))
  <2> HIDE DEF S
  <2> QED
    BY <1>0, WithinFinite
<1>2. Cardinality(Within(len, 1..0)) = 0
  <2>1. Within(len, 1..0) = {}
    BY DEF Within
  <2> QED
    BY <2>1, FS_EmptySet
<1>3. ASSUME NEW n \in 1..N
      PROVE  Cardinality(Within(len, 1..n)) = Cardinality(Within(len, 1..(n - 1))) + len[n]
  <2> DEFINE s == 1..n
  <2>1. s \ {n} = 1..(n - 1) /\ n \in s /\ s \in SUBSET S /\ s \ {n} \in SUBSET S
    OBVIOUS
  <2>2. len[n] \in Nat
    OBVIOUS
  <2> HIDE DEF s, S
  <2>3. IsFiniteSet(Within(len, s \ {n}))
    BY <1>1, <2>1
  <2>4. Cardinality(Within(len, s)) = len[n] + Cardinality(Within(len, s \ {n}))
    BY <1>0, <2>1, <2>3, WithinOneMore
  <2>5. Cardinality(Within(len, s \ {n})) \in Nat
    BY <2>3, FS_CardinalityType
  <2>6. Cardinality(Within(len, s)) = Cardinality(Within(len, s \ {n})) + len[n]
    BY <2>2, <2>4, <2>5
  <2> QED
    BY <2>1, <2>6 DEF s
<1>4. \A n \in 0..N : end[n] = IF n = 0 THEN 0 ELSE end[n - 1] + len[n]
  BY <1>2, <1>3
<1> QED
  BY <1>4 DEF Ends

(* The rows follow one another.                                              *)
LEMMA EndsSound ==
    ASSUME NEW N \in Nat, NEW len \in [1..N -> Nat], NEW end, Ends(end, len, N)
    PROVE  /\ end \in [0..N -> Nat]
           /\ end[0] = 0
           /\ \A n \in 1..N : end[n] = end[n - 1] + len[n]
           /\ \A m, n \in 0..N : m <= n => end[m] <= end[n]
           /\ \A e \in 1..end[N] : \E n \in 1..N : e \in end[n - 1] + 1 .. end[n]
<1>1. /\ DOMAIN end = 0..N /\ end = [n \in 0..N |-> end[n]]
      /\ end[0] = 0 /\ \A n \in 1..N : end[n] = end[n - 1] + len[n]
  <2> DEFINE new == [n \in 0..N |-> IF n = 0 THEN 0 ELSE end[n - 1] + len[n]]
  <2>1. end = new
    BY DEF Ends
  <2>2. DOMAIN new = 0..N /\ new = [n \in 0..N |-> new[n]]
        /\ new[0] = 0 /\ \A n \in 1..N : new[n] = end[n - 1] + len[n]
    OBVIOUS
  <2> HIDE DEF new
  <2> QED
    BY <2>1, <2>2
<1>2. \A n \in 0..N : end[n] \in Nat
  <2> DEFINE T == {n \in 0..N : end[n] \notin Nat}
  <2>0. SUFFICES ASSUME T # {} PROVE FALSE
    OBVIOUS
  <2>1. T \in SUBSET Nat
    OBVIOUS
  <2>2. PICK n \in T : \A m \in T : n <= m
    <3> HIDE DEF T
    <3> QED
      BY <2>0, <2>1, LeastNumber
  <2>3. n \in 1..N /\ n - 1 \in 0..N
    BY <1>1
  <2>4. end[n - 1] \in Nat
    BY <2>2, <2>3
  <2>5. end[n] = end[n - 1] + len[n] /\ len[n] \in Nat
    BY <1>1, <2>3
  <2> QED
    BY <2>2, <2>4, <2>5
<1>3. \A m, n \in 0..N : m <= n => end[m] <= end[n]
  <2> SUFFICES ASSUME NEW m \in 0..N PROVE \A n \in 0..N : m <= n => end[m] <= end[n]
    OBVIOUS
  <2> DEFINE T == {n \in 0..N : m <= n /\ ~(end[m] <= end[n])}
  <2>0. SUFFICES ASSUME T # {} PROVE FALSE
    OBVIOUS
  <2>1. T \in SUBSET Nat
    OBVIOUS
  <2>2. PICK n \in T : \A k \in T : n <= k
    <3> HIDE DEF T
    <3> QED
      BY <2>0, <2>1, LeastNumber
  <2>3. n # m
    BY <1>2
  <2>4. n \in 1..N /\ n - 1 \in 0..N /\ m <= n - 1
    BY <2>3
  <2>5. end[m] <= end[n - 1]
    BY <2>2, <2>4
  <2>6. end[n] = end[n - 1] + len[n] /\ len[n] \in Nat /\ end[n - 1] \in Nat
    BY <1>1, <1>2, <2>4
  <2>7. end[m] \in Nat
    BY <1>2
  <2> QED
    BY <2>5, <2>6, <2>7
<1>4. ASSUME NEW e \in 1..end[N]
      PROVE  \E n \in 1..N : e \in end[n - 1] + 1 .. end[n]
  <2> DEFINE T == {n \in 0..N : e <= end[n]}
  <2>0. N \in T
    BY <1>2
  <2>1. T \in SUBSET Nat
    OBVIOUS
  <2>2. PICK n \in T : \A m \in T : n <= m
    <3> HIDE DEF T
    <3> QED
      BY <2>0, <2>1, LeastNumber
  <2>3. n \in 1..N /\ n - 1 \in 0..N /\ e <= end[n]
    BY <1>1, <1>2
  <2>4. ~(e <= end[n - 1])
    BY <2>2, <2>3
  <2>5. end[n - 1] \in Nat /\ end[n] \in Nat /\ e \in Nat
    BY <1>2, <2>3
  <2>6. e \in end[n - 1] + 1 .. end[n]
    BY <2>3, <2>4, <2>5
  <2> QED
    BY <2>3, <2>6
<1> QED
  BY <1>1, <1>2, <1>3, <1>4

(* and none shares a place with another.                                     *)
LEMMA RowsDisjoint ==
    ASSUME NEW N \in Nat, NEW len \in [1..N -> Nat], NEW end, Ends(end, len, N),
           NEW m \in 1..N, NEW n \in 1..N,
           NEW e \in end[m - 1] + 1 .. end[m], e \in end[n - 1] + 1 .. end[n]
    PROVE  m = n
<1>1. end \in [0..N -> Nat] /\ \A a, b \in 0..N : a <= b => end[a] <= end[b]
  BY EndsSound
<1>2. /\ end[m] \in Nat /\ end[n] \in Nat /\ end[m - 1] \in Nat /\ end[n - 1] \in Nat
      /\ m \in 0..N /\ n \in 0..N /\ m - 1 \in 0..N /\ n - 1 \in 0..N
  BY <1>1
<1>3. ~(m < n)
  <2> SUFFICES ASSUME m <= n - 1 PROVE FALSE
    OBVIOUS
  <2>1. end[m] <= end[n - 1]
    BY <1>1, <1>2
  <2> QED
    BY <1>2, <2>1
<1>4. ~(n < m)
  <2> SUFFICES ASSUME n <= m - 1 PROVE FALSE
    OBVIOUS
  <2>1. end[n] <= end[m - 1]
    BY <1>1, <1>2
  <2> QED
    BY <1>2, <2>1
<1> QED
  BY <1>3, <1>4

(* The recursion that FlattenSeq stands for.                                 *)
Flattens(f, rows, N) ==
    f = [n \in 1..N |-> IF n = 1 THEN rows[n] ELSE f[n - 1] \o rows[n]]

LEMMA FlattensSays ==
    ASSUME NEW N, NEW rows, NEW f, Flattens(f, rows, N)
    PROVE  /\ f = [n \in 1..N |-> f[n]]
           /\ \A n \in 1..N : f[n] = IF n = 1 THEN rows[n] ELSE f[n - 1] \o rows[n]
<1> DEFINE new == [n \in 1..N |-> IF n = 1 THEN rows[n] ELSE f[n - 1] \o rows[n]]
<1>1. f = new
  BY DEF Flattens
<1>2. /\ new = [n \in 1..N |-> new[n]]
      /\ \A n \in 1..N : new[n] = IF n = 1 THEN rows[n] ELSE f[n - 1] \o rows[n]
  OBVIOUS
<1> HIDE DEF new
<1> QED
  BY <1>1, <1>2

LEMMA FlattensExists ==
    ASSUME NEW N \in Nat, NEW rows
    PROVE  \E f : Flattens(f, rows, N)
<1> DEFINE T == {n \in 0..N : ~ \E f : Flattens(f, rows, n)}
<1>1. SUFFICES ASSUME T # {} PROVE FALSE
  OBVIOUS
<1>2. T \in SUBSET Nat
  OBVIOUS
<1>3. PICK n \in T : \A m \in T : n <= m
  <2> HIDE DEF T
  <2> QED
    BY <1>1, <1>2, LeastNumber
<1>4. n # 0
  <2>1. Flattens([m \in 1..0 |-> 0], rows, 0)
    BY DEF Flattens
  <2> QED
    BY <1>3, <2>1
<1>5. n \in Nat /\ n - 1 \in 0..N /\ n - 1 \notin T
  BY <1>3, <1>4
<1>6. PICK f : Flattens(f, rows, n - 1)
  BY <1>5
<1>7. \A m \in 1..n - 1 : f[m] = IF m = 1 THEN rows[m] ELSE f[m - 1] \o rows[m]
  BY <1>6, FlattensSays
<1> DEFINE g == [m \in 1..n |-> IF m \in 1..n - 1 THEN f[m]
                                ELSE IF m = 1 THEN rows[m] ELSE f[m - 1] \o rows[m]]
<1>8. ASSUME NEW m \in 1..n
      PROVE  g[m] = IF m = 1 THEN rows[m] ELSE g[m - 1] \o rows[m]
  <2>1. m # 1 => m - 1 \in 1..n - 1 /\ m - 1 \in 1..n
    BY <1>5
  <2>2. m # 1 => g[m - 1] = f[m - 1]
    BY <2>1
  <2>3. m \in 1..n - 1 => g[m] = f[m]
    OBVIOUS
  <2>4. m \notin 1..n - 1 => g[m] = IF m = 1 THEN rows[m] ELSE f[m - 1] \o rows[m]
    OBVIOUS
  <2> HIDE DEF g
  <2> QED
    BY <1>7, <2>2, <2>3, <2>4
<1>9. Flattens(g, rows, n)
  BY <1>8 DEF Flattens
<1> QED
  BY <1>3, <1>9

(* The row m has its place in s.                                             *)
RowInPlace(s, rows, end, m) == \A k \in 1..Len(rows[m]) : s[end[m - 1] + k] = rows[m][k]

LEMMA RowAppended ==
    ASSUME NEW T, NEW s \in Seq(T), NEW r \in Seq(T)
    PROVE  /\ s \o r \in Seq(T)
           /\ Len(s \o r) = Len(s) + Len(r)
           /\ \A e \in 1..Len(s) : (s \o r)[e] = s[e]
           /\ \A k \in 1..Len(r) : (s \o r)[Len(s) + k] = r[k]
  OBVIOUS

LEMMA RowWithin ==
    ASSUME NEW a \in Nat, NEW l \in Nat, NEW b \in Nat, a + l <= b, NEW k \in 1..l
    PROVE  a + k \in 1..b
  OBVIOUS

(* N rows of elements of T and their lengths.                                *)
Rows(rows, N, T, len) ==
    /\ N \in Nat /\ rows \in [1..N -> Seq(T)] /\ len \in [1..N -> Nat]
    /\ \A n \in 1..N : len[n] = Len(rows[n])

(* The rows in one sequence, each after the end of the one before.           *)
LEMMA FlattenSound ==
    ASSUME NEW N, NEW T, NEW rows, NEW len, NEW end, Rows(rows, N, T, len), Ends(end, len, N)
    PROVE  /\ Len(FlattenSeq(rows)) = end[N]
           /\ \A n \in 1..N : RowInPlace(FlattenSeq(rows), rows, end, n)
<1>0. N \in Nat /\ rows \in [1..N -> Seq(T)] /\ len \in [1..N -> Nat]
  BY DEF Rows
<1>1. \A n \in 1..N : len[n] = Len(rows[n]) /\ len[n] \in Nat /\ rows[n] \in Seq(T)
  BY DEF Rows
<1>3. /\ end \in [0..N -> Nat]
      /\ end[0] = 0
      /\ \A n \in 1..N : end[n] = end[n - 1] + len[n]
      /\ \A m, n \in 0..N : m <= n => end[m] <= end[n]
  BY <1>0, EndsSound
<1>4. \A n \in 0..N : end[n] \in Nat
  BY <1>3
<1> DEFINE placed(s, n) == /\ s \in Seq(T) /\ Len(s) = end[n]
                           /\ \A m \in 1..n : RowInPlace(s, rows, end, m)
<1>5. ASSUME NEW f, Flattens(f, rows, N)
      PROVE  \A n \in 1..N : placed(f[n], n)
  <2> DEFINE D == {n \in 1..N : ~placed(f[n], n)}
  <2>1. SUFFICES ASSUME D # {} PROVE FALSE
    OBVIOUS
  <2>2. D \in SUBSET Nat
    OBVIOUS
  <2>3. PICK n \in D : \A m \in D : n <= m
    <3> HIDE DEF D
    <3> QED
      BY <2>1, <2>2, LeastNumber
  <2>4. n \in 1..N /\ ~placed(f[n], n)
    BY <2>3
  <2>5. f[n] = IF n = 1 THEN rows[n] ELSE f[n - 1] \o rows[n]
    BY <1>5, <2>4, FlattensSays
  <2> DEFINE r == rows[n]
  <2>6. r \in Seq(T) /\ Len(r) = len[n] /\ end[n] = end[n - 1] + len[n] /\ len[n] \in Nat
    BY <1>0, <1>1, <1>3, <2>4
  <2>7. CASE n = 1
    <3>1. end[n - 1] = 0 /\ end[n] = Len(r)
      BY <1>3, <2>6, <2>7
    <3>2. RowInPlace(r, rows, end, n)
      BY <3>1 DEF RowInPlace
    <3>3. \A m \in 1..n : m = n
      BY <2>7
    <3>4. placed(r, n)
      BY <2>6, <3>1, <3>2, <3>3
    <3> QED
      BY <2>4, <2>5, <2>7, <3>4
  <2>8. CASE n # 1
    <3> DEFINE s == f[n - 1]
               u == s \o r
    <3>1. n - 1 \in 1..N /\ n - 1 \in 0..N /\ n \in 0..N /\ ~(n <= n - 1)
      BY <1>0, <2>4, <2>8
    <3>2. placed(s, n - 1)
      BY <2>3, <3>1
    <3> HIDE DEF r, s, D
    <3>3. s \in Seq(T) /\ Len(s) = end[n - 1] /\ \A m \in 1..n - 1 : RowInPlace(s, rows, end, m)
      BY <3>2
    <3>4. /\ u \in Seq(T) /\ Len(u) = Len(s) + Len(r)
          /\ \A e \in 1..Len(s) : u[e] = s[e]
          /\ \A k \in 1..Len(r) : u[Len(s) + k] = r[k]
      <4>1. s \in Seq(T) /\ r \in Seq(T)
        BY <2>6, <3>3
      <4> QED
        BY <4>1, RowAppended
    <3> HIDE DEF u
    <3>5. Len(u) = end[n]
      BY <2>6, <3>3, <3>4
    <3>6. RowInPlace(u, rows, end, n)
      BY <3>3, <3>4 DEF RowInPlace, r
    <3>7. ASSUME NEW m \in 1..n - 1 PROVE RowInPlace(u, rows, end, m)
      <4>1. m \in 1..N /\ m \in 0..N /\ m - 1 \in 0..N /\ m <= n - 1
        BY <1>0, <3>1
      <4>2. /\ len[m] = Len(rows[m]) /\ len[m] \in Nat
            /\ end[m - 1] \in Nat /\ end[n - 1] \in Nat
            /\ end[m] = end[m - 1] + len[m] /\ end[m] <= end[n - 1]
        BY <1>1, <1>3, <1>4, <3>1, <4>1
      <4>3. RowInPlace(s, rows, end, m)
        BY <3>3
      <4> SUFFICES ASSUME NEW k \in 1..Len(rows[m])
                   PROVE  u[end[m - 1] + k] = rows[m][k]
        BY DEF RowInPlace
      <4>4. s[end[m - 1] + k] = rows[m][k]
        BY <4>3 DEF RowInPlace
      <4> DEFINE a == end[m - 1]
                 b == end[n - 1]
                 l == len[m]
      <4>5. a \in Nat /\ b \in Nat /\ l \in Nat /\ a + l <= b /\ k \in 1..l
        BY <4>2
      <4> HIDE DEF a, b, l
      <4>6. a + k \in 1..b
        BY <4>5, RowWithin
      <4>7. u[a + k] = s[a + k]
        BY <3>3, <3>4, <4>6 DEF b
      <4> QED
        BY <4>4, <4>7 DEF a
    <3>8. \A m \in 1..n : m = n \/ m \in 1..n - 1
      BY <2>4
    <3>9. placed(u, n)
      BY <3>4, <3>5, <3>6, <3>7, <3>8
    <3>10. u = f[n]
      BY <2>5, <2>8 DEF u, s, r
    <3> QED
      BY <2>4, <3>9, <3>10
  <2> QED
    BY <2>7, <2>8
<1>6. Len(rows) = N
  BY <1>0
<1>7. CASE N = 0
  <2>1. FlattenSeq(rows) = rows
    BY <1>6, <1>7 DEF FlattenSeq
  <2>2. rows \in Seq(T) /\ Len(rows) = end[N]
    BY <1>0, <1>3, <1>6, <1>7
  <2> QED
    BY <1>7, <2>1, <2>2
<1>8. CASE N # 0
  <2> DEFINE f == CHOOSE g : Flattens(g, rows, N)
  <2>1. FlattenSeq(rows) = f[N]
    BY <1>6, <1>8 DEF FlattenSeq, Flattens
  <2>2. Flattens(f, rows, N)
    BY <1>0, FlattensExists
  <2> HIDE DEF f
  <2>3. placed(f[N], N)
    BY <1>0, <1>5, <1>8, <2>2
  <2> QED
    BY <2>1, <2>3
<1> QED
  BY <1>0, <1>7, <1>8

-----------------------------------------------------------------------------

(* s holds each element of S once.                                           *)
Enumerates(s, S) ==
    /\ s \in Seq(S)
    /\ \A a, b \in 1..Len(s) : s[a] = s[b] => a = b
    /\ \A x \in S : \E a \in 1..Len(s) : s[a] = x

(* A graph whose vertices are the numbers V and whose edges join two of them.*)
GraphOn(g, V) ==
    /\ IsFiniteSet(V) /\ \A v \in V : v \in Int
    /\ DOMAIN g.vertex = V
    /\ \A v \in V : DOMAIN g.edges[v] \subseteq V \ {v}

(* The copy lists, row by row, the neighbours rows[n] of the n-th key.       *)
CutOf(cut, g, V, rows, end) ==
    LET n == Cardinality(V)
        key == InOrder(V)
    IN /\ rows \in [1..n -> Seq(V)]
       /\ \A m \in 1..n : Enumerates(rows[m], DOMAIN g.edges[key[m]])
       /\ Ends(end, [m \in 1..n |-> Len(rows[m])], n)
       /\ cut.vertice_weight = [m \in 1..n |-> g.vertex[key[m]]]
       /\ cut.x_edges = [m \in 1..n + 1 |-> end[m - 1]]
       /\ Len(cut.edges) = end[n]
       /\ Len(cut.edges_weight) = end[n]
       /\ \A m \in 1..n : \A k \in 1..Len(rows[m]) :
             /\ key[cut.edges[end[m - 1] + k] + 1] = rows[m][k]
             /\ cut.edges_weight[end[m - 1] + k] = g.edges[key[m]][rows[m][k]]

LEMMA SetToSeqEnumerates ==
    ASSUME NEW S, IsFiniteSet(S)
    PROVE  Enumerates(SetToSeq(S), S)
<1> DEFINE s == SetToSeq(S)
           n == Cardinality(S)
<1>1. /\ n \in Nat /\ s \in [1..n -> S]
      /\ \A a, b \in 1..n : s[a] = s[b] => a = b
      /\ \A x \in S : \E a \in 1..n : s[a] = x
  BY SetToSeqSound
<1> HIDE DEF s, n
<1>2. s \in Seq(S) /\ Len(s) = n
  BY <1>1
<1> QED
  BY <1>1, <1>2 DEF Enumerates, s

LEMMA CutDataIsCut ==
    ASSUME NEW g, NEW V, GraphOn(g, V)
    PROVE  \E rows, end : CutOf(CutData(g), g, V, rows, end)
<1> DEFINE C == Cardinality(V)
           key == InOrder(V)
           rows == [n \in 1..C |-> Neighbours(g, key[n])]
           len == [n \in 1..C |-> Len(rows[n])]
           position == [v \in V |-> (CHOOSE n \in 1..C : key[n] = v) - 1]
           end == CHOOSE end : Ends(end, len, C)
           neighbours == [n \in 1..C |-> [k \in DOMAIN rows[n] |-> position[rows[n][k]]]]
           weights == [n \in 1..C |-> [k \in DOMAIN rows[n] |-> g.edges[key[n]][rows[n][k]]]]
           W == {g.edges[e[1]][e[2]] : e \in V \X V}
<1>1. IsFiniteSet(V) /\ \A v \in V : v \in Int /\ DOMAIN g.edges[v] \subseteq V
  BY DEF GraphOn
<1>2. /\ C \in Nat /\ key \in [1..C -> V]
      /\ \A a, b \in 1..C : key[a] = key[b] => a = b
      /\ \A v \in V : \E a \in 1..C : key[a] = v
  BY <1>1, InOrderSound
<1> HIDE DEF C, key
<1>3. ASSUME NEW n \in 1..C
      PROVE  /\ rows[n] = Neighbours(g, key[n])
             /\ rows[n] \in Seq(V)
             /\ Enumerates(rows[n], DOMAIN g.edges[key[n]])
  <2>1. key[n] \in V
    BY <1>2
  <2> DEFINE S == DOMAIN g.edges[key[n]]
  <2>2. S \in SUBSET V /\ S \cap DOMAIN g.vertex = S
    BY <1>1, <2>1 DEF GraphOn
  <2> HIDE DEF S
  <2>3. IsFiniteSet(S)
    BY <1>1, <2>2, FS_Subset
  <2>4. Neighbours(g, key[n]) = SetToSeq(S)
    BY <2>2 DEF Neighbours, S
  <2>5. Enumerates(rows[n], S)
    BY <2>3, <2>4, SetToSeqEnumerates
  <2>6. rows[n] \in Seq(V)
    BY <2>2, <2>5 DEF Enumerates
  <2> QED
    BY <2>5, <2>6 DEF S
<1>4. rows \in [1..C -> Seq(V)] /\ DOMAIN rows = 1..C /\ Len(rows) = C
  <2>1. rows \in [1..C -> Seq(V)]
    BY <1>3
  <2> HIDE DEF rows
  <2> QED
    BY <1>2, <2>1
<1>5. \A n \in 1..C : rows[n] \in Seq(V) /\ DOMAIN rows[n] = 1..Len(rows[n])
                      /\ Len(rows[n]) \in Nat
  <2> HIDE DEF rows
  <2> QED
    BY <1>4
<1>6. len \in [1..C -> Nat]
  BY <1>5
<1>7. Ends(end, len, C)
  <2> HIDE DEF len
  <2>1. \E e : Ends(e, len, C)
    BY <1>2, <1>6, EndsExist
  <2> QED
    BY <2>1
<1>8. \A n \in 1..C : position[key[n]] = n - 1
  BY <1>2
<1>9. CutData(g) =
         [vertice_weight |-> [n \in 1..C |-> g.vertex[key[n]]],
          x_edges |-> [n \in 1..C + 1 |-> end[n - 1]],
          edges |-> FlattenSeq(neighbours),
          edges_weight |-> FlattenSeq(weights)]
  <2> DEFINE sorted == SortedVertex(g)
             place == [v \in DOMAIN g.vertex |->
                          (CHOOSE n \in DOMAIN sorted : sorted[n] = v) - 1]
             lists == [n \in DOMAIN sorted |-> Neighbours(g, sorted[n])]
             ends(e) == e = [n \in 0..Len(lists) |->
                                IF n = 0 THEN 0 ELSE e[n - 1] + Len(lists[n])]
             vertice_weight == [n \in DOMAIN sorted |-> g.vertex[sorted[n]]]
             chosen == CHOOSE e : ends(e)
             x_edges == [n \in 1..Len(lists) + 1 |-> chosen[n - 1]]
             edges == [n \in DOMAIN lists |-> [k \in DOMAIN lists[n] |-> place[lists[n][k]]]]
             edges_weight == [n \in DOMAIN lists |->
                                 [k \in DOMAIN lists[n] |-> g.edges[sorted[n]][lists[n][k]]]]
  <2>1. CutData(g) = [vertice_weight |-> vertice_weight, x_edges |-> x_edges,
                      edges |-> FlattenSeq(edges),
                      edges_weight |-> FlattenSeq(edges_weight)]
    BY DEF CutData
  <2>2. sorted = key /\ DOMAIN sorted = 1..C /\ DOMAIN g.vertex = V
    BY <1>2 DEF SortedVertex, GraphOn, key
  <2> HIDE DEF sorted
  <2>3. lists = rows /\ place = position
    BY <2>2
  <2> HIDE DEF lists, place, rows, position
  <2>4. ASSUME NEW e PROVE ends(e) <=> Ends(e, len, C)
    <3>1. \A n \in 0..C : n # 0 => len[n] = Len(rows[n])
      BY <1>2
    <3> HIDE DEF len
    <3>2. [n \in 0..C |-> IF n = 0 THEN 0 ELSE e[n - 1] + Len(rows[n])] =
              [n \in 0..C |-> IF n = 0 THEN 0 ELSE e[n - 1] + len[n]]
      BY <3>1
    <3> QED
      BY <1>4, <2>3, <3>2 DEF Ends
  <2> HIDE DEF ends, len
  <2>5. chosen = end
    BY <2>4
  <2> HIDE DEF end, chosen
  <2>6. neighbours = edges
    BY <1>4, <2>3
  <2>7. weights = edges_weight
    BY <1>4, <2>2, <2>3
  <2> HIDE DEF neighbours, weights, edges, edges_weight
  <2>8. vertice_weight = [n \in 1..C |-> g.vertex[key[n]]]
    BY <2>2
  <2>9. x_edges = [n \in 1..C + 1 |-> end[n - 1]]
    BY <1>4, <2>3, <2>5
  <2> HIDE DEF vertice_weight, x_edges
  <2> QED
    BY <2>1, <2>6, <2>7, <2>8, <2>9
<1> HIDE DEF end, rows
<1>10. ASSUME NEW n \in 1..C, NEW k \in 1..Len(rows[n])
       PROVE  /\ rows[n][k] \in V /\ key[n] \in V
              /\ position[rows[n][k]] \in Int
              /\ key[position[rows[n][k]] + 1] = rows[n][k]
              /\ g.edges[key[n]][rows[n][k]] \in W
  <2>1. rows[n][k] \in V /\ key[n] \in V
    BY <1>2, <1>5
  <2>2. PICK m \in 1..C : key[m] = rows[n][k]
    BY <1>2, <2>1
  <2>3. position[rows[n][k]] = m - 1
    BY <1>8, <2>2
  <2>4. position[rows[n][k]] \in Int /\ key[position[rows[n][k]] + 1] = rows[n][k]
    BY <2>2, <2>3
  <2>5. <<key[n], rows[n][k]>> \in V \X V
    BY <2>1
  <2> QED
    BY <2>1, <2>4, <2>5
<1> HIDE DEF position, W
<1>11. /\ neighbours \in [1..C -> Seq(Int)]
       /\ \A n \in 1..C : Len(neighbours[n]) = Len(rows[n])
       /\ \A n \in 1..C : \A k \in 1..Len(rows[n]) : neighbours[n][k] = position[rows[n][k]]
  <2>1. ASSUME NEW n \in 1..C
        PROVE  /\ neighbours[n] \in Seq(Int)
               /\ Len(neighbours[n]) = Len(rows[n])
               /\ \A k \in 1..Len(rows[n]) : neighbours[n][k] = position[rows[n][k]]
    <3> DEFINE r == neighbours[n]
    <3>1. r = [k \in 1..Len(rows[n]) |-> position[rows[n][k]]] /\ Len(rows[n]) \in Nat
      BY <1>5
    <3>2. \A k \in 1..Len(rows[n]) : position[rows[n][k]] \in Int
      BY <1>10
    <3> HIDE DEF r
    <3>3. r \in [1..Len(rows[n]) -> Int]
      BY <3>1, <3>2
    <3>4. \A k \in 1..Len(rows[n]) : r[k] = position[rows[n][k]]
      BY <3>1
    <3>5. r \in Seq(Int) /\ Len(r) = Len(rows[n])
      BY <3>1, <3>3
    <3> QED
      BY <3>4, <3>5 DEF r
  <2> QED
    BY <2>1
<1>12. /\ weights \in [1..C -> Seq(W)]
       /\ \A n \in 1..C : Len(weights[n]) = Len(rows[n])
       /\ \A n \in 1..C : \A k \in 1..Len(rows[n]) :
             weights[n][k] = g.edges[key[n]][rows[n][k]]
  <2>1. ASSUME NEW n \in 1..C
        PROVE  /\ weights[n] \in Seq(W)
               /\ Len(weights[n]) = Len(rows[n])
               /\ \A k \in 1..Len(rows[n]) : weights[n][k] = g.edges[key[n]][rows[n][k]]
    <3> DEFINE r == weights[n]
    <3>1. r = [k \in 1..Len(rows[n]) |-> g.edges[key[n]][rows[n][k]]] /\ Len(rows[n]) \in Nat
      BY <1>5
    <3>2. \A k \in 1..Len(rows[n]) : g.edges[key[n]][rows[n][k]] \in W
      BY <1>10
    <3> HIDE DEF r
    <3>3. r \in [1..Len(rows[n]) -> W]
      BY <3>1, <3>2
    <3>4. \A k \in 1..Len(rows[n]) : r[k] = g.edges[key[n]][rows[n][k]]
      BY <3>1
    <3>5. r \in Seq(W) /\ Len(r) = Len(rows[n])
      BY <3>1, <3>3
    <3> QED
      BY <3>4, <3>5 DEF r
  <2> QED
    BY <2>1
<1>13. \A n \in 1..C : len[n] = Len(neighbours[n]) /\ len[n] = Len(weights[n])
  BY <1>11, <1>12
<1> HIDE DEF neighbours, weights, len
<1>14. /\ Len(FlattenSeq(neighbours)) = end[C]
       /\ \A n \in 1..C : \A k \in 1..Len(neighbours[n]) :
             FlattenSeq(neighbours)[end[n - 1] + k] = neighbours[n][k]
  <2>1. Rows(neighbours, C, Int, len)
    BY <1>2, <1>6, <1>11, <1>13 DEF Rows
  <2>2. /\ Len(FlattenSeq(neighbours)) = end[C]
        /\ \A n \in 1..C : RowInPlace(FlattenSeq(neighbours), neighbours, end, n)
    BY <1>7, <2>1, FlattenSound
  <2> QED
    BY <2>2 DEF RowInPlace
<1>15. /\ Len(FlattenSeq(weights)) = end[C]
       /\ \A n \in 1..C : \A k \in 1..Len(weights[n]) :
             FlattenSeq(weights)[end[n - 1] + k] = weights[n][k]
  <2>1. Rows(weights, C, W, len)
    BY <1>2, <1>6, <1>12, <1>13 DEF Rows
  <2>2. /\ Len(FlattenSeq(weights)) = end[C]
        /\ \A n \in 1..C : RowInPlace(FlattenSeq(weights), weights, end, n)
    BY <1>7, <2>1, FlattenSound
  <2> QED
    BY <2>2 DEF RowInPlace
<1>16. ASSUME NEW m \in 1..C, NEW k \in 1..Len(rows[m])
       PROVE  /\ key[FlattenSeq(neighbours)[end[m - 1] + k] + 1] = rows[m][k]
              /\ FlattenSeq(weights)[end[m - 1] + k] = g.edges[key[m]][rows[m][k]]
  <2>1. /\ k \in 1..Len(neighbours[m]) /\ k \in 1..Len(weights[m])
        /\ neighbours[m][k] = position[rows[m][k]]
        /\ weights[m][k] = g.edges[key[m]][rows[m][k]]
    BY <1>11, <1>12
  <2>2. /\ FlattenSeq(neighbours)[end[m - 1] + k] = position[rows[m][k]]
        /\ FlattenSeq(weights)[end[m - 1] + k] = g.edges[key[m]][rows[m][k]]
    BY <1>14, <1>15, <2>1
  <2> QED
    BY <1>10, <2>2
<1>17. Ends(end, [m \in 1..C |-> Len(rows[m])], C)
  BY <1>7 DEF len
<1> DEFINE cut == CutData(g)
<1>18. /\ cut.vertice_weight = [n \in 1..C |-> g.vertex[key[n]]]
       /\ cut.x_edges = [n \in 1..C + 1 |-> end[n - 1]]
       /\ cut.edges = FlattenSeq(neighbours)
       /\ cut.edges_weight = FlattenSeq(weights)
  BY <1>9
<1> HIDE DEF cut
<1>19. CutOf(cut, g, V, rows, end)
  <2>1. \A m \in 1..C : Enumerates(rows[m], DOMAIN g.edges[key[m]])
    BY <1>3
  <2>2. Len(cut.edges) = end[C] /\ Len(cut.edges_weight) = end[C]
    BY <1>14, <1>15, <1>18
  <2>3. \A m \in 1..C : \A k \in 1..Len(rows[m]) :
           /\ key[cut.edges[end[m - 1] + k] + 1] = rows[m][k]
           /\ cut.edges_weight[end[m - 1] + k] = g.edges[key[m]][rows[m][k]]
    BY <1>16, <1>18
  <2> USE DEF C, key
  <2>4. rows \in [1..C -> Seq(V)]
    BY <1>4
  <2>5. Ends(end, [m \in 1..C |-> Len(rows[m])], C)
    BY <1>17
  <2>6. /\ cut.vertice_weight = [m \in 1..C |-> g.vertex[key[m]]]
        /\ cut.x_edges = [m \in 1..C + 1 |-> end[m - 1]]
    BY <1>18
  <2> QED
    BY <2>1, <2>2, <2>3, <2>4, <2>5, <2>6 DEF CutOf
<1> QED
  BY <1>19 DEF cut

(* The edges as the copy lists them, from each end.                          *)
Listed(cut, V) ==
    LET key == InOrder(V)
    IN UNION {{<<key[n], key[cut.edges[e] + 1], cut.edges_weight[e]>> :
                  e \in cut.x_edges[n] + 1 .. cut.x_edges[n + 1]} : n \in 1..Cardinality(V)}

LEMMA CutOfSound ==
    ASSUME NEW cut, NEW g, NEW V, NEW rows, NEW end,
           GraphOn(g, V), CutOf(cut, g, V, rows, end)
    PROVE  /\ Len(cut.x_edges) = Cardinality(V) + 1
           /\ cut.x_edges[1] = 0
           /\ \A n \in 1..Cardinality(V) : cut.x_edges[n] <= cut.x_edges[n + 1]
           /\ cut.x_edges[Cardinality(V) + 1] = Len(cut.edges)
           /\ Len(cut.edges) = Len(cut.edges_weight)
           /\ Cardinality(Listed(cut, V)) = Len(cut.edges)
           /\ \A t : t \in Listed(cut, V) <=>
                 \E a \in V : \E b \in DOMAIN g.edges[a] : t = <<a, b, g.edges[a][b]>>
<1> DEFINE C == Cardinality(V)
           key == InOrder(V)
           len == [n \in 1..C |-> Len(rows[n])]
           x == cut.x_edges
           row(n) == x[n] + 1 .. x[n + 1]
           entry(n, e) == <<key[n], key[cut.edges[e] + 1], cut.edges_weight[e]>>
           listed == Listed(cut, V)
           total == end[C]
<1>1. IsFiniteSet(V) /\ \A v \in V : v \in Int /\ DOMAIN g.edges[v] \subseteq V
  BY DEF GraphOn
<1>2. /\ C \in Nat /\ key \in [1..C -> V]
      /\ \A a, b \in 1..C : key[a] = key[b] => a = b
      /\ \A v \in V : \E a \in 1..C : key[a] = v
  BY <1>1, InOrderSound
<1>3. /\ rows \in [1..C -> Seq(V)]
      /\ \A m \in 1..C : Enumerates(rows[m], DOMAIN g.edges[key[m]])
      /\ Ends(end, len, C)
      /\ x = [m \in 1..C + 1 |-> end[m - 1]]
      /\ Len(cut.edges) = total
      /\ Len(cut.edges_weight) = total
  BY DEF CutOf
<1>4. ASSUME NEW m \in 1..C, NEW k \in 1..Len(rows[m])
      PROVE  /\ key[cut.edges[end[m - 1] + k] + 1] = rows[m][k]
             /\ cut.edges_weight[end[m - 1] + k] = g.edges[key[m]][rows[m][k]]
  BY DEF CutOf
<1> HIDE DEF C, key, len, x, total
<1>5. /\ len \in [1..C -> Nat]
      /\ \A n \in 1..C : len[n] = Len(rows[n]) /\ Len(rows[n]) \in Nat
  BY <1>3 DEF len
<1>6. /\ end \in [0..C -> Nat]
      /\ end[0] = 0
      /\ \A n \in 1..C : end[n] = end[n - 1] + len[n]
      /\ \A m, n \in 0..C : m <= n => end[m] <= end[n]
      /\ \A e \in 1..end[C] : \E n \in 1..C : e \in end[n - 1] + 1 .. end[n]
  <2>1. C \in Nat /\ len \in [1..C -> Nat] /\ Ends(end, len, C)
    BY <1>2, <1>3, <1>5
  <2> QED
    BY <2>1, EndsSound
<1>7. Len(x) = C + 1 /\ x[1] = 0 /\ x[C + 1] = total
  <2>1. x \in [1..C + 1 -> Nat]
    BY <1>2, <1>3, <1>6
  <2>2. Len(x) = C + 1
    BY <1>2, <2>1
  <2> QED
    BY <1>2, <1>3, <1>6, <2>2 DEF total
<1>8. ASSUME NEW n \in 1..C
      PROVE  /\ x[n] = end[n - 1] /\ x[n + 1] = end[n]
             /\ end[n - 1] \in Nat /\ end[n] \in Nat /\ end[n - 1] <= end[n]
             /\ end[n] <= total /\ total \in Nat
  <2>1. n \in 1..C + 1 /\ n + 1 \in 1..C + 1 /\ (n + 1) - 1 = n
    BY <1>2
  <2>2. n - 1 \in 0..C /\ n \in 0..C /\ C \in 0..C /\ n - 1 <= n /\ n <= C
    BY <1>2
  <2>3. x[n] = end[n - 1] /\ x[n + 1] = end[n]
    BY <1>3, <2>1
  <2> QED
    BY <1>6, <2>2, <2>3 DEF total
(* What is at place e, of row n.                                             *)
<1>9. ASSUME NEW n \in 1..C, NEW e \in row(n)
      PROVE  \E k \in 1..Len(rows[n]) :
                /\ e = end[n - 1] + k /\ e \in 1..total
                /\ rows[n][k] \in DOMAIN g.edges[key[n]]
                /\ entry(n, e) = <<key[n], rows[n][k], g.edges[key[n]][rows[n][k]]>>
  <2>1. /\ e \in end[n - 1] + 1 .. end[n] /\ end[n - 1] \in Nat /\ end[n] \in Nat
        /\ end[n] <= total /\ total \in Nat
    BY <1>8, <1>9
  <2>2. end[n] = end[n - 1] + Len(rows[n]) /\ Len(rows[n]) \in Nat
    BY <1>5, <1>6
  <2> DEFINE k == e - end[n - 1]
  <2>3. k \in 1..Len(rows[n]) /\ e = end[n - 1] + k /\ e \in 1..total
    BY <2>1, <2>2
  <2> HIDE DEF k
  <2>4. /\ key[cut.edges[e] + 1] = rows[n][k]
        /\ cut.edges_weight[e] = g.edges[key[n]][rows[n][k]]
    BY <1>4, <2>3
  <2>5. rows[n][k] \in DOMAIN g.edges[key[n]]
    BY <1>3, <2>3 DEF Enumerates
  <2> QED
    BY <2>3, <2>4, <2>5
<1>10. ASSUME NEW n \in 1..C, NEW b \in DOMAIN g.edges[key[n]]
       PROVE  \E e \in row(n) : entry(n, e) = <<key[n], b, g.edges[key[n]][b]>>
  <2>1. PICK k \in 1..Len(rows[n]) : rows[n][k] = b
    BY <1>3 DEF Enumerates
  <2> DEFINE e == end[n - 1] + k
  <2>2. /\ end[n] = end[n - 1] + Len(rows[n]) /\ Len(rows[n]) \in Nat
        /\ end[n - 1] \in Nat
    BY <1>5, <1>6, <1>8
  <2>3. e \in end[n - 1] + 1 .. end[n]
    BY <2>2
  <2>4. e \in row(n)
    BY <1>8, <2>3
  <2>5. /\ key[cut.edges[e] + 1] = rows[n][k]
        /\ cut.edges_weight[e] = g.edges[key[n]][rows[n][k]]
    BY <1>4
  <2> QED
    BY <2>1, <2>4, <2>5
<1>11. \A t : t \in listed <=> \E n \in 1..C : \E e \in row(n) : t = entry(n, e)
  BY DEF Listed, C, key, x
<1> HIDE DEF row, entry, listed
<1>12. ASSUME NEW t
       PROVE  t \in listed <=>
                 \E a \in V : \E b \in DOMAIN g.edges[a] : t = <<a, b, g.edges[a][b]>>
  <2>1. ASSUME t \in listed
        PROVE  \E a \in V : \E b \in DOMAIN g.edges[a] : t = <<a, b, g.edges[a][b]>>
    <3>1. PICK n \in 1..C : \E e \in row(n) : t = entry(n, e)
      BY <1>11, <2>1
    <3>2. PICK e \in row(n) : t = entry(n, e)
      BY <3>1
    <3>3. PICK k \in 1..Len(rows[n]) :
             /\ rows[n][k] \in DOMAIN g.edges[key[n]]
             /\ entry(n, e) = <<key[n], rows[n][k], g.edges[key[n]][rows[n][k]]>>
      BY <1>9
    <3>4. key[n] \in V
      BY <1>2
    <3> QED
      BY <3>2, <3>3, <3>4
  <2>2. ASSUME NEW a \in V, NEW b \in DOMAIN g.edges[a], t = <<a, b, g.edges[a][b]>>
        PROVE  t \in listed
    <3>1. PICK n \in 1..C : key[n] = a
      BY <1>2
    <3>2. PICK e \in row(n) : entry(n, e) = <<key[n], b, g.edges[key[n]][b]>>
      BY <1>10, <3>1
    <3> QED
      BY <1>11, <2>2, <3>1, <3>2
  <2> QED
    BY <2>1, <2>2
(* A place lists one edge, and no two list the same.                         *)
<1> DEFINE rowOf(e) == CHOOSE n \in 1..C : e \in row(n)
           at == [e \in 1..total |-> entry(rowOf(e), e)]
<1>13. ASSUME NEW e \in 1..total PROVE rowOf(e) \in 1..C /\ e \in row(rowOf(e))
  <2>1. PICK n \in 1..C : e \in end[n - 1] + 1 .. end[n]
    BY <1>6 DEF total
  <2>2. e \in row(n)
    BY <1>8, <2>1 DEF row
  <2> QED
    BY <2>2
<1> HIDE DEF rowOf
<1>14. ASSUME NEW d \in 1..total, NEW e \in 1..total, at[d] = at[e] PROVE d = e
  <2> DEFINE m == rowOf(d)
             n == rowOf(e)
  <2>1. m \in 1..C /\ n \in 1..C /\ d \in row(m) /\ e \in row(n)
    BY <1>13
  <2>2. entry(m, d) = entry(n, e)
    BY <1>14
  <2> HIDE DEF m, n
  <2>3. PICK k \in 1..Len(rows[m]) :
           /\ d = end[m - 1] + k
           /\ entry(m, d) = <<key[m], rows[m][k], g.edges[key[m]][rows[m][k]]>>
    BY <1>9, <2>1
  <2>4. PICK l \in 1..Len(rows[n]) :
           /\ e = end[n - 1] + l
           /\ entry(n, e) = <<key[n], rows[n][l], g.edges[key[n]][rows[n][l]]>>
    BY <1>9, <2>1
  <2>5. key[m] = key[n] /\ rows[m][k] = rows[n][l]
    BY <2>2, <2>3, <2>4
  <2>6. m = n
    BY <1>2, <2>1, <2>5
  <2>7. k = l
    BY <1>3, <2>1, <2>5, <2>6 DEF Enumerates
  <2> QED
    BY <2>3, <2>4, <2>6, <2>7
<1>15. total \in Nat
  BY <1>2, <1>6 DEF total
<1>16. at \in [1..total -> listed]
  <2>1. \A e \in 1..total : entry(rowOf(e), e) \in listed
    BY <1>11, <1>13
  <2> QED
    BY <2>1
<1>17. ASSUME NEW t \in listed PROVE \E e \in 1..total : at[e] = t
  <2>1. PICK n \in 1..C : \E e \in row(n) : t = entry(n, e)
    BY <1>11
  <2>2. PICK e \in row(n) : t = entry(n, e)
    BY <2>1
  <2>3. e \in 1..total
    BY <1>9
  <2>4. rowOf(e) = n
    <3>1. e \in end[n - 1] + 1 .. end[n]
      BY <1>8, <2>2 DEF row
    <3>2. rowOf(e) \in 1..C /\ e \in end[rowOf(e) - 1] + 1 .. end[rowOf(e)]
      BY <1>8, <1>13, <2>3 DEF row
    <3>3. C \in Nat /\ len \in [1..C -> Nat] /\ Ends(end, len, C)
      BY <1>2, <1>3, <1>5
    <3> QED
      BY <3>1, <3>2, <3>3, RowsDisjoint
  <2> QED
    BY <2>2, <2>3, <2>4
<1>18. Cardinality(listed) = total
  <2>1. at \in Bijection(1..total, listed)
    <3> HIDE DEF at
    <3> QED
      BY <1>14, <1>16, <1>17 DEF Bijection, Injection, Surjection, IsInjective
  <2>2. IsFiniteSet(1..total) /\ Cardinality(1..total) = total
    BY <1>15, FS_Interval
  <2>3. ExistsBijection(1..total, listed)
    BY <2>1 DEF ExistsBijection
  <2> QED
    BY <2>2, <2>3, FS_Bijection
<1>19. \A n \in 1..C : x[n] <= x[n + 1]
  BY <1>8
<1> QED
  BY <1>3, <1>7, <1>12, <1>18, <1>19 DEF C, x, listed

(* For every window and every length of the history, the arrays that METIS   *)
(* and KaHIP read are those of the window's graph.                           *)
THEOREM CutDataSoundHolds == Spec => []CutDataSound
<1>1. ASSUME IInv, phase = "wait"
      PROVE  LET cut == CutData(graph)
                 key == InOrder(WindowKeys)
                 row(n) == cut.x_edges[n] + 1 .. cut.x_edges[n + 1]
                 listed == UNION {{<<key[n], key[cut.edges[e] + 1], cut.edges_weight[e]>> :
                                       e \in row(n)} : n \in DOMAIN key}
                 together == {<<a, b, CountedTogether(a, b)>> : a, b \in WindowKeys}
             IN /\ cut.vertice_weight = [n \in DOMAIN key |-> Counted(key[n])]
                /\ Len(cut.x_edges) = Len(key) + 1
                /\ cut.x_edges[1] = 0
                /\ \A n \in DOMAIN key : cut.x_edges[n] <= cut.x_edges[n + 1]
                /\ cut.x_edges[Len(key) + 1] = Len(cut.edges)
                /\ Len(cut.edges) = Len(cut.edges_weight)
                /\ Cardinality(listed) = Len(cut.edges)
                /\ listed = {t \in together : t[1] # t[2] /\ t[3] > 0}
  <2> DEFINE V == WindowKeys
             C == Cardinality(V)
             key == InOrder(V)
             cut == CutData(graph)
             together == {<<a, b, CountedTogether(a, b)>> : a, b \in V}
             linked(a) == {k \in V \ {a} : CountedTogether(a, k) > 0}
  <2>1. /\ graph.vertex = [k \in V |-> Counted(k)]
        /\ graph.edges = [a \in V |-> [b \in linked(a) |-> CountedTogether(a, b)]]
    BY <1>1, VerticesOfWindow, EdgesOfWindow DEF VerticesCountWindow, EdgesCountWindow
  <2>2. IsFiniteSet(V) /\ \A v \in V : v \in Int
    BY <1>1, BetweenMessages, PresentFinite, KeysInt DEF IInv, Present
  <2> HIDE DEF V
  <2>3. /\ DOMAIN graph.vertex = V
        /\ \A v \in V : /\ DOMAIN graph.edges[v] = linked(v)
                        /\ \A b \in linked(v) : graph.edges[v][b] = CountedTogether(v, b)
    BY <2>1
  <2>4. GraphOn(graph, V)
    BY <2>2, <2>3 DEF GraphOn
  <2>5. PICK rows, end : CutOf(cut, graph, V, rows, end)
    BY <2>4, CutDataIsCut
  <2> HIDE DEF cut
  <2>6. /\ Len(cut.x_edges) = C + 1
        /\ cut.x_edges[1] = 0
        /\ \A n \in 1..C : cut.x_edges[n] <= cut.x_edges[n + 1]
        /\ cut.x_edges[C + 1] = Len(cut.edges)
        /\ Len(cut.edges) = Len(cut.edges_weight)
        /\ Cardinality(Listed(cut, V)) = Len(cut.edges)
        /\ \A t : t \in Listed(cut, V) <=>
              \E a \in V : \E b \in DOMAIN graph.edges[a] : t = <<a, b, graph.edges[a][b]>>
    BY <2>4, <2>5, CutOfSound
  <2>7. C \in Nat /\ key \in [1..C -> V] /\ cut.vertice_weight = [n \in 1..C |-> graph.vertex[key[n]]]
    BY <2>2, <2>5, InOrderSound DEF CutOf
  <2>8. DOMAIN key = 1..C /\ Len(key) = C
    <3> HIDE DEF C, key
    <3> QED
      BY <2>7
  <2>9. cut.vertice_weight = [n \in DOMAIN key |-> Counted(key[n])]
    <3> HIDE DEF C, key
    <3>1. \A n \in 1..C : graph.vertex[key[n]] = Counted(key[n])
      BY <2>1, <2>7
    <3> QED
      BY <2>7, <2>8, <3>1
  <2>10. Listed(cut, V) = {t \in together : t[1] # t[2] /\ t[3] > 0}
    <3>1. ASSUME NEW t \in Listed(cut, V)
          PROVE  t \in {u \in together : u[1] # u[2] /\ u[3] > 0}
      <4>1. PICK a \in V : \E b \in linked(a) : t = <<a, b, CountedTogether(a, b)>>
        BY <2>3, <2>6
      <4>2. PICK b \in linked(a) : t = <<a, b, CountedTogether(a, b)>>
        BY <4>1
      <4> QED
        BY <4>2
    <3>2. ASSUME NEW a \in V, NEW b \in V, a # b, CountedTogether(a, b) > 0
          PROVE  <<a, b, CountedTogether(a, b)>> \in Listed(cut, V)
      <4>1. b \in linked(a)
        BY <3>2
      <4> QED
        BY <2>3, <2>6, <4>1
    <3>3. ASSUME NEW t \in together, t[1] # t[2], t[3] > 0
          PROVE  t \in Listed(cut, V)
      <4>1. PICK a \in V, b \in V : t = <<a, b, CountedTogether(a, b)>>
        BY <3>3
      <4> QED
        BY <3>2, <3>3, <4>1
    <3> QED
      BY <3>1, <3>3
  <2>11. Listed(cut, V) =
             UNION {{<<key[n], key[cut.edges[e] + 1], cut.edges_weight[e]>> :
                        e \in cut.x_edges[n] + 1 .. cut.x_edges[n + 1]} : n \in DOMAIN key}
    BY <2>8 DEF Listed
  <2> DEFINE listed == UNION {{<<key[n], key[cut.edges[e] + 1], cut.edges_weight[e]>> :
                                  e \in cut.x_edges[n] + 1 .. cut.x_edges[n + 1]} :
                              n \in DOMAIN key}
  <2>12. Cardinality(listed) = Len(cut.edges)
    BY <2>6, <2>11
  <2>13. listed = {t \in together : t[1] # t[2] /\ t[3] > 0}
    BY <2>10, <2>11
  <2>14. /\ Len(cut.x_edges) = Len(key) + 1
         /\ cut.x_edges[1] = 0
         /\ \A n \in DOMAIN key : cut.x_edges[n] <= cut.x_edges[n + 1]
         /\ cut.x_edges[Len(key) + 1] = Len(cut.edges)
         /\ Len(cut.edges) = Len(cut.edges_weight)
    <3> HIDE DEF key, C
    <3> QED
      BY <2>6, <2>8
  <2> USE DEF V, cut
  <2> QED
    BY <2>9, <2>12, <2>13, <2>14
<1>2. IInv => CutDataSound
  BY <1>1 DEF CutDataSound
<1> QED
  BY GraphInductive, <1>2, PTL

=============================================================================
