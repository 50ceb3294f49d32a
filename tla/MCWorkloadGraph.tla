--------------------------- MODULE MCWorkloadGraph ---------------------------
(* Small instances of GraphCut.                                              *)
EXTENDS GraphCut, WorkloadGraphInduction

Write(k) == [type |-> "WRITE", key |-> k, size |-> 1]
Scan(k, n) == [type |-> "SCAN", key |-> k, size |-> n]
End == [type |-> "END", key |-> 1, size |-> 1]

(* Overlapping scans, one of them of a single key, and an END whose key is   *)
(* also requested.                                                           *)
MCRequests == {Write(0), Write(1), Scan(0, 2), Scan(0, 3), Scan(1, 2),
               Scan(2, 1), End}

=============================================================================
