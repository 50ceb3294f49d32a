----------------------------- MODULE MCDispatch -----------------------------
(* Small instances of Dispatch for TLC.                                      *)
EXTENDS DispatchInduction

Write(k) == [type |-> "WRITE", key |-> k, args |-> 0]
Read(k) == [type |-> "READ", key |-> k, args |-> 0]
Scan(k, n) == [type |-> "SCAN", key |-> k, args |-> n]

ThreeKeys == 0 .. 2

(* Single-key requests on a mapped and on an unmapped key, and scans over    *)
(* two keys of which none, one or both are mapped.                           *)
MixedRequests == {Write(0), Read(2), Scan(0, 2), Scan(1, 2)}

(* Scans that span overlapping sets of partitions, and a write to a key      *)
(* they share.                                                               *)
OverlappingRequests == {Write(1), Scan(0, 2), Scan(1, 2)}
=============================================================================
