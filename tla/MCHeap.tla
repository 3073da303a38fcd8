------------------------------- MODULE MCHeap -------------------------------
(* Heap with small numbers: a request for 6 units never fits into one       *)
(* expansion.                                                               *)
EXTENDS Heap

MCRequests == {1, 2, 6}
=============================================================================
