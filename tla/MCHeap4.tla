------------------------------ MODULE MCHeap4 ------------------------------
(* Heap4 on a heap of a few blocks. *)
EXTENDS Heap4

MCCallocArgs == {<<1, 3>>, <<16, 16>>}
=============================================================================
