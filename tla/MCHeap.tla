------------------------------- MODULE MCHeap -------------------------------
(* The heap for TLC. *)
EXTENDS Heap
=============================================================================
