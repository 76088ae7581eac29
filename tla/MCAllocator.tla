------------------------------ MODULE MCAllocator -----------------------------
(* Instances of Allocator: two clients, which mark their blocks 1 and 2.       *)
EXTENDS Allocator

MCClient == {1, 2}
===============================================================================
