------------------------------ MODULE MCInodeStore ----------------------------
(* Instances of InodeStore: pages of three words, so that blocks 0 and 1 are   *)
(* direct, blocks 2 and 3 share a page of pointers and 4 has another.          *)
EXTENDS InodeStore, TLC

CONSTANTS c1, c2, c3, a

(* Two calls of mobile code among one call each of two remote stores, one of   *)
(* which races for the same block: blocks 3 and 4, and block 0.                *)
MCJobs ==
  (c1 :> {Put(11, <<211>>), Put(1, <<201>>), Get(11, 2), SetLen(12)}) @@
  (c2 :> {Put(11, <<311, 412, 413, 414>>), Get(11, 4), Create(a)}) @@
  (c3 :> {Put(11, <<111>>), Put(1, <<101, 102>>), Lookup(a)})

MCMaxJobs == [c \in Client |-> IF c = c2 THEN 2 ELSE 1]
===============================================================================
