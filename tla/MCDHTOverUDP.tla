----------------------------- MODULE MCDHTOverUDP -----------------------------
(* Instances of DHTOverUDP: two keys in one bin.                               *)
EXTENDS DHTOverUDP, TLC

CONSTANTS k1, k2, c1, c2, p1, p2

MCHash     == k1 :> 0 @@ k2 :> 0
MCKeyLen   == k1 :> 2 @@ k2 :> 2
MCKeyWords == k1 :> <<11>> @@ k2 :> <<12>>

Symmetry == Permutations({c1, c2}) \cup Permutations({p1, p2})

FaultJobs == {Put(k1, 7), Put(k2, 8), Get(k1)}
===============================================================================
