--------------------------------- MODULE MCDHT --------------------------------
(* Instances of DHT: a table of two bins and three keys.  k1 and k2 share a    *)
(* bin and a length; k3 is longer than a word, its hash is negative and its    *)
(* bin is a word that init() does not clear.                                   *)
EXTENDS DHT, TLC

CONSTANTS k1, k2, k3, c1, c2, c3

MCHash     == k1 :> 0 @@ k2 :> 0 @@ k3 :> -1
MCKeyLen   == k1 :> 2 @@ k2 :> 2 @@ k3 :> 5
MCKeyWords == k1 :> <<11>> @@ k2 :> <<12>> @@ k3 :> <<13, 14>>

(* Puts that collide in a bin and on a key, and searches for each.             *)
AllJobs == {Put(k1, 7), Put(k3, 9), Get(k1), Has(k2)}
===============================================================================
