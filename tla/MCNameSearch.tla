------------------------------ MODULE MCNameSearch ----------------------------
(* Instances of NameSearch: three bins, and below them the words of two more,  *)
(* of which bin -1 is the word that record 0 has for its key's length.         *)
EXTENDS NameSearch, TLC

CONSTANTS s1, low, zero, odd, last, other

MCBin  == low :> -1 @@ zero :> 0 @@ odd :> 1 @@ other :> 1 @@ last :> 2
MCSize == low :> 1 @@ zero :> 1 @@ odd :> 2 @@ other :> 1 @@ last :> 1
===============================================================================
