------------------------------ MODULE MCAnyClient -----------------------------
(* Instances of AnyClient: two clients, two cells, a read of both and a CAS    *)
(* that succeeds once.                                                         *)
EXTENDS AnyClient, TLC

CONSTANTS c1, c2

FewOps == {Read(0, 2), Cas(0, 0, 5)}
Calls  == c1 :> 2 @@ c2 :> 1
===============================================================================
