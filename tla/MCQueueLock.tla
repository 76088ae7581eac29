------------------------------ MODULE MCQueueLock -----------------------------
(* Instances of QueueLock.                                                     *)
EXTENDS QueueLock, TLC

CONSTANTS c1, c2, c3
===============================================================================
