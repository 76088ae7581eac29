--------------------------------- MODULE MCList -------------------------------
(* Instances of List: a remote and an active list that share one memory.       *)
EXTENDS List, TLC

CONSTANTS c1, c2, remote, active

MCJobs == {New(remote), New(active), Add(remote, 5), Add(active, 6), Get(remote, 1), Get(active, 0)}
===============================================================================
