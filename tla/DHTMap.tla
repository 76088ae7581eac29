-------------------------------- MODULE DHTMap --------------------------------
(* What the DHT interface promises its callers: a map from keys to integers    *)
(* whose calls take effect one at a time, between their start and their end.   *)
(* A put may fail with an exception instead, and then has no effect.           *)
EXTENDS Integers

CONSTANTS Client, Key, Jobs

VARIABLES map,           \* map[k]: the value of k, or Absent
          phase,         \* phase[c]: "idle", "called" or "done"
          job,           \* job[c]: the call c is in
          reply          \* reply[c]: what the call will return, once "done"

Absent    == -1                   \* no value: values are natural numbers
NoJob     == [kind |-> "none"]
Exception == -2

Init == /\ map = [k \in Key |-> Absent]
        /\ phase = [c \in Client |-> "idle"]
        /\ job = [c \in Client |-> NoJob]
        /\ reply = [c \in Client |-> 0]

Call(c) == /\ phase[c] = "idle"
           /\ phase' = [phase EXCEPT ![c] = "called"]
           /\ \E j \in Jobs : job' = [job EXCEPT ![c] = j]
           /\ UNCHANGED <<map, reply>>

Answered(c, v) == /\ phase[c] = "called"
                  /\ phase' = [phase EXCEPT ![c] = "done"]
                  /\ reply' = [reply EXCEPT ![c] = v]
                  /\ UNCHANGED job

Put(c) == /\ job[c].kind = "put"
          /\ Answered(c, 0)
          /\ map' = [map EXCEPT ![job[c].key] = job[c].val]

Get(c) == /\ job[c].kind = "get"
          /\ Answered(c, IF map[job[c].key] = Absent THEN 0 ELSE map[job[c].key])
          /\ UNCHANGED map

Has(c) == /\ job[c].kind = "has"
          /\ Answered(c, IF map[job[c].key] = Absent THEN 0 ELSE 1)
          /\ UNCHANGED map

Fail(c) == /\ job[c].kind = "put"
           /\ Answered(c, Exception)
           /\ UNCHANGED map

Return(c) == /\ phase[c] = "done"
             /\ phase' = [phase EXCEPT ![c] = "idle"]
             /\ job' = [job EXCEPT ![c] = NoJob]
             /\ reply' = [reply EXCEPT ![c] = 0]
             /\ UNCHANGED map

Next == \E c \in Client : Call(c) \/ Put(c) \/ Get(c) \/ Has(c) \/ Fail(c) \/ Return(c)

Spec == Init /\ [][Next]_<<map, phase, job, reply>>
===============================================================================
