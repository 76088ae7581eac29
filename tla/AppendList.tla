------------------------------- MODULE AppendList -----------------------------
(* What the List interface promises its callers: sequences that only grow at   *)
(* their end, and calls that take effect one at a time, between their start    *)
(* and their end.  An add may fail with an exception instead, or a caller may  *)
(* die.                                                                        *)
EXTENDS Integers, Sequences

CONSTANTS Client, Lists, Jobs

VARIABLES items,         \* items[l]: the values of l, in order
          phase,         \* phase[c]: "idle", "called", "done" or "dead"
          job,           \* job[c]: the call c is in
          reply          \* reply[c]: for a get that is "done", what it will return

NoJob == [kind |-> "none"]
NULL  == -1                       \* the answer of a get behind the end

Init == /\ items = [l \in Lists |-> <<>>]
        /\ phase = [c \in Client |-> "idle"]
        /\ job = [c \in Client |-> NoJob]
        /\ reply = [c \in Client |-> 0]

Call(c) == /\ phase[c] = "idle"
           /\ phase' = [phase EXCEPT ![c] = "called"]
           /\ \E j \in Jobs : job' = [job EXCEPT ![c] = j]
           /\ UNCHANGED <<items, reply>>

Done(c, v) == /\ phase[c] = "called"
              /\ phase' = [phase EXCEPT ![c] = "done"]
              /\ reply' = [reply EXCEPT ![c] = v]
              /\ UNCHANGED job

Add(c) == /\ job[c].kind = "add"
          /\ Done(c, 0)
          /\ items' = [items EXCEPT ![job[c].list] = Append(@, job[c].val)]

Get(c) == /\ job[c].kind = "get"
          /\ LET s == items[job[c].list] IN
             Done(c, IF job[c].n < Len(s) THEN s[job[c].n + 1] ELSE NULL)
          /\ UNCHANGED items

(* The construction of a list, or an add that fails: a get has an answer.      *)
NoEffect(c) == job[c].kind # "get" /\ Done(c, 0) /\ UNCHANGED items

Return(c) == /\ phase[c] = "done"
             /\ phase' = [phase EXCEPT ![c] = "idle"]
             /\ job' = [job EXCEPT ![c] = NoJob]
             /\ reply' = [reply EXCEPT ![c] = 0]
             /\ UNCHANGED items

Die(c) == /\ phase' = [phase EXCEPT ![c] = "dead"]
          /\ job' = [job EXCEPT ![c] = NoJob]
          /\ reply' = [reply EXCEPT ![c] = 0]
          /\ UNCHANGED items

Next == \E c \in Client : Call(c) \/ Add(c) \/ Get(c) \/ NoEffect(c) \/ Return(c) \/ Die(c)

Spec == Init /\ [][Next]_<<items, phase, job, reply>>
===============================================================================
