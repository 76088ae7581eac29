----------------------------- MODULE AtomicMemory -----------------------------
(* What ActiveRDMA's interface promises of a memory shared by several clients. *)
(* An operation is performed in one piece, only if a client has called it, and *)
(* the answer to a call was computed while the call was open.  As long as no   *)
(* exchange has timed out each call takes effect exactly once, at one moment   *)
(* between its invocation and its return; from then on it may take effect more *)
(* often, and after its return.                                                *)
EXTENDS Memory

CONSTANTS Client, Ops

VARIABLES mem, phase, pending, answer,
          computed,      \* computed[c]: the Results of the open call of c
          due,           \* operations that may yet be performed
          exact          \* no exchange has timed out

vars == <<mem, phase, pending, answer, computed, due, exact>>

NoAnswer == Failed("ERROR")
TimedOut == Failed("TIME_OUT")

Init == /\ mem = [i \in Cells |-> 0]
        /\ phase = [c \in Client |-> "idle"]
        /\ pending = [c \in Client |-> <<>>]
        /\ answer = [c \in Client |-> NoAnswer]
        /\ computed = [c \in Client |-> {}]
        /\ due = {}
        /\ exact = TRUE

Invoke(c) == /\ phase[c] = "idle"
             /\ phase' = [phase EXCEPT ![c] = "called"]
             /\ \E op \in Ops : /\ pending' = [pending EXCEPT ![c] = op]
                                /\ due' = due \cup {op}
             /\ UNCHANGED <<mem, answer, computed, exact>>

(* An operation is performed, after which there may be more copies of it.      *)
Happens(op) == /\ op \in due
               /\ mem' = Effect(op, mem)
               /\ due' \in {due, due \ {op}}

Perform(c) == /\ phase[c] = "called" \/ (phase[c] = "done" /\ ~exact)
              /\ phase' = [phase EXCEPT ![c] = "done"]
              /\ Happens(pending[c])
              /\ computed' = [computed EXCEPT ![c] = @ \cup {Outcome(pending[c], mem)}]
              /\ UNCHANGED <<pending, answer, exact>>

(* A copy of a request is performed whose call is over.                        *)
Stray == /\ ~exact
         /\ \E op \in due : Happens(op)
         /\ UNCHANGED <<phase, pending, answer, computed, exact>>

Returns(c, res) == /\ phase' = [phase EXCEPT ![c] = "idle"]
                   /\ pending' = [pending EXCEPT ![c] = <<>>]
                   /\ answer' = [answer EXCEPT ![c] = res]
                   /\ computed' = [computed EXCEPT ![c] = {}]

Respond(c) == /\ phase[c] = "done"
              /\ \E res \in computed[c] : Returns(c, res)
              /\ UNCHANGED <<mem, due, exact>>

Repeat(c) == /\ phase[c] # "idle"
             /\ due' = due \cup {pending[c]} /\ exact' = FALSE
             /\ UNCHANGED <<mem, phase, pending, answer, computed>>

GiveUp(c) == /\ phase[c] # "idle"
             /\ due' = due \cup {pending[c]} /\ exact' = FALSE
             /\ Returns(c, TimedOut)
             /\ UNCHANGED mem

Lose == /\ \E op \in due : due' = due \ {op}
        /\ UNCHANGED <<mem, phase, pending, answer, computed, exact>>

Next == \/ \E c \in Client : Invoke(c) \/ Perform(c) \/ Respond(c) \/ Repeat(c) \/ GiveUp(c)
        \/ Stray \/ Lose

Spec == Init /\ [][Next]_vars
===============================================================================
