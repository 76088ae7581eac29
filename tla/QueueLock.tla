-------------------------------- MODULE QueueLock -----------------------------
(* The lock service, which exists as mobile code only: lock() appends a node   *)
(* to the queue of its lock and polls that node, release() hands the lock to   *)
(* the next node.  Each is one request, and the server's only thread serves    *)
(* nobody else until it is over, polls included.                               *)
(*                                                                             *)
(* Memory holds, in words, the allocation counter, the lock table (two words a *)
(* lock, the second one the queue's tail) and nodes <locked, next>.            *)
EXTENDS Memory, FiniteSets

CONSTANTS Client,        \* the threads
          Locks,         \* locks are numbered 0 .. Locks - 1
          MaxCalls       \* bound on the calls of one thread

ASSUME QueueLockAssumption ==
  Locks \in Nat \ {0} /\ MaxCalls \in Nat /\ "nobody" \notin Client

VARIABLES mem,           \* the server's memory
          running,       \* the client whose mobile code the server runs, or Nobody
          pc,            \* pc[c]: where c is, in its own code or at the server
          lock,          \* lock[c]: the lock c asks for, or has
          node,          \* node[c]: node of lock and release
          pred,          \* pred[c]: predecessor of lock, next of release
          calls          \* calls[c]: calls c has made

vars == <<mem, running, pc, lock, node, pred, calls>>

Nobody == "nobody"
NULL   == -1
Table  == 1                       \* the first block that Alloc gives out
Word(c) == Table + 2 * lock[c]    \* the address passed as args[1]
TailWord(c) == Word(c) + 1

(* Alloc.init has run, and create(Locks).  Its loop stores a whole word at     *)
(* each byte of the table, and so three bytes over into the word behind it.    *)
Spilt == 16777215                 \* 16^^00FFFFFF
Init == /\ mem = [a \in Cells |-> IF a = 0 THEN Table + 2 * Locks
                                 ELSE IF a < Table + 2 * Locks THEN NULL
                                 ELSE IF a = Table + 2 * Locks THEN Spilt ELSE 0]
        /\ running = Nobody
        /\ pc = [c \in Client |-> "free"]
        /\ lock = [c \in Client |-> 0]
        /\ node = [c \in Client |-> 0]
        /\ pred = [c \in Client |-> NULL]
        /\ calls = [c \in Client |-> 0]

Goto(c, label) == pc' = [pc EXCEPT ![c] = label]

(* lock() or release() is called: a request to the server.                     *)
AskLock(c) == /\ pc[c] = "free" /\ calls[c] < MaxCalls
              /\ \E l \in 0 .. Locks - 1 : lock' = [lock EXCEPT ![c] = l]
              /\ calls' = [calls EXCEPT ![c] = @ + 1]
              /\ Goto(c, "lockSent")
              /\ UNCHANGED <<mem, running, node, pred>>

AskRelease(c) == /\ pc[c] = "held"
                 /\ Goto(c, "releaseSent")
                 /\ UNCHANGED <<mem, running, lock, node, pred, calls>>

(* The server's thread takes a request; lock() begins with alloc(8).           *)
StartLock(c) ==
  /\ running = Nobody /\ pc[c] = "lockSent"
  /\ running' = c
  /\ node' = [node EXCEPT ![c] = mem[0]]
  /\ mem' = [mem EXCEPT ![0] = @ + 2]
  /\ Goto(c, "endNode")
  /\ UNCHANGED <<lock, pred, calls>>

StartRelease(c) ==
  /\ running = Nobody /\ pc[c] = "releaseSent"
  /\ running' = c
  /\ Goto(c, "readNext")
  /\ UNCHANGED <<mem, lock, node, pred, calls>>

(* The memory operation at each label of the mobile code.                      *)
OpOf(c) == CASE pc[c] = "endNode"  -> Write(node[c] + 1, <<NULL>>)
             [] pc[c] = "readTail" -> Read(TailWord(c), 1)
             [] pc[c] = "swapTail" -> Cas(TailWord(c), pred[c], node[c])
             [] pc[c] = "granted"  -> Write(node[c], <<0>>)
             [] pc[c] = "linkPred" -> Cas(pred[c] + 1, NULL, node[c])
             [] pc[c] = "wait"     -> Write(node[c], <<4>>)
             [] pc[c] = "poll"     -> Read(node[c], 1)
             [] pc[c] = "readNext" -> Read(node[c] + 1, 1)
             [] pc[c] = "freeTail" -> Cas(Word(c), node[c], NULL)
             [] pc[c] = "pollNext" -> Read(node[c] + 1, 1)
             [] pc[c] = "wakeNext" -> Write(pred[c], <<0>>)

\* A slip: the server's thread is not freed.
EndsStuck(c, label) == UNCHANGED running /\ Goto(c, label)

(* The mobile code returns to its client, who is then at label.                *)
Ends(c, label) == running' = Nobody /\ Goto(c, label)
Goes(c, label) == UNCHANGED running /\ Goto(c, label)

\* A slip: a new node is granted the lock whoever stands before it.
AfterEnqueueBlind(c, res) ==
  \/ pc[c] = "endNode" /\ Goes(c, "readTail") /\ UNCHANGED pred
  \/ /\ pc[c] = "readTail"
     /\ pred' = [pred EXCEPT ![c] = res.result[1]]
     /\ Goes(c, "swapTail")
  \/ pc[c] = "swapTail" /\ Goes(c, "granted") /\ UNCHANGED pred

AfterEnqueue(c, res) ==
  \/ pc[c] = "endNode" /\ Goes(c, "readTail") /\ UNCHANGED pred
  \/ /\ pc[c] = "readTail"
     /\ pred' = [pred EXCEPT ![c] = res.result[1]]
     /\ Goes(c, "swapTail")
  \/ /\ pc[c] = "swapTail"
     /\ Goes(c, IF res.result[1] = 0 THEN "readTail"
                ELSE IF pred[c] = NULL THEN "granted" ELSE "linkPred")
     /\ UNCHANGED pred

AfterWait(c, res) ==
  /\ \/ pc[c] = "linkPred" /\ Goes(c, "wait")
     \/ pc[c] \in {"granted", "wait"} /\ Goes(c, "poll")
     \/ pc[c] = "poll" /\ IF res.result[1] # 0 THEN Goes(c, "poll") ELSE Ends(c, "held")
  /\ UNCHANGED pred

AfterRelease(c, res) ==
  \/ /\ pc[c] \in {"readNext", "pollNext"}
     /\ pred' = [pred EXCEPT ![c] = res.result[1]]
     /\ Goes(c, IF res.result[1] # NULL THEN "wakeNext"
                ELSE IF pc[c] = "readNext" THEN "freeTail" ELSE "pollNext")
  \/ /\ pc[c] = "freeTail"
     /\ IF res.result[1] # 0 THEN Ends(c, "free") ELSE Goes(c, "pollNext")
     /\ UNCHANGED pred
  \/ pc[c] = "wakeNext" /\ Ends(c, "free") /\ UNCHANGED pred

(* An access out of bounds is an exception that ends the request and the call. *)
Operate(c) ==
  /\ running = c
  /\ LET res == Outcome(OpOf(c), mem)
     IN /\ mem' = Effect(OpOf(c), mem)
        /\ \/ /\ res.error = "OK"
              /\ AfterEnqueue(c, res) \/ AfterWait(c, res) \/ AfterRelease(c, res)
           \/ res.error # "OK" /\ Ends(c, "free") /\ UNCHANGED pred
  /\ UNCHANGED <<lock, node, calls>>

Next == \E c \in Client : AskLock(c) \/ AskRelease(c) \/ StartLock(c) \/ StartRelease(c) \/ Operate(c)

Spec == Init /\ [][Next]_vars

(* The server's thread runs on, and a client that holds a lock releases it.    *)
LiveSpec == /\ Spec
            /\ \A c \in Client : /\ WF_vars(AskRelease(c))
                                 /\ WF_vars(StartLock(c) \/ StartRelease(c) \/ Operate(c))

-------------------------------------------------------------------------------
AtServer == {"endNode", "readTail", "swapTail", "granted", "linkPred", "wait", "poll",
             "readNext", "freeTail", "pollNext", "wakeNext"}

(* The variables hold what their declarations say, and the server runs the     *)
(* mobile code of one client at most.                                          *)
TypeOK == /\ mem \in [Cells -> Int]
          /\ pc \in [Client -> {"free", "held", "lockSent", "releaseSent"} \cup AtServer]
          /\ lock \in [Client -> 0 .. Locks - 1]
          /\ node \in [Client -> Nat] /\ pred \in [Client -> Nat \cup {NULL}]
          /\ \A c \in Client : pc[c] \in AtServer <=> running = c

(* "locking (mutual exclusion) service" (doc/final/final.tex:380): of the      *)
(* clients that ask for a lock at most one has it, from the return of its      *)
(* lock() until its release() lets go of it.                                   *)
Has(c) == pc[c] \in {"held", "releaseSent", "readNext", "freeTail", "pollNext", "wakeNext"}
OneHolder == \A c, d \in Client : c # d /\ Has(c) /\ Has(d) => lock[c] # lock[d]

(* A release returns, as tests/LockTest.java:27 expects of the only client     *)
(* there is: "lock_sys.release(lock_id, table+8*lock_offset);".                *)
ReleaseReturns == \A c \in Client : pc[c] = "releaseSent" ~> pc[c] = "free"
===============================================================================
