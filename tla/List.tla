---------------------------------- MODULE List --------------------------------
(* The linked list: makeRoot, List_AddNode and List_GetNode, the same code run *)
(* by the caller (List_RDMA) or at the server (List_Active), on a memory that  *)
(* serves each operation once.  Threads share a list object, which is made     *)
(* once; all lists share the allocator.  Memory holds, in words, the           *)
(* allocation counter and nodes <content, link>, a list's root among them.     *)
(*                                                                             *)
(* Each thread is at a label.  OpOf(c) is the memory operation it issues there *)
(* and the After actions are what it does with the Result.  A thread may die   *)
(* anywhere in its own code.                                                   *)
EXTENDS Memory, FiniteSets

CONSTANTS Client,        \* the threads
          Lists,         \* the list objects
          ActiveLists,   \* those that are a List_Active
          Jobs,          \* the calls the threads make
          MaxJobs,       \* bound on the calls of one thread
          MaxDeaths      \* bound on the threads that die

ASSUME ListAssumption ==
  /\ ActiveLists \subseteq Lists
  /\ \A j \in Jobs : /\ j.kind \in {"new", "add", "get"} /\ j.list \in Lists
                     /\ j.kind = "add" => j.val \in Int
                     /\ j.kind = "get" => j.n \in Nat
  /\ MaxJobs \in Nat /\ MaxDeaths \in Nat

VARIABLES mem,           \* the server's memory
          holder,        \* the thread whose mobile code the server runs, or Nobody
          root,          \* root[l]: root_ptr of l, Unmade or Making before
          nodes,         \* nodes[l]: <<address, value>> of the nodes linked so far
          pc,            \* pc[c]: the label c is at
          job,           \* job[c]: the call c is in, NoJob in none
          node,          \* node[c]: node of add and of makeRoot
          pos,           \* pos[c]: the node the walk is at
          left,          \* left[c]: n of get, the links still to follow
          result,        \* result[c]: what the call returns
          jobs           \* jobs[c]: calls c has made

vars == <<mem, holder, root, nodes, pc, job, node, pos, left, result, jobs>>

Nobody    == "nobody"
NULL      == -1
Unmade    == 0                    \* no block is at address 0
Making    == -1
NoJob     == [kind |-> "none"]
Exception == -2                   \* a RuntimeException reaches the caller
New(l)    == [kind |-> "new", list |-> l]
Add(l, v) == [kind |-> "add", list |-> l, val |-> v]
Get(l, n) == [kind |-> "get", list |-> l, n |-> n]

(* Alloc.init has run; word 1 is the first block's.                            *)
Init == /\ mem = [a \in Cells |-> IF a = 0 THEN 1 ELSE 0]
        /\ holder = Nobody
        /\ root = [l \in Lists |-> Unmade]
        /\ nodes = [l \in Lists |-> <<>>]
        /\ pc = [c \in Client |-> "ready"]
        /\ job = [c \in Client |-> NoJob]
        /\ node = [c \in Client |-> 0]
        /\ pos = [c \in Client |-> 0]
        /\ left = [c \in Client |-> 0]
        /\ result = [c \in Client |-> 0]
        /\ jobs = [c \in Client |-> 0]

Goto(c, label)   == pc' = [pc EXCEPT ![c] = label]
Keep             == UNCHANGED <<node, pos, left, result>>
Returns(c, v)    == Goto(c, "return") /\ result' = [result EXCEPT ![c] = v]
FirstLabel(j)    == IF j.kind = "get" THEN "first" ELSE "allocRead"
Waiting(c)       == pc[c] \notin {"ready", "queued", "return", "dead"}

-------------------------------------------------------------------------------
(* A constructor is called by one thread; add and get once it has returned.    *)
(* The constructor of a List_Active makes the root from the client.            *)
Call(c) ==
  /\ pc[c] = "ready" /\ jobs[c] < MaxJobs
  /\ \E j \in Jobs :
       /\ IF j.kind = "new" THEN root[j.list] = Unmade ELSE root[j.list] > 0
       /\ job' = [job EXCEPT ![c] = j]
       /\ root' = IF j.kind = "new" THEN [root EXCEPT ![j.list] = Making] ELSE root
       /\ Goto(c, IF j.kind # "new" /\ j.list \in ActiveLists THEN "queued" ELSE FirstLabel(j))
       /\ left' = [left EXCEPT ![c] = IF j.kind = "get" THEN j.n ELSE 0]
  /\ jobs' = [jobs EXCEPT ![c] = @ + 1]
  /\ UNCHANGED <<mem, holder, nodes, node, pos, result>>

(* The server takes the request, and serves nobody else until it is over.      *)
Run(c) == /\ holder = Nobody /\ pc[c] = "queued"
          /\ holder' = c
          /\ Goto(c, FirstLabel(job[c]))
          /\ UNCHANGED <<mem, root, nodes, job, node, pos, left, result, jobs>>

OpOf(c) ==
  CASE pc[c] = "allocRead" -> Read(0, 1)
    [] pc[c] = "allocCas"  -> Cas(0, node[c], node[c] + 2)
    [] pc[c] = "endRoot"   -> Write(node[c] + 1, <<NULL>>)
    [] pc[c] = "content"   -> Write(node[c], <<job[c].val>>)
    [] pc[c] = "endNode"   -> Write(node[c] + 1, <<NULL>>)
    [] pc[c] = "append"    -> Cas(pos[c] + 1, NULL, node[c])
    [] pc[c] = "follow"    -> Read(pos[c] + 1, 1)
    [] pc[c] = "first"     -> Read(root[job[c].list] + 1, 1)
    [] pc[c] = "next"      -> Read(pos[c] + 1, 1)
    [] pc[c] = "value"     -> Read(pos[c], 1)

AfterAlloc(c, res) ==
  \/ pc[c] = "allocRead" /\ node' = [node EXCEPT ![c] = res.result[1]]
     /\ Goto(c, "allocCas") /\ UNCHANGED <<pos, left, result>>
  \/ pc[c] = "allocCas" /\ Keep
     /\ Goto(c, IF res.result[1] = 0 THEN "allocRead"
                ELSE IF job[c].kind = "new" THEN "endRoot" ELSE "content")

\* A slip: the new node is linked before it has an end.
AfterFillUnended(c) ==
  \/ pc[c] = "endRoot" /\ Returns(c, 0) /\ UNCHANGED <<node, pos, left>>
  \/ pc[c] \in {"content", "endNode"} /\ Goto(c, "append")
     /\ pos' = [pos EXCEPT ![c] = root[job[c].list]] /\ UNCHANGED <<node, left, result>>

AfterFill(c) ==
  \/ pc[c] = "endRoot" /\ Returns(c, 0) /\ UNCHANGED <<node, pos, left>>
  \/ pc[c] = "content" /\ Goto(c, "endNode") /\ Keep
  \/ pc[c] = "endNode" /\ Goto(c, "append")
     /\ pos' = [pos EXCEPT ![c] = root[job[c].list]] /\ UNCHANGED <<node, left, result>>

\* A slip: the walk does not go on from the node whose link was taken.
AfterAppendStays(c, res) ==
  \/ /\ pc[c] = "append"
     /\ IF res.result[1] # 0 THEN Returns(c, node[c]) ELSE Goto(c, "follow") /\ UNCHANGED result
     /\ UNCHANGED <<node, pos, left>>
  \/ pc[c] = "follow" /\ Goto(c, "append") /\ Keep

AfterAppend(c, res) ==
  \/ /\ pc[c] = "append"
     /\ IF res.result[1] # 0 THEN Returns(c, node[c]) ELSE Goto(c, "follow") /\ UNCHANGED result
     /\ UNCHANGED <<node, pos, left>>
  \/ pc[c] = "follow" /\ Goto(c, "append")
     /\ pos' = [pos EXCEPT ![c] = res.result[1]] /\ UNCHANGED <<node, left, result>>

(* get has reached p with n links left to follow.                              *)
Reached(c, p, n) ==
  /\ pos' = [pos EXCEPT ![c] = p]
  /\ left' = [left EXCEPT ![c] = n]
  /\ IF p = NULL THEN Returns(c, NULL)
     ELSE Goto(c, IF n > 0 THEN "next" ELSE "value") /\ UNCHANGED result
  /\ UNCHANGED node

\* A slip: the links are counted down once too often.
AfterFetchShort(c, res) ==
  \/ pc[c] = "first" /\ Reached(c, res.result[1], left[c] - 1)
  \/ pc[c] = "next" /\ Reached(c, res.result[1], left[c] - 1)
  \/ pc[c] = "value" /\ Returns(c, res.result[1]) /\ UNCHANGED <<node, pos, left>>

AfterFetch(c, res) ==
  \/ pc[c] = "first" /\ Reached(c, res.result[1], left[c])
  \/ pc[c] = "next" /\ Reached(c, res.result[1], left[c] - 1)
  \/ pc[c] = "value" /\ Returns(c, res.result[1]) /\ UNCHANGED <<node, pos, left>>

(* The bookkeeping beside an operation: a node is linked, a root is made.      *)
Record(c, op) ==
  /\ nodes' = IF pc[c] = "append" /\ Swaps(op, mem)
              THEN [nodes EXCEPT ![job[c].list] = Append(@, <<node[c], job[c].val>>)] ELSE nodes
  /\ root' = IF pc[c] = "endRoot" /\ InBounds(op)
             THEN [root EXCEPT ![job[c].list] = node[c]] ELSE root

(* c's next operation is served, and c goes on.  A Result that is not OK is an *)
(* exception to the end of the call.                                           *)
Operate(c) ==
  LET op == OpOf(c) res == Outcome(OpOf(c), mem) IN
  /\ Waiting(c) /\ holder \in {Nobody, c}
  /\ mem' = Effect(op, mem)
  /\ Record(c, op)
  /\ \/ /\ res.error = "OK"
        /\ AfterAlloc(c, res) \/ AfterFill(c) \/ AfterAppend(c, res) \/ AfterFetch(c, res)
     \/ res.error # "OK" /\ Returns(c, Exception) /\ UNCHANGED <<node, pos, left>>
  /\ holder' = IF pc'[c] = "return" THEN Nobody ELSE holder
  /\ UNCHANGED <<job, jobs>>

Return(c) == /\ pc[c] = "return"
             /\ Goto(c, "ready")
             /\ job' = [job EXCEPT ![c] = NoJob]
             /\ UNCHANGED <<mem, holder, root, nodes, node, pos, left, result, jobs>>

(* A client's process ends; mobile code it has sent for is not affected.       *)
Die(c) == /\ pc[c] # "dead" /\ pc[c] # "queued" /\ holder # c
          /\ Cardinality({d \in Client : pc[d] = "dead"}) < MaxDeaths
          /\ Goto(c, "dead")
          /\ job' = [job EXCEPT ![c] = NoJob]
          /\ UNCHANGED <<mem, holder, root, nodes, node, pos, left, result, jobs>>

Step(c) == Call(c) \/ Run(c) \/ Operate(c) \/ Return(c)

Next == \E c \in Client : Step(c) \/ Die(c)

Spec == Init /\ [][Next]_vars

(* Threads that live run, and the server's loop serves what reaches it.        *)
LiveSpec == Spec /\ \A c \in Client : WF_vars(Step(c))

-------------------------------------------------------------------------------
(* The variables hold what their declarations say.                             *)
TypeOK == /\ mem \in [Cells -> Int]
          /\ holder \in Client \cup {Nobody}
          /\ root \in [Lists -> Nat \cup {Making}]
          /\ job \in [Client -> Jobs \cup {NoJob}]
          /\ node \in [Client -> Nat] /\ pos \in [Client -> Nat \cup {NULL}]
          /\ left \in [Client -> Nat] /\ jobs \in [Client -> 0 .. MaxJobs]
          /\ result \in [Client -> Int]

(* Memory holds the lists: from the root every link leads to the node that was *)
(* appended next, the last to NULL, and every node has the value it was made   *)
(* with, whatever threads raced for the counter or a link and wherever one of  *)
(* them died.                                                                  *)
ListOK ==
  /\ TypeOK
  /\ \A l \in Lists : root[l] > 0 =>
       LET at(n) == IF n = 0 THEN root[l] ELSE nodes[l][n][1] IN
       /\ \A n \in 0 .. Len(nodes[l]) :
            mem[at(n) + 1] = IF n = Len(nodes[l]) THEN NULL ELSE at(n + 1)
       /\ \A n \in 1 .. Len(nodes[l]) : mem[at(n)] = nodes[l][n][2]

(* The lists implement AppendList.  An add takes effect at the CAS that links  *)
(* its node, a get at its last read of a link; a get does not fail, as it      *)
(* reads no address but those of linked nodes.                                 *)
Seqs == INSTANCE AppendList WITH
          items <- [l \in Lists |-> [n \in 1 .. Len(nodes[l]) |-> nodes[l][n][2]]],
          phase <- [c \in Client |-> IF pc[c] = "dead" THEN "dead"
                                     ELSE IF job[c] = NoJob THEN "idle"
                                     ELSE IF pc[c] \in {"value", "return"} THEN "done"
                                     ELSE "called"],
          reply <- [c \in Client |->
                      IF job[c].kind # "get" \/ pc[c] \notin {"value", "return"} THEN 0
                      ELSE IF pc[c] = "value" THEN mem[pos[c]] ELSE result[c]]
IsList == Seqs!Spec

(* Every call of a thread that lives returns, whoever has died: no add waits   *)
(* for another, it helps itself along the links that are there.                *)
CallsReturn == \A c \in Client : job[c] # NoJob ~> job[c] = NoJob
===============================================================================
