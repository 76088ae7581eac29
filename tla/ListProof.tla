------------------------------- MODULE ListProof ------------------------------
(* Proofs about List for any threads, lists, jobs and memory: memory spells    *)
(* the lists, and they implement AppendList.  A node belongs to a thread from  *)
(* the CAS that allocates it to the CAS that links it; IInv says of nodes that *)
(* belong to a thread what ListOK says of those that are linked, and that all  *)
(* of them are apart.                                                          *)
EXTENDS List, TLAPS

-------------------------------------------------------------------------------
(* What serving one operation does to memory, of any size.                     *)

(* What serving one operation on one word does and answers.                    *)
LEMMA ReadOne ==
  ASSUME NEW a \in Nat, NEW m
  PROVE  /\ Effect(Read(a, 1), m) = m
         /\ Outcome(Read(a, 1), m).error = "OK" <=> a < MemSize
         /\ a < MemSize => Outcome(Read(a, 1), m).result[1] = m[a]
  BY MemSizeAssumption DEF Effect, Read, Outcome, InBounds, Width, Ok, Failed

(* A WRITE of one word stores it, or nothing beyond the end of memory.         *)
LEMMA WriteOne ==
  ASSUME NEW a \in Nat, NEW v \in Int, NEW m \in [Cells -> Int]
  PROVE  /\ a < MemSize => Effect(Write(a, <<v>>), m) = [m EXCEPT ![a] = v]
         /\ ~(a < MemSize) => Effect(Write(a, <<v>>), m) = m
         /\ Outcome(Write(a, <<v>>), m).error = "OK" <=> a < MemSize
  <1> DEFINE op == Write(a, <<v>>)
  <1>1. op.kind = "WRITE" /\ op.addr = a /\ op.values = <<v>> /\ Len(op.values) = 1
    BY DEF Write
  <1> HIDE DEF op
  <1>2. Effect(op, m) = [i \in Cells |-> IF /\ op.addr >= 0
                                            /\ i \in op.addr .. op.addr + Len(op.values) - 1
                                         THEN op.values[i - op.addr + 1] ELSE m[i]]
    BY <1>1 DEF Effect
  <1>3. ASSUME NEW i \in Cells
        PROVE  Effect(op, m)[i] = IF i = a THEN v ELSE m[i]
    <2>1. i \in Int
      BY MemSizeAssumption DEF Cells
    <2>2. op.addr >= 0 /\ i \in op.addr .. op.addr + Len(op.values) - 1 <=> i = a
      BY <1>1, <2>1
    <2>3. i = a => op.values[i - op.addr + 1] = v
      BY <1>1, <2>1
    <2> QED BY <1>2, <2>2, <2>3
  <1>4. a < MemSize => Effect(op, m) = [m EXCEPT ![a] = v]
    BY <1>2, <1>3
  <1>5. ~(a < MemSize) => Effect(op, m) = m
    <2>1. ~(a < MemSize) => a \notin Cells
      BY MemSizeAssumption DEF Cells
    <2> QED BY <1>2, <1>3, <2>1
  <1>6. InBounds(op) <=> a < MemSize
    BY <1>1, MemSizeAssumption DEF InBounds, Width
  <1>7. Outcome(op, m).error = "OK" <=> a < MemSize
    BY <1>1, <1>6 DEF Outcome, Ok, Failed
  <1> QED BY <1>4, <1>5, <1>7 DEF op

(* A CAS stores its word if it finds what it tests for.                        *)
LEMMA CasOne ==
  ASSUME NEW a \in Nat, NEW t, NEW v, NEW m
  PROVE  /\ Swaps(Cas(a, t, v), m) <=> a < MemSize /\ m[a] = t
         /\ Swaps(Cas(a, t, v), m) => Effect(Cas(a, t, v), m) = [m EXCEPT ![a] = v]
         /\ ~Swaps(Cas(a, t, v), m) => Effect(Cas(a, t, v), m) = m
         /\ Outcome(Cas(a, t, v), m).error = "OK" <=> a < MemSize
         /\ a < MemSize => (Outcome(Cas(a, t, v), m).result[1] # 0 <=> Swaps(Cas(a, t, v), m))
  <1> DEFINE op == Cas(a, t, v)
  <1>1. op.kind = "CAS" /\ op.addr = a /\ op.test = t /\ op.value = v
    BY DEF Cas
  <1>2. InBounds(op) <=> a < MemSize
    BY <1>1, MemSizeAssumption DEF InBounds, Width
  <1>3. Swaps(op, m) <=> a < MemSize /\ m[a] = t
    BY <1>1, <1>2 DEF Swaps
  <1>4. /\ Swaps(op, m) => Effect(op, m) = [m EXCEPT ![a] = v]
        /\ ~Swaps(op, m) => Effect(op, m) = m
    BY <1>1 DEF Effect
  <1>5. Outcome(op, m).error = "OK" <=> a < MemSize
    BY <1>1, <1>2 DEF Outcome, Ok, Failed
  <1>6. a < MemSize => Outcome(op, m).result[1] = IF Swaps(op, m) THEN 1 ELSE 0
    BY <1>1, <1>2 DEF Outcome, Ok, Failed
  <1> HIDE DEF op
  <1> QED BY <1>3, <1>4, <1>5, <1>6 DEF op

-------------------------------------------------------------------------------
Labels == {"ready", "queued", "allocRead", "allocCas", "endRoot", "content", "endNode",
           "append", "follow", "first", "next", "value", "return", "dead"}

Made(l)  == root[l] > 0
At(l, n) == IF n = 0 THEN root[l] ELSE nodes[l][n][1]

(* Nodes take two words each behind the counter: they start at odd addresses.  *)
Block(a) == a \in Nat /\ a % 2 = 1 /\ a + 1 < mem[0]

Owns(c)  == pc[c] \in {"endRoot", "content", "endNode", "append", "follow"}
Busy(c)  == pc[c] \notin {"ready", "return", "dead"}
Makes(c) == Busy(c) /\ job[c].kind = "new"

Types == /\ TypeOK
         /\ pc \in [Client -> Labels]
         /\ nodes \in [Lists -> Seq(Nat \X Int)]

Counter == mem[0] \in Nat /\ mem[0] % 2 = 1

(* What ListOK says, and that nodes are blocks of memory.                      *)
Chain(l) ==
  IF Made(l)
  THEN \A n \in 0 .. Len(nodes[l]) :
         /\ Block(At(l, n)) /\ At(l, n) + 1 < MemSize
         /\ n = Len(nodes[l]) => mem[At(l, n) + 1] = NULL
         /\ n < Len(nodes[l]) => mem[At(l, n) + 1] = At(l, n + 1)
         /\ n > 0 => mem[At(l, n)] = nodes[l][n][2]
  ELSE nodes[l] = <<>>

Apart == \A l, m \in Lists : Made(l) /\ Made(m) =>
           \A i \in 0 .. Len(nodes[l]), j \in 0 .. Len(nodes[m]) :
             At(l, i) = At(m, j) => l = m /\ i = j

(* The labels of each call; its list is being made by it, or made.             *)
LabelOK(c) ==
  /\ Busy(c) =>
       /\ job[c] \in Jobs
       /\ \/ /\ job[c].kind = "new" /\ root[job[c].list] = Making
             /\ pc[c] \in {"allocRead", "allocCas", "endRoot"}
          \/ /\ job[c].kind = "add" /\ Made(job[c].list)
             /\ pc[c] \in {"queued", "allocRead", "allocCas", "content", "endNode",
                          "append", "follow"}
          \/ /\ job[c].kind = "get" /\ Made(job[c].list)
             /\ pc[c] \in {"queued", "first", "next", "value"}
  /\ pc[c] = "next" => left[c] > 0

(* The node that belongs to c.                                                 *)
NodeOK(c) ==
  Owns(c) =>
    /\ Block(node[c])
    /\ \A l \in Lists : Made(l) => \A n \in 0 .. Len(nodes[l]) : At(l, n) # node[c]
    /\ pc[c] \in {"endNode", "append", "follow"} =>
         node[c] < MemSize /\ mem[node[c]] = job[c].val
    /\ pc[c] \in {"append", "follow"} =>
         node[c] + 1 < MemSize /\ mem[node[c] + 1] = NULL

(* The node that c's walk is at.                                               *)
WalkOK(c) ==
  /\ pc[c] \in {"append", "next", "value"} =>
       \E n \in 0 .. Len(nodes[job[c].list]) : pos[c] = At(job[c].list, n)
  /\ pc[c] = "follow" =>
       \E n \in 0 .. Len(nodes[job[c].list]) - 1 : pos[c] = At(job[c].list, n)

PairOK(c, d) == /\ Owns(c) /\ Owns(d) => node[c] # node[d]
                /\ Makes(c) /\ Makes(d) => job[c].list # job[d].list

IInv == /\ Types /\ Counter /\ Apart
        /\ \A l \in Lists : Chain(l)
        /\ \A c \in Client : LabelOK(c) /\ NodeOK(c) /\ WalkOK(c)
        /\ \A c, d \in Client : c # d => PairOK(c, d)

-------------------------------------------------------------------------------
(* A write into one block leaves the others as they were.                      *)
LEMMA OtherBlocks ==
  ASSUME mem \in [Cells -> Int], Counter, NEW b, Block(b), NEW x \in {b, b + 1},
         NEW v, mem' = [mem EXCEPT ![x] = v]
  PROVE  /\ mem'[0] = mem[0]
         /\ \A a : Block(a) => Block(a)'
         /\ \A a : Block(a) /\ a # b =>
              /\ a < MemSize => mem'[a] = mem[a]
              /\ a + 1 < MemSize => mem'[a + 1] = mem[a + 1]
  <1>1. 0 \in Cells /\ x # 0
    BY MemSizeAssumption DEF Cells, Block
  <1>2. mem'[0] = mem[0]
    BY <1>1
  <1>3. ASSUME NEW a, Block(a) PROVE Block(a)'
    BY <1>2, <1>3 DEF Block
  <1>4. ASSUME NEW a, Block(a), a # b
        PROVE  a # x /\ a + 1 # x
    BY <1>4 DEF Block
  <1>5. ASSUME NEW a, Block(a), a # b
        PROVE  /\ a < MemSize => mem'[a] = mem[a]
               /\ a + 1 < MemSize => mem'[a + 1] = mem[a + 1]
    <2>1. a \in Nat
      BY <1>5 DEF Block
    <2>2. a < MemSize => a \in Cells
      BY <2>1, MemSizeAssumption DEF Cells
    <2>3. a + 1 < MemSize => a + 1 \in Cells
      BY <2>1, MemSizeAssumption DEF Cells
    <2> QED BY <1>4, <1>5, <2>2, <2>3
  <1> QED BY <1>2, <1>3, <1>5

(* When the counter moves up the blocks below it are as they were.             *)
LEMMA CounterUp ==
  ASSUME mem \in [Cells -> Int], Counter, mem' = [mem EXCEPT ![0] = mem[0] + 2]
  PROVE  /\ mem' \in [Cells -> Int] /\ Counter' /\ mem'[0] = mem[0] + 2
         /\ \A a : a = mem[0] => Block(a)'
         /\ \A a : Block(a) =>
              /\ Block(a)' /\ a # mem[0]
              /\ a < MemSize => mem'[a] = mem[a]
              /\ a + 1 < MemSize => mem'[a + 1] = mem[a + 1]
  <1>1. 0 \in Cells
    BY MemSizeAssumption DEF Cells
  <1>2. mem'[0] = mem[0] + 2 /\ mem' \in [Cells -> Int]
    BY <1>1 DEF Counter
  <1>3. Counter' /\ \A a : a = mem[0] => Block(a)'
    BY <1>2 DEF Counter, Block
  <1>4. ASSUME NEW a, Block(a)
        PROVE  /\ Block(a)' /\ a # mem[0]
               /\ a < MemSize => mem'[a] = mem[a]
               /\ a + 1 < MemSize => mem'[a + 1] = mem[a + 1]
    <2>1. a \in Nat /\ a # 0 /\ a + 1 # 0 /\ a # mem[0]
      BY <1>4 DEF Block, Counter
    <2>2. Block(a)'
      BY <1>2, <1>4 DEF Block, Counter
    <2>3. /\ a < MemSize => a \in Cells
          /\ a + 1 < MemSize => a + 1 \in Cells
      BY <2>1, MemSizeAssumption DEF Cells
    <2> QED BY <2>1, <2>2, <2>3
  <1> QED BY <1>2, <1>3, <1>4

(* A list whose nodes are as they were is as it was.                           *)
LEMMA ChainKept ==
  ASSUME NEW l \in Lists, Chain(l), root'[l] = root[l], nodes'[l] = nodes[l],
         \A n \in 0 .. Len(nodes[l]) : \A a : Made(l) /\ a = At(l, n) /\ Block(a) =>
           /\ Block(a)'
           /\ a < MemSize => mem'[a] = mem[a]
           /\ a + 1 < MemSize => mem'[a + 1] = mem[a + 1]
  PROVE  Chain(l)'
  <1>1. (Made(l)' <=> Made(l)) /\ \A n : At(l, n)' = At(l, n)
    BY DEF Made, At
  <1>2. CASE ~Made(l)
    BY <1>1, <1>2 DEF Chain
  <1>3. CASE Made(l)
    <2>1. ASSUME NEW n \in 0 .. Len(nodes[l])
          PROVE  /\ Block(At(l, n))'
                 /\ mem'[At(l, n)] = mem[At(l, n)] /\ mem'[At(l, n) + 1] = mem[At(l, n) + 1]
      <3>1. Block(At(l, n)) /\ At(l, n) + 1 < MemSize
        BY <1>3 DEF Chain
      <3>2. At(l, n) < MemSize
        BY <3>1, MemSizeAssumption DEF Block
      <3>3. PICK a : a = At(l, n)
        OBVIOUS
      <3>4. Block(a)' /\ mem'[a] = mem[a] /\ mem'[a + 1] = mem[a + 1]
        BY <1>3, <3>1, <3>2, <3>3
      <3> QED BY <1>1, <3>3, <3>4 DEF Block
    <2> QED BY <1>1, <1>3, <2>1 DEF Chain
  <1> QED BY <1>2, <1>3

(* So is a node that belongs to a thread, if no list has it.                   *)
LEMMA NodeKept ==
  ASSUME NEW d \in Client, NodeOK(d), pc'[d] = pc[d], node'[d] = node[d], job'[d] = job[d],
         Owns(d) =>
           /\ \A a : a = node[d] =>
                /\ Block(a)'
                /\ a < MemSize => mem'[a] = mem[a]
                /\ a + 1 < MemSize => mem'[a + 1] = mem[a + 1]
           /\ \A l \in Lists : Made(l)' =>
                \A n \in 0 .. Len(nodes'[l]) : At(l, n)' # node[d]
  PROVE  NodeOK(d)'
  <1>1. PICK e : e = node[d]
    OBVIOUS
  <1>2. Owns(d) => /\ Block(e)'
                   /\ e < MemSize => mem'[e] = mem[e]
                   /\ e + 1 < MemSize => mem'[e + 1] = mem[e + 1]
    BY <1>1
  <1>3. Owns(d) => Block(node[d])'
    BY <1>1, <1>2 DEF Block
  <1>4. Owns(d)' <=> Owns(d)
    BY DEF Owns
  <1> QED BY <1>1, <1>2, <1>3, <1>4 DEF NodeOK

-------------------------------------------------------------------------------
(* A step of c that changes nothing but c's own variables, and at most marks a *)
(* list that nobody has used as being made.                                    *)
SharedSame == /\ mem' = mem /\ nodes' = nodes
              /\ \A l \in Lists : /\ Made(l)' <=> Made(l)
                                  /\ Made(l) => root'[l] = root[l]
                                  /\ root[l] = Making => root'[l] = Making

OthersSame(c) == \A d \in Client \ {c} :
                   /\ pc'[d] = pc[d] /\ job'[d] = job[d] /\ node'[d] = node[d]
                   /\ pos'[d] = pos[d] /\ left'[d] = left[d]

(* Such a step keeps IInv if it keeps what IInv says of c itself.              *)
LEMMA LocalStep ==
  ASSUME IInv, NEW c \in Client, SharedSame, OthersSame(c), Types',
         LabelOK(c)', NodeOK(c)', WalkOK(c)',
         \A d \in Client : c # d => PairOK(c, d)'
  PROVE  IInv'
  <1> USE DEF SharedSame
  <1>1. \A l \in Lists : Made(l) => \A n : At(l, n)' = At(l, n)
    BY DEF At
  <1>2. Counter' /\ Apart'
    BY <1>1 DEF IInv, Counter, Apart
  <1>3. ASSUME NEW l \in Lists PROVE Chain(l)'
    <2>1. Chain(l)
      BY DEF IInv
    <2>2. CASE Made(l)
      <3>1. Made(l)' /\ \A n : At(l, n)' = At(l, n)
        BY <2>2, <1>1
      <3>2. \A n : Block(At(l, n)) => Block(At(l, n))'
        BY <3>1 DEF Block
      <3> QED BY <2>1, <2>2, <3>1, <3>2 DEF Chain
    <2>3. CASE ~Made(l)
      BY <2>1, <2>3 DEF Chain
    <2> QED BY <2>2, <2>3
  <1>4. ASSUME NEW d \in Client, d # c PROVE LabelOK(d)' /\ NodeOK(d)' /\ WalkOK(d)'
    <2>1. /\ pc'[d] = pc[d] /\ job'[d] = job[d] /\ node'[d] = node[d]
          /\ pos'[d] = pos[d] /\ left'[d] = left[d]
      BY <1>4 DEF OthersSame
    <2>2. LabelOK(d) /\ NodeOK(d) /\ WalkOK(d)
      BY DEF IInv
    <2>3. Busy(d) => job[d].list \in Lists
      BY <2>2, ListAssumption DEF LabelOK
    <2>4. LabelOK(d)'
      BY <2>1, <2>2, <2>3 DEF LabelOK, Busy
    <2>5. NodeOK(d)'
      <3>1. Block(node[d]) => Block(node[d])'
        BY <2>1 DEF Block
      <3> QED BY <1>1, <2>1, <2>2, <3>1 DEF NodeOK, Owns
    <2>6. WalkOK(d)'
      <3>1. pc[d] \in {"append", "next", "value", "follow"} =>
              Made(job[d].list) /\ job[d].list \in Lists
        BY <2>2, <2>3 DEF LabelOK, Busy
      <3> QED BY <1>1, <2>1, <2>2, <3>1 DEF WalkOK
    <2> QED BY <2>4, <2>5, <2>6
  <1>5. ASSUME NEW d \in Client, NEW e \in Client, d # e PROVE PairOK(d, e)'
    <2>1. CASE d = c
      BY <1>5, <2>1
    <2>2. CASE e = c
      BY <1>5, <2>2 DEF PairOK
    <2>3. CASE d # c /\ e # c
      <3>1. PairOK(d, e)
        BY <1>5 DEF IInv
      <3> QED BY <2>3, <3>1 DEF PairOK, OthersSame, Owns, Makes, Busy
    <2> QED BY <2>1, <2>2, <2>3
  <1> QED BY <1>2, <1>3, <1>4, <1>5 DEF IInv

(* Nothing is asked of a thread between its calls.                             *)
LEMMA Leaving ==
  ASSUME IInv, NEW c \in Client, SharedSame, OthersSame(c), Types',
         pc'[c] \in {"ready", "return", "dead"}
  PROVE  IInv'
  <1>1. LabelOK(c)' /\ NodeOK(c)' /\ WalkOK(c)'
    BY DEF LabelOK, NodeOK, WalkOK, Busy, Owns
  <1>2. \A d \in Client : c # d => PairOK(c, d)'
    BY DEF PairOK, Owns, Makes, Busy
  <1> QED BY <1>1, <1>2, LocalStep

(* A call: only a list nobody has made is marked, so no two threads make one.  *)
LEMMA CallKeeps == ASSUME IInv, NEW c \in Client, Call(c) PROVE IInv'
  <1>1. PICK j \in Jobs :
          /\ IF j.kind = "new" THEN root[j.list] = Unmade ELSE root[j.list] > 0
          /\ job' = [job EXCEPT ![c] = j]
          /\ root' = IF j.kind = "new" THEN [root EXCEPT ![j.list] = Making] ELSE root
          /\ Goto(c, IF j.kind # "new" /\ j.list \in ActiveLists THEN "queued" ELSE FirstLabel(j))
          /\ left' = [left EXCEPT ![c] = IF j.kind = "get" THEN j.n ELSE 0]
    BY DEF Call
  <1>2. /\ pc[c] = "ready" /\ jobs[c] < MaxJobs /\ jobs' = [jobs EXCEPT ![c] = @ + 1]
        /\ UNCHANGED <<mem, holder, nodes, node, pos, result>>
    BY DEF Call
  <1>3. /\ j.kind \in {"new", "add", "get"} /\ j.list \in Lists
        /\ j.kind = "get" => j.n \in Nat
    BY ListAssumption
  <1>4. Types
    BY DEF IInv
  <1>5. pc' = [pc EXCEPT ![c] = IF j.kind # "new" /\ j.list \in ActiveLists THEN "queued"
                                ELSE IF j.kind = "get" THEN "first" ELSE "allocRead"]
    BY <1>1 DEF Goto, FirstLabel
  <1>6. Types'
    <2>1. root' \in [Lists -> Nat \cup {Making}]
      BY <1>1, <1>3, <1>4 DEF Types, TypeOK
    <2>2. jobs' \in [Client -> 0 .. MaxJobs]
      BY <1>2, <1>4, ListAssumption DEF Types, TypeOK
    <2>3. left' \in [Client -> Nat] /\ job' \in [Client -> Jobs \cup {NoJob}]
      BY <1>1, <1>3, <1>4 DEF Types, TypeOK
    <2>4. pc' \in [Client -> Labels]
      BY <1>5, <1>4 DEF Types, Labels
    <2> QED BY <1>2, <1>4, <2>1, <2>2, <2>3, <2>4 DEF Types, TypeOK
  <1>7. SharedSame
    BY <1>1, <1>2, <1>3, <1>4 DEF SharedSame, Made, Unmade, Making, Types, TypeOK
  <1>8. OthersSame(c)
    BY <1>1, <1>2, <1>4, <1>5 DEF OthersSame, Types, TypeOK
  <1>9. /\ pc'[c] = IF j.kind # "new" /\ j.list \in ActiveLists THEN "queued"
                     ELSE IF j.kind = "get" THEN "first" ELSE "allocRead"
        /\ job'[c] = j
    BY <1>1, <1>4, <1>5 DEF Types, TypeOK
  <1>10. LabelOK(c)'
    BY <1>1, <1>3, <1>4, <1>9 DEF LabelOK, Busy, Made, Types, TypeOK
  <1>11. NodeOK(c)' /\ WalkOK(c)'
    BY <1>9 DEF NodeOK, Owns, WalkOK
  <1>12. ASSUME NEW d \in Client, c # d PROVE PairOK(c, d)'
    <2>1. ~Owns(c)'
      BY <1>9 DEF Owns
    <2>2. ASSUME Makes(c)', Makes(d)' PROVE job'[c].list # job'[d].list
      <3>1. Makes(d) /\ job'[d] = job[d]
        BY <1>8, <1>12, <2>2 DEF Makes, Busy, OthersSame
      <3>2. root[job[d].list] = Making
        BY <3>1 DEF IInv, LabelOK, Makes
      <3>3. root[j.list] = Unmade
        BY <1>1, <1>9, <2>2 DEF Makes
      <3> QED BY <1>9, <3>1, <3>2, <3>3 DEF Making, Unmade
    <2> QED BY <2>1, <2>2 DEF PairOK
  <1> QED BY <1>6, <1>7, <1>8, <1>10, <1>11, <1>12, LocalStep

(* The server takes a request; the call starts as it does at the client.       *)
LEMMA RunKeeps == ASSUME IInv, NEW c \in Client, Run(c) PROVE IInv'
  <1> USE DEF Run
  <1>1. Types /\ LabelOK(c)
    BY DEF IInv
  <1>2. /\ job[c] \in Jobs /\ Made(job[c].list)
        /\ job[c].kind \in {"add", "get"}
    BY <1>1 DEF LabelOK, Busy
  <1>3. pc' = [pc EXCEPT ![c] = IF job[c].kind = "get" THEN "first" ELSE "allocRead"]
    BY DEF Goto, FirstLabel
  <1>4. pc'[c] = IF job[c].kind = "get" THEN "first" ELSE "allocRead"
    BY <1>1, <1>3 DEF Types
  <1>5. Types'
    <2>1. pc' \in [Client -> Labels]
      BY <1>1, <1>3 DEF Types, Labels
    <2> QED BY <1>1, <2>1 DEF Types, TypeOK
  <1>6. SharedSame /\ OthersSame(c)
    BY <1>1, <1>3 DEF SharedSame, OthersSame, Made, Types
  <1>7. LabelOK(c)' /\ NodeOK(c)' /\ WalkOK(c)'
    BY <1>2, <1>4 DEF LabelOK, Busy, Made, NodeOK, Owns, WalkOK
  <1>8. \A d \in Client : c # d => PairOK(c, d)'
    BY <1>2, <1>4 DEF PairOK, Owns, Makes
  <1> QED BY <1>5, <1>6, <1>7, <1>8, LocalStep

(* A return, and a death: the thread's node, if it has one, is nobody's.       *)
LEMMA ReturnKeeps == ASSUME IInv, NEW c \in Client, Return(c) \/ Die(c) PROVE IInv'
  <1>1. Types
    BY DEF IInv
  <1>2. /\ pc' = [pc EXCEPT ![c] = "ready"] \/ pc' = [pc EXCEPT ![c] = "dead"]
        /\ job' = [job EXCEPT ![c] = NoJob]
        /\ UNCHANGED <<mem, holder, root, nodes, node, pos, left, result, jobs>>
    BY DEF Return, Die, Goto
  <1>3. Types'
    <2>1. pc' \in [Client -> Labels] /\ job' \in [Client -> Jobs \cup {NoJob}]
      BY <1>1, <1>2 DEF Types, TypeOK, Labels
    <2> QED BY <1>1, <1>2, <2>1 DEF Types, TypeOK
  <1>4. SharedSame /\ OthersSame(c)
    BY <1>1, <1>2 DEF SharedSame, OthersSame, Made, Types, TypeOK
  <1>5. pc'[c] \in {"ready", "return", "dead"}
    BY <1>1, <1>2 DEF Types
  <1> QED BY <1>3, <1>4, <1>5, Leaving

-------------------------------------------------------------------------------
(* The operations.                                                             *)

(* A step of a call that owns no node behind it, or the one it owned before.   *)
LEMMA Going ==
  ASSUME IInv, NEW c \in Client, SharedSame, OthersSame(c), Types',
         Busy(c), job'[c] = job[c],
         \/ ~Owns(c)'
         \/ /\ pc[c] \in {"append", "follow"} /\ pc'[c] \in {"append", "follow"}
            /\ node'[c] = node[c],
         LabelOK(c)', WalkOK(c)'
  PROVE  IInv'
  <1>1. NodeOK(c)'
    <2>1. CASE ~Owns(c)'
      BY <2>1 DEF NodeOK
    <2>2. CASE Owns(c)'
      <3>1. /\ pc[c] \in {"append", "follow"} /\ pc'[c] \in {"append", "follow"}
            /\ node'[c] = node[c] /\ NodeOK(c)
        BY <2>2 DEF IInv
      <3>2. \A l \in Lists : Made(l) => \A n : At(l, n)' = At(l, n)
        BY DEF At, SharedSame
      <3>3. Block(node[c]) => Block(node[c])'
        BY <3>1 DEF Block, SharedSame
      <3> QED BY <3>1, <3>2, <3>3 DEF NodeOK, Owns, SharedSame
    <2> QED BY <2>1, <2>2
  <1>2. ASSUME NEW d \in Client, c # d PROVE PairOK(c, d)'
    <2>1. PairOK(c, d)
      BY <1>2 DEF IInv
    <2>2. Owns(d)' <=> Owns(d)
      BY <1>2 DEF OthersSame, Owns
    <2>3. Makes(d)' <=> Makes(d)
      BY <1>2 DEF OthersSame, Makes, Busy
    <2>4. Makes(c)' => Makes(c)
      BY DEF Makes
    <2>5. Owns(c)' => Owns(c) /\ node'[c] = node[c]
      BY DEF Owns
    <2> QED BY <1>2, <2>1, <2>2, <2>3, <2>4, <2>5 DEF PairOK, OthersSame
  <1> QED BY <1>1, <1>2, LocalStep

(* What every operation leaves alone.                                          *)
LEMMA OperateFrame ==
  ASSUME Types, NEW c \in Client, Operate(c)
  PROVE  /\ Busy(c) /\ pc[c] # "queued" /\ job' = job /\ jobs' = jobs
         /\ holder' \in Client \cup {Nobody}
         /\ pc[c] # "append" => nodes' = nodes
         /\ pc[c] # "endRoot" => root' = root
         /\ mem' = Effect(OpOf(c), mem)
  BY DEF Operate, Waiting, Busy, Record, Types, TypeOK

(* An operation out of bounds ends the call and leaves everything as it was.   *)
LEMMA FailureKeeps ==
  ASSUME IInv, NEW c \in Client, Operate(c), mem' = mem,
         Outcome(OpOf(c), mem).error # "OK"
  PROVE  IInv'
  <1>1. Types
    BY DEF IInv
  <1>2. Returns(c, Exception) /\ UNCHANGED <<node, pos, left>>
    BY DEF Operate
  <1>3. ~InBounds(OpOf(c))
    BY DEF Outcome, Ok
  <1>4. nodes' = nodes /\ root' = root
    BY <1>3 DEF Operate, Record, Swaps
  <1>5. pc' = [pc EXCEPT ![c] = "return"] /\ result' = [result EXCEPT ![c] = Exception]
    BY <1>2 DEF Returns, Goto
  <1>6. Types'
    <2>1. pc' \in [Client -> Labels] /\ result' \in [Client -> Int]
      BY <1>1, <1>5 DEF Types, TypeOK, Labels, Exception
    <2> QED BY <1>1, <1>2, <1>4, <2>1, OperateFrame DEF Types, TypeOK
  <1>7. SharedSame /\ OthersSame(c)
    BY <1>1, <1>2, <1>4, <1>5, OperateFrame DEF SharedSame, OthersSame, Made, Types
  <1>8. pc'[c] = "return"
    BY <1>1, <1>5 DEF Types
  <1> QED BY <1>6, <1>7, <1>8, Leaving

(* makeRoot and List_AddNode read the counter.                                 *)
LEMMA AllocReadKeeps ==
  ASSUME IInv, NEW c \in Client, Operate(c), pc[c] = "allocRead" PROVE IInv'
  <1>1. Types /\ LabelOK(c) /\ Counter
    BY DEF IInv
  <1>2. OpOf(c) = Read(0, 1) /\ 0 < MemSize
    BY MemSizeAssumption DEF OpOf
  <1>3. mem' = mem /\ Outcome(OpOf(c), mem).error = "OK" /\ Outcome(OpOf(c), mem).result[1] = mem[0]
    BY <1>1, <1>2, ReadOne, OperateFrame
  <1>4. /\ node' = [node EXCEPT ![c] = mem[0]] /\ pc' = [pc EXCEPT ![c] = "allocCas"]
        /\ UNCHANGED <<pos, left, result, root, nodes>>
    BY <1>1, <1>3, OperateFrame DEF Operate, AfterAlloc, AfterFill, AfterAppend, AfterFetch, Goto
  <1>5. Types'
    <2>1. pc' \in [Client -> Labels] /\ node' \in [Client -> Nat]
      BY <1>1, <1>4 DEF Types, TypeOK, Labels, Counter
    <2> QED BY <1>1, <1>3, <1>4, <2>1, OperateFrame DEF Types, TypeOK
  <1>6. SharedSame /\ OthersSame(c)
    BY <1>1, <1>3, <1>4, OperateFrame DEF SharedSame, OthersSame, Made, Types, TypeOK
  <1>7. pc'[c] = "allocCas" /\ job' = job
    BY <1>1, <1>4, OperateFrame DEF Types
  <1>8. LabelOK(c)' /\ WalkOK(c)' /\ ~Owns(c)'
    BY <1>1, <1>4, <1>7 DEF LabelOK, Busy, Made, WalkOK, Owns
  <1>9. Busy(c)
    BY DEF Busy
  <1> QED BY <1>5, <1>6, <1>7, <1>8, <1>9, Going

(* List_GetNode goes from a node of the list to the next, or reads its value.  *)
LEMMA FetchKeeps ==
  ASSUME IInv, NEW c \in Client, Operate(c), pc[c] \in {"first", "next", "value"} PROVE IInv'
  <1> DEFINE L == job[c].list
             a == CASE pc[c] = "first" -> root[L] + 1
                    [] pc[c] = "next"  -> pos[c] + 1
                    [] pc[c] = "value" -> pos[c]
  <1>1. Types /\ LabelOK(c) /\ WalkOK(c)
    BY DEF IInv
  <1>2. L \in Lists /\ Made(L) /\ Chain(L) /\ job[c] \in Jobs /\ job[c].kind = "get"
    BY <1>1, ListAssumption DEF IInv, LabelOK, Busy
  <1>3. PICK n \in 0 .. Len(nodes[L]) : pc[c] \in {"next", "value"} => pos[c] = At(L, n)
    BY <1>1, <1>2 DEF WalkOK, Types
  <1>4. At(L, 0) = root[L] /\ At(L, 0) \in Nat /\ At(L, n) \in Nat
    BY <1>1, <1>2 DEF Chain, At, Block, Types
  <1>5. a \in Nat /\ OpOf(c) = Read(a, 1)
    BY <1>3, <1>4 DEF OpOf
  <1> HIDE DEF a
  <1>6. mem' = mem
    BY <1>1, <1>5, ReadOne, OperateFrame
  <1>7. CASE Outcome(OpOf(c), mem).error # "OK"
    BY <1>6, <1>7, FailureKeeps
  <1>8. CASE Outcome(OpOf(c), mem).error = "OK"
    <2>1. a < MemSize /\ Outcome(OpOf(c), mem).result[1] = mem[a] /\ mem[a] \in Int
      <3>1. a < MemSize /\ Outcome(OpOf(c), mem).result[1] = mem[a]
        BY <1>5, <1>8, ReadOne
      <3> QED BY <3>1, <1>1, <1>5, MemSizeAssumption DEF Types, TypeOK, Cells
    <2>2. AfterFetch(c, Outcome(OpOf(c), mem))
      BY <1>8 DEF Operate, AfterAlloc, AfterFill, AfterAppend
    <2>3. root' = root /\ nodes' = nodes /\ job' = job
      BY <1>1, OperateFrame
    <2>4. CASE pc[c] = "value"
      <3>1. /\ pc' = [pc EXCEPT ![c] = "return"] /\ result' = [result EXCEPT ![c] = mem[a]]
            /\ UNCHANGED <<node, pos, left>>
        BY <2>1, <2>2, <2>4 DEF AfterFetch, Returns, Goto
      <3>2. Types'
        <4>1. pc' \in [Client -> Labels] /\ result' \in [Client -> Int]
          BY <1>1, <2>1, <3>1 DEF Types, TypeOK, Labels
        <4> QED BY <1>1, <1>6, <2>3, <3>1, <4>1, OperateFrame DEF Types, TypeOK
      <3>3. SharedSame /\ OthersSame(c) /\ pc'[c] = "return"
        BY <1>1, <1>6, <2>3, <3>1 DEF SharedSame, OthersSame, Made, Types
      <3> QED BY <3>2, <3>3, Leaving
    <2>5. CASE pc[c] \in {"first", "next"}
      <3> DEFINE m == IF pc[c] = "first" THEN left[c] ELSE left[c] - 1
      <3>0. Len(nodes[L]) \in Nat
        BY <1>1, <1>2 DEF Types
      <3>1. PICK k \in 0 .. Len(nodes[L]) : a = At(L, k) + 1
        <4>1. CASE pc[c] = "first"
          BY <1>4, <3>0, <4>1 DEF a
        <4>2. CASE pc[c] = "next"
          BY <1>3, <4>2 DEF a
        <4> QED BY <2>5, <4>1, <4>2
      <3>2. \/ mem[a] = NULL
            \/ k < Len(nodes[L]) /\ mem[a] = At(L, k + 1) /\ mem[a] \in Nat
        <4>1. /\ (k = Len(nodes[L])) => mem[At(L, k) + 1] = NULL
              /\ (k < Len(nodes[L])) => mem[At(L, k) + 1] = At(L, k + 1)
          BY <1>2, <3>1 DEF Chain
        <4>2. k < Len(nodes[L]) => Block(At(L, k + 1))
          <5>1. k < Len(nodes[L]) => k + 1 \in 0 .. Len(nodes[L])
            BY <3>0, <3>1
          <5> QED BY <1>2, <5>1 DEF Chain
        <4> QED BY <3>0, <3>1, <4>1, <4>2 DEF Block
      <3>3. m \in Nat
        BY <1>1, <2>5 DEF LabelOK, Types, TypeOK
      <3>4. Reached(c, mem[a], m)
        BY <2>1, <2>2, <2>5 DEF AfterFetch
      <3> HIDE DEF m
      <3>5. /\ pos' = [pos EXCEPT ![c] = mem[a]] /\ left' = [left EXCEPT ![c] = m] /\ node' = node
            /\ pc' = [pc EXCEPT ![c] = IF mem[a] = NULL THEN "return"
                                       ELSE IF m > 0 THEN "next" ELSE "value"]
            /\ result' = result \/ result' = [result EXCEPT ![c] = NULL]
        BY <3>4 DEF Reached, Returns, Goto
      <3>6. Types'
        <4>1. /\ pc' \in [Client -> Labels] /\ result' \in [Client -> Int]
              /\ left' \in [Client -> Nat] /\ pos' \in [Client -> Nat \cup {NULL}]
          BY <1>1, <2>1, <3>2, <3>3, <3>5 DEF Types, TypeOK, Labels, NULL
        <4> QED BY <1>1, <1>6, <2>3, <3>5, <4>1, OperateFrame DEF Types, TypeOK
      <3>7. SharedSame /\ OthersSame(c)
        BY <1>1, <1>6, <2>3, <3>5 DEF SharedSame, OthersSame, Made, Types, TypeOK
      <3>8. /\ pc'[c] = IF mem[a] = NULL THEN "return" ELSE IF m > 0 THEN "next" ELSE "value"
            /\ pos'[c] = mem[a] /\ left'[c] = m
        BY <1>1, <3>5 DEF Types, TypeOK
      <3>9. CASE mem[a] = NULL
        BY <3>6, <3>7, <3>8, <3>9, Leaving
      <3>10. CASE mem[a] # NULL
        <4>1. LabelOK(c)'
          BY <1>2, <2>3, <3>8, <3>10, <3>3 DEF LabelOK, Busy, Made
        <4>2. k + 1 \in 0 .. Len(nodes[L]) /\ mem[a] = At(L, k + 1)
          BY <3>0, <3>1, <3>2, <3>10
        <4>3. pos'[c] = At(L, k + 1)' /\ k + 1 \in 0 .. Len(nodes'[L]) /\ job'[c].list = L
          BY <2>3, <3>8, <4>2 DEF At
        <4>4. WalkOK(c)'
          BY <3>8, <3>10, <4>3 DEF WalkOK
        <4>5. ~Owns(c)' /\ Busy(c) /\ job'[c] = job[c]
          BY <2>3, <2>5, <3>8, <3>10 DEF Owns, Busy
        <4> QED BY <3>6, <3>7, <4>1, <4>4, <4>5, Going
      <3> QED BY <3>9, <3>10
    <2> QED BY <2>4, <2>5
  <1> QED BY <1>7, <1>8

(* List_AddNode goes on from a node that has a link.                           *)
LEMMA FollowKeeps ==
  ASSUME IInv, NEW c \in Client, Operate(c), pc[c] = "follow" PROVE IInv'
  <1> DEFINE L == job[c].list
  <1>1. Types /\ LabelOK(c) /\ WalkOK(c)
    BY DEF IInv
  <1>2. L \in Lists /\ Made(L) /\ Chain(L) /\ job[c] \in Jobs /\ job[c].kind = "add"
    BY <1>1, ListAssumption DEF IInv, LabelOK, Busy
  <1>3. PICK n \in 0 .. Len(nodes[L]) - 1 : pos[c] = At(L, n)
    BY <1>1 DEF WalkOK
  <1>4. n \in 0 .. Len(nodes[L]) /\ n + 1 \in 0 .. Len(nodes[L]) /\ n < Len(nodes[L])
    BY <1>1, <1>2, <1>3 DEF Types
  <1>5. /\ Block(pos[c]) /\ pos[c] + 1 < MemSize
        /\ mem[pos[c] + 1] = At(L, n + 1) /\ Block(At(L, n + 1))
    BY <1>2, <1>3, <1>4 DEF Chain
  <1>6. pos[c] + 1 \in Nat /\ At(L, n + 1) \in Nat /\ OpOf(c) = Read(pos[c] + 1, 1)
    BY <1>5 DEF Block, OpOf
  <1>7. /\ mem' = mem /\ Outcome(OpOf(c), mem).error = "OK"
        /\ Outcome(OpOf(c), mem).result[1] = At(L, n + 1)
    BY <1>1, <1>5, <1>6, ReadOne, OperateFrame
  <1>8. /\ pos' = [pos EXCEPT ![c] = At(L, n + 1)] /\ pc' = [pc EXCEPT ![c] = "append"]
        /\ UNCHANGED <<node, left, result, root, nodes, job>>
    BY <1>1, <1>7, OperateFrame DEF Operate, AfterAlloc, AfterFill, AfterAppend, AfterFetch, Goto
  <1>9. Types'
    <2>1. pc' \in [Client -> Labels] /\ pos' \in [Client -> Nat \cup {NULL}]
      BY <1>1, <1>6, <1>8 DEF Types, TypeOK, Labels
    <2> QED BY <1>1, <1>7, <1>8, <2>1, OperateFrame DEF Types, TypeOK
  <1>10. SharedSame /\ OthersSame(c)
    BY <1>1, <1>7, <1>8 DEF SharedSame, OthersSame, Made, Types, TypeOK
  <1>11. pc'[c] = "append" /\ pos'[c] = At(L, n + 1)' /\ job'[c] = job[c] /\ node'[c] = node[c]
    BY <1>1, <1>8 DEF Types, TypeOK, At
  <1>12. LabelOK(c)' /\ WalkOK(c)'
    BY <1>2, <1>4, <1>8, <1>11 DEF LabelOK, Busy, Made, WalkOK
  <1>13. Busy(c)
    BY DEF Busy
  <1> QED BY <1>9, <1>10, <1>11, <1>12, <1>13, Going

(* The CAS on the counter: the block it grants is no list's and no thread's.   *)
LEMMA AllocCasKeeps ==
  ASSUME IInv, NEW c \in Client, Operate(c), pc[c] = "allocCas" PROVE IInv'
  <1> DEFINE op == Cas(0, node[c], node[c] + 2)
  <1>1. Types /\ LabelOK(c) /\ Counter
    BY DEF IInv
  <1>2. OpOf(c) = op /\ 0 < MemSize
    BY MemSizeAssumption DEF OpOf
  <1>3. /\ Outcome(op, mem).error = "OK" /\ mem' = Effect(op, mem)
        /\ Swaps(op, mem) <=> mem[0] = node[c]
        /\ Outcome(op, mem).result[1] # 0 <=> Swaps(op, mem)
        /\ Swaps(op, mem) => mem' = [mem EXCEPT ![0] = node[c] + 2]
        /\ ~Swaps(op, mem) => mem' = mem
    BY <1>1, <1>2, CasOne, OperateFrame
  <1>4. /\ pc' = [pc EXCEPT ![c] = IF ~Swaps(op, mem) THEN "allocRead"
                                   ELSE IF job[c].kind = "new" THEN "endRoot" ELSE "content"]
        /\ UNCHANGED <<node, pos, left, result, root, nodes, job>>
    BY <1>1, <1>2, <1>3, OperateFrame
    DEF Operate, AfterAlloc, AfterFill, AfterAppend, AfterFetch, Goto, Keep
  <1> HIDE DEF op
  <1>5. ASSUME mem' \in [Cells -> Int] PROVE Types'
    <2>1. pc' \in [Client -> Labels]
      BY <1>1, <1>4 DEF Types, Labels
    <2> QED BY <1>1, <1>4, <1>5, <2>1, OperateFrame DEF Types, TypeOK
  <1>6. OthersSame(c)
    BY <1>1, <1>4 DEF OthersSame, Types
  <1>7. CASE ~Swaps(op, mem)
    <2>1. Types' /\ SharedSame /\ pc'[c] = "allocRead"
      BY <1>1, <1>3, <1>4, <1>5, <1>7 DEF Types, TypeOK, SharedSame, Made
    <2>2. LabelOK(c)' /\ WalkOK(c)' /\ ~Owns(c)'
      BY <1>1, <1>4, <2>1 DEF LabelOK, Busy, Made, WalkOK, Owns
    <2>3. Busy(c) /\ job'[c] = job[c]
      BY <1>4 DEF Busy
    <2> QED BY <1>6, <2>1, <2>2, <2>3, Going
  <1>8. CASE Swaps(op, mem)
    <2>1. node[c] = mem[0] /\ mem' = [mem EXCEPT ![0] = mem[0] + 2]
      BY <1>3, <1>8
    <2>2. /\ Types' /\ Counter'
          /\ Block(node[c])'
          /\ \A a : Block(a) =>
               /\ Block(a)' /\ a # node[c]
               /\ a < MemSize => mem'[a] = mem[a]
               /\ a + 1 < MemSize => mem'[a + 1] = mem[a + 1]
      <3>1. mem \in [Cells -> Int]
        BY <1>1 DEF Types, TypeOK
      <3>2. node' = node
        BY <1>4
      <3> QED BY <1>1, <1>5, <2>1, <3>1, <3>2, CounterUp
    <2>3. \A l : (Made(l)' <=> Made(l)) /\ \A n : At(l, n)' = At(l, n)
      BY <1>4 DEF Made, At
    <2>4. Apart'
      BY <1>4, <2>3 DEF IInv, Apart
    <2>5. ASSUME NEW l \in Lists PROVE Chain(l)'
      <3>1. Chain(l) /\ root' = root /\ nodes' = nodes
        BY <1>4 DEF IInv
      <3> QED BY <2>2, <3>1, ChainKept
    <2>6. pc'[c] \in {"endRoot", "content"} /\ (job[c].kind = "new" <=> pc'[c] = "endRoot")
      BY <1>1, <1>4, <1>8 DEF Types
    <2>7. ASSUME NEW d \in Client PROVE LabelOK(d)' /\ NodeOK(d)' /\ WalkOK(d)'
      <3>1. LabelOK(d) /\ NodeOK(d) /\ WalkOK(d)
        BY DEF IInv
      <3>2. CASE d = c
        <4>1. LabelOK(c)' /\ WalkOK(c)'
          BY <1>1, <1>4, <2>6 DEF LabelOK, Busy, Made, WalkOK
        <4>2. \A l \in Lists : Made(l) => \A n \in 0 .. Len(nodes[l]) : At(l, n) # node[c]
          BY <2>2 DEF IInv, Chain
        <4>3. NodeOK(c)'
          BY <1>4, <2>2, <2>3, <2>6, <4>2 DEF NodeOK
        <4> QED BY <3>2, <4>1, <4>3
      <3>3. CASE d # c
        <4>1. pc'[d] = pc[d]
          BY <1>6, <3>3 DEF OthersSame
        <4>2. LabelOK(d)' /\ WalkOK(d)'
          BY <1>4, <2>3, <3>1, <4>1 DEF LabelOK, WalkOK, Busy, Made
        <4>3. NodeOK(d)'
          <5>1. Block(node[d]) => node[d] \in Nat
            BY DEF Block
          <5>2. Block(node[d]) => Block(node[d])'
            BY <1>4, <2>2
          <5> QED BY <1>4, <2>2, <2>3, <3>1, <4>1, <5>1, <5>2 DEF NodeOK, Owns
        <4> QED BY <4>2, <4>3
      <3> QED BY <3>2, <3>3
    <2>8. ASSUME NEW d \in Client, NEW e \in Client, d # e PROVE PairOK(d, e)'
      <3>1. PairOK(d, e) /\ \A f \in Client : Owns(f) => Block(node[f])
        BY <2>8 DEF IInv, NodeOK
      <3>2. \A f \in Client : Makes(f)' => Makes(f)
        BY <1>4, <1>6 DEF Makes, Busy, OthersSame
      <3>3. \A f \in Client \ {c} : Owns(f)' => Owns(f) /\ node[f] # node[c]
        BY <1>6, <2>2, <3>1 DEF Owns, OthersSame
      <3>4. Owns(d)' /\ Owns(e)' => node[d] # node[e]
        BY <2>8, <3>1, <3>3 DEF PairOK
      <3> QED BY <1>4, <3>1, <3>2, <3>4 DEF PairOK
    <2> QED BY <2>2, <2>4, <2>5, <2>7, <2>8 DEF IInv
  <1> QED BY <1>7, <1>8

(* The content and the end of a node are written before a list has it.         *)
LEMMA FillKeeps ==
  ASSUME IInv, NEW c \in Client, Operate(c), pc[c] \in {"content", "endNode"} PROVE IInv'
  <1>1. Types /\ LabelOK(c) /\ NodeOK(c) /\ Counter /\ mem \in [Cells -> Int]
    BY DEF IInv, Types, TypeOK
  <1>2. /\ job[c] \in Jobs /\ job[c].kind = "add" /\ job[c].val \in Int
        /\ job[c].list \in Lists /\ Made(job[c].list)
    BY <1>1, ListAssumption DEF LabelOK, Busy
  <1>3. PICK b : b = node[c]
    OBVIOUS
  <1>4. /\ b \in Nat /\ Block(b)
        /\ \A l \in Lists : Made(l) => \A n \in 0 .. Len(nodes[l]) : At(l, n) # b
        /\ pc[c] = "endNode" => b < MemSize /\ mem[b] = job[c].val
    BY <1>1, <1>3 DEF NodeOK, Owns, Block
  <1>5. PICK x \in {b, b + 1}, v \in Int :
          /\ OpOf(c) = Write(x, <<v>>)
          /\ pc[c] = "content" => x = b /\ v = job[c].val
          /\ pc[c] = "endNode" => x = b + 1 /\ v = NULL
    BY <1>2, <1>3 DEF OpOf, NULL
  <1>6. /\ x < MemSize => mem' = [mem EXCEPT ![x] = v]
        /\ ~(x < MemSize) => mem' = mem
        /\ Outcome(OpOf(c), mem).error = "OK" <=> x < MemSize
    <2>1. x \in Nat /\ mem' = Effect(Write(x, <<v>>), mem)
      BY <1>1, <1>4, <1>5, OperateFrame
    <2>2. /\ x < MemSize => Effect(Write(x, <<v>>), mem) = [mem EXCEPT ![x] = v]
          /\ ~(x < MemSize) => Effect(Write(x, <<v>>), mem) = mem
          /\ Outcome(Write(x, <<v>>), mem).error = "OK" <=> x < MemSize
      BY <1>1, <2>1, WriteOne
    <2>3. OpOf(c) = Write(x, <<v>>)
      BY <1>5
    <2> QED BY <2>1, <2>2, <2>3
  <1>7. CASE ~(x < MemSize)
    BY <1>6, <1>7, FailureKeeps
  <1>8. CASE x < MemSize
    <2>1. mem' = [mem EXCEPT ![x] = v] /\ mem' \in [Cells -> Int] /\ mem'[x] = v
      BY <1>1, <1>4, <1>5, <1>6, <1>8, MemSizeAssumption DEF Cells
    <2>2. /\ pc' = [pc EXCEPT ![c] = IF pc[c] = "content" THEN "endNode" ELSE "append"]
          /\ \/ pc[c] = "content" /\ pos' = pos
             \/ pc[c] = "endNode" /\ pos' = [pos EXCEPT ![c] = root[job[c].list]]
          /\ UNCHANGED <<node, left, result, root, nodes, job>>
      BY <1>1, <1>6, <1>8, OperateFrame
      DEF Operate, AfterAlloc, AfterFill, AfterAppend, AfterFetch, Goto, Keep
    <2>3. /\ mem'[0] = mem[0] /\ \A a : Block(a) => Block(a)'
          /\ \A a : Block(a) /\ a # b =>
               /\ a < MemSize => mem'[a] = mem[a]
               /\ a + 1 < MemSize => mem'[a + 1] = mem[a + 1]
      BY <1>1, <1>4, <2>1, OtherBlocks
    <2>4. Types' /\ Counter'
      <3>1. pc' \in [Client -> Labels] /\ pos' \in [Client -> Nat \cup {NULL}]
        <4>1. root[job[c].list] \in Nat
          BY <1>1, <1>2 DEF Types, TypeOK, Made, Making
        <4> QED BY <1>1, <2>2, <4>1 DEF Types, TypeOK, Labels
      <3>2. Types'
        BY <1>1, <2>1, <2>2, <3>1, OperateFrame DEF Types, TypeOK
      <3> QED BY <1>1, <2>3, <3>2 DEF Counter
    <2>5. \A l : (Made(l)' <=> Made(l)) /\ \A n : At(l, n)' = At(l, n)
      BY <2>2 DEF Made, At
    <2>6. Apart'
      BY <2>2, <2>5 DEF IInv, Apart
    <2>7. ASSUME NEW l \in Lists PROVE Chain(l)'
      <3>1. Chain(l) /\ root' = root /\ nodes' = nodes
        BY <2>2 DEF IInv
      <3> QED BY <1>4, <2>3, <3>1, ChainKept
    <2>8. OthersSame(c)
      BY <1>1, <2>2 DEF OthersSame, Types, TypeOK
    <2>9. pc'[c] = (IF pc[c] = "content" THEN "endNode" ELSE "append") /\ node' = node /\ job' = job
      BY <1>1, <2>2 DEF Types
    <2>10. LabelOK(c)' /\ NodeOK(c)' /\ WalkOK(c)'
      <3>1. LabelOK(c)'
        BY <1>2, <2>2, <2>9 DEF LabelOK, Busy, Made
      <3>2. NodeOK(c)'
        <4>1. Block(node[c])'
          BY <1>3, <1>4, <2>3, <2>9 DEF Block
        <4>2. \A l \in Lists : Made(l)' => \A n \in 0 .. Len(nodes'[l]) : At(l, n)' # node'[c]
          BY <1>3, <1>4, <2>2, <2>5
        <4>3. b < MemSize /\ mem'[b] = job[c].val
          <5>1. CASE pc[c] = "content"
            BY <1>5, <1>8, <2>1, <5>1
          <5>2. CASE pc[c] = "endNode"
            BY <1>4, <1>5, <2>1, <5>2
          <5> QED BY <5>1, <5>2
        <4>4. pc[c] = "endNode" => b + 1 < MemSize /\ mem'[b + 1] = NULL
          BY <1>5, <1>8, <2>1
        <4> QED BY <1>3, <2>9, <4>1, <4>2, <4>3, <4>4 DEF NodeOK
      <3>3. WalkOK(c)'
        <4>1. pc[c] = "endNode" => pos'[c] = root[job[c].list]
          BY <1>1, <2>2 DEF Types, TypeOK
        <4>2. 0 \in 0 .. Len(nodes[job[c].list]) /\ At(job[c].list, 0) = root[job[c].list]
          BY <1>1, <1>2 DEF At, Types
        <4> QED BY <2>2, <2>5, <2>9, <4>1, <4>2 DEF WalkOK
      <3> QED BY <3>1, <3>2, <3>3
    <2>11. ASSUME NEW d \in Client, d # c PROVE LabelOK(d)' /\ NodeOK(d)' /\ WalkOK(d)'
      <3>1. LabelOK(d) /\ NodeOK(d) /\ WalkOK(d) /\ PairOK(d, c) /\ Owns(c)
        BY <2>11 DEF IInv, Owns
      <3>2. pc'[d] = pc[d] /\ pos'[d] = pos[d]
        BY <2>8, <2>11 DEF OthersSame
      <3>3. LabelOK(d)' /\ WalkOK(d)'
        BY <2>2, <2>5, <3>1, <3>2 DEF LabelOK, WalkOK, Busy, Made
      <3>4. Owns(d) => Block(node[d]) /\ node[d] # b
        BY <1>3, <3>1 DEF PairOK, NodeOK
      <3>5. NodeOK(d)'
        <4>1. Owns(d) => \A l \in Lists : Made(l)' =>
                \A n \in 0 .. Len(nodes'[l]) : At(l, n)' # node[d]
          BY <2>2, <2>5, <3>1 DEF NodeOK
        <4> QED BY <2>3, <2>9, <3>1, <3>2, <3>4, <4>1, NodeKept
      <3> QED BY <3>3, <3>5
    <2>12. ASSUME NEW d \in Client, NEW e \in Client, d # e PROVE PairOK(d, e)'
      <3>1. PairOK(d, e)
        BY <2>12 DEF IInv
      <3>2. \A f \in Client : (Owns(f)' => Owns(f)) /\ (Makes(f)' => Makes(f))
        BY <2>8, <2>9 DEF Owns, Makes, Busy, OthersSame
      <3> QED BY <2>9, <3>1, <3>2 DEF PairOK
    <2> QED BY <2>4, <2>6, <2>7, <2>10, <2>11, <2>12 DEF IInv
  <1> QED BY <1>7, <1>8

(* The root is given its end, and the list is made: it has no other node.      *)
LEMMA RootKeeps ==
  ASSUME IInv, NEW c \in Client, Operate(c), pc[c] = "endRoot" PROVE IInv'
  <1>0. PICK L : L = job[c].list
    OBVIOUS
  <1>1. Types /\ LabelOK(c) /\ NodeOK(c) /\ Counter /\ mem \in [Cells -> Int]
    BY DEF IInv, Types, TypeOK
  <1>2. job[c] \in Jobs /\ job[c].kind = "new" /\ L \in Lists /\ root[L] = Making
    BY <1>0, <1>1, ListAssumption DEF LabelOK, Busy
  <1>3. PICK b : b = node[c]
    OBVIOUS
  <1>4. /\ b \in Nat /\ b > 0 /\ Block(b)
        /\ \A l \in Lists : Made(l) => \A n \in 0 .. Len(nodes[l]) : At(l, n) # b
    BY <1>1, <1>3 DEF NodeOK, Owns, Block
  <1>5. OpOf(c) = Write(b + 1, <<NULL>>) /\ NULL \in Int
    BY <1>3 DEF OpOf, NULL
  <1>6. /\ b + 1 < MemSize => mem' = [mem EXCEPT ![b + 1] = NULL]
        /\ ~(b + 1 < MemSize) => mem' = mem
        /\ Outcome(OpOf(c), mem).error = "OK" <=> b + 1 < MemSize
    <2>1. b + 1 \in Nat /\ mem' = Effect(Write(b + 1, <<NULL>>), mem)
      BY <1>1, <1>4, <1>5, OperateFrame
    <2>2. /\ b + 1 < MemSize => Effect(Write(b + 1, <<NULL>>), mem) = [mem EXCEPT ![b + 1] = NULL]
          /\ ~(b + 1 < MemSize) => Effect(Write(b + 1, <<NULL>>), mem) = mem
          /\ Outcome(Write(b + 1, <<NULL>>), mem).error = "OK" <=> b + 1 < MemSize
      BY <1>1, <1>5, <2>1, WriteOne
    <2> QED BY <1>5, <2>1, <2>2
  <1>7. CASE ~(b + 1 < MemSize)
    BY <1>6, <1>7, FailureKeeps
  <1>8. CASE b + 1 < MemSize
    <2>1. /\ mem' = [mem EXCEPT ![b + 1] = NULL] /\ mem' \in [Cells -> Int]
          /\ mem'[b + 1] = NULL
      BY <1>1, <1>4, <1>5, <1>6, <1>8, MemSizeAssumption DEF Cells
    <2>2. Outcome(OpOf(c), mem).error = "OK" /\ InBounds(OpOf(c))
      BY <1>6, <1>8 DEF Outcome, Failed
    <2>3. /\ pc' = [pc EXCEPT ![c] = "return"] /\ result' = [result EXCEPT ![c] = 0]
          /\ root' = [root EXCEPT ![L] = b]
          /\ UNCHANGED <<node, pos, left, nodes, job>>
      BY <1>0, <1>1, <1>3, <2>2, OperateFrame
      DEF Operate, Record, AfterAlloc, AfterFill, AfterAppend, AfterFetch, Goto, Returns
    <2>4. /\ mem'[0] = mem[0] /\ \A a : Block(a) => Block(a)'
          /\ \A a : Block(a) /\ a # b =>
               /\ a < MemSize => mem'[a] = mem[a]
               /\ a + 1 < MemSize => mem'[a + 1] = mem[a + 1]
      BY <1>1, <1>4, <2>1, OtherBlocks
    <2>5. Types' /\ Counter'
      <3>1. /\ pc' \in [Client -> Labels] /\ result' \in [Client -> Int]
            /\ root' \in [Lists -> Nat \cup {Making}]
        <4>1. pc' \in [Client -> Labels]
          BY <1>1, <2>3 DEF Types, Labels
        <4>2. result' \in [Client -> Int]
          BY <1>1, <2>3 DEF Types, TypeOK
        <4>3. root' \in [Lists -> Nat \cup {Making}]
          BY <1>1, <1>4, <2>3 DEF Types, TypeOK
        <4> QED BY <4>1, <4>2, <4>3
      <3>2. Types'
        BY <1>1, <2>1, <2>3, <3>1, OperateFrame DEF Types, TypeOK
      <3> QED BY <1>1, <2>4, <3>2 DEF Counter
    <2>6. root'[L] = b /\ \A l \in Lists \ {L} : root'[l] = root[l]
      BY <1>1, <1>2, <2>3 DEF Types, TypeOK
    <2>7. /\ nodes'[L] = <<>> /\ Len(nodes'[L]) = 0
          /\ Made(L)' /\ At(L, 0)' = b
      <3>1. ~Made(L) /\ Chain(L)
        BY <1>2 DEF Made, Making, IInv
      <3> QED BY <1>4, <2>3, <2>6, <3>1 DEF Chain, Made, At
    <2>8. \A l \in Lists \ {L} : (Made(l)' <=> Made(l)) /\ \A n : At(l, n)' = At(l, n)
      BY <2>3, <2>6 DEF Made, At
    <2>9. Apart'
      <3>1. ASSUME NEW l \in Lists, NEW m \in Lists, Made(l)', Made(m)',
                   NEW i \in 0 .. Len(nodes'[l]), NEW j \in 0 .. Len(nodes'[m]),
                   At(l, i)' = At(m, j)'
            PROVE  l = m /\ i = j
        <4>1. CASE l = L /\ m = L
          BY <2>7, <4>1
        <4>2. CASE l = L /\ m # L
          BY <1>4, <2>3, <2>7, <2>8, <3>1, <4>2
        <4>3. CASE l # L /\ m = L
          BY <1>4, <2>3, <2>7, <2>8, <3>1, <4>3
        <4>4. CASE l # L /\ m # L
          BY <2>3, <2>8, <3>1, <4>4 DEF IInv, Apart
        <4> QED BY <4>1, <4>2, <4>3, <4>4
      <3> QED BY <3>1 DEF Apart
    <2>10. ASSUME NEW l \in Lists PROVE Chain(l)'
      <3>1. CASE l = L
        <4>1. Block(At(L, 0))'
          BY <1>4, <2>4, <2>7 DEF Block
        <4> QED BY <1>8, <2>1, <2>7, <3>1, <4>1 DEF Chain
      <3>2. CASE l # L
        <4>1. Chain(l) /\ root'[l] = root[l] /\ nodes' = nodes
          BY <2>3, <2>6, <3>2 DEF IInv
        <4> QED BY <1>4, <2>4, <4>1, ChainKept
      <3> QED BY <3>1, <3>2
    <2>11. OthersSame(c) /\ pc'[c] = "return"
      BY <1>1, <2>3 DEF OthersSame, Types, TypeOK
    <2>12. LabelOK(c)' /\ NodeOK(c)' /\ WalkOK(c)'
      BY <2>11 DEF LabelOK, NodeOK, WalkOK, Busy, Owns
    <2>13. ASSUME NEW d \in Client, d # c PROVE LabelOK(d)' /\ NodeOK(d)' /\ WalkOK(d)'
      <3>1. LabelOK(d) /\ NodeOK(d) /\ WalkOK(d) /\ PairOK(c, d) /\ Owns(c) /\ Makes(c)
        BY <1>0, <1>2, <2>13 DEF IInv, Owns, Makes, Busy
      <3>2. /\ pc'[d] = pc[d] /\ job'[d] = job[d] /\ node'[d] = node[d]
            /\ pos'[d] = pos[d] /\ left'[d] = left[d]
        BY <2>11, <2>13 DEF OthersSame
      <3>3. Busy(d) => job[d].list \in Lists /\ job[d].list # L
        BY <1>0, <1>2, <3>1, ListAssumption DEF LabelOK, PairOK, Makes, Made, Making
      <3>4. LabelOK(d)'
        BY <2>6, <2>8, <3>1, <3>2, <3>3 DEF LabelOK, Busy
      <3>5. WalkOK(d)'
        <4>1. pc[d] \in {"append", "next", "value", "follow"} => job[d].list \in Lists \ {L}
          BY <3>3 DEF Busy
        <4> QED BY <2>3, <2>8, <3>1, <3>2, <4>1 DEF WalkOK
      <3>6. Owns(d) => Block(node[d]) /\ node[d] # b
        BY <1>3, <3>1 DEF PairOK, NodeOK
      <3>7. ASSUME Owns(d), NEW l \in Lists, Made(l)', NEW n \in 0 .. Len(nodes'[l])
            PROVE  At(l, n)' # node[d]
        <4>1. CASE l = L
          BY <2>7, <3>6, <3>7, <4>1
        <4>2. CASE l # L
          BY <2>3, <2>8, <3>1, <3>7, <4>2 DEF NodeOK
        <4> QED BY <4>1, <4>2
      <3>8. NodeOK(d)'
        BY <2>4, <3>1, <3>2, <3>6, <3>7, NodeKept
      <3> QED BY <3>4, <3>5, <3>8
    <2>14. ASSUME NEW d \in Client, NEW e \in Client, d # e PROVE PairOK(d, e)'
      <3>1. PairOK(d, e)
        BY <2>14 DEF IInv
      <3>2. \A f \in Client : (Owns(f)' => Owns(f)) /\ (Makes(f)' => Makes(f))
        BY <2>3, <2>11 DEF Owns, Makes, Busy, OthersSame
      <3> QED BY <2>3, <3>1, <3>2 DEF PairOK
    <2> QED BY <2>5, <2>9, <2>10, <2>12, <2>13, <2>14 DEF IInv
  <1> QED BY <1>7, <1>8

(* The CAS on a link: it fails where a node follows, and links the thread's own *)
(* node where none does.                                                       *)
LEMMA AppendKeeps ==
  ASSUME IInv, NEW c \in Client, Operate(c), pc[c] = "append" PROVE IInv'
  <1>1. PICK L, b, x : L = job[c].list /\ b = node[c] /\ x = pos[c]
    OBVIOUS
  <1>2. Types /\ LabelOK(c) /\ NodeOK(c) /\ WalkOK(c) /\ Counter /\ mem \in [Cells -> Int]
    BY DEF IInv, Types, TypeOK
  <1>3. /\ job[c] \in Jobs /\ job[c].kind = "add" /\ job[c].val \in Int
        /\ L \in Lists /\ Made(L) /\ Chain(L)
    BY <1>1, <1>2, ListAssumption DEF IInv, LabelOK, Busy
  <1>4. /\ b \in Nat /\ Block(b) /\ b + 1 < MemSize
        /\ mem[b] = job[c].val /\ mem[b + 1] = NULL
        /\ \A l \in Lists : Made(l) => \A n \in 0 .. Len(nodes[l]) : At(l, n) # b
    BY <1>1, <1>2 DEF NodeOK, Owns, Block
  <1>5. PICK n \in 0 .. Len(nodes[L]) : x = At(L, n)
    BY <1>1, <1>2 DEF WalkOK
  <1>6. /\ x \in Nat /\ Block(x) /\ x + 1 < MemSize
        /\ n = Len(nodes[L]) => mem[x + 1] = NULL
        /\ n < Len(nodes[L]) => mem[x + 1] = At(L, n + 1)
    BY <1>3, <1>5 DEF Chain, Block
  <1>7. Len(nodes[L]) \in Nat
    BY <1>2, <1>3 DEF Types
  <1>8. mem[x + 1] = NULL <=> n = Len(nodes[L])
    <2>1. n < Len(nodes[L]) => At(L, n + 1) \in Nat
      <3>1. n < Len(nodes[L]) => n + 1 \in 0 .. Len(nodes[L])
        BY <1>7, <1>5
      <3> QED BY <1>3, <3>1 DEF Chain, Block
    <2> QED BY <1>5, <1>6, <1>7, <2>1 DEF NULL
  <1> DEFINE op == Cas(x + 1, NULL, b)
  <1>9. OpOf(c) = op
    BY <1>1 DEF OpOf
  <1>10. /\ Outcome(op, mem).error = "OK"
         /\ Swaps(op, mem) <=> n = Len(nodes[L])
         /\ Outcome(op, mem).result[1] # 0 <=> Swaps(op, mem)
         /\ Swaps(op, mem) => mem' = [mem EXCEPT ![x + 1] = b]
         /\ ~Swaps(op, mem) => mem' = mem
    <2>1. x + 1 \in Nat /\ mem' = Effect(op, mem)
      BY <1>2, <1>6, <1>9, OperateFrame
    <2> QED BY <1>6, <1>8, <2>1, CasOne
  <1>11. /\ pc' = [pc EXCEPT ![c] = IF Swaps(op, mem) THEN "return" ELSE "follow"]
         /\ result' = IF Swaps(op, mem) THEN [result EXCEPT ![c] = b] ELSE result
         /\ nodes' = IF Swaps(op, mem) THEN [nodes EXCEPT ![L] = Append(@, <<b, job[c].val>>)]
                     ELSE nodes
         /\ UNCHANGED <<node, pos, left, root, job>>
    BY <1>1, <1>2, <1>9, <1>10, OperateFrame
    DEF Operate, Record, AfterAlloc, AfterFill, AfterAppend, AfterFetch, Goto, Returns
  <1> HIDE DEF op
  <1>12. OthersSame(c)
    BY <1>2, <1>11 DEF OthersSame, Types
  <1>13. CASE ~Swaps(op, mem)
    <2>1. pc'[c] = "follow" /\ mem' = mem /\ nodes' = nodes /\ result' = result /\ n < Len(nodes[L])
      BY <1>2, <1>5, <1>7, <1>10, <1>11, <1>13 DEF Types
    <2>2. Types'
      <3>1. pc' \in [Client -> Labels]
        BY <1>2, <1>11, <1>13 DEF Types, Labels
      <3> QED BY <1>2, <1>11, <2>1, <3>1, OperateFrame DEF Types, TypeOK
    <2>3. SharedSame
      BY <1>11, <2>1 DEF SharedSame, Made
    <2>4. LabelOK(c)'
      BY <1>1, <1>3, <1>11, <2>1 DEF LabelOK, Busy, Made
    <2>5. WalkOK(c)'
      <3>1. n \in 0 .. Len(nodes[L]) - 1 /\ pos[c] = At(L, n) /\ At(L, n)' = At(L, n)
        BY <1>1, <1>5, <1>7, <1>11, <2>1 DEF At
      <3> QED BY <1>1, <1>11, <2>1, <3>1 DEF WalkOK
    <2>6. Busy(c) /\ job'[c] = job[c] /\ node'[c] = node[c]
      BY <1>11 DEF Busy
    <2> QED BY <1>12, <2>1, <2>2, <2>3, <2>4, <2>5, <2>6, Going
  <1>14. CASE Swaps(op, mem)
    <2>1. PICK N \in Nat : N = Len(nodes[L]) /\ n = N /\ x = At(L, N)
      BY <1>5, <1>7, <1>10, <1>14
    <2>2. /\ mem' = [mem EXCEPT ![x + 1] = b] /\ mem' \in [Cells -> Int]
          /\ mem'[x + 1] = b /\ mem'[x] = mem[x]
      <3>1. mem' = [mem EXCEPT ![x + 1] = b] /\ x \in Cells /\ x + 1 \in Cells
        BY <1>6, <1>10, <1>14, MemSizeAssumption DEF Cells
      <3> QED BY <1>2, <1>4, <1>6, <3>1
    <2>3. /\ mem'[0] = mem[0] /\ \A a : Block(a) => Block(a)'
          /\ \A a : Block(a) /\ a # x =>
               /\ a < MemSize => mem'[a] = mem[a]
               /\ a + 1 < MemSize => mem'[a + 1] = mem[a + 1]
      BY <1>2, <1>6, <2>2, OtherBlocks
    <2>4. /\ nodes'[L] = Append(nodes[L], <<b, job[c].val>>)
          /\ \A l \in Lists \ {L} : nodes'[l] = nodes[l]
          /\ nodes' \in [Lists -> Seq(Nat \X Int)]
      <3>1. <<b, job[c].val>> \in Nat \X Int
        BY <1>3, <1>4
      <3>2. Append(nodes[L], <<b, job[c].val>>) \in Seq(Nat \X Int)
        BY <1>2, <1>3, <3>1 DEF Types
      <3> QED BY <1>2, <1>3, <1>11, <1>14, <3>2 DEF Types
    <2>5. /\ Len(nodes'[L]) = N + 1
          /\ \A i \in 1 .. N : nodes'[L][i] = nodes[L][i]
          /\ nodes'[L][N + 1] = <<b, job[c].val>>
      BY <1>2, <1>3, <2>1, <2>4 DEF Types
    <2>6. Types' /\ Counter'
      <3>1. /\ pc' \in [Client -> Labels] /\ result' \in [Client -> Int]
        BY <1>2, <1>4, <1>11 DEF Types, TypeOK, Labels
      <3>2. Types'
        BY <1>2, <1>11, <2>2, <2>4, <3>1, OperateFrame DEF Types, TypeOK
      <3> QED BY <1>2, <2>3, <3>2 DEF Counter
    <2>7. /\ \A l : Made(l)' <=> Made(l)
          /\ \A l \in Lists : \A i \in 0 .. Len(nodes[l]) : At(l, i)' = At(l, i)
          /\ At(L, N + 1)' = b
      <3>1. \A i \in 0 .. N : At(L, i)' = At(L, i)
        BY <1>11, <2>1, <2>5 DEF At
      <3>2. \A l \in Lists \ {L} : \A i : At(l, i)' = At(l, i)
        BY <1>11, <2>4 DEF At
      <3>3. At(L, N + 1)' = b
        BY <2>1, <2>5 DEF At
      <3> QED BY <1>11, <2>1, <3>1, <3>2, <3>3 DEF Made
    (* The places of the lists: those there were, and b, which was none.       *)
    <2>8. ASSUME NEW l \in Lists, NEW i \in 0 .. Len(nodes'[l])
          PROVE  i \in 0 .. Len(nodes[l]) \/ (l = L /\ i = N + 1)
      BY <2>1, <2>4, <2>5
    <2>9. Apart'
      <3>1. ASSUME NEW l \in Lists, NEW m \in Lists, Made(l)', Made(m)',
                   NEW i \in 0 .. Len(nodes'[l]), NEW j \in 0 .. Len(nodes'[m]),
                   At(l, i)' = At(m, j)'
            PROVE  l = m /\ i = j
        <4>1. Made(l) /\ Made(m)
          BY <2>7, <3>1
        <4>2. CASE i \in 0 .. Len(nodes[l]) /\ j \in 0 .. Len(nodes[m])
          BY <2>7, <3>1, <4>1, <4>2 DEF IInv, Apart
        <4>3. CASE i \in 0 .. Len(nodes[l]) /\ m = L /\ j = N + 1
          BY <1>4, <2>7, <3>1, <4>1, <4>3
        <4>4. CASE l = L /\ i = N + 1 /\ j \in 0 .. Len(nodes[m])
          BY <1>4, <2>7, <3>1, <4>1, <4>4
        <4>5. CASE l = L /\ i = N + 1 /\ m = L /\ j = N + 1
          BY <4>5
        <4> QED BY <2>8, <4>2, <4>3, <4>4, <4>5
      <3> QED BY <3>1 DEF Apart
    <2>10. ASSUME NEW l \in Lists PROVE Chain(l)'
      <3>1. CASE l # L
        <4>1. \A i \in 0 .. Len(nodes[l]) : Made(l) => At(l, i) # x
          BY <1>3, <2>1, <3>1 DEF IInv, Apart
        <4>2. Chain(l) /\ root'[l] = root[l] /\ nodes'[l] = nodes[l]
          BY <1>11, <2>4, <3>1 DEF IInv
        <4> QED BY <2>3, <4>1, <4>2, ChainKept
      <3>2. CASE l = L
        <4>1. ASSUME NEW i \in 0 .. N + 1
              PROVE  /\ Block(At(L, i))' /\ At(L, i)' + 1 < MemSize
                     /\ i = N + 1 => mem'[At(L, i)' + 1] = NULL
                     /\ i < N + 1 => mem'[At(L, i)' + 1] = At(L, i + 1)'
                     /\ i > 0 => mem'[At(L, i)'] = nodes'[L][i][2]
          <5>1. CASE i = N + 1
            <6>1. b # x /\ b < MemSize
              BY <1>3, <1>4, <2>1, MemSizeAssumption
            <6>2. Block(b)' /\ mem'[b] = job[c].val /\ mem'[b + 1] = NULL
              BY <1>4, <2>3, <6>1
            <6> QED BY <1>4, <2>1, <2>5, <2>7, <5>1, <6>2 DEF Block
          <5>2. CASE i = N
            <6>1. At(L, i)' = x /\ Block(x)'
              BY <1>3, <1>6, <2>1, <2>3, <2>7, <5>2
            <6>2. N > 0 => mem[x] = nodes[L][N][2] /\ nodes'[L][N] = nodes[L][N]
              BY <1>3, <2>1, <2>5 DEF Chain
            <6> QED BY <1>6, <2>1, <2>2, <2>7, <5>2, <6>1, <6>2 DEF Block
          <5>3. CASE i < N
            <6>1. i \in 0 .. N /\ i + 1 \in 0 .. N /\ N \in 0 .. N /\ (i > 0 => i \in 1 .. N)
              BY <2>1, <5>3
            <6>2. PICK a : a = At(L, i)
              OBVIOUS
            <6>3. /\ Block(a) /\ a + 1 < MemSize
                  /\ mem[a + 1] = At(L, i + 1) /\ (i > 0 => mem[a] = nodes[L][i][2])
              BY <1>3, <2>1, <5>3, <6>1, <6>2 DEF Chain
            <6>4. a # x /\ a < MemSize
              BY <1>3, <2>1, <5>3, <6>1, <6>2, <6>3, MemSizeAssumption DEF IInv, Apart, Block
            <6>5. Block(a)' /\ mem'[a] = mem[a] /\ mem'[a + 1] = mem[a + 1]
              BY <2>3, <6>3, <6>4
            <6>6. At(L, i)' = a /\ At(L, i + 1)' = At(L, i + 1)
              BY <1>3, <2>1, <2>7, <6>1, <6>2
            <6>7. i > 0 => nodes'[L][i] = nodes[L][i]
              BY <2>5, <6>1
            <6> QED BY <2>1, <5>3, <6>3, <6>5, <6>6, <6>7 DEF Block
          <5> QED BY <2>1, <5>1, <5>2, <5>3
        <4>2. Made(L)'
          BY <1>3, <2>7
        <4> QED BY <2>1, <2>5, <3>2, <4>1, <4>2 DEF Chain
      <3> QED BY <3>1, <3>2
    <2>11. pc'[c] = "return"
      BY <1>2, <1>11, <1>14 DEF Types
    <2>12. LabelOK(c)' /\ NodeOK(c)' /\ WalkOK(c)'
      BY <2>11 DEF LabelOK, NodeOK, WalkOK, Busy, Owns
    <2>13. ASSUME NEW d \in Client, d # c PROVE LabelOK(d)' /\ NodeOK(d)' /\ WalkOK(d)'
      <3>1. LabelOK(d) /\ NodeOK(d) /\ WalkOK(d) /\ PairOK(c, d) /\ Owns(c)
        BY <2>13 DEF IInv, Owns
      <3>2. /\ pc'[d] = pc[d] /\ job'[d] = job[d] /\ node'[d] = node[d]
            /\ pos'[d] = pos[d] /\ left'[d] = left[d]
        BY <1>12, <2>13 DEF OthersSame
      <3>3. LabelOK(d)'
        BY <1>11, <3>1, <3>2 DEF LabelOK, Busy, Made
      <3>4. WalkOK(d)'
        <4>1. Busy(d) => job[d].list \in Lists
          BY <3>1, ListAssumption DEF LabelOK
        <4>2. \A l \in Lists : /\ Len(nodes[l]) \in Nat /\ Len(nodes'[l]) \in Nat
                               /\ Len(nodes[l]) <= Len(nodes'[l])
          <5>1. \A l \in Lists : Len(nodes[l]) \in Nat /\ Len(nodes'[l]) \in Nat
            BY <1>2, <2>4 DEF Types
          <5>2. Len(nodes[L]) <= Len(nodes'[L])
            BY <2>1, <2>5
          <5>3. \A l \in Lists \ {L} : Len(nodes[l]) <= Len(nodes'[l])
            BY <2>4, <5>1
          <5> QED BY <5>1, <5>2, <5>3
        <4>3. ASSUME pc[d] \in {"append", "next", "value"}
              PROVE  \E k \in 0 .. Len(nodes'[job[d].list]) : pos[d] = At(job[d].list, k)'
          <5>1. PICK k \in 0 .. Len(nodes[job[d].list]) : pos[d] = At(job[d].list, k)
            BY <3>1, <4>3 DEF WalkOK
          <5>2. PICK l \in Lists : l = job[d].list
            BY <4>1, <4>3 DEF Busy
          <5>3. k \in 0 .. Len(nodes'[l]) /\ pos[d] = At(l, k)'
            BY <2>7, <4>2, <5>1, <5>2
          <5> QED BY <3>2, <5>2, <5>3 DEF At
        <4>4. ASSUME pc[d] = "follow"
              PROVE  \E k \in 0 .. Len(nodes'[job[d].list]) - 1 : pos[d] = At(job[d].list, k)'
          <5>1. PICK k \in 0 .. Len(nodes[job[d].list]) - 1 : pos[d] = At(job[d].list, k)
            BY <3>1, <4>4 DEF WalkOK
          <5>2. PICK l \in Lists : l = job[d].list
            BY <4>1, <4>4 DEF Busy
          <5>3. k \in 0 .. Len(nodes[l]) /\ k \in 0 .. Len(nodes'[l]) - 1
            BY <4>2, <5>1, <5>2
          <5>4. pos[d] = At(l, k)'
            BY <2>7, <5>1, <5>2, <5>3
          <5> QED BY <3>2, <5>2, <5>3, <5>4 DEF At
        <4> QED BY <3>2, <4>3, <4>4 DEF WalkOK
      <3>5. Owns(d) => Block(node[d]) /\ node[d] # b /\ node[d] # x
        BY <1>1, <1>3, <2>1, <3>1 DEF PairOK, NodeOK
      <3>6. ASSUME Owns(d), NEW l \in Lists, Made(l)', NEW i \in 0 .. Len(nodes'[l])
            PROVE  At(l, i)' # node[d]
        <4>1. CASE i \in 0 .. Len(nodes[l])
          BY <2>7, <3>1, <3>6, <4>1 DEF NodeOK
        <4>2. CASE l = L /\ i = N + 1
          BY <2>7, <3>5, <3>6, <4>2
        <4> QED BY <2>8, <4>1, <4>2
      <3>7. NodeOK(d)'
        BY <2>3, <3>1, <3>2, <3>5, <3>6, NodeKept
      <3> QED BY <3>3, <3>4, <3>7
    <2>14. ASSUME NEW d \in Client, NEW e \in Client, d # e PROVE PairOK(d, e)'
      <3>1. PairOK(d, e)
        BY <2>14 DEF IInv
      <3>2. \A f \in Client : (Owns(f)' => Owns(f)) /\ (Makes(f)' => Makes(f))
        BY <1>11, <1>12, <2>11 DEF Owns, Makes, Busy, OthersSame
      <3> QED BY <1>11, <3>1, <3>2 DEF PairOK
    <2> QED BY <2>6, <2>9, <2>10, <2>12, <2>13, <2>14 DEF IInv
  <1> QED BY <1>13, <1>14

-------------------------------------------------------------------------------
(* Nothing is made and nobody is in a call.                                    *)
LEMMA InitIInv == Init => IInv
  <1> SUFFICES ASSUME Init PROVE IInv
    OBVIOUS
  <1>1. 0 \in Cells /\ mem[0] = 1 /\ mem \in [Cells -> Int]
    BY MemSizeAssumption DEF Init, Cells
  <1>2. \A l \in Lists : root[l] = 0 /\ nodes[l] = <<>>
    BY DEF Init, Unmade
  <1>3. \A c \in Client : pc[c] = "ready"
    BY DEF Init
  <1>4. Types
    <2>1. TypeOK
      BY <1>1, ListAssumption DEF Init, TypeOK, Unmade
    <2>2. pc \in [Client -> Labels] /\ nodes \in [Lists -> Seq(Nat \X Int)]
      BY DEF Init, Labels
    <2> QED BY <2>1, <2>2 DEF Types
  <1>5. Counter
    BY <1>1 DEF Counter
  <1>6. Apart /\ \A l \in Lists : Chain(l)
    BY <1>2 DEF Apart, Chain, Made
  <1>7. \A c \in Client : LabelOK(c) /\ NodeOK(c) /\ WalkOK(c)
    BY <1>3 DEF LabelOK, NodeOK, WalkOK, Busy, Owns
  <1>8. \A c, d \in Client : PairOK(c, d)
    BY <1>3 DEF PairOK, Owns, Makes, Busy
  <1> QED BY <1>4, <1>5, <1>6, <1>7, <1>8 DEF IInv

(* Whatever operation a thread issues.                                         *)
LEMMA OperateKeeps == ASSUME IInv, NEW c \in Client, Operate(c) PROVE IInv'
  <1>1. Types /\ LabelOK(c)
    BY DEF IInv
  <1>2. Busy(c) /\ pc[c] # "queued"
    BY <1>1, OperateFrame
  <1>3. pc[c] \in {"allocRead", "allocCas", "endRoot", "content", "endNode", "append",
                   "follow", "first", "next", "value"}
    BY <1>1, <1>2 DEF LabelOK
  <1>4. CASE pc[c] = "allocRead"
    BY <1>4, AllocReadKeeps
  <1>5. CASE pc[c] = "allocCas"
    BY <1>5, AllocCasKeeps
  <1>6. CASE pc[c] = "endRoot"
    BY <1>6, RootKeeps
  <1>7. CASE pc[c] \in {"content", "endNode"}
    BY <1>7, FillKeeps
  <1>8. CASE pc[c] = "append"
    BY <1>8, AppendKeeps
  <1>9. CASE pc[c] = "follow"
    BY <1>9, FollowKeeps
  <1>10. CASE pc[c] \in {"first", "next", "value"}
    BY <1>10, FetchKeeps
  <1> QED BY <1>3, <1>4, <1>5, <1>6, <1>7, <1>8, <1>9, <1>10

(* IInv is inductive.                                                          *)
LEMMA NextIInv == IInv /\ [Next]_vars => IInv'
  <1> SUFFICES ASSUME IInv, [Next]_vars PROVE IInv'
    OBVIOUS
  <1>1. CASE UNCHANGED vars
    BY <1>1 DEF vars, IInv, Types, TypeOK, Counter, Apart, Chain, LabelOK, NodeOK, WalkOK,
                PairOK, Made, At, Block, Owns, Busy, Makes
  <1>2. ASSUME NEW c \in Client, Call(c) PROVE IInv'
    BY <1>2, CallKeeps
  <1>3. ASSUME NEW c \in Client, Run(c) PROVE IInv'
    BY <1>3, RunKeeps
  <1>4. ASSUME NEW c \in Client, Operate(c) PROVE IInv'
    BY <1>4, OperateKeeps
  <1>5. ASSUME NEW c \in Client, Return(c) \/ Die(c) PROVE IInv'
    BY <1>5, ReturnKeeps
  <1> QED BY <1>1, <1>2, <1>3, <1>4, <1>5 DEF Next, Step

(* IInv holds in every state: threads that race for the counter and for the    *)
(* last link, in the caller and at the server, and threads that die anywhere   *)
(* in makeRoot or List_AddNode, keep the nodes of all lists and those not yet  *)
(* linked apart and whole.                                                     *)
THEOREM ListInvariance == Spec => []IInv
  <1>1. Init => IInv
    BY InitIInv
  <1>2. IInv /\ [Next]_vars => IInv'
    BY NextIInv
  <1> QED BY <1>1, <1>2, PTL DEF Spec

(* Whoever races and whoever dies, from a list's root every link leads to the  *)
(* node that List_AddNode appended next and the last to NULL, and every node   *)
(* has the value it was made with.                                             *)
THEOREM ListsCorrect == Spec => []ListOK
  <1>1. ASSUME IInv PROVE ListOK
    <2>1. TypeOK
      BY <1>1 DEF IInv, Types
    <2>2. ASSUME NEW l \in Lists, root[l] > 0, NEW n \in 0 .. Len(nodes[l])
          PROVE  /\ mem[At(l, n) + 1] = IF n = Len(nodes[l]) THEN NULL ELSE At(l, n + 1)
                 /\ n > 0 => mem[At(l, n)] = nodes[l][n][2]
      <3>1. Chain(l) /\ Made(l) /\ Len(nodes[l]) \in Nat
        BY <1>1, <2>2 DEF IInv, Made, Types
      <3> QED BY <3>1 DEF Chain
    <2> QED BY <2>1, <2>2 DEF ListOK, At
  <1> QED BY <1>1, ListInvariance, PTL

-------------------------------------------------------------------------------
(* The refinement of AppendList.  It needs to know what a get will answer: the *)
(* walk is at node m of its list with n + 1 - m links to follow, or it has     *)
(* reached node n + 1, whose value is the answer whatever is appended later.   *)
GetOK(c) ==
  /\ pc[c] \in {"ready", "dead"} => job[c] = NoJob
  /\ pc[c] = "return" => job[c] \in Jobs
  /\ pc[c] \in {"queued", "first"} /\ job[c].kind = "get" => left[c] = job[c].n
  /\ pc[c] = "next" => \E m \in 1 .. Len(nodes[job[c].list]) :
                         pos[c] = At(job[c].list, m) /\ m + left[c] = job[c].n + 1
  /\ pc[c] = "value" => /\ job[c].n < Len(nodes[job[c].list])
                        /\ pos[c] = At(job[c].list, job[c].n + 1)

Gets == \A c \in Client : GetOK(c)


(* Nodes stay where they are in their list, and lists where they are.          *)
Grows == /\ \A l \in Lists : Made(l) => root'[l] = root[l]
         /\ \A l \in Lists : /\ Len(nodes[l]) \in Nat /\ Len(nodes[l]) <= Len(nodes'[l])
                             /\ \A m \in 1 .. Len(nodes[l]) : nodes'[l][m] = nodes[l][m]

(* Lists only grow at their end, and their roots stay.                         *)
LEMMA StepGrows ==
  ASSUME IInv, NEW c \in Client, Step(c) \/ Die(c)
  PROVE  Grows
  <1>1. /\ nodes \in [Lists -> Seq(Nat \X Int)] /\ root \in [Lists -> Nat \cup {Making}]
        /\ LabelOK(c) /\ Types
    BY DEF IInv, Types, TypeOK
  <1>2. ASSUME nodes' = nodes, \A l \in Lists : Made(l) => root'[l] = root[l] PROVE Grows
    BY <1>1, <1>2 DEF Grows
  <1>3. CASE Call(c)
    <2>1. nodes' = nodes
      BY <1>3 DEF Call
    <2>2. PICK j \in Jobs :
            /\ IF j.kind = "new" THEN root[j.list] = Unmade ELSE root[j.list] > 0
            /\ root' = IF j.kind = "new" THEN [root EXCEPT ![j.list] = Making] ELSE root
      BY <1>3 DEF Call
    <2>3. \A l \in Lists : Made(l) => root'[l] = root[l]
      BY <1>1, <2>2 DEF Made, Unmade
    <2> QED BY <1>2, <2>1, <2>3
  <1>4. CASE Run(c) \/ Return(c) \/ Die(c)
    BY <1>2, <1>4 DEF Run, Return, Die
  <1>5. CASE Operate(c)
    <2>1. CASE pc[c] = "endRoot"
      <3>1. nodes' = nodes
        BY <1>1, <1>5, <2>1, OperateFrame
      <3>2. root[job[c].list] = Making
        BY <1>1, <2>1 DEF LabelOK, Busy
      <3>3. PICK b : root' = root \/ root' = [root EXCEPT ![job[c].list] = b]
        BY <1>5 DEF Operate, Record
      <3>4. \A l \in Lists : Made(l) => root'[l] = root[l]
        BY <1>1, <3>2, <3>3 DEF Made, Making
      <3> QED BY <1>2, <3>1, <3>4
    <2>2. CASE pc[c] = "append"
      <3>1. root' = root
        BY <1>1, <1>5, <2>2, OperateFrame
      <3>2. /\ job[c] \in Jobs /\ job[c].kind = "add"
            /\ job[c].val \in Int /\ job[c].list \in Lists /\ node[c] \in Nat
        BY <1>1, <2>2, ListAssumption DEF LabelOK, Busy, Types, TypeOK
      <3>3. PICK L \in Lists, e \in Nat \X Int : L = job[c].list /\ e = <<node[c], job[c].val>>
        BY <3>2
      <3>4. nodes' = nodes \/ nodes' = [nodes EXCEPT ![L] = Append(@, e)]
        BY <1>5, <3>3 DEF Operate, Record
      <3>5. CASE nodes' = [nodes EXCEPT ![L] = Append(@, e)]
        <4>1. /\ nodes[L] \in Seq(Nat \X Int) /\ nodes'[L] = Append(nodes[L], e)
              /\ \A l \in Lists \ {L} : nodes'[l] = nodes[l]
          BY <1>1, <3>3, <3>5
        <4>2. /\ Len(nodes[L]) \in Nat /\ Len(nodes'[L]) = Len(nodes[L]) + 1
              /\ \A m \in 1 .. Len(nodes[L]) : nodes'[L][m] = nodes[L][m]
          BY <3>3, <4>1
        <4>3. ASSUME NEW l \in Lists
              PROVE  /\ Len(nodes[l]) \in Nat /\ Len(nodes[l]) <= Len(nodes'[l])
                     /\ \A m \in 1 .. Len(nodes[l]) : nodes'[l][m] = nodes[l][m]
          <5>1. CASE l = L
            BY <4>2, <5>1
          <5>2. CASE l # L
            BY <1>1, <4>1, <5>2
          <5> QED BY <5>1, <5>2
        <4> QED BY <3>1, <4>3 DEF Grows
      <3> QED BY <1>2, <3>1, <3>4, <3>5
    <2>3. CASE pc[c] \notin {"endRoot", "append"}
      BY <1>1, <1>2, <1>5, <2>3, OperateFrame
    <2> QED BY <2>1, <2>2, <2>3
  <1> QED BY <1>3, <1>4, <1>5 DEF Step

(* A step of a thread leaves the calls of the others where they are.           *)
OthersStay(c) == OthersSame(c) /\ \A d \in Client \ {c} : result'[d] = result[d]

(* A step of one thread leaves the others where they are.                      *)
LEMMA StepStays ==
  ASSUME IInv, NEW c \in Client, Step(c) \/ Die(c)
  PROVE  OthersStay(c)
  <1>1. /\ pc \in [Client -> Labels] /\ job \in [Client -> Jobs \cup {NoJob}]
        /\ node \in [Client -> Nat] /\ pos \in [Client -> Nat \cup {NULL}]
        /\ left \in [Client -> Nat] /\ result \in [Client -> Int]
    BY DEF IInv, Types, TypeOK
  <1>2. CASE Call(c)
    BY <1>1, <1>2 DEF Call, Goto, OthersStay, OthersSame
  <1>3. CASE Run(c) \/ Return(c) \/ Die(c)
    BY <1>1, <1>3 DEF Run, Return, Die, Goto, OthersStay, OthersSame
  <1>4. CASE Operate(c)
    <2>1. job' = job
      BY <1>4 DEF Operate
    <2>2. ASSUME NEW res, AfterAlloc(c, res) \/ AfterFill(c) \/ AfterAppend(c, res)
          PROVE  OthersStay(c)
      BY <1>1, <2>1, <2>2
      DEF AfterAlloc, AfterFill, AfterAppend, Goto, Keep, Returns, OthersStay, OthersSame
    <2>3. ASSUME NEW res, AfterFetch(c, res) PROVE OthersStay(c)
      BY <1>1, <2>1, <2>3 DEF AfterFetch, Reached, Goto, Returns, OthersStay, OthersSame
    <2>4. ASSUME Returns(c, Exception), UNCHANGED <<node, pos, left>> PROVE OthersStay(c)
      BY <1>1, <2>1, <2>4 DEF Goto, Returns, OthersStay, OthersSame
    <2> QED BY <1>4, <2>2, <2>3, <2>4 DEF Operate
  <1> QED BY <1>2, <1>3, <1>4 DEF Step

(* What is known of a get stays true while others go on.                       *)
LEMMA GetKept ==
  ASSUME IInv, Grows, NEW d \in Client, GetOK(d),
         pc'[d] = pc[d], job'[d] = job[d], pos'[d] = pos[d], left'[d] = left[d]
  PROVE  GetOK(d)'
  <1>1. PICK l : l = job[d].list
    OBVIOUS
  <1>2. pc[d] \in {"next", "value"} => l \in Lists /\ Made(l) /\ job[d].n \in Nat
    BY <1>1, ListAssumption DEF IInv, LabelOK, Busy
  <1>3. pc[d] \in {"next", "value"} =>
          \A m \in 1 .. Len(nodes[l]) : m \in 1 .. Len(nodes'[l]) /\ At(l, m)' = At(l, m)
    <2> SUFFICES ASSUME pc[d] \in {"next", "value"}, NEW m \in 1 .. Len(nodes[l])
                 PROVE  m \in 1 .. Len(nodes'[l]) /\ At(l, m)' = At(l, m)
      OBVIOUS
    <2>1. /\ root'[l] = root[l] /\ Len(nodes[l]) \in Nat /\ Len(nodes[l]) <= Len(nodes'[l])
          /\ nodes'[l][m] = nodes[l][m]
      BY <1>2 DEF Grows
    <2> QED BY <2>1 DEF At
  <1>4. pc[d] = "next" => \E m \in 1 .. Len(nodes'[l]) :
                            pos'[d] = At(l, m)' /\ m + left'[d] = job'[d].n + 1
    BY <1>1, <1>3 DEF GetOK
  <1>5. pc[d] = "value" => job[d].n < Len(nodes'[l]) /\ pos'[d] = At(l, job[d].n + 1)'
    <2> SUFFICES ASSUME pc[d] = "value"
                 PROVE  job[d].n < Len(nodes'[l]) /\ pos'[d] = At(l, job[d].n + 1)'
      OBVIOUS
    <2>1. job[d].n < Len(nodes[l]) /\ pos[d] = At(l, job[d].n + 1) /\ Len(nodes[l]) \in Nat
      BY <1>1, <1>2 DEF GetOK, Grows
    <2>2. job[d].n + 1 \in 1 .. Len(nodes[l])
      BY <1>2, <2>1
    <2>3. PICK m \in 1 .. Len(nodes[l]) : m = job[d].n + 1
      BY <2>2
    <2>4. m \in 1 .. Len(nodes'[l]) /\ At(l, m)' = At(l, m)
      BY <1>3
    <2> QED BY <1>2, <2>1, <2>3, <2>4 DEF At
  <1> QED BY <1>1, <1>4, <1>5 DEF GetOK


(* The walk of a get: what it finds at the end of a link, and where it goes.   *)
Answer(c) == LET s == nodes[job[c].list] IN
             IF job[c].n < Len(s) THEN s[job[c].n + 1][2] ELSE NULL

(* A get walks along its list, one node for each element it skips.             *)
LEMMA WalkStep ==
  ASSUME IInv, Gets, NEW c \in Client, Operate(c), pc[c] \in {"first", "next"}
  PROVE  /\ mem' = mem /\ nodes' = nodes /\ root' = root
         /\ pc'[c] \in {"next", "value", "return"} /\ GetOK(c)'
         /\ pc'[c] = "return" => result'[c] = NULL /\ Answer(c) = NULL
  <1>1. PICK L, n : L = job[c].list /\ n = job[c].n
    OBVIOUS
  <1>2. Types /\ LabelOK(c) /\ WalkOK(c) /\ GetOK(c)
    BY DEF IInv, Gets
  <1>3. /\ job[c] \in Jobs /\ job[c].kind = "get" /\ n \in Nat /\ L \in Lists
        /\ Made(L) /\ Chain(L) /\ nodes[L] \in Seq(Nat \X Int) /\ Len(nodes[L]) \in Nat
    BY <1>1, <1>2, ListAssumption DEF IInv, LabelOK, Busy, Types
  <1>4. /\ nodes' = nodes /\ root' = root /\ job' = job /\ mem' = Effect(OpOf(c), mem)
    BY <1>2, OperateFrame
  <1>5. PICK m \in 0 .. Len(nodes[L]), k \in Nat :
          /\ m + k = n /\ OpOf(c) = Read(At(L, m) + 1, 1)
          /\ AfterFetch(c, Outcome(OpOf(c), mem)) =>
               Reached(c, Outcome(OpOf(c), mem).result[1], k)
    <2>1. CASE pc[c] = "first"
      <3>1. left[c] = n /\ OpOf(c) = Read(At(L, 0) + 1, 1)
        BY <1>1, <1>2, <1>3, <2>1 DEF GetOK, OpOf, At
      <3> QED BY <1>3, <2>1, <3>1 DEF AfterFetch
    <2>2. CASE pc[c] = "next"
      <3>1. PICK m \in 1 .. Len(nodes[L]) : pos[c] = At(L, m) /\ m + left[c] = n + 1
        BY <1>1, <1>2, <2>2 DEF GetOK
      <3>2. left[c] \in Nat /\ left[c] > 0
        BY <1>2, <2>2 DEF LabelOK, Types, TypeOK
      <3>3. left[c] - 1 \in Nat /\ m + (left[c] - 1) = n /\ m \in 0 .. Len(nodes[L])
        <4>1. left[c] - 1 \in Nat
          BY <3>2
        <4>2. m \in Nat /\ m \in 0 .. Len(nodes[L])
          BY <1>3, <3>1
        <4>3. m + (left[c] - 1) = n
          <5>1. PICK i \in Nat : i = left[c]
            BY <3>2
          <5>2. m + i = n + 1 /\ n \in Nat /\ m \in Nat
            BY <1>3, <3>1, <4>2, <5>1
          <5>3. m + (i - 1) = n
            BY <5>2
          <5> QED BY <5>1, <5>3
        <4> QED BY <4>1, <4>2, <4>3
      <3>4. OpOf(c) = Read(At(L, m) + 1, 1)
        BY <2>2, <3>1 DEF OpOf
      <3> QED BY <2>2, <3>3, <3>4 DEF AfterFetch
    <2> QED BY <2>1, <2>2
  <1>6. PICK a \in Nat : a = At(L, m)
    BY <1>3 DEF Chain, Block
  <1>7. /\ a + 1 < MemSize
        /\ m = Len(nodes[L]) => mem[a + 1] = NULL
        /\ m < Len(nodes[L]) => mem[a + 1] = At(L, m + 1)
    BY <1>3, <1>6 DEF Chain
  <1>8. mem' = mem /\ Outcome(OpOf(c), mem).error = "OK" /\ Outcome(OpOf(c), mem).result[1] = mem[a + 1]
    <2>1. a + 1 \in Nat /\ OpOf(c) = Read(a + 1, 1)
      BY <1>5, <1>6
    <2> QED BY <1>4, <1>7, <2>1, ReadOne
  <1>9. Reached(c, mem[a + 1], k)
    BY <1>5, <1>8 DEF Operate, AfterAlloc, AfterFill, AfterAppend
  <1>10. /\ pos \in [Client -> Nat \cup {NULL}] /\ left \in [Client -> Nat]
         /\ pc \in [Client -> Labels] /\ result \in [Client -> Int]
    BY <1>2 DEF Types, TypeOK
  <1>11. pos'[c] = mem[a + 1] /\ left'[c] = k
    BY <1>9, <1>10 DEF Reached
  <1>12. CASE m = Len(nodes[L])
    <2>1. mem[a + 1] = NULL
      BY <1>7, <1>12
    <2>2. pc'[c] = "return" /\ result'[c] = NULL
      BY <1>9, <1>10, <2>1 DEF Reached, Returns, Goto
    <2>3. ~(n < Len(nodes[L]))
      BY <1>3, <1>5, <1>12
    <2>4. Answer(c) = NULL
      BY <1>1, <2>3 DEF Answer
    <2> QED BY <1>3, <1>4, <1>8, <2>2, <2>4 DEF GetOK
  <1>13. CASE m < Len(nodes[L])
    <2>1. m + 1 \in 1 .. Len(nodes[L]) /\ m + 1 \in 0 .. Len(nodes[L])
      BY <1>3, <1>5, <1>13
    <2>2. mem[a + 1] = At(L, m + 1) /\ At(L, m + 1) \in Nat
      BY <1>3, <1>7, <1>13, <2>1 DEF Chain, Block
    <2>3. pc'[c] = IF k > 0 THEN "next" ELSE "value"
      BY <1>9, <1>10, <2>2 DEF Reached, Goto, NULL
    <2>4. At(L, m + 1)' = At(L, m + 1) /\ pos'[c] = At(L, m + 1)
      BY <1>4, <1>11, <2>2 DEF At
    <2>5. GetOK(c)'
      <3>1. CASE k > 0
        BY <1>1, <1>3, <1>4, <1>5, <1>11, <2>1, <2>3, <2>4, <3>1 DEF GetOK
      <3>2. CASE k = 0
        <4>1. m = n
          BY <1>3, <1>5, <3>2
        <4> QED BY <1>1, <1>3, <1>4, <1>13, <2>3, <2>4, <3>2, <4>1 DEF GetOK
      <3> QED BY <1>5, <3>1, <3>2
    <2> QED BY <1>4, <1>8, <2>3, <2>5
  <1> QED BY <1>3, <1>5, <1>12, <1>13

(* At its value a get knows its answer: node n + 1 stays in place.             *)
LEMMA AnswerKnown ==
  ASSUME IInv, Gets, NEW c \in Client, pc[c] = "value"
  PROVE  /\ job[c] \in Jobs /\ job[c].kind = "get" /\ pos[c] \in Nat /\ pos[c] < MemSize
         /\ mem[pos[c]] = Answer(c) /\ mem[pos[c]] = nodes[job[c].list][job[c].n + 1][2]
  <1>1. PICK L, n : L = job[c].list /\ n = job[c].n
    OBVIOUS
  <1>2. Types /\ LabelOK(c) /\ GetOK(c)
    BY DEF IInv, Gets
  <1>3. /\ job[c] \in Jobs /\ job[c].kind = "get" /\ n \in Nat /\ L \in Lists
        /\ Made(L) /\ Chain(L) /\ Len(nodes[L]) \in Nat
    BY <1>1, <1>2, ListAssumption DEF IInv, LabelOK, Busy, Types
  <1>4. n < Len(nodes[L]) /\ pos[c] = At(L, n + 1)
    BY <1>1, <1>2 DEF GetOK
  <1>5. n + 1 \in 0 .. Len(nodes[L]) /\ n + 1 > 0
    BY <1>3, <1>4
  <1>6. /\ Block(At(L, n + 1)) /\ At(L, n + 1) + 1 < MemSize
        /\ mem[At(L, n + 1)] = nodes[L][n + 1][2]
    BY <1>3, <1>5 DEF Chain
  <1>7. pos[c] \in Nat /\ pos[c] < MemSize
    BY <1>4, <1>6, MemSizeAssumption DEF Block
  <1> QED BY <1>1, <1>3, <1>4, <1>6, <1>7 DEF Answer

(* What a get reads at the end of its walk is the element it asked for.        *)
LEMMA ValueStep ==
  ASSUME IInv, Gets, NEW c \in Client, Operate(c), pc[c] = "value"
  PROVE  /\ mem' = mem /\ nodes' = nodes /\ job' = job /\ pc'[c] = "return"
         /\ result'[c] = mem[pos[c]] /\ GetOK(c)'
  <1>1. Types
    BY DEF IInv
  <1>2. OpOf(c) = Read(pos[c], 1) /\ pos[c] \in Nat /\ pos[c] < MemSize /\ job[c] \in Jobs
    BY AnswerKnown DEF OpOf
  <1>3. /\ mem' = mem /\ nodes' = nodes /\ job' = job
        /\ Outcome(OpOf(c), mem).error = "OK" /\ Outcome(OpOf(c), mem).result[1] = mem[pos[c]]
    BY <1>1, <1>2, ReadOne, OperateFrame
  <1>4. Returns(c, mem[pos[c]])
    BY <1>3 DEF Operate, AfterAlloc, AfterFill, AfterAppend, AfterFetch
  <1>5. pc'[c] = "return" /\ result'[c] = mem[pos[c]]
    BY <1>1, <1>4 DEF Returns, Goto, Types, TypeOK
  <1> QED BY <1>2, <1>3, <1>5 DEF GetOK


(* The CAS of an append links the node exactly when the call returns its       *)
(* address.                                                                    *)
LEMMA AppendStep ==
  ASSUME IInv, NEW c \in Client, Operate(c), pc[c] = "append"
  PROVE  /\ job' = job /\ job[c] \in Jobs /\ job[c].kind = "add"
         /\ \/ pc'[c] \in {"follow", "return"} /\ nodes' = nodes
            \/ /\ pc'[c] = "return"
               /\ nodes' = [nodes EXCEPT ![job[c].list] = Append(@, <<node[c], job[c].val>>)]
  <1>1. Types /\ LabelOK(c) /\ pc \in [Client -> Labels]
    BY DEF IInv, Types
  <1>2. job' = job /\ job[c] \in Jobs /\ job[c].kind = "add"
    BY <1>1, OperateFrame DEF LabelOK, Busy
  <1>3. pos[c] \in Nat \cup {-1}
    BY <1>1 DEF Types, TypeOK, NULL
  <1>4. PICK a \in Nat, v \in {node[c]} : a = pos[c] + 1 /\ v = node[c]
    BY <1>3
  <1>5. OpOf(c) = Cas(a, NULL, v)
    BY <1>4 DEF OpOf
  <1>6. CASE Outcome(OpOf(c), mem).error # "OK"
    <2>1. pc'[c] = "return"
      BY <1>1, <1>6 DEF Operate, Returns, Goto
    <2>2. ~InBounds(OpOf(c))
      BY <1>6 DEF Outcome, Ok
    <2> QED BY <1>2, <2>1, <2>2 DEF Operate, Record, Swaps
  <1>7. CASE Outcome(OpOf(c), mem).error = "OK"
    <2>1. Outcome(OpOf(c), mem).result[1] # 0 <=> Swaps(OpOf(c), mem)
      BY <1>5, <1>7, CasOne
    <2>2. pc'[c] = IF Swaps(OpOf(c), mem) THEN "return" ELSE "follow"
      BY <1>1, <1>7, <2>1
      DEF Operate, AfterAlloc, AfterFill, AfterAppend, AfterFetch, Returns, Goto
    <2>3. nodes' = IF Swaps(OpOf(c), mem)
                   THEN [nodes EXCEPT ![job[c].list] = Append(@, <<node[c], job[c].val>>)]
                   ELSE nodes
      BY DEF Operate, Record
    <2> QED BY <1>2, <2>2, <2>3
  <1> QED BY <1>6, <1>7

(* The other operations of a constructor or an add: they end in an exception   *)
(* or lead on to the next one, and no list changes.                            *)
LEMMA FillStep ==
  ASSUME IInv, NEW c \in Client, Operate(c),
         pc[c] \in {"allocRead", "allocCas", "endRoot", "content", "endNode", "follow"}
  PROVE  /\ job' = job /\ job[c] \in Jobs /\ job[c].kind \in {"new", "add"} /\ nodes' = nodes
         /\ pc'[c] \in {"allocRead", "allocCas", "endRoot", "content", "endNode", "append",
                        "return"}
  <1>1. Types /\ LabelOK(c) /\ pc \in [Client -> Labels]
    BY DEF IInv, Types
  <1>2. job' = job /\ job[c] \in Jobs /\ job[c].kind \in {"new", "add"} /\ nodes' = nodes
    BY <1>1, OperateFrame DEF LabelOK, Busy
  <1>3. PICK lab \in {"allocRead", "allocCas", "endRoot", "content", "endNode", "append",
                      "return"} : Goto(c, lab)
    BY DEF Operate, AfterAlloc, AfterFill, AfterAppend, AfterFetch, Returns
  <1>4. pc'[c] = lab
    BY <1>1, <1>3 DEF Goto
  <1> QED BY <1>2, <1>4

(* A call of a thread that is not at its value has not got its answer.         *)
LEMMA GetsStep ==
  ASSUME IInv, Gets, NEW c \in Client, Step(c) \/ Die(c)
  PROVE  Gets'
  <1>1. Grows /\ OthersStay(c)
    BY StepGrows, StepStays
  <1>2. ASSUME NEW d \in Client, d # c PROVE GetOK(d)'
    BY <1>1, <1>2, GetKept DEF Gets, OthersStay, OthersSame
  <1>3. /\ Types /\ LabelOK(c) /\ GetOK(c) /\ pc \in [Client -> Labels]
        /\ job \in [Client -> Jobs \cup {NoJob}] /\ left \in [Client -> Nat]
    BY DEF IInv, Gets, Types, TypeOK
  <1>4. ASSUME Call(c) PROVE GetOK(c)'
    <2>1. PICK j \in Jobs :
            /\ job' = [job EXCEPT ![c] = j]
            /\ Goto(c, IF j.kind # "new" /\ j.list \in ActiveLists THEN "queued" ELSE FirstLabel(j))
            /\ left' = [left EXCEPT ![c] = IF j.kind = "get" THEN j.n ELSE 0]
      BY <1>4 DEF Call
    <2>2. /\ job'[c] = j /\ left'[c] = IF j.kind = "get" THEN j.n ELSE 0
          /\ pc'[c] \in {"queued", "first", "allocRead"}
      BY <1>3, <2>1 DEF Goto, FirstLabel
    <2> QED BY <2>2 DEF GetOK
  <1>5. ASSUME Run(c) PROVE GetOK(c)'
    <2>1. /\ pc[c] = "queued" /\ pc'[c] \in {"first", "allocRead"}
          /\ job' = job /\ left' = left
      BY <1>3, <1>5 DEF Run, Goto, FirstLabel
    <2> QED BY <1>3, <2>1 DEF GetOK
  <1>6. ASSUME Return(c) \/ Die(c) PROVE GetOK(c)'
    <2>1. pc'[c] \in {"ready", "dead"} /\ job'[c] = NoJob
      BY <1>3, <1>6 DEF Return, Die, Goto
    <2> QED BY <2>1 DEF GetOK
  <1>7. ASSUME Operate(c) PROVE GetOK(c)'
    <2>1. pc[c] \in Labels \ {"ready", "queued", "return", "dead"}
      BY <1>3, <1>7 DEF Operate, Waiting
    <2>2. CASE pc[c] \in {"first", "next"}
      BY <1>7, <2>2, WalkStep
    <2>3. CASE pc[c] = "value"
      BY <1>7, <2>3, ValueStep
    <2>4. CASE pc[c] = "append"
      <3>1. pc'[c] \in {"follow", "return"} /\ job'[c] \in Jobs
        BY <1>7, <2>4, AppendStep
      <3> QED BY <3>1 DEF GetOK
    <2>5. CASE pc[c] \in {"allocRead", "allocCas", "endRoot", "content", "endNode", "follow"}
      <3>1. /\ job'[c] \in Jobs
            /\ pc'[c] \in {"allocRead", "allocCas", "endRoot", "content", "endNode", "append",
                           "return"}
        BY <1>7, <2>5, FillStep
      <3> QED BY <3>1 DEF GetOK
    <2> QED BY <2>1, <2>2, <2>3, <2>4, <2>5 DEF Labels
  <1>8. GetOK(c)'
    BY <1>4, <1>5, <1>6, <1>7 DEF Step
  <1> QED BY <1>2, <1>8 DEF Gets


-------------------------------------------------------------------------------
(* What AppendList sees, by its own names.                                     *)
Items == [l \in Lists |-> [n \in 1 .. Len(nodes[l]) |-> nodes[l][n][2]]]
Phase == [c \in Client |-> IF pc[c] = "dead" THEN "dead"
                           ELSE IF job[c] = NoJob THEN "idle"
                           ELSE IF pc[c] \in {"value", "return"} THEN "done"
                           ELSE "called"]
Reply == [c \in Client |-> IF job[c].kind # "get" \/ pc[c] \notin {"value", "return"} THEN 0
                           ELSE IF pc[c] = "value" THEN mem[pos[c]] ELSE result[c]]

(* Doing nothing is not a job.                                                 *)
LEMMA NoJobIsNone == NoJob \notin Jobs /\ NoJob.kind = "none"
  BY ListAssumption DEF NoJob

Phases ==
  \A c \in Client :
    /\ pc[c] = "dead" => Phase[c] = "dead" /\ Reply[c] = 0
    /\ pc[c] = "ready" => Phase[c] = "idle" /\ Reply[c] = 0
    /\ pc[c] \in {"value", "return"} =>
         /\ Phase[c] = "done" /\ job[c] \in Jobs
         /\ job[c].kind # "get" => Reply[c] = 0
         /\ job[c].kind = "get" => Reply[c] = IF pc[c] = "value" THEN mem[pos[c]] ELSE result[c]
    /\ pc[c] \notin {"dead", "ready", "value", "return"} =>
         Phase[c] = "called" /\ Reply[c] = 0 /\ job[c] \in Jobs

(* The phase of a call is read off its label.                                  *)
LEMMA PhaseAt == IInv /\ Gets => Phases
  <1> SUFFICES ASSUME IInv, Gets PROVE Phases
    OBVIOUS
  <1>1. \A c \in Client : LabelOK(c) /\ GetOK(c)
    BY DEF IInv, Gets
  <1>2. \A c \in Client : pc[c] \notin {"dead", "ready"} => job[c] \in Jobs /\ job[c] # NoJob
    BY <1>1, NoJobIsNone DEF LabelOK, GetOK, Busy
  <1>3. \A c \in Client : pc[c] \in {"dead", "ready"} => job[c] = NoJob
    BY <1>1 DEF GetOK
  <1> QED BY <1>2, <1>3, NoJobIsNone DEF Phases, Phase, Reply

(* The same after a step.                                                      *)
LEMMA PhaseNext == IInv' /\ Gets' => Phases'
  BY PhaseAt, PTL

Known == \A c \in Client : pc[c] = "value" =>
           mem[pos[c]] = nodes[job[c].list][job[c].n + 1][2]

(* A get that has arrived is at the element it asked for.                      *)
LEMMA Answers == IInv /\ Gets => Known
  BY AnswerKnown DEF Known

(* The same after a step.                                                      *)
LEMMA AnswersNext == IInv' /\ Gets' => Known'
  BY Answers, PTL

(* ... and that element exists.                                                *)
LEMMA Places ==
  IInv /\ Gets =>
    \A c \in Client : pc[c] = "value" =>
      job[c].list \in Lists /\ job[c].n + 1 \in 1 .. Len(nodes[job[c].list])
  <1> SUFFICES ASSUME IInv, Gets, NEW c \in Client, pc[c] = "value"
               PROVE  job[c].list \in Lists /\ job[c].n + 1 \in 1 .. Len(nodes[job[c].list])
    OBVIOUS
  <1>1. LabelOK(c) /\ GetOK(c) /\ nodes \in [Lists -> Seq(Nat \X Int)]
    BY DEF IInv, Gets, Types
  <1>2. job[c].list \in Lists /\ job[c].n \in Nat
    BY <1>1, ListAssumption DEF LabelOK, Busy
  <1>3. Len(nodes[job[c].list]) \in Nat /\ job[c].n < Len(nodes[job[c].list])
    BY <1>1, <1>2 DEF GetOK
  <1> QED BY <1>2, <1>3

(* A step of c is seen at c only: the answer that another thread is about to   *)
(* read does not change.                                                       *)
LEMMA SeenAtC ==
  ASSUME IInv, Gets, IInv', Gets', NEW c \in Client, Step(c) \/ Die(c), NEW p, NEW r,
         Phase'[c] = p, Reply'[c] = r
  PROVE  Phase' = [Phase EXCEPT ![c] = p] /\ Reply' = [Reply EXCEPT ![c] = r]
  <1>1. Grows /\ OthersStay(c)
    BY StepGrows, StepStays
  <1>2. ASSUME NEW d \in Client, d # c PROVE Phase'[d] = Phase[d] /\ Reply'[d] = Reply[d]
    <2>1. /\ pc'[d] = pc[d] /\ job'[d] = job[d] /\ result'[d] = result[d]
      BY <1>1, <1>2 DEF OthersStay, OthersSame
    <2>2. pc[d] = "value" => mem'[pos'[d]] = mem[pos[d]]
      <3> SUFFICES ASSUME pc[d] = "value" PROVE mem'[pos'[d]] = mem[pos[d]]
        OBVIOUS
      <3>1. PICK L, n : L = job[d].list /\ n = job[d].n
        OBVIOUS
      <3>2. mem[pos[d]] = nodes[L][n + 1][2] /\ L \in Lists /\ n + 1 \in 1 .. Len(nodes[L])
        BY <3>1, Answers, Places DEF Known
      <3>3. mem'[pos'[d]] = nodes'[L][n + 1][2]
        BY <2>1, <3>1, AnswersNext DEF Known
      <3>4. nodes'[L][n + 1] = nodes[L][n + 1]
        BY <1>1, <3>2 DEF Grows
      <3> QED BY <3>2, <3>3, <3>4
    <2> QED BY <2>1, <2>2 DEF Phase, Reply
  <1>3. /\ Phase = [d \in Client |-> Phase[d]] /\ Phase' = [d \in Client |-> Phase'[d]]
        /\ Reply = [d \in Client |-> Reply[d]] /\ Reply' = [d \in Client |-> Reply'[d]]
    BY DEF Phase, Reply
  <1> QED BY <1>2, <1>3

(* The sequences change with the nodes only.                                   *)
LEMMA ItemsSame == nodes' = nodes => Items' = Items
  BY DEF Items


(* The sequences are the values of the nodes.                                  *)
LEMMA ItemsAt ==
  ASSUME IInv, NEW L \in Lists
  PROVE  /\ Items[L] \in Seq(Int) /\ Len(Items[L]) = Len(nodes[L]) /\ Len(nodes[L]) \in Nat
         /\ \A n \in 1 .. Len(nodes[L]) : Items[L][n] = nodes[L][n][2]
  <1>1. nodes[L] \in Seq(Nat \X Int) /\ Len(nodes[L]) \in Nat
    BY DEF IInv, Types
  <1>2. \A n \in 1 .. Len(nodes[L]) : nodes[L][n][2] \in Int
    BY <1>1
  <1>3. Items[L] = [n \in 1 .. Len(nodes[L]) |-> nodes[L][n][2]]
    BY DEF Items
  <1> QED BY <1>1, <1>2, <1>3

(* Steps that AppendList does not see, and calls that have no effect.          *)
LEMMA Unseen ==
  ASSUME IInv, Gets, IInv', Gets', NEW c \in Client, Step(c) \/ Die(c),
         Phase'[c] = Phase[c], Reply'[c] = Reply[c], nodes' = nodes, job' = job
  PROVE  UNCHANGED <<Items, Phase, job, Reply>>
  <1>1. PICK p, r : p = Phase[c] /\ r = Reply[c]
    OBVIOUS
  <1>2. Phase' = [Phase EXCEPT ![c] = p] /\ Reply' = [Reply EXCEPT ![c] = r]
    BY <1>1, SeenAtC
  <1>3. Phase' = Phase /\ Reply' = Reply
    <2>1. Phase = [d \in Client |-> Phase[d]] /\ Reply = [d \in Client |-> Reply[d]]
      BY DEF Phase, Reply
    <2> QED BY <1>1, <1>2, <2>1
  <1> QED BY <1>3, ItemsSame

(* A making or an add that ends without a change did nothing to the sequences. *)
LEMMA Ineffective ==
  ASSUME IInv, Gets, IInv', Gets', NEW c \in Client, Step(c) \/ Die(c),
         job[c].kind # "get", Phase[c] = "called", Phase'[c] = "done", Reply'[c] = 0,
         nodes' = nodes, job' = job
  PROVE  Seqs!NoEffect(c)
  <1>1. Phase' = [Phase EXCEPT ![c] = "done"] /\ Reply' = [Reply EXCEPT ![c] = 0]
    BY SeenAtC
  <1> QED BY <1>1, ItemsSame DEF Seqs!NoEffect, Seqs!Done, Items, Phase, Reply

(* A get takes effect when it knows its answer.                                *)
LEMMA Effective ==
  ASSUME IInv, Gets, IInv', Gets', NEW c \in Client, Step(c) \/ Die(c), job[c] \in Jobs,
         job[c].kind = "get", Phase[c] = "called", Phase'[c] = "done",
         Reply'[c] = Answer(c), nodes' = nodes, job' = job
  PROVE  Seqs!Get(c)
  <1>1. PICK a, L, n : a = Answer(c) /\ L = job[c].list /\ n = job[c].n
    OBVIOUS
  <1>2. Phase' = [Phase EXCEPT ![c] = "done"] /\ Reply' = [Reply EXCEPT ![c] = a]
    BY <1>1, SeenAtC
  <1>3. L \in Lists /\ n \in Nat
    BY <1>1, ListAssumption
  <1>4. a = IF n < Len(Items[L]) THEN Items[L][n + 1] ELSE Seqs!NULL
    <2>1. Seqs!NULL = NULL
      BY DEF Seqs!NULL, NULL
    <2>2. n < Len(nodes[L]) => n + 1 \in 1 .. Len(nodes[L])
      BY <1>3, ItemsAt
    <2> QED BY <1>1, <1>3, <2>1, <2>2, ItemsAt DEF Answer
  <1>5. a = IF job[c].n < Len(Items[job[c].list])
            THEN Items[job[c].list][job[c].n + 1] ELSE Seqs!NULL
    BY <1>1, <1>4
  <1>6. Seqs!Done(c, IF job[c].n < Len(Items[job[c].list])
                     THEN Items[job[c].list][job[c].n + 1] ELSE Seqs!NULL)
    BY <1>2, <1>5 DEF Seqs!Done, Phase, Reply
  <1> QED BY <1>6, ItemsSame DEF Seqs!Get, Items

(* A call begins for the sequences as it begins in the program.                *)
LEMMA CallIsCall ==
  ASSUME IInv, Gets, IInv', Gets', NEW c \in Client, Call(c)
  PROVE  Seqs!Call(c)
  <1>1. /\ pc[c] = "ready" /\ nodes' = nodes
        /\ \E j \in Jobs : job' = [job EXCEPT ![c] = j]
        /\ pc'[c] \in {"queued", "first", "allocRead"}
    BY DEF Call, Goto, FirstLabel, IInv, Types
  <1>2. Phase[c] = "idle" /\ Reply[c] = 0 /\ Phase'[c] = "called" /\ Reply'[c] = 0
    BY <1>1, PhaseAt, PhaseNext DEF Phases
  <1>3. Phase' = [Phase EXCEPT ![c] = "called"] /\ Reply' = [Reply EXCEPT ![c] = 0]
    BY <1>2, SeenAtC DEF Step
  <1>4. Reply' = Reply
    <2>1. Reply = [d \in Client |-> Reply[d]]
      BY DEF Reply
    <2> QED BY <1>2, <1>3, <2>1
  <1> QED BY <1>1, <1>2, <1>3, <1>4, ItemsSame DEF Seqs!Call, Items, Phase, Reply

(* So do returns and deaths.                                                   *)
LEMMA ReturnIsReturn ==
  ASSUME IInv, Gets, IInv', Gets', NEW c \in Client, Return(c) \/ Die(c)
  PROVE  IF Return(c) THEN Seqs!Return(c) ELSE Seqs!Die(c)
  <1>1. /\ nodes' = nodes /\ job' = [job EXCEPT ![c] = NoJob] /\ Seqs!NoJob = NoJob
        /\ Return(c) => pc[c] = "return" /\ pc'[c] = "ready"
        /\ ~Return(c) => pc'[c] = "dead"
    BY DEF Return, Die, Goto, IInv, Types, Seqs!NoJob, NoJob
  <1>2. PICK p : p = IF Return(c) THEN "idle" ELSE "dead"
    OBVIOUS
  <1>3. (Return(c) => Phase[c] = "done") /\ Phase'[c] = p /\ Reply'[c] = 0
    BY <1>1, <1>2, PhaseAt, PhaseNext DEF Phases
  <1>4. Phase' = [Phase EXCEPT ![c] = p] /\ Reply' = [Reply EXCEPT ![c] = 0]
    BY <1>3, SeenAtC DEF Step
  <1> QED BY <1>1, <1>2, <1>3, <1>4, ItemsSame
          DEF Seqs!Return, Seqs!Die, Items, Phase, Reply

(* The CAS on the last link appends one element, or changes nothing.           *)
LEMMA AppendIsAdd ==
  ASSUME IInv, Gets, IInv', Gets', NEW c \in Client, Operate(c), pc[c] = "append"
  PROVE  Seqs!Add(c) \/ Seqs!NoEffect(c) \/ UNCHANGED <<Items, Phase, job, Reply>>
  <1>1. /\ job' = job /\ job[c] \in Jobs /\ job[c].kind = "add"
        /\ \/ pc'[c] \in {"follow", "return"} /\ nodes' = nodes
           \/ /\ pc'[c] = "return"
              /\ nodes' = [nodes EXCEPT ![job[c].list] = Append(@, <<node[c], job[c].val>>)]
    BY AppendStep
  <1>2. Phase[c] = "called" /\ Reply[c] = 0 /\ Step(c)
    BY PhaseAt DEF Phases, Step
  <1>3. CASE pc'[c] = "follow" /\ nodes' = nodes
    <2>1. Phase'[c] = "called" /\ Reply'[c] = 0
      BY <1>3, PhaseNext DEF Phases
    <2> QED BY <1>1, <1>2, <1>3, <2>1, Unseen
  <1>4. CASE pc'[c] = "return" /\ nodes' = nodes
    <2>1. Phase'[c] = "done" /\ Reply'[c] = 0
      BY <1>1, <1>4, PhaseNext DEF Phases
    <2> QED BY <1>1, <1>2, <1>4, <2>1, Ineffective
  <1>5. CASE pc'[c] = "return"
             /\ nodes' = [nodes EXCEPT ![job[c].list] = Append(@, <<node[c], job[c].val>>)]
    <2>1. Phase'[c] = "done" /\ Reply'[c] = 0
      BY <1>1, <1>5, PhaseNext DEF Phases
    <2>2. Phase' = [Phase EXCEPT ![c] = "done"] /\ Reply' = [Reply EXCEPT ![c] = 0]
      BY <1>2, <2>1, SeenAtC
    <2>3. PICK L, v, a : L = job[c].list /\ v = job[c].val /\ a = node[c]
      OBVIOUS
    <2>4. /\ L \in Lists /\ v \in Int /\ a \in Nat /\ nodes \in [Lists -> Seq(Nat \X Int)]
      <3>1. L \in Lists /\ v \in Int
        BY <1>1, <2>3, ListAssumption
      <3>2. a \in Nat /\ nodes \in [Lists -> Seq(Nat \X Int)]
        BY <2>3 DEF IInv, Types, TypeOK
      <3> QED BY <3>1, <3>2
    <2>5. PICK e \in Nat \X Int : e = <<a, v>> /\ e[2] = v
      <3>1. <<a, v>> \in Nat \X Int /\ <<a, v>>[2] = v
        BY <2>4
      <3> QED BY <3>1
    <2>6. /\ nodes'[L] = Append(nodes[L], e) /\ nodes[L] \in Seq(Nat \X Int)
          /\ \A l \in Lists \ {L} : nodes'[l] = nodes[l]
      BY <1>5, <2>3, <2>4, <2>5
    <2>7. /\ Len(nodes'[L]) = Len(nodes[L]) + 1 /\ Len(nodes[L]) \in Nat
          /\ \A n \in 1 .. Len(nodes[L]) : nodes'[L][n] = nodes[L][n]
          /\ nodes'[L][Len(nodes[L]) + 1] = e
      BY <2>5, <2>6
    <2>8. Items'[L] = Append(Items[L], v)
      <3>1. Items'[L] = [n \in 1 .. Len(nodes[L]) + 1 |-> nodes'[L][n][2]]
        BY <2>4, <2>7 DEF Items
      <3>2. Append(Items[L], v) =
              [n \in 1 .. Len(nodes[L]) + 1 |-> IF n = Len(nodes[L]) + 1 THEN v ELSE Items[L][n]]
        BY <2>4, ItemsAt
      <3>3. \A n \in 1 .. Len(nodes[L]) + 1 :
              nodes'[L][n][2] = IF n = Len(nodes[L]) + 1 THEN v ELSE Items[L][n]
        <4> SUFFICES ASSUME NEW n \in 1 .. Len(nodes[L]) + 1
                     PROVE  nodes'[L][n][2] = IF n = Len(nodes[L]) + 1 THEN v ELSE Items[L][n]
          OBVIOUS
        <4>1. CASE n = Len(nodes[L]) + 1
          BY <2>5, <2>7, <4>1
        <4>2. CASE n # Len(nodes[L]) + 1
          <5>1. n \in 1 .. Len(nodes[L])
            BY <2>7, <4>2
          <5> QED BY <2>4, <2>7, <4>2, <5>1, ItemsAt
        <4> QED BY <4>1, <4>2
      <3> QED BY <3>1, <3>2, <3>3
    <2>9. \A l \in Lists \ {L} : Items'[l] = Items[l]
      BY <2>6 DEF Items
    <2>10. Items' = [Items EXCEPT ![L] = Append(@, v)]
      <3>1. Items = [l \in Lists |-> Items[l]] /\ Items' = [l \in Lists |-> Items'[l]]
        BY DEF Items
      <3> QED BY <2>4, <2>8, <2>9, <3>1
    <2> QED BY <1>1, <1>2, <2>2, <2>3, <2>10 DEF Seqs!Add, Seqs!Done, Items, Phase, Reply
  <1> QED BY <1>1, <1>3, <1>4, <1>5


(* No list is made at first.                                                   *)
LEMMA InitIsInit == Init => Seqs!Init /\ Gets
  <1> SUFFICES ASSUME Init PROVE Seqs!Init /\ Gets
    OBVIOUS
  <1>1. \A c \in Client : pc[c] = "ready" /\ job[c] = NoJob /\ NoJob.kind # "get"
    BY NoJobIsNone DEF Init
  <1>2. Gets
    BY <1>1 DEF Gets, GetOK
  <1>3. Phase = [c \in Client |-> "idle"] /\ Reply = [c \in Client |-> 0]
    BY <1>1 DEF Phase, Reply
  <1>4. Items = [l \in Lists |-> <<>>]
    <2>1. ASSUME NEW l \in Lists PROVE Items[l] = <<>>
      <3>1. nodes[l] = <<>> /\ Len(nodes[l]) = 0
        BY DEF Init
      <3>2. 1 .. Len(nodes[l]) = {}
        BY <3>1
      <3> QED BY <3>2 DEF Items
    <2> QED BY <2>1 DEF Items
  <1>5. job = [c \in Client |-> Seqs!NoJob]
    BY DEF Init, NoJob, Seqs!NoJob
  <1> QED BY <1>2, <1>3, <1>4, <1>5 DEF Seqs!Init, Items, Phase, Reply

(* Every step of a thread is a step of the sequences or is not seen by them.   *)
LEMMA StepIsStep ==
  ASSUME IInv, Gets, IInv', Gets', NEW c \in Client, Step(c) \/ Die(c)
  PROVE  Seqs!Next \/ UNCHANGED <<Items, Phase, job, Reply>>
  <1>1. ASSUME Call(c) PROVE Seqs!Next
    BY <1>1, CallIsCall DEF Seqs!Next
  <1>2. ASSUME Return(c) \/ Die(c) PROVE Seqs!Next
    BY <1>2, ReturnIsReturn DEF Seqs!Next
  <1>3. ASSUME Run(c) PROVE UNCHANGED <<Items, Phase, job, Reply>>
    <2>1. pc[c] = "queued" /\ pc'[c] \in {"first", "allocRead"} /\ nodes' = nodes /\ job' = job
      BY <1>3 DEF Run, Goto, FirstLabel, IInv, Types
    <2>2. Phase[c] = "called" /\ Reply[c] = 0 /\ Phase'[c] = "called" /\ Reply'[c] = 0
      BY <2>1, PhaseAt, PhaseNext DEF Phases
    <2> QED BY <2>1, <2>2, Unseen
  <1>4. ASSUME Operate(c) PROVE Seqs!Next \/ UNCHANGED <<Items, Phase, job, Reply>>
    <2>1. pc[c] \in Labels \ {"ready", "queued", "return", "dead"} /\ job' = job
      BY <1>4 DEF Operate, Waiting, IInv, Types
    <2>2. CASE pc[c] = "append"
      BY <1>4, <2>2, AppendIsAdd DEF Seqs!Next
    <2>3. CASE pc[c] \in {"allocRead", "allocCas", "endRoot", "content", "endNode", "follow"}
      <3>1. /\ nodes' = nodes /\ job[c].kind # "get"
            /\ pc'[c] \in {"allocRead", "allocCas", "endRoot", "content", "endNode", "append",
                           "return"}
        BY <1>4, <2>3, FillStep
      <3>2. Phase[c] = "called" /\ Reply[c] = 0 /\ Reply'[c] = 0
        BY <2>1, <2>3, <3>1, PhaseAt, PhaseNext DEF Phases
      <3>3. CASE pc'[c] = "return"
        BY <1>4, <2>1, <3>1, <3>2, <3>3, PhaseNext, Ineffective DEF Seqs!Next, Phases
      <3>4. CASE pc'[c] # "return"
        BY <1>4, <2>1, <3>1, <3>2, <3>4, PhaseNext, Unseen DEF Phases
      <3> QED BY <3>3, <3>4
    <2>4. CASE pc[c] \in {"first", "next"}
      <3>1. /\ nodes' = nodes /\ pc'[c] \in {"next", "value", "return"}
            /\ pc'[c] = "return" => result'[c] = NULL /\ Answer(c) = NULL
        BY <1>4, <2>4, WalkStep
      <3>2. Phase[c] = "called" /\ Reply[c] = 0 /\ job[c] \in Jobs /\ job[c].kind = "get"
        BY <2>4, PhaseAt DEF Phases, IInv, LabelOK, Busy
      <3>3. CASE pc'[c] = "next"
        BY <1>4, <2>1, <3>1, <3>2, <3>3, PhaseNext, Unseen DEF Phases
      <3>4. CASE pc'[c] \in {"value", "return"}
        <4>1. Phase'[c] = "done"
          BY <3>4, PhaseNext DEF Phases
        <4>2. Reply'[c] = Answer(c)
          <5>1. CASE pc'[c] = "return"
            BY <2>1, <3>1, <3>2, <5>1, PhaseNext DEF Phases
          <5>2. CASE pc'[c] = "value"
            <6>1. Reply'[c] = mem'[pos'[c]]
              BY <2>1, <3>2, <5>2, PhaseNext DEF Phases
            <6>2. mem'[pos'[c]] = nodes[job[c].list][job[c].n + 1][2]
              BY <2>1, <3>1, <5>2, AnswersNext DEF Known
            <6>3. job[c].n < Len(nodes[job[c].list])
              BY <2>1, <3>1, <5>2 DEF Gets, GetOK
            <6> QED BY <6>1, <6>2, <6>3 DEF Answer
          <5> QED BY <3>4, <5>1, <5>2
        <4> QED BY <1>4, <2>1, <3>1, <3>2, <4>1, <4>2, Effective DEF Seqs!Next
      <3> QED BY <3>1, <3>3, <3>4
    <2>5. CASE pc[c] = "value"
      <3>1. /\ nodes' = nodes /\ pc'[c] = "return" /\ result'[c] = mem[pos[c]]
            /\ job[c].kind = "get" /\ job[c] \in Jobs
        BY <1>4, <2>5, ValueStep, AnswerKnown
      <3>2. Phase[c] = "done" /\ Phase'[c] = "done" /\ Reply'[c] = Reply[c]
        BY <2>1, <2>5, <3>1, PhaseAt, PhaseNext DEF Phases
      <3> QED BY <1>4, <2>1, <3>1, <3>2, Unseen
    <2> QED BY <2>1, <2>2, <2>3, <2>4, <2>5 DEF Labels
  <1> QED BY <1>1, <1>2, <1>3, <1>4 DEF Step

(* The lists implement AppendList: an add appends its value once, at one       *)
(* moment of its call, or fails; a get answers what stands at its place, or    *)
(* that nothing does, at one moment of its call (List_AddNode and List_GetNode,*)
(* examples/list/), whoever races and whoever dies.                            *)
THEOREM ListsAreAtomic == Spec => IsList
  <1>1. IInv /\ Gets /\ IInv' /\ [Next]_vars => Gets'
    <2> SUFFICES ASSUME IInv, Gets, [Next]_vars PROVE Gets'
      OBVIOUS
    <2>1. CASE UNCHANGED vars
      BY <2>1 DEF Gets, GetOK, At, vars
    <2> QED BY <2>1, GetsStep DEF Next
  <1>2. IInv /\ Gets /\ IInv' /\ Gets' /\ [Next]_vars => [Seqs!Next]_<<Items, Phase, job, Reply>>
    <2> SUFFICES ASSUME IInv, Gets, IInv', Gets', [Next]_vars
                 PROVE  Seqs!Next \/ UNCHANGED <<Items, Phase, job, Reply>>
      OBVIOUS
    <2>1. CASE UNCHANGED vars
      BY <2>1 DEF vars, Items, Phase, Reply
    <2> QED BY <2>1, StepIsStep DEF Next
  <1>3. Init => Gets /\ Seqs!Init
    BY InitIsInit
  <1>4. Spec => [][Seqs!Next]_<<Items, Phase, job, Reply>>
    BY <1>1, <1>2, <1>3, ListInvariance, PTL DEF Spec
  <1> QED BY <1>3, <1>4, PTL DEF Spec, IsList, Seqs!Spec, Items, Phase, Reply
===============================================================================
