---------------------------- MODULE QueueLockProof ----------------------------
(* Proofs about QueueLock for any threads, locks, calls and memory: a lock has *)
(* one holder at most.                                                         *)
EXTENDS QueueLock, TLAPS

-------------------------------------------------------------------------------
(* What serving one operation does to memory, of any size.                     *)

(* What serving one operation on one word does and answers.                    *)
LEMMA ReadOne ==
  ASSUME NEW a \in Nat, NEW m
  PROVE  /\ Effect(Read(a, 1), m) = m
         /\ Outcome(Read(a, 1), m).error = "OK" <=> a < MemSize
         /\ a < MemSize => Outcome(Read(a, 1), m).result[1] = m[a]
  BY MemSizeAssumption DEF Effect, Read, Outcome, InBounds, Width, Ok, Failed

(* A WRITE of one word stores it, or nothing beyond the end of memory.         *)
LEMMA WriteOne ==
  ASSUME NEW a \in Nat, NEW v \in Int, NEW m \in [Cells -> Int]
  PROVE  /\ a < MemSize => Effect(Write(a, <<v>>), m) = [m EXCEPT ![a] = v]
         /\ ~(a < MemSize) => Effect(Write(a, <<v>>), m) = m
         /\ Outcome(Write(a, <<v>>), m).error = "OK" <=> a < MemSize
  <1> DEFINE op == Write(a, <<v>>)
  <1>1. op.kind = "WRITE" /\ op.addr = a /\ op.values = <<v>> /\ Len(op.values) = 1
    BY DEF Write
  <1> HIDE DEF op
  <1>2. Effect(op, m) = [i \in Cells |-> IF /\ op.addr >= 0
                                            /\ i \in op.addr .. op.addr + Len(op.values) - 1
                                         THEN op.values[i - op.addr + 1] ELSE m[i]]
    BY <1>1 DEF Effect
  <1>3. ASSUME NEW i \in Cells
        PROVE  Effect(op, m)[i] = IF i = a THEN v ELSE m[i]
    <2>1. i \in Int
      BY MemSizeAssumption DEF Cells
    <2>2. op.addr >= 0 /\ i \in op.addr .. op.addr + Len(op.values) - 1 <=> i = a
      BY <1>1, <2>1
    <2>3. i = a => op.values[i - op.addr + 1] = v
      BY <1>1, <2>1
    <2> QED BY <1>2, <2>2, <2>3
  <1>4. a < MemSize => Effect(op, m) = [m EXCEPT ![a] = v]
    BY <1>2, <1>3
  <1>5. ~(a < MemSize) => Effect(op, m) = m
    <2>1. ~(a < MemSize) => a \notin Cells
      BY MemSizeAssumption DEF Cells
    <2> QED BY <1>2, <1>3, <2>1
  <1>6. InBounds(op) <=> a < MemSize
    BY <1>1, MemSizeAssumption DEF InBounds, Width
  <1>7. Outcome(op, m).error = "OK" <=> a < MemSize
    BY <1>1, <1>6 DEF Outcome, Ok, Failed
  <1> QED BY <1>4, <1>5, <1>7 DEF op

(* A CAS stores its word if it finds what it tests for.                        *)
LEMMA CasOne ==
  ASSUME NEW a \in Nat, NEW t, NEW v, NEW m
  PROVE  /\ Swaps(Cas(a, t, v), m) <=> a < MemSize /\ m[a] = t
         /\ Swaps(Cas(a, t, v), m) => Effect(Cas(a, t, v), m) = [m EXCEPT ![a] = v]
         /\ ~Swaps(Cas(a, t, v), m) => Effect(Cas(a, t, v), m) = m
         /\ Outcome(Cas(a, t, v), m).error = "OK" <=> a < MemSize
         /\ a < MemSize => (Outcome(Cas(a, t, v), m).result[1] # 0 <=> Swaps(Cas(a, t, v), m))
  <1> DEFINE op == Cas(a, t, v)
  <1>1. op.kind = "CAS" /\ op.addr = a /\ op.test = t /\ op.value = v
    BY DEF Cas
  <1>2. InBounds(op) <=> a < MemSize
    BY <1>1, MemSizeAssumption DEF InBounds, Width
  <1>3. Swaps(op, m) <=> a < MemSize /\ m[a] = t
    BY <1>1, <1>2 DEF Swaps
  <1>4. /\ Swaps(op, m) => Effect(op, m) = [m EXCEPT ![a] = v]
        /\ ~Swaps(op, m) => Effect(op, m) = m
    BY <1>1 DEF Effect
  <1>5. Outcome(op, m).error = "OK" <=> a < MemSize
    BY <1>1, <1>2 DEF Outcome, Ok, Failed
  <1>6. a < MemSize => Outcome(op, m).result[1] = IF Swaps(op, m) THEN 1 ELSE 0
    BY <1>1, <1>2 DEF Outcome, Ok, Failed
  <1> HIDE DEF op
  <1> QED BY <1>3, <1>4, <1>5, <1>6 DEF op

-------------------------------------------------------------------------------
Labels == {"free", "held", "lockSent", "releaseSent"} \cup AtServer

(* Nodes take two words each behind the table: they start at odd addresses.    *)
Node == {a \in Nat : a >= Table + 2 * Locks /\ a % 2 = 1}

Counter == mem[0] \in Node

(* The tail of a queue is one of its nodes, or the queue is empty.             *)
TailOf(l) == Table + 2 * l + 1
Tails   == \A l \in 0 .. Locks - 1 : TailOf(l) < MemSize => mem[TailOf(l)] \in Node \cup {NULL}

(* The node of c, and what it is linked to.                                    *)
NodeOK(c) ==
  pc[c] \notin {"free", "lockSent"} =>
    /\ node[c] \in Node
    /\ pc[c] # "endNode" => node[c] + 1 < MemSize /\ mem[node[c] + 1] \in Node \cup {NULL}

(* What c has read is a node, or none.                                         *)
PredOK(c) == /\ pc[c] = "swapTail" => pred[c] \in Node \cup {NULL}
             /\ pc[c] \in {"linkPred", "wakeNext"} => pred[c] \in Node

(* c has its lock: from the swap that finds no predecessor.                    *)
Owner(c) == Has(c) \/ pc[c] = "granted" \/ (pc[c] = "poll" /\ mem[node[c]] = 0)

(* Its queue is not empty, so nobody else will find no predecessor there.      *)
Queued(c) == Owner(c) => TailWord(c) < MemSize /\ mem[TailWord(c)] # NULL

OneOwner == \A c, d \in Client : c # d /\ Owner(c) /\ Owner(d) => lock[c] # lock[d]

IInv == /\ TypeOK /\ Counter /\ Tails
        /\ \A c \in Client : NodeOK(c) /\ PredOK(c) /\ Queued(c)
        /\ OneOwner

-------------------------------------------------------------------------------
(* What the assumptions say of the layout.                                     *)
LEMMA Constants ==
  /\ Table = 1 /\ NULL = -1 /\ NULL \in Int /\ Node \subseteq Nat /\ NULL \notin Node
  /\ Locks \in Nat /\ Locks > 0 /\ Nobody \notin Client /\ AtServer \subseteq Labels
  /\ 0 \in Cells /\ \A a \in Nat : a < MemSize <=> a \in Cells
  BY QueueLockAssumption, MemSizeAssumption
  DEF Table, NULL, Node, Nobody, AtServer, Labels, Cells

(* The types, one by one.                                                      *)
LEMMA VarTypes ==
  ASSUME TypeOK
  PROVE  /\ mem \in [Cells -> Int] /\ pc \in [Client -> Labels]
         /\ lock \in [Client -> 0 .. Locks - 1]
         /\ node \in [Client -> Nat] /\ pred \in [Client -> Nat \cup {NULL}]
         /\ \A c \in Client : pc[c] \in AtServer <=> running = c
  BY DEF TypeOK, Labels

(* The initial states satisfy the invariant.                                   *)
LEMMA InitOK == Init => IInv
  <1> SUFFICES ASSUME Init PROVE IInv
    OBVIOUS
  <1>1. mem \in [Cells -> Int]
    BY Constants DEF Init, Cells, Spilt
  <1>2. \A c \in Client : pc[c] = "free" /\ running = Nobody /\ "free" \notin AtServer
    BY DEF Init, AtServer
  <1>3. TypeOK
    BY <1>1, <1>2, Constants DEF Init, TypeOK
  <1>4. Counter
    BY Constants DEF Init, Counter, Node
  <1>5. Tails
    <2> SUFFICES ASSUME NEW l \in 0 .. Locks - 1, TailOf(l) < MemSize PROVE mem[TailOf(l)] = NULL
      BY DEF Tails
    <2>1. TailOf(l) \in Cells /\ TailOf(l) # 0 /\ TailOf(l) < Table + 2 * Locks
      BY Constants DEF TailOf
    <2> QED BY <2>1 DEF Init
  <1>6. \A c \in Client : NodeOK(c) /\ PredOK(c) /\ ~Owner(c)
    BY <1>2 DEF NodeOK, PredOK, Owner, Has
  <1> QED BY <1>3, <1>4, <1>5, <1>6 DEF IInv, Queued, OneOwner

-------------------------------------------------------------------------------
(* What a request at the server may do to memory: the counter stays, a queue   *)
(* is not emptied, and links lead to nodes.                                    *)
MemKeeps ==
  /\ mem' \in [Cells -> Int] /\ mem'[0] = mem[0]
  /\ \A l \in 0 .. Locks - 1 :
       TailOf(l) < MemSize => mem'[TailOf(l)] = mem[TailOf(l)] \/ mem'[TailOf(l)] \in Node
  /\ \A a \in Node :
       a + 1 < MemSize => mem'[a + 1] = mem[a + 1] \/ mem'[a + 1] \in Node \cup {NULL}

(* A step that does not write keeps what memory says.                          *)
LEMMA SameKeeps ==
  ASSUME TypeOK, mem' = mem
  PROVE  MemKeeps
  BY DEF MemKeeps, TypeOK

(* So does a store of a node, at a tail or at a link.                          *)
LEMMA StoreKeeps ==
  ASSUME TypeOK, NEW a \in Cells, NEW v \in Int, mem' = [mem EXCEPT ![a] = v], a # 0,
         \A l \in 0 .. Locks - 1 : a = TailOf(l) => v \in Node,
         \A n \in Node : a = n + 1 => v \in Node \cup {NULL}
  PROVE  MemKeeps
  <1>1. mem \in [Cells -> Int]
    BY VarTypes
  <1>2. mem' \in [Cells -> Int] /\ mem'[0] = mem[0]
    BY <1>1, Constants
  <1>3. ASSUME NEW x \in Cells PROVE mem'[x] = mem[x] \/ (x = a /\ mem'[x] = v)
    BY <1>1
  <1>4. ASSUME NEW l \in 0 .. Locks - 1, TailOf(l) < MemSize
        PROVE  mem'[TailOf(l)] = mem[TailOf(l)] \/ mem'[TailOf(l)] \in Node
    <2>1. TailOf(l) \in Cells
      BY <1>4, Constants DEF TailOf
    <2> QED BY <1>3, <2>1
  <1>5. ASSUME NEW n \in Node, n + 1 < MemSize
        PROVE  mem'[n + 1] = mem[n + 1] \/ mem'[n + 1] \in Node \cup {NULL}
    <2>1. n + 1 \in Cells
      BY <1>5, Constants
    <2> QED BY <1>3, <2>1
  <1> QED BY <1>2, <1>4, <1>5 DEF MemKeeps

(* Nodes, the table and the counter are apart.                                 *)
LEMMA NodeApart ==
  ASSUME NEW a \in Node
  PROVE  /\ a \in Nat /\ a # 0 /\ a + 1 # 0 /\ a # NULL
         /\ \A l \in 0 .. Locks - 1 : a # TailOf(l) /\ a + 1 # TailOf(l)
         /\ \A n \in Node : a # n + 1 /\ (a + 1 = n + 1 => a = n)
  BY Constants DEF Node, TailOf

(* The words of two locks are different words, and none is the counter.        *)
LEMMA TableApart ==
  ASSUME NEW l \in 0 .. Locks - 1
  PROVE  /\ Table + 2 * l \in Nat /\ Table + 2 * l # 0 /\ TailOf(l) \in Nat /\ TailOf(l) # 0
         /\ \A k \in 0 .. Locks - 1 : Table + 2 * l # TailOf(k) /\ (TailOf(l) = TailOf(k) => k = l)
         /\ \A n \in Node : Table + 2 * l # n + 1 /\ TailOf(l) # n + 1
  BY Constants DEF Node, TailOf

(* A step of the mobile code preserves the invariant when it keeps memory as   *)
(* above and leaves its own client as the invariant wants it.                  *)
Moves(c, lab) == /\ pc' = [pc EXCEPT ![c] = lab]
                 /\ running' = IF lab \in AtServer THEN c ELSE Nobody
                 /\ lock' = lock /\ node' = node

(* What a step of the lock's code has to keep, in general.                     *)
LEMMA StepKeeps ==
  ASSUME IInv, NEW c \in Client, running = c, NEW lab \in Labels, Moves(c, lab), MemKeeps,
         pred' \in [Client -> Nat \cup {NULL}],
         \A d \in Client : d # c => pred'[d] = pred[d],
         NodeOK(c)', PredOK(c)', Queued(c)',
         \A d \in Client : d # c /\ Owner(c)' /\ Owner(d) => lock[c] # lock[d]
  PROVE  IInv'
  <1>1. TypeOK /\ Counter /\ Tails /\ OneOwner
    BY DEF IInv
  <1>2. /\ pc' \in [Client -> Labels] /\ pc'[c] = lab
        /\ \A d \in Client : d # c => pc'[d] = pc[d] /\ pc[d] \notin AtServer
    BY <1>1, VarTypes DEF Moves
  <1>3. \A d \in Client : pc'[d] \in AtServer <=> running' = d
    BY <1>2, Constants DEF Moves
  <1>4. TypeOK'
    BY <1>1, <1>2, <1>3, VarTypes DEF Moves, MemKeeps, TypeOK, Labels
  <1>5. Counter' /\ Tails'
    BY <1>1 DEF Counter, Tails, MemKeeps, TailOf, Node
  <1>6. ASSUME NEW d \in Client, d # c
        PROVE  /\ NodeOK(d)' /\ PredOK(d)' /\ (Owner(d)' <=> Owner(d))
               /\ Owner(d) => Queued(d)'
    <2>1. pc'[d] = pc[d] /\ pc[d] \notin AtServer /\ pred'[d] = pred[d]
      BY <1>2, <1>6
    <2>2. NodeOK(d) /\ PredOK(d) /\ Queued(d)
      BY DEF IInv
    <2>3. NodeOK(d)'
      BY <2>1, <2>2 DEF NodeOK, Moves, MemKeeps, Node
    <2>4. PredOK(d)'
      BY <2>1 DEF PredOK, AtServer
    <2>5. Owner(d)' <=> Owner(d)
      BY <2>1 DEF Owner, Has, AtServer
    <2>6. ASSUME Owner(d) PROVE Queued(d)'
      <3>1. lock[d] \in 0 .. Locks - 1 /\ lock' = lock
        BY <1>1, VarTypes DEF Moves
      <3>2. TailWord(d) = TailOf(lock[d]) /\ TailWord(d)' = TailOf(lock[d])
        BY <3>1, Constants DEF TailWord, Word, TailOf
      <3>3. TailOf(lock[d]) < MemSize /\ mem[TailOf(lock[d])] # NULL
        BY <2>2, <2>6, <3>2 DEF Queued
      <3>4. mem'[TailOf(lock[d])] # NULL
        BY <3>1, <3>3, Constants DEF MemKeeps
      <3> QED BY <3>2, <3>3, <3>4 DEF Queued
    <2> QED BY <2>3, <2>4, <2>5, <2>6
  <1>7. \A d \in Client : NodeOK(d)' /\ PredOK(d)' /\ Queued(d)'
    BY <1>6 DEF Queued
  <1>8. OneOwner'
    <2> SUFFICES ASSUME NEW d \in Client, NEW e \in Client, d # e, Owner(d)', Owner(e)'
                 PROVE  lock[d] # lock[e]
      BY DEF OneOwner, Moves
    <2>1. CASE d # c /\ e # c
      BY <1>1, <1>6, <2>1 DEF OneOwner
    <2>2. CASE d = c
      BY <1>6, <2>2
    <2>3. CASE e = c
      BY <1>6, <2>3
    <2> QED BY <2>1, <2>2, <2>3
  <1> QED BY <1>4, <1>5, <1>7, <1>8 DEF IInv

-------------------------------------------------------------------------------
(* What an operation of the mobile code leads to, and when it fails.           *)
LEMMA OperateFrame ==
  ASSUME IInv, NEW c \in Client, Operate(c)
  PROVE  /\ running = c /\ pc[c] \in AtServer
         /\ mem' = Effect(OpOf(c), mem) /\ lock' = lock /\ node' = node
         /\ \/ /\ Outcome(OpOf(c), mem).error = "OK"
               /\ \/ AfterEnqueue(c, Outcome(OpOf(c), mem))
                  \/ AfterWait(c, Outcome(OpOf(c), mem))
                  \/ AfterRelease(c, Outcome(OpOf(c), mem))
            \/ Outcome(OpOf(c), mem).error # "OK" /\ Moves(c, "free") /\ pred' = pred
         /\ \A lab \in AtServer : Goes(c, lab) => Moves(c, lab)
         /\ \A lab \in {"held", "free"} : Ends(c, lab) => Moves(c, lab)
  <1>1. running = c /\ lock' = lock /\ node' = node /\ mem' = Effect(OpOf(c), mem)
    BY DEF Operate
  <1>2. \A lab \in AtServer : Goes(c, lab) => Moves(c, lab)
    BY <1>1 DEF Goes, Moves, Goto
  <1>3. \A lab \in {"held", "free"} : Ends(c, lab) => Moves(c, lab)
    BY <1>1 DEF Ends, Moves, Goto, AtServer
  <1>4. pc[c] \in AtServer
    BY <1>1, VarTypes DEF IInv
  <1> QED BY <1>1, <1>2, <1>3, <1>4 DEF Operate

(* The writes of the mobile code, and its swaps, are of single words.          *)
LEMMA WroteWord ==
  ASSUME IInv, NEW c \in Client, Operate(c),
         NEW a \in Nat, NEW v \in Int, OpOf(c) = Write(a, <<v>>)
  PROVE  /\ a < MemSize => mem' = [mem EXCEPT ![a] = v]
         /\ ~(a < MemSize) => mem' = mem
         /\ Outcome(OpOf(c), mem).error = "OK" <=> a < MemSize
  <1>1. mem \in [Cells -> Int]
    BY VarTypes DEF IInv
  <1>2. PICK m \in [Cells -> Int] : m = mem
    BY <1>1
  <1>3. /\ a < MemSize => Effect(Write(a, <<v>>), m) = [m EXCEPT ![a] = v]
        /\ ~(a < MemSize) => Effect(Write(a, <<v>>), m) = m
        /\ Outcome(Write(a, <<v>>), m).error = "OK" <=> a < MemSize
    BY WriteOne
  <1> QED BY <1>2, <1>3, OperateFrame

(* What a CAS of the lock's code does to memory.                               *)
LEMMA SwappedWord ==
  ASSUME IInv, NEW c \in Client, Operate(c),
         NEW a \in Nat, NEW t, NEW v, OpOf(c) = Cas(a, t, v)
  PROVE  /\ a < MemSize /\ mem[a] = t => mem' = [mem EXCEPT ![a] = v]
         /\ ~(a < MemSize /\ mem[a] = t) => mem' = mem
         /\ Outcome(OpOf(c), mem).error = "OK" <=> a < MemSize
         /\ a < MemSize => (Outcome(OpOf(c), mem).result[1] # 0 <=> mem[a] = t)
  <1>1. PICK m : m = mem
    OBVIOUS
  <1>2. /\ Swaps(Cas(a, t, v), m) <=> a < MemSize /\ m[a] = t
        /\ Swaps(Cas(a, t, v), m) => Effect(Cas(a, t, v), m) = [m EXCEPT ![a] = v]
        /\ ~Swaps(Cas(a, t, v), m) => Effect(Cas(a, t, v), m) = m
        /\ Outcome(Cas(a, t, v), m).error = "OK" <=> a < MemSize
        /\ a < MemSize => (Outcome(Cas(a, t, v), m).result[1] # 0 <=> Swaps(Cas(a, t, v), m))
    BY CasOne
  <1> QED BY <1>1, <1>2, OperateFrame

(* A request that fails leaves its client without a lock.                      *)
LEMMA FreeKeeps ==
  ASSUME IInv, NEW c \in Client, running = c, Moves(c, "free"), MemKeeps, pred' = pred
  PROVE  IInv'
  <1>1. TypeOK /\ pc'[c] = "free"
    BY VarTypes DEF IInv, Moves
  <1>2. NodeOK(c)' /\ PredOK(c)' /\ ~Owner(c)'
    BY <1>1 DEF NodeOK, PredOK, Owner, Has
  <1>3. "free" \in Labels /\ pred' \in [Client -> Nat \cup {NULL}]
    BY <1>1, VarTypes DEF Labels
  <1> QED BY <1>1, <1>2, <1>3, StepKeeps DEF Queued

(* A client that is no owner after the step has no more to show.               *)
LEMMA WaitKeeps ==
  ASSUME IInv, NEW c \in Client, running = c, pc[c] # "endNode",
         NEW lab \in {"readTail", "swapTail", "linkPred", "wait"},
         Moves(c, lab), MemKeeps,
         pred' \in [Client -> Nat \cup {NULL}],
         \A d \in Client : d # c => pred'[d] = pred[d],
         lab = "swapTail" => pred'[c] \in Node \cup {NULL},
         lab = "linkPred" => pred'[c] \in Node
  PROVE  IInv'
  <1>1. TypeOK /\ pc'[c] = lab /\ NodeOK(c) /\ pc[c] \in AtServer
    BY VarTypes DEF IInv, Moves
  <1>2. NodeOK(c)'
    BY <1>1 DEF NodeOK, Moves, MemKeeps, AtServer
  <1>3. PredOK(c)'
    BY <1>1 DEF PredOK
  <1>4. ~Owner(c)'
    BY <1>1 DEF Owner, Has
  <1>5. lab \in Labels
    BY DEF Labels, AtServer
  <1> QED BY <1>2, <1>3, <1>4, <1>5, StepKeeps DEF Queued

(* A client that was an owner before the step and works at the same lock.      *)
LEMMA OwnKeeps ==
  ASSUME IInv, NEW c \in Client, running = c, Owner(c),
         NEW lab \in Labels \ {"endNode", "swapTail", "linkPred"}, Moves(c, lab), MemKeeps,
         pred' \in [Client -> Nat \cup {NULL}],
         \A d \in Client : d # c => pred'[d] = pred[d],
         lab = "wakeNext" => pred'[c] \in Node
  PROVE  IInv'
  <1>1. /\ TypeOK /\ pc'[c] = lab /\ NodeOK(c) /\ Queued(c) /\ pc[c] \in AtServer
        /\ lock[c] \in 0 .. Locks - 1 /\ lock' = lock /\ node' = node
    BY VarTypes DEF IInv, Moves
  <1>2. pc[c] \notin {"free", "lockSent", "endNode"}
    BY <1>1 DEF Owner, Has, AtServer
  <1>3. NodeOK(c)'
    BY <1>1, <1>2 DEF NodeOK, MemKeeps
  <1>4. PredOK(c)'
    BY <1>1 DEF PredOK
  <1>5. TailWord(c) = TailOf(lock[c]) /\ TailWord(c)' = TailOf(lock[c])
    BY <1>1, Constants DEF TailWord, Word, TailOf
  <1>6. TailOf(lock[c]) < MemSize /\ mem[TailOf(lock[c])] # NULL
    BY <1>1, <1>5 DEF Queued
  <1>7. mem'[TailOf(lock[c])] # NULL
    BY <1>1, <1>6, Constants DEF MemKeeps
  <1>8. Queued(c)'
    BY <1>5, <1>6, <1>7 DEF Queued
  <1>9. \A d \in Client : d # c /\ Owner(c)' /\ Owner(d) => lock[c] # lock[d]
    BY DEF IInv, OneOwner
  <1> QED BY <1>1, <1>3, <1>4, <1>8, <1>9, StepKeeps

-------------------------------------------------------------------------------
(* Every operation of lock() preserves the invariant.                          *)
LEMMA EndNodeKeeps ==
  ASSUME IInv, NEW c \in Client, Operate(c), pc[c] = "endNode"
  PROVE  IInv'
  <1> DEFINE op == OpOf(c)
  <1>1. TypeOK /\ node[c] \in Node /\ running = c /\ node[c] + 1 \in Nat
    BY OperateFrame, NodeApart DEF IInv, NodeOK
  <1>2. PICK a \in Nat, v \in Int : a = node[c] + 1 /\ v = NULL
    BY <1>1, Constants
  <1>3. op = Write(a, <<v>>) /\ mem \in [Cells -> Int]
    BY <1>1, <1>2, VarTypes DEF OpOf
  <1>4. CASE Outcome(op, mem).error = "OK"
    <2>1. node[c] + 1 < MemSize /\ mem' = [mem EXCEPT ![node[c] + 1] = NULL]
      BY <1>2, <1>3, <1>4, WroteWord
    <2>2. MemKeeps
      BY <1>1, <2>1, StoreKeeps, NodeApart, Constants
    <2>3. Moves(c, "readTail") /\ pred' = pred
      BY <1>4, OperateFrame DEF AfterEnqueue, AfterWait, AfterRelease, AtServer
    <2>4. pc'[c] = "readTail" /\ node' = node /\ mem'[node[c] + 1] = NULL
      BY <1>1, <1>3, <2>1, <2>3, VarTypes, Constants DEF Moves
    <2>5. NodeOK(c)' /\ PredOK(c)' /\ ~Owner(c)'
      BY <1>1, <2>1, <2>4 DEF NodeOK, PredOK, Owner, Has, Node
    <2>6. "readTail" \in Labels /\ pred' \in [Client -> Nat \cup {NULL}]
      BY <1>1, <2>3, VarTypes DEF Labels, AtServer
    <2> QED BY <1>1, <2>2, <2>3, <2>5, <2>6, StepKeeps DEF Queued
  <1>5. CASE Outcome(op, mem).error # "OK"
    <2>1. mem' = mem
      BY <1>3, <1>5, WroteWord
    <2> QED BY <1>1, <1>5, <2>1, OperateFrame, FreeKeeps, SameKeeps
  <1> QED BY <1>4, <1>5

(* Reading the tail remembers a node that may be out of date, which the CAS    *)
(* finds out.                                                                  *)
LEMMA ReadTailKeeps ==
  ASSUME IInv, NEW c \in Client, Operate(c), pc[c] = "readTail"
  PROVE  IInv'
  <1> DEFINE op == Read(TailOf(lock[c]), 1)
  <1>1. TypeOK /\ Tails /\ lock[c] \in 0 .. Locks - 1 /\ running = c
    BY OperateFrame, VarTypes DEF IInv
  <1>2. TailWord(c) = TailOf(lock[c]) /\ TailOf(lock[c]) \in Nat
    BY <1>1, TableApart, Constants DEF TailWord, Word, TailOf
  <1>3. OpOf(c) = op
    BY <1>2 DEF OpOf
  <1>4. mem' = mem
    BY <1>2, <1>3, ReadOne, OperateFrame
  <1>5. CASE Outcome(op, mem).error = "OK"
    <2>1. Outcome(op, mem).result[1] \in Node \cup {NULL}
      BY <1>1, <1>2, <1>5, ReadOne DEF Tails
    <2>2. Moves(c, "swapTail") /\ pred' = [pred EXCEPT ![c] = Outcome(op, mem).result[1]]
      BY <1>3, <1>5, OperateFrame DEF AfterEnqueue, AfterWait, AfterRelease, AtServer
    <2>3. /\ pred' \in [Client -> Nat \cup {NULL}] /\ pred'[c] \in Node \cup {NULL}
          /\ \A d \in Client : d # c => pred'[d] = pred[d]
      BY <1>1, <2>1, <2>2, VarTypes, Constants
    <2> QED BY <1>1, <1>4, <2>2, <2>3, WaitKeeps, SameKeeps
  <1>6. CASE Outcome(op, mem).error # "OK"
    BY <1>1, <1>3, <1>4, <1>6, OperateFrame, FreeKeeps, SameKeeps
  <1> QED BY <1>5, <1>6


(* The CAS queues the client behind the tail it read; if that was none, nobody *)
(* owned the lock.                                                             *)
LEMMA SwapTailKeeps ==
  ASSUME IInv, NEW c \in Client, Operate(c), pc[c] = "swapTail"
  PROVE  IInv'
  <1> DEFINE op == OpOf(c)
  <1>1. /\ TypeOK /\ Tails /\ NodeOK(c) /\ PredOK(c) /\ lock[c] \in 0 .. Locks - 1
        /\ running = c /\ node[c] \in Node /\ pred[c] \in Node \cup {NULL}
    BY OperateFrame, VarTypes DEF IInv, NodeOK, PredOK
  <1>2. TailWord(c) = TailOf(lock[c]) /\ TailOf(lock[c]) \in Nat
    BY <1>1, TableApart, Constants DEF TailWord, Word, TailOf
  <1>3. op = Cas(TailOf(lock[c]), pred[c], node[c]) /\ mem \in [Cells -> Int]
    BY <1>1, <1>2, VarTypes DEF OpOf
  <1>4. pred' = pred /\ pred \in [Client -> Nat \cup {NULL}] /\ lock' = lock /\ node' = node
    BY <1>1, OperateFrame, VarTypes DEF AfterEnqueue, AfterWait, AfterRelease
  <1>5. CASE ~(TailOf(lock[c]) < MemSize /\ mem[TailOf(lock[c])] = pred[c])
    <2>1. mem' = mem
      BY <1>2, <1>3, <1>5, SwappedWord
    <2>2. CASE Outcome(op, mem).error = "OK"
      <3>1. Outcome(op, mem).result[1] = 0
        BY <1>2, <1>3, <1>5, <2>2, SwappedWord
      <3>2. Moves(c, "readTail")
        BY <1>3, <2>2, <3>1, OperateFrame DEF AfterEnqueue, AfterWait, AfterRelease, AtServer
      <3> QED BY <1>1, <1>4, <2>1, <3>2, WaitKeeps, SameKeeps
    <2>3. CASE Outcome(op, mem).error # "OK"
      BY <1>1, <1>3, <2>1, <2>3, OperateFrame, FreeKeeps, SameKeeps
    <2> QED BY <2>2, <2>3
  <1>6. CASE TailOf(lock[c]) < MemSize /\ mem[TailOf(lock[c])] = pred[c]
    <2>1. /\ TailOf(lock[c]) < MemSize /\ mem[TailOf(lock[c])] = pred[c]
          /\ mem' = [mem EXCEPT ![TailOf(lock[c])] = node[c]]
          /\ Outcome(op, mem).error = "OK" /\ Outcome(op, mem).result[1] # 0
      <3>1. PICK a \in Nat, t \in {pred[c]}, v \in {node[c]} : a = TailOf(lock[c]) /\ t = pred[c] /\ v = node[c]
        BY <1>2
      <3>2. op = Cas(a, t, v) /\ a < MemSize /\ mem[a] = t
        BY <1>3, <1>6, <3>1
      <3>3. /\ mem' = [mem EXCEPT ![a] = v]
            /\ Outcome(op, mem).error = "OK" /\ Outcome(op, mem).result[1] # 0
        BY <3>2, SwappedWord
      <3> QED BY <1>6, <3>1, <3>3
    <2>2. MemKeeps
      <3>1. TailOf(lock[c]) \in Cells /\ node[c] \in Int /\ TailOf(lock[c]) # 0
        <4>1. node[c] \in Int
          BY <1>1, NodeApart
        <4>2. TailOf(lock[c]) # 0
          BY <1>1, TableApart
        <4> QED BY <1>2, <2>1, <4>1, <4>2, Constants
      <3>2. \A n \in Node : TailOf(lock[c]) # n + 1
        BY <1>1, TableApart
      <3> HIDE DEF op
      <3> QED BY <1>1, <2>1, <3>1, <3>2, StoreKeeps
    <2>3. Moves(c, IF pred[c] = NULL THEN "granted" ELSE "linkPred")
      BY <1>3, <2>1, OperateFrame DEF AfterEnqueue, AfterWait, AfterRelease, AtServer
    <2>4. CASE pred[c] # NULL
      BY <1>1, <1>4, <2>2, <2>3, <2>4, WaitKeeps
    <2>5. CASE pred[c] = NULL
      <3>1. Moves(c, "granted") /\ pc'[c] = "granted"
        BY <1>1, <2>3, <2>5, VarTypes DEF Moves
      <3>2. NodeOK(c)'
        BY <1>1, <1>4, <2>2, <3>1 DEF NodeOK, MemKeeps
      <3>3. PredOK(c)'
        BY <3>1 DEF PredOK
      <3>4. TailWord(c)' = TailOf(lock[c]) /\ mem'[TailOf(lock[c])] = node[c] /\ node[c] # NULL
        BY <1>1, <1>2, <1>3, <1>4, <2>1, Constants DEF TailWord, Word, TailOf
      <3>5. Queued(c)'
        BY <2>1, <3>4 DEF Queued
      <3>6. ASSUME NEW d \in Client, d # c, Owner(d) PROVE lock[c] # lock[d]
        <4>1. Queued(d) /\ lock[d] \in 0 .. Locks - 1
          BY <1>1, VarTypes DEF IInv
        <4>2. TailWord(d) = TailOf(lock[d])
          BY <4>1, Constants DEF TailWord, Word, TailOf
        <4>3. mem[TailOf(lock[d])] # NULL
          BY <3>6, <4>1, <4>2 DEF Queued
        <4> QED BY <2>1, <2>5, <4>3
      <3>7. "granted" \in Labels
        BY DEF Labels, AtServer
      <3> QED BY <1>1, <1>4, <2>2, <3>1, <3>2, <3>3, <3>5, <3>6, <3>7, StepKeeps
    <2> QED BY <2>4, <2>5
  <1> QED BY <1>5, <1>6

(* The node before the client's is linked to it, if it was linked to none.     *)
LEMMA LinkPredKeeps ==
  ASSUME IInv, NEW c \in Client, Operate(c), pc[c] = "linkPred"
  PROVE  IInv'
  <1> DEFINE op == OpOf(c)
  <1>1. /\ TypeOK /\ running = c /\ node[c] \in Node /\ pred[c] \in Node
        /\ op = Cas(pred[c] + 1, NULL, node[c]) /\ pred[c] + 1 \in Nat
    BY OperateFrame, VarTypes, NodeApart DEF IInv, NodeOK, PredOK, OpOf
  <1>2. MemKeeps
    <2>1. CASE pred[c] + 1 < MemSize /\ mem[pred[c] + 1] = NULL
      <3>1. pred[c] + 1 < MemSize /\ mem' = [mem EXCEPT ![pred[c] + 1] = node[c]]
        <4>1. PICK a \in Nat, t \in {NULL}, v \in {node[c]} : a = pred[c] + 1 /\ t = NULL /\ v = node[c]
          BY <1>1
        <4>2. op = Cas(a, t, v) /\ a < MemSize /\ mem[a] = t
          BY <1>1, <2>1, <4>1
        <4>3. mem' = [mem EXCEPT ![a] = v]
          BY <4>2, SwappedWord
        <4> QED BY <2>1, <4>1, <4>3
      <3>2. pred[c] + 1 \in Cells /\ node[c] \in Int /\ pred[c] + 1 # 0
        <4>1. node[c] \in Int /\ pred[c] + 1 # 0
          BY <1>1, NodeApart
        <4> QED BY <1>1, <3>1, <4>1, Constants
      <3>3. \A l \in 0 .. Locks - 1 : pred[c] + 1 # TailOf(l)
        BY <1>1, NodeApart
      <3> HIDE DEF op
      <3> QED BY <1>1, <3>1, <3>2, <3>3, StoreKeeps
    <2>2. CASE ~(pred[c] + 1 < MemSize /\ mem[pred[c] + 1] = NULL)
      BY <1>1, <2>2, SwappedWord, SameKeeps
    <2> QED BY <2>1, <2>2
  <1>3. CASE Outcome(op, mem).error = "OK"
    <2>1. Moves(c, "wait") /\ pred' = pred
      BY <1>1, <1>3, OperateFrame DEF AfterEnqueue, AfterWait, AfterRelease, AtServer
    <2> QED BY <1>1, <1>2, <2>1, WaitKeeps, VarTypes
  <1>4. CASE Outcome(op, mem).error # "OK"
    BY <1>1, <1>2, <1>4, OperateFrame, FreeKeeps
  <1> QED BY <1>3, <1>4

(* The write into c's own node, before c polls it.                             *)
LEMMA OwnWordKeeps ==
  ASSUME IInv, NEW c \in Client, Operate(c), pc[c] \in {"granted", "wait"}
  PROVE  IInv'
  <1> DEFINE op == OpOf(c)
  <1>1. /\ TypeOK /\ running = c /\ node[c] \in Node /\ node[c] + 1 < MemSize
        /\ node[c] \in Nat /\ node[c] \in Cells /\ mem \in [Cells -> Int]
    <2>1. TypeOK /\ running = c /\ NodeOK(c) /\ mem \in [Cells -> Int]
      BY OperateFrame, VarTypes DEF IInv
    <2>2. node[c] \in Node /\ node[c] + 1 < MemSize
      BY <2>1 DEF NodeOK
    <2>3. node[c] \in Nat
      BY <2>2, NodeApart
    <2>4. node[c] < MemSize
      BY <2>2, <2>3, MemSizeAssumption
    <2> QED BY <2>1, <2>2, <2>3, <2>4, Constants
  <1>2. PICK a \in Nat, v \in Int : a = node[c] /\ v = IF pc[c] = "granted" THEN 0 ELSE 4
    BY <1>1
  <1>3. op = Write(a, <<v>>)
    BY <1>2 DEF OpOf
  <1>4. mem' = [mem EXCEPT ![node[c]] = v] /\ Outcome(op, mem).error = "OK"
    BY <1>2, <1>1, <1>3, Constants, WroteWord
  <1>5. MemKeeps
    BY <1>1, <1>4, StoreKeeps, NodeApart
  <1>6. Moves(c, "poll") /\ pred' = pred /\ node' = node
    BY <1>3, <1>4, OperateFrame DEF AfterEnqueue, AfterWait, AfterRelease, AtServer
  <1>7. pred' \in [Client -> Nat \cup {NULL}] /\ "poll" \in Labels
    BY <1>1, <1>6, VarTypes DEF Labels, AtServer
  <1>8. CASE pc[c] = "granted"
    BY <1>1, <1>5, <1>6, <1>7, <1>8, OwnKeeps DEF Owner
  <1>9. CASE pc[c] = "wait"
    <2>1. pc'[c] = "poll" /\ mem'[node[c]] = 4
      BY <1>2, <1>1, <1>4, <1>6, <1>9, VarTypes DEF Moves
    <2>2. ~Owner(c)' /\ PredOK(c)'
      BY <1>6, <2>1 DEF Owner, Has, PredOK
    <2>3. NodeOK(c)'
      BY <1>5, <1>6, <1>9, <2>1 DEF IInv, NodeOK, MemKeeps
    <2> QED BY <1>1, <1>5, <1>6, <1>7, <2>2, <2>3, StepKeeps DEF Queued
  <1> QED BY <1>8, <1>9

(* A poll that reads 0 ends the wait, and its reader was the owner already.    *)
LEMMA PollKeeps ==
  ASSUME IInv, NEW c \in Client, Operate(c), pc[c] = "poll"
  PROVE  IInv'
  <1> DEFINE op == Read(node[c], 1)
  <1>1. TypeOK /\ running = c /\ node[c] \in Nat /\ node[c] < MemSize
    <2>1. TypeOK /\ running = c /\ node[c] \in Nat /\ node[c] + 1 < MemSize
      BY OperateFrame, VarTypes, NodeApart DEF IInv, NodeOK
    <2> QED BY <2>1, MemSizeAssumption
  <1>2. OpOf(c) = op
    BY DEF OpOf
  <1>3. mem' = mem /\ Outcome(op, mem).error = "OK" /\ Outcome(op, mem).result[1] = mem[node[c]]
    BY <1>1, <1>2, ReadOne, OperateFrame
  <1>4. MemKeeps
    BY <1>1, <1>3, SameKeeps
  <1>5. pred' = pred /\ pred' \in [Client -> Nat \cup {NULL}]
    BY <1>1, <1>2, <1>3, OperateFrame, VarTypes DEF AfterEnqueue, AfterWait, AfterRelease
  <1>6. CASE mem[node[c]] = 0
    <2>1. Moves(c, "held")
      BY <1>2, <1>3, <1>6, OperateFrame DEF AfterEnqueue, AfterWait, AfterRelease
    <2> QED BY <1>1, <1>4, <1>5, <1>6, <2>1, OwnKeeps DEF Owner, Labels
  <1>7. CASE mem[node[c]] # 0
    <2>1. Moves(c, "poll")
      BY <1>2, <1>3, <1>7, OperateFrame DEF AfterEnqueue, AfterWait, AfterRelease, AtServer
    <2>2. pc'[c] = "poll" /\ mem'[node'[c]] # 0
      BY <1>1, <1>3, <1>7, <2>1, VarTypes DEF Moves
    <2>3. ~Owner(c)' /\ PredOK(c)'
      BY <2>2 DEF Owner, Has, PredOK
    <2>4. NodeOK(c)'
      BY <1>3, <2>1, <2>2 DEF IInv, NodeOK, Moves
    <2>5. "poll" \in Labels
      BY DEF Labels, AtServer
    <2> QED BY <1>1, <1>4, <1>5, <2>1, <2>3, <2>4, <2>5, StepKeeps DEF Queued
  <1> QED BY <1>6, <1>7

-------------------------------------------------------------------------------
(* Every operation of release() preserves the invariant.                       *)
LEMMA ReadNextKeeps ==
  ASSUME IInv, NEW c \in Client, Operate(c), pc[c] \in {"readNext", "pollNext"}
  PROVE  IInv'
  <1> DEFINE op == Read(node[c] + 1, 1)
  <1>1. /\ TypeOK /\ running = c /\ node[c] + 1 \in Nat /\ node[c] + 1 < MemSize
        /\ mem[node[c] + 1] \in Node \cup {NULL} /\ Owner(c)
    BY OperateFrame, VarTypes, NodeApart DEF IInv, NodeOK, Owner, Has
  <1>2. OpOf(c) = op
    BY DEF OpOf
  <1>3. /\ mem' = mem /\ Outcome(op, mem).error = "OK"
        /\ Outcome(op, mem).result[1] = mem[node[c] + 1]
    BY <1>1, <1>2, ReadOne, OperateFrame
  <1>4. pred' = [pred EXCEPT ![c] = mem[node[c] + 1]]
    BY <1>2, <1>3, OperateFrame DEF AfterEnqueue, AfterWait, AfterRelease
  <1>5. /\ pred' \in [Client -> Nat \cup {NULL}] /\ pred'[c] = mem[node[c] + 1]
        /\ \A d \in Client : d # c => pred'[d] = pred[d]
    BY <1>1, <1>4, VarTypes, Constants
  <1>6. PICK lab \in {"wakeNext", "freeTail", "pollNext"} :
          Moves(c, lab) /\ (lab = "wakeNext" => mem[node[c] + 1] # NULL)
    BY <1>2, <1>3, OperateFrame DEF AfterEnqueue, AfterWait, AfterRelease, AtServer
  <1>7. lab \in Labels
    BY DEF Labels, AtServer
  <1> QED BY <1>1, <1>3, <1>5, <1>6, <1>7, OwnKeeps, SameKeeps

(* The release swaps the first word of the lock, which nobody queues at.       *)
LEMMA FreeTailKeeps ==
  ASSUME IInv, NEW c \in Client, Operate(c), pc[c] = "freeTail"
  PROVE  IInv'
  <1> DEFINE op == OpOf(c)
  <1>1. /\ TypeOK /\ running = c /\ lock[c] \in 0 .. Locks - 1
        /\ op = Cas(Word(c), node[c], NULL) /\ Word(c) = Table + 2 * lock[c] /\ Word(c) \in Nat /\ Owner(c)
    BY OperateFrame, VarTypes, TableApart DEF IInv, OpOf, Word, Owner, Has
  <1>2. MemKeeps
    <2>1. CASE Word(c) < MemSize /\ mem[Word(c)] = node[c]
      <3>1. Word(c) < MemSize /\ mem' = [mem EXCEPT ![Word(c)] = NULL]
        BY <1>1, <2>1, SwappedWord
      <3> QED BY <1>1, <3>1, StoreKeeps, TableApart, Constants
    <2>2. CASE ~(Word(c) < MemSize /\ mem[Word(c)] = node[c])
      BY <1>1, <2>2, SwappedWord, SameKeeps
    <2> QED BY <2>1, <2>2
  <1>3. pred' = pred /\ pred' \in [Client -> Nat \cup {NULL}]
    BY <1>1, OperateFrame, VarTypes DEF AfterEnqueue, AfterWait, AfterRelease
  <1>4. Moves(c, "free") \/ Moves(c, "pollNext")
    BY <1>1, OperateFrame DEF AfterEnqueue, AfterWait, AfterRelease, AtServer
  <1>5. "pollNext" \in Labels
    BY DEF Labels, AtServer
  <1> QED BY <1>1, <1>2, <1>3, <1>4, <1>5, OwnKeeps, FreeKeeps

(* The release writes to the node behind it.                                   *)
LEMMA WakeNextKeeps ==
  ASSUME IInv, NEW c \in Client, Operate(c), pc[c] = "wakeNext"
  PROVE  IInv'
  <1>1. /\ TypeOK /\ running = c /\ pred[c] \in Node /\ pred[c] \in Nat
        /\ OpOf(c) = Write(pred[c], <<0>>)
    BY OperateFrame, VarTypes, NodeApart DEF IInv, PredOK, OpOf
  <1>2. PICK a \in Nat, v \in Int : a = pred[c] /\ v = 0
    BY <1>1
  <1>3. OpOf(c) = Write(a, <<v>>)
    BY <1>1, <1>2
  <1>4. MemKeeps
    <2>1. CASE pred[c] < MemSize
      <3>1. mem' = [mem EXCEPT ![pred[c]] = 0]
        BY <1>2, <1>3, <2>1, WroteWord
      <3>2. pred[c] \in Cells /\ pred[c] # 0 /\ \A n \in Node : pred[c] # n + 1
        BY <1>1, <2>1, NodeApart, Constants
      <3>3. \A l \in 0 .. Locks - 1 : pred[c] # TailOf(l)
        BY <1>1, NodeApart
      <3>4. PICK x \in Cells, w \in Int : x = pred[c] /\ w = 0
        BY <3>2
      <3> QED BY <1>1, <3>1, <3>2, <3>3, <3>4, StoreKeeps
    <2>2. CASE ~(pred[c] < MemSize)
      BY <1>1, <1>2, <1>3, <2>2, WroteWord, SameKeeps
    <2> QED BY <2>1, <2>2
  <1>5. pred' = pred /\ Moves(c, "free")
    BY <1>1, OperateFrame DEF AfterEnqueue, AfterWait, AfterRelease
  <1> QED BY <1>1, <1>4, <1>5, FreeKeeps

-------------------------------------------------------------------------------
(* A client that calls touches neither memory nor the server.                  *)
LEMMA AskKeeps ==
  ASSUME IInv, NEW c \in Client, AskLock(c) \/ AskRelease(c)
  PROVE  IInv'
  <1>1. TypeOK /\ Counter /\ Tails /\ OneOwner
    BY DEF IInv
  <1>2. mem' = mem /\ running' = running /\ node' = node /\ pred' = pred
    BY DEF AskLock, AskRelease
  <1>3. /\ pc' \in [Client -> Labels] /\ pc'[c] \notin AtServer /\ pc[c] \notin AtServer
        /\ lock' \in [Client -> 0 .. Locks - 1]
        /\ \A d \in Client : d # c => pc'[d] = pc[d] /\ lock'[d] = lock[d]
    BY <1>1, VarTypes DEF AskLock, AskRelease, Goto, Labels, AtServer
  <1>4. TypeOK'
    BY <1>1, <1>2, <1>3 DEF TypeOK, Labels
  <1>5. Counter' /\ Tails'
    BY <1>1, <1>2 DEF Counter, Tails, TailOf, Node
  <1>6. NodeOK(c)' /\ PredOK(c)' /\ (Owner(c)' => Owner(c) /\ lock'[c] = lock[c])
    <2>1. CASE AskLock(c)
      <3>1. pc'[c] = "lockSent"
        BY <2>1, <1>1, VarTypes DEF AskLock, Goto
      <3> QED BY <3>1 DEF NodeOK, PredOK, Owner, Has
    <2>2. CASE AskRelease(c)
      <3>1. pc[c] = "held" /\ pc'[c] = "releaseSent" /\ lock' = lock
        BY <2>2, <1>1, VarTypes DEF AskRelease, Goto
      <3>2. NodeOK(c)
        BY DEF IInv
      <3> QED BY <1>2, <3>1, <3>2 DEF NodeOK, PredOK, Owner, Has, Node
    <2> QED BY <2>1, <2>2
  <1>7. ASSUME NEW d \in Client, d # c
        PROVE  NodeOK(d)' /\ PredOK(d)' /\ (Owner(d)' => Owner(d) /\ lock'[d] = lock[d])
    BY <1>2, <1>3, <1>7 DEF IInv, NodeOK, PredOK, Owner, Has, Node
  <1>8. \A d \in Client : NodeOK(d)' /\ PredOK(d)' /\ (Owner(d)' => Owner(d) /\ lock'[d] = lock[d])
    BY <1>6, <1>7
  <1>9. \A d \in Client : Queued(d)'
    BY <1>2, <1>8 DEF IInv, Queued, TailWord, Word
  <1>10. OneOwner'
    BY <1>1, <1>8 DEF OneOwner
  <1> QED BY <1>4, <1>5, <1>8, <1>9, <1>10 DEF IInv

(* The server takes a request, and alloc moves the counter by one node.        *)
LEMMA StartKeeps ==
  ASSUME IInv, NEW c \in Client, StartLock(c) \/ StartRelease(c)
  PROVE  IInv'
  <1>1. TypeOK /\ Counter /\ Tails /\ OneOwner /\ mem \in [Cells -> Int] /\ mem[0] \in Node
    BY VarTypes DEF IInv, Counter
  <1>2. /\ running = Nobody /\ running' = c /\ lock' = lock /\ pred' = pred
        /\ pc[c] \in {"lockSent", "releaseSent"}
        /\ mem' \in [Cells -> Int] /\ \A x \in Cells : x # 0 => mem'[x] = mem[x]
        /\ mem'[0] \in Node
    <2>1. mem[0] + 2 \in Node /\ mem[0] + 2 \in Int
      BY <1>1, Constants DEF Node
    <2> QED BY <1>1, <2>1, Constants DEF StartLock, StartRelease
  <1>3. \A d \in Client : pc[d] \notin AtServer
    BY <1>1, <1>2, VarTypes, Constants
  <1>4. /\ pc' \in [Client -> Labels] /\ pc'[c] \in AtServer
        /\ pc'[c] = IF pc[c] = "lockSent" THEN "endNode" ELSE "readNext"
        /\ node' \in [Client -> Nat]
        /\ node'[c] = IF pc[c] = "lockSent" THEN mem[0] ELSE node[c]
        /\ \A d \in Client : d # c => pc'[d] = pc[d] /\ node'[d] = node[d]
    BY <1>1, VarTypes, Constants DEF StartLock, StartRelease, Goto, Labels, AtServer
  <1>5. TypeOK'
    BY <1>1, <1>2, <1>3, <1>4 DEF TypeOK, Labels
  <1>6. Tails'
    <2> SUFFICES ASSUME NEW l \in 0 .. Locks - 1, TailOf(l) < MemSize
                 PROVE  mem'[TailOf(l)] = mem[TailOf(l)]
      BY <1>1 DEF Tails, TailOf, Node
    <2> QED BY <1>2, TableApart, Constants
  <1>7. \A a \in Node : a + 1 < MemSize => mem'[a + 1] = mem[a + 1]
    BY <1>2, NodeApart, Constants
  <1>8. ASSUME NEW d \in Client PROVE NodeOK(d)' /\ PredOK(d)' /\ (Owner(d)' <=> Owner(d))
    <2>1. CASE d = c
      BY <1>1, <1>2, <1>4, <1>7, <2>1 DEF IInv, NodeOK, PredOK, Owner, Has, Node
    <2>2. CASE d # c
      <3>1. pc'[d] = pc[d] /\ node'[d] = node[d] /\ pc[d] \notin AtServer
        BY <1>3, <1>4, <2>2
      <3>2. NodeOK(d)'
        BY <1>7, <3>1 DEF IInv, NodeOK, Node
      <3> QED BY <1>2, <3>1, <3>2 DEF PredOK, Owner, Has, AtServer
    <2> QED BY <2>1, <2>2
  <1>9. ASSUME NEW d \in Client PROVE Queued(d)'
    <2>1. lock[d] \in 0 .. Locks - 1 /\ Queued(d)
      BY <1>1, VarTypes DEF IInv
    <2>2. TailWord(d) = TailOf(lock[d]) /\ TailWord(d)' = TailOf(lock[d])
      BY <1>2, <2>1, Constants DEF TailWord, Word, TailOf
    <2>3. TailOf(lock[d]) \in Nat /\ TailOf(lock[d]) # 0
      BY <2>1, TableApart
    <2> QED BY <1>2, <1>8, <2>1, <2>2, <2>3, Constants DEF Queued
  <1>10. OneOwner'
    BY <1>1, <1>2, <1>8 DEF OneOwner
  <1> QED BY <1>2, <1>5, <1>6, <1>8, <1>9, <1>10 DEF IInv, Counter, Node

-------------------------------------------------------------------------------
(* Every step preserves the invariant.                                         *)
LEMMA StepOK == IInv /\ [Next]_vars => IInv'
  <1> SUFFICES ASSUME IInv, [Next]_vars PROVE IInv'
    OBVIOUS
  <1>1. CASE UNCHANGED vars
    BY <1>1 DEF IInv, TypeOK, Counter, Tails, TailOf, Node, NodeOK, PredOK, Owner, Has, Queued,
                OneOwner, TailWord, Word, vars
  <1>2. ASSUME NEW c \in Client, AskLock(c) \/ AskRelease(c) PROVE IInv'
    BY <1>2, AskKeeps
  <1>3. ASSUME NEW c \in Client, StartLock(c) \/ StartRelease(c) PROVE IInv'
    BY <1>3, StartKeeps
  <1>4. ASSUME NEW c \in Client, Operate(c) PROVE IInv'
    <2>1. pc[c] \in AtServer
      BY <1>4, OperateFrame
    <2>2. CASE pc[c] \in {"endNode", "readTail", "swapTail", "linkPred"}
      BY <1>4, <2>2, EndNodeKeeps, ReadTailKeeps, SwapTailKeeps, LinkPredKeeps
    <2>3. CASE pc[c] \in {"granted", "wait", "poll"}
      BY <1>4, <2>3, OwnWordKeeps, PollKeeps
    <2>4. CASE pc[c] \in {"readNext", "pollNext", "freeTail", "wakeNext"}
      BY <1>4, <2>4, ReadNextKeeps, FreeTailKeeps, WakeNextKeeps
    <2> QED BY <2>1, <2>2, <2>3, <2>4 DEF AtServer
  <1> QED BY <1>1, <1>2, <1>3, <1>4 DEF Next

(* The inductive invariant: a queue in which a client has its lock is not      *)
(* empty, and so nobody else is told that it has no predecessor.               *)
THEOREM LockInvariance == Spec => []IInv
  BY InitOK, StepOK, PTL DEF Spec

(* The variables of Lock_Lock and Lock_Release hold what they are declared to, *)
(* and the server runs the code of one client at most.                         *)
THEOREM LockTypes == Spec => []TypeOK
  <1>1. IInv => TypeOK
    BY DEF IInv
  <1> QED BY <1>1, LockInvariance, PTL

(* Mutual exclusion: of the threads that ask for a lock one has it at most.    *)
THEOREM OneHoldsALock == Spec => []OneHolder
  <1>1. IInv => OneHolder
    BY DEF IInv, OneOwner, OneHolder, Owner
  <1> QED BY <1>1, LockInvariance, PTL
===============================================================================
