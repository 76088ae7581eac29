------------------------------- MODULE DHTProof -------------------------------
(* Proofs about DHT for any clients, keys, hash function, table and memory:    *)
(* the chains stay whole, records share no word, and the table implements the  *)
(* map of DHTMap.  They assume that nobody uses the table while it is          *)
(* initialised (AttachAlone).  At the end, proofs about the search over the    *)
(* bins of such a table (NameSearch) and about remote clients whose requests   *)
(* are lost, late and repeated (DHTOverUDP), which need no such assumption.    *)
EXTENDS DHT, DHTOverUDP, NameSearch, TLAPS, WellFoundedInduction, FiniteSetTheorems

-------------------------------------------------------------------------------
(* What serving one operation does to memory, of any size.                     *)

(* What serving one operation on one word does and answers.                    *)
LEMMA ReadOne ==
  ASSUME NEW a \in Nat, NEW m
  PROVE  /\ Effect(Read(a, 1), m) = m
         /\ Outcome(Read(a, 1), m).error = "OK" <=> a < MemSize
         /\ a < MemSize => Outcome(Read(a, 1), m).result[1] = m[a]
  BY MemSizeAssumption DEF Effect, Read, Outcome, InBounds, Width, Ok, Failed

(* A WRITE of one word stores it, or nothing beyond the end of memory.         *)
LEMMA WriteOne ==
  ASSUME NEW a \in Nat, NEW v \in Int, NEW m \in [Cells -> Int]
  PROVE  /\ a < MemSize => Effect(Write(a, <<v>>), m) = [m EXCEPT ![a] = v]
         /\ ~(a < MemSize) => Effect(Write(a, <<v>>), m) = m
         /\ Outcome(Write(a, <<v>>), m).error = "OK" <=> a < MemSize
  <1> DEFINE op == Write(a, <<v>>)
  <1>1. op.kind = "WRITE" /\ op.addr = a /\ op.values = <<v>> /\ Len(op.values) = 1
    BY DEF Write
  <1> HIDE DEF op
  <1>2. Effect(op, m) = [x \in Cells |-> IF /\ op.addr >= 0
                                            /\ x \in op.addr .. op.addr + Len(op.values) - 1
                                         THEN op.values[x - op.addr + 1] ELSE m[x]]
    BY <1>1 DEF Effect
  <1>3. ASSUME NEW x \in Cells
        PROVE  Effect(op, m)[x] = IF x = a THEN v ELSE m[x]
    <2>1. x \in Int
      BY MemSizeAssumption DEF Cells
    <2>2. op.addr >= 0 /\ x \in op.addr .. op.addr + Len(op.values) - 1 <=> x = a
      BY <1>1, <2>1
    <2>3. x = a => op.values[x - op.addr + 1] = v
      BY <1>1, <2>1
    <2> QED BY <1>2, <2>2, <2>3
  <1>4. a < MemSize => Effect(op, m) = [m EXCEPT ![a] = v]
    BY <1>2, <1>3
  <1>5. ~(a < MemSize) => Effect(op, m) = m
    <2>1. ~(a < MemSize) => a \notin Cells
      BY MemSizeAssumption DEF Cells
    <2> QED BY <1>2, <1>3, <2>1
  <1>6. InBounds(op) <=> a < MemSize
    BY <1>1, MemSizeAssumption DEF InBounds, Width
  <1>7. Outcome(op, m).error = "OK" <=> a < MemSize
    BY <1>1, <1>6 DEF Outcome, Ok, Failed
  <1> QED BY <1>4, <1>5, <1>7 DEF op

(* A CAS stores its word if it finds what it tests for.                        *)
LEMMA CasOne ==
  ASSUME NEW a \in Nat, NEW t, NEW v, NEW m
  PROVE  /\ Swaps(Cas(a, t, v), m) <=> a < MemSize /\ m[a] = t
         /\ Swaps(Cas(a, t, v), m) => Effect(Cas(a, t, v), m) = [m EXCEPT ![a] = v]
         /\ ~Swaps(Cas(a, t, v), m) => Effect(Cas(a, t, v), m) = m
         /\ Outcome(Cas(a, t, v), m).error = "OK" <=> a < MemSize
         /\ a < MemSize => (Outcome(Cas(a, t, v), m).result[1] # 0 <=> Swaps(Cas(a, t, v), m))
  <1> DEFINE op == Cas(a, t, v)
  <1>1. op.kind = "CAS" /\ op.addr = a /\ op.test = t /\ op.value = v
    BY DEF Cas
  <1>2. InBounds(op) <=> a < MemSize
    BY <1>1, MemSizeAssumption DEF InBounds, Width
  <1>3. Swaps(op, m) <=> a < MemSize /\ m[a] = t
    BY <1>1, <1>2 DEF Swaps
  <1>4. /\ Swaps(op, m) => Effect(op, m) = [m EXCEPT ![a] = v]
        /\ ~Swaps(op, m) => Effect(op, m) = m
    BY <1>1 DEF Effect
  <1>5. Outcome(op, m).error = "OK" <=> a < MemSize
    BY <1>1, <1>2 DEF Outcome, Ok, Failed
  <1>6. a < MemSize => Outcome(op, m).result[1] = IF Swaps(op, m) THEN 1 ELSE 0
    BY <1>1, <1>2 DEF Outcome, Ok, Failed
  <1> HIDE DEF op
  <1> QED BY <1>3, <1>4, <1>5, <1>6 DEF op

(* What serving a write of several words does and answers.                     *)
LEMMA WriteMany ==
  ASSUME NEW a \in Nat, NEW vs \in Seq(Int), NEW m \in [Cells -> Int]
  PROVE  /\ Effect(Write(a, vs), m) = [x \in Cells |-> IF x >= a /\ x < a + Len(vs)
                                                      THEN vs[x - a + 1] ELSE m[x]]
         /\ Outcome(Write(a, vs), m).error = "OK" <=> Len(vs) = 0 \/ a + Len(vs) <= MemSize
  <1> DEFINE op == Write(a, vs)
  <1>1. op.kind = "WRITE" /\ op.addr = a /\ op.values = vs /\ Len(vs) \in Nat
    BY DEF Write
  <1> HIDE DEF op
  <1>2. Effect(op, m) = [x \in Cells |-> IF /\ op.addr >= 0
                                            /\ x \in op.addr .. op.addr + Len(op.values) - 1
                                         THEN op.values[x - op.addr + 1] ELSE m[x]]
    BY <1>1 DEF Effect
  <1>3. \A x \in Cells : op.addr >= 0 /\ x \in op.addr .. op.addr + Len(op.values) - 1
                           <=> x >= a /\ x < a + Len(vs)
    BY <1>1, MemSizeAssumption DEF Cells
  <1>4. Effect(op, m) = [x \in Cells |-> IF x >= a /\ x < a + Len(vs)
                                         THEN vs[x - a + 1] ELSE m[x]]
    BY <1>1, <1>2, <1>3
  <1>5. InBounds(op) <=> Len(vs) = 0 \/ a + Len(vs) <= MemSize
    BY <1>1, MemSizeAssumption DEF InBounds, Width
  <1>6. Outcome(op, m).error = "OK" <=> Len(vs) = 0 \/ a + Len(vs) <= MemSize
    BY <1>1, <1>5 DEF Outcome, Ok, Failed
  <1> QED BY <1>4, <1>6 DEF op

(* What serving a read of several words does and answers.                      *)
LEMMA ReadMany ==
  ASSUME NEW a \in Nat, NEW m, NEW vs \in Seq(Int), a + Len(vs) <= MemSize,
         \A k \in 1 .. Len(vs) : m[a + k - 1] = vs[k]
  PROVE  /\ Effect(Read(a, Len(vs)), m) = m
         /\ Outcome(Read(a, Len(vs)), m).error = "OK"
         /\ Outcome(Read(a, Len(vs)), m).result = vs
  <1> DEFINE op == Read(a, Len(vs))
  <1>1. op.kind = "READ" /\ op.addr = a /\ op.len = Len(vs) /\ Len(vs) \in Nat
    BY DEF Read
  <1> HIDE DEF op
  <1>2. Width(op) = Len(vs) /\ InBounds(op)
    BY <1>1 DEF Width, InBounds
  <1>3. vs = [k \in 1 .. Len(vs) |-> m[a + k - 1]]
    BY <1>1
  <1>4. Outcome(op, m) = Ok(vs) /\ Effect(op, m) = m
    BY <1>1, <1>2, <1>3 DEF Outcome, Effect
  <1> QED BY <1>4 DEF op, Ok

-------------------------------------------------------------------------------
FillLabels == {"writeNext", "writeVal", "writeLen", "writeKey", "readHead", "link", "publish"}
PutLabels  == {"allocRead", "allocCas"} \cup FillLabels
FindLabels == {"findHead", "cmpLen", "cmpKey", "findNext", "readVal"}

(* A put between its allocation and its publication has a block of its own.    *)
Filling(c) == pc[c] \in FillLabels

(* The record of key k at word p and that of l at q share no word.             *)
Apart(p, k, q, l) == p + recLen(k) <= q \/ q + recLen(l) <= p

(* The words of a record behind its link.                                      *)
HasVal(p, v)   == p + 1 < MemSize /\ mem[p + 1] = v
HasLen(p, k)   == p + 2 < MemSize /\ mem[p + 2] = KeyLen[k]
HasWords(p, k) == /\ p + recLen(k) <= MemSize
                  /\ \A w \in DOMAIN KeyWords[k] : mem[p + 2 + w] = KeyWords[k][w]
Complete(p, k, v) == HasVal(p, v) /\ HasLen(p, k) /\ HasWords(p, k)

(* Where the n-th record of bin b is, 0 behind the last.                       *)
From(b, n) == IF n > Len(chain[b]) THEN 0 ELSE chain[b][n].ptr

Records == [ptr : Nat, key : Key, val : Nat]

Types == /\ TypeOK
         /\ chain \in [Bins -> Seq(Records)]

(* Which call a thread is in at which label.                                   *)
LabelAt(c) ==
  /\ pc[c] \in {"out", "ready", "initCounter", "initBin"} => job[c] = NoJob
  /\ pc[c] \in {"queued", "return"} => job[c] \in Jobs
  /\ pc[c] \in PutLabels => job[c] \in Jobs /\ job[c].kind = "put"
  /\ pc[c] \in FindLabels => job[c] \in Jobs /\ job[c].kind \in {"get", "has"}
  /\ pc[c] = "queued" => c \in Active
  /\ pc[c] = "initBin" => i[c] < N

(* The table is initialised before anybody uses it, by one alone.              *)
StartedAt(c) ==
  /\ pc[c] = "initCounter" => mem[0] < TableEnd
  /\ pc[c] = "initBin" => mem[0] = TableEnd
  /\ pc[c] \notin {"out", "check", "initCounter"} => mem[0] >= TableEnd
  /\ pc[c] = "check" /\ job[c] # NoJob => mem[0] >= TableEnd
  /\ pc[c] \in {"initCounter", "initBin"} \/ (pc[c] = "check" /\ mem[0] < TableEnd)
       => \A d \in Client \ {c} : pc[d] = "out"

Started == /\ (\A c \in Client : pc[c] = "out") => mem[0] < TableEnd
           /\ \A c \in Client : StartedAt(c)

(* A block lies behind the heads and below the counter.                        *)
Block(p, k) == p >= TableEnd /\ p + recLen(k) <= mem[0]

(* The block of a put is no published record's.                                *)
OwnAt(c) ==
  /\ pc[c] = "allocCas" => ptr[c] >= TableEnd
  /\ Filling(c) =>
       /\ Block(ptr[c], job[c].key)
       /\ \A b \in Bins : \A n \in 1 .. Len(chain[b]) :
            Apart(ptr[c], job[c].key, chain[b][n].ptr, chain[b][n].key)

(* How far a put has filled its block.                                         *)
FilledAt(c) ==
  /\ pc[c] \in {"writeLen", "writeKey", "readHead", "link", "publish"} =>
       HasVal(ptr[c], job[c].val)
  /\ pc[c] \in {"writeKey", "readHead", "link", "publish"} => HasLen(ptr[c], job[c].key)
  /\ pc[c] \in {"readHead", "link", "publish"} => HasWords(ptr[c], job[c].key)
  /\ pc[c] = "publish" => mem[ptr[c]] = old[c]

PutsApart == \A c, d \in Client : c # d /\ Filling(c) /\ Filling(d) =>
               Apart(ptr[c], job[c].key, ptr[d], job[d].key)

Published == \A b, d \in Bins : \A n \in 1 .. Len(chain[b]), m \in 1 .. Len(chain[d]) :
               /\ Block(chain[b][n].ptr, chain[b][n].key)
               /\ <<b, n>> # <<d, m>> => Apart(chain[b][n].ptr, chain[b][n].key,
                                               chain[d][m].ptr, chain[d][m].key)

(* The chains are in memory.                                                   *)
Linked ==
  \A b \in Bins :
    /\ mem[b] = From(b, 1)
    /\ \A n \in 1 .. Len(chain[b]) :
         /\ mem[chain[b][n].ptr] = From(b, n + 1)
         /\ Complete(chain[b][n].ptr, chain[b][n].key, chain[b][n].val)

IInv == /\ Types /\ Started /\ PutsApart /\ Published /\ Linked
        /\ \A c \in Client : LabelAt(c) /\ OwnAt(c) /\ FilledAt(c)

-------------------------------------------------------------------------------
(* Where the bins and the counter are.                                         *)
LEMMA Layout ==
  /\ TableEnd \in Nat /\ TableEnd >= 2 /\ MemSize >= TableEnd /\ 0 \in Cells
  /\ \A k \in Key : hashPtr(k) \in Bins
  /\ \A b \in Bins : b \in Nat /\ 1 <= b /\ b < TableEnd /\ b \in Cells
  /\ \A k \in Key : /\ KeyLen[k] \in Nat /\ KeyWords[k] \in Seq(Nat)
                    /\ Len(KeyWords[k]) \in Nat /\ recLen(k) \in Nat /\ recLen(k) >= 3
                    /\ DOMAIN KeyWords[k] = 1 .. Len(KeyWords[k])
                    /\ recLen(k) = 3 + Len(KeyWords[k])
  <1>1. TableEnd \in Nat /\ TableEnd >= 2 /\ MemSize >= TableEnd /\ 0 \in Cells
    BY DHTAssumption, TableAssumption, MemSizeAssumption DEF TableEnd, Cells
  <1>2. \A k \in Key : hashPtr(k) \in Bins
    BY DEF Bins
  <1>3. ASSUME NEW b \in Bins PROVE b \in Nat /\ 1 <= b /\ b < TableEnd /\ b \in Cells
    <2>1. PICK k \in Key : b = N + Hash[k]
      BY DEF Bins, hashPtr
    <2>2. N \in Nat /\ Hash[k] \in -(N - 1) .. N - 1
      BY DHTAssumption
    <2> QED BY <1>1, <2>1, <2>2, MemSizeAssumption DEF TableEnd, Cells
  <1>4. ASSUME NEW k \in Key
        PROVE  /\ KeyLen[k] \in Nat /\ KeyWords[k] \in Seq(Nat)
               /\ Len(KeyWords[k]) \in Nat /\ recLen(k) \in Nat /\ recLen(k) >= 3
               /\ DOMAIN KeyWords[k] = 1 .. Len(KeyWords[k])
               /\ recLen(k) = 3 + Len(KeyWords[k])
    <2>1. KeyLen[k] \in Nat /\ KeyWords[k] \in Seq(Nat)
      BY DHTAssumption
    <2> QED BY <2>1 DEF recLen
  <1> QED BY <1>1, <1>2, <1>3, <1>4

(* What a call can be.                                                         *)
LEMMA JobTypes ==
  /\ NoJob \notin Jobs /\ NoJob.kind = "none"
  /\ \A j \in Jobs : /\ j.kind \in {"put", "get", "has"} /\ j.key \in Key
                     /\ j.kind = "put" => j.val \in Nat
  <1>1. NoJob.kind = "none"
    BY DEF NoJob
  <1>2. \A j \in Jobs : j.kind # "none"
    BY DHTAssumption
  <1> QED BY <1>1, <1>2, DHTAssumption

(* What a published record can be.                                             *)
LEMMA RecordTypes ==
  ASSUME Types, NEW b \in Bins
  PROVE  /\ chain[b] \in Seq(Records) /\ Len(chain[b]) \in Nat
         /\ DOMAIN chain[b] = 1 .. Len(chain[b])
         /\ \A n \in 1 .. Len(chain[b]) :
              /\ chain[b][n] \in Records /\ chain[b][n].ptr \in Nat
              /\ chain[b][n].key \in Key /\ chain[b][n].val \in Nat
  <1>1. chain[b] \in Seq(Records)
    BY DEF Types
  <1>2. \A n \in 1 .. Len(chain[b]) : chain[b][n] \in Records
    BY <1>1
  <1> QED BY <1>1, <1>2 DEF Records

(* The variables' types, one by one.                                           *)
LEMMA VarTypes ==
  ASSUME Types
  PROVE  /\ pc \in [Client -> Label] /\ job \in [Client -> Jobs \cup {NoJob}]
         /\ ptr \in [Client -> Nat] /\ old \in [Client -> Nat] /\ i \in [Client -> 0 .. N]
         /\ result \in [Client -> Nat \cup {Exception}] /\ jobs \in [Client -> 0 .. MaxJobs]
         /\ mem \in [Cells -> Nat] /\ mem \in [Cells -> Int] /\ mem[0] \in Nat
         /\ holder \in Active \cup {Nobody}
  BY Layout DEF Types, TypeOK, ProgramTypeOK

-------------------------------------------------------------------------------
(* A step of c changes the locals of c only.                                   *)
Others(c) == \A d \in Client \ {c} :
               /\ pc'[d] = pc[d] /\ job'[d] = job[d] /\ ptr'[d] = ptr[d]
               /\ old'[d] = old[d] /\ i'[d] = i[d] /\ result'[d] = result[d]

Frame(c) == /\ Others(c)
            /\ pc' = [d \in Client |-> pc'[d]] /\ job' = [d \in Client |-> job'[d]]
            /\ ptr' = [d \in Client |-> ptr'[d]] /\ old' = [d \in Client |-> old'[d]]
            /\ i' = [d \in Client |-> i'[d]] /\ result' = [d \in Client |-> result'[d]]

(* An operation of c moves c only.                                             *)
LEMMA OperateFrame ==
  ASSUME Types, NEW c \in Client, Operate(c)
  PROVE  /\ Frame(c) /\ job' = job /\ jobs' = jobs
         /\ holder' \in Active \cup {Nobody}
         /\ pc[c] \notin {"out", "ready", "queued", "return"}
         /\ mem' = Effect(OpOf(c), mem) /\ Record(c, OpOf(c))
         /\ Continue(c, Outcome(OpOf(c), mem))
  <1> DEFINE res == Outcome(OpOf(c), mem)
  <1>1. Continue(c, res) /\ mem' = Effect(OpOf(c), mem) /\ Record(c, OpOf(c))
    BY DEF Operate
  <1>2. job' = job /\ jobs' = jobs /\ holder' \in Active \cup {Nobody}
    BY <1>1, VarTypes DEF Operate, Continue
  <1>3. pc[c] \notin {"out", "ready", "queued", "return"}
    BY DEF Operate, Waiting
  <1> HIDE DEF res
  <1> DEFINE Moves == /\ \E l : Goto(c, l)
                      /\ ptr' = ptr \/ \E v : ptr' = [ptr EXCEPT ![c] = v]
                      /\ old' = old \/ \E v : old' = [old EXCEPT ![c] = v]
                      /\ i' = i \/ \E v : i' = [i EXCEPT ![c] = v]
                      /\ result' = result \/ \E v : result' = [result EXCEPT ![c] = v]
  <1> USE DEF Keep, Returns, Constructed
  <1>4. ASSUME AfterCheck(c, res) \/ AfterInit(c) PROVE Moves
    BY <1>4, Zenon DEF AfterCheck, AfterInit
  <1>5. ASSUME AfterAlloc(c, res) \/ AfterFill(c) PROVE Moves
    BY <1>5, Zenon DEF AfterAlloc, AfterFill
  <1>6. ASSUME AfterLink(c, res) PROVE Moves
    BY <1>6, Zenon DEF AfterLink
  <1>7. ASSUME AfterFind(c, res) PROVE Moves
    BY <1>7, Zenon DEF AfterFind, Candidate, Found
  <1>8. ASSUME /\ IF job[c] = NoJob THEN Goto(c, "out") /\ UNCHANGED result
                                  ELSE Returns(c, Exception)
               /\ UNCHANGED <<ptr, old, i>>
        PROVE  Moves
    BY <1>8, Zenon
  <1>9. Moves
    BY <1>1, <1>4, <1>5, <1>6, <1>7, <1>8 DEF Continue
  <1>10. Frame(c)
    <2>1. PICK l : pc' = [pc EXCEPT ![c] = l]
      BY <1>9 DEF Goto
    <2>2. /\ pc' = [d \in Client |-> pc'[d]]
          /\ \A d \in Client \ {c} : pc'[d] = pc[d]
      BY <2>1, VarTypes
    <2>3. /\ ptr' = [d \in Client |-> ptr'[d]]
          /\ \A d \in Client \ {c} : ptr'[d] = ptr[d]
      BY <1>9, VarTypes
    <2>4. /\ old' = [d \in Client |-> old'[d]]
          /\ \A d \in Client \ {c} : old'[d] = old[d]
      BY <1>9, VarTypes
    <2>5. /\ i' = [d \in Client |-> i'[d]]
          /\ \A d \in Client \ {c} : i'[d] = i[d]
      BY <1>9, VarTypes
    <2>6. /\ result' = [d \in Client |-> result'[d]]
          /\ \A d \in Client \ {c} : result'[d] = result[d]
      BY <1>9, VarTypes
    <2>7. job' = [d \in Client |-> job'[d]]
      BY <1>2, VarTypes
    <2> QED BY <1>2, <2>2, <2>3, <2>4, <2>5, <2>6, <2>7 DEF Frame, Others
  <1> QED BY <1>1, <1>2, <1>3, <1>10 DEF res

(* A step whose locals have their types keeps all types.                       *)
LEMMA TypesKeep ==
  ASSUME Types, NEW c \in Client, Frame(c),
         pc'[c] \in Label, job'[c] \in Jobs \cup {NoJob}, ptr'[c] \in Nat, old'[c] \in Nat,
         i'[c] \in 0 .. N, result'[c] \in Nat \cup {Exception},
         jobs' \in [Client -> 0 .. MaxJobs], mem' \in [Cells -> Nat],
         holder' \in Active \cup {Nobody}, chain' \in [Bins -> Seq(Records)]
  PROVE  Types'
  <1>1. \A d \in Client : /\ pc'[d] \in Label /\ job'[d] \in Jobs \cup {NoJob}
                          /\ ptr'[d] \in Nat /\ old'[d] \in Nat /\ i'[d] \in 0 .. N
                          /\ result'[d] \in Nat \cup {Exception}
    <2> SUFFICES ASSUME NEW d \in Client \ {c}
                 PROVE  /\ pc'[d] \in Label /\ job'[d] \in Jobs \cup {NoJob}
                        /\ ptr'[d] \in Nat /\ old'[d] \in Nat /\ i'[d] \in 0 .. N
                        /\ result'[d] \in Nat \cup {Exception}
      OBVIOUS
    <2> QED BY VarTypes DEF Frame, Others
  <1>2. /\ pc' \in [Client -> Label] /\ job' \in [Client -> Jobs \cup {NoJob}]
        /\ ptr' \in [Client -> Nat] /\ old' \in [Client -> Nat] /\ i' \in [Client -> 0 .. N]
        /\ result' \in [Client -> Nat \cup {Exception}]
    BY <1>1 DEF Frame
  <1>3. \A b \in Bins : \A n \in DOMAIN chain'[b] :
          chain'[b][n].ptr \in Nat /\ chain'[b][n].key \in Key
    <2> SUFFICES ASSUME NEW b \in Bins, NEW n \in DOMAIN chain'[b]
                 PROVE  chain'[b][n].ptr \in Nat /\ chain'[b][n].key \in Key
      OBVIOUS
    <2>1. chain'[b] \in Seq(Records)
      OBVIOUS
    <2>2. chain'[b][n] \in Records
      BY <2>1
    <2> QED BY <2>2 DEF Records
  <1> QED BY <1>2, <1>3 DEF Types, TypeOK, ProgramTypeOK

(* The words of a record stay where a step writes elsewhere.                   *)
LEMMA RecordKept ==
  ASSUME NEW p \in Nat, NEW k \in Key,
         \A a \in Cells : a >= p /\ a < p + recLen(k) => mem'[a] = mem[a]
  PROVE  /\ \A v : HasVal(p, v) => HasVal(p, v)'
         /\ HasLen(p, k) => HasLen(p, k)'
         /\ HasWords(p, k) => HasWords(p, k)'
         /\ p + 1 < MemSize => mem'[p] = mem[p]
  <1>1. recLen(k) = 3 + Len(KeyWords[k]) /\ Len(KeyWords[k]) \in Nat
        /\ DOMAIN KeyWords[k] = 1 .. Len(KeyWords[k])
    BY Layout
  <1>2. /\ p < MemSize => p \in Cells
        /\ p + 1 < MemSize => p + 1 \in Cells
        /\ p + 2 < MemSize => p + 2 \in Cells
    BY MemSizeAssumption DEF Cells
  <1>3. ASSUME NEW w \in 1 .. Len(KeyWords[k]), p + recLen(k) <= MemSize
        PROVE  mem'[p + 2 + w] = mem[p + 2 + w]
    <2>1. p + 2 + w \in Cells /\ p + 2 + w >= p /\ p + 2 + w < p + recLen(k)
      BY <1>1, <1>3, MemSizeAssumption DEF Cells
    <2> QED BY <2>1
  <1>4. HasWords(p, k) => HasWords(p, k)'
    BY <1>1, <1>3 DEF HasWords
  <1>5. /\ \A v : HasVal(p, v) => HasVal(p, v)'
        /\ HasLen(p, k) => HasLen(p, k)'
        /\ p + 1 < MemSize => mem'[p] = mem[p]
    BY <1>1, <1>2, MemSizeAssumption DEF HasVal, HasLen
  <1> QED BY <1>4, <1>5

(* A step of c that writes at most the counter, upwards, its own block and     *)
(* words that are nobody's.                                                    *)
Own(c, a) == /\ Filling(c)
             /\ a >= ptr[c] /\ a < ptr[c] + recLen(job[c].key)

Careful(c) ==
  /\ mem' \in [Cells -> Nat] /\ mem'[0] >= mem[0]
  /\ \A a \in Cells : a # 0 /\ mem'[a] # mem[a] =>
       a \notin Bins /\ (a < TableEnd \/ Own(c, a))

(* It leaves alone what is published.                                          *)
LEMMA CarefulRecords ==
  ASSUME IInv, NEW c \in Client, Careful(c), chain' = chain
  PROVE  \A b \in Bins :
           /\ mem'[b] = mem[b]
           /\ \A n \in 1 .. Len(chain[b]) :
                /\ mem'[chain[b][n].ptr] = mem[chain[b][n].ptr]
                /\ Complete(chain[b][n].ptr, chain[b][n].key, chain[b][n].val)'
                /\ Block(chain[b][n].ptr, chain[b][n].key)'
  <1> SUFFICES ASSUME NEW b \in Bins
               PROVE  /\ mem'[b] = mem[b]
                      /\ \A n \in 1 .. Len(chain[b]) :
                           /\ mem'[chain[b][n].ptr] = mem[chain[b][n].ptr]
                           /\ Complete(chain[b][n].ptr, chain[b][n].key, chain[b][n].val)'
                           /\ Block(chain[b][n].ptr, chain[b][n].key)'
    OBVIOUS
  <1>1. Types
    BY DEF IInv
  <1>2. mem'[b] = mem[b]
    BY Layout DEF Careful
  <1>3. ASSUME NEW n \in 1 .. Len(chain[b])
        PROVE  /\ mem'[chain[b][n].ptr] = mem[chain[b][n].ptr]
               /\ Complete(chain[b][n].ptr, chain[b][n].key, chain[b][n].val)'
               /\ Block(chain[b][n].ptr, chain[b][n].key)'
    <2>1. PICK p, k, v : p = chain[b][n].ptr /\ k = chain[b][n].key /\ v = chain[b][n].val
      OBVIOUS
    <2>2. p \in Nat /\ k \in Key /\ v \in Nat
      BY <1>1, <2>1, RecordTypes
    <2>3. /\ Block(p, k) /\ Complete(p, k, v)
          /\ Filling(c) => Apart(ptr[c], job[c].key, p, k)
      BY <2>1 DEF IInv, Published, Linked, OwnAt
    <2>4. \A a \in Cells : a >= p /\ a < p + recLen(k) => mem'[a] = mem[a]
      <3> SUFFICES ASSUME NEW a \in Cells, a >= p, a < p + recLen(k), mem'[a] # mem[a]
                   PROVE  FALSE
        OBVIOUS
      <3>1. a \in Int /\ recLen(k) \in Nat /\ TableEnd \in Nat /\ TableEnd >= 2
        BY <2>2, Layout, MemSizeAssumption DEF Cells
      <3>2. Own(c, a)
        BY <2>2, <2>3, <3>1 DEF Careful, Block
      <3>3. ptr[c] \in Nat /\ job[c].key \in Key
        BY <1>1, <3>2, VarTypes, JobTypes DEF Own, IInv, LabelAt, Filling, PutLabels
      <3> QED BY <2>2, <2>3, <3>1, <3>2, <3>3, Layout DEF Own, Apart
    <2>5. Complete(p, k, v)' /\ mem'[p] = mem[p]
      BY <2>2, <2>3, <2>4, RecordKept DEF Complete, HasVal
    <2>6. Block(p, k)'
      <3>1. mem[0] \in Nat /\ mem'[0] \in Nat /\ mem'[0] >= mem[0]
        BY <1>1, Layout, VarTypes DEF Careful
      <3>2. recLen(k) \in Nat /\ Block(p, k)
        BY <2>2, <2>3, Layout
      <3> QED BY <2>2, <3>1, <3>2 DEF Block
    <2> QED BY <2>1, <2>5, <2>6
  <1> QED BY <1>2, <1>3

(* It leaves alone the blocks of the other puts.                               *)
LEMMA CarefulOthers ==
  ASSUME IInv, NEW c \in Client, Frame(c), Careful(c), chain' = chain,
         NEW d \in Client \ {c}
  PROVE  LabelAt(d)' /\ OwnAt(d)' /\ FilledAt(d)'
  <1>1. Types /\ LabelAt(d) /\ OwnAt(d) /\ FilledAt(d)
    BY DEF IInv
  <1>2. /\ pc'[d] = pc[d] /\ job'[d] = job[d] /\ ptr'[d] = ptr[d]
        /\ old'[d] = old[d] /\ i'[d] = i[d]
    BY DEF Frame, Others
  <1>3. LabelAt(d)'
    BY <1>1, <1>2 DEF LabelAt
  <1>4. mem[0] \in Nat /\ mem'[0] \in Nat /\ mem'[0] >= mem[0]
    BY <1>1, Layout, VarTypes DEF Careful
  <1>5. CASE ~Filling(d)
    BY <1>1, <1>2, <1>3, <1>5 DEF OwnAt, FilledAt, Filling, FillLabels
  <1>6. CASE Filling(d)
    <2>1. PICK p, k, v : p = ptr[d] /\ k = job[d].key /\ v = job[d].val
      OBVIOUS
    <2>2. p \in Nat /\ k \in Key /\ recLen(k) \in Nat
      BY <1>1, <1>6, <2>1, VarTypes, JobTypes, Layout DEF LabelAt, Filling, PutLabels
    <2>3. Block(p, k)
      BY <1>1, <1>6, <2>1 DEF OwnAt
    <2>4. Block(p, k)'
      BY <1>4, <2>2, <2>3 DEF Block
    <2>5. OwnAt(d)'
      BY <1>1, <1>2, <1>6, <2>1, <2>4 DEF OwnAt, Filling, FillLabels
    <2>6. \A a \in Cells : a >= p /\ a < p + recLen(k) => mem'[a] = mem[a]
      <3> SUFFICES ASSUME NEW a \in Cells, a >= p, a < p + recLen(k), mem'[a] # mem[a]
                   PROVE  FALSE
        OBVIOUS
      <3>1. a \in Int /\ recLen(k) \in Nat /\ TableEnd \in Nat /\ TableEnd >= 2
        BY <2>2, Layout, MemSizeAssumption DEF Cells
      <3>2. Own(c, a)
        BY <2>2, <2>3, <3>1 DEF Careful, Block
      <3>3. ptr[c] \in Nat /\ job[c].key \in Key
        BY <1>1, <3>2, VarTypes, JobTypes DEF Own, IInv, LabelAt, Filling, PutLabels
      <3>4. Apart(ptr[c], job[c].key, p, k)
        BY <1>6, <2>1, <3>2 DEF IInv, PutsApart, Own
      <3> QED BY <2>2, <3>1, <3>2, <3>3, <3>4, Layout DEF Own, Apart
    <2>7. /\ HasVal(p, v) => HasVal(p, v)' /\ mem'[p] = mem[p]
          /\ HasLen(p, k) => HasLen(p, k)'
          /\ HasWords(p, k) => HasWords(p, k)'
      BY <2>2, <2>6, RecordKept DEF HasVal
    <2>8. FilledAt(d)'
      BY <1>1, <1>2, <2>1, <2>7 DEF FilledAt
    <2> QED BY <1>3, <2>5, <2>8
  <1> QED BY <1>5, <1>6

(* A careful step that allocates and publishes nothing keeps the invariant, if *)
(* what it says of c is kept.                                                  *)
LEMMA CarefulKeeps ==
  ASSUME IInv, NEW c \in Client, Frame(c), Careful(c), chain' = chain,
         Types', Started', LabelAt(c)', FilledAt(c)',
         pc'[c] = "allocCas" => ptr'[c] >= TableEnd,
         Filling(c)' => Filling(c) /\ ptr'[c] = ptr[c] /\ job'[c] = job[c]
  PROVE  IInv'
  <1>1. Types
    BY DEF IInv
  <1>2. PutsApart'
    BY DEF IInv, PutsApart, Frame, Others, Filling
  <1>3. Published'
    BY CarefulRecords DEF IInv, Published
  <1>4. Linked'
    BY CarefulRecords DEF IInv, Linked, From
  <1>5. mem[0] \in Nat /\ mem'[0] \in Nat /\ mem'[0] >= mem[0]
    BY <1>1, Layout, VarTypes DEF Careful
  <1>6. OwnAt(c)'
    <2>1. CASE ~Filling(c)'
      BY <2>1 DEF OwnAt
    <2>2. CASE Filling(c)'
      <3>1. PICK p, k : p = ptr[c] /\ k = job[c].key
        OBVIOUS
      <3>2. p \in Nat /\ recLen(k) \in Nat
        BY <1>1, <2>2, <3>1, VarTypes, JobTypes, Layout DEF IInv, LabelAt, Filling, PutLabels
      <3>3. Block(p, k)
        BY <2>2, <3>1 DEF IInv, OwnAt
      <3>4. Block(p, k)'
        BY <1>5, <3>2, <3>3 DEF Block
      <3> QED BY <2>2, <3>1, <3>4 DEF IInv, OwnAt
    <2> QED BY <2>1, <2>2 DEF Write
  <1> QED BY <1>2, <1>3, <1>4, <1>6, CarefulOthers DEF IInv

(* Once the table is in use it stays so.                                       *)
LEMMA StartedKeeps ==
  ASSUME IInv, NEW c \in Client, Frame(c), mem'[0] \in Nat, mem'[0] >= mem[0],
         pc[c] \notin {"out", "check", "initCounter", "initBin"},
         pc'[c] \notin {"out", "check", "initCounter", "initBin"}
  PROVE  Started'
  <1>1. mem[0] >= TableEnd /\ mem[0] \in Nat /\ TableEnd \in Nat
    BY VarTypes, Layout DEF IInv, Started, StartedAt
  <1>2. mem'[0] >= TableEnd
    BY <1>1
  <1>3. ASSUME NEW d \in Client PROVE StartedAt(d)'
    <2>1. pc'[d] \notin {"initCounter", "initBin"}
      <3>1. CASE d = c
        BY <3>1
      <3>2. CASE d # c
        <4>1. pc'[d] = pc[d]
          BY <3>2 DEF Frame, Others
        <4>2. pc[d] \in {"initCounter", "initBin"} => pc[c] = "out"
          BY <3>2 DEF IInv, Started, StartedAt
        <4> QED BY <4>1, <4>2
      <3> QED BY <3>1, <3>2
    <2>2. ~(mem'[0] < TableEnd)
      BY <1>1, <1>2
    <2> QED BY <1>2, <2>1, <2>2 DEF StartedAt
  <1> QED BY <1>3 DEF Started

(* An operation inside a put, get or has that publishes nothing.               *)
LEMMA WorkKeeps ==
  ASSUME IInv, NEW c \in Client, Operate(c), chain' = chain, Careful(c),
         pc[c] \in PutLabels \cup FindLabels,
         pc'[c] \in PutLabels \cup FindLabels \cup {"return"},
         pc'[c] \in PutLabels => pc[c] \in PutLabels,
         pc'[c] \in FindLabels => pc[c] \in FindLabels,
         ptr'[c] \in Nat, old'[c] \in Nat, i'[c] = i[c],
         result'[c] \in Nat \cup {Exception},
         FilledAt(c)', pc'[c] = "allocCas" => ptr'[c] >= TableEnd,
         Filling(c)' => Filling(c) /\ ptr'[c] = ptr[c]
  PROVE  IInv'
  <1>1. Types /\ LabelAt(c)
    BY DEF IInv
  <1>2. Frame(c) /\ job' = job /\ jobs' = jobs /\ holder' \in Active \cup {Nobody}
    BY <1>1, OperateFrame
  <1>3. LabelAt(c)'
    BY <1>1, <1>2, JobTypes DEF LabelAt, PutLabels, FindLabels, FillLabels
  <1>4. Types'
    <2>1. pc'[c] \in Label
      BY DEF PutLabels, FindLabels, FillLabels, Label
    <2>2. job'[c] \in Jobs \cup {NoJob} /\ i'[c] \in 0 .. N /\ jobs' \in [Client -> 0 .. MaxJobs]
      BY <1>1, <1>2, VarTypes
    <2>3. mem' \in [Cells -> Nat] /\ chain' \in [Bins -> Seq(Records)]
      BY <1>1 DEF Careful, Types
    <2> QED BY <1>1, <1>2, <2>1, <2>2, <2>3, TypesKeep
  <1>5. Started'
    <2>1. /\ pc[c] \notin {"out", "check", "initCounter", "initBin"}
          /\ pc'[c] \notin {"out", "check", "initCounter", "initBin"}
      BY DEF PutLabels, FindLabels, FillLabels
    <2> QED BY <1>2, <2>1, Layout, StartedKeeps DEF Careful
  <1> QED BY <1>2, <1>3, <1>4, <1>5, CarefulKeeps

(* The operation fails: the call returns an exception, its block is lost.      *)
LEMMA FailKeeps ==
  ASSUME IInv, NEW c \in Client, Operate(c), chain' = chain, Careful(c),
         pc[c] \in PutLabels \cup FindLabels, Outcome(OpOf(c), mem).error # "OK"
  PROVE  IInv'
  <1>1. Types /\ LabelAt(c)
    BY DEF IInv
  <1>2. job[c] # NoJob
    BY <1>1, JobTypes DEF LabelAt
  <1>3. /\ pc'[c] = "return" /\ result'[c] = Exception
        /\ ptr' = ptr /\ old' = old /\ i' = i
    BY <1>1, <1>2, OperateFrame, VarTypes DEF Continue, Returns, Goto
  <1>4. FilledAt(c)' /\ ~Filling(c)'
    BY <1>3 DEF FilledAt, Filling, FillLabels
  <1>5. ptr'[c] \in Nat /\ old'[c] \in Nat
    BY <1>1, <1>3, VarTypes
  <1> QED BY <1>3, <1>4, <1>5, WorkKeeps DEF PutLabels, FindLabels, FillLabels

(* A read changes nothing but its reader.                                      *)
LEMMA ReadCareful ==
  ASSUME IInv, NEW c \in Client, Operate(c), OpOf(c).kind = "READ"
  PROVE  mem' = mem /\ chain' = chain /\ Careful(c)
  <1>1. Types
    BY DEF IInv
  <1>2. mem' = mem
    BY <1>1, OperateFrame DEF Effect
  <1>3. pc[c] # "initBin"
    BY DEF OpOf, Write
  <1>4. chain' = chain
    BY <1>1, <1>3, OperateFrame DEF Record, Swaps
  <1> QED BY <1>1, <1>2, <1>4, VarTypes DEF Careful

-------------------------------------------------------------------------------
(* The operations of put.  The counter is read: where the block may begin.     *)
LEMMA AllocReadKeeps ==
  ASSUME IInv, NEW c \in Client, Operate(c), pc[c] = "allocRead" PROVE IInv'
  <1>1. Types /\ LabelAt(c)
    BY DEF IInv
  <1>2. OpOf(c) = Read(0, 1)
    BY DEF OpOf
  <1>3. mem' = mem /\ chain' = chain /\ Careful(c)
    BY <1>2, ReadCareful DEF Read
  <1>4. Outcome(OpOf(c), mem).error = "OK" /\ Outcome(OpOf(c), mem).result[1] = mem[0]
    BY <1>2, ReadOne, MemSizeAssumption
  <1>5. /\ pc'[c] = "allocCas" /\ ptr'[c] = mem[0]
        /\ old' = old /\ i' = i /\ result' = result
    BY <1>1, <1>4, OperateFrame, VarTypes
    DEF Continue, AfterCheck, AfterInit, AfterAlloc, AfterFill, AfterLink, AfterFind, Goto
  <1>6. mem[0] >= TableEnd
    BY DEF IInv, Started, StartedAt
  <1>7. FilledAt(c)' /\ ~Filling(c)'
    BY <1>5 DEF FilledAt, Filling, FillLabels
  <1> QED BY <1>1, <1>3, <1>5, <1>6, <1>7, WorkKeeps, VarTypes
          DEF PutLabels, FindLabels, FillLabels

(* What a put at work has.                                                     *)
LEMMA PutTypes ==
  ASSUME IInv, NEW c \in Client, pc[c] \in PutLabels
  PROVE  /\ job[c] \in Jobs /\ job[c].key \in Key /\ job[c].val \in Nat
         /\ ptr[c] \in Nat /\ old[c] \in Nat /\ result[c] \in Nat \cup {Exception}
         /\ hashPtr(job[c].key) \in Bins
         /\ recLen(job[c].key) = 3 + Len(KeyWords[job[c].key])
         /\ Len(KeyWords[job[c].key]) \in Nat /\ KeyLen[job[c].key] \in Nat
         /\ KeyWords[job[c].key] \in Seq(Nat)
         /\ DOMAIN KeyWords[job[c].key] = 1 .. Len(KeyWords[job[c].key])
  <1>1. job[c] \in Jobs /\ job[c].kind = "put"
    BY DEF IInv, LabelAt
  <1>2. job[c].key \in Key /\ job[c].val \in Nat
    BY <1>1, JobTypes
  <1>3. ptr[c] \in Nat /\ old[c] \in Nat /\ result[c] \in Nat \cup {Exception}
    BY VarTypes DEF IInv
  <1> QED BY <1>1, <1>2, <1>3, Layout

(* A write of words of the own block is careful.                               *)
LEMMA OwnWrite ==
  ASSUME IInv, NEW c \in Client, Operate(c), Filling(c), NEW a \in Nat, NEW vs \in Seq(Nat),
         a >= ptr[c], a + Len(vs) <= ptr[c] + recLen(job[c].key), OpOf(c) = Write(a, vs)
  PROVE  /\ Careful(c) /\ chain' = chain
         /\ mem' = [x \in Cells |-> IF x >= a /\ x < a + Len(vs)
                                    THEN vs[x - a + 1] ELSE mem[x]]
         /\ Outcome(OpOf(c), mem).error = "OK" <=> Len(vs) = 0 \/ a + Len(vs) <= MemSize
  <1>1. Types /\ LabelAt(c) /\ OwnAt(c) /\ pc[c] \in PutLabels
    BY DEF IInv, Filling, PutLabels
  <1>2. PICK p : p = ptr[c]
    OBVIOUS
  <1>3. /\ p \in Nat /\ p >= TableEnd /\ recLen(job[c].key) \in Nat
        /\ TableEnd \in Nat /\ TableEnd >= 2 /\ Len(vs) \in Nat /\ 0 \in Cells
    BY <1>1, <1>2, PutTypes, Layout DEF OwnAt, Block
  <1>4. vs \in Seq(Int)
    OBVIOUS
  <1>5. mem' = [x \in Cells |-> IF x >= a /\ x < a + Len(vs) THEN vs[x - a + 1] ELSE mem[x]]
    BY <1>1, <1>4, OperateFrame, VarTypes, WriteMany
  <1>6. Outcome(OpOf(c), mem).error = "OK" <=> Len(vs) = 0 \/ a + Len(vs) <= MemSize
    BY <1>1, <1>4, VarTypes, WriteMany
  <1>7. chain' = chain
    <2>1. OpOf(c).kind = "WRITE" /\ pc[c] # "initBin"
      BY DEF Write, Filling, FillLabels
    <2> QED BY <1>1, <2>1, OperateFrame DEF Record, Swaps
  <1>8. mem' \in [Cells -> Nat]
    <2>1. ASSUME NEW x \in Cells, x >= a, x < a + Len(vs) PROVE vs[x - a + 1] \in Nat
      <3>1. x \in Int
        BY MemSizeAssumption DEF Cells
      <3>2. x - a + 1 \in 1 .. Len(vs)
        BY <1>3, <2>1, <3>1
      <3> QED BY <3>2
    <2> QED BY <1>1, <1>5, <2>1, VarTypes
  <1>9. mem'[0] = mem[0]
    BY <1>2, <1>3, <1>5
  <1>10. ASSUME NEW x \in Cells, mem'[x] # mem[x]
         PROVE  x \notin Bins /\ Own(c, x)
    <2>1. x \in Int /\ x >= a /\ x < a + Len(vs)
      BY <1>5, <1>10, MemSizeAssumption DEF Cells
    <2>2. x >= p /\ x < p + recLen(job[c].key) /\ x >= TableEnd
      BY <1>2, <1>3, <2>1
    <2>3. x \notin Bins
      BY <2>1, <2>2, Layout
    <2> QED BY <1>2, <2>2, <2>3 DEF Own
  <1>11. Careful(c)
    <2>1. mem'[0] >= mem[0]
      BY <1>1, <1>9, VarTypes
    <2> QED BY <1>8, <1>10, <2>1 DEF Careful
  <1> QED BY <1>5, <1>6, <1>7, <1>11

(* The same for one word.                                                      *)
LEMMA OwnWord ==
  ASSUME IInv, NEW c \in Client, Operate(c), Filling(c), NEW a \in Nat, NEW v \in Nat,
         a \in {ptr[c], ptr[c] + 1, ptr[c] + 2}, OpOf(c) = Write(a, <<v>>)
  PROVE  /\ Careful(c) /\ chain' = chain
         /\ \A x \in Cells : mem'[x] = IF x = a THEN v ELSE mem[x]
         /\ Outcome(OpOf(c), mem).error = "OK" <=> a < MemSize
  <1>1. pc[c] \in PutLabels
    BY DEF Filling, PutLabels
  <1>2. PICK vs : vs = <<v>>
    OBVIOUS
  <1>3. vs \in Seq(Nat) /\ Len(vs) = 1 /\ vs[1] = v
    BY <1>2
  <1>4. a >= ptr[c] /\ a + Len(vs) <= ptr[c] + recLen(job[c].key)
    <2>1. recLen(job[c].key) \in Nat /\ recLen(job[c].key) >= 3 /\ ptr[c] \in Nat
      BY <1>1, PutTypes
    <2> QED BY <1>3, <2>1
  <1>5. OpOf(c) = Write(a, vs)
    BY <1>2
  <1>6. /\ Careful(c) /\ chain' = chain
        /\ mem' = [x \in Cells |-> IF x >= a /\ x < a + Len(vs) THEN vs[x - a + 1] ELSE mem[x]]
        /\ Outcome(OpOf(c), mem).error = "OK" <=> Len(vs) = 0 \/ a + Len(vs) <= MemSize
    BY <1>3, <1>4, <1>5, OwnWrite
  <1>7. ASSUME NEW x \in Cells PROVE mem'[x] = IF x = a THEN v ELSE mem[x]
    <2>1. x \in Int
      BY MemSizeAssumption DEF Cells
    <2>2. x >= a /\ x < a + Len(vs) <=> x = a
      BY <1>3, <2>1
    <2>3. mem'[x] = IF x = a THEN vs[x - a + 1] ELSE mem[x]
      BY <1>6, <2>2
    <2> QED BY <1>3, <2>1, <2>3
  <1> QED BY <1>3, <1>6, <1>7, MemSizeAssumption

(* The record is written, word by word.                                        *)
LEMMA WriteNextKeeps ==
  ASSUME IInv, NEW c \in Client, Operate(c), pc[c] = "writeNext" PROVE IInv'
  <1>1. Types /\ pc[c] \in PutLabels /\ Filling(c)
    BY DEF IInv, PutLabels, Filling, FillLabels
  <1>2. PICK p : p = ptr[c] /\ p \in Nat
    BY <1>1, PutTypes
  <1>3. OpOf(c) = Write(p, <<0>>)
    BY <1>2 DEF OpOf
  <1>4. Careful(c) /\ chain' = chain
    BY <1>1, <1>2, <1>3, OwnWord
  <1>5. CASE Outcome(OpOf(c), mem).error # "OK"
    BY <1>1, <1>4, <1>5, FailKeeps
  <1>6. CASE Outcome(OpOf(c), mem).error = "OK"
    <2>1. /\ pc'[c] = "writeVal" /\ ptr' = ptr /\ old' = old /\ i' = i /\ result' = result
      BY <1>1, <1>6, OperateFrame, VarTypes
      DEF Continue, AfterCheck, AfterInit, AfterAlloc, AfterFill, AfterLink, AfterFind,
          Goto, Keep
    <2>2. FilledAt(c)'
      BY <2>1 DEF FilledAt
    <2> QED BY <1>1, <1>4, <2>1, <2>2, WorkKeeps, PutTypes
            DEF PutLabels, FindLabels, FillLabels
  <1> QED BY <1>5, <1>6

(* The value goes into the record that c fills.                                *)
LEMMA WriteValKeeps ==
  ASSUME IInv, NEW c \in Client, Operate(c), pc[c] = "writeVal" PROVE IInv'
  <1>1. Types /\ pc[c] \in PutLabels /\ Filling(c)
    BY DEF IInv, PutLabels, Filling, FillLabels
  <1>2. PICK p, v : p = ptr[c] /\ v = job[c].val /\ p \in Nat /\ v \in Nat
    BY <1>1, PutTypes
  <1>3. OpOf(c) = Write(p + 1, <<v>>)
    BY <1>2 DEF OpOf
  <1>4. /\ Careful(c) /\ chain' = chain
        /\ \A x \in Cells : mem'[x] = IF x = p + 1 THEN v ELSE mem[x]
        /\ Outcome(OpOf(c), mem).error = "OK" <=> p + 1 < MemSize
    <2>1. p + 1 \in Nat /\ p + 1 \in {ptr[c], ptr[c] + 1, ptr[c] + 2}
      BY <1>2
    <2> QED BY <1>1, <1>2, <1>3, <2>1, OwnWord
  <1>5. CASE Outcome(OpOf(c), mem).error # "OK"
    BY <1>1, <1>4, <1>5, FailKeeps
  <1>6. CASE Outcome(OpOf(c), mem).error = "OK"
    <2>1. /\ pc'[c] = "writeLen" /\ ptr' = ptr /\ old' = old /\ i' = i /\ result' = result
          /\ job' = job
      BY <1>1, <1>6, OperateFrame, VarTypes
      DEF Continue, AfterCheck, AfterInit, AfterAlloc, AfterFill, AfterLink, AfterFind,
          Goto, Keep
    <2>2. p + 1 < MemSize /\ mem'[p + 1] = v
      BY <1>2, <1>4, <1>6, MemSizeAssumption DEF Cells
    <2>3. FilledAt(c)'
      BY <1>2, <2>1, <2>2 DEF FilledAt, HasVal
    <2> QED BY <1>1, <1>4, <2>1, <2>3, WorkKeeps, PutTypes
            DEF PutLabels, FindLabels, FillLabels
  <1> QED BY <1>5, <1>6


(* The length of the key goes into the record that c fills.                    *)
LEMMA WriteLenKeeps ==
  ASSUME IInv, NEW c \in Client, Operate(c), pc[c] = "writeLen" PROVE IInv'
  <1>1. Types /\ pc[c] \in PutLabels /\ Filling(c) /\ FilledAt(c)
    BY DEF IInv, PutLabels, Filling, FillLabels
  <1>2. PICK p, k, v : p = ptr[c] /\ k = job[c].key /\ v = KeyLen[k] /\ p \in Nat /\ v \in Nat
    BY <1>1, PutTypes
  <1>3. OpOf(c) = Write(p + 2, <<v>>)
    BY <1>2 DEF OpOf
  <1>4. /\ Careful(c) /\ chain' = chain
        /\ \A x \in Cells : mem'[x] = IF x = p + 2 THEN v ELSE mem[x]
        /\ Outcome(OpOf(c), mem).error = "OK" <=> p + 2 < MemSize
    <2>1. p + 2 \in Nat /\ p + 2 \in {ptr[c], ptr[c] + 1, ptr[c] + 2}
      BY <1>2
    <2> QED BY <1>1, <1>2, <1>3, <2>1, OwnWord
  <1>5. CASE Outcome(OpOf(c), mem).error # "OK"
    BY <1>1, <1>4, <1>5, FailKeeps
  <1>6. CASE Outcome(OpOf(c), mem).error = "OK"
    <2>1. /\ pc'[c] = "writeKey" /\ ptr' = ptr /\ old' = old /\ i' = i /\ result' = result
          /\ job' = job
      BY <1>1, <1>6, OperateFrame, VarTypes
      DEF Continue, AfterCheck, AfterInit, AfterAlloc, AfterFill, AfterLink, AfterFind,
          Goto, Keep
    <2>2. p + 2 < MemSize /\ mem'[p + 2] = v
      BY <1>2, <1>4, <1>6, MemSizeAssumption DEF Cells
    <2>3. mem'[p + 1] = mem[p + 1]
      BY <1>2, <1>4, <2>2, MemSizeAssumption DEF Cells
    <2>4. FilledAt(c)'
      BY <1>1, <1>2, <2>1, <2>2, <2>3 DEF FilledAt, HasVal, HasLen
    <2> QED BY <1>1, <1>4, <2>1, <2>4, WorkKeeps, PutTypes
            DEF PutLabels, FindLabels, FillLabels
  <1> QED BY <1>5, <1>6

(* The key goes into the record that c fills, which is then complete.          *)
LEMMA WriteKeyKeeps ==
  ASSUME IInv, NEW c \in Client, Operate(c), pc[c] = "writeKey" PROVE IInv'
  <1>1. Types /\ pc[c] \in PutLabels /\ Filling(c) /\ FilledAt(c)
    BY DEF IInv, PutLabels, Filling, FillLabels
  <1>2. PICK p, k, ws : /\ p = ptr[c] /\ k = job[c].key /\ ws = KeyWords[k]
                        /\ p \in Nat /\ ws \in Seq(Nat) /\ Len(ws) \in Nat
                        /\ recLen(k) = 3 + Len(ws) /\ DOMAIN ws = 1 .. Len(ws)
    BY <1>1, PutTypes
  <1>3. OpOf(c) = Write(p + 3, ws)
    BY <1>2 DEF OpOf
  <1>4. /\ Careful(c) /\ chain' = chain
        /\ mem' = [x \in Cells |-> IF x >= p + 3 /\ x < p + 3 + Len(ws)
                                   THEN ws[x - (p + 3) + 1] ELSE mem[x]]
        /\ Outcome(OpOf(c), mem).error = "OK" <=> Len(ws) = 0 \/ p + 3 + Len(ws) <= MemSize
    <2>1. p + 3 \in Nat /\ p + 3 >= ptr[c] /\ p + 3 + Len(ws) <= ptr[c] + recLen(job[c].key)
      BY <1>2
    <2> QED BY <1>1, <1>2, <1>3, <2>1, OwnWrite
  <1>5. CASE Outcome(OpOf(c), mem).error # "OK"
    BY <1>1, <1>4, <1>5, FailKeeps
  <1>6. CASE Outcome(OpOf(c), mem).error = "OK"
    <2>1. /\ pc'[c] = "readHead" /\ ptr' = ptr /\ old' = old /\ i' = i /\ result' = result
          /\ job' = job
      BY <1>1, <1>6, OperateFrame, VarTypes
      DEF Continue, AfterCheck, AfterInit, AfterAlloc, AfterFill, AfterLink, AfterFind,
          Goto, Keep
    <2> p \in Nat /\ Len(ws) \in Nat /\ MemSize \in Nat
      BY <1>2, MemSizeAssumption
    <2>2. /\ HasVal(p, job[c].val) /\ HasLen(p, k)
          /\ p + 2 < MemSize /\ p + recLen(k) <= MemSize
      <3>1. HasVal(p, job[c].val) /\ HasLen(p, k)
        BY <1>1, <1>2 DEF FilledAt
      <3>2. p + 2 < MemSize /\ (Len(ws) = 0 \/ p + 3 + Len(ws) <= MemSize)
        BY <1>4, <1>6, <3>1 DEF HasLen
      <3>3. recLen(k) = 3 + Len(ws)
        BY <1>2
      <3> QED BY <3>1, <3>2, <3>3
    <2>3. mem'[p + 1] = mem[p + 1] /\ mem'[p + 2] = mem[p + 2]
      <3>1. p + 1 \in Cells /\ p + 2 \in Cells
        BY <2>2 DEF Cells
      <3> QED BY <1>4, <3>1
    <2>4. ASSUME NEW w \in 1 .. Len(ws) PROVE mem'[p + 2 + w] = ws[w]
      <3>1. p + 2 + w \in Cells /\ p + 2 + w >= p + 3 /\ p + 2 + w < p + 3 + Len(ws)
        <4>1. p + 2 + w < p + recLen(k) /\ recLen(k) = 3 + Len(ws)
          BY <1>2
        <4> QED BY <2>2, <4>1 DEF Cells
      <3>2. p + 2 + w - (p + 3) + 1 = w
        BY <1>2
      <3> QED BY <1>4, <3>1, <3>2
    <2>5. FilledAt(c)'
      BY <1>2, <2>1, <2>2, <2>3, <2>4 DEF FilledAt, HasVal, HasLen, HasWords
    <2> QED BY <1>1, <1>4, <2>1, <2>5, WorkKeeps, PutTypes
            DEF PutLabels, FindLabels, FillLabels
  <1> QED BY <1>5, <1>6

(* The bin's head is read: what the record will point to.                      *)
LEMMA ReadHeadKeeps ==
  ASSUME IInv, NEW c \in Client, Operate(c), pc[c] = "readHead" PROVE IInv'
  <1>1. Types /\ pc[c] \in PutLabels /\ Filling(c) /\ FilledAt(c)
    BY DEF IInv, PutLabels, Filling, FillLabels
  <1>2. PICK b : b = hashPtr(job[c].key) /\ b \in Cells /\ b \in Nat /\ b < MemSize
    <2>1. PICK b \in Bins : b = hashPtr(job[c].key)
      BY <1>1, PutTypes
    <2> QED BY <2>1, Layout, MemSizeAssumption DEF Cells
  <1>3. OpOf(c) = Read(b, 1)
    BY <1>2 DEF OpOf
  <1>4. mem' = mem /\ chain' = chain /\ Careful(c)
    BY <1>3, ReadCareful DEF Read
  <1>5. Outcome(OpOf(c), mem).error = "OK" /\ Outcome(OpOf(c), mem).result[1] = mem[b]
    BY <1>2, <1>3, ReadOne
  <1>6. /\ pc'[c] = "link" /\ old'[c] = mem[b]
        /\ ptr' = ptr /\ i' = i /\ result' = result /\ job' = job
    BY <1>1, <1>5, OperateFrame, VarTypes
    DEF Continue, AfterCheck, AfterInit, AfterAlloc, AfterFill, AfterLink, AfterFind, Goto
  <1>7. FilledAt(c)'
    BY <1>1, <1>4, <1>6 DEF FilledAt, HasVal, HasLen, HasWords
  <1>8. mem[b] \in Nat
    BY <1>1, <1>2, VarTypes
  <1> QED BY <1>1, <1>4, <1>6, <1>7, <1>8, WorkKeeps, PutTypes
          DEF PutLabels, FindLabels, FillLabels, Filling

(* The head that was read goes into the record, which nobody else sees yet.    *)
LEMMA LinkKeeps ==
  ASSUME IInv, NEW c \in Client, Operate(c), pc[c] = "link" PROVE IInv'
  <1>1. Types /\ pc[c] \in PutLabels /\ Filling(c) /\ FilledAt(c)
    BY DEF IInv, PutLabels, Filling, FillLabels
  <1>2. PICK p, v : p = ptr[c] /\ v = old[c] /\ p \in Nat /\ v \in Nat
    BY <1>1, PutTypes
  <1>3. OpOf(c) = Write(p, <<v>>)
    BY <1>2 DEF OpOf
  <1>4. /\ Careful(c) /\ chain' = chain
        /\ \A x \in Cells : mem'[x] = IF x = p THEN v ELSE mem[x]
        /\ Outcome(OpOf(c), mem).error = "OK" <=> p < MemSize
    BY <1>1, <1>2, <1>3, OwnWord
  <1>5. CASE Outcome(OpOf(c), mem).error # "OK"
    BY <1>1, <1>4, <1>5, FailKeeps
  <1>6. CASE Outcome(OpOf(c), mem).error = "OK"
    <2>1. /\ pc'[c] = "publish" /\ ptr' = ptr /\ old' = old /\ i' = i /\ result' = result
          /\ job' = job
      BY <1>1, <1>6, OperateFrame, VarTypes
      DEF Continue, AfterCheck, AfterInit, AfterAlloc, AfterFill, AfterLink, AfterFind,
          Goto, Keep
    <2>2. p < MemSize /\ mem'[p] = v
      BY <1>2, <1>4, <1>6, MemSizeAssumption DEF Cells
    <2>3. /\ HasVal(p, job[c].val) /\ HasLen(p, job[c].key) /\ HasWords(p, job[c].key)
          /\ job[c].key \in Key /\ p + recLen(job[c].key) <= MemSize
          /\ recLen(job[c].key) = 3 + Len(KeyWords[job[c].key])
          /\ Len(KeyWords[job[c].key]) \in Nat
          /\ DOMAIN KeyWords[job[c].key] = 1 .. Len(KeyWords[job[c].key])
      BY <1>1, <1>2, PutTypes DEF FilledAt, HasWords
    <2>4. \A y \in Nat : y > p /\ y < p + recLen(job[c].key) => mem'[y] = mem[y]
      BY <1>2, <1>4, <2>3, MemSizeAssumption DEF Cells
    <2>5. HasVal(p, job[c].val)' /\ HasLen(p, job[c].key)' /\ HasWords(p, job[c].key)'
      <3>1. ASSUME NEW w \in 1 .. Len(KeyWords[job[c].key])
            PROVE  mem'[p + 2 + w] = mem[p + 2 + w]
        <4>1. p + 2 + w \in Nat /\ p + 2 + w > p /\ p + 2 + w < p + recLen(job[c].key)
          BY SMTT(30), <1>2, <2>3
        <4> QED BY <2>4, <4>1
      <3>2. mem'[p + 1] = mem[p + 1] /\ mem'[p + 2] = mem[p + 2]
        <4>1. PICK len \in Nat : len = recLen(job[c].key) /\ len >= 3
          BY <2>3
        <4>2. /\ p + 1 \in Nat /\ p + 1 > p /\ p + 1 < p + len
              /\ p + 2 \in Nat /\ p + 2 > p /\ p + 2 < p + len
          BY <1>2, <4>1
        <4> QED BY <2>4, <4>1, <4>2
      <3> QED BY <2>1, <2>3, <3>1, <3>2 DEF HasVal, HasLen, HasWords
    <2>6. FilledAt(c)'
      BY <1>2, <2>1, <2>2, <2>5 DEF FilledAt
    <2> QED BY <1>1, <1>4, <2>1, <2>6, WorkKeeps, PutTypes
            DEF PutLabels, FindLabels, FillLabels
  <1> QED BY <1>5, <1>6


(* The CAS moves the counter: what lay between belongs to the put.             *)
LEMMA AllocCasKeeps ==
  ASSUME IInv, NEW c \in Client, Operate(c), pc[c] = "allocCas" PROVE IInv'
  <1>1. Types /\ pc[c] \in PutLabels /\ ~Filling(c) /\ OwnAt(c) /\ mem[0] \in Nat
    BY VarTypes DEF IInv, PutLabels, Filling, FillLabels
  <1>2. PICK p, k, n : /\ p = ptr[c] /\ k = job[c].key /\ n = p + recLen(k)
                       /\ p \in Nat /\ p >= TableEnd /\ k \in Key /\ recLen(k) \in Nat
                       /\ n \in Nat /\ n >= p
    <2>1. /\ ptr[c] \in Nat /\ ptr[c] >= TableEnd /\ job[c].key \in Key
          /\ recLen(job[c].key) \in Nat
      BY <1>1, PutTypes DEF OwnAt
    <2> QED BY <2>1
  <1>3. OpOf(c) = Cas(0, p, n)
    BY <1>2 DEF OpOf
  <1>4. /\ Frame(c) /\ job' = job /\ jobs' = jobs /\ holder' \in Active \cup {Nobody}
        /\ mem' = Effect(OpOf(c), mem) /\ Record(c, OpOf(c))
    BY <1>1, OperateFrame
  <1>5. chain' = chain
    <2>1. OpOf(c).addr = 0 /\ 0 \notin Bins
      BY <1>3, Layout DEF Cas
    <2> QED BY <1>4, <2>1 DEF Record
  <1>6. /\ Swaps(OpOf(c), mem) <=> mem[0] = p
        /\ Swaps(OpOf(c), mem) => mem' = [mem EXCEPT ![0] = n]
        /\ ~Swaps(OpOf(c), mem) => mem' = mem
        /\ Outcome(OpOf(c), mem).error = "OK"
        /\ Outcome(OpOf(c), mem).result[1] # 0 <=> Swaps(OpOf(c), mem)
    BY <1>3, <1>4, CasOne, MemSizeAssumption
  <1>7. Careful(c)
    <2>1. mem \in [Cells -> Nat] /\ 0 \in Cells
      BY <1>1, VarTypes, Layout
    <2> QED BY <1>1, <1>2, <1>6, <2>1 DEF Careful
  <1>8. /\ pc'[c] = IF Swaps(OpOf(c), mem) THEN "writeNext" ELSE "allocRead"
        /\ ptr' = ptr /\ old' = old /\ i' = i /\ result' = result
    BY <1>1, <1>6, OperateFrame, VarTypes
    DEF Continue, AfterCheck, AfterInit, AfterAlloc, AfterFill, AfterLink, AfterFind,
        Goto, Keep
  <1>9. FilledAt(c)'
    BY <1>8 DEF FilledAt
  <1>10. CASE ~Swaps(OpOf(c), mem)
    BY <1>1, <1>5, <1>7, <1>8, <1>9, <1>10, WorkKeeps, PutTypes
    DEF PutLabels, FindLabels, FillLabels, Filling
  <1>11. CASE Swaps(OpOf(c), mem)
    <2>1. mem[0] = p /\ mem'[0] = n
      BY <1>1, <1>6, <1>11, VarTypes, Layout
    <2>2. Types'
      <3>1. pc'[c] \in Label /\ job'[c] \in Jobs \cup {NoJob} /\ ptr'[c] \in Nat
        BY <1>1, <1>4, <1>8, VarTypes DEF Label
      <3>2. old'[c] \in Nat /\ i'[c] \in 0 .. N /\ result'[c] \in Nat \cup {Exception}
        BY <1>1, <1>8, VarTypes
      <3>3. jobs' \in [Client -> 0 .. MaxJobs] /\ mem' \in [Cells -> Nat]
        BY <1>1, <1>4, <1>7, VarTypes DEF Careful
      <3>4. chain' \in [Bins -> Seq(Records)]
        BY <1>1, <1>5 DEF Types
      <3> QED BY <1>1, <1>4, <3>1, <3>2, <3>3, <3>4, TypesKeep
    <2>3. LabelAt(c)'
      BY <1>4, <1>8 DEF IInv, LabelAt, PutLabels, FindLabels, FillLabels
    <2>4. Started'
      BY <1>1, <1>2, <1>4, <1>8, <1>11, <2>1, StartedKeeps
    <2>5. OwnAt(c)'
      <3>1. Block(p, k)'
        BY <1>2, <2>1 DEF Block
      <3>2. ASSUME NEW b \in Bins, NEW m \in 1 .. Len(chain[b])
            PROVE  Apart(p, k, chain[b][m].ptr, chain[b][m].key)
        BY <2>1, <3>2 DEF IInv, Published, Block, Apart
      <3> QED BY <1>2, <1>4, <1>5, <1>8, <1>11, <3>1, <3>2 DEF OwnAt
    <2>6. PutsApart'
      <3>1. ASSUME NEW d \in Client \ {c}, Filling(d)
            PROVE  /\ Apart(p, k, ptr[d], job[d].key)
                   /\ Apart(ptr[d], job[d].key, p, k)
        BY <2>1, <3>1 DEF IInv, OwnAt, Block, Apart
      <3>2. \A d \in Client \ {c} : /\ ptr'[d] = ptr[d] /\ job'[d] = job[d]
                                    /\ Filling(d)' <=> Filling(d)
        BY <1>4 DEF Frame, Others, Filling
      <3> SUFFICES ASSUME NEW d \in Client, NEW e \in Client, d # e, Filling(d)', Filling(e)'
                   PROVE  Apart(ptr[d], job[d].key, ptr[e], job[e].key)'
        BY DEF PutsApart
      <3>3. CASE d = c
        BY <1>2, <1>4, <1>8, <3>1, <3>2, <3>3 DEF Apart
      <3>4. CASE e = c
        BY <1>2, <1>4, <1>8, <3>1, <3>2, <3>4 DEF Apart
      <3>5. CASE d # c /\ e # c
        <4>1. Apart(ptr[d], job[d].key, ptr[e], job[e].key)
          BY <3>2, <3>5 DEF IInv, PutsApart
        <4> QED BY <3>2, <3>5, <4>1 DEF Apart
      <3> QED BY <3>3, <3>4, <3>5
    <2>7. Published'
      BY <1>5, <1>7, CarefulRecords DEF IInv, Published
    <2>8. Linked'
      BY <1>5, <1>7, CarefulRecords DEF IInv, Linked, From
    <2> QED BY <1>4, <1>5, <1>7, <1>9, <2>2, <2>3, <2>4, <2>5, <2>6, <2>7, <2>8,
               CarefulOthers DEF IInv
  <1> QED BY <1>10, <1>11


(* A sequence with one more element in front.                                  *)
LEMMA Prepended ==
  ASSUME NEW S, NEW s \in Seq(S), NEW r \in S
  PROVE  /\ <<r>> \o s \in Seq(S) /\ Len(<<r>> \o s) = Len(s) + 1 /\ Len(s) \in Nat
         /\ (<<r>> \o s)[1] = r
         /\ \A n \in 1 .. Len(s) : (<<r>> \o s)[n + 1] = s[n]
         /\ \A n \in 1 .. Len(s) + 1 : n # 1 => n - 1 \in 1 .. Len(s) /\ (<<r>> \o s)[n] = s[n - 1]
  <1>1. Len(<<r>>) = 1 /\ <<r>> \in Seq(S) /\ <<r>>[1] = r /\ Len(s) \in Nat
    OBVIOUS
  <1>2. <<r>> \o s \in Seq(S) /\ Len(<<r>> \o s) = Len(s) + 1
    BY <1>1
  <1>3. \A n \in 1 .. Len(s) + 1 : (<<r>> \o s)[n] = IF n <= 1 THEN <<r>>[n] ELSE s[n - 1]
    BY <1>1
  <1> QED BY <1>1, <1>2, <1>3

(* The record that c publishes is the first of its bin, the others follow.     *)
Publishes(c, box) ==
  /\ box = hashPtr(job[c].key)
  /\ mem' = [mem EXCEPT ![box] = ptr[c]] /\ mem[box] = mem[ptr[c]]
  /\ chain' = [chain EXCEPT ![box] =
                 <<[ptr |-> ptr[c], key |-> job[c].key, val |-> job[c].val]>> \o @]

(* A published record becomes the first of its chain.                          *)
LEMMA NewChain ==
  ASSUME IInv, NEW c \in Client, pc[c] \in PutLabels, NEW box \in Bins, Publishes(c, box)
  PROVE  /\ chain' \in [Bins -> Seq(Records)]
         /\ Len(chain'[box]) = Len(chain[box]) + 1
         /\ chain'[box][1].ptr = ptr[c] /\ chain'[box][1].key = job[c].key
         /\ chain'[box][1].val = job[c].val
         /\ \A n \in 1 .. Len(chain[box]) : chain'[box][n + 1] = chain[box][n]
         /\ \A n \in 1 .. Len(chain'[box]) : n # 1 =>
              n - 1 \in 1 .. Len(chain[box]) /\ chain'[box][n] = chain[box][n - 1]
         /\ \A b \in Bins \ {box} : chain'[b] = chain[b]
  <1>1. PICK r : r = [ptr |-> ptr[c], key |-> job[c].key, val |-> job[c].val]
    OBVIOUS
  <1>2. r \in Records
    BY <1>1, PutTypes DEF Records
  <1>3. chain \in [Bins -> Seq(Records)] /\ chain[box] \in Seq(Records)
    BY DEF IInv, Types
  <1>4. chain'[box] = <<r>> \o chain[box] /\ \A b \in Bins \ {box} : chain'[b] = chain[b]
    BY <1>1, <1>3 DEF Publishes
  <1>5. /\ <<r>> \o chain[box] \in Seq(Records)
        /\ Len(<<r>> \o chain[box]) = Len(chain[box]) + 1 /\ (<<r>> \o chain[box])[1] = r
        /\ \A n \in 1 .. Len(chain[box]) : (<<r>> \o chain[box])[n + 1] = chain[box][n]
        /\ \A n \in 1 .. Len(chain[box]) + 1 : n # 1 =>
             n - 1 \in 1 .. Len(chain[box]) /\ (<<r>> \o chain[box])[n] = chain[box][n - 1]
    BY <1>2, <1>3, Prepended
  <1>6. chain' \in [Bins -> Seq(Records)]
    BY <1>1, <1>3, <1>5 DEF Publishes
  <1> QED BY <1>1, <1>4, <1>5, <1>6

(* Memory spells the longer chain, since the head was the one the record links *)
(* to.                                                                         *)
LEMMA NewLinked ==
  ASSUME IInv, NEW c \in Client, pc[c] = "publish", NEW box \in Bins, Publishes(c, box)
  PROVE  /\ Linked'
         /\ \A d \in Client \ {c} : Frame(c) => FilledAt(d)'
  <1>1. Types /\ OwnAt(c) /\ FilledAt(c) /\ pc[c] \in PutLabels /\ Filling(c)
    BY DEF IInv, PutLabels, FillLabels, Filling
  <1>2. PICK p, k, v : /\ p = ptr[c] /\ k = job[c].key /\ v = job[c].val
                       /\ p \in Nat /\ k \in Key /\ p >= TableEnd
    BY <1>1, PutTypes DEF OwnAt, Block
  <1>3. ASSUME NEW q \in Nat, q >= TableEnd, NEW l \in Key
        PROVE  /\ \A w : HasVal(q, w) => HasVal(q, w)' /\ mem'[q] = mem[q]
               /\ HasLen(q, l) => HasLen(q, l)'
               /\ HasWords(q, l) => HasWords(q, l)'
    <2>1. \A a \in Cells : a >= q /\ a < q + recLen(l) => mem'[a] = mem[a]
      BY <1>1, <1>3, Layout, VarTypes, MemSizeAssumption DEF Publishes, Cells
    <2> QED BY <1>3, <2>1, RecordKept DEF HasVal
  <1>4. /\ HasVal(p, v) /\ HasLen(p, k) /\ HasWords(p, k)
    BY <1>1, <1>2 DEF FilledAt
  <1>5. Complete(p, k, v)' /\ mem'[p] = mem[p]
    BY <1>2, <1>3, <1>4 DEF Complete
  <1>6. ASSUME NEW b \in Bins, NEW n \in 1 .. Len(chain[b]),
               NEW q, NEW l, NEW w,
               q = chain[b][n].ptr, l = chain[b][n].key, w = chain[b][n].val
        PROVE  Complete(q, l, w)' /\ mem'[q] = From(b, n + 1)
    <2>1. q \in Nat /\ l \in Key /\ q >= TableEnd /\ Complete(q, l, w) /\ mem[q] = From(b, n + 1)
      BY <1>1, <1>6, RecordTypes DEF IInv, Published, Block, Linked
    <2>2. mem'[q] = mem[q] /\ Complete(q, l, w)'
      BY <1>3, <2>1 DEF Complete
    <2> QED BY <2>1, <2>2
  <1>7. ASSUME NEW b \in Bins \ {box}
        PROVE  /\ mem'[b] = From(b, 1)'
               /\ \A n \in 1 .. Len(chain'[b]) :
                    /\ mem'[chain'[b][n].ptr] = From(b, n + 1)'
                    /\ Complete(chain[b][n].ptr, chain[b][n].key, chain[b][n].val)'
    <2>1. chain'[b] = chain[b]
      BY <1>1, NewChain
    <2>2. mem'[b] = mem[b]
      BY <1>1, Layout, VarTypes DEF Publishes
    <2>3. mem'[b] = From(b, 1)'
      BY <2>1, <2>2 DEF IInv, Linked, From
    <2> QED BY <1>6, <2>1, <2>3 DEF From
  <1>8. /\ mem'[box] = From(box, 1)'
        /\ \A n \in 1 .. Len(chain'[box]) :
             /\ mem'[chain'[box][n].ptr] = From(box, n + 1)'
             /\ Complete(chain[box][n].ptr, chain[box][n].key, chain[box][n].val)'
    <2>1. Len(chain[box]) \in Nat
      BY <1>1, RecordTypes
    <2>2. mem'[box] = From(box, 1)'
      <3>1. mem'[box] = p
        BY <1>1, <1>2, Layout, VarTypes DEF Publishes
      <3> QED BY <1>1, <1>2, <2>1, <3>1, NewChain DEF From
    <2> SUFFICES ASSUME NEW n \in 1 .. Len(chain'[box])
                 PROVE  /\ mem'[chain'[box][n].ptr] = From(box, n + 1)'
                        /\ Complete(chain[box][n].ptr, chain[box][n].key, chain[box][n].val)'
      BY <2>2
    <2>3. From(box, n + 1)' = From(box, n)
      BY <1>1, <2>1, NewChain DEF From
    <2>4. CASE n = 1
      <3>1. mem[box] = From(box, 1)
        BY DEF IInv, Linked
      <3>2. mem'[p] = From(box, 1)
        BY <1>2, <1>5, <3>1 DEF Publishes
      <3>3. chain'[box][n].ptr = p /\ chain'[box][n].key = k /\ chain'[box][n].val = v
        BY <1>1, <1>2, <2>4, NewChain
      <3>4. mem'[chain'[box][n].ptr] = From(box, n + 1)'
        BY <2>3, <2>4, <3>2, <3>3
      <3>5. Complete(chain[box][n].ptr, chain[box][n].key, chain[box][n].val)'
        BY <1>5, <3>3 DEF Complete, HasVal, HasLen, HasWords
      <3> QED BY <3>4, <3>5
    <2>5. CASE n # 1
      <3>1. PICK m : m = n - 1
        OBVIOUS
      <3>2. m \in 1 .. Len(chain[box]) /\ n = m + 1 /\ chain'[box][n] = chain[box][m]
        BY <1>1, <2>1, <2>5, <3>1, NewChain
      <3>3. PICK q, l, w : /\ q = chain[box][m].ptr /\ l = chain[box][m].key
                           /\ w = chain[box][m].val
        OBVIOUS
      <3>4. Complete(q, l, w)' /\ mem'[q] = From(box, m + 1)
        BY <1>6, <3>2, <3>3
      <3>5. mem'[q] = From(box, n + 1)'
        BY <2>3, <3>2, <3>4
      <3>6. Complete(chain[box][n].ptr, chain[box][n].key, chain[box][n].val)'
        BY <3>2, <3>3, <3>4 DEF Complete, HasVal, HasLen, HasWords
      <3> QED BY <3>2, <3>3, <3>5, <3>6
    <2> QED BY <2>4, <2>5
  <1>9. Linked'
    BY <1>7, <1>8 DEF Linked
  <1>10. ASSUME NEW d \in Client \ {c}, Frame(c) PROVE FilledAt(d)'
    <2>1. /\ pc'[d] = pc[d] /\ job'[d] = job[d] /\ ptr'[d] = ptr[d] /\ old'[d] = old[d]
      BY <1>10 DEF Frame, Others
    <2>2. FilledAt(d) /\ OwnAt(d)
      BY DEF IInv
    <2>3. CASE pc[d] \notin {"writeLen", "writeKey", "readHead", "link", "publish"}
      BY <2>1, <2>2, <2>3 DEF FilledAt
    <2>4. CASE pc[d] \in {"writeLen", "writeKey", "readHead", "link", "publish"}
      <3>1. pc[d] \in PutLabels /\ Filling(d)
        BY <2>4 DEF PutLabels, FillLabels, Filling
      <3>2. PICK q, l, w : /\ q = ptr[d] /\ l = job[d].key /\ w = job[d].val
                           /\ q \in Nat /\ l \in Key /\ q >= TableEnd
        BY <2>2, <3>1, PutTypes DEF OwnAt, Block
      <3>3. /\ HasVal(q, w) => HasVal(q, w)' /\ mem'[q] = mem[q]
            /\ HasLen(q, l) => HasLen(q, l)'
            /\ HasWords(q, l) => HasWords(q, l)'
        BY <1>3, <3>2
      <3> QED BY <2>1, <2>2, <2>4, <3>2, <3>3 DEF FilledAt
    <2> QED BY <2>3, <2>4
  <1> QED BY <1>9, <1>10


(* The published record shares no word with another, as it shared none before. *)
LEMMA NewApart ==
  ASSUME IInv, NEW c \in Client, pc[c] = "publish", NEW box \in Bins, Publishes(c, box)
  PROVE  /\ Published'
         /\ \A d \in Client \ {c} : Frame(c) => OwnAt(d)'
  <1>1. Types /\ OwnAt(c) /\ pc[c] \in PutLabels /\ Filling(c)
    BY DEF IInv, PutLabels, FillLabels, Filling
  <1>2. PICK p, k : p = ptr[c] /\ k = job[c].key /\ p \in Nat /\ k \in Key
    BY <1>1, PutTypes
  <1>3. mem'[0] = mem[0]
    BY <1>1, Layout, VarTypes DEF Publishes
  <1>4. Block(p, k) /\ \A b \in Bins : \A n \in 1 .. Len(chain[b]) :
                         Apart(p, k, chain[b][n].ptr, chain[b][n].key)
    BY <1>1, <1>2 DEF OwnAt
  <1> DEFINE Old(b, n) == IF b = box THEN n - 1 ELSE n
             New(b, n) == b = box /\ n = 1
  <1>5. ASSUME NEW b \in Bins, NEW n \in 1 .. Len(chain'[b])
        PROVE  /\ n \in Nat
               /\ New(b, n) => chain'[b][n].ptr = p /\ chain'[b][n].key = k
               /\ ~New(b, n) => /\ Old(b, n) \in 1 .. Len(chain[b])
                                /\ chain'[b][n] = chain[b][Old(b, n)]
    BY <1>1, <1>2, NewChain
  <1>6. ASSUME NEW b \in Bins, NEW n \in 1 .. Len(chain'[b]),
               NEW d \in Bins, NEW m \in 1 .. Len(chain'[d]), <<b, n>> # <<d, m>>
        PROVE  Apart(chain'[b][n].ptr, chain'[b][n].key, chain'[d][m].ptr, chain'[d][m].key)
    <2>1. CASE New(b, n)
      <3>1. ~New(d, m)
        BY <1>6, <2>1
      <3> QED BY <1>4, <1>5, <2>1, <3>1
    <2>2. CASE New(d, m)
      <3>1. ~New(b, n)
        BY <1>6, <2>2
      <3>2. Apart(p, k, chain[b][Old(b, n)].ptr, chain[b][Old(b, n)].key)
        BY <1>4, <1>5, <3>1
      <3> QED BY <1>5, <2>2, <3>1, <3>2 DEF Apart
    <2>3. CASE ~New(b, n) /\ ~New(d, m)
      <3>1. <<b, Old(b, n)>> # <<d, Old(d, m)>>
        BY <1>5, <1>6, <2>3
      <3>2. /\ Old(b, n) \in 1 .. Len(chain[b]) /\ Old(d, m) \in 1 .. Len(chain[d])
            /\ chain'[b][n] = chain[b][Old(b, n)] /\ chain'[d][m] = chain[d][Old(d, m)]
        BY <1>5, <2>3
      <3> HIDE DEF Old, New
      <3> QED BY <3>1, <3>2 DEF IInv, Published
    <2> QED BY <2>1, <2>2, <2>3
  <1>7. ASSUME NEW b \in Bins, NEW n \in 1 .. Len(chain'[b])
        PROVE  Block(chain[b][n].ptr, chain[b][n].key)'
    <2>1. CASE New(b, n)
      BY <1>3, <1>4, <1>5, <2>1 DEF Block
    <2>2. CASE ~New(b, n)
      <3>1. Old(b, n) \in 1 .. Len(chain[b]) /\ chain'[b][n] = chain[b][Old(b, n)]
        BY <1>5, <2>2
      <3> HIDE DEF Old, New
      <3> QED BY <1>3, <3>1 DEF IInv, Published, Block
    <2> QED BY <2>1, <2>2
  <1>8. Published'
    BY <1>6, <1>7 DEF Published, Apart
  <1>9. ASSUME NEW d \in Client \ {c}, Frame(c) PROVE OwnAt(d)'
    <2>1. /\ pc'[d] = pc[d] /\ job'[d] = job[d] /\ ptr'[d] = ptr[d]
      BY <1>9 DEF Frame, Others
    <2>2. OwnAt(d)
      BY DEF IInv
    <2>3. CASE ~Filling(d)
      BY <2>1, <2>2, <2>3 DEF OwnAt, Filling
    <2>4. CASE Filling(d)
      <3>1. Apart(ptr[d], job[d].key, p, k)
        BY <1>1, <1>2, <2>4 DEF IInv, PutsApart
      <3>2. ASSUME NEW b \in Bins, NEW n \in 1 .. Len(chain'[b])
            PROVE  Apart(ptr[d], job[d].key, chain'[b][n].ptr, chain'[b][n].key)
        <4>1. CASE New(b, n)
          BY <1>5, <3>1, <4>1
        <4>2. CASE ~New(b, n)
          <5>1. Old(b, n) \in 1 .. Len(chain[b]) /\ chain'[b][n] = chain[b][Old(b, n)]
            BY <1>5, <4>2
          <5> HIDE DEF Old, New
          <5> QED BY <2>2, <2>4, <5>1 DEF OwnAt
        <4> QED BY <4>1, <4>2
      <3>3. Block(ptr[d], job[d].key)'
        BY <1>3, <2>1, <2>2, <2>4 DEF OwnAt, Block
      <3> QED BY <2>1, <2>2, <2>4, <3>2, <3>3 DEF OwnAt, Filling, Apart
    <2> QED BY <2>3, <2>4
  <1> QED BY <1>8, <1>9


(* The CAS of the head publishes the record, or fails and is tried again.      *)
LEMMA PublishStep ==
  ASSUME IInv, NEW c \in Client, Operate(c), pc[c] = "publish"
  PROVE  /\ Outcome(OpOf(c), mem).error = "OK"
         /\ ptr' = ptr /\ old' = old /\ i' = i /\ job' = job
         /\ \/ /\ Swaps(OpOf(c), mem) /\ pc'[c] = "return" /\ result'[c] = 0
               /\ Publishes(c, hashPtr(job[c].key))
            \/ /\ ~Swaps(OpOf(c), mem) /\ pc'[c] = "readHead" /\ result' = result
               /\ mem' = mem /\ chain' = chain
  <1>1. Types /\ pc[c] \in PutLabels /\ FilledAt(c)
    BY DEF IInv, PutLabels, FillLabels
  <1>2. PICK b \in Bins, p \in Nat, o \in Nat : b = hashPtr(job[c].key) /\ p = ptr[c] /\ o = old[c]
    BY <1>1, PutTypes
  <1>3. b \in Cells /\ b \in Nat /\ b < MemSize
    BY Layout, MemSizeAssumption DEF Cells
  <1>4. OpOf(c) = Cas(b, o, p)
    BY <1>2 DEF OpOf
  <1>5. /\ Swaps(OpOf(c), mem) <=> mem[b] = o
        /\ Swaps(OpOf(c), mem) => mem' = [mem EXCEPT ![b] = p]
        /\ ~Swaps(OpOf(c), mem) => mem' = mem
        /\ Outcome(OpOf(c), mem).error = "OK"
        /\ Outcome(OpOf(c), mem).result[1] # 0 <=> Swaps(OpOf(c), mem)
        /\ Outcome(OpOf(c), mem).result[1] = IF Swaps(OpOf(c), mem) THEN 1 ELSE 0
    <2>1. mem' = Effect(OpOf(c), mem)
      BY <1>1, OperateFrame
    <2>2. Outcome(OpOf(c), mem).error = "OK"
      BY <1>3, <1>4, CasOne
    <2>3. Outcome(OpOf(c), mem).result[1] = IF Swaps(OpOf(c), mem) THEN 1 ELSE 0
      BY <1>4, <2>2 DEF Outcome, Ok, Failed, Cas
    <2> QED BY <1>3, <1>4, <2>1, <2>2, <2>3, CasOne
  <1>6. OpOf(c).addr = b /\ OpOf(c).value = p
    BY <1>4 DEF Cas
  <1>7. /\ chain' = IF Swaps(OpOf(c), mem)
                    THEN [chain EXCEPT ![b] =
                            <<[ptr |-> p, key |-> job[c].key, val |-> job[c].val]>> \o @]
                    ELSE chain
    BY <1>1, <1>6, OperateFrame DEF Record
  <1>8. /\ ptr' = ptr /\ old' = old /\ i' = i /\ job' = job
        /\ Swaps(OpOf(c), mem) => pc'[c] = "return" /\ result'[c] = 0
        /\ ~Swaps(OpOf(c), mem) => pc'[c] = "readHead" /\ result' = result
    BY <1>1, <1>5, OperateFrame, VarTypes
    DEF Continue, AfterCheck, AfterInit, AfterAlloc, AfterFill, AfterLink, AfterFind,
        Goto, Keep, Returns
  <1>9. Swaps(OpOf(c), mem) => Publishes(c, b)
    BY <1>1, <1>2, <1>5, <1>7 DEF Publishes, FilledAt
  <1> QED BY <1>2, <1>5, <1>7, <1>8, <1>9

(* The CAS on the head publishes a complete record or changes nothing.         *)
LEMMA PublishKeeps ==
  ASSUME IInv, NEW c \in Client, Operate(c), pc[c] = "publish" PROVE IInv'
  <1>1. Types /\ pc[c] \in PutLabels /\ FilledAt(c) /\ Filling(c)
    BY DEF IInv, PutLabels, FillLabels, Filling
  <1>2. /\ Frame(c) /\ job' = job /\ jobs' = jobs /\ holder' \in Active \cup {Nobody}
    BY <1>1, OperateFrame
  <1>3. ptr' = ptr /\ old' = old /\ i' = i
    BY PublishStep
  <1>4. CASE mem' = mem /\ chain' = chain /\ pc'[c] = "readHead" /\ result' = result
    <2>1. Careful(c)
      BY <1>1, <1>4, VarTypes DEF Careful
    <2>2. FilledAt(c)'
      BY <1>1, <1>2, <1>3, <1>4 DEF FilledAt, HasVal, HasLen, HasWords
    <2> QED BY <1>1, <1>3, <1>4, <2>1, <2>2, WorkKeeps, PutTypes
            DEF PutLabels, FindLabels, FillLabels, Filling
  <1>5. CASE /\ pc'[c] = "return" /\ result'[c] = 0
             /\ Publishes(c, hashPtr(job[c].key))
    <2>1. PICK box \in Bins : box = hashPtr(job[c].key)
      BY <1>1, PutTypes
    <2>2. Publishes(c, box)
      BY <1>5, <2>1
    <2>3. mem' \in [Cells -> Nat] /\ mem'[0] = mem[0]
      BY <1>1, <2>2, Layout, VarTypes, PutTypes DEF Publishes
    <2>4. Types'
      <3>1. pc'[c] \in Label /\ job'[c] \in Jobs \cup {NoJob} /\ ptr'[c] \in Nat
        BY <1>1, <1>2, <1>3, <1>5, VarTypes DEF Label
      <3>2. old'[c] \in Nat /\ i'[c] \in 0 .. N /\ result'[c] \in Nat \cup {Exception}
        BY <1>1, <1>3, <1>5, VarTypes
      <3>3. jobs' \in [Client -> 0 .. MaxJobs] /\ chain' \in [Bins -> Seq(Records)]
        BY <1>1, <1>2, <2>2, VarTypes, NewChain
      <3> QED BY <1>1, <1>2, <2>3, <3>1, <3>2, <3>3, TypesKeep
    <2>5. LabelAt(c)' /\ OwnAt(c)' /\ FilledAt(c)' /\ ~Filling(c)'
      BY <1>1, <1>2, <1>5, PutTypes
      DEF LabelAt, OwnAt, FilledAt, Filling, PutLabels, FindLabels, FillLabels
    <2>6. Started'
      <3>1. mem'[0] \in Nat /\ mem'[0] >= mem[0]
        BY <1>1, <2>3, VarTypes
      <3> QED BY <1>2, <1>5, <3>1, StartedKeeps
    <2>7. PutsApart'
      BY <1>2, <2>5 DEF IInv, PutsApart, Frame, Others, Filling, Apart
    <2>8. Linked' /\ Published' /\ \A d \in Client \ {c} : FilledAt(d)' /\ OwnAt(d)'
      BY <1>2, <2>2, NewLinked, NewApart
    <2>9. \A d \in Client \ {c} : LabelAt(d)'
      BY <1>2 DEF IInv, LabelAt, Frame, Others
    <2> QED BY <2>4, <2>5, <2>6, <2>7, <2>8, <2>9 DEF IInv
  <1> QED BY <1>4, <1>5, PublishStep

-------------------------------------------------------------------------------
(* The operations of get and has only read.                                    *)
LEMMA FindTypes ==
  ASSUME IInv, NEW c \in Client, pc[c] \in FindLabels
  PROVE  /\ job[c] \in Jobs /\ job[c].key \in Key /\ job[c].kind \in {"get", "has"}
         /\ ptr[c] \in Nat /\ old[c] \in Nat /\ result[c] \in Nat \cup {Exception}
         /\ hashPtr(job[c].key) \in Bins
         /\ Len(KeyWords[job[c].key]) \in Nat /\ KeyLen[job[c].key] \in Nat
  <1>1. job[c] \in Jobs /\ job[c].kind \in {"get", "has"}
    BY DEF IInv, LabelAt
  <1>2. ptr[c] \in Nat /\ old[c] \in Nat /\ result[c] \in Nat \cup {Exception}
    BY VarTypes DEF IInv
  <1> QED BY <1>1, <1>2, Layout, JobTypes

(* Where a search goes on after a read that succeeded.                         *)
LEMMA FindStep ==
  ASSUME IInv, NEW c \in Client, Operate(c), pc[c] \in FindLabels,
         Outcome(OpOf(c), mem).error = "OK"
  PROVE  LET res == Outcome(OpOf(c), mem) IN
         /\ old' = old /\ i' = i
         /\ pc[c] \in {"findHead", "findNext"} =>
              /\ ptr'[c] = res.result[1]
              /\ IF res.result[1] = 0 THEN pc'[c] = "return" /\ result'[c] = 0
                                      ELSE pc'[c] = "cmpLen" /\ result' = result
         /\ pc[c] \in {"cmpLen", "cmpKey", "readVal"} => ptr' = ptr
         /\ pc[c] = "cmpLen" =>
              /\ pc'[c] = IF res.result[1] = KeyLen[job[c].key] THEN "cmpKey" ELSE "findNext"
              /\ result' = result
         /\ pc[c] = "cmpKey" =>
              IF res.result # KeyWords[job[c].key] THEN pc'[c] = "findNext" /\ result' = result
              ELSE IF job[c].kind = "get" THEN pc'[c] = "readVal" /\ result' = result
              ELSE pc'[c] = "return" /\ result'[c] = 1
         /\ pc[c] = "readVal" => pc'[c] = "return" /\ result'[c] = res.result[1]
  <1>1. Types
    BY DEF IInv
  <1>2. PICK res : res = Outcome(OpOf(c), mem)
    OBVIOUS
  <1>3. AfterFind(c, res)
    BY <1>1, <1>2, OperateFrame
    DEF Continue, AfterCheck, AfterInit, AfterAlloc, AfterFill, AfterLink, FindLabels
  <1> QED BY <1>1, <1>2, <1>3, VarTypes
          DEF AfterFind, Candidate, Found, Returns, Goto, Keep, FindLabels

(* A word that was read without an exception is a natural number.              *)
LEMMA WordRead ==
  ASSUME IInv, NEW c \in Client, NEW a \in Nat, OpOf(c) = Read(a, 1),
         Outcome(OpOf(c), mem).error = "OK"
  PROVE  a \in Cells /\ Outcome(OpOf(c), mem).result[1] = mem[a] /\ mem[a] \in Nat
  <1>1. a < MemSize /\ Outcome(OpOf(c), mem).result[1] = mem[a]
    BY ReadOne
  <1>2. a \in Cells
    BY <1>1, MemSizeAssumption DEF Cells
  <1> QED BY <1>1, <1>2, VarTypes DEF IInv

(* A search only reads.                                                        *)
LEMMA FindKeeps ==
  ASSUME IInv, NEW c \in Client, Operate(c), pc[c] \in FindLabels PROVE IInv'
  <1>1. OpOf(c).kind = "READ"
    BY DEF OpOf, Read, FindLabels
  <1>2. mem' = mem /\ chain' = chain /\ Careful(c)
    BY <1>1, ReadCareful
  <1>3. CASE Outcome(OpOf(c), mem).error # "OK"
    BY <1>2, <1>3, FailKeeps
  <1>4. CASE Outcome(OpOf(c), mem).error = "OK"
    <2>1. pc[c] # "cmpKey" => Outcome(OpOf(c), mem).result[1] \in Nat
      <3>1. pc[c] # "cmpKey" => \E a \in Nat : OpOf(c) = Read(a, 1)
        <4>1. hashPtr(job[c].key) \in Nat /\ ptr[c] \in Nat /\ ptr[c] + 2 \in Nat
              /\ ptr[c] + 1 \in Nat
          BY FindTypes, Layout
        <4>2. pc[c] # "cmpKey" =>
                OpOf(c) \in {Read(hashPtr(job[c].key), 1), Read(ptr[c] + 2, 1),
                             Read(ptr[c], 1), Read(ptr[c] + 1, 1)}
          BY DEF OpOf, FindLabels
        <4> QED BY <4>1, <4>2
      <3> QED BY <1>4, <3>1, WordRead
    <2>2. /\ pc'[c] \in {"cmpLen", "cmpKey", "findNext", "readVal", "return"}
          /\ ptr'[c] \in Nat /\ old'[c] \in Nat /\ i'[c] = i[c]
          /\ result'[c] \in Nat \cup {Exception}
      BY <1>4, <2>1, FindStep, FindTypes DEF FindLabels
    <2>3. FilledAt(c)' /\ ~Filling(c)'
      BY <2>2 DEF FilledAt, Filling, FillLabels
    <2> QED BY <1>2, <2>2, <2>3, WorkKeeps DEF PutLabels, FindLabels, FillLabels
  <1> QED BY <1>3, <1>4


-------------------------------------------------------------------------------
(* The constructor.  The counter is read: it tells whether there is a table.   *)
LEMMA FirstLabels ==
  \A j \in Jobs : /\ j.kind = "put" => FirstLabel(j) = "allocRead"
                  /\ j.kind # "put" => FirstLabel(j) = "findHead" /\ j.kind \in {"get", "has"}
  BY JobTypes DEF FirstLabel

(* The constructor reads the counter to see whether there is a table.          *)
LEMMA CheckStep ==
  ASSUME IInv, NEW c \in Client, Operate(c), pc[c] = "check"
  PROVE  /\ mem' = mem /\ chain' = chain /\ Careful(c)
         /\ ptr' = ptr /\ old' = old /\ i' = i /\ result' = result /\ job' = job
         /\ pc'[c] = IF mem[0] < TableEnd THEN "initCounter"
                     ELSE IF job[c] = NoJob THEN "ready" ELSE FirstLabel(job[c])
  <1>1. Types
    BY DEF IInv
  <1>2. OpOf(c) = Read(0, 1)
    BY DEF OpOf
  <1>3. mem' = mem /\ chain' = chain /\ Careful(c)
    BY <1>2, ReadCareful DEF Read
  <1>4. Outcome(OpOf(c), mem).error = "OK" /\ Outcome(OpOf(c), mem).result[1] = mem[0]
    BY <1>2, ReadOne, MemSizeAssumption
  <1>5. /\ pc'[c] = IF mem[0] < TableEnd THEN "initCounter"
                    ELSE IF job[c] = NoJob THEN "ready" ELSE FirstLabel(job[c])
        /\ ptr' = ptr /\ old' = old /\ i' = i /\ result' = result /\ job' = job
    BY <1>1, <1>4, OperateFrame, VarTypes
    DEF Continue, AfterCheck, AfterInit, AfterAlloc, AfterFill, AfterLink, AfterFind,
        Goto, Keep, Constructed
  <1> QED BY <1>3, <1>5

(* It initialises only a table that it found blank, and then alone.            *)
LEMMA CheckKeeps ==
  ASSUME IInv, NEW c \in Client, Operate(c), pc[c] = "check" PROVE IInv'
  <1>1. Types /\ LabelAt(c) /\ StartedAt(c) /\ mem[0] \in Nat /\ TableEnd \in Nat
    BY VarTypes, Layout DEF IInv, Started
  <1>2. Frame(c) /\ jobs' = jobs /\ holder' \in Active \cup {Nobody}
    BY <1>1, OperateFrame
  <1>3. /\ mem' = mem /\ chain' = chain /\ Careful(c)
        /\ ptr' = ptr /\ old' = old /\ i' = i /\ result' = result /\ job' = job
        /\ pc'[c] = IF mem[0] < TableEnd THEN "initCounter"
                    ELSE IF job[c] = NoJob THEN "ready" ELSE FirstLabel(job[c])
    BY CheckStep
  <1>4. job[c] \in Jobs \cup {NoJob}
    BY <1>1, VarTypes
  <1>5. pc'[c] \in {"initCounter", "ready", "allocRead", "findHead"}
    BY <1>3, <1>4, FirstLabels
  <1>6. Types'
    <2>1. pc'[c] \in Label
      BY <1>5 DEF Label
    <2>2. mem' \in [Cells -> Nat] /\ chain' \in [Bins -> Seq(Records)]
      BY <1>1, <1>3, VarTypes DEF Types
    <2> QED BY <1>1, <1>2, <1>3, <2>1, <2>2, TypesKeep, VarTypes
  <1>7. job[c] # NoJob => mem[0] >= TableEnd
    BY <1>1 DEF StartedAt
  <1>8. LabelAt(c)'
    BY <1>1, <1>3, <1>4, <1>7, FirstLabels DEF LabelAt, PutLabels, FindLabels, FillLabels
  <1>9. FilledAt(c)' /\ ~Filling(c)' /\ pc'[c] # "allocCas"
    BY <1>5 DEF FilledAt, Filling, FillLabels
  <1>10. Started'
    <2>1. \A d \in Client \ {c} : pc'[d] = pc[d] /\ job'[d] = job[d]
      BY <1>2 DEF Frame, Others
    <2>2. ASSUME NEW d \in Client \ {c} PROVE StartedAt(d)'
      <3>1. StartedAt(d)
        BY DEF IInv, Started
      <3>2. /\ ~(pc[d] \in {"initCounter", "initBin"})
            /\ ~(pc[d] = "check" /\ mem[0] < TableEnd)
        BY <3>1 DEF StartedAt
      <3> QED BY <1>3, <2>1, <3>1, <3>2 DEF StartedAt
    <2>3. StartedAt(c)'
      <3>1. CASE mem[0] < TableEnd
        <4>1. \A d \in Client \ {c} : pc'[d] = "out"
          BY <1>1, <2>1, <3>1 DEF StartedAt
        <4>2. pc'[c] = "initCounter"
          BY <1>3, <3>1
        <4> QED BY <1>3, <3>1, <4>1, <4>2 DEF StartedAt
      <3>2. CASE mem[0] >= TableEnd
        <4>1. ~(mem[0] < TableEnd) /\ pc'[c] \in {"ready", "allocRead", "findHead"}
          BY <1>1, <1>3, <1>4, <3>2, FirstLabels
        <4> QED BY <1>3, <3>2, <4>1 DEF StartedAt
      <3> QED BY <1>1, <3>1, <3>2
    <2>4. pc'[c] # "out"
      BY <1>5
    <2> QED BY <2>2, <2>3, <2>4 DEF Started
  <1> QED BY <1>2, <1>3, <1>6, <1>8, <1>9, <1>10, CarefulKeeps

(* While the table is initialised nothing is published.                        *)
LEMMA NothingYet ==
  ASSUME IInv, mem[0] <= TableEnd
  PROVE  \A b \in Bins : chain[b] = <<>> /\ mem[b] = 0
  <1> SUFFICES ASSUME NEW b \in Bins PROVE chain[b] = <<>> /\ mem[b] = 0
    OBVIOUS
  <1>1. Types /\ mem[0] \in Nat /\ TableEnd \in Nat
    BY VarTypes, Layout DEF IInv
  <1>2. chain[b] \in Seq(Records) /\ Len(chain[b]) \in Nat
    BY <1>1, RecordTypes
  <1>3. ASSUME Len(chain[b]) >= 1 PROVE FALSE
    <2>1. 1 \in 1 .. Len(chain[b])
      BY <1>2, <1>3
    <2>2. PICK p, k : p = chain[b][1].ptr /\ k = chain[b][1].key
      OBVIOUS
    <2>3. p \in Nat /\ k \in Key /\ p >= TableEnd /\ p + recLen(k) <= mem[0]
      BY <1>1, <2>1, <2>2, RecordTypes DEF IInv, Published, Block
    <2>4. recLen(k) \in Nat /\ recLen(k) >= 3
      BY <2>3, Layout
    <2> QED BY <1>1, <2>3, <2>4
  <1>4. Len(chain[b]) = 0
    BY <1>2, <1>3
  <1>5. mem[b] = 0
    BY <1>2, <1>4 DEF IInv, Linked, From
  <1> QED BY <1>2, <1>4, <1>5

(* The counter is set behind the table.                                        *)
LEMMA InitCounterKeeps ==
  ASSUME IInv, NEW c \in Client, Operate(c), pc[c] = "initCounter" PROVE IInv'
  <1>1. Types /\ LabelAt(c) /\ StartedAt(c) /\ mem[0] \in Nat /\ TableEnd \in Nat /\ 0 \in Cells
    BY VarTypes, Layout DEF IInv, Started
  <1>2. /\ Frame(c) /\ job' = job /\ jobs' = jobs /\ holder' \in Active \cup {Nobody}
        /\ mem' = Effect(OpOf(c), mem) /\ Record(c, OpOf(c))
    BY <1>1, OperateFrame
  <1>3. OpOf(c) = Write(0, <<TableEnd>>)
    BY DEF OpOf
  <1>4. mem' = [mem EXCEPT ![0] = TableEnd] /\ Outcome(OpOf(c), mem).error = "OK"
    <2>1. 0 < MemSize /\ mem \in [Cells -> Int]
      BY <1>1, MemSizeAssumption, VarTypes
    <2>2. PICK a, v : a = 0 /\ v = TableEnd /\ a \in Nat /\ v \in Int
      BY <1>1
    <2>3. /\ Effect(Write(a, <<v>>), mem) = [mem EXCEPT ![a] = v]
          /\ Outcome(Write(a, <<v>>), mem).error = "OK"
      BY <2>1, <2>2, WriteOne
    <2> QED BY <1>2, <1>3, <2>2, <2>3
  <1>5. chain' = chain
    BY <1>2, <1>3 DEF Record, Swaps, Write
  <1>6. /\ pc'[c] = "initBin" /\ i'[c] = 0
        /\ ptr' = ptr /\ old' = old /\ result' = result
    BY <1>1, <1>4, OperateFrame, VarTypes
    DEF Continue, AfterCheck, AfterInit, AfterAlloc, AfterFill, AfterLink, AfterFind, Goto
  <1>7. mem[0] < TableEnd /\ \A d \in Client \ {c} : pc[d] = "out"
    BY <1>1 DEF StartedAt
  <1>8. mem \in [Cells -> Nat] /\ mem' \in [Cells -> Nat] /\ mem'[0] = TableEnd /\ Careful(c)
    <2>1. mem \in [Cells -> Nat] /\ mem' \in [Cells -> Nat] /\ mem'[0] = TableEnd
      BY <1>1, <1>4, VarTypes
    <2> QED BY <1>1, <1>4, <1>7, <2>1 DEF Careful
  <1>9. Types'
    <2>1. pc'[c] \in Label /\ i'[c] \in 0 .. N /\ chain' \in [Bins -> Seq(Records)]
      BY <1>1, <1>5, <1>6, DHTAssumption DEF Label, Types
    <2> QED BY <1>1, <1>2, <1>6, <1>8, <2>1, TypesKeep, VarTypes
  <1>10. LabelAt(c)' /\ FilledAt(c)' /\ ~Filling(c)' /\ pc'[c] # "allocCas"
    BY <1>1, <1>2, <1>6, DHTAssumption
    DEF LabelAt, FilledAt, Filling, PutLabels, FindLabels, FillLabels
  <1>11. Started'
    BY <1>1, <1>2, <1>6, <1>7, <1>8 DEF Started, StartedAt, Frame, Others
  <1> QED BY <1>2, <1>5, <1>8, <1>9, <1>10, <1>11, CarefulKeeps

(* A bin is cleared.                                                           *)
LEMMA InitBinKeeps ==
  ASSUME IInv, NEW c \in Client, Operate(c), pc[c] = "initBin"
  PROVE  IInv' /\ chain' = chain
  <1>1. /\ Types /\ LabelAt(c) /\ StartedAt(c) /\ mem[0] \in Nat /\ TableEnd \in Nat
        /\ job[c] = NoJob
    BY VarTypes, Layout DEF IInv, Started, LabelAt
  <1>2. /\ Frame(c) /\ job' = job /\ jobs' = jobs /\ holder' \in Active \cup {Nobody}
        /\ mem' = Effect(OpOf(c), mem) /\ Record(c, OpOf(c))
    BY <1>1, OperateFrame
  <1>3. PICK a : a = N + i[c] /\ a \in Nat /\ 1 <= a /\ a < TableEnd /\ a < MemSize /\ a \in Cells
    <2>1. i[c] \in 0 .. N /\ i[c] < N /\ N \in Nat \ {0} /\ TableEnd = 2 * N /\ TableEnd <= MemSize
      BY <1>1, VarTypes, DHTAssumption, TableAssumption DEF LabelAt, TableEnd
    <2>2. PICK a : a = N + i[c]
      OBVIOUS
    <2>3. a \in Nat /\ 1 <= a /\ a < TableEnd /\ a < MemSize /\ a \in Cells
      BY <2>1, <2>2, MemSizeAssumption DEF Cells
    <2> QED BY <2>2, <2>3
  <1>4. OpOf(c) = Write(a, <<0>>)
    BY <1>3 DEF OpOf
  <1>5. mem' = [mem EXCEPT ![a] = 0] /\ Outcome(OpOf(c), mem).error = "OK"
    <2>1. mem \in [Cells -> Int]
      BY <1>1, VarTypes
    <2>2. PICK v : v = 0 /\ v \in Int
      OBVIOUS
    <2>3. /\ Effect(Write(a, <<v>>), mem) = [mem EXCEPT ![a] = v]
          /\ Outcome(Write(a, <<v>>), mem).error = "OK"
      BY <1>3, <2>1, <2>2, WriteOne
    <2> QED BY <1>2, <1>4, <2>2, <2>3
  <1>6. mem[0] = TableEnd /\ \A d \in Client \ {c} : pc[d] = "out"
    BY <1>1 DEF StartedAt
  <1>7. \A b \in Bins : chain[b] = <<>> /\ mem[b] = 0
    BY <1>1, <1>6, NothingYet
  <1>8. chain' = chain
    <2>1. chain \in [Bins -> Seq(Records)]
      BY <1>1 DEF Types
    <2>2. chain' = IF a \in Bins THEN [chain EXCEPT ![a] = <<>>] ELSE chain
      BY <1>2, <1>4 DEF Record, Swaps, Write
    <2> QED BY <1>7, <2>1, <2>2
  <1>9. mem' \in [Cells -> Nat] /\ mem'[0] = mem[0] /\ Careful(c)
    <2>1. mem \in [Cells -> Nat] /\ mem' \in [Cells -> Nat] /\ mem'[0] = mem[0]
      BY <1>1, <1>3, <1>5, VarTypes, Layout
    <2>2. \A x \in Cells : mem'[x] # mem[x] => x = a /\ x \notin Bins
      BY <1>5, <1>7, <2>1
    <2> QED BY <1>1, <1>3, <2>1, <2>2 DEF Careful
  <1>10. /\ pc'[c] \in {"initBin", "ready"} /\ i'[c] = i[c] + 1
         /\ pc'[c] = "initBin" => i[c] + 1 < N
         /\ ptr' = ptr /\ old' = old /\ result' = result
    BY <1>1, <1>5, OperateFrame, VarTypes
    DEF Continue, AfterCheck, AfterInit, AfterAlloc, AfterFill, AfterLink, AfterFind, Goto,
        Constructed
  <1>11. Types'
    <2>1. pc'[c] \in Label /\ chain' \in [Bins -> Seq(Records)]
      BY <1>1, <1>8, <1>10 DEF Label, Types
    <2>2. i'[c] \in 0 .. N
      BY <1>1, <1>10, VarTypes, DHTAssumption DEF LabelAt
    <2> QED BY <1>1, <1>2, <1>9, <1>10, <2>1, <2>2, TypesKeep, VarTypes
  <1>12. LabelAt(c)' /\ FilledAt(c)' /\ ~Filling(c)' /\ pc'[c] # "allocCas"
    BY <1>1, <1>2, <1>10 DEF LabelAt, FilledAt, Filling, PutLabels, FindLabels, FillLabels
  <1>13. Started'
    BY <1>1, <1>2, <1>6, <1>9, <1>10 DEF Started, StartedAt, Frame, Others
  <1> QED BY <1>2, <1>8, <1>9, <1>11, <1>12, <1>13, CarefulKeeps


-------------------------------------------------------------------------------
(* A constructor is called while nobody initialises the table, and with nobody *)
(* else there if it will.                                                      *)
LEMMA EnterKeeps ==
  ASSUME AttachAlone, IInv, NEW c \in Client, Enter(c) PROVE IInv'
  <1>1. Types /\ LabelAt(c) /\ mem[0] \in Nat /\ TableEnd \in Nat
    BY VarTypes, Layout DEF IInv
  <1>2. /\ pc[c] = "out" /\ Alone(c)
        /\ pc' = [pc EXCEPT ![c] = IF c \in AlwaysInit THEN "initCounter" ELSE "check"]
        /\ UNCHANGED <<job, ptr, old, i, result, jobs, mem, holder, chain>>
    BY DEF Enter, Attach, Goto
  <1>3. /\ pc'[c] = IF c \in AlwaysInit THEN "initCounter" ELSE "check"
        /\ \A d \in Client \ {c} : pc'[d] = pc[d]
    BY <1>1, <1>2, VarTypes
  <1>4. Frame(c)
    BY <1>1, <1>2, VarTypes DEF Frame, Others
  <1>5. Careful(c)
    BY <1>1, <1>2, VarTypes DEF Careful
  <1>6. Types'
    <2>1. pc'[c] \in Label
      BY <1>3 DEF Label
    <2>2. mem' \in [Cells -> Nat] /\ chain' \in [Bins -> Seq(Records)]
      BY <1>1, <1>2, VarTypes DEF Types
    <2> QED BY <1>1, <1>2, <1>4, <2>1, <2>2, TypesKeep, VarTypes
  <1>7. job[c] = NoJob
    BY <1>1, <1>2 DEF LabelAt
  <1>8. LabelAt(c)' /\ FilledAt(c)' /\ ~Filling(c)' /\ pc'[c] # "allocCas"
    BY <1>2, <1>3, <1>7 DEF LabelAt, FilledAt, Filling, PutLabels, FindLabels, FillLabels
  <1>9. c \in AlwaysInit \/ mem[0] < TableEnd => \A d \in Client : pc[d] = "out"
    BY <1>2 DEF Alone, WillInit
  <1>10. \A d \in Client : pc[d] # "initBin"
    BY <1>2 DEF Alone
  <1>11. (\A d \in Client : pc[d] = "out") => mem[0] < TableEnd
    BY DEF IInv, Started
  <1>12. ASSUME NEW d \in Client \ {c} PROVE StartedAt(d)'
    <2>1. StartedAt(d)
      BY DEF IInv, Started
    <2>2. pc[d] # "initCounter" /\ ~(pc[d] = "check" /\ mem[0] < TableEnd)
      BY <1>9, <2>1 DEF StartedAt
    <2> QED BY <1>2, <1>3, <1>10, <2>1, <2>2 DEF StartedAt
  <1>13. StartedAt(c)'
    <2>1. CASE c \in AlwaysInit
      BY <1>2, <1>3, <1>9, <1>11, <2>1 DEF StartedAt
    <2>2. CASE c \notin AlwaysInit
      BY <1>2, <1>3, <1>7, <1>9, <2>2 DEF StartedAt
    <2> QED BY <2>1, <2>2
  <1>14. Started'
    BY <1>3, <1>12, <1>13 DEF Started
  <1> QED BY <1>2, <1>4, <1>5, <1>6, <1>8, <1>14, CarefulKeeps

(* A call starts.                                                              *)
LEMMA InvokeKeeps ==
  ASSUME IInv, NEW c \in Client, Invoke(c) PROVE IInv'
  <1>1. Types /\ mem[0] \in Nat
    BY VarTypes DEF IInv
  <1>2. PICK j \in Jobs : /\ job' = [job EXCEPT ![c] = j]
                          /\ pc' = [pc EXCEPT ![c] = IF c \in Active THEN "queued"
                                                     ELSE FirstLabel(j)]
    BY DEF Invoke, Call, Goto
  <1>3. /\ pc[c] = "ready" /\ jobs[c] < MaxJobs /\ jobs' = [jobs EXCEPT ![c] = @ + 1]
        /\ UNCHANGED <<ptr, old, i, result, mem, holder, chain>>
    BY DEF Invoke, Call
  <1>4. pc'[c] \in {"queued", "allocRead", "findHead"} /\ job'[c] = j
    BY <1>1, <1>2, VarTypes, FirstLabels
  <1>5. Frame(c)
    BY <1>1, <1>2, <1>3, VarTypes DEF Frame, Others
  <1>6. Careful(c)
    BY <1>1, <1>3, VarTypes DEF Careful
  <1>7. Types'
    <2>1. pc'[c] \in Label /\ job'[c] \in Jobs \cup {NoJob}
      BY <1>4 DEF Label
    <2>2. mem' \in [Cells -> Nat] /\ chain' \in [Bins -> Seq(Records)]
      BY <1>1, <1>3, VarTypes DEF Types
    <2>3. jobs' \in [Client -> 0 .. MaxJobs]
      BY <1>1, <1>3, VarTypes, DHTAssumption
    <2> QED BY <1>1, <1>3, <1>5, <2>1, <2>2, <2>3, TypesKeep, VarTypes
  <1>8. LabelAt(c)'
    <2>1. pc'[c] = IF c \in Active THEN "queued" ELSE FirstLabel(j)
      BY <1>1, <1>2, VarTypes
    <2> QED BY <1>4, <2>1, FirstLabels, JobTypes DEF LabelAt, PutLabels, FindLabels, FillLabels
  <1>9. FilledAt(c)' /\ ~Filling(c)' /\ pc'[c] # "allocCas"
    BY <1>4 DEF FilledAt, Filling, FillLabels
  <1>10. Started'
    BY <1>1, <1>3, <1>4, <1>5, StartedKeeps
  <1> QED BY <1>3, <1>5, <1>6, <1>7, <1>8, <1>9, <1>10, CarefulKeeps

(* The server starts a request's mobile code.                                  *)
LEMMA RunKeeps ==
  ASSUME IInv, NEW c \in Client, Run(c) PROVE IInv'
  <1>1. Types /\ LabelAt(c) /\ StartedAt(c) /\ mem[0] \in Nat /\ TableEnd \in Nat
    BY VarTypes, Layout DEF IInv, Started
  <1>2. /\ pc[c] = "queued" /\ pc' = [pc EXCEPT ![c] = "check"] /\ holder' = c
        /\ UNCHANGED <<job, ptr, old, i, result, jobs, mem, chain>>
    BY DEF Run, Dispatch, Goto
  <1>3. pc'[c] = "check" /\ \A d \in Client \ {c} : pc'[d] = pc[d]
    BY <1>1, <1>2, VarTypes
  <1>4. Frame(c)
    BY <1>1, <1>2, VarTypes DEF Frame, Others
  <1>5. Careful(c)
    BY <1>1, <1>2, VarTypes DEF Careful
  <1>6. job[c] \in Jobs /\ c \in Active /\ mem[0] >= TableEnd
    BY <1>1, <1>2 DEF LabelAt, StartedAt
  <1>7. Types'
    <2>1. pc'[c] \in Label /\ holder' \in Active \cup {Nobody}
      BY <1>2, <1>3, <1>6 DEF Label
    <2>2. mem' \in [Cells -> Nat] /\ chain' \in [Bins -> Seq(Records)]
      BY <1>1, <1>2, VarTypes DEF Types
    <2> QED BY <1>1, <1>2, <1>4, <2>1, <2>2, TypesKeep, VarTypes
  <1>8. LabelAt(c)' /\ FilledAt(c)' /\ ~Filling(c)' /\ pc'[c] # "allocCas"
    BY <1>2, <1>3, <1>6 DEF LabelAt, FilledAt, Filling, PutLabels, FindLabels, FillLabels
  <1>9. Started'
    <2>1. ~(mem[0] < TableEnd)
      BY <1>1, <1>6
    <2>2. ASSUME NEW d \in Client \ {c} PROVE StartedAt(d)'
      <3>1. StartedAt(d)
        BY DEF IInv, Started
      <3>2. pc[d] \notin {"initCounter", "initBin"}
        BY <1>2, <3>1 DEF StartedAt
      <3> QED BY <1>2, <1>3, <2>1, <3>1, <3>2 DEF StartedAt
    <2>3. StartedAt(c)'
      BY <1>2, <1>3, <1>6, <2>1 DEF StartedAt
    <2> QED BY <1>3, <2>2, <2>3 DEF Started
  <1> QED BY <1>2, <1>4, <1>5, <1>7, <1>8, <1>9, CarefulKeeps

(* A call returns.                                                             *)
LEMMA LeaveKeeps ==
  ASSUME IInv, NEW c \in Client, Leave(c) PROVE IInv'
  <1>1. Types /\ mem[0] \in Nat
    BY VarTypes DEF IInv
  <1>2. /\ pc[c] = "return" /\ pc' = [pc EXCEPT ![c] = "ready"]
        /\ job' = [job EXCEPT ![c] = NoJob]
        /\ UNCHANGED <<ptr, old, i, result, jobs, mem, holder, chain>>
    BY DEF Leave, Return, Goto
  <1>3. pc'[c] = "ready" /\ job'[c] = NoJob
    BY <1>1, <1>2, VarTypes
  <1>4. Frame(c)
    BY <1>1, <1>2, VarTypes DEF Frame, Others
  <1>5. Careful(c)
    BY <1>1, <1>2, VarTypes DEF Careful
  <1>6. Types'
    <2>1. pc'[c] \in Label
      BY <1>3 DEF Label
    <2>2. mem' \in [Cells -> Nat] /\ chain' \in [Bins -> Seq(Records)]
      BY <1>1, <1>2, VarTypes DEF Types
    <2> QED BY <1>1, <1>2, <1>3, <1>4, <2>1, <2>2, TypesKeep, VarTypes
  <1>7. LabelAt(c)' /\ FilledAt(c)' /\ ~Filling(c)' /\ pc'[c] # "allocCas"
    BY <1>3 DEF LabelAt, FilledAt, Filling, PutLabels, FindLabels, FillLabels
  <1>8. Started'
    BY <1>1, <1>2, <1>3, <1>4, StartedKeeps
  <1> QED BY <1>2, <1>4, <1>5, <1>6, <1>7, <1>8, CarefulKeeps

(* Whatever operation is served, at whatever label.                            *)
LEMMA OperateKeeps ==
  ASSUME IInv, NEW c \in Client, Operate(c) PROVE IInv'
  <1>1. pc[c] \in Label \ {"out", "ready", "queued", "return"}
    BY OperateFrame, VarTypes DEF IInv
  <1>2. CASE pc[c] \in FindLabels
    BY <1>2, FindKeeps
  <1> QED BY <1>1, <1>2, CheckKeeps, InitCounterKeeps, InitBinKeeps, AllocReadKeeps,
             AllocCasKeeps, WriteNextKeeps, WriteValKeeps, WriteLenKeeps, WriteKeyKeeps,
             ReadHeadKeeps, LinkKeeps, PublishKeeps
          DEF Label, FindLabels

(* Nothing is stored yet, and the table exists if somebody has attached.       *)
LEMMA InitIInv == Init => IInv
  <1> SUFFICES ASSUME Init PROVE IInv
    OBVIOUS
  <1>1. /\ mem = [a \in Cells |-> IF a = 0 THEN IF Attached = {} THEN 1 ELSE 2 * N ELSE 0]
        /\ holder = Nobody /\ chain = [b \in Bins |-> <<>>]
        /\ pc = [c \in Client |-> IF c \in Attached THEN "ready" ELSE "out"]
        /\ job = [c \in Client |-> NoJob] /\ ptr = [c \in Client |-> 0]
        /\ old = [c \in Client |-> 0] /\ i = [c \in Client |-> 0]
        /\ result = [c \in Client |-> 0] /\ jobs = [c \in Client |-> 0]
    BY DEF Init, ProgramInit
  <1>2. N \in Nat \ {0} /\ MaxJobs \in Nat
    BY DHTAssumption
  <1>3. TypeOK
    BY <1>1, <1>2 DEF TypeOK, ProgramTypeOK, Label
  <1>4. chain \in [Bins -> Seq(Records)] /\ \A b \in Bins : chain[b] = <<>> /\ Len(chain[b]) = 0
    BY <1>1
  <1>5. \A c \in Client : pc[c] \in {"ready", "out"} /\ job[c] = NoJob
    BY <1>1
  <1>6. \A c \in Client : LabelAt(c) /\ OwnAt(c) /\ FilledAt(c) /\ ~Filling(c)
    BY <1>5 DEF LabelAt, OwnAt, FilledAt, Filling, PutLabels, FindLabels, FillLabels
  <1>7. Started
    <2>1. mem[0] = IF Attached = {} THEN 1 ELSE TableEnd
      BY <1>1, Layout DEF TableEnd
    <2>2. \A c \in Client : pc[c] = "ready" => mem[0] >= TableEnd
      BY <1>1, <2>1, Layout
    <2>3. (\A c \in Client : pc[c] = "out") => mem[0] < TableEnd
      <3>1. Attached # {} => \E c \in Client : pc[c] = "ready"
        BY <1>1, DHTAssumption
      <3> QED BY <2>1, <3>1, Layout
    <2> QED BY <1>5, <2>2, <2>3 DEF Started, StartedAt
  <1>8. PutsApart /\ Published
    BY <1>4, <1>6 DEF PutsApart, Published
  <1>9. Linked
    <2>1. \A b \in Bins : mem[b] = 0
      BY <1>1, Layout
    <2> QED BY <1>4, <2>1 DEF Linked, From
  <1> QED BY <1>3, <1>4, <1>6, <1>7, <1>8, <1>9 DEF IInv, Types

-------------------------------------------------------------------------------
(* IInv is an invariant of the table (DHT_RDMA.java), if programs attach the   *)
(* way the code relies on.                                                     *)
THEOREM TableInvariance == ASSUME AttachAlone PROVE Spec => []IInv
  <1>1. IInv /\ [Next]_vars => IInv'
    <2> SUFFICES ASSUME IInv, [Next]_vars PROVE IInv'
      OBVIOUS
    <2>1. ASSUME NEW c \in Client, Step(c) PROVE IInv'
      BY <2>1, EnterKeeps, InvokeKeeps, RunKeeps, OperateKeeps, LeaveKeeps DEF Step
    <2>2. CASE UNCHANGED vars
      BY <2>2 DEF vars, IInv, Types, TypeOK, ProgramTypeOK, Started, StartedAt, PutsApart,
                  Published, Linked, LabelAt, OwnAt, FilledAt, Filling, Block, Apart, Complete,
                  HasVal, HasLen, HasWords, From
    <2> QED BY <2>1, <2>2 DEF Next, Finished
  <1> QED BY <1>1, InitIInv, PTL DEF Spec

(* The variables of the table and of the calls at work keep their types.       *)
THEOREM TableTypes == ASSUME AttachAlone PROVE Spec => []TypeOK
  <1>1. IInv => TypeOK
    BY DEF IInv, Types
  <1> QED BY <1>1, TableInvariance, PTL

(* Memory holds the chains, whoever puts and dies wherever: a bin's word leads *)
(* to every published record, complete, newest first (DHT_RDMA.put, 108-139).  *)
THEOREM ChainsWhole == ASSUME AttachAlone PROVE Spec => []ChainOK
  <1>1. IInv => ChainOK
    <2> SUFFICES ASSUME IInv, NEW b \in Bins
                 PROVE  /\ mem[b] = From(b, 1)
                        /\ \A n \in 1 .. Len(chain[b]) :
                             /\ mem[chain[b][n].ptr] = From(b, n + 1)
                             /\ mem[chain[b][n].ptr + 1] = chain[b][n].val
                             /\ mem[chain[b][n].ptr + 2] = KeyLen[chain[b][n].key]
                             /\ \A w \in DOMAIN KeyWords[chain[b][n].key] :
                                  mem[chain[b][n].ptr + 2 + w] = KeyWords[chain[b][n].key][w]
      BY DEF ChainOK, From
    <2> QED BY DEF IInv, Linked, Complete, HasVal, HasLen, HasWords
  <1> QED BY <1>1, TableInvariance, PTL

(* No word belongs to two published records, and none to a record and the      *)
(* heads: the counter gives every block away once (DHT_RDMA.allocate).         *)
THEOREM RecordsNeverShare == ASSUME AttachAlone PROVE Spec => []RecordsApart
  <1>1. IInv => RecordsApart
    <2> SUFFICES ASSUME IInv, NEW b \in Bins, NEW d \in Bins,
                        NEW n \in DOMAIN chain[b], NEW m \in DOMAIN chain[d]
                 PROVE  /\ chain[b][n].ptr >= 2 * N
                        /\ <<b, n>> # <<d, m>> =>
                             Apart(chain[b][n].ptr, chain[b][n].key,
                                   chain[d][m].ptr, chain[d][m].key)
      BY DEF RecordsApart, Apart
    <2>1. n \in 1 .. Len(chain[b]) /\ m \in 1 .. Len(chain[d])
      BY RecordTypes DEF IInv
    <2> QED BY <2>1 DEF IInv, Published, Block, TableEnd
  <1> QED BY <1>1, TableInvariance, PTL

-------------------------------------------------------------------------------
(* A set of numbers that is not empty has a smallest member.                   *)
LEMMA SmallestMember ==
  ASSUME NEW T, T \subseteq Nat, T # {}
  PROVE  \E n \in T : \A m \in T : n <= m
  <1> DEFINE R == OpToRel(<, Nat)
  <1>1. IsWellFoundedOn(R, Nat)
    BY NatLessThanWellFounded
  <1>2. \A x, y \in Nat : <<x, y>> \in R <=> x < y
    BY DEF OpToRel
  <1> HIDE DEF R
  <1>3. PICK n \in T : \A m \in T : ~(<<m, n>> \in R)
    BY <1>1, WFMin
  <1>4. ASSUME NEW m \in T PROVE n <= m
    <2>1. m \in Nat /\ n \in Nat
      OBVIOUS
    <2>2. ~(m < n)
      BY <1>2, <1>3, <2>1
    <2> QED BY <2>1, <2>2
  <1> QED BY <1>4

-------------------------------------------------------------------------------
(* The refinement of DHTMap.  It needs to know what a search will answer.  The *)
(* first record of key k from the n-th of bin b on is the h-th.                *)
FirstHit(b, n, k, h) == /\ h \in n .. Len(chain[b]) /\ chain[b][h].key = k
                        /\ \A m \in n .. h - 1 : chain[b][m].key # k
NoHit(b, n, k) == \A m \in n .. Len(chain[b]) : chain[b][m].key # k

(* Searching on from the n-th record finds what c saw at the head.             *)
Answers(c, b, n) ==
  \/ seen[c] = 0 /\ NoHit(b, n, job[c].key)
  \/ \E h \in n .. Len(chain[b]) :
       /\ FirstHit(b, n, job[c].key, h)
       /\ seen[c] = IF job[c].kind = "get" THEN chain[b][h].val ELSE 1

AtRecord(c, b, n) ==
  /\ ptr[c] = chain[b][n].ptr
  /\ pc[c] \in {"cmpLen", "cmpKey"} => Answers(c, b, n)
  /\ pc[c] = "cmpKey" => KeyLen[chain[b][n].key] = KeyLen[job[c].key]
  /\ pc[c] = "findNext" => Answers(c, b, n + 1)
  /\ pc[c] = "readVal" => /\ job[c].kind = "get" /\ chain[b][n].key = job[c].key
                          /\ seen[c] = chain[b][n].val

WalkLabels == {"cmpLen", "cmpKey", "findNext", "readVal"}

WalkAt(c) == pc[c] \in WalkLabels =>
               \E n \in 1 .. Len(chain[hashPtr(job[c].key)]) : AtRecord(c, hashPtr(job[c].key), n)

Walks == /\ seen \in [Client -> Nat]
         /\ \A c \in Client : WalkAt(c)

(* What the map holds for a key is the value of its first record.              *)
Looks ==
  \A k \in Key :
    /\ Lookup(k) \in Nat \cup {Absent}
    /\ \/ NoHit(hashPtr(k), 1, k)
       \/ \E h \in 1 .. Len(chain[hashPtr(k)]) : FirstHit(hashPtr(k), 1, k, h)
    /\ NoHit(hashPtr(k), 1, k) => Lookup(k) = Absent
    /\ \A h \in 1 .. Len(chain[hashPtr(k)]) :
         FirstHit(hashPtr(k), 1, k, h) => Lookup(k) = chain[hashPtr(k)][h].val

(* What the map holds for a key is the value of the first hit in its chain.    *)
LEMMA LookupFirst == Types => Looks
  <1> SUFFICES ASSUME Types, NEW k \in Key, NEW b \in Bins, b = hashPtr(k)
               PROVE  /\ Lookup(k) \in Nat \cup {Absent}
                      /\ NoHit(b, 1, k) \/ \E h \in 1 .. Len(chain[b]) : FirstHit(b, 1, k, h)
                      /\ NoHit(b, 1, k) => Lookup(k) = Absent
                      /\ \A h \in 1 .. Len(chain[b]) :
                           FirstHit(b, 1, k, h) => Lookup(k) = chain[b][h].val
    BY Layout DEF Looks
  <1> DEFINE hits == {n \in 1 .. Len(chain[b]) : chain[b][n].key = k}
             first == CHOOSE n \in hits : \A m \in hits : n <= m
  <1>1. /\ Len(chain[b]) \in Nat /\ DOMAIN chain[b] = 1 .. Len(chain[b])
        /\ \A n \in 1 .. Len(chain[b]) : chain[b][n].val \in Nat
    BY RecordTypes
  <1>2. Lookup(k) = IF hits = {} THEN Absent ELSE chain[b][first].val
    BY <1>1 DEF Lookup
  <1>3. NoHit(b, 1, k) <=> hits = {}
    BY DEF NoHit
  <1>4. ASSUME NEW h \in hits, \A m \in hits : h <= m PROVE FirstHit(b, 1, k, h)
    BY <1>1, <1>4 DEF FirstHit
  <1>5. ASSUME NEW h \in 1 .. Len(chain[b]), FirstHit(b, 1, k, h)
        PROVE  first = h /\ h \in hits
    <2>1. h \in hits /\ \A m \in hits : h <= m
      BY <1>1, <1>5 DEF FirstHit
    <2>2. \A n \in hits : (\A m \in hits : n <= m) => n = h
      BY <1>1, <2>1
    <2> QED BY <2>1, <2>2
  <1>6. hits # {} => \E h \in hits : \A m \in hits : h <= m
    <2>1. hits \subseteq Nat
      BY <1>1
    <2> HIDE DEF hits
    <2> QED BY <2>1, SmallestMember
  <1>7. hits # {} => \E h \in 1 .. Len(chain[b]) : FirstHit(b, 1, k, h)
    BY <1>4, <1>6
  <1> HIDE DEF first, hits
  <1>8. \A h \in 1 .. Len(chain[b]) : FirstHit(b, 1, k, h) => Lookup(k) = chain[b][h].val
    BY <1>2, <1>5
  <1> QED BY <1>1, <1>2, <1>3, <1>7, <1>8

(* The same after a step.                                                      *)
LEMMA LookupNext == Types' => Looks'
  BY LookupFirst, PTL

(* What a search is to answer, from the map.                                   *)
LEMMA ExpectedFirst ==
  ASSUME IInv, NEW c \in Client, pc[c] = "findHead"
  PROVE  LET k == job[c].key b == hashPtr(job[c].key) IN
         /\ Expected(job[c]) \in Nat
         /\ Expected(job[c]) = IF Lookup(k) = Absent THEN 0
                               ELSE IF job[c].kind = "get" THEN Lookup(k) ELSE 1
         /\ \/ NoHit(b, 1, k) /\ Lookup(k) = Absent /\ Expected(job[c]) = 0
            \/ \E h \in 1 .. Len(chain[b]) :
                 /\ FirstHit(b, 1, k, h) /\ Lookup(k) # Absent
                 /\ Expected(job[c]) = IF job[c].kind = "get" THEN chain[b][h].val ELSE 1
  <1>1. Types /\ job[c].key \in Key /\ job[c].kind \in {"get", "has"}
    BY FindTypes DEF IInv, FindLabels
  <1>2. PICK k \in Key, b \in Bins : k = job[c].key /\ b = hashPtr(job[c].key)
    BY <1>1, Layout
  <1>3. Looks /\ \A h \in 1 .. Len(chain[b]) : chain[b][h].val \in Nat
    BY <1>1, LookupFirst, RecordTypes
  <1>4. Expected(job[c]) = IF Lookup(k) = Absent THEN 0
                           ELSE IF job[c].kind = "get" THEN Lookup(k) ELSE 1
    BY <1>1, <1>2 DEF Expected
  <1>5. Lookup(k) # Absent <=> Lookup(k) \in Nat
    BY <1>2, <1>3 DEF Looks, Absent
  <1> QED BY <1>1, <1>2, <1>3, <1>4, <1>5 DEF Looks

(* The chains change where a record is published, and nowhere else.            *)
LEMMA ChainStays ==
  ASSUME IInv, NEW c \in Client, Operate(c), pc[c] # "publish" PROVE chain' = chain
  <1>1. Types /\ pc[c] \in Label \ {"out", "ready", "queued", "return"}
    BY OperateFrame, VarTypes DEF IInv
  <1>2. CASE pc[c] = "initBin"
    BY <1>2, InitBinKeeps
  <1>3. CASE pc[c] = "allocCas"
    <2>1. OpOf(c).addr = 0
      BY <1>3 DEF OpOf, Cas
    <2>2. 0 \notin Bins
      BY Layout
    <2> QED BY <1>1, <1>3, <2>1, <2>2, OperateFrame DEF Record
  <1>4. CASE pc[c] \notin {"initBin", "allocCas", "publish"}
    <2>1. OpOf(c).kind # "CAS"
      BY <1>1, <1>4 DEF OpOf, Label, Read, Write
    <2> QED BY <1>1, <1>4, <2>1, OperateFrame DEF Record, Swaps
  <1> QED BY <1>2, <1>3, <1>4

(* A search sees the same where the chain is the same.                         *)
LEMMA AnswersSame ==
  ASSUME NEW c \in Client, NEW d \in Client, NEW b \in Bins, NEW n \in Nat,
         chain'[b] = chain[b], job'[d] = job[d], seen'[d] = seen[d], Answers(d, b, n)
  PROVE  Answers(d, b, n)'
  BY DEF Answers, FirstHit, NoHit

(* Behind a record with another key it sees what it saw from there.            *)
LEMMA AnswersOn ==
  ASSUME Types, NEW c \in Client, NEW b \in Bins, NEW n \in 1 .. Len(chain[b]),
         Answers(c, b, n)
  PROVE  /\ chain[b][n].key # job[c].key => Answers(c, b, n + 1)
         /\ chain[b][n].key = job[c].key =>
              seen[c] = IF job[c].kind = "get" THEN chain[b][n].val ELSE 1
  <1> DEFINE k == job[c].key
  <1>1. Len(chain[b]) \in Nat
    BY RecordTypes
  <1>2. CASE seen[c] = 0 /\ NoHit(b, n, k)
    BY <1>1, <1>2 DEF Answers, NoHit
  <1>3. ASSUME NEW h \in n .. Len(chain[b]), FirstHit(b, n, k, h),
               seen[c] = IF job[c].kind = "get" THEN chain[b][h].val ELSE 1
        PROVE  /\ chain[b][n].key # k => Answers(c, b, n + 1)
               /\ chain[b][n].key = k =>
                    seen[c] = IF job[c].kind = "get" THEN chain[b][n].val ELSE 1
    <2>1. CASE h = n
      BY <1>3, <2>1 DEF FirstHit
    <2>2. CASE h # n
      <3>1. h \in n + 1 .. Len(chain[b]) /\ n \in n .. h - 1
        BY <1>1, <2>2
      <3>2. chain[b][n].key # k /\ FirstHit(b, n + 1, k, h)
        BY <1>1, <1>3, <3>1 DEF FirstHit
      <3> QED BY <1>3, <3>1, <3>2 DEF Answers
    <2> QED BY <2>1, <2>2
  <1> QED BY <1>2, <1>3 DEF Answers

(* A record published before it moves every record one further.                *)
LEMMA HitsMove ==
  ASSUME IInv, NEW c \in Client, pc[c] \in PutLabels, NEW b \in Bins, Publishes(c, b),
         NEW n \in 1 .. Len(chain[b]) + 1, NEW k
  PROVE  /\ NoHit(b, n, k) => NoHit(b, n + 1, k)'
         /\ \A h \in n .. Len(chain[b]) : /\ h + 1 \in n + 1 .. Len(chain'[b])
                                          /\ FirstHit(b, n, k, h) => FirstHit(b, n + 1, k, h + 1)'
                                          /\ chain'[b][h + 1] = chain[b][h]
  <1>1. Len(chain[b]) \in Nat /\ Len(chain'[b]) = Len(chain[b]) + 1
    BY RecordTypes, NewChain DEF IInv
  <1>2. \A m \in 1 .. Len(chain[b]) : chain'[b][m + 1] = chain[b][m]
    BY NewChain
  <1>3. \A m \in n + 1 .. Len(chain'[b]) :
          m - 1 \in n .. Len(chain[b]) /\ chain'[b][m] = chain[b][m - 1]
    BY <1>1, NewChain
  <1>4. NoHit(b, n, k) => NoHit(b, n + 1, k)'
    BY <1>3 DEF NoHit
  <1>5. ASSUME NEW h \in n .. Len(chain[b])
        PROVE  /\ h + 1 \in n + 1 .. Len(chain'[b])
               /\ FirstHit(b, n, k, h) => FirstHit(b, n + 1, k, h + 1)'
               /\ chain'[b][h + 1] = chain[b][h]
    <2>1. h \in 1 .. Len(chain[b]) /\ h + 1 \in n + 1 .. Len(chain'[b])
      BY <1>1
    <2>2. ASSUME NEW m \in n + 1 .. h PROVE m - 1 \in n .. h - 1 /\ chain'[b][m] = chain[b][m - 1]
      <3>1. m \in n + 1 .. Len(chain'[b]) /\ m - 1 \in n .. h - 1
        BY <1>1, <2>1
      <3> QED BY <1>3, <3>1
    <2>3. (h + 1) - 1 = h
      BY <2>1
    <2> QED BY <1>2, <2>1, <2>2, <2>3 DEF FirstHit
  <1> QED BY <1>4, <1>5

(* What is known of a search stays true while others go on.                    *)
LEMMA AnswersMove ==
  ASSUME IInv, NEW c \in Client, pc[c] \in PutLabels, NEW b \in Bins, Publishes(c, b),
         NEW d \in Client, NEW n \in 1 .. Len(chain[b]) + 1, Answers(d, b, n),
         job'[d] = job[d], seen'[d] = seen[d]
  PROVE  Answers(d, b, n + 1)'
  <1>1. PICK k : k = job[d].key
    OBVIOUS
  <1>2. CASE seen[d] = 0 /\ NoHit(b, n, k)
    <2>1. NoHit(b, n + 1, k)'
      BY <1>2, HitsMove
    <2> QED BY <1>1, <1>2, <2>1 DEF Answers
  <1>3. ASSUME NEW h \in n .. Len(chain[b]), FirstHit(b, n, k, h),
               seen[d] = IF job[d].kind = "get" THEN chain[b][h].val ELSE 1
        PROVE  Answers(d, b, n + 1)'
    <2>1. /\ h + 1 \in n + 1 .. Len(chain'[b]) /\ FirstHit(b, n + 1, k, h + 1)'
          /\ chain'[b][h + 1] = chain[b][h]
      BY <1>3, HitsMove
    <2>2. PICK g \in n + 1 .. Len(chain'[b]) : g = h + 1
      BY <2>1
    <2>3. FirstHit(b, n + 1, k, g)'
      BY <2>1, <2>2 DEF FirstHit
    <2> QED BY <1>1, <1>3, <2>1, <2>2, <2>3 DEF Answers
  <1> QED BY <1>1, <1>2, <1>3 DEF Answers

(* A search stays true while others put: chains grow in front of it only.      *)
LEMMA WalkKept ==
  ASSUME IInv, NEW d \in Client, WalkAt(d),
         pc'[d] = pc[d], job'[d] = job[d], ptr'[d] = ptr[d], seen'[d] = seen[d],
         \/ chain' = chain
         \/ \E c \in Client : pc[c] \in PutLabels /\ Publishes(c, hashPtr(job[c].key))
  PROVE  WalkAt(d)'
  <1> SUFFICES ASSUME pc[d] \in WalkLabels PROVE WalkAt(d)'
    BY DEF WalkAt
  <1>1. Types /\ pc[d] \in FindLabels
    BY DEF IInv, WalkLabels, FindLabels
  <1>2. PICK b \in Bins : b = hashPtr(job[d].key)
    BY <1>1, FindTypes
  <1>3. PICK n \in 1 .. Len(chain[b]) : AtRecord(d, b, n)
    BY <1>2 DEF WalkAt
  <1>4. Len(chain[b]) \in Nat
    BY <1>1, RecordTypes
  <1>5. CASE chain'[b] = chain[b]
    <2>1. AtRecord(d, b, n)'
      <3>1. /\ Answers(d, b, n) => Answers(d, b, n)'
            /\ Answers(d, b, n + 1) => Answers(d, b, n + 1)'
        BY <1>4, <1>5, AnswersSame
      <3> QED BY <1>3, <1>5, <3>1 DEF AtRecord
    <2> QED BY <1>2, <1>5, <2>1 DEF WalkAt
  <1>6. ASSUME NEW c \in Client, pc[c] \in PutLabels, Publishes(c, b) PROVE WalkAt(d)'
    <2>1. Len(chain'[b]) = Len(chain[b]) + 1
      BY <1>6, NewChain
    <2>2. PICK m \in 1 .. Len(chain'[b]) : m = n + 1
      BY <1>4, <2>1
    <2>3. chain'[b][m] = chain[b][n]
      BY <1>6, <2>2, NewChain
    <2>4. Answers(d, b, n) => Answers(d, b, m)'
      <3>1. n \in 1 .. Len(chain[b]) + 1
        BY <1>4
      <3>2. Answers(d, b, n) => Answers(d, b, n + 1)'
        BY <1>6, <3>1, AnswersMove
      <3> QED BY <2>2, <3>2 DEF Answers, FirstHit, NoHit
    <2>5. Answers(d, b, n + 1) => Answers(d, b, m + 1)'
      <3>1. m \in 1 .. Len(chain[b]) + 1
        BY <1>4, <2>1
      <3>2. Answers(d, b, m) => Answers(d, b, m + 1)'
        BY <1>6, <3>1, AnswersMove
      <3> QED BY <2>2, <3>2
    <2>6. AtRecord(d, b, m)'
      BY <1>3, <2>3, <2>4, <2>5 DEF AtRecord
    <2> QED BY <1>2, <2>6 DEF WalkAt
  <1>7. ASSUME NEW c \in Client, pc[c] \in PutLabels, Publishes(c, hashPtr(job[c].key)),
               hashPtr(job[c].key) # b
        PROVE  chain'[b] = chain[b]
    BY <1>7, NewChain, PutTypes
  <1> QED BY <1>5, <1>6, <1>7

(* A search reads its bin's head.                                              *)
LEMMA HeadStep ==
  ASSUME IInv, seen \in [Client -> Nat], NEW c \in Client, Operate(c), pc[c] = "findHead"
  PROVE  /\ chain' = chain /\ job' = job /\ seen' = [seen EXCEPT ![c] = Expected(job[c])]
         /\ \/ pc'[c] = "return" /\ result'[c] = 0 /\ Expected(job[c]) = 0
            \/ pc'[c] = "cmpLen" /\ WalkAt(c)'
  <1>1. Types /\ pc[c] \in FindLabels
    BY DEF IInv, FindLabels
  <1>2. PICK b \in Bins, k \in Key : k = job[c].key /\ b = hashPtr(k)
    BY <1>1, FindTypes
  <1>3. b \in Cells /\ b \in Nat /\ b < MemSize /\ Len(chain[b]) \in Nat
    BY <1>1, Layout, RecordTypes, MemSizeAssumption DEF Cells
  <1>4. OpOf(c) = Read(b, 1)
    BY <1>2 DEF OpOf
  <1>5. /\ mem' = mem /\ chain' = chain
        /\ Outcome(OpOf(c), mem).error = "OK" /\ Outcome(OpOf(c), mem).result[1] = mem[b]
    BY <1>3, <1>4, ReadOne, ReadCareful DEF Read
  <1>6. job' = job /\ seen' = [seen EXCEPT ![c] = Expected(job[c])]
    BY <1>1, OperateFrame DEF Record
  <1>7. mem[b] = From(b, 1)
    BY DEF IInv, Linked
  <1>8. CASE Len(chain[b]) = 0
    <2>1. mem[b] = 0
      BY <1>7, <1>8 DEF From
    <2>2. pc'[c] = "return" /\ result'[c] = 0
      BY <1>1, <1>5, <2>1, FindStep
    <2>3. Expected(job[c]) = 0
      <3>1. ~\E h \in 1 .. Len(chain[b]) : FirstHit(b, 1, k, h)
        BY <1>8
      <3> QED BY <1>2, <3>1, ExpectedFirst
    <2> QED BY <1>5, <1>6, <2>2, <2>3
  <1>9. CASE Len(chain[b]) # 0
    <2>1. 1 \in 1 .. Len(chain[b]) /\ mem[b] = chain[b][1].ptr /\ mem[b] # 0
      <3>1. 1 \in 1 .. Len(chain[b])
        BY <1>3, <1>9
      <3>2. Block(chain[b][1].ptr, chain[b][1].key) /\ chain[b][1].ptr \in Nat
        BY <1>1, <3>1, RecordTypes DEF IInv, Published
      <3> QED BY <1>3, <1>7, <3>1, <3>2, Layout DEF From, Block
    <2>2. pc'[c] = "cmpLen" /\ ptr'[c] = mem[b]
      BY <1>1, <1>5, <2>1, FindStep
    <2>3. seen'[c] = Expected(job[c])
      BY <1>6
    <2>4. Answers(c, b, 1)'
      <3>1. CASE NoHit(b, 1, k) /\ Expected(job[c]) = 0
        BY <1>2, <1>5, <1>6, <2>3, <3>1 DEF Answers, NoHit
      <3>2. ASSUME NEW h \in 1 .. Len(chain[b]), FirstHit(b, 1, k, h),
                   Expected(job[c]) = IF job[c].kind = "get" THEN chain[b][h].val ELSE 1
            PROVE  Answers(c, b, 1)'
        BY <1>2, <1>5, <1>6, <2>3, <3>2 DEF Answers, FirstHit
      <3> QED BY <1>2, <3>1, <3>2, ExpectedFirst
    <2>5. AtRecord(c, b, 1)'
      BY <1>5, <2>1, <2>2, <2>4 DEF AtRecord
    <2>6. WalkAt(c)'
      BY <1>2, <1>5, <1>6, <2>1, <2>5 DEF WalkAt
    <2> QED BY <1>5, <1>6, <2>2, <2>6
  <1> QED BY <1>8, <1>9

(* A search reads a record, or the link to the next.                           *)
LEMMA SearchStep ==
  ASSUME IInv, Walks, NEW c \in Client, Operate(c), pc[c] \in WalkLabels
  PROVE  /\ chain' = chain /\ job' = job /\ seen' = seen
         /\ \/ pc'[c] = "return" /\ result'[c] = seen[c]
            \/ pc'[c] \in WalkLabels /\ WalkAt(c)'
  <1>1. Types /\ pc[c] \in FindLabels /\ WalkAt(c)
    BY DEF IInv, FindLabels, WalkLabels, Walks
  <1>2. PICK b \in Bins, k \in Key : /\ k = job[c].key /\ b = hashPtr(k)
                                     /\ job[c].kind \in {"get", "has"}
    BY <1>1, FindTypes
  <1>3. PICK n \in 1 .. Len(chain[b]) : AtRecord(c, b, n)
    BY <1>1, <1>2 DEF WalkAt
  <1>4. PICK p \in Nat, l \in Key, v \in Nat :
          p = chain[b][n].ptr /\ l = chain[b][n].key /\ v = chain[b][n].val
    BY <1>1, RecordTypes
  <1>5. /\ Complete(p, l, v) /\ mem[p] = From(b, n + 1) /\ Block(p, l)
        /\ ptr[c] = p
    BY <1>3, <1>4 DEF IInv, Linked, Published, AtRecord
  <1>6. OpOf(c).kind = "READ"
    BY DEF OpOf, Read, WalkLabels
  <1>7. mem' = mem /\ chain' = chain
    BY <1>6, ReadCareful
  <1>8. job' = job /\ seen' = seen
    BY <1>1, OperateFrame DEF Record, WalkLabels
  <1>9. Len(chain[b]) \in Nat
    BY <1>1, RecordTypes
  <1>10. ASSUME NEW m \in 1 .. Len(chain[b]), AtRecord(c, b, m)' PROVE WalkAt(c)'
    BY <1>2, <1>7, <1>8, <1>10 DEF WalkAt
  <1>11. /\ Answers(c, b, n) => Answers(c, b, n)'
         /\ Answers(c, b, n + 1) => Answers(c, b, n + 1)'
    BY <1>7, <1>8, <1>9, AnswersSame
  <1>12. CASE pc[c] = "cmpLen"
    <2>1. OpOf(c) = Read(p + 2, 1)
      BY <1>5, <1>12 DEF OpOf
    <2>2. p + 2 < MemSize /\ mem[p + 2] = KeyLen[l] /\ p + 2 \in Nat
      BY <1>4, <1>5 DEF Complete, HasLen
    <2>3. Outcome(OpOf(c), mem).error = "OK" /\ Outcome(OpOf(c), mem).result[1] = KeyLen[l]
      BY <2>1, <2>2, ReadOne
    <2>4. ptr' = ptr /\ pc'[c] = IF KeyLen[l] = KeyLen[k] THEN "cmpKey" ELSE "findNext"
      BY <1>1, <1>2, <1>12, <2>3, FindStep
    <2>5. Answers(c, b, n)
      BY <1>3, <1>12 DEF AtRecord
    <2>6. KeyLen[l] # KeyLen[k] => Answers(c, b, n + 1)
      BY <1>1, <1>2, <1>4, <2>5, AnswersOn
    <2>7. AtRecord(c, b, n)'
      BY <1>2, <1>4, <1>5, <1>7, <1>8, <1>11, <2>4, <2>5, <2>6 DEF AtRecord
    <2> QED BY <1>7, <1>8, <1>10, <2>4, <2>7 DEF WalkLabels
  <1>13. CASE pc[c] = "cmpKey"
    <2>1. Answers(c, b, n) /\ KeyLen[l] = KeyLen[k]
      BY <1>2, <1>3, <1>4, <1>13 DEF AtRecord
    <2>2. /\ Len(KeyWords[l]) = Len(KeyWords[k])
          /\ l # k => KeyWords[l] # KeyWords[k]
      BY <2>1, DHTAssumption
    <2>3. OpOf(c) = Read(p + 3, Len(KeyWords[l]))
      BY <1>2, <1>5, <1>13, <2>2 DEF OpOf
    <2>4. Outcome(OpOf(c), mem).error = "OK" /\ Outcome(OpOf(c), mem).result = KeyWords[l]
      <3>1. KeyWords[l] \in Seq(Nat) /\ recLen(l) = 3 + Len(KeyWords[l]) /\ Len(KeyWords[l]) \in Nat
            /\ DOMAIN KeyWords[l] = 1 .. Len(KeyWords[l])
        BY Layout
      <3>2. /\ p + (3 + Len(KeyWords[l])) <= MemSize
            /\ \A w \in 1 .. Len(KeyWords[l]) : mem[p + 2 + w] = KeyWords[l][w]
        BY <1>5, <3>1 DEF Complete, HasWords
      <3>3. PICK s \in Seq(Nat) : s = KeyWords[l]
        BY <3>1
      <3>4. /\ Len(s) \in Nat
            /\ p + (3 + Len(s)) <= MemSize
            /\ \A w \in 1 .. Len(s) : mem[p + 2 + w] = s[w]
        BY <3>1, <3>2, <3>3
      <3>5. PICK a \in Nat : a = p + 3
        OBVIOUS
      <3>6. a + Len(s) <= MemSize
        BY <3>4, <3>5, MemSizeAssumption
      <3>7. \A w \in 1 .. Len(s) : mem[a + w - 1] = s[w]
        <4> TAKE w \in 1 .. Len(s)
        <4>1. a + w - 1 = p + 2 + w
          BY <3>5
        <4> QED BY <3>4, <4>1
      <3>8. /\ Outcome(Read(a, Len(s)), mem).error = "OK"
            /\ Outcome(Read(a, Len(s)), mem).result = s
        BY SMTT(30), <3>6, <3>7, ReadMany
      <3> QED BY <2>3, <3>3, <3>5, <3>8
    <2>5. /\ ptr' = ptr
          /\ IF l # k THEN pc'[c] = "findNext"
             ELSE IF job[c].kind = "get" THEN pc'[c] = "readVal"
             ELSE pc'[c] = "return" /\ result'[c] = 1
      BY <1>1, <1>2, <1>13, <2>2, <2>4, FindStep
    <2>6. /\ l # k => Answers(c, b, n + 1)
          /\ l = k => seen[c] = IF job[c].kind = "get" THEN v ELSE 1
      BY <1>1, <1>2, <1>4, <2>1, AnswersOn
    <2>7. CASE l = k /\ job[c].kind # "get"
      BY <1>7, <1>8, <2>5, <2>6, <2>7
    <2>8. CASE ~(l = k /\ job[c].kind # "get")
      <3>1. AtRecord(c, b, n)'
        BY <1>2, <1>4, <1>5, <1>7, <1>8, <1>11, <2>5, <2>6, <2>8 DEF AtRecord
      <3> QED BY <1>7, <1>8, <1>10, <2>5, <2>8, <3>1 DEF WalkLabels
    <2> QED BY <2>7, <2>8
  <1>14. CASE pc[c] = "findNext"
    <2>1. OpOf(c) = Read(p, 1) /\ p < MemSize
      BY <1>4, <1>5, <1>14, MemSizeAssumption DEF OpOf, Complete, HasVal
    <2>2. Outcome(OpOf(c), mem).error = "OK" /\ Outcome(OpOf(c), mem).result[1] = mem[p]
      BY <1>4, <2>1, ReadOne
    <2>3. /\ ptr'[c] = mem[p]
          /\ IF mem[p] = 0 THEN pc'[c] = "return" /\ result'[c] = 0 ELSE pc'[c] = "cmpLen"
      BY <1>1, <1>14, <2>2, FindStep
    <2>4. Answers(c, b, n + 1)
      BY <1>3, <1>14 DEF AtRecord
    <2>5. CASE n + 1 > Len(chain[b])
      <3>1. mem[p] = 0
        BY <1>5, <2>5 DEF From
      <3>2. seen[c] = 0
        BY <1>9, <2>4, <2>5 DEF Answers
      <3> QED BY <1>7, <1>8, <2>3, <3>1, <3>2
    <2>6. CASE ~(n + 1 > Len(chain[b]))
      <3>1. PICK m \in 1 .. Len(chain[b]) : m = n + 1
        BY <1>9, <2>6
      <3>2. mem[p] = chain[b][m].ptr /\ mem[p] # 0
        <4>1. mem[p] = chain[b][m].ptr
          BY <1>5, <2>6, <3>1 DEF From
        <4>2. Block(chain[b][m].ptr, chain[b][m].key) /\ chain[b][m].ptr \in Nat
          BY <1>1, RecordTypes DEF IInv, Published
        <4> QED BY <4>1, <4>2, Layout DEF Block
      <3>3. Answers(c, b, m)'
        BY <1>11, <2>4, <3>1
      <3>4. AtRecord(c, b, m)'
        BY <1>7, <2>3, <3>2, <3>3 DEF AtRecord
      <3> QED BY <1>7, <1>8, <1>10, <2>3, <3>2, <3>4 DEF WalkLabels
    <2> QED BY <2>5, <2>6
  <1>15. CASE pc[c] = "readVal"
    <2>1. OpOf(c) = Read(p + 1, 1) /\ p + 1 \in Nat /\ p + 1 < MemSize /\ mem[p + 1] = v
      BY <1>4, <1>5, <1>15 DEF OpOf, Complete, HasVal
    <2>2. Outcome(OpOf(c), mem).error = "OK" /\ Outcome(OpOf(c), mem).result[1] = v
      BY <2>1, ReadOne
    <2>3. pc'[c] = "return" /\ result'[c] = v
      BY <1>1, <1>15, <2>2, FindStep
    <2>4. seen[c] = v
      BY <1>3, <1>4, <1>15 DEF AtRecord
    <2> QED BY <1>7, <1>8, <2>3, <2>4
  <1> QED BY <1>12, <1>13, <1>14, <1>15 DEF WalkLabels

(* The other operations: those of a put before it publishes, and those of a    *)
(* constructor that finds no table.                                            *)
LEMMA PutStep ==
  ASSUME IInv, NEW c \in Client, Operate(c), pc[c] \in PutLabels, pc[c] # "publish"
  PROVE  /\ chain' = chain /\ job' = job /\ job[c] \in Jobs /\ job[c].kind = "put"
         /\ \/ pc'[c] \in PutLabels
            \/ pc'[c] = "return" /\ result'[c] = Exception
  <1>1. Types /\ job[c] \in Jobs /\ job[c].kind = "put" /\ job[c] # NoJob
    BY JobTypes DEF IInv, LabelAt
  <1>2. chain' = chain /\ job' = job
    BY <1>1, ChainStays, OperateFrame
  <1>3. PICK res : res = Outcome(OpOf(c), mem)
    OBVIOUS
  <1>4. CASE res.error # "OK"
    BY <1>1, <1>2, <1>3, <1>4, OperateFrame, VarTypes DEF Continue, Returns, Goto
  <1>5. CASE res.error = "OK"
    <2>1. AfterAlloc(c, res) \/ AfterFill(c) \/ AfterLink(c, res)
      BY <1>1, <1>3, <1>5, OperateFrame
      DEF Continue, AfterCheck, AfterInit, AfterFind, PutLabels, FillLabels
    <2>2. pc'[c] \in {"allocRead", "allocCas", "writeNext", "writeVal", "writeLen", "writeKey",
                      "readHead", "link", "publish"}
      BY <1>1, <2>1, VarTypes DEF AfterAlloc, AfterFill, AfterLink, Goto
    <2> QED BY <1>1, <1>2, <2>2 DEF PutLabels, FillLabels
  <1> QED BY <1>1, <1>2, <1>4, <1>5

(* Clearing the table moves no chain and answers nobody.                       *)
LEMMA InitStep ==
  ASSUME IInv, NEW c \in Client, Operate(c), pc[c] \in {"initCounter", "initBin"}
  PROVE  /\ chain' = chain /\ job' = job /\ job[c] = NoJob
         /\ pc'[c] \in {"initBin", "ready", "out"}
  <1>1. Types /\ job[c] = NoJob
    BY DEF IInv, LabelAt
  <1>2. chain' = chain /\ job' = job
    BY <1>1, ChainStays, OperateFrame
  <1>3. PICK res : res = Outcome(OpOf(c), mem)
    OBVIOUS
  <1>4. CASE res.error # "OK"
    BY <1>1, <1>2, <1>3, <1>4, OperateFrame, VarTypes DEF Continue, Goto
  <1>5. CASE res.error = "OK"
    <2>1. AfterInit(c)
      BY <1>1, <1>3, <1>5, OperateFrame
      DEF Continue, AfterCheck, AfterAlloc, AfterFill, AfterLink, AfterFind
    <2> QED BY <1>1, <1>2, <2>1, VarTypes DEF AfterInit, Constructed, Goto
  <1> QED BY <1>1, <1>2, <1>4, <1>5

(* What any step leaves alone.                                                 *)
LEMMA StepFrame ==
  ASSUME IInv, Walks, NEW c \in Client, Step(c)
  PROVE  /\ Frame(c) /\ \A d \in Client \ {c} : seen'[d] = seen[d]
         /\ \/ chain' = chain
            \/ pc[c] \in PutLabels /\ Publishes(c, hashPtr(job[c].key))
         /\ ~Operate(c) => chain' = chain /\ seen' = seen
  <1>1. Types /\ seen \in [Client -> Nat]
    BY DEF IInv, Walks
  <1>2. CASE Enter(c)
    BY <1>1, <1>2, VarTypes DEF Enter, Attach, Goto, Frame, Others
  <1>3. CASE Invoke(c)
    BY <1>1, <1>3, VarTypes DEF Invoke, Call, Goto, Frame, Others
  <1>4. CASE Run(c)
    BY <1>1, <1>4, VarTypes DEF Run, Dispatch, Goto, Frame, Others
  <1>5. CASE Leave(c)
    BY <1>1, <1>5, VarTypes DEF Leave, Return, Goto, Frame, Others
  <1>6. CASE Operate(c)
    <2>1. Frame(c) /\ \A d \in Client \ {c} : seen'[d] = seen[d]
      BY <1>1, <1>6, OperateFrame DEF Record
    <2>2. \/ chain' = chain
          \/ pc[c] \in PutLabels /\ Publishes(c, hashPtr(job[c].key))
      BY <1>6, ChainStays, PublishStep DEF PutLabels, FillLabels
    <2> QED BY <1>6, <2>1, <2>2
  <1> QED BY <1>2, <1>3, <1>4, <1>5, <1>6 DEF Step

(* No step of a client spoils a search, its own or another's.                  *)
LEMMA WalksStep ==
  ASSUME IInv, Walks, NEW c \in Client, Step(c) PROVE Walks'
  <1>1. Types /\ seen \in [Client -> Nat] /\ pc \in [Client -> Label]
        /\ job[c] \in Jobs \cup {NoJob}
    BY VarTypes DEF IInv, Walks
  <1>2. ASSUME NEW d \in Client \ {c} PROVE WalkAt(d)'
    <2>1. pc'[d] = pc[d] /\ job'[d] = job[d] /\ ptr'[d] = ptr[d] /\ seen'[d] = seen[d]
      BY StepFrame DEF Frame, Others
    <2>2. WalkAt(d)
      BY DEF Walks
    <2> QED BY <2>1, <2>2, StepFrame, WalkKept
  <1>3. ASSUME ~Operate(c) PROVE WalkAt(c)'
    <2>1. pc'[c] \in {"initCounter", "check", "queued", "allocRead", "findHead", "ready"}
      <3>1. \A j \in Jobs : FirstLabel(j) \in {"allocRead", "findHead"}
        BY DEF FirstLabel
      <3> QED BY <1>1, <1>3, <3>1
              DEF Step, Enter, Attach, Invoke, Call, Run, Dispatch, Leave, Return, Goto
    <2> QED BY <2>1 DEF WalkAt, WalkLabels
  <1>4. ASSUME Operate(c) PROVE WalkAt(c)' /\ seen' \in [Client -> Nat]
    <2>1. pc[c] \in Label \ {"out", "ready", "queued", "return"}
      BY <1>1, <1>4, OperateFrame
    <2>2. pc[c] # "findHead" => seen' = seen
      BY <1>1, <1>4, OperateFrame DEF Record
    <2>3. CASE pc[c] = "check"
      <3>1. pc'[c] \in {"initCounter", "ready", "allocRead", "findHead"}
        BY <1>1, <1>4, <2>3, CheckStep, FirstLabels
      <3> QED BY <1>1, <2>2, <2>3, <3>1 DEF WalkAt, WalkLabels
    <2>4. CASE pc[c] \in {"initCounter", "initBin"}
      BY <1>1, <1>4, <2>2, <2>4, InitStep DEF WalkAt, WalkLabels
    <2>5. CASE pc[c] \in PutLabels
      <3>1. pc'[c] \in PutLabels \cup {"return"}
        BY <1>4, <2>5, PutStep, PublishStep DEF PutLabels, FillLabels
      <3> QED BY <1>1, <2>2, <2>5, <3>1 DEF WalkAt, WalkLabels, PutLabels, FillLabels
    <2>6. CASE pc[c] = "findHead"
      <3>1. Expected(job[c]) \in Nat
        BY <2>6, ExpectedFirst
      <3>2. seen' \in [Client -> Nat]
        BY <1>1, <1>4, <2>6, <3>1, HeadStep
      <3> QED BY <1>1, <1>4, <2>6, <3>2, HeadStep DEF WalkAt, WalkLabels
    <2>7. CASE pc[c] \in WalkLabels
      <3>1. WalkAt(c)'
        BY <1>4, <2>7, SearchStep DEF WalkAt, WalkLabels
      <3> QED BY <1>1, <2>2, <2>7, <3>1 DEF WalkLabels
    <2> QED BY <2>1, <2>3, <2>4, <2>5, <2>6, <2>7
            DEF Label, PutLabels, FillLabels, WalkLabels
  <1>5. seen' \in [Client -> Nat]
    BY <1>1, <1>4, StepFrame
  <1> QED BY <1>2, <1>3, <1>4, <1>5 DEF Walks

-------------------------------------------------------------------------------
(* What DHTMap sees, by its own names.                                         *)
MapOf == [k \in Key |-> Lookup(k)]
Phase == [c \in Client |-> IF job[c] = NoJob THEN "idle"
                           ELSE IF pc[c] = "return" \/ Searching(c) THEN "done"
                           ELSE "called"]
Reply == [c \in Client |-> IF job[c] = NoJob THEN 0
                           ELSE IF pc[c] = "return" THEN result[c]
                           ELSE IF Searching(c) THEN seen[c] ELSE 0]

Phases ==
  \A c \in Client :
    /\ job[c] = NoJob => Phase[c] = "idle" /\ Reply[c] = 0
    /\ pc[c] = "return" => Phase[c] = "done" /\ Reply[c] = result[c]
    /\ pc[c] \in WalkLabels => Phase[c] = "done" /\ Reply[c] = seen[c]
    /\ job[c] # NoJob /\ pc[c] \notin {"return"} \cup WalkLabels =>
         Phase[c] = "called" /\ Reply[c] = 0

(* The phase of a call is read off its label.                                  *)
LEMMA PhaseAt == IInv => Phases
  <1> SUFFICES ASSUME IInv PROVE Phases
    OBVIOUS
  <1>1. \A c \in Client : LabelAt(c)
    BY DEF IInv
  <1>2. \A c \in Client : pc[c] = "return" => job[c] # NoJob
    BY <1>1, JobTypes DEF LabelAt
  <1>3. \A c \in Client : pc[c] \in WalkLabels => job[c] # NoJob /\ Searching(c)
    BY <1>1, JobTypes DEF LabelAt, WalkLabels, FindLabels, Searching
  <1>4. \A c \in Client : pc[c] \notin WalkLabels => ~Searching(c)
    BY DEF Searching, WalkLabels
  <1>5. "return" \notin WalkLabels
    BY DEF WalkLabels
  <1> QED BY <1>2, <1>3, <1>4, <1>5 DEF Phases, Phase, Reply

(* The same after a step.                                                      *)
LEMMA PhaseNext == IInv' => Phases'
  BY PhaseAt, PTL

(* A step of c is seen at c only.                                              *)
LEMMA SeenAtC ==
  ASSUME IInv, Walks, NEW c \in Client, Step(c), NEW p, NEW r,
         Phase'[c] = p, Reply'[c] = r
  PROVE  Phase' = [Phase EXCEPT ![c] = p] /\ Reply' = [Reply EXCEPT ![c] = r]
  <1>1. ASSUME NEW d \in Client, d # c PROVE Phase'[d] = Phase[d] /\ Reply'[d] = Reply[d]
    <2>1. pc'[d] = pc[d] /\ job'[d] = job[d] /\ result'[d] = result[d] /\ seen'[d] = seen[d]
      BY <1>1, StepFrame DEF Frame, Others
    <2> QED BY <2>1 DEF Phase, Reply, Searching
  <1>2. /\ Phase = [d \in Client |-> Phase[d]] /\ Phase' = [d \in Client |-> Phase'[d]]
        /\ Reply = [d \in Client |-> Reply[d]] /\ Reply' = [d \in Client |-> Reply'[d]]
    BY DEF Phase, Reply
  <1> QED BY <1>1, <1>2

(* The map changes with the chains only.                                       *)
LEMMA MapSame == chain' = chain => MapOf' = MapOf
  BY DEF MapOf, Lookup

(* Steps that DHTMap does not see.                                             *)
LEMMA Unseen ==
  ASSUME IInv, Walks, NEW c \in Client, Step(c), chain' = chain, job' = job,
         Phase'[c] = Phase[c], Reply'[c] = Reply[c]
  PROVE  UNCHANGED <<MapOf, Phase, job, Reply>>
  <1>1. PICK p, r : p = Phase[c] /\ r = Reply[c]
    OBVIOUS
  <1>2. Phase' = [Phase EXCEPT ![c] = p] /\ Reply' = [Reply EXCEPT ![c] = r]
    BY <1>1, SeenAtC
  <1>3. Phase' = Phase /\ Reply' = Reply
    <2>1. Phase = [d \in Client |-> Phase[d]] /\ Reply = [d \in Client |-> Reply[d]]
      BY DEF Phase, Reply
    <2> QED BY <1>1, <1>2, <2>1
  <1> QED BY <1>3, MapSame

(* A put that ends with an exception before it published is a failed put.      *)
LEMMA FailIsFail ==
  ASSUME IInv, Walks, NEW c \in Client, Step(c), chain' = chain, job' = job,
         job[c].kind = "put", Phase[c] = "called", Phase'[c] = "done", Reply'[c] = Exception
  PROVE  Map!Fail(c)
  <1>1. PICK r : r = Exception /\ Map!Exception = r
    BY DEF Map!Exception, Exception
  <1>2. Phase' = [Phase EXCEPT ![c] = "done"] /\ Reply' = [Reply EXCEPT ![c] = r]
    BY <1>1, SeenAtC
  <1> QED BY <1>1, <1>2, MapSame DEF Map!Fail, Map!Answered, MapOf, Phase, Reply

(* A search takes effect when it reads its bin's head.                         *)
LEMMA HeadIsFind ==
  ASSUME IInv, Walks, IInv', NEW c \in Client, Operate(c), pc[c] = "findHead"
  PROVE  Map!Get(c) \/ Map!Has(c)
  <1>1. Types /\ job[c] \in Jobs /\ job[c] # NoJob /\ Step(c)
        /\ pc[c] \notin {"return"} \cup WalkLabels
    BY FindTypes, JobTypes DEF IInv, FindLabels, WalkLabels, Step
  <1>2. PICK k \in Key, e \in {Expected(job[c])} : k = job[c].key /\ e = Expected(job[c])
    BY FindTypes DEF FindLabels
  <1>3. /\ chain' = chain /\ job' = job /\ seen'[c] = e
        /\ \/ pc'[c] = "return" /\ result'[c] = e
           \/ pc'[c] = "cmpLen"
    BY <1>2, HeadStep DEF Walks
  <1>4. Phase[c] = "called" /\ Phase'[c] = "done" /\ Reply'[c] = e
    BY <1>1, <1>3, PhaseAt, PhaseNext DEF Phases, WalkLabels
  <1>5. Phase' = [Phase EXCEPT ![c] = "done"] /\ Reply' = [Reply EXCEPT ![c] = e]
    BY <1>1, <1>4, SeenAtC
  <1>6. /\ MapOf[k] = Lookup(k) /\ Map!Absent = Absent
        /\ e = IF Lookup(k) = Absent THEN 0
               ELSE IF job[c].kind = "get" THEN Lookup(k) ELSE 1
    BY <1>2, ExpectedFirst DEF MapOf, Map!Absent, Absent
  <1>7. MapOf' = MapOf
    BY <1>3, MapSame
  <1>8. CASE job[c].kind = "get"
    <2>1. e = IF MapOf[job[c].key] = Map!Absent THEN 0 ELSE MapOf[job[c].key]
      BY <1>2, <1>6, <1>8
    <2>2. Map!Answered(c, IF MapOf[job[c].key] = Map!Absent THEN 0 ELSE MapOf[job[c].key])
      BY <1>3, <1>4, <1>5, <2>1 DEF Map!Answered, Phase, Reply
    <2> QED BY <1>7, <1>8, <2>2 DEF Map!Get, MapOf
  <1>9. CASE job[c].kind = "has"
    <2>1. e = IF MapOf[job[c].key] = Map!Absent THEN 0 ELSE 1
      BY <1>2, <1>6, <1>9
    <2>2. Map!Answered(c, IF MapOf[job[c].key] = Map!Absent THEN 0 ELSE 1)
      BY <1>3, <1>4, <1>5, <2>1 DEF Map!Answered, Phase, Reply
    <2> QED BY <1>7, <1>9, <2>2 DEF Map!Has, MapOf
  <1> QED BY <1>8, <1>9, FindTypes DEF FindLabels

(* A record takes effect when it is published: its key maps to its value, the  *)
(* other keys of its bin to what they mapped to.                               *)
LEMMA NewLookup ==
  ASSUME IInv, Types', NEW c \in Client, pc[c] \in PutLabels,
         NEW b \in Bins, b = hashPtr(job[c].key), Publishes(c, b)
  PROVE  MapOf' = [MapOf EXCEPT ![job[c].key] = job[c].val]
  <1>1. PICK K \in Key, v \in Nat : K = job[c].key /\ v = job[c].val
    BY PutTypes
  <1>2. Looks /\ Looks'
    BY LookupFirst, LookupNext DEF IInv
  <1>3. Lookup(K)' = v
    <2>1. FirstHit(b, 1, K, 1)' /\ 1 \in 1 .. Len(chain'[b]) /\ chain'[b][1].val = v
      <3>1. /\ Len(chain'[b]) = Len(chain[b]) + 1 /\ Len(chain[b]) \in Nat
            /\ chain'[b][1].key = K /\ chain'[b][1].val = v
        BY <1>1, NewChain, RecordTypes DEF IInv
      <3> QED BY <3>1 DEF FirstHit
    <2> QED BY <1>1, <1>2, <2>1 DEF Looks
  <1>4. ASSUME NEW k \in Key, k # K PROVE Lookup(k)' = Lookup(k)
    <2>1. CASE hashPtr(k) # b
      <3>1. chain'[hashPtr(k)] = chain[hashPtr(k)]
        BY <2>1, NewChain, Layout
      <3> QED BY <3>1 DEF Lookup
    <2>2. CASE hashPtr(k) = b
      <3>1. /\ Len(chain'[b]) = Len(chain[b]) + 1 /\ Len(chain[b]) \in Nat
            /\ chain'[b][1].key = K
        BY <1>1, NewChain, RecordTypes DEF IInv
      <3> PICK w \in 1 .. Len(chain[b]) + 1 : w = 1
        BY <3>1
      <3>2. CASE NoHit(b, 1, k)
        <4>1. NoHit(b, w + 1, k)'
          BY <3>2, HitsMove
        <4>2. NoHit(b, 1, k)'
          BY <1>4, <3>1, <4>1 DEF NoHit
        <4> QED BY <1>2, <2>2, <3>2, <4>2 DEF Looks
      <3>3. ASSUME NEW h \in 1 .. Len(chain[b]), FirstHit(b, 1, k, h)
            PROVE  Lookup(k)' = Lookup(k)
        <4>1. /\ h + 1 \in w + 1 .. Len(chain'[b]) /\ FirstHit(b, w + 1, k, h + 1)'
              /\ chain'[b][h + 1] = chain[b][h]
          BY <3>3, HitsMove
        <4>2. PICK g \in 1 .. Len(chain'[b]) : g = h + 1
          BY <3>1, <4>1
        <4>3. FirstHit(b, 1, k, g)'
          BY <1>4, <3>1, <4>1, <4>2 DEF FirstHit
        <4> QED BY SMTT(30), <1>2, <2>2, <3>3, <4>1, <4>2, <4>3 DEF Looks
      <3> QED BY <1>2, <2>2, <3>2, <3>3 DEF Looks
    <2> QED BY <2>1, <2>2
  <1>5. \A k \in Key : Lookup(k)' = IF k = K THEN v ELSE Lookup(k)
    BY <1>3, <1>4
  <1>6. MapOf' = [MapOf EXCEPT ![K] = v]
    BY <1>5 DEF MapOf
  <1> QED BY <1>1, <1>6

(* The CAS that publishes is the put of the map.                               *)
LEMMA PublishIsPut ==
  ASSUME IInv, Walks, IInv', NEW c \in Client, Operate(c), pc[c] = "publish"
  PROVE  Map!Put(c) \/ UNCHANGED <<MapOf, Phase, job, Reply>>
  <1>1. Step(c) /\ pc[c] \in PutLabels /\ job[c].kind = "put" /\ job[c] # NoJob
        /\ pc[c] \notin {"return"} \cup WalkLabels
    BY JobTypes DEF Step, PutLabels, FillLabels, IInv, LabelAt, WalkLabels
  <1>2. Phase[c] = "called" /\ Reply[c] = 0 /\ job' = job
    BY <1>1, PhaseAt, PublishStep DEF Phases
  <1>3. CASE pc'[c] = "readHead" /\ chain' = chain
    <2>1. Phase'[c] = "called" /\ Reply'[c] = 0
      BY <1>1, <1>2, <1>3, PhaseNext DEF Phases, WalkLabels
    <2> QED BY <1>1, <1>2, <1>3, <2>1, Unseen
  <1>4. CASE pc'[c] = "return" /\ result'[c] = 0 /\ Publishes(c, hashPtr(job[c].key))
    <2>1. Phase'[c] = "done" /\ Reply'[c] = 0
      BY <1>4, PhaseNext DEF Phases
    <2>2. Phase' = [Phase EXCEPT ![c] = "done"] /\ Reply' = [Reply EXCEPT ![c] = 0]
      BY <1>1, <2>1, SeenAtC
    <2>3. MapOf' = [MapOf EXCEPT ![job[c].key] = job[c].val]
      BY <1>1, <1>4, NewLookup, PutTypes DEF IInv
    <2> QED BY <1>1, <1>2, <2>2, <2>3 DEF Map!Put, Map!Answered, MapOf, Phase, Reply
  <1> QED BY <1>3, <1>4, PublishStep

(* A call begins for the map as it begins in the program.                      *)
LEMMA InvokeIsCall ==
  ASSUME IInv, Walks, IInv', NEW c \in Client, Invoke(c) PROVE Map!Call(c)
  <1>1. Step(c) /\ chain' = chain /\ Types
    BY DEF Step, Invoke, IInv
  <1>2. PICK j \in Jobs : job' = [job EXCEPT ![c] = j] /\ pc[c] = "ready"
                          /\ pc'[c] \in {"queued", "allocRead", "findHead"}
    BY <1>1, VarTypes, FirstLabels DEF Invoke, Call, Goto
  <1>3. job[c] = NoJob /\ job'[c] = j /\ j # NoJob
    BY <1>1, <1>2, VarTypes, JobTypes DEF IInv, LabelAt
  <1>4. Phase[c] = "idle" /\ Reply[c] = 0 /\ Phase'[c] = "called" /\ Reply'[c] = 0
    BY <1>2, <1>3, PhaseAt, PhaseNext DEF Phases, WalkLabels
  <1>5. Phase' = [Phase EXCEPT ![c] = "called"] /\ Reply' = [Reply EXCEPT ![c] = 0]
    BY <1>1, <1>4, SeenAtC
  <1>6. Reply' = Reply
    <2>1. Reply = [d \in Client |-> Reply[d]]
      BY DEF Reply
    <2> QED BY <1>4, <1>5, <2>1
  <1> QED BY <1>1, <1>2, <1>4, <1>5, <1>6, MapSame DEF Map!Call, MapOf, Phase, Reply

(* A call returns for the map as it returns in the program.                    *)
LEMMA LeaveIsReturn ==
  ASSUME IInv, Walks, IInv', NEW c \in Client, Leave(c) PROVE Map!Return(c)
  <1>1. Step(c) /\ chain' = chain /\ Types
    BY DEF Step, Leave, IInv
  <1>2. /\ job' = [job EXCEPT ![c] = NoJob] /\ Map!NoJob = NoJob
        /\ pc[c] = "return" /\ job'[c] = NoJob
    BY <1>1, VarTypes DEF Leave, Return, Map!NoJob, NoJob
  <1>3. Phase[c] = "done" /\ Phase'[c] = "idle" /\ Reply'[c] = 0
    BY <1>2, PhaseAt, PhaseNext DEF Phases
  <1>4. Phase' = [Phase EXCEPT ![c] = "idle"] /\ Reply' = [Reply EXCEPT ![c] = 0]
    BY <1>1, <1>3, SeenAtC
  <1> QED BY <1>1, <1>2, <1>3, <1>4, MapSame DEF Map!Return, MapOf, Phase, Reply

(* An empty table is an empty map.                                             *)
LEMMA InitIsInit == Init => Map!Init /\ Walks
  <1> SUFFICES ASSUME Init PROVE Map!Init /\ Walks
    OBVIOUS
  <1>1. /\ job = [c \in Client |-> NoJob] /\ seen = [c \in Client |-> 0]
        /\ pc = [c \in Client |-> IF c \in Attached THEN "ready" ELSE "out"]
        /\ chain = [b \in Bins |-> <<>>]
    BY DEF Init, ProgramInit
  <1>2. Walks
    BY <1>1 DEF Walks, WalkAt, WalkLabels
  <1>3. Phase = [c \in Client |-> "idle"] /\ Reply = [c \in Client |-> 0]
    BY <1>1 DEF Phase, Reply
  <1>4. MapOf = [k \in Key |-> Map!Absent]
    <2>1. ASSUME NEW k \in Key PROVE Lookup(k) = Map!Absent
      <3>1. chain[hashPtr(k)] = <<>>
        BY <1>1, Layout
      <3> QED BY <3>1 DEF Lookup, Absent, Map!Absent
    <2> QED BY <2>1 DEF MapOf
  <1>5. job = [c \in Client |-> Map!NoJob]
    BY <1>1 DEF NoJob, Map!NoJob
  <1> QED BY <1>2, <1>3, <1>4, <1>5 DEF Map!Init, MapOf, Phase, Reply

(* Every step of a client is a step of the map or is not seen by it.           *)
LEMMA StepIsStep ==
  ASSUME IInv, Walks, IInv', NEW c \in Client, Step(c)
  PROVE  Map!Next \/ UNCHANGED <<MapOf, Phase, job, Reply>>
  <1>1. Types
    BY DEF IInv
  <1>2. ASSUME Invoke(c) \/ Leave(c) PROVE Map!Next
    BY <1>2, InvokeIsCall, LeaveIsReturn DEF Map!Next
  <1>3. ASSUME Enter(c) \/ Run(c) PROVE UNCHANGED <<MapOf, Phase, job, Reply>>
    <2>1. job' = job /\ chain' = chain
      BY <1>3 DEF Enter, Attach, Run, Dispatch
    <2>2. /\ pc[c] \in {"out", "queued"}
          /\ pc'[c] \in {"initCounter", "check"}
      BY <1>1, <1>3, VarTypes DEF Enter, Attach, Run, Dispatch, Goto
    <2>3. Phase'[c] = Phase[c] /\ Reply'[c] = Reply[c]
      BY <2>1, <2>2, PhaseAt, PhaseNext DEF Phases, WalkLabels
    <2> QED BY <2>1, <2>3, Unseen
  <1>4. ASSUME Operate(c) PROVE Map!Next \/ UNCHANGED <<MapOf, Phase, job, Reply>>
    <2>1. pc[c] \in Label \ {"out", "ready", "queued", "return"}
      BY <1>1, <1>4, OperateFrame, VarTypes
    <2>2. CASE pc[c] = "check"
      <3>1. job' = job /\ chain' = chain
            /\ pc'[c] \in {"initCounter", "ready", "allocRead", "findHead"}
        BY <1>1, <1>4, <2>2, CheckStep, FirstLabels, VarTypes
      <3>2. Phase'[c] = Phase[c] /\ Reply'[c] = Reply[c]
        BY <2>2, <3>1, PhaseAt, PhaseNext DEF Phases, WalkLabels
      <3> QED BY <3>1, <3>2, Unseen
    <2>3. CASE pc[c] \in {"initCounter", "initBin"}
      <3>1. job' = job /\ chain' = chain /\ job[c] = NoJob
        BY <1>4, <2>3, InitStep
      <3>2. Phase'[c] = Phase[c] /\ Reply'[c] = Reply[c]
        BY <3>1, PhaseAt, PhaseNext DEF Phases
      <3> QED BY <3>1, <3>2, Unseen
    <2>4. CASE pc[c] = "publish"
      BY <1>4, <2>4, PublishIsPut DEF Map!Next
    <2>5. CASE pc[c] \in PutLabels /\ pc[c] # "publish"
      <3>1. /\ job' = job /\ chain' = chain /\ job[c] # NoJob /\ job[c].kind = "put"
            /\ \/ pc'[c] \in PutLabels
               \/ pc'[c] = "return" /\ result'[c] = Exception
        BY <1>4, <2>5, PutStep, JobTypes
      <3>2. \A l \in PutLabels : l \notin {"return"} \cup WalkLabels
        BY DEF PutLabels, FillLabels, WalkLabels
      <3>3. Phase[c] = "called" /\ Reply[c] = 0
        BY <2>5, <3>1, <3>2, PhaseAt DEF Phases
      <3>4. CASE pc'[c] \in PutLabels
        <4>1. Phase'[c] = "called" /\ Reply'[c] = 0
          BY <3>1, <3>2, <3>4, PhaseNext DEF Phases
        <4> QED BY <3>1, <3>3, <4>1, Unseen
      <3>5. CASE pc'[c] = "return" /\ result'[c] = Exception
        <4>1. Phase'[c] = "done" /\ Reply'[c] = Exception
          BY <3>5, PhaseNext DEF Phases
        <4> QED BY <3>1, <3>3, <4>1, FailIsFail DEF Map!Next
      <3> QED BY <3>1, <3>4, <3>5
    <2>6. CASE pc[c] = "findHead"
      BY <1>4, <2>6, HeadIsFind DEF Map!Next
    <2>7. CASE pc[c] \in WalkLabels
      <3>1. /\ job' = job /\ chain' = chain /\ seen' = seen
            /\ \/ pc'[c] = "return" /\ result'[c] = seen[c]
               \/ pc'[c] \in WalkLabels
        BY <1>4, <2>7, SearchStep
      <3>2. Phase'[c] = Phase[c] /\ Reply'[c] = Reply[c]
        BY <2>7, <3>1, PhaseAt, PhaseNext DEF Phases
      <3> QED BY <3>1, <3>2, Unseen
    <2> QED BY <2>1, <2>2, <2>3, <2>4, <2>5, <2>6, <2>7
            DEF Label, PutLabels, FillLabels, WalkLabels
  <1> QED BY <1>2, <1>3, <1>4 DEF Step

(* The table implements the map of DHTMap: a put takes effect once, at the CAS *)
(* that publishes its record, or fails; a get or has answers what the map held *)
(* when it read its bin's head (DHT_RDMA.java), however the calls interleave.  *)
THEOREM TableIsMap == ASSUME AttachAlone PROVE Spec => IsMap
  <1>1. IInv /\ Walks /\ [Next]_vars => Walks'
    <2> SUFFICES ASSUME IInv, Walks, [Next]_vars PROVE Walks'
      OBVIOUS
    <2>1. CASE UNCHANGED vars
      BY <2>1, WalkKept DEF Walks, vars
    <2> QED BY <2>1, WalksStep DEF Next, Finished
  <1>2. IInv /\ Walks /\ IInv' /\ [Next]_vars => [Map!Next]_<<MapOf, Phase, job, Reply>>
    <2> SUFFICES ASSUME IInv, Walks, IInv', [Next]_vars
                 PROVE  Map!Next \/ UNCHANGED <<MapOf, Phase, job, Reply>>
      OBVIOUS
    <2>1. CASE UNCHANGED vars
      BY <2>1 DEF vars, MapOf, Lookup, Phase, Reply, Searching
    <2> QED BY <2>1, StepIsStep DEF Next, Finished
  <1>3. Init => Walks /\ Map!Init
    BY InitIsInit
  <1>4. Spec => [][Map!Next]_<<MapOf, Phase, job, Reply>>
    BY <1>1, <1>2, <1>3, TableInvariance, PTL DEF Spec
  <1> QED BY <1>3, <1>4, PTL DEF Spec, IsMap, Map!Spec, MapOf, Phase, Reply

-------------------------------------------------------------------------------
(* The search over the bins of the table of names (DFSIter.java, Find.java).   *)
(* It has a state of its own, as of the table it needs the chains only.        *)

Entries == NameRecord \cup {0}

(* Sums over sets of entries.  Every set is good if one is as soon as all that *)
(* it holds are.                                                               *)
LEMMA EverySet ==
  ASSUME NEW U, IsFiniteSet(U), NEW G,
         \A S \in SUBSET U : (\A T \in SUBSET S : T # S => T \in G) => S \in G
  PROVE  \A S \in SUBSET U : S \in G
  <1> DEFINE B == {S \in SUBSET U : S \notin G}
             C == {Cardinality(S) : S \in B}
  <1> SUFFICES ASSUME B # {} PROVE FALSE
    OBVIOUS
  <1>1. \A S \in SUBSET U : IsFiniteSet(S) /\ Cardinality(S) \in Nat
    BY FS_Subset, FS_CardinalityType
  <1>2. C \subseteq Nat /\ C # {}
    BY <1>1
  <1>3. PICK n \in C : \A m \in C : n <= m
    BY <1>2, SmallestMember
  <1>4. PICK S \in B : n = Cardinality(S)
    BY <1>3
  <1>5. ASSUME NEW T \in SUBSET S, T # S PROVE T \in G
    <2>1. T \in SUBSET U /\ Cardinality(T) <= Cardinality(S) /\ Cardinality(T) # Cardinality(S)
      BY <1>1, <1>5, FS_Subset
    <2>2. T \in B => Cardinality(S) <= Cardinality(T)
      BY <1>3, <1>4
    <2> QED BY <1>1, <2>1, <2>2
  <1> QED BY <1>4, <1>5

(* The words of a set of entries under names nm, as MapThenSumSet adds them.   *)
Wide(nm, r) == IF r = 0 THEN 1 ELSE Size[nm[r]]
Adds(nm, S, it) ==
  it = [T \in SUBSET S |-> IF T = {} THEN 0
                           ELSE LET x == CHOOSE y \in T : TRUE IN Wide(nm, x) + it[T \ {x}]]
Total(nm, S) == (CHOOSE it : Adds(nm, S, it))[S]
Summed(nm, S) == /\ \E it : Adds(nm, S, it)
                 /\ Total(nm, S) \in Int
                 /\ S = {} => Total(nm, S) = 0
                 /\ \A x \in S : Total(nm, S) = Wide(nm, x) + Total(nm, S \ {x})

LEMMA WideInt ==
  ASSUME NameSearchAssumption, NEW nm \in [NameRecord -> Name], NEW r \in Entries
  PROVE  Wide(nm, r) \in Int
  BY DEF NameSearchAssumption, Entries, Wide

(* One solution of the equation agrees with the sums below it.                 *)
LEMMA Unfolds ==
  ASSUME NEW nm, NEW S, NEW it, Adds(nm, S, it), IsFiniteSet(S),
         \A T \in SUBSET S : T # S => Summed(nm, T)
  PROVE  \A T \in SUBSET S : T # S => it[T] = Total(nm, T)
  <1> DEFINE G == {T \in SUBSET S : T # S => it[T] = Total(nm, T)}
  <1>1. ASSUME NEW T \in SUBSET S, \A V \in SUBSET T : V # T => V \in G PROVE T \in G
    <2> SUFFICES ASSUME T # S PROVE it[T] = Total(nm, T)
      OBVIOUS
    <2>1. CASE T = {}
      BY <2>1 DEF Adds, Summed
    <2>2. CASE T # {}
      <3> DEFINE x == CHOOSE y \in T : TRUE
      <3>1. x \in T
        BY <2>2
      <3>2. it[T] = Wide(nm, x) + it[T \ {x}]
        BY <2>2 DEF Adds
      <3> HIDE DEF x
      <3>3. T \ {x} \in SUBSET T /\ T \ {x} # T /\ T \ {x} # S
        BY <3>1
      <3>4. it[T \ {x}] = Total(nm, T \ {x})
        BY <1>1, <3>3
      <3> QED BY <3>1, <3>2, <3>4 DEF Summed
    <2> QED BY <2>1, <2>2
  <1> HIDE DEF G
  <1>2. \A T \in SUBSET S : T \in G
    BY <1>1, EverySet
  <1> QED BY <1>2 DEF G

LEMMA SumsUp ==
  ASSUME NameSearchAssumption, NEW nm \in [NameRecord -> Name], NEW S \in SUBSET Entries,
         \A T \in SUBSET S : T # S => Summed(nm, T)
  PROVE  Summed(nm, S)
  <1>1. IsFiniteSet(S)
    <2>1. IsFiniteSet(NameRecord) /\ Entries = NameRecord \cup {0}
      BY FS_Interval DEF NameRecord, NameSearchAssumption, Entries
    <2>2. IsFiniteSet(Entries)
      BY <2>1, FS_AddElement
    <2> QED BY <2>2, FS_Subset
  <1>2. CASE S = {}
    <2>1. Adds(nm, S, [T \in SUBSET S |-> 0])
      BY <1>2 DEF Adds
    <2>2. Adds(nm, S, CHOOSE it : Adds(nm, S, it))
      BY <2>1
    <2>3. Total(nm, S) = 0
      BY <1>2, <2>2 DEF Adds, Total
    <2> QED BY <1>2, <2>1, <2>3 DEF Summed
  <1>3. CASE S # {}
    <2> DEFINE c == CHOOSE y \in S : TRUE
               it == [T \in SUBSET S |-> IF T = S THEN Wide(nm, c) + Total(nm, S \ {c}) ELSE Total(nm, T)]
    <2>1. c \in S
      BY <1>3
    <2>2. Adds(nm, S, it)
      <3>1. ASSUME NEW T \in SUBSET S
            PROVE  it[T] = IF T = {} THEN 0
                           ELSE LET x == CHOOSE y \in T : TRUE IN Wide(nm, x) + it[T \ {x}]
        <4>1. CASE T = S
          <5>1. S \ {c} # S /\ S \ {c} \in SUBSET S
            BY <2>1
          <5> QED BY <1>3, <4>1, <5>1
        <4>2. CASE T # S /\ T = {}
          BY <4>2 DEF Summed
        <4>3. CASE T # S /\ T # {}
          <5> DEFINE x == CHOOSE y \in T : TRUE
          <5>1. x \in T
            BY <4>3
          <5> HIDE DEF x
          <5>2. T \ {x} \in SUBSET S /\ T \ {x} # S
            BY <5>1
          <5>3. Total(nm, T) = Wide(nm, x) + Total(nm, T \ {x})
            BY <4>3, <5>1 DEF Summed
          <5>4. it[T] = Wide(nm, x) + it[T \ {x}]
            BY <4>3, <5>2, <5>3
          <5> QED BY <4>3, <5>4 DEF x
        <4> QED BY <4>1, <4>2, <4>3
      <3> HIDE DEF c
      <3>2. it = [T \in SUBSET S |-> it[T]]
        OBVIOUS
      <3> HIDE DEF it
      <3> QED BY <3>1, <3>2 DEF Adds
    <2> HIDE DEF it
    <2> DEFINE f == CHOOSE g : Adds(nm, S, g)
    <2>3. Adds(nm, S, f) /\ Total(nm, S) = f[S]
      BY <2>2 DEF Total
    <2> HIDE DEF f
    <2>4. f[S] = Wide(nm, c) + f[S \ {c}]
      BY <1>3, <2>3 DEF Adds
    <2> HIDE DEF c
    <2>5. \A T \in SUBSET S : T # S => f[T] = Total(nm, T)
      BY <1>1, <2>3, Unfolds
    <2>6. S \ {c} \in SUBSET S /\ S \ {c} # S
      BY <2>1
    <2>7. Total(nm, S) = Wide(nm, c) + Total(nm, S \ {c})
      BY <2>3, <2>4, <2>5, <2>6
    <2>8. Wide(nm, c) \in Int /\ Total(nm, S \ {c}) \in Int
      BY <2>1, <2>6, WideInt DEF Summed
    <2>9. ASSUME NEW x \in S PROVE Total(nm, S) = Wide(nm, x) + Total(nm, S \ {x})
      <3>1. CASE x = c
        BY <2>7, <3>1
      <3>2. CASE x # c
        <4> DEFINE V == S \ {c, x}
        <4>1. (S \ {c}) \ {x} = V /\ (S \ {x}) \ {c} = V /\ x \in S \ {c} /\ c \in S \ {x}
          BY <2>1, <3>2
        <4>2. S \ {x} \in SUBSET S /\ S \ {x} # S /\ V \in SUBSET S /\ V # S
          BY <2>1
        <4> HIDE DEF V
        <4>3. Total(nm, S \ {c}) = Wide(nm, x) + Total(nm, V)
          BY <2>6, <4>1 DEF Summed
        <4>4. Total(nm, S \ {x}) = Wide(nm, c) + Total(nm, V)
          BY <4>1, <4>2 DEF Summed
        <4>5. Wide(nm, x) \in Int /\ Total(nm, V) \in Int
          BY <4>2, WideInt DEF Summed
        <4> QED BY <2>7, <2>8, <4>3, <4>4, <4>5
      <3> QED BY <3>1, <3>2
    <2>10. Total(nm, S) \in Int
      BY <2>7, <2>8
    <2>11. \E g : Adds(nm, S, g)
      BY <2>2
    <2> HIDE DEF c
    <2> QED BY <1>3, <2>9, <2>10, <2>11 DEF Summed
  <1> QED BY <1>2, <1>3

LEMMA AllSummed ==
  ASSUME NameSearchAssumption, NEW nm \in [NameRecord -> Name], NEW S \in SUBSET Entries
  PROVE  Summed(nm, S)
  <1> DEFINE G == {T \in SUBSET Entries : Summed(nm, T)}
  <1>1. IsFiniteSet(Entries)
    <2>1. IsFiniteSet(NameRecord)
      BY FS_Interval DEF NameRecord, NameSearchAssumption
    <2> QED BY <2>1, FS_AddElement DEF Entries
  <1>2. ASSUME NEW T \in SUBSET Entries, \A V \in SUBSET T : V # T => V \in G PROVE T \in G
    BY <1>2, SumsUp
  <1> HIDE DEF G
  <1>3. S \in G
    BY <1>1, <1>2, EverySet
  <1> QED BY <1>3 DEF G

(* Sums under names that agree on the set are the same.                        *)
LEMMA SameTotal ==
  ASSUME NameSearchAssumption, NEW nm \in [NameRecord -> Name],
         NEW np \in [NameRecord -> Name], NEW U \in SUBSET Entries,
         \A r \in U : r # 0 => nm[r] = np[r]
  PROVE  Total(nm, U) = Total(np, U)
  <1> DEFINE G == {T \in SUBSET U : Total(nm, T) = Total(np, T)}
  <1>1. IsFiniteSet(U)
    <2>1. IsFiniteSet(NameRecord)
      BY FS_Interval DEF NameRecord, NameSearchAssumption
    <2>2. IsFiniteSet(Entries)
      BY <2>1, FS_AddElement DEF Entries
    <2> QED BY <2>2, FS_Subset
  <1>2. ASSUME NEW T \in SUBSET U, \A V \in SUBSET T : V # T => V \in G PROVE T \in G
    <2>1. Summed(nm, T) /\ Summed(np, T)
      BY AllSummed
    <2>2. CASE T = {}
      BY <2>1, <2>2 DEF Summed
    <2>3. CASE T # {}
      <3>1. PICK x \in T : TRUE
        BY <2>3
      <3>2. T \ {x} \in G
        BY <1>2, <3>1
      <3>3. Wide(nm, x) = Wide(np, x)
        BY <3>1 DEF Wide
      <3> QED BY <2>1, <3>1, <3>2, <3>3 DEF Summed
    <2> QED BY <2>2, <2>3
  <1> HIDE DEF G
  <1>3. U \in G
    BY <1>1, <1>2, EverySet
  <1> QED BY <1>3 DEF G

(* What a page takes.                                                          *)
LEMMA TakenIs ==
  /\ \A s : Taken(s) = Total(name, page[s])
  /\ \A r : Words(r) = Wide(name, r)
  BY DEF Taken, Words, Nameless, MapThenSumSet, MapThenFoldSet,
         Total, Adds, Wide

-------------------------------------------------------------------------------
(* What a search keeps true.  Records are numbered as they are put, so a chain *)
(* runs down: a record's link names the last one before it in the bin.         *)
BinOf(r) == Bin[name[r]]
Labels   == {"start", "page", "key", "pack", "next", "head", "end", "failed", "done"}

SearchTypes ==
  /\ recs \subseteq NameRecord
  /\ name \in [NameRecord -> Name] /\ next \in [NameRecord -> Entries]
  /\ head \in [NameBin -> Entries]
  /\ mode \in [Searcher -> {"active", "rdma"}] /\ serving \in Searcher \cup {"nobody"}
  /\ at \in [Searcher -> Labels]
  /\ bin \in [Searcher -> -1 .. TableSize - 1] /\ spot \in [Searcher -> Entries]
  /\ page \in [Searcher -> SUBSET Entries] /\ listed \in [Searcher -> SUBSET Entries]
  /\ blank \in [Searcher -> BOOLEAN] /\ before \in [Searcher -> SUBSET NameRecord]
  /\ went \in [Searcher -> SUBSET {"full", "twice", "junk"}]

Chains ==
  /\ \A r \in recs : \A q \in NameRecord \ recs : r < q
  /\ \A q \in recs : /\ next[q] \in recs \cup {0} /\ next[q] < q
                     /\ next[q] # 0 => BinOf(next[q]) = BinOf(q)
                     /\ \A r \in recs : r < q /\ BinOf(r) = BinOf(q) => r <= next[q]
  /\ \A b \in NameBin : /\ head[b] \in recs \cup {0}
                        /\ head[b] # 0 => BinOf(head[b]) = b
  /\ \A r \in recs : r <= head[BinOf(r)]

(* Where the iterator may be.                                                  *)
Placed(s) ==
  /\ spot[s] \in recs \cup {0}
  /\ spot[s] # 0 => bin[s] >= 1 /\ BinOf(spot[s]) = bin[s]
  /\ bin[s] = -1 => spot[s] = 0 /\ at[s] \in {"page", "end", "done"}
  /\ at[s] = "head" => spot[s] = 0
  /\ spot[s] = 0 /\ at[s] # "head" => bin[s] \in {0, -1}
  /\ at[s] = "start" => bin[s] = 0 /\ listed[s] = {}
  /\ at[s] \in {"start", "page", "done"} => page[s] = {}
  /\ at[s] = "pack" => spot[s] = 0 \/ name[spot[s]] \in Matching

(* The iterator has left entry r behind.                                       *)
Passed(s, r) ==
  IF r = 0 THEN bin[s] # 0 \/ at[s] \in {"next", "head"}
  ELSE \/ bin[s] = -1 \/ BinOf(r) < bin[s]
       \/ BinOf(r) = bin[s] /\ (r > spot[s] \/ (r = spot[s] /\ at[s] = "next"))

(* What is on a page has been passed, which is why it is not met again.        *)
Paged(s) ==
  /\ page[s] \cup listed[s] \subseteq recs \cup {0}
  /\ \A r \in page[s] \cup listed[s] :
       Passed(s, r) /\ (r = 0 \/ (name[r] \in Matching /\ BinOf(r) >= 1))
  /\ page[s] \cap listed[s] = {} /\ "twice" \notin went[s]
  /\ Total(name, page[s]) <= MaxRet

(* What has been passed is on a page, unless the search lost it.               *)
Loses(s) == "junk" \in went[s] \/ (mode[s] # "active" /\ "full" \in went[s])
Kept(s) ==
  /\ before[s] \subseteq recs
  /\ ~Loses(s) => \A r \in before[s] :
                    (name[r] \in Matching /\ BinOf(r) >= 1 /\ Passed(s, r)) => r \in page[s] \cup listed[s]
  /\ blank[s] => mode[s] # "active" /\ (Loses(s) \/ bin[s] = -1)
  /\ at[s] = "end" => bin[s] = -1 \/ "junk" \in went[s] \/ ("full" \in went[s] /\ page[s] # {})
  /\ at[s] = "done" => bin[s] = -1 \/ "junk" \in went[s]

SearchesOK == /\ SearchTypes /\ Chains
              /\ \A s \in Searcher : Placed(s) /\ Paged(s) /\ Kept(s)

(* What a step may assume of the searcher that takes it.                       *)
LEMMA SearchFacts ==
  ASSUME NameSearchAssumption, SearchesOK, NEW s \in Searcher
  PROVE  /\ TableSize \in Nat /\ TableSize > 2 /\ MaxRet \in Nat /\ MaxRecs \in Nat
         /\ bin[s] \in Int /\ bin[s] >= -1 /\ bin[s] < TableSize
         /\ spot[s] \in Int /\ spot[s] >= 0
         /\ \A r \in recs : r \in Int /\ r >= 1 /\ BinOf(r) \in Int /\ BinOf(r) < TableSize
         /\ \A b \in NameBin : head[b] \in Int /\ head[b] >= 0
         /\ \A r \in recs : next[r] \in Int /\ next[r] >= 0
         /\ Total(name, page[s]) \in Int
         /\ Total(name, {}) = 0
  <1>1. TableSize \in Nat /\ TableSize > 2 /\ MaxRet \in Nat /\ MaxRecs \in Nat
    BY DEF NameSearchAssumption
  <1>2. \A r \in Entries : r \in Int /\ r >= 0
    BY <1>1 DEF Entries, NameRecord
  <1>3. bin[s] \in Int /\ bin[s] >= -1 /\ bin[s] < TableSize /\ spot[s] \in Int /\ spot[s] >= 0
    BY <1>1, <1>2 DEF SearchesOK, SearchTypes
  <1>4. ASSUME NEW r \in recs
        PROVE  /\ r \in Int /\ r >= 1 /\ BinOf(r) \in Int /\ BinOf(r) < TableSize
               /\ next[r] \in Int /\ next[r] >= 0
    <2>1. r \in NameRecord /\ name[r] \in Name /\ next[r] \in Entries
      BY DEF SearchesOK, SearchTypes
    <2>2. Bin[name[r]] \in 1 - TableSize .. TableSize - 1
      BY <2>1 DEF NameSearchAssumption
    <2> QED BY <1>1, <1>2, <2>1, <2>2 DEF BinOf, NameRecord
  <1>5. \A b \in NameBin : head[b] \in Int /\ head[b] >= 0
    BY <1>2 DEF SearchesOK, SearchTypes
  <1>6. name \in [NameRecord -> Name] /\ page[s] \in SUBSET Entries /\ {} \in SUBSET Entries
    BY DEF SearchesOK, SearchTypes
  <1>7. Summed(name, page[s]) /\ Summed(name, {})
    BY <1>6, AllSummed
  <1> QED BY <1>1, <1>3, <1>4, <1>5, <1>7 DEF Summed

(* A step of one searcher is none of another's.                                *)
Still(s) == /\ at'[s] = at[s] /\ bin'[s] = bin[s] /\ spot'[s] = spot[s] /\ page'[s] = page[s]
            /\ blank'[s] = blank[s] /\ listed'[s] = listed[s] /\ before'[s] = before[s]
            /\ went'[s] = went[s] /\ mode'[s] = mode[s]
SameTable == recs' = recs /\ name' = name /\ next' = next /\ head' = head

LEMMA StillSound ==
  ASSUME NEW s, Still(s), SameTable, Placed(s), Paged(s), Kept(s)
  PROVE  Placed(s)' /\ Paged(s)' /\ Kept(s)'
  <1>1. \A r : BinOf(r)' = BinOf(r)
    BY DEF BinOf, SameTable
  <1>2. \A r : Passed(s, r)' <=> Passed(s, r)
    BY <1>1 DEF Passed, Still
  <1>3. Loses(s)' <=> Loses(s)
    BY DEF Loses, Still
  <1>4. Total(name, page[s])' = Total(name, page[s])
    BY DEF Still, SameTable
  <1>5. Placed(s)'
    BY <1>1 DEF Placed, Still, SameTable
  <1>6. Paged(s)'
    BY <1>1, <1>2, <1>4 DEF Paged, Still, SameTable
  <1>7. Kept(s)'
    BY <1>1, <1>2, <1>3 DEF Kept, Still, SameTable
  <1> QED BY <1>5, <1>6, <1>7

LEMMA OthersStill ==
  ASSUME SearchTypes, NEW t \in Searcher, NEW s \in Searcher, s # t, Search(t)
  PROVE  Still(s) /\ SameTable
  <1>1. CASE Start(t)
    BY <1>1 DEF Start, MoveTo, table, SearchTypes, Still, SameTable
  <1>2. CASE Begin(t)
    BY <1>2 DEF Begin, MoveTo, table, SearchTypes, Still, SameTable
  <1>3. CASE Look(t)
    BY <1>3 DEF Look, MoveTo, table, SearchTypes, Still, SameTable
  <1>4. CASE Pack(t)
    BY <1>4 DEF Pack, MoveTo, table, SearchTypes, Still, SameTable
  <1>5. CASE JunkKey(t)
    BY <1>5 DEF JunkKey, MoveTo, table, SearchTypes, Still, SameTable
  <1>6. CASE Follow(t)
    BY <1>6 DEF Follow, MoveTo, table, SearchTypes, Still, SameTable
  <1>7. CASE NextBin(t)
    BY <1>7 DEF NextBin, MoveTo, table, SearchTypes, Still, SameTable
  <1>8. CASE End(t)
    BY <1>8 DEF End, MoveTo, table, SearchTypes, Still, SameTable
  <1> QED BY <1>1, <1>2, <1>3, <1>4, <1>5, <1>6, <1>7, <1>8 DEF Search

(* Each action of a searcher, one by one: it keeps the types and, for the      *)
(* searcher itself, the rest.                                                  *)
LEMMA StartSound ==
  ASSUME NameSearchAssumption, SearchesOK, NEW s \in Searcher, Start(s)
  PROVE  SearchTypes' /\ Placed(s)' /\ Paged(s)' /\ Kept(s)'
  <1>1. /\ at[s] = "start" /\ at' = [at EXCEPT ![s] = "page"] /\ before' = [before EXCEPT ![s] = recs]
        /\ SameTable /\ mode' = mode /\ serving' = serving /\ bin' = bin /\ spot' = spot
        /\ page' = page /\ blank' = blank /\ listed' = listed /\ went' = went
    BY DEF Start, MoveTo, table, SameTable
  <1>2. SearchTypes'
    BY <1>1 DEF SearchesOK, SearchTypes, Labels, SameTable
  <1>3. at'[s] = "page" /\ before'[s] = recs /\ Placed(s) /\ Paged(s) /\ Kept(s)
    BY <1>1 DEF SearchesOK, SearchTypes
  <1>4. \A r : BinOf(r)' = BinOf(r)
    BY <1>1 DEF BinOf, SameTable
  <1>5. bin[s] = 0 /\ spot[s] = 0 /\ page[s] = {} /\ listed[s] = {}
    BY <1>1, <1>3, SearchFacts DEF Placed
  <1>6. Placed(s)'
    BY <1>1, <1>3, <1>4, <1>5 DEF Placed, SameTable
  <1>7. Total(name, page[s])' = Total(name, page[s])
    BY <1>1 DEF SameTable
  <1>8. Paged(s)'
    BY <1>1, <1>3, <1>5, <1>7 DEF Paged, SameTable
  <1>9. \A r \in recs : BinOf(r) >= 1 => r # 0 /\ ~Passed(s, r)'
    BY <1>1, <1>3, <1>4, <1>5, SearchFacts DEF Passed
  <1>10. Kept(s)'
    BY <1>1, <1>3, <1>4, <1>9 DEF Kept, Loses, SameTable
  <1> QED BY <1>2, <1>6, <1>8, <1>10

LEMMA BeginSound ==
  ASSUME NameSearchAssumption, SearchesOK, NEW s \in Searcher, Begin(s)
  PROVE  SearchTypes' /\ Placed(s)' /\ Paged(s)' /\ Kept(s)'
  <1> DEFINE label == IF bin[s] = -1 THEN "end" ELSE "key"
  <1>1. /\ at[s] = "page" /\ at' = [at EXCEPT ![s] = label] /\ before' = before
        /\ SameTable /\ mode' = mode /\ bin' = bin /\ spot' = spot
        /\ page' = page /\ blank' = blank /\ listed' = listed /\ went' = went
    BY DEF Begin, MoveTo, table, SameTable, EOF
  <1>2. serving' \in Searcher \cup {"nobody"}
    BY DEF Begin, NoSearcher
  <1>3. SearchTypes'
    BY <1>1, <1>2 DEF SearchesOK, SearchTypes, Labels, SameTable
  <1>4. at'[s] = label /\ Placed(s) /\ Paged(s) /\ Kept(s)
    BY <1>1 DEF SearchesOK, SearchTypes
  <1>5. \A r : BinOf(r)' = BinOf(r)
    BY <1>1 DEF BinOf, SameTable
  <1>6. Placed(s)'
    BY <1>1, <1>4, <1>5 DEF Placed, SameTable
  <1>7. Total(name, page[s])' = Total(name, page[s])
    BY <1>1 DEF SameTable
  <1>8. \A r : Passed(s, r)' <=> Passed(s, r)
    BY <1>1, <1>4, <1>5 DEF Passed
  <1>9. Paged(s)'
    BY <1>1, <1>4, <1>5, <1>7, <1>8 DEF Paged, SameTable
  <1>10. Kept(s)'
    BY <1>1, <1>4, <1>5, <1>8 DEF Kept, Loses, SameTable
  <1> QED BY <1>3, <1>6, <1>9, <1>10

LEMMA KeySound ==
  ASSUME NameSearchAssumption, SearchesOK, NEW s \in Searcher, Look(s)
  PROVE  SearchTypes' /\ Placed(s)' /\ Paged(s)' /\ Kept(s)'
  <1> DEFINE label == IF Matches(s) THEN "pack" ELSE "next"
  <1>1. /\ at[s] = "key" /\ at' = [at EXCEPT ![s] = label] /\ before' = before
        /\ SameTable /\ mode' = mode /\ serving' = serving /\ bin' = bin /\ spot' = spot
        /\ page' = page /\ blank' = blank /\ listed' = listed /\ went' = went
    BY DEF Look, MoveTo, table, SameTable
  <1>2. SearchTypes'
    <2>1. label \in Labels
      BY DEF Labels
    <2> HIDE DEF label
    <2> QED BY <1>1, <2>1 DEF SearchesOK, SearchTypes, SameTable
  <1>3. at'[s] = label /\ label \in {"pack", "next"} /\ Placed(s) /\ Paged(s) /\ Kept(s)
    BY <1>1 DEF SearchesOK, SearchTypes
  <1>4. Matches(s) => ~blank[s] /\ (spot[s] = 0 \/ name[spot[s]] \in Matching)
    BY DEF Matches, Nameless
  <1>5. spot[s] # 0 /\ ~blank[s] /\ name[spot[s]] \in Matching => Matches(s)
    BY DEF Matches, Nameless
  <1>6. label = "pack" <=> Matches(s)
    OBVIOUS
  <1> HIDE DEF label
  <1>7. \A r : BinOf(r)' = BinOf(r)
    BY <1>1 DEF BinOf, SameTable
  <1>8. Placed(s)'
    BY <1>1, <1>3, <1>4, <1>6, <1>7 DEF Placed, SameTable
  <1>9. Total(name, page[s])' = Total(name, page[s])
    BY <1>1 DEF SameTable
  <1>10. \A r : Passed(s, r) => Passed(s, r)'
    BY <1>1, <1>3, <1>7 DEF Passed
  <1>11. Paged(s)'
    BY <1>1, <1>3, <1>7, <1>9, <1>10 DEF Paged, SameTable
  <1>12. Kept(s)'
    <2>1. ASSUME ~Loses(s), NEW r \in before[s], name[r] \in Matching, BinOf(r) >= 1, Passed(s, r)'
          PROVE  r \in page[s] \cup listed[s]
      <3>1. bin[s] # -1 /\ ~blank[s] /\ r # 0
        BY <1>1, <1>3, <2>1, SearchFacts DEF Placed, Kept
      <3>2. CASE Passed(s, r)
        BY <1>3, <2>1, <3>2 DEF Kept
      <3>3. CASE ~Passed(s, r)
        <4>1. r = spot[s] /\ at'[s] = "next"
          BY <1>1, <1>7, <2>1, <3>1, <3>3 DEF Passed
        <4> QED BY <1>3, <1>5, <1>6, <2>1, <3>1, <4>1
      <3> QED BY <3>2, <3>3
    <2>2. Loses(s)' <=> Loses(s)
      BY <1>1 DEF Loses
    <2> QED BY <1>1, <1>3, <1>7, <2>1, <2>2 DEF Kept, SameTable
  <1> QED BY <1>2, <1>8, <1>11, <1>12

(* A page that grows by an entry that fits.                                    *)
LEMMA PageGrows ==
  ASSUME NameSearchAssumption, SearchesOK, NEW s \in Searcher
  PROVE  /\ Fits(s) <=> Total(name, page[s]) + Wide(name, spot[s]) <= MaxRet
         /\ spot[s] \notin page[s] =>
              Total(name, page[s] \cup {spot[s]}) = Total(name, page[s]) + Wide(name, spot[s])
         /\ Wide(name, spot[s]) \in Int /\ Wide(name, spot[s]) <= MaxRet
  <1>1. /\ name \in [NameRecord -> Name] /\ page[s] \in SUBSET Entries /\ spot[s] \in Entries
        /\ page[s] \cup {spot[s]} \in SUBSET Entries
    BY DEF SearchesOK, SearchTypes
  <1>2. Fits(s) <=> Total(name, page[s]) + Wide(name, spot[s]) <= MaxRet
    BY TakenIs DEF Fits
  <1>3. Wide(name, spot[s]) \in Int /\ Total(name, page[s]) \in Int
    BY <1>1, WideInt, SearchFacts
  <1>4. Wide(name, spot[s]) <= MaxRet
    <2>1. PICK n \in Name : TRUE
      BY DEF NameSearchAssumption
    <2>2. \A m \in Name : Size[m] \in 1 .. MaxRet
      BY DEF NameSearchAssumption
    <2>3. spot[s] # 0 => name[spot[s]] \in Name
      BY <1>1 DEF Entries
    <2>4. 1 <= MaxRet
      BY <2>1, <2>2, SearchFacts
    <2> QED BY <2>2, <2>3, <2>4, SearchFacts DEF Wide
  <1>5. ASSUME spot[s] \notin page[s]
        PROVE  Total(name, page[s] \cup {spot[s]}) = Total(name, page[s]) + Wide(name, spot[s])
    <2> DEFINE S == page[s] \cup {spot[s]}
    <2>1. Summed(name, S)
      BY <1>1, AllSummed
    <2>2. S \ {spot[s]} = page[s] /\ spot[s] \in S
      BY <1>5
    <2> HIDE DEF S
    <2>3. Total(name, S) = Wide(name, spot[s]) + Total(name, page[s])
      BY <2>1, <2>2 DEF Summed
    <2> QED BY <1>3, <2>3 DEF S
  <1> QED BY <1>2, <1>3, <1>4, <1>5

LEMMA PackSound ==
  ASSUME NameSearchAssumption, SearchesOK, NEW s \in Searcher, Pack(s)
  PROVE  SearchTypes' /\ Placed(s)' /\ Paged(s)' /\ Kept(s)'
  <1>1. /\ at[s] = "pack" /\ before' = before
        /\ SameTable /\ mode' = mode /\ serving' = serving /\ bin' = bin /\ spot' = spot
        /\ blank' = blank /\ listed' = listed
    BY DEF Pack, table, SameTable
  <1>2. /\ at' = [at EXCEPT ![s] = IF Fits(s) THEN "next" ELSE "end"]
        /\ page' = [page EXCEPT ![s] = IF Fits(s) THEN page[s] \cup {spot[s]} ELSE page[s]]
        /\ went' = [went EXCEPT ![s] = IF Fits(s) THEN went[s] ELSE went[s] \cup {"full"}]
    BY DEF Pack, MoveTo
  <1>3. SearchTypes'
    <2>1. /\ spot[s] \in Entries /\ page[s] \in SUBSET Entries /\ went[s] \in SUBSET {"full", "twice", "junk"}
          /\ s \in Searcher
      BY DEF SearchesOK, SearchTypes
    <2>2. at' \in [Searcher -> Labels]
      BY <1>2 DEF SearchesOK, SearchTypes, Labels
    <2>3. page' \in [Searcher -> SUBSET Entries]
      BY <1>2, <2>1 DEF SearchesOK, SearchTypes
    <2>4. went' \in [Searcher -> SUBSET {"full", "twice", "junk"}]
      BY <1>2, <2>1 DEF SearchesOK, SearchTypes
    <2> QED BY <1>1, <2>2, <2>3, <2>4 DEF SearchesOK, SearchTypes, SameTable
  <1>4. Placed(s) /\ Paged(s) /\ Kept(s)
    BY DEF SearchesOK
  <1>5. \A r : BinOf(r)' = BinOf(r)
    BY <1>1 DEF BinOf, SameTable
  <1>6. bin[s] # -1 /\ spot[s] \in recs \cup {0} /\ (spot[s] # 0 => bin[s] >= 1 /\ BinOf(spot[s]) = bin[s])
    BY <1>1, <1>4 DEF Placed
  <1>7. spot[s] \notin page[s] \cup listed[s]
    <2>1. ~Passed(s, spot[s])
      BY <1>1, <1>4, <1>6, SearchFacts DEF Passed, Placed
    <2> QED BY <1>4, <2>1 DEF Paged
  <1>8. CASE Fits(s)
    <2>1. at'[s] = "next" /\ page'[s] = page[s] \cup {spot[s]} /\ went' = went
      BY <1>2, <1>8 DEF SearchesOK, SearchTypes
    <2>2. Placed(s)'
      BY <1>1, <1>4, <1>5, <2>1 DEF Placed, SameTable
    <2>3. Total(name', page'[s]) = Total(name, page[s] \cup {spot[s]})
      BY <1>1, <2>1 DEF SameTable
    <2>4. Total(name', page'[s]) <= MaxRet
      BY <1>7, <1>8, <2>3, PageGrows
    <2>5. \A r : Passed(s, r) => Passed(s, r)'
      BY <1>1, <1>5, <2>1 DEF Passed
    <2>6. Passed(s, spot[s])'
      BY <1>1, <1>5, <1>6, <2>1 DEF Passed
    <2>7. spot[s] = 0 \/ (name[spot[s]] \in Matching /\ BinOf(spot[s]) >= 1)
      BY <1>1, <1>4, <1>6 DEF Placed
    <2>8. Paged(s)'
      BY <1>1, <1>4, <1>5, <1>6, <1>7, <2>1, <2>4, <2>5, <2>6, <2>7 DEF Paged, SameTable
    <2>9. ASSUME ~Loses(s), NEW r \in before[s], name[r] \in Matching, BinOf(r) >= 1, Passed(s, r)'
          PROVE  r \in page'[s] \cup listed[s]
      <3>1. r # 0
        BY <1>4, <2>9, SearchFacts DEF Kept
      <3>2. Passed(s, r) \/ r = spot[s]
        BY <1>1, <1>5, <2>9, <3>1 DEF Passed
      <3> QED BY <1>4, <2>1, <2>9, <3>2 DEF Kept
    <2>10. Loses(s)' <=> Loses(s)
      BY <1>1, <2>1 DEF Loses
    <2>11. Kept(s)'
      BY <1>1, <1>4, <1>5, <2>1, <2>9, <2>10 DEF Kept, SameTable
    <2> QED BY <1>3, <2>2, <2>8, <2>11
  <1>9. CASE ~Fits(s)
    <2>1. at'[s] = "end" /\ page' = page /\ went'[s] = went[s] \cup {"full"}
      BY <1>2, <1>9 DEF SearchesOK, SearchTypes
    <2>2. Placed(s)'
      BY <1>1, <1>4, <1>5, <1>6, <2>1 DEF Placed, SameTable
    <2>3. page[s] # {}
      <3>1. ~(Total(name, page[s]) + Wide(name, spot[s]) <= MaxRet)
        BY <1>9, PageGrows
      <3>2. Wide(name, spot[s]) \in Int /\ Wide(name, spot[s]) <= MaxRet
        BY PageGrows
      <3>3. Total(name, {}) = 0 /\ MaxRet \in Nat
        BY SearchFacts
      <3>4. Total(name, page[s]) # 0
        BY <3>1, <3>2, <3>3
      <3> QED BY <3>3, <3>4
    <2>4. Total(name', page'[s]) = Total(name, page[s])
      BY <1>1, <2>1 DEF SameTable
    <2>5. \A r : Passed(s, r) <=> Passed(s, r)'
      BY <1>1, <1>5, <2>1 DEF Passed
    <2>6. Paged(s)'
      BY <1>1, <1>4, <1>5, <2>1, <2>4, <2>5 DEF Paged, SameTable
    <2>7. Loses(s) => Loses(s)'
      BY <1>1, <2>1 DEF Loses
    <2>8. Kept(s)'
      BY <1>1, <1>4, <1>5, <1>6, <2>1, <2>3, <2>5, <2>7 DEF Kept, SameTable
    <2> QED BY <1>3, <2>2, <2>6, <2>8
  <1> QED BY <1>8, <1>9

LEMMA JunkKeySound ==
  ASSUME NameSearchAssumption, SearchesOK, NEW s \in Searcher, JunkKey(s)
  PROVE  SearchTypes' /\ Placed(s)' /\ Paged(s)' /\ Kept(s)'
  <1>1. /\ at[s] \in {"key", "pack"} /\ spot[s] = 0 /\ before' = before
        /\ SameTable /\ mode' = mode /\ bin' = bin /\ spot' = spot
        /\ page' = page /\ blank' = blank /\ listed' = listed
    BY DEF JunkKey, Junk, Nameless, table, SameTable
  <1>2. PICK label \in {"end", "failed", "next"} : at' = [at EXCEPT ![s] = label]
    BY DEF JunkKey, MoveTo
  <1>3. went' = [went EXCEPT ![s] = went[s] \cup {"junk"}]
    BY DEF JunkKey
  <1>4. serving' \in Searcher \cup {"nobody"}
    BY DEF JunkKey, NoSearcher, SearchesOK, SearchTypes
  <1>5. at'[s] = label /\ went'[s] = went[s] \cup {"junk"}
    BY <1>2, <1>3 DEF SearchesOK, SearchTypes
  <1>6. SearchTypes'
    <2>1. went' \in [Searcher -> SUBSET {"full", "twice", "junk"}]
      BY <1>3 DEF SearchesOK, SearchTypes
    <2>2. at' \in [Searcher -> Labels]
      BY <1>2 DEF SearchesOK, SearchTypes, Labels
    <2> QED BY <1>1, <1>4, <2>1, <2>2 DEF SearchesOK, SearchTypes, SameTable
  <1>7. Placed(s) /\ Paged(s) /\ Kept(s)
    BY DEF SearchesOK
  <1>8. \A r : BinOf(r)' = BinOf(r)
    BY <1>1 DEF BinOf, SameTable
  <1>9. Placed(s)'
    BY <1>1, <1>5, <1>7, <1>8 DEF Placed, SameTable
  <1>10. Total(name', page'[s]) = Total(name, page[s])
    BY <1>1 DEF SameTable
  <1>11. \A r : Passed(s, r) => Passed(s, r)'
    BY <1>1, <1>5, <1>8 DEF Passed
  <1>12. Paged(s)'
    BY <1>1, <1>5, <1>7, <1>8, <1>10, <1>11 DEF Paged, SameTable
  <1>13. Loses(s)'
    BY <1>5 DEF Loses
  <1>14. Kept(s)'
    BY <1>1, <1>5, <1>7, <1>13 DEF Kept, Placed, SameTable
  <1> QED BY <1>6, <1>9, <1>12, <1>14

LEMMA FollowSound ==
  ASSUME NameSearchAssumption, SearchesOK, NEW s \in Searcher, Follow(s)
  PROVE  SearchTypes' /\ Placed(s)' /\ Paged(s)' /\ Kept(s)'
  <1> DEFINE r0 == IF spot[s] = 0 THEN 0 ELSE next[spot[s]]
  <1>1. /\ at[s] = "next" /\ before' = before
        /\ SameTable /\ mode' = mode /\ serving' = serving /\ bin' = bin
        /\ page' = page /\ blank' = blank /\ listed' = listed /\ went' = went
    BY DEF Follow, table, SameTable
  <1>2. /\ spot' = [spot EXCEPT ![s] = r0]
        /\ at' = [at EXCEPT ![s] = IF r0 = 0 THEN "head" ELSE "key"]
    BY DEF Follow, MoveTo
  <1>3. Placed(s) /\ Paged(s) /\ Kept(s) /\ Chains
    BY DEF SearchesOK
  <1>4. bin[s] # -1 /\ spot[s] \in recs \cup {0} /\ (spot[s] # 0 => bin[s] >= 1 /\ BinOf(spot[s]) = bin[s])
    BY <1>1, <1>3 DEF Placed
  <1>5. /\ r0 \in recs \cup {0} /\ r0 \in Int /\ r0 >= 0
        /\ r0 # 0 => spot[s] # 0 /\ r0 < spot[s] /\ BinOf(r0) = bin[s]
        /\ spot[s] # 0 => r0 < spot[s]
        /\ spot[s] = 0 => r0 = 0
    BY <1>3, <1>4, SearchFacts DEF Chains
  <1>6. ASSUME NEW r \in recs, spot[s] # 0, r < spot[s], BinOf(r) = bin[s] PROVE r <= r0
    BY <1>3, <1>4, <1>6 DEF Chains
  <1> HIDE DEF r0
  <1>7. SearchTypes'
    <2>1. r0 \in Entries
      BY <1>5 DEF SearchesOK, SearchTypes, Entries
    <2>2. spot' \in [Searcher -> Entries]
      BY <1>2, <2>1 DEF SearchesOK, SearchTypes
    <2>3. at' \in [Searcher -> Labels]
      BY <1>2 DEF SearchesOK, SearchTypes, Labels
    <2> QED BY <1>1, <2>2, <2>3 DEF SearchesOK, SearchTypes, SameTable
  <1>8. spot'[s] = r0 /\ at'[s] = IF r0 = 0 THEN "head" ELSE "key"
    BY <1>2 DEF SearchesOK, SearchTypes
  <1>9. \A r : BinOf(r)' = BinOf(r)
    BY <1>1 DEF BinOf, SameTable
  <1>10. Placed(s)'
    BY <1>1, <1>3, <1>4, <1>5, <1>8, <1>9 DEF Placed, SameTable
  <1>11. Total(name', page'[s]) = Total(name, page[s])
    BY <1>1 DEF SameTable
  <1>12. ASSUME NEW r \in recs \cup {0}, Passed(s, r) PROVE Passed(s, r)'
    <2>1. CASE r = 0
      BY <1>1, <1>4, <1>5, <1>8, <1>12, <2>1, SearchFacts DEF Passed
    <2>2. CASE r # 0
      <3>1. r \in Int /\ r >= 1 /\ spot[s] \in Int /\ spot[s] >= 0
        BY <2>2, SearchFacts
      <3> QED BY <1>1, <1>5, <1>8, <1>9, <1>12, <2>2, <3>1 DEF Passed
    <2> QED BY <2>1, <2>2
  <1>13. ASSUME NEW r \in recs, Passed(s, r)' PROVE Passed(s, r)
    <2>1. r \in Int /\ r >= 1 /\ spot[s] \in Int /\ spot[s] >= 0
      BY SearchFacts
    <2>2. bin[s] = -1 \/ BinOf(r) < bin[s] \/ (BinOf(r) = bin[s] /\ r > r0)
      BY <1>1, <1>5, <1>8, <1>9, <1>13, <2>1 DEF Passed
    <2>3. BinOf(r) = bin[s] /\ r > r0 => r >= spot[s]
      BY <1>5, <1>6, <2>1
    <2> QED BY <1>1, <2>1, <2>2, <2>3 DEF Passed
  <1>14. Paged(s)'
    BY <1>1, <1>3, <1>9, <1>11, <1>12 DEF Paged, SameTable
  <1>15. Loses(s)' <=> Loses(s)
    BY <1>1 DEF Loses
  <1>16. Kept(s)'
    BY <1>1, <1>3, <1>8, <1>9, <1>13, <1>15 DEF Kept, SameTable
  <1> QED BY <1>7, <1>10, <1>14, <1>16

LEMMA HeadSound ==
  ASSUME NameSearchAssumption, SearchesOK, NEW s \in Searcher, NextBin(s)
  PROVE  SearchTypes' /\ Placed(s)' /\ Paged(s)' /\ Kept(s)'
  <1>1. /\ at[s] = "head" /\ before' = before
        /\ SameTable /\ mode' = mode /\ serving' = serving
        /\ page' = page /\ blank' = blank /\ listed' = listed /\ went' = went
    BY DEF NextBin, table, SameTable
  <1>2. Placed(s) /\ Paged(s) /\ Kept(s) /\ Chains
    BY DEF SearchesOK
  <1>3. spot[s] = 0 /\ bin[s] \in Int /\ bin[s] >= 0 /\ bin[s] < TableSize
    BY <1>1, <1>2, SearchFacts DEF Placed
  <1>4. \A r : BinOf(r)' = BinOf(r)
    BY <1>1 DEF BinOf, SameTable
  <1>5. Total(name', page'[s]) = Total(name, page[s])
    BY <1>1 DEF SameTable
  <1>6. Loses(s)' <=> Loses(s)
    BY <1>1 DEF Loses
  <1>7. \A r \in recs : Passed(s, r) <=> BinOf(r) <= bin[s]
    BY <1>1, <1>3, SearchFacts DEF Passed
  <1>8. CASE bin[s] + 1 = TableSize
    <2>1. /\ bin' = [bin EXCEPT ![s] = -1] /\ at' = [at EXCEPT ![s] = "end"] /\ spot' = spot
      BY <1>8 DEF NextBin, MoveTo, EOF
    <2>2. SearchTypes'
      <3>1. -1 \in -1 .. TableSize - 1
        BY SearchFacts
      <3>2. bin' \in [Searcher -> -1 .. TableSize - 1] /\ at' \in [Searcher -> Labels]
        BY <2>1, <3>1 DEF SearchesOK, SearchTypes, Labels
      <3> QED BY <1>1, <2>1, <3>2 DEF SearchesOK, SearchTypes, SameTable
    <2>3. bin'[s] = -1 /\ at'[s] = "end" /\ spot'[s] = 0
      BY <1>3, <2>1 DEF SearchesOK, SearchTypes
    <2>4. Placed(s)'
      BY <2>3 DEF Placed
    <2>5. \A r : Passed(s, r)'
      BY <2>3 DEF Passed
    <2>6. Paged(s)'
      BY <1>1, <1>2, <1>4, <1>5, <2>5 DEF Paged, SameTable
    <2>7. \A r \in recs : Passed(s, r)
      BY <1>3, <1>7, <1>8, SearchFacts
    <2>8. Kept(s)'
      BY <1>1, <1>2, <1>4, <1>6, <2>3, <2>7 DEF Kept, SameTable
    <2> QED BY <2>2, <2>4, <2>6, <2>8
  <1>9. CASE bin[s] + 1 # TableSize
    <2> DEFINE b == bin[s] + 1
    <2>1. /\ bin' = [bin EXCEPT ![s] = b] /\ spot' = [spot EXCEPT ![s] = head[b]]
          /\ at' = [at EXCEPT ![s] = IF head[b] = 0 THEN "head" ELSE "key"]
      BY <1>9 DEF NextBin, MoveTo
    <2>2. b \in NameBin /\ b \in -1 .. TableSize - 1 /\ b \in Int /\ b >= 1
      BY <1>3, <1>9, SearchFacts DEF NameBin
    <2>3. /\ head[b] \in recs \cup {0} /\ head[b] \in Int /\ head[b] >= 0
          /\ head[b] # 0 => BinOf(head[b]) = b
          /\ \A r \in recs : BinOf(r) = b => r <= head[b]
      BY <1>2, <2>2, SearchFacts DEF Chains
    <2>4. \A r \in recs : BinOf(r) <= bin[s] <=> BinOf(r) < b
      BY <1>3, SearchFacts
    <2> HIDE DEF b
    <2>5. SearchTypes'
      <3>1. head[b] \in Entries
        BY <2>2 DEF SearchesOK, SearchTypes
      <3>2. bin' \in [Searcher -> -1 .. TableSize - 1] /\ at' \in [Searcher -> Labels]
        BY <2>1, <2>2 DEF SearchesOK, SearchTypes, Labels
      <3>3. spot' \in [Searcher -> Entries]
        BY <2>1, <3>1 DEF SearchesOK, SearchTypes
      <3> QED BY <1>1, <3>2, <3>3 DEF SearchesOK, SearchTypes, SameTable
    <2>6. bin'[s] = b /\ spot'[s] = head[b] /\ at'[s] = IF head[b] = 0 THEN "head" ELSE "key"
      BY <2>1 DEF SearchesOK, SearchTypes
    <2>7. Placed(s)'
      BY <1>1, <1>2, <1>4, <2>2, <2>3, <2>6 DEF Placed, SameTable
    <2>8. \A r \in recs : Passed(s, r)' <=> BinOf(r) < b
      BY <1>4, <2>2, <2>3, <2>6, SearchFacts DEF Passed
    <2>9. Passed(s, 0)'
      BY <2>2, <2>6 DEF Passed
    <2>10. \A r \in recs : Passed(s, r)' <=> Passed(s, r)
      BY <1>7, <2>4, <2>8
    <2>11. Paged(s)'
      BY <1>1, <1>2, <1>4, <1>5, <2>9, <2>10 DEF Paged, SameTable
    <2>12. Kept(s)'
      BY <1>1, <1>2, <1>3, <1>4, <1>6, <2>2, <2>6, <2>10 DEF Kept, SameTable
    <2> QED BY <2>5, <2>7, <2>11, <2>12
  <1> QED BY <1>8, <1>9

LEMMA EndSound ==
  ASSUME NameSearchAssumption, SearchesOK, NEW s \in Searcher, End(s)
  PROVE  SearchTypes' /\ Placed(s)' /\ Paged(s)' /\ Kept(s)'
  <1>1. /\ at[s] = "end" /\ before' = before
        /\ SameTable /\ mode' = mode /\ bin' = bin /\ spot' = spot
    BY DEF End, table, SameTable
  <1>2. /\ at' = [at EXCEPT ![s] = IF page[s] = {} THEN "done" ELSE "page"]
        /\ listed' = [listed EXCEPT ![s] = listed[s] \cup page[s]]
        /\ went' = [went EXCEPT ![s] = IF page[s] \cap listed[s] # {} THEN went[s] \cup {"twice"} ELSE went[s]]
        /\ page' = [page EXCEPT ![s] = {}]
        /\ blank' = [blank EXCEPT ![s] = (mode[s] = "rdma")]
    BY DEF End, MoveTo
  <1>3. serving' \in Searcher \cup {"nobody"}
    BY DEF End, NoSearcher, SearchesOK, SearchTypes
  <1>4. Placed(s) /\ Paged(s) /\ Kept(s)
    BY DEF SearchesOK
  <1>5. page[s] \in SUBSET Entries /\ listed[s] \in SUBSET Entries /\ mode[s] \in {"active", "rdma"}
    BY DEF SearchesOK, SearchTypes
  <1>6. went' = went
    BY <1>2, <1>4 DEF Paged, SearchesOK, SearchTypes
  <1>7. SearchTypes'
    <2>1. at' \in [Searcher -> Labels]
      BY <1>2 DEF SearchesOK, SearchTypes, Labels
    <2>2. listed' \in [Searcher -> SUBSET Entries]
      BY <1>2, <1>5 DEF SearchesOK, SearchTypes
    <2>3. page' \in [Searcher -> SUBSET Entries]
      BY <1>2 DEF SearchesOK, SearchTypes
    <2>4. blank' \in [Searcher -> BOOLEAN]
      BY <1>2 DEF SearchesOK, SearchTypes
    <2> QED BY <1>1, <1>3, <1>6, <2>1, <2>2, <2>3, <2>4 DEF SearchesOK, SearchTypes, SameTable
  <1>8. /\ at'[s] = IF page[s] = {} THEN "done" ELSE "page"
        /\ listed'[s] = listed[s] \cup page[s] /\ page'[s] = {} /\ blank'[s] = (mode[s] = "rdma")
    BY <1>2 DEF SearchesOK, SearchTypes
  <1>9. \A r : BinOf(r)' = BinOf(r)
    BY <1>1 DEF BinOf, SameTable
  <1>10. Placed(s)'
    BY <1>1, <1>4, <1>8, <1>9 DEF Placed, SameTable
  <1>11. Total(name', page'[s]) <= MaxRet
    <2>1. Total(name', page'[s]) = Total(name, {})
      BY <1>1, <1>8 DEF SameTable
    <2> QED BY <2>1, SearchFacts
  <1>12. \A r : Passed(s, r)' <=> Passed(s, r)
    BY <1>1, <1>8, <1>9 DEF Passed
  <1>13. Paged(s)'
    BY <1>1, <1>4, <1>6, <1>8, <1>9, <1>11, <1>12 DEF Paged, SameTable
  <1>14. Loses(s)' <=> Loses(s)
    BY <1>1, <1>6 DEF Loses
  <1>15. blank'[s] => mode[s] # "active" /\ (Loses(s) \/ bin[s] = -1)
    BY <1>1, <1>4, <1>8 DEF Kept, Loses
  <1>16. Kept(s)'
    BY <1>1, <1>4, <1>6, <1>8, <1>9, <1>12, <1>14, <1>15 DEF Kept, SameTable
  <1> QED BY <1>7, <1>10, <1>13, <1>16

(* A put adds the next record in front of its bin.                             *)
LEMMA PutSound ==
  ASSUME NameSearchAssumption, SearchesOK, NEW n \in Name, PutName(n)
  PROVE  SearchesOK'
  <1> DEFINE b == Bin[n]
  <1>1. /\ mode' = mode /\ serving' = serving /\ at' = at /\ bin' = bin /\ spot' = spot
        /\ page' = page /\ blank' = blank /\ listed' = listed /\ before' = before /\ went' = went
    BY DEF PutName
  <1>2. PICK r \in NameRecord \ recs :
          /\ \A q \in NameRecord \ recs : r <= q
          /\ recs' = recs \cup {r} /\ name' = [name EXCEPT ![r] = n]
          /\ next' = [next EXCEPT ![r] = head[b]] /\ head' = [head EXCEPT ![b] = r]
    BY DEF PutName
  <1>3. b \in NameBin /\ b \in Int
    BY DEF NameSearchAssumption, NameBin
  <1> HIDE DEF b
  <1>4. SearchTypes /\ Chains
    BY DEF SearchesOK
  <1>5. \A q \in NameRecord : q \in Int /\ q >= 1
    BY SearchFacts DEF NameSearchAssumption, NameRecord
  <1>6. SearchTypes'
    <2>1. r \in Entries /\ head[b] \in Entries
      BY <1>3, <1>4 DEF SearchTypes, Entries
    <2>2. name' \in [NameRecord -> Name] /\ next' \in [NameRecord -> Entries]
          /\ head' \in [NameBin -> Entries] /\ recs' \subseteq NameRecord
      BY <1>2, <1>4, <2>1 DEF SearchTypes
    <2> QED BY <1>1, <1>4, <2>2 DEF SearchTypes
  <1>7. \A q \in recs : q # r /\ q \in NameRecord /\ name'[q] = name[q] /\ next'[q] = next[q] /\ q < r
    BY <1>2, <1>4 DEF SearchTypes, Chains
  <1>8. name'[r] = n /\ next'[r] = head[b] /\ head'[b] = r
    BY <1>2, <1>3, <1>4 DEF SearchTypes
  <1>9. \A c \in NameBin : c # b => head'[c] = head[c]
    BY <1>2, <1>4 DEF SearchTypes
  <1>10. (\A q \in recs : Bin[name'[q]] = BinOf(q)) /\ Bin[name'[r]] = b
    BY <1>7, <1>8 DEF BinOf, b
  <1>11. head[b] \in recs \cup {0} /\ (head[b] # 0 => BinOf(head[b]) = b)
    BY <1>3, <1>4 DEF Chains
  <1>12. \A q \in recs : BinOf(q) \in NameBin
    <2>1. \A q \in recs : name[q] \in Name
      BY <1>4 DEF SearchTypes
    <2>2. \A m \in Name : Bin[m] \in 1 - TableSize .. TableSize - 1
      BY DEF NameSearchAssumption
    <2> QED BY <2>1, <2>2 DEF BinOf, NameBin
  <1>13. Chains'
    <2>1. ASSUME NEW x \in recs', NEW q \in NameRecord \ recs' PROVE x < q
      BY <1>2, <1>4, <1>5, <2>1 DEF Chains
    <2>2. ASSUME NEW q \in recs'
          PROVE  /\ next'[q] \in recs' \cup {0} /\ next'[q] < q
                 /\ next'[q] # 0 => Bin[name'[next'[q]]] = Bin[name'[q]]
                 /\ \A x \in recs' : x < q /\ Bin[name'[x]] = Bin[name'[q]] => x <= next'[q]
      <3>1. CASE q = r
        <4>1. next'[q] = head[b] /\ next'[q] \in recs' \cup {0}
          BY <1>2, <1>8, <1>11, <3>1
        <4>2. next'[q] < q
          BY <1>5, <1>7, <1>11, <3>1, <4>1
        <4>3. next'[q] # 0 => Bin[name'[next'[q]]] = Bin[name'[q]]
          <5>1. ASSUME head[b] # 0 PROVE Bin[name'[head[b]]] = b
            BY <1>10, <1>11, <5>1
          <5> QED BY <1>10, <3>1, <4>1, <5>1
        <4>4. ASSUME NEW x \in recs', x < q, Bin[name'[x]] = Bin[name'[q]] PROVE x <= next'[q]
          <5>1. x \in recs
            BY <1>2, <1>5, <3>1, <4>4
          <5>2. BinOf(x) = b
            BY <1>10, <3>1, <4>4, <5>1
          <5> QED BY <1>4, <4>1, <5>1, <5>2 DEF Chains
        <4> QED BY <4>1, <4>2, <4>3, <4>4
      <3>2. CASE q # r
        <4>1. q \in recs /\ next'[q] = next[q] /\ Bin[name'[q]] = BinOf(q)
          BY <1>2, <1>7, <1>10, <3>2
        <4>2. next[q] \in recs \cup {0} /\ next[q] < q /\ (next[q] # 0 => BinOf(next[q]) = BinOf(q))
          BY <1>4, <4>1 DEF Chains
        <4>3. next'[q] # 0 => Bin[name'[next'[q]]] = Bin[name'[q]]
          <5>1. next[q] # 0 => Bin[name'[next[q]]] = BinOf(next[q])
            BY <1>10, <4>2
          <5> QED BY <4>1, <4>2, <5>1
        <4>4. ASSUME NEW x \in recs', x < q, Bin[name'[x]] = Bin[name'[q]] PROVE x <= next'[q]
          <5>1. x \in recs
            BY <1>2, <1>5, <1>7, <4>1, <4>4
          <5> QED BY <1>4, <1>10, <4>1, <4>4, <5>1 DEF Chains
        <4> QED BY <1>2, <4>1, <4>2, <4>3, <4>4
      <3> QED BY <3>1, <3>2
    <2>3. ASSUME NEW c \in NameBin
          PROVE  head'[c] \in recs' \cup {0} /\ (head'[c] # 0 => Bin[name'[head'[c]]] = c)
      <3>1. CASE c = b
        <4>1. head'[c] = r
          BY <1>8, <3>1
        <4> QED BY <1>2, <1>10, <3>1, <4>1
      <3>2. CASE c # b
        <4>1. head'[c] = head[c] /\ head[c] \in recs \cup {0} /\ (head[c] # 0 => BinOf(head[c]) = c)
          BY <1>4, <1>9, <3>2 DEF Chains
        <4>2. head[c] # 0 => Bin[name'[head[c]]] = BinOf(head[c])
          BY <1>10, <4>1
        <4> QED BY <1>2, <4>1, <4>2
      <3> QED BY <3>1, <3>2
    <2>4. ASSUME NEW x \in recs' PROVE x <= head'[Bin[name'[x]]]
      <3>1. CASE x = r
        BY <1>5, <1>8, <1>10, <3>1
      <3>2. CASE x # r
        <4>1. x \in recs /\ Bin[name'[x]] = BinOf(x) /\ x < r /\ x \in Int /\ r \in Int
          BY <1>2, <1>5, <1>7, <1>10, <3>2
        <4>2. BinOf(x) = b => x <= head'[BinOf(x)]
          BY <1>8, <4>1
        <4>3. BinOf(x) # b => x <= head'[BinOf(x)]
          BY <1>4, <1>9, <1>12, <4>1 DEF Chains
        <4> QED BY <4>1, <4>2, <4>3
      <3> QED BY <3>1, <3>2
    <2> QED BY <2>1, <2>2, <2>3, <2>4 DEF Chains, BinOf
  <1>14. ASSUME NEW s \in Searcher PROVE Placed(s)' /\ Paged(s)' /\ Kept(s)'
    <2>1. Placed(s) /\ Paged(s) /\ Kept(s)
      BY DEF SearchesOK
    <2>2. \A q \in recs : q # 0
      BY SearchFacts
    <2>3. \A q \in recs \cup {0} : Passed(s, q)' <=> Passed(s, q)
      BY <1>1, <1>10, <2>2 DEF Passed, BinOf
    <2>4. Placed(s)'
      <3>1. spot[s] # 0 => Bin[name'[spot[s]]] = BinOf(spot[s]) /\ name'[spot[s]] = name[spot[s]]
        BY <1>7, <1>10, <2>1 DEF Placed
      <3> QED BY <1>1, <1>2, <2>1, <3>1 DEF Placed, BinOf
    <2>5. Total(name', page'[s]) = Total(name, page[s])
      <3>1. name \in [NameRecord -> Name] /\ name' \in [NameRecord -> Name] /\ page[s] \in SUBSET Entries
        BY <1>4, <1>6 DEF SearchTypes
      <3>2. \A q \in page[s] : q # 0 => name[q] = name'[q]
        BY <1>7, <2>1 DEF Paged
      <3>3. Total(name, page[s]) = Total(name', page[s])
        BY <3>1, <3>2, SameTotal
      <3> QED BY <1>1, <3>3
    <2>6. Paged(s)'
      <3>1. ASSUME NEW q \in page[s] \cup listed[s], q # 0
            PROVE  name'[q] \in Matching /\ Bin[name'[q]] >= 1
        BY <1>7, <1>10, <2>1, <3>1 DEF Paged
      <3> QED BY <1>1, <1>2, <2>1, <2>3, <2>5, <3>1 DEF Paged, BinOf
    <2>7. Loses(s)' <=> Loses(s)
      BY <1>1 DEF Loses
    <2>8. Kept(s)'
      BY <1>1, <1>2, <1>7, <1>10, <2>1, <2>3, <2>7 DEF Kept, BinOf
    <2> QED BY <2>4, <2>6, <2>8
  <1> QED BY <1>6, <1>13, <1>14 DEF SearchesOK

LEMMA SearchesInit == NameSearchAssumption /\ SearchInit => SearchesOK
  <1> SUFFICES ASSUME NameSearchAssumption, SearchInit PROVE SearchesOK
    OBVIOUS
  <1>1. (CHOOSE n \in Name : TRUE) \in Name
    BY DEF NameSearchAssumption
  <1>2. TableSize \in Nat /\ TableSize > 2 /\ MaxRet \in Nat
    BY DEF NameSearchAssumption
  <1>3. SearchTypes
    <2>1. 0 \in -1 .. TableSize - 1
      BY <1>2
    <2> QED BY <1>1, <2>1 DEF SearchInit, SearchTypes, Labels, Entries, NoSearcher
  <1>4. Chains
    BY DEF SearchInit, Chains
  <1>5. Summed(name, {})
    BY <1>3, AllSummed DEF SearchTypes
  <1>6. ASSUME NEW s \in Searcher PROVE Placed(s) /\ Paged(s) /\ Kept(s)
    <2>1. /\ at[s] = "start" /\ bin[s] = 0 /\ spot[s] = 0 /\ page[s] = {} /\ ~blank[s] /\ listed[s] = {}
          /\ before[s] = {} /\ went[s] = {} /\ recs = {}
      BY DEF SearchInit
    <2>2. Total(name, page[s]) <= MaxRet
      BY <1>2, <1>5, <2>1 DEF Summed
    <2> QED BY <2>1, <2>2 DEF Placed, Paged, Kept, Loses
  <1> QED BY <1>3, <1>4, <1>6 DEF SearchesOK

LEMMA SearchesStep == NameSearchAssumption /\ SearchesOK /\ [SearchNext]_searchVars => SearchesOK'
  <1> SUFFICES ASSUME NameSearchAssumption, SearchesOK, [SearchNext]_searchVars PROVE SearchesOK'
    OBVIOUS
  <1>1. ASSUME NEW t \in Searcher, Search(t) PROVE SearchesOK'
    <2>1. SearchTypes' /\ Placed(t)' /\ Paged(t)' /\ Kept(t)'
      BY <1>1, StartSound, BeginSound, KeySound, PackSound, JunkKeySound, FollowSound, HeadSound, EndSound
         DEF Search
    <2>2. SameTable
      BY <1>1 DEF Search, Start, Begin, Look, Pack, JunkKey,
                  Follow, NextBin, End, table, SameTable
    <2>3. Chains'
      BY <2>2 DEF SearchesOK, Chains, SameTable, BinOf
    <2>4. ASSUME NEW s \in Searcher, s # t PROVE Placed(s)' /\ Paged(s)' /\ Kept(s)'
      BY <1>1, <2>4, OthersStill, StillSound DEF SearchesOK
    <2> QED BY <2>1, <2>3, <2>4 DEF SearchesOK
  <1>2. ASSUME NEW n \in Name, PutName(n) PROVE SearchesOK'
    BY <1>2, PutSound
  <1>3. CASE UNCHANGED searchVars
    <2>1. SameTable /\ mode' = mode /\ serving' = serving /\ \A s \in Searcher : Still(s)
      BY <1>3 DEF searchVars, table, SameTable, Still
    <2>2. SearchTypes'
      BY <1>3 DEF SearchesOK, SearchTypes, searchVars, table
    <2>3. Chains'
      BY <2>1 DEF SearchesOK, Chains, SameTable, BinOf
    <2> QED BY <2>1, <2>2, <2>3, StillSound DEF SearchesOK
  <1> QED BY <1>1, <1>2, <1>3 DEF SearchNext

LEMMA SearchesAlways == SearchSpec => []SearchesOK
  <1>1. SearchInit => SearchesOK
    BY NameSearchAssumption, SearchesInit
  <1>2. SearchesOK /\ [SearchNext]_searchVars => SearchesOK'
    BY NameSearchAssumption, SearchesStep
  <1> QED BY <1>1, <1>2, PTL DEF SearchSpec

(* No page outgrows its response, no entry is listed twice, and nothing but    *)
(* the nameless entry is listed that does not match: for any table, any names  *)
(* and any number of searches.                                                 *)
THEOREM SearchListsOnce == SearchSpec => []ListedOnce
  <1>1. SearchesOK => ListedOnce
    <2> SUFFICES ASSUME SearchesOK PROVE ListedOnce
      OBVIOUS
    <2>1. SearchTypeOK
      <3>1. \A s \in Searcher : page[s] \subseteq recs \cup {0} /\ Total(name, page[s]) <= MaxRet
        BY DEF SearchesOK, Paged
      <3>2. \A s \in Searcher : page[s] \subseteq recs \cup {Nameless} /\ Taken(s) <= MaxRet
        BY <3>1, TakenIs DEF Nameless
      <3> QED BY <3>2 DEF SearchesOK, SearchTypes, SearchTypeOK, Entries, EOF, NoSearcher
    <2> QED BY <2>1 DEF SearchesOK, Paged, ListedOnce, Nameless
  <1> QED BY <1>1, SearchesAlways, PTL

(* A search that ends has listed every name that matches and was there when it *)
(* began, of the bins a page visits, unless it lost its pattern or met junk.   *)
THEOREM SearchListsAll == SearchSpec => []ListedAll
  <1>1. SearchesOK => ListedAll
    <2> SUFFICES ASSUME SearchesOK, NEW s \in Searcher,
                        at[s] = "done", "junk" \notin went[s],
                        mode[s] = "active" \/ "full" \notin went[s],
                        NEW r \in before[s], name[r] \in Matching, Bin[name[r]] >= 1
                 PROVE  r \in listed[s]
      BY DEF ListedAll
    <2>1. Placed(s) /\ Kept(s) /\ ~Loses(s)
      BY DEF SearchesOK, Loses
    <2>2. bin[s] = -1 /\ page[s] = {}
      BY <2>1 DEF Placed, Kept
    <2>3. r # 0
      BY <2>1, NameSearchAssumption, SearchFacts DEF Kept
    <2>4. Passed(s, r)
      BY <2>2, <2>3 DEF Passed
    <2> QED BY <2>1, <2>2, <2>4 DEF Kept, BinOf
  <1> QED BY <1>1, SearchesAlways, PTL
-------------------------------------------------------------------------------
(* The table's remote clients over the UDP exchange (DHTOverUDP).              *)

(* The exchange's results and memory are those of the program.                 *)
LEMMA SameMemory == Net!Result = Result /\ Net!Cells = Cells /\ Net!TimedOut = Failed("TIME_OUT")
  BY DEF Result, Net!Result, ErrorCode, Net!ErrorCode, Cells, Net!Cells, Net!TimedOut, Net!Failed,
         Failed

-------------------------------------------------------------------------------
(* What happens to the network and the memory, action by action.               *)
Sending(c) == call[c].sent > 0
Idle       == [op |-> <<>>, port |-> <<>>, sent |-> 0]

LEMMA IssueStep ==
  ASSUME NEW c, Issue(c)
  PROVE  \E p \in Port :
           /\ Waiting(c) /\ ~Sending(c)
           /\ FreshPorts => \A q \in requests : ~(q.client = c /\ q.port = p)
           /\ call' = [call EXCEPT ![c] = [op |-> OpOf(c), port |-> p, sent |-> 1]]
           /\ requests' = requests \cup {[client |-> c, port |-> p, op |-> OpOf(c), copy |-> 1]}
           /\ UNCHANGED <<mem, replies, timeouts, programVars, offered>>
  BY DEF Issue, Net!Request, Net!Open, Sending, programVars

LEMMA ServeStep ==
  ASSUME ServeOne
  PROVE  \E q \in requests :
           /\ requests' = requests \ {q} /\ mem' = Effect(q.op, mem)
           /\ replies' = IF Sending(q.client) /\ call[q.client].port = q.port
                         THEN replies \cup {[client |-> q.client, port |-> q.port, res |-> Outcome(q.op, mem)]}
                         ELSE replies
           /\ UNCHANGED <<call, timeouts, programVars, offered>>
  BY SameMemory
  DEF ServeOne, Net!Serve, Net!Bound, Net!Open, Sending, programVars

LEMMA ReceiveStep ==
  ASSUME NEW c, Receive(c)
  PROVE  \E r \in replies :
           /\ r.client = c /\ Sending(c) /\ Continue(c, r.res)
           /\ call' = [call EXCEPT ![c] = Idle] /\ replies' = {x \in replies : x.client # c}
           /\ UNCHANGED <<mem, requests, timeouts, offered>>
  BY DEF Receive, Net!Answer, Net!Return, Net!Open, Net!NoCall, Sending, Idle

LEMMA RetryStep ==
  ASSUME NEW c, Retry(c)
  PROVE  /\ Sending(c) /\ timeouts < MaxTimeouts /\ call[c].sent < Tries /\ timeouts' = timeouts + 1
         /\ call' = [call EXCEPT ![c].sent = call[c].sent + 1]
         /\ requests' = requests \cup {[client |-> c, port |-> call[c].port, op |-> call[c].op,
                                       copy |-> call[c].sent + 1]}
         /\ UNCHANGED <<mem, replies, programVars, offered>>
  BY DEF Retry, Net!Resend, Net!Late, Net!Open, Net!Packet, Sending, programVars

LEMMA AbandonStep ==
  ASSUME NEW c, Abandon(c)
  PROVE  /\ Sending(c) /\ timeouts < MaxTimeouts /\ timeouts' = timeouts + 1
         /\ Continue(c, Failed("TIME_OUT"))
         /\ call' = [call EXCEPT ![c] = Idle] /\ replies' = {x \in replies : x.client # c}
         /\ requests' = requests \cup {[client |-> c, port |-> call[c].port, op |-> call[c].op,
                                       copy |-> Tries + 1]}
         /\ UNCHANGED <<mem, offered>>
  BY SameMemory
  DEF Abandon, Net!GiveUp, Net!Late, Net!Open, Net!Packet, Net!Return,
      Net!NoCall, Sending, Idle

LEMMA DropStep ==
  ASSUME Drop
  PROVE  /\ requests' \subseteq requests /\ replies' \subseteq replies
         /\ UNCHANGED <<mem, call, timeouts, programVars, offered>>
  BY DEF Drop, Net!Lose, Net!LoseRequest, Net!LoseReply, programVars

LEMMA InvokeStep ==
  ASSUME NEW c, UDPInvoke(c)
  PROVE  /\ pc[c] = "ready" /\ jobs[c] < MaxJobs /\ jobs' = [jobs EXCEPT ![c] = jobs[c] + 1]
         /\ UNCHANGED <<ptr, old, i, result, mem, call, requests, replies, timeouts>>
         /\ \E j \in Jobs :
              /\ job' = [job EXCEPT ![c] = j]
              /\ pc' = [pc EXCEPT ![c] = IF c \in Active THEN "queued" ELSE
                                         IF j.kind = "put" THEN "allocRead" ELSE "findHead"]
              /\ offered' = IF job'[c].kind = "put" THEN offered \cup {<<job'[c].key, job'[c].val>>} ELSE offered
  BY DEF UDPInvoke, Call, Goto, FirstLabel, netVars

LEMMA LeaveStep ==
  ASSUME NEW c, UDPLeave(c)
  PROVE  /\ pc[c] = "return" /\ pc' = [pc EXCEPT ![c] = "ready"] /\ job' = [job EXCEPT ![c] = NoJob]
         /\ UNCHANGED <<ptr, old, i, result, jobs, mem, call, requests, replies, timeouts, offered>>
  BY DEF UDPLeave, Return, Goto, netVars, NoJob

(* Continue moves its thread only.                                             *)
LEMMA ContinueFrame ==
  ASSUME ProgramTypeOK, NEW c \in Client, NEW res, Continue(c, res)
  PROVE  Frame(c) /\ job' = job /\ jobs' = jobs
  <1> DEFINE Moves == /\ \E l : Goto(c, l)
                      /\ ptr' = ptr \/ \E v : ptr' = [ptr EXCEPT ![c] = v]
                      /\ old' = old \/ \E v : old' = [old EXCEPT ![c] = v]
                      /\ i' = i \/ \E v : i' = [i EXCEPT ![c] = v]
                      /\ result' = result \/ \E v : result' = [result EXCEPT ![c] = v]
  <1>1. job' = job /\ jobs' = jobs
    BY DEF Continue
  <1> USE DEF Keep, Returns, Constructed
  <1>2. ASSUME AfterCheck(c, res) \/ AfterInit(c) PROVE Moves
    BY <1>2, Zenon DEF AfterCheck, AfterInit
  <1>3. ASSUME AfterAlloc(c, res) \/ AfterFill(c) PROVE Moves
    BY <1>3, Zenon DEF AfterAlloc, AfterFill
  <1>4. ASSUME AfterLink(c, res) PROVE Moves
    BY <1>4, Zenon DEF AfterLink
  <1>5. ASSUME AfterFind(c, res) PROVE Moves
    BY <1>5, Zenon DEF AfterFind, Candidate, Found
  <1>6. ASSUME /\ IF job[c] = NoJob THEN Goto(c, "out") /\ UNCHANGED result
                                  ELSE Returns(c, Exception)
               /\ UNCHANGED <<ptr, old, i>>
        PROVE  Moves
    BY <1>6, Zenon
  <1>7. Moves
    BY <1>2, <1>3, <1>4, <1>5, <1>6 DEF Continue
  <1>8. PICK l : pc' = [pc EXCEPT ![c] = l]
    BY <1>7 DEF Goto
  <1>9. pc' = [d \in Client |-> pc'[d]] /\ \A d \in Client \ {c} : pc'[d] = pc[d]
    BY <1>8 DEF ProgramTypeOK
  <1>10. ptr' = [d \in Client |-> ptr'[d]] /\ \A d \in Client \ {c} : ptr'[d] = ptr[d]
    BY <1>7 DEF ProgramTypeOK
  <1>11. old' = [d \in Client |-> old'[d]] /\ \A d \in Client \ {c} : old'[d] = old[d]
    BY <1>7 DEF ProgramTypeOK
  <1>12. i' = [d \in Client |-> i'[d]] /\ \A d \in Client \ {c} : i'[d] = i[d]
    BY <1>7 DEF ProgramTypeOK
  <1>13. result' = [d \in Client |-> result'[d]] /\ \A d \in Client \ {c} : result'[d] = result[d]
    BY <1>7 DEF ProgramTypeOK
  <1>14. job' = [d \in Client |-> job'[d]]
    BY <1>1 DEF ProgramTypeOK
  <1> QED BY <1>1, <1>9, <1>10, <1>11, <1>12, <1>13, <1>14 DEF Frame, Others

-------------------------------------------------------------------------------
(* The inductive invariant.  S is the set of records that a bin, a link or a   *)
(* thread can lead to.  Copies of a write may be served when its put is long   *)
(* over, so that what is said of memory is said of them too.                   *)
FarOps == [kind : {"READ"}, addr : Nat, len : Nat]
            \cup [kind : {"WRITE"}, addr : Nat, values : Seq(Nat)]
            \cup [kind : {"CAS"}, addr : Nat, test : Nat, value : Nat]

FarTypes ==
  /\ mem \in [Cells -> Nat]
  /\ call \in [Client -> {Idle} \cup [op : FarOps, port : Port, sent : 1 .. Tries]]
  /\ requests \subseteq [client : Client, port : Port, op : FarOps, copy : 1 .. Tries + 1]
  /\ replies \subseteq [client : Client, port : Port, res : Result]
  /\ timeouts \in 0 .. MaxTimeouts /\ ProgramTypeOK
  /\ \A kv \in offered : kv[1] \in Key /\ kv[2] \in Nat

(* A packet that its socket would take the answer of is of the call that waits *)
(* there.                                                                      *)
Exchanges ==
  /\ \A q \in requests : Sending(q.client) /\ call[q.client].port = q.port => call[q.client].op = q.op
  /\ \A c \in Client : Sending(c) => Waiting(c) /\ call[c].op = OpOf(c)
  /\ \A r \in replies : Sending(r.client)

(* The operations that may still be served.                                    *)
Due == {q.op : q \in requests} \cup {call[c].op : c \in {d \in Client : Sending(d)}}

Stores(op, a) == op.kind = "WRITE" /\ op.addr <= a /\ a < op.addr + Len(op.values)
Stored(op, a) == op.values[a - op.addr + 1]

(* The words given out so far, and those of the block of a put.                *)
Given(a)      == TableEnd <= a /\ a < mem[0]
InBlock(c, a) == ptr[c] <= a /\ a < ptr[c] + recLen(job[c].key)
Word(c, a)    == IF a = ptr[c] + 1 THEN job[c].val
                 ELSE IF a = ptr[c] + 2 THEN KeyLen[job[c].key]
                 ELSE KeyWords[job[c].key][a - ptr[c] - 2]

(* A put has a block, from when the answer to its CAS is on its way.           *)
Owns(c) == Filling(c) \/ (pc[c] = "allocCas" /\ \E r \in replies : r.client = c /\ r.res = Ok(<<1>>))

(* Word a will hold v for ever.                                                *)
Fixed(a, v) ==
  /\ Given(a) /\ a < MemSize /\ mem[a] = v
  /\ \A op \in Due : Stores(op, a) => Stored(op, a) = v
  /\ \A c \in Client : Owns(c) /\ InBlock(c, a) => a # ptr[c] /\ Word(c, a) = v

(* Word x will always lead to a record, or nowhere.                            *)
Linking(S, x) ==
  /\ Given(x) /\ x < MemSize /\ mem[x] \in S \cup {0}
  /\ \A op \in Due : Stores(op, x) => Stored(op, x) \in S \cup {0}
  /\ \A c \in Client : Owns(c) /\ InBlock(c, x) => x = ptr[c]

Holds(x, k, v) == /\ Fixed(x + 1, v) /\ Fixed(x + 2, KeyLen[k])
                  /\ \A w \in 1 .. Len(KeyWords[k]) : Fixed(x + 2 + w, KeyWords[k][w])

Chained(S) == \A x \in S : Linking(S, x) /\ \E kv \in offered : Holds(x, kv[1], kv[2])

(* Nobody else writes the block of a put, and late copies of its own writes    *)
(* write what it has written.                                                  *)
Mine(S, c) ==
  \A a \in Nat : InBlock(c, a) =>
    /\ Given(a)
    /\ \A op \in Due : Stores(op, a) => IF a = ptr[c] THEN Stored(op, a) \in S \cup {0}
                                        ELSE Stored(op, a) = Word(c, a)
    /\ \A d \in Client \ {c} : ~(Owns(d) /\ InBlock(d, a))

DueOK(S) ==
  \A op \in Due :
    /\ op.kind = "WRITE" => TableEnd <= op.addr /\ op.addr + Len(op.values) <= mem[0]
    /\ op.kind = "CAS" => \/ op.addr = 0 /\ TableEnd <= op.test /\ op.test <= op.value
                          \/ 1 <= op.addr /\ op.addr < TableEnd /\ op.value \in S

Heads(S) == /\ mem[0] >= TableEnd
            /\ \A b \in 1 .. TableEnd - 1 : b < MemSize => mem[b] \in S \cup {0}

Common(S) == /\ Heads(S) /\ DueOK(S) /\ Chained(S)
             /\ \A c \in Client : Owns(c) => Mine(S, c)

(* Where a thread is.                                                          *)
Thread(S, c) ==
  /\ pc[c] \notin {"check", "initCounter", "initBin"}
  /\ pc[c] \in PutLabels => /\ job[c] \in Jobs /\ job[c].kind = "put"
                            /\ <<job[c].key, job[c].val>> \in offered
  /\ pc[c] \in FindLabels => job[c] \in Jobs /\ job[c].kind \in {"get", "has"}
  /\ pc[c] = "allocCas" => ptr[c] >= TableEnd
  /\ pc[c] \in {"writeVal", "writeLen", "writeKey"} => ptr[c] < MemSize /\ mem[ptr[c]] \in S \cup {0}
  /\ pc[c] \in {"writeLen", "writeKey"} => ptr[c] + 1 < MemSize /\ mem[ptr[c] + 1] = job[c].val
  /\ pc[c] = "writeKey" => ptr[c] + 2 < MemSize /\ mem[ptr[c] + 2] = KeyLen[job[c].key]
  /\ pc[c] \in {"readHead", "link", "publish"} => ptr[c] \in S
  /\ pc[c] \in {"link", "publish"} => old[c] \in S \cup {0}
  /\ pc[c] \in {"cmpLen", "cmpKey", "findNext", "readVal"} => ptr[c] \in S
  /\ pc[c] = "cmpKey" => mem[ptr[c] + 2] = KeyLen[job[c].key]
  /\ pc[c] = "readVal" => /\ job[c].kind = "get"
                          /\ \E kv \in offered : kv[1] = job[c].key /\ mem[ptr[c] + 1] = kv[2]
  /\ pc[c] = "return" /\ job[c].kind \in {"get", "has"} /\ result[c] \in Nat \ {0} =>
       \E kv \in offered : kv[1] = job[c].key /\ (job[c].kind = "get" => kv[2] = result[c])

(* What an answer that is OK tells the thread that waits for it.               *)
Answered(S, c, res) ==
  res.error = "OK" =>
    /\ pc[c] = "allocRead" => res.result[1] \in Nat /\ res.result[1] >= TableEnd
    /\ pc[c] = "allocCas" => res.result[1] = 0 \/ res = Ok(<<1>>)
    /\ pc[c] = "writeNext" => ptr[c] < MemSize /\ mem[ptr[c]] \in S \cup {0}
    /\ pc[c] = "writeVal" => ptr[c] + 1 < MemSize /\ mem[ptr[c] + 1] = job[c].val
    /\ pc[c] = "writeLen" => ptr[c] + 2 < MemSize /\ mem[ptr[c] + 2] = KeyLen[job[c].key]
    /\ pc[c] = "writeKey" =>
         \A w \in 1 .. Len(KeyWords[job[c].key]) :
           ptr[c] + 2 + w < MemSize /\ mem[ptr[c] + 2 + w] = KeyWords[job[c].key][w]
    /\ pc[c] \in {"readHead", "findHead", "findNext"} => res.result[1] \in S \cup {0}
    /\ pc[c] = "cmpLen" => res.result[1] = mem[ptr[c] + 2]
    /\ pc[c] = "cmpKey" => res.result = [w \in 1 .. Len(KeyWords[job[c].key]) |-> mem[ptr[c] + 2 + w]]
    /\ pc[c] = "readVal" => res.result[1] = mem[ptr[c] + 1]

Told(S) == \A c \in Client : \A r \in replies : r.client = c => Answered(S, c, r.res)

FarIInv(S) == /\ FarTypes /\ Exchanges /\ S \subseteq Nat /\ Common(S)
              /\ (\A c \in Client : Thread(S, c)) /\ Told(S)

-------------------------------------------------------------------------------
(* Where the bins and the counter are, however small memory is.                *)
LEMMA FarLayout ==
  /\ TableEnd \in Nat /\ TableEnd >= 2 /\ 0 \in Cells /\ MemSize \in Nat
  /\ \A a : a \in Cells <=> a \in Nat /\ a < MemSize
  /\ \A k \in Key : /\ hashPtr(k) \in Nat /\ 1 <= hashPtr(k) /\ hashPtr(k) < TableEnd
                    /\ KeyLen[k] \in Nat /\ KeyWords[k] \in Seq(Nat)
                    /\ Len(KeyWords[k]) \in Nat /\ recLen(k) = 3 + Len(KeyWords[k])
                    /\ \A w \in 1 .. Len(KeyWords[k]) : KeyWords[k][w] \in Nat
  <1>1. TableEnd \in Nat /\ TableEnd >= 2 /\ 0 \in Cells /\ MemSize \in Nat
    BY DHTAssumption, MemSizeAssumption DEF TableEnd, Cells
  <1>2. \A a : a \in Cells <=> a \in Nat /\ a < MemSize
    BY MemSizeAssumption DEF Cells
  <1>3. ASSUME NEW k \in Key
        PROVE  /\ hashPtr(k) \in Nat /\ 1 <= hashPtr(k) /\ hashPtr(k) < TableEnd
               /\ KeyLen[k] \in Nat /\ KeyWords[k] \in Seq(Nat)
               /\ Len(KeyWords[k]) \in Nat /\ recLen(k) = 3 + Len(KeyWords[k])
               /\ \A w \in 1 .. Len(KeyWords[k]) : KeyWords[k][w] \in Nat
    <2>1. N \in Nat /\ Hash[k] \in -(N - 1) .. N - 1 /\ KeyLen[k] \in Nat /\ KeyWords[k] \in Seq(Nat)
      BY DHTAssumption
    <2>2. hashPtr(k) \in Nat /\ 1 <= hashPtr(k) /\ hashPtr(k) < TableEnd
      BY <1>1, <2>1 DEF hashPtr, TableEnd
    <2>3. \A w \in 1 .. Len(KeyWords[k]) : KeyWords[k][w] \in Nat
      BY <2>1
    <2> QED BY <2>1, <2>2, <2>3 DEF recLen
  <1> QED BY <1>1, <1>2, <1>3

(* The types of the variables.                                                 *)
LEMMA FarVars ==
  ASSUME FarTypes
  PROVE  /\ pc \in [Client -> Label] /\ job \in [Client -> Jobs \cup {NoJob}]
         /\ ptr \in [Client -> Nat] /\ old \in [Client -> Nat] /\ i \in [Client -> 0 .. N]
         /\ result \in [Client -> Nat \cup {Exception}] /\ jobs \in [Client -> 0 .. MaxJobs]
         /\ mem \in [Cells -> Nat] /\ mem[0] \in Nat /\ ProgramTypeOK
  BY FarLayout DEF FarTypes, ProgramTypeOK

(* What a put and a search have at hand.                                       *)
LEMMA FarPut ==
  ASSUME FarTypes, NEW S, NEW c \in Client, Thread(S, c), pc[c] \in PutLabels
  PROVE  /\ job[c] \in Jobs /\ job[c] # NoJob /\ job[c].key \in Key /\ job[c].val \in Nat
         /\ ptr[c] \in Nat /\ old[c] \in Nat /\ job[c].kind = "put"
         /\ <<job[c].key, job[c].val>> \in offered
  BY FarVars, JobTypes DEF Thread

LEMMA FarFind ==
  ASSUME FarTypes, NEW S, NEW c \in Client, Thread(S, c), pc[c] \in FindLabels
  PROVE  /\ job[c] \in Jobs /\ job[c] # NoJob /\ job[c].key \in Key
         /\ ptr[c] \in Nat /\ job[c].kind \in {"get", "has"}
  BY FarVars, JobTypes DEF Thread

-------------------------------------------------------------------------------
(* Memory stays, and nothing new is due.                                       *)
LEMMA QuietCommon ==
  ASSUME NEW S, FarTypes, Common(S), mem' = mem, Due' \subseteq Due, offered \subseteq offered',
         \A c \in Client : Owns(c)' => Owns(c) /\ ptr'[c] = ptr[c] /\ job'[c] = job[c]
  PROVE  Common(S)'
  <1>1. \A a : Given(a)' <=> Given(a)
    BY DEF Given
  <1>2. \A c \in Client : Owns(c)' => \A a : /\ InBlock(c, a)' <=> InBlock(c, a)
                                             /\ Word(c, a)' = Word(c, a)
    BY DEF InBlock, Word
  <1>3. ASSUME NEW a, NEW v, Fixed(a, v) PROVE Fixed(a, v)'
    BY <1>1, <1>2, <1>3 DEF Fixed
  <1>4. ASSUME NEW x, Linking(S, x) PROVE Linking(S, x)'
    BY <1>1, <1>2, <1>4 DEF Linking
  <1>5. ASSUME NEW x, NEW k, NEW v, Holds(x, k, v) PROVE Holds(x, k, v)'
    BY <1>3, <1>5 DEF Holds
  <1>6. Chained(S)'
    BY <1>4, <1>5 DEF Common, Chained
  <1>7. ASSUME NEW c \in Client, Owns(c)' PROVE Mine(S, c)'
    <2>1. Mine(S, c) /\ ptr'[c] = ptr[c]
      BY <1>7 DEF Common
    <2> QED BY <1>1, <1>2, <1>7, <2>1 DEF Mine
  <1>8. Heads(S)' /\ DueOK(S)'
    BY DEF Common, Heads, DueOK
  <1> QED BY <1>6, <1>7, <1>8 DEF Common

-------------------------------------------------------------------------------
(* Serving a packet.                                                           *)

(* A record keeps its words.                                                   *)
Steady(S) ==
  \A x \in S : /\ mem'[x + 1] = mem[x + 1] /\ mem'[x + 2] = mem[x + 2]
               /\ \A k \in Key : mem[x + 2] = KeyLen[k] =>
                    \A w \in 1 .. Len(KeyWords[k]) : mem'[x + 2 + w] = mem[x + 2 + w]

(* A put keeps what it has written.                                            *)
Building(S, c) ==
  Filling(c) =>
    /\ ptr[c] < MemSize /\ mem[ptr[c]] \in S \cup {0} => mem'[ptr[c]] \in S \cup {0}
    /\ ptr[c] + 1 < MemSize /\ mem[ptr[c] + 1] = job[c].val => mem'[ptr[c] + 1] = job[c].val
    /\ ptr[c] + 2 < MemSize /\ mem[ptr[c] + 2] = KeyLen[job[c].key] =>
         mem'[ptr[c] + 2] = KeyLen[job[c].key]
    /\ \A w \in 1 .. Len(KeyWords[job[c].key]) :
         ptr[c] + 2 + w < MemSize /\ mem[ptr[c] + 2 + w] = KeyWords[job[c].key][w] =>
           mem'[ptr[c] + 2 + w] = KeyWords[job[c].key][w]

Asleep(c) == /\ pc'[c] = pc[c] /\ job'[c] = job[c] /\ ptr'[c] = ptr[c]
             /\ old'[c] = old[c] /\ result'[c] = result[c]

(* What a thread knows stays true while others write.                          *)
LEMMA ThreadStays ==
  ASSUME NEW S, NEW c \in Client, Thread(S, c), Asleep(c), offered \subseteq offered',
         Steady(S), Building(S, c)
  PROVE  Thread(S, c)'
  <1>1. pc[c] \in {"writeVal", "writeLen", "writeKey", "readHead", "link", "publish"} => Filling(c)
    BY DEF Filling, FillLabels
  <1>2. pc[c] \in {"writeVal", "writeLen", "writeKey"} => ptr[c] < MemSize /\ mem'[ptr[c]] \in S \cup {0}
    BY <1>1 DEF Thread, Building
  <1>3. pc[c] \in {"writeLen", "writeKey"} => ptr[c] + 1 < MemSize /\ mem'[ptr[c] + 1] = job[c].val
    BY <1>1 DEF Thread, Building
  <1>4. pc[c] = "writeKey" => ptr[c] + 2 < MemSize /\ mem'[ptr[c] + 2] = KeyLen[job[c].key]
    BY <1>1 DEF Thread, Building
  <1>5. pc[c] \in {"cmpKey", "readVal"} =>
          mem'[ptr[c] + 1] = mem[ptr[c] + 1] /\ mem'[ptr[c] + 2] = mem[ptr[c] + 2]
    BY DEF Thread, Steady
  <1> QED BY <1>2, <1>3, <1>4, <1>5 DEF Thread, Asleep

(* So does what an answer on its way tells.                                    *)
LEMMA AnswerStays ==
  ASSUME NEW S, NEW c \in Client, NEW res, Answered(S, c, res), Thread(S, c), FarTypes, Asleep(c),
         Steady(S), Building(S, c)
  PROVE  Answered(S, c, res)'
  <1> SUFFICES ASSUME res.error = "OK" PROVE Answered(S, c, res)'
    BY DEF Answered
  <1>1. pc[c] \in {"writeNext", "writeVal", "writeLen", "writeKey"} => Filling(c)
    BY DEF Filling, FillLabels
  <1>2. pc[c] = "writeNext" => ptr[c] < MemSize /\ mem'[ptr[c]] \in S \cup {0}
    BY <1>1 DEF Answered, Building
  <1>3. pc[c] = "writeVal" => ptr[c] + 1 < MemSize /\ mem'[ptr[c] + 1] = job[c].val
    BY <1>1 DEF Answered, Building
  <1>4. pc[c] = "writeLen" => ptr[c] + 2 < MemSize /\ mem'[ptr[c] + 2] = KeyLen[job[c].key]
    BY <1>1 DEF Answered, Building
  <1>5. pc[c] = "writeKey" =>
         \A w \in 1 .. Len(KeyWords[job[c].key]) :
           ptr[c] + 2 + w < MemSize /\ mem'[ptr[c] + 2 + w] = KeyWords[job[c].key][w]
    BY <1>1 DEF Answered, Building
  <1>6. pc[c] = "cmpLen" => res.result[1] = mem'[ptr[c] + 2]
    BY DEF Answered, Steady, Thread
  <1>7. pc[c] = "cmpKey" => res.result = [w \in 1 .. Len(KeyWords[job[c].key]) |-> mem'[ptr[c] + 2 + w]]
    <2> SUFFICES ASSUME pc[c] = "cmpKey"
                 PROVE  res.result = [w \in 1 .. Len(KeyWords[job[c].key]) |-> mem'[ptr[c] + 2 + w]]
      OBVIOUS
    <2>1. job[c].key \in Key
      BY FarFind DEF FindLabels
    <2>2. ptr[c] \in S /\ mem[ptr[c] + 2] = KeyLen[job[c].key]
      BY DEF Thread
    <2>3. \A w \in 1 .. Len(KeyWords[job[c].key]) : mem'[ptr[c] + 2 + w] = mem[ptr[c] + 2 + w]
      BY <2>1, <2>2 DEF Steady
    <2>4. res.result = [w \in 1 .. Len(KeyWords[job[c].key]) |-> mem[ptr[c] + 2 + w]]
      BY DEF Answered
    <2> QED BY <2>3, <2>4
  <1>8. pc[c] = "readVal" => res.result[1] = mem'[ptr[c] + 1]
    BY DEF Answered, Steady, Thread
  <1> QED BY <1>2, <1>3, <1>4, <1>5, <1>6, <1>7, <1>8 DEF Answered, Asleep

(* What serving any operation leaves in memory.                                *)
LEMMA ServeWords ==
  ASSUME NEW op \in FarOps, NEW m \in [Cells -> Nat]
  PROVE  /\ Effect(op, m) \in [Cells -> Nat]
         /\ op.kind # "CAS" => \A a \in Cells : Effect(op, m)[a] = IF Stores(op, a) THEN Stored(op, a) ELSE m[a]
         /\ op.kind = "CAS" /\ Swaps(op, m) =>
              op.addr \in Cells /\ m[op.addr] = op.test /\ Effect(op, m) = [m EXCEPT ![op.addr] = op.value]
         /\ op.kind = "CAS" /\ ~Swaps(op, m) => Effect(op, m) = m
  <1>1. CASE op \in [kind : {"READ"}, addr : Nat, len : Nat]
    BY <1>1 DEF Effect, Stores
  <1>2. CASE op \in [kind : {"WRITE"}, addr : Nat, values : Seq(Nat)]
    <2>1. op.kind = "WRITE" /\ op.addr \in Nat /\ op.values \in Seq(Nat) /\ Len(op.values) \in Nat
      BY <1>2
    <2>2. Effect(op, m) = [a \in Cells |-> IF /\ op.addr >= 0
                                              /\ a \in op.addr .. op.addr + Len(op.values) - 1
                                           THEN op.values[a - op.addr + 1] ELSE m[a]]
      BY <2>1 DEF Effect
    <2>3. ASSUME NEW a \in Cells
          PROVE  /\ (op.addr >= 0 /\ a \in op.addr .. op.addr + Len(op.values) - 1) <=> Stores(op, a)
                 /\ Stores(op, a) => Stored(op, a) \in Nat
      <3>1. a \in Nat
        BY FarLayout
      <3>2. (op.addr >= 0 /\ a \in op.addr .. op.addr + Len(op.values) - 1) <=> Stores(op, a)
        BY <2>1, <3>1 DEF Stores
      <3>3. Stores(op, a) => a - op.addr + 1 \in 1 .. Len(op.values)
        BY <2>1, <3>1 DEF Stores
      <3> QED BY SMTT(30), <2>1, <3>2, <3>3 DEF Stored
    <2>4. \A a \in Cells : Effect(op, m)[a] = IF Stores(op, a) THEN Stored(op, a) ELSE m[a]
      BY <2>2, <2>3 DEF Stored
    <2>5. Effect(op, m) = [a \in Cells |-> Effect(op, m)[a]]
      BY <2>2
    <2> QED BY <2>1, <2>3, <2>4, <2>5
  <1>3. CASE op \in [kind : {"CAS"}, addr : Nat, test : Nat, value : Nat]
    <2>1. op.kind = "CAS" /\ op.addr \in Nat /\ op.value \in Nat
      BY <1>3
    <2>2. Swaps(op, m) => op.addr \in Cells /\ m[op.addr] = op.test
      BY <2>1, FarLayout DEF Swaps, InBounds, Width
    <2> QED BY <2>1, <2>2 DEF Effect
  <1> QED BY <1>1, <1>2, <1>3 DEF FarOps

(* What is due has the type of an operation.                                   *)
LEMMA FarDue == ASSUME FarTypes PROVE Due \subseteq FarOps
  <1>1. ASSUME NEW q \in requests PROVE q.op \in FarOps
    BY DEF FarTypes
  <1>2. ASSUME NEW c \in Client, Sending(c) PROVE call[c].op \in FarOps
    <2>1. call[c] \in {Idle} \cup [op : FarOps, port : Port, sent : 1 .. Tries]
      BY DEF FarTypes
    <2>2. call[c] # Idle
      BY <1>2 DEF Sending, Idle
    <2> QED BY <2>1, <2>2
  <1> QED BY <1>1, <1>2 DEF Due

(* Which words are served how.                                                 *)
LEMMA ServeKeeps ==
  ASSUME NEW S, FarTypes, Common(S), NEW op \in Due, op \in FarOps, mem' = Effect(op, mem)
  PROVE  /\ mem' \in [Cells -> Nat] /\ mem'[0] \in Nat /\ mem'[0] >= mem[0]
         /\ \A a \in Nat : a >= TableEnd /\ a < MemSize =>
              mem'[a] = IF Stores(op, a) THEN Stored(op, a) ELSE mem[a]
         /\ Heads(S)'
         /\ \A a \in Nat : Given(a) => Given(a)'
  <1>1. TableEnd \in Nat /\ TableEnd >= 2 /\ 0 \in Cells /\ MemSize \in Nat /\ mem \in [Cells -> Nat] /\ mem[0] \in Nat
    BY FarLayout, FarVars
  <1>2. mem' \in [Cells -> Nat] /\ mem'[0] \in Nat
    BY <1>1, ServeWords
  <1>3. /\ op.kind = "WRITE" => TableEnd <= op.addr /\ op.addr + Len(op.values) <= mem[0]
        /\ op.kind = "CAS" => \/ op.addr = 0 /\ TableEnd <= op.test /\ op.test <= op.value
                              \/ 1 <= op.addr /\ op.addr < TableEnd /\ op.value \in S
    BY DEF Common, DueOK
  <1>4. mem[0] >= TableEnd /\ \A b \in 1 .. TableEnd - 1 : b < MemSize => mem[b] \in S \cup {0}
    BY DEF Common, Heads
  <1>5. \A a \in Nat : a < TableEnd => ~Stores(op, a)
    <2>1. op.kind = "WRITE" => op.addr \in Nat
      BY DEF FarOps
    <2> QED BY <1>1, <1>3, <2>1 DEF Stores
  <1>6. CASE op.kind # "CAS"
    <2>1. \A a \in Nat : a < MemSize => mem'[a] = IF Stores(op, a) THEN Stored(op, a) ELSE mem[a]
      BY <1>1, <1>6, ServeWords, FarLayout
    <2>2. \A a \in Nat : a < TableEnd /\ a < MemSize => mem'[a] = mem[a]
      BY <1>5, <2>1
    <2>3. mem'[0] = mem[0]
      BY <1>1, <2>2, MemSizeAssumption
    <2>4. Heads(S)'
      BY <1>1, <1>4, <2>2, <2>3 DEF Heads
    <2> QED BY <1>1, <1>2, <2>1, <2>3, <2>4 DEF Given
  <1>7. CASE op.kind = "CAS"
    <2>1. \A a : ~Stores(op, a)
      BY <1>7 DEF Stores
    <2>2. CASE ~Swaps(op, mem)
      <3>1. mem' = mem
        BY <1>1, <1>7, <2>2, ServeWords
      <3> QED BY <1>1, <1>2, <1>4, <2>1, <3>1 DEF Heads, Given
    <2>3. CASE Swaps(op, mem)
      <3>1. op.addr \in Cells /\ mem[op.addr] = op.test /\ mem' = [mem EXCEPT ![op.addr] = op.value]
        BY <1>1, <1>7, <2>3, ServeWords
      <3>2. op.addr \in Nat /\ op.test \in Nat /\ op.value \in Nat
        BY <1>7 DEF FarOps
      <3>3. \A a \in Nat : a < MemSize => mem'[a] = IF a = op.addr THEN op.value ELSE mem[a]
        BY <1>1, <3>1, FarLayout
      <3>4. mem'[0] = IF op.addr = 0 THEN op.value ELSE mem[0]
        BY <1>1, <3>3, MemSizeAssumption
      <3>5. mem'[0] >= mem[0]
        BY <1>1, <1>3, <1>7, <3>1, <3>2, <3>4
      <3>6. \A a \in Nat : a >= TableEnd /\ a < MemSize => mem'[a] = mem[a]
        BY <1>1, <1>3, <1>7, <3>2, <3>3
      <3>7. \A b \in 1 .. TableEnd - 1 : b < MemSize => mem'[b] \in S \cup {0}
        BY <1>1, <1>3, <1>4, <1>7, <3>2, <3>3
      <3>8. Heads(S)'
        BY <1>1, <1>2, <1>4, <3>5, <3>7 DEF Heads
      <3>9. \A a \in Nat : Given(a) => Given(a)'
        <4>1. ASSUME NEW a \in Nat, Given(a) PROVE Given(a)'
          BY <1>1, <1>2, <3>5, <4>1 DEF Given
        <4> QED BY <4>1
      <3> QED BY <1>2, <2>1, <3>5, <3>6, <3>8, <3>9
    <2> QED BY <2>2, <2>3
  <1> QED BY <1>6, <1>7

(* A CAS on the counter that swaps gives its client what was behind it.        *)
Gains(c) == /\ pc[c] = "allocCas" /\ ptr[c] = mem[0] /\ job[c].key \in Key
            /\ mem'[0] = ptr[c] + recLen(job[c].key)

(* A put gets its block when its CAS on the counter is served.                 *)
LEMMA ServeGains ==
  ASSUME NEW S, FarIInv(S), ServeOne, NEW c \in Client, Owns(c)', ~Owns(c)
  PROVE  Gains(c) /\ \A d \in Client \ {c} : Owns(d)' => Owns(d)
  <1>1. PICK q \in requests :
           /\ requests' = requests \ {q} /\ mem' = Effect(q.op, mem)
           /\ replies' = IF Sending(q.client) /\ call[q.client].port = q.port
                         THEN replies \cup {[client |-> q.client, port |-> q.port, res |-> Outcome(q.op, mem)]}
                         ELSE replies
           /\ UNCHANGED <<call, timeouts, programVars, offered>>
    BY ServeStep
  <1>2. FarTypes /\ Exchanges /\ Thread(S, c)
    BY DEF FarIInv
  <1>3. \A d : Filling(d)' <=> Filling(d)
    BY <1>1 DEF Filling, programVars
  <1>4. \A d : pc'[d] = pc[d]
    BY <1>1 DEF programVars
  <1>5. pc[c] = "allocCas" /\ \E r \in replies' : r.client = c /\ r.res = Ok(<<1>>)
    BY <1>3, <1>4 DEF Owns
  <1>6. \A r \in replies : ~(r.client = c /\ r.res = Ok(<<1>>))
    BY <1>5 DEF Owns
  <1>7. /\ Sending(c) /\ q.client = c /\ Outcome(q.op, mem) = Ok(<<1>>)
        /\ call[c].port = q.port
        /\ replies' = replies \cup {[client |-> c, port |-> q.port, res |-> Ok(<<1>>)]}
    BY <1>1, <1>5, <1>6
  <1>8. \A d \in Client \ {c} : Owns(d)' => Owns(d)
    BY <1>3, <1>4, <1>7 DEF Owns
  <1>9. q.op = OpOf(c)
    BY <1>2, <1>7 DEF Exchanges
  <1>10. job[c].key \in Key /\ ptr[c] \in Nat
    BY <1>2, <1>5, FarPut DEF PutLabels
  <1>11. q.op = Cas(0, ptr[c], ptr[c] + recLen(job[c].key))
    BY <1>5, <1>9 DEF OpOf
  <1>12. Swaps(q.op, mem)
    <2>1. q.op.kind = "CAS"
      BY <1>11 DEF Cas
    <2>2. ~Swaps(q.op, mem) => Outcome(q.op, mem) \in {Failed("OUT_OF_BOUNDS"), Ok(<<0>>)}
      BY <2>1 DEF Outcome
    <2>3. Ok(<<1>>) # Failed("OUT_OF_BOUNDS") /\ Ok(<<1>>) # Ok(<<0>>)
      BY DEF Ok, Failed
    <2> QED BY <1>7, <2>2, <2>3
  <1>13. mem[0] = ptr[c] /\ mem' = [mem EXCEPT ![0] = ptr[c] + recLen(job[c].key)]
    BY <1>1, <1>11, <1>12 DEF Swaps, Effect, Cas
  <1>14. mem'[0] = ptr[c] + recLen(job[c].key)
    BY <1>2, <1>13, FarVars, FarLayout
  <1> QED BY <1>5, <1>8, <1>10, <1>13, <1>14 DEF Gains

(* What is said of memory stays true when any copy is served.                  *)
LEMMA ServeCommon ==
  ASSUME NEW S, FarIInv(S), ServeOne
  PROVE  Common(S)'
  <1>1. PICK q \in requests :
           /\ requests' = requests \ {q} /\ mem' = Effect(q.op, mem)
           /\ UNCHANGED <<call, timeouts, programVars, offered>>
    BY ServeStep
  <1> DEFINE op == q.op
  <1>2. FarTypes /\ Common(S) /\ op \in FarOps /\ op \in Due
    BY DEF FarIInv, FarTypes, Due
  <1> HIDE DEF op
  <1>3. /\ mem'[0] \in Nat /\ mem'[0] >= mem[0] /\ mem[0] \in Nat
        /\ \A a \in Nat : a >= TableEnd /\ a < MemSize =>
              mem'[a] = IF Stores(op, a) THEN Stored(op, a) ELSE mem[a]
        /\ Heads(S)'
        /\ \A a \in Nat : Given(a) => Given(a)'
    BY <1>1, <1>2, ServeKeeps, FarVars DEF op
  <1>4. Due' \subseteq Due
    BY <1>1 DEF Due, Sending
  <1>5. \A c, a : /\ InBlock(c, a)' <=> InBlock(c, a)
                  /\ Word(c, a)' = Word(c, a) /\ ptr'[c] = ptr[c]
    BY <1>1 DEF InBlock, Word, programVars
  <1>6. \A c \in Client : Owns(c)' => Owns(c) \/ Gains(c)
    BY ServeGains
  <1>7. \A c \in Client : Gains(c) => \A a \in Nat : InBlock(c, a) => ~Given(a)
    BY <1>3 DEF Gains, InBlock, Given
  <1>8. ASSUME NEW a \in Nat, NEW v, Fixed(a, v) PROVE Fixed(a, v)'
    <2>1. Given(a) /\ a < MemSize /\ mem[a] = v /\ \A o \in Due : Stores(o, a) => Stored(o, a) = v
      BY <1>8 DEF Fixed
    <2>2. mem'[a] = v
      BY <1>2, <1>3, <2>1 DEF Given
    <2>3. ASSUME NEW c \in Client, Owns(c)', InBlock(c, a) PROVE a # ptr[c] /\ Word(c, a) = v
      BY <1>6, <1>7, <1>8, <2>1, <2>3 DEF Fixed
    <2> QED BY <1>3, <1>4, <1>5, <2>1, <2>2, <2>3 DEF Fixed
  <1>9. ASSUME NEW x \in Nat, Linking(S, x) PROVE Linking(S, x)'
    <2>1. Given(x) /\ x < MemSize /\ mem[x] \in S \cup {0} /\ \A o \in Due : Stores(o, x) => Stored(o, x) \in S \cup {0}
      BY <1>9 DEF Linking
    <2>2. mem'[x] \in S \cup {0}
      BY <1>2, <1>3, <2>1 DEF Given
    <2>3. ASSUME NEW c \in Client, Owns(c)', InBlock(c, x) PROVE x = ptr[c]
      BY <1>6, <1>7, <1>9, <2>1, <2>3 DEF Linking
    <2> QED BY <1>3, <1>4, <1>5, <2>1, <2>2, <2>3 DEF Linking
  <1>10. ASSUME NEW x \in Nat, NEW k \in Key, NEW v, Holds(x, k, v) PROVE Holds(x, k, v)'
    <2>1. x + 1 \in Nat /\ x + 2 \in Nat /\ \A w \in 1 .. Len(KeyWords[k]) : x + 2 + w \in Nat
      OBVIOUS
    <2> QED BY <1>8, <1>10, <2>1 DEF Holds
  <1>11. Chained(S)'
    <2>1. ASSUME NEW x \in S PROVE Linking(S, x)' /\ \E kv \in offered' : Holds(x, kv[1], kv[2])'
      <3>1. x \in Nat /\ Linking(S, x)
        BY <1>2 DEF FarIInv, Common, Chained
      <3>2. PICK kv \in offered : Holds(x, kv[1], kv[2])
        BY <1>2 DEF Common, Chained
      <3>3. kv[1] \in Key
        BY <1>2 DEF FarTypes
      <3> QED BY <1>1, <1>9, <1>10, <3>1, <3>2, <3>3
    <2> QED BY <2>1 DEF Chained
  <1>12. DueOK(S)'
    <2>1. ASSUME NEW o \in Due'
          PROVE  /\ o.kind = "WRITE" => TableEnd <= o.addr /\ o.addr + Len(o.values) <= mem'[0]
                 /\ o.kind = "CAS" => \/ o.addr = 0 /\ TableEnd <= o.test /\ o.test <= o.value
                                      \/ 1 <= o.addr /\ o.addr < TableEnd /\ o.value \in S
      <3>1. o \in Due
        BY <1>4
      <3>2. o.kind = "WRITE" => o.addr \in Nat /\ Len(o.values) \in Nat
        <4>1. o \in FarOps
          BY <1>2, <3>1, FarDue
        <4> QED BY <4>1 DEF FarOps
      <3>3. o.kind = "WRITE" => TableEnd <= o.addr /\ o.addr + Len(o.values) <= mem'[0]
        BY <1>2, <1>3, <3>1, <3>2 DEF Common, DueOK
      <3> QED BY <1>2, <3>1, <3>3 DEF Common, DueOK
    <2> QED BY <2>1 DEF DueOK
  <1>13. ASSUME NEW c \in Client, Owns(c)' PROVE Mine(S, c)'
    <2>1. CASE Owns(c)
      <3>1. Mine(S, c)
        BY <1>2, <2>1 DEF Common
      <3>2. ASSUME NEW a \in Nat, InBlock(c, a)
            PROVE  /\ Given(a)'
                   /\ \A o \in Due' : Stores(o, a) => IF a = ptr[c] THEN Stored(o, a) \in S \cup {0}
                                                      ELSE Stored(o, a) = Word(c, a)
                   /\ \A d \in Client \ {c} : ~(Owns(d)' /\ InBlock(d, a))
        <4>1. Given(a)
          BY <3>1, <3>2 DEF Mine
        <4>2. \A d \in Client \ {c} : ~(Owns(d)' /\ InBlock(d, a))
          BY <1>6, <1>7, <3>1, <3>2, <4>1 DEF Mine
        <4> QED BY <1>3, <1>4, <3>1, <3>2, <4>1, <4>2 DEF Mine
      <3> QED BY <1>5, <3>2 DEF Mine
    <2>2. CASE ~Owns(c)
      <3>1. Gains(c) /\ \A d \in Client \ {c} : Owns(d)' => Owns(d)
        BY <1>13, <2>2, ServeGains
      <3>2. ASSUME NEW a \in Nat, InBlock(c, a)
            PROVE  /\ Given(a)'
                   /\ \A o \in Due' : ~Stores(o, a)
                   /\ \A d \in Client \ {c} : ~(Owns(d)' /\ InBlock(d, a))
        <4>1. ~Given(a) /\ a >= mem[0] /\ a < mem'[0]
          BY <1>3, <3>1, <3>2 DEF Gains, InBlock, Given
        <4>2. Given(a)'
          BY <1>2, <1>3, <4>1, FarLayout DEF Common, Heads, Given
        <4>3. ASSUME NEW o \in Due', Stores(o, a) PROVE FALSE
          <5>1. o \in Due /\ o \in FarOps
            BY <1>2, <1>4, FarDue
          <5>2. o.kind = "WRITE" /\ o.addr \in Nat /\ Len(o.values) \in Nat
            BY <4>3, <5>1 DEF FarOps, Stores
          <5>3. o.addr + Len(o.values) <= mem[0]
            BY <1>2, <5>1, <5>2 DEF Common, DueOK
          <5> QED BY <1>3, <4>1, <4>3, <5>2, <5>3 DEF Stores
        <4>4. \A d \in Client \ {c} : ~(Owns(d)' /\ InBlock(d, a))
          BY <1>2, <3>1, <4>1 DEF Common, Mine
        <4> QED BY <4>2, <4>3, <4>4
      <3> QED BY <1>5, <3>2 DEF Mine
    <2> QED BY <2>1, <2>2
  <1> QED BY <1>3, <1>11, <1>12, <1>13 DEF Common

(* Serving changes no word of a record, nor one that a put has written.        *)
LEMMA ServeSteady ==
  ASSUME NEW S, FarIInv(S), ServeOne
  PROVE  Steady(S) /\ \A c \in Client : Building(S, c)
  <1>1. PICK q \in requests : mem' = Effect(q.op, mem)
    BY ServeStep
  <1> DEFINE op == q.op
  <1>2. FarTypes /\ Common(S) /\ op \in FarOps /\ op \in Due /\ S \subseteq Nat
    BY DEF FarIInv, FarTypes, Due
  <1> HIDE DEF op
  <1>3. \A a \in Nat : a >= TableEnd /\ a < MemSize => mem'[a] = IF Stores(op, a) THEN Stored(op, a) ELSE mem[a]
    BY <1>1, <1>2, ServeKeeps DEF op
  <1>4. ASSUME NEW a \in Nat, NEW v, Fixed(a, v) PROVE mem[a] = v /\ mem'[a] = mem[a]
    <2>1. a >= TableEnd /\ a < MemSize /\ mem[a] = v /\ (Stores(op, a) => Stored(op, a) = v)
      BY <1>2, <1>4, FarLayout DEF Fixed, Given
    <2> QED BY <1>3, <2>1
  <1>5. Steady(S)
    <2>1. ASSUME NEW x \in S
          PROVE  /\ mem'[x + 1] = mem[x + 1] /\ mem'[x + 2] = mem[x + 2]
                 /\ \A k \in Key : mem[x + 2] = KeyLen[k] =>
                      \A w \in 1 .. Len(KeyWords[k]) : mem'[x + 2 + w] = mem[x + 2 + w]
      <3>1. PICK kv \in offered : Holds(x, kv[1], kv[2])
        BY <1>2 DEF Common, Chained
      <3>2. x \in Nat /\ kv[1] \in Key
        BY <1>2 DEF FarTypes
      <3>3. mem'[x + 1] = mem[x + 1] /\ mem'[x + 2] = mem[x + 2] /\ mem[x + 2] = KeyLen[kv[1]]
        BY <1>4, <3>1, <3>2 DEF Holds
      <3>4. ASSUME NEW k \in Key, mem[x + 2] = KeyLen[k], NEW w \in 1 .. Len(KeyWords[k])
            PROVE  mem'[x + 2 + w] = mem[x + 2 + w]
        <4>1. Len(KeyWords[k]) = Len(KeyWords[kv[1]])
          BY <3>2, <3>3, <3>4, DHTAssumption
        <4>2. Fixed(x + 2 + w, KeyWords[kv[1]][w])
          BY <3>1, <4>1 DEF Holds
        <4> QED BY <1>4, <3>2, <4>2
      <3> QED BY <3>3, <3>4
    <2> QED BY <2>1 DEF Steady
  <1>6. ASSUME NEW c \in Client, Filling(c) PROVE Building(S, c)
    <2>1. Mine(S, c)
      BY <1>2, <1>6 DEF Common, Owns
    <2>2. ptr[c] \in Nat /\ job[c].key \in Key
      BY <1>2, <1>6, FarPut DEF FarIInv, Filling, PutLabels
    <2> DEFINE k == job[c].key
               p == ptr[c]
    <2>3. recLen(k) = 3 + Len(KeyWords[k]) /\ Len(KeyWords[k]) \in Nat
      BY <2>2, FarLayout
    <2>4. ASSUME NEW a \in Nat, InBlock(c, a), a < MemSize
          PROVE  /\ a = p /\ mem[a] \in S \cup {0} => mem'[a] \in S \cup {0}
                 /\ a # p /\ mem[a] = Word(c, a) => mem'[a] = Word(c, a)
      <3>1. a >= TableEnd /\ (Stores(op, a) => IF a = ptr[c] THEN Stored(op, a) \in S \cup {0}
                                        ELSE Stored(op, a) = Word(c, a))
        BY <1>2, <2>1, <2>4, FarLayout DEF Mine, Given
      <3>2. mem'[a] = IF Stores(op, a) THEN Stored(op, a) ELSE mem[a]
        BY <1>3, <2>4, <3>1
      <3>3. ASSUME a = p, mem[a] \in S \cup {0} PROVE mem'[a] \in S \cup {0}
        <4>1. Stores(op, a) => Stored(op, a) \in S \cup {0}
          BY <3>1, <3>3
        <4> QED BY <3>2, <3>3, <4>1
      <3>4. ASSUME a # p, mem[a] = Word(c, a) PROVE mem'[a] = Word(c, a)
        <4>1. Stores(op, a) => Stored(op, a) = Word(c, a)
          BY <3>1, <3>4
        <4> QED BY <3>2, <3>4, <4>1
      <3> QED BY <3>3, <3>4
    <2>5. /\ InBlock(c, p) /\ InBlock(c, p + 1) /\ InBlock(c, p + 2)
          /\ \A w \in 1 .. Len(KeyWords[k]) : InBlock(c, p + 2 + w) /\ p + 2 + w \in Nat
      <3>1. \A a : InBlock(c, a) <=> p <= a /\ a < p + recLen(k)
        BY DEF InBlock
      <3> HIDE DEF k, p
      <3>2. p \in Nat
        BY <2>2 DEF p
      <3> QED BY <2>3, <3>1, <3>2
    <2>6. /\ Word(c, p + 1) = job[c].val /\ Word(c, p + 2) = KeyLen[k]
          /\ \A w \in 1 .. Len(KeyWords[k]) : Word(c, p + 2 + w) = KeyWords[k][w]
      BY <2>2, <2>3 DEF Word
    <2>7. p < MemSize /\ mem[p] \in S \cup {0} => mem'[p] \in S \cup {0}
      BY <2>2, <2>4, <2>5
    <2>8. p + 1 < MemSize /\ mem[p + 1] = job[c].val => mem'[p + 1] = job[c].val
      BY <2>2, <2>4, <2>5, <2>6
    <2>9. p + 2 < MemSize /\ mem[p + 2] = KeyLen[k] => mem'[p + 2] = KeyLen[k]
      BY <2>2, <2>4, <2>5, <2>6
    <2>10. ASSUME NEW w \in 1 .. Len(KeyWords[k]), p + 2 + w < MemSize, mem[p + 2 + w] = KeyWords[k][w]
           PROVE  mem'[p + 2 + w] = KeyWords[k][w]
      BY <2>2, <2>3, <2>4, <2>5, <2>6, <2>10
    <2> QED BY <2>7, <2>8, <2>9, <2>10 DEF Building
  <1>7. \A c \in Client : ~Filling(c) => Building(S, c)
    BY DEF Building
  <1> QED BY <1>5, <1>6, <1>7

(* A write that is answered OK has been made.                                  *)
LEMMA WroteOne ==
  ASSUME NEW op, NEW a \in Nat, NEW v \in Int, mem \in [Cells -> Int], op = Write(a, <<v>>),
         Outcome(op, mem).error = "OK"
  PROVE  a < MemSize /\ Effect(op, mem) = [mem EXCEPT ![a] = v]
  BY WriteOne

LEMMA WroteMany ==
  ASSUME NEW op, NEW a \in Nat, NEW vs \in Seq(Int), mem \in [Cells -> Int], op = Write(a, vs),
         Outcome(op, mem).error = "OK"
  PROVE  /\ \A x \in Cells : x >= a /\ x < a + Len(vs) => Effect(op, mem)[x] = vs[x - a + 1]
         /\ Len(vs) = 0 \/ a + Len(vs) <= MemSize
  BY WriteMany

(* The answer to a copy that is served while its call waits.                   *)
LEMMA NewAnswer ==
  ASSUME NEW S, FarIInv(S), NEW c \in Client, Sending(c), mem' = Effect(OpOf(c), mem), Asleep(c),
         NEW res, res = Outcome(OpOf(c), mem)
  PROVE  Answered(S, c, res)'
  <1> DEFINE k == job[c].key
             p == ptr[c]
  <1>1. FarTypes /\ Common(S) /\ Thread(S, c) /\ Waiting(c) /\ S \subseteq Nat
    BY DEF FarIInv, Exchanges
  <1>2. /\ mem \in [Cells -> Nat] /\ mem \in [Cells -> Int] /\ mem[0] \in Nat
        /\ TableEnd \in Nat /\ TableEnd >= 2 /\ 0 \in Cells /\ MemSize \in Nat /\ 0 \in Nat /\ p \in Nat
    BY <1>1, FarVars, FarLayout
  <1>3. pc[c] \in PutLabels => k \in Key /\ job[c].val \in Nat
    BY <1>1, FarPut
  <1>4. pc[c] \in FindLabels => k \in Key
    BY <1>1, FarFind
  <1>5. k \in Key => /\ hashPtr(k) \in Nat /\ 1 <= hashPtr(k) /\ hashPtr(k) < TableEnd
                     /\ KeyLen[k] \in Nat /\ KeyWords[k] \in Seq(Nat) /\ KeyWords[k] \in Seq(Int)
                     /\ Len(KeyWords[k]) \in Nat
    BY FarLayout
  <1> SUFFICES ASSUME res.error = "OK" PROVE Answered(S, c, res)'
    BY DEF Answered
  <1>6. \A l : pc'[c] = l <=> pc[c] = l
    BY DEF Asleep
  <1>7. ptr'[c] = p /\ job'[c] = job[c]
    BY DEF Asleep
  <1>8. ASSUME pc[c] = "allocRead" PROVE res.result[1] \in Nat /\ res.result[1] >= TableEnd
    <2>1. OpOf(c) = Read(0, 1)
      BY <1>8 DEF OpOf
    <2>2. res.result[1] = mem[0]
      BY <1>2, <2>1, ReadOne, MemSizeAssumption
    <2> QED BY <1>1, <1>2, <2>2 DEF Common, Heads
  <1>9. ASSUME pc[c] = "allocCas" PROVE res.result[1] = 0 \/ res = Ok(<<1>>)
    <2>1. OpOf(c) = Cas(0, p, p + recLen(k))
      BY <1>9 DEF OpOf
    <2>2. OpOf(c).kind = "CAS"
      BY <2>1 DEF Cas
    <2>3. res \in {Failed("OUT_OF_BOUNDS"), Ok(<<0>>), Ok(<<1>>)}
      BY <2>2 DEF Outcome
    <2>4. Ok(<<0>>).result[1] = 0 /\ Failed("OUT_OF_BOUNDS").error # "OK"
      BY DEF Ok, Failed
    <2> QED BY <2>3, <2>4
  <1>10. ASSUME pc[c] = "writeNext" PROVE p < MemSize /\ mem'[p] \in S \cup {0}
    <2>1. OpOf(c) = Write(p, <<0>>) /\ 0 \in Int
      BY <1>10 DEF OpOf
    <2>2. p < MemSize /\ mem' = [mem EXCEPT ![p] = 0]
      BY <1>2, <2>1, WroteOne, Zenon
    <2> QED BY <1>2, <2>2, FarLayout
  <1>11. ASSUME pc[c] = "writeVal" PROVE p + 1 < MemSize /\ mem'[p + 1] = job[c].val
    <2>1. OpOf(c) = Write(p + 1, <<job[c].val>>) /\ job[c].val \in Int /\ p + 1 \in Nat
      BY <1>2, <1>3, <1>11 DEF OpOf, PutLabels, FillLabels
    <2>2. p + 1 < MemSize /\ mem' = [mem EXCEPT ![p + 1] = job[c].val]
      <3> DEFINE a == p + 1
                 v == job[c].val
      <3>1. a \in Nat /\ v \in Int /\ OpOf(c) = Write(a, <<v>>)
        BY <2>1
      <3> HIDE DEF a, v
      <3>2. a < MemSize /\ mem' = [mem EXCEPT ![a] = v]
        BY <1>2, <3>1, WroteOne, Zenon
      <3> QED BY <3>2 DEF a, v
    <2> QED BY <1>2, <2>1, <2>2, FarLayout
  <1>12. ASSUME pc[c] = "writeLen" PROVE p + 2 < MemSize /\ mem'[p + 2] = KeyLen[k]
    <2>1. OpOf(c) = Write(p + 2, <<KeyLen[k]>>) /\ KeyLen[k] \in Int /\ p + 2 \in Nat
      BY <1>2, <1>3, <1>5, <1>12 DEF OpOf, PutLabels, FillLabels
    <2>2. p + 2 < MemSize /\ mem' = [mem EXCEPT ![p + 2] = KeyLen[k]]
      <3> DEFINE a == p + 2
                 v == KeyLen[k]
      <3>1. a \in Nat /\ v \in Int /\ OpOf(c) = Write(a, <<v>>)
        BY <2>1
      <3> HIDE DEF a, v
      <3>2. a < MemSize /\ mem' = [mem EXCEPT ![a] = v]
        BY <1>2, <3>1, WroteOne, Zenon
      <3> QED BY <3>2 DEF a, v
    <2> QED BY <1>2, <2>1, <2>2, FarLayout
  <1>13. ASSUME pc[c] = "writeKey", NEW w \in 1 .. Len(KeyWords[k])
         PROVE  p + 2 + w < MemSize /\ mem'[p + 2 + w] = KeyWords[k][w]
    <2>1. /\ OpOf(c) = Write(p + 3, KeyWords[k]) /\ p + 3 \in Nat
          /\ KeyWords[k] \in Seq(Int) /\ Len(KeyWords[k]) \in Nat
      BY SMTT(30), <1>2, <1>3, <1>5, <1>13 DEF OpOf, PutLabels, FillLabels
    <2> DEFINE a == p + 3
               vs == KeyWords[k]
               n == Len(vs)
               x == p + 2 + w
    <2>2. a \in Nat /\ vs \in Seq(Int) /\ OpOf(c) = Write(a, vs)
      BY <2>1
    <2>3. n \in Nat /\ w \in Nat /\ w >= 1 /\ w <= n /\ p \in Nat /\ MemSize \in Nat
      BY <1>2, <2>1
    <2>4. x >= a /\ x < a + n /\ x - a + 1 = w /\ x \in Nat /\ (n = 0 \/ a + n <= MemSize => x < MemSize)
      <3> HIDE DEF n, vs, p
      <3> QED BY <2>3
    <2> HIDE DEF a, vs, x
    <2>5. /\ \A y \in Cells : y >= a /\ y < a + Len(vs) => mem'[y] = vs[y - a + 1]
          /\ Len(vs) = 0 \/ a + Len(vs) <= MemSize
      BY <1>2, <2>2, WroteMany, Zenon
    <2>6. x \in Cells
      BY <2>4, <2>5, FarLayout
    <2>7. mem'[x] = vs[w]
      BY <2>4, <2>5, <2>6
    <2> QED BY <2>4, <2>5, <2>7 DEF x, vs
  <1>14. ASSUME pc[c] \in {"readHead", "findHead"} PROVE res.result[1] \in S \cup {0} /\ mem' = mem
    <2>1. OpOf(c) = Read(hashPtr(k), 1)
      BY <1>14 DEF OpOf
    <2>2. hashPtr(k) \in Nat /\ 1 <= hashPtr(k) /\ hashPtr(k) < TableEnd
      BY <1>3, <1>4, <1>5, <1>14 DEF PutLabels, FindLabels, FillLabels
    <2>3. hashPtr(k) < MemSize /\ res.result[1] = mem[hashPtr(k)] /\ mem' = mem
      BY <2>1, <2>2, ReadOne
    <2> QED BY <1>1, <1>2, <2>2, <2>3 DEF Common, Heads
  <1>15. ASSUME pc[c] = "findNext" PROVE res.result[1] \in S \cup {0}
    <2>1. OpOf(c) = Read(p, 1) /\ p \in S
      BY <1>1, <1>15 DEF OpOf, Thread
    <2>2. res.result[1] = mem[p]
      BY <1>2, <2>1, ReadOne
    <2> QED BY <1>1, <2>1, <2>2 DEF Common, Chained, Linking
  <1>16. ASSUME pc[c] = "cmpLen" PROVE res.result[1] = mem'[p + 2]
    <2>1. OpOf(c) = Read(p + 2, 1) /\ p + 2 \in Nat
      BY <1>2, <1>16 DEF OpOf
    <2> QED BY <2>1, ReadOne
  <1>17. ASSUME pc[c] = "cmpKey" PROVE res.result = [w \in 1 .. Len(KeyWords[k]) |-> mem'[p + 2 + w]]
    <2>1. OpOf(c) = Read(p + 3, Len(KeyWords[k])) /\ Len(KeyWords[k]) \in Nat
      BY <1>4, <1>5, <1>17 DEF OpOf, FindLabels
    <2>2. mem' = mem
      BY <2>1 DEF Effect, Read
    <2>3. res = Ok([w \in 1 .. Len(KeyWords[k]) |-> mem[p + 3 + w - 1]])
      BY <2>1 DEF Outcome, Read, Width, Failed
    <2>4. \A w \in 1 .. Len(KeyWords[k]) : p + 3 + w - 1 = p + 2 + w
      BY <1>2, <2>1
    <2> QED BY <2>2, <2>3, <2>4 DEF Ok
  <1>18. ASSUME pc[c] = "readVal" PROVE res.result[1] = mem'[p + 1]
    <2>1. OpOf(c) = Read(p + 1, 1) /\ p + 1 \in Nat
      BY <1>2, <1>18 DEF OpOf
    <2> QED BY <2>1, ReadOne
  <1> QED BY <1>6, <1>7, <1>8, <1>9, <1>10, <1>11, <1>12, <1>13, <1>14, <1>15, <1>16, <1>17, <1>18 DEF Answered

(* What any operation answers is a Result.                                     *)
LEMMA OutcomeTypes ==
  ASSUME NEW op \in FarOps, NEW m \in [Cells -> Nat]
  PROVE  Outcome(op, m) \in Result
  <1>1. op.kind \in {"READ", "WRITE", "CAS"} /\ op.addr \in Nat
    BY DEF FarOps
  <1>2. op.kind # "CAS" => Width(op) \in Nat
    <2>1. op.kind = "READ" => op.len \in Nat
      BY DEF FarOps
    <2>2. op.kind = "WRITE" => Len(op.values) \in Nat
      BY DEF FarOps
    <2> QED BY <1>1, <2>1, <2>2 DEF Width
  <1>3. CASE ~InBounds(op)
    BY <1>3 DEF Outcome, Failed, Result, ErrorCode
  <1>4. CASE InBounds(op) /\ op.kind = "CAS"
    <2>1. <<IF Swaps(op, m) THEN 1 ELSE 0>> \in Seq(Int)
      OBVIOUS
    <2> QED BY <1>4, <2>1 DEF Outcome, Ok, Result, ErrorCode
  <1>5. CASE InBounds(op) /\ op.kind # "CAS"
    <2> DEFINE w  == Width(op)
               vs == [n \in 1 .. w |-> m[op.addr + n - 1]]
    <2>1. w \in Nat /\ (w = 0 \/ op.addr + w <= MemSize)
      BY <1>2, <1>5 DEF InBounds
    <2>2. Outcome(op, m) = Ok(vs)
      BY <1>5 DEF Outcome
    <2> HIDE DEF w
    <2>3. ASSUME NEW n \in 1 .. w PROVE m[op.addr + n - 1] \in Int
      <3>1. op.addr + n - 1 \in Nat /\ op.addr + n - 1 < MemSize
        BY <1>1, <2>1, MemSizeAssumption
      <3>2. op.addr + n - 1 \in Cells
        BY <3>1, FarLayout
      <3> QED BY <3>2
    <2>4. vs \in Seq(Int)
      BY <2>1, <2>3
    <2> HIDE DEF vs
    <2> QED BY <2>2, <2>4 DEF Ok, Result, ErrorCode
  <1> QED BY <1>3, <1>4, <1>5

(* The server takes a packet: a copy of an open call, or an old one.           *)
LEMMA FarServe ==
  ASSUME NEW S, FarIInv(S), ServeOne
  PROVE  FarIInv(S)'
  <1>1. PICK q \in requests :
           /\ requests' = requests \ {q} /\ mem' = Effect(q.op, mem)
           /\ replies' = IF Sending(q.client) /\ call[q.client].port = q.port
                         THEN replies \cup {[client |-> q.client, port |-> q.port, res |-> Outcome(q.op, mem)]}
                         ELSE replies
           /\ UNCHANGED <<call, timeouts, programVars, offered>>
    BY ServeStep
  <1> DEFINE res == Outcome(q.op, mem)
             r   == [client |-> q.client, port |-> q.port, res |-> res]
  <1>2. FarTypes /\ Common(S) /\ Exchanges /\ Told(S) /\ S \subseteq Nat /\ \A c \in Client : Thread(S, c)
    BY DEF FarIInv
  <1>3. q.client \in Client /\ q.port \in Port /\ q.op \in FarOps /\ q.op \in Due /\ mem \in [Cells -> Nat]
    BY <1>2 DEF FarTypes, Due
  <1>4. Steady(S) /\ \A c \in Client : Building(S, c)
    BY ServeSteady
  <1>5. \A c : Asleep(c)
    BY <1>1 DEF Asleep, programVars
  <1>6. \A c : Sending(c)' <=> Sending(c)
    BY <1>1 DEF Sending
  <1>7. FarTypes'
    <2>1. mem' \in [Cells -> Nat]
      BY <1>1, <1>2, <1>3, ServeKeeps
    <2>2. r \in [client : Client, port : Port, res : Result]
      BY <1>3, OutcomeTypes
    <2> HIDE DEF r
    <2>3. replies' \subseteq replies \cup {r}
      BY <1>1 DEF r
    <2>4. ProgramTypeOK'
      BY <1>1, <1>2, FarVars DEF programVars, ProgramTypeOK
    <2> QED BY <1>1, <1>2, <2>1, <2>2, <2>3, <2>4 DEF FarTypes
  <1>8. Exchanges'
    <2>1. \A c : OpOf(c)' = OpOf(c) /\ (Waiting(c)' <=> Waiting(c))
      BY <1>1 DEF OpOf, Waiting, programVars
    <2>2. \A x \in requests' : Sending(x.client)' /\ call'[x.client].port = x.port => call'[x.client].op = x.op
      BY <1>1, <1>2, <1>6 DEF Exchanges
    <2>3. \A c \in Client : Sending(c)' => Waiting(c)' /\ call'[c].op = OpOf(c)'
      BY <1>1, <1>2, <1>6, <2>1 DEF Exchanges
    <2>4. \A x \in replies' : Sending(x.client)'
      BY <1>1, <1>2, <1>6 DEF Exchanges
    <2> QED BY <2>2, <2>3, <2>4 DEF Exchanges
  <1>9. ASSUME NEW c \in Client PROVE Thread(S, c)'
    BY <1>1, <1>2, <1>4, <1>5, ThreadStays
  <1>10. ASSUME NEW c \in Client, NEW x \in replies', x.client = c PROVE Answered(S, c, x.res)'
    <2>1. CASE x \in replies
      <3>1. Answered(S, c, x.res)
        BY <1>2, <1>10, <2>1 DEF Told
      <3> QED BY <1>2, <1>4, <1>5, <3>1, AnswerStays
    <2>2. CASE x \notin replies
      <3>1. Sending(q.client) /\ call[q.client].port = q.port /\ x = r
        BY <1>1, <2>2
      <3>2. c = q.client /\ x.res = res
        BY <1>10, <3>1
      <3>3. q.op = OpOf(c)
        BY <1>2, <1>3, <3>1, <3>2 DEF Exchanges
      <3>4. x.res = Outcome(OpOf(c), mem) /\ mem' = Effect(OpOf(c), mem)
        BY <1>1, <3>2, <3>3
      <3> QED BY <1>5, <3>1, <3>2, <3>4, NewAnswer
    <2> QED BY <2>1, <2>2
  <1>11. Told(S)'
    BY <1>10 DEF Told
  <1> QED BY <1>2, <1>7, <1>8, <1>9, <1>11, ServeCommon DEF FarIInv

(* A record that is filled can be one that bins lead to.                       *)
LEMMA FarGrows ==
  ASSUME NEW S, FarIInv(S), NEW c \in Client, pc[c] = "writeKey",
         NEW r \in replies, r.client = c, r.res.error = "OK"
  PROVE  FarIInv(S \cup {ptr[c]})
  <1> DEFINE x == ptr[c]
             k == job[c].key
             v == job[c].val
             T == S \cup {x}
  <1>1. FarTypes /\ Common(S) /\ Exchanges /\ Told(S) /\ S \subseteq Nat /\ \A d \in Client : Thread(S, d)
    BY DEF FarIInv
  <1>2. x \in Nat /\ k \in Key /\ v \in Nat /\ <<k, v>> \in offered
    BY <1>1, FarPut DEF PutLabels, FillLabels
  <1>3. Owns(c) /\ Mine(S, c)
    BY <1>1 DEF Common, Owns, Filling, FillLabels
  <1>4. /\ x < MemSize /\ mem[x] \in S \cup {0} /\ x + 1 < MemSize /\ mem[x + 1] = v
        /\ x + 2 < MemSize /\ mem[x + 2] = KeyLen[k]
    BY <1>1 DEF Thread
  <1>5. \A w \in 1 .. Len(KeyWords[k]) : x + 2 + w < MemSize /\ mem[x + 2 + w] = KeyWords[k][w]
    BY <1>1 DEF Told, Answered
  <1>6. recLen(k) = 3 + Len(KeyWords[k]) /\ Len(KeyWords[k]) \in Nat
    BY <1>2, FarLayout
  <1>7. ASSUME NEW a \in Nat, InBlock(c, a)
        PROVE  /\ a = x => Linking(T, a) \/ ~(a < MemSize /\ mem[a] \in S \cup {0})
               /\ a # x => Fixed(a, Word(c, a)) \/ ~(a < MemSize /\ mem[a] = Word(c, a))
    <2>1. /\ Given(a)
          /\ \A op \in Due : Stores(op, a) => IF a = x THEN Stored(op, a) \in S \cup {0}
                                              ELSE Stored(op, a) = Word(c, a)
          /\ \A d \in Client \ {c} : ~(Owns(d) /\ InBlock(d, a))
      BY <1>3, <1>7 DEF Mine
    <2>2. ASSUME a = x, a < MemSize, mem[a] \in S \cup {0} PROVE Linking(T, a)
      <3>1. \A op \in Due : Stores(op, a) => Stored(op, a) \in T \cup {0}
        BY <2>1, <2>2
      <3>2. \A d \in Client : Owns(d) /\ InBlock(d, a) => a = ptr[d]
        BY <2>1, <2>2
      <3> QED BY <2>1, <2>2, <3>1, <3>2 DEF Linking
    <2>3. ASSUME a # x, a < MemSize, mem[a] = Word(c, a) PROVE Fixed(a, Word(c, a))
      <3>1. \A op \in Due : Stores(op, a) => Stored(op, a) = Word(c, a)
        BY <2>1, <2>3
      <3>2. \A d \in Client : Owns(d) /\ InBlock(d, a) => a # ptr[d] /\ Word(d, a) = Word(c, a)
        BY <2>1, <2>3
      <3> QED BY <2>1, <2>3, <3>1, <3>2 DEF Fixed
    <2> QED BY <2>2, <2>3
  <1>8. /\ InBlock(c, x) /\ InBlock(c, x + 1) /\ InBlock(c, x + 2)
        /\ \A w \in 1 .. Len(KeyWords[k]) : InBlock(c, x + 2 + w) /\ x + 2 + w \in Nat
    <2>1. \A a : InBlock(c, a) <=> x <= a /\ a < x + recLen(k)
      BY DEF InBlock
    <2> HIDE DEF k, x
    <2> QED BY SMTT(30), <1>2, <1>6, <2>1
  <1>9. /\ Word(c, x + 1) = v /\ Word(c, x + 2) = KeyLen[k]
        /\ \A w \in 1 .. Len(KeyWords[k]) : Word(c, x + 2 + w) = KeyWords[k][w]
    <2>1. \A a : Word(c, a) = IF a = x + 1 THEN v ELSE IF a = x + 2 THEN KeyLen[k] ELSE KeyWords[k][a - x - 2]
      BY DEF Word
    <2>2. ASSUME NEW w \in 1 .. Len(KeyWords[k]) PROVE Word(c, x + 2 + w) = KeyWords[k][w]
      <3> DEFINE a == x + 2 + w
      <3> HIDE DEF x, k, v
      <3>1. a # x + 1 /\ a # x + 2 /\ a - x - 2 = w
        BY <1>2, <1>6
      <3> HIDE DEF a
      <3>2. Word(c, a) = KeyWords[k][w]
        BY <2>1, <3>1
      <3> QED BY <3>2 DEF a
    <2> HIDE DEF x, k, v
    <2> QED BY <1>2, <2>1, <2>2
  <1>10. Linking(T, x) /\ Holds(x, k, v)
    <2>1. Linking(T, x)
      BY <1>2, <1>4, <1>7, <1>8
    <2>2. Fixed(x + 1, v) /\ Fixed(x + 2, KeyLen[k])
      BY <1>2, <1>4, <1>7, <1>8, <1>9
    <2>3. ASSUME NEW w \in 1 .. Len(KeyWords[k]) PROVE Fixed(x + 2 + w, KeyWords[k][w])
      <3>1. x + 2 + w # x
        BY <1>2
      <3> QED BY <1>5, <1>7, <1>8, <1>9, <3>1
    <2> QED BY <2>1, <2>2, <2>3 DEF Holds
  <1>11. S \cup {0} \subseteq T \cup {0} /\ S \subseteq T /\ T \subseteq Nat
    BY <1>1, <1>2
  <1> HIDE DEF T
  <1>12. Heads(T) /\ DueOK(T)
    BY <1>1, <1>11 DEF Common, Heads, DueOK
  <1>13. Chained(T)
    <2>1. ASSUME NEW y \in S PROVE Linking(T, y) /\ \E kv \in offered : Holds(y, kv[1], kv[2])
      BY <1>1, <1>11, <2>1 DEF Common, Chained, Linking
    <2>2. \A y \in T : y \in S \/ y = x
      BY DEF T
    <2>3. \E kv \in offered : Holds(x, kv[1], kv[2])
      BY <1>2, <1>10
    <2> QED BY <1>10, <2>1, <2>2, <2>3 DEF Chained
  <1>14. ASSUME NEW d \in Client, Owns(d) PROVE Mine(T, d)
    <2>1. Mine(S, d)
      BY <1>1, <1>14 DEF Common
    <2> QED BY <1>11, <2>1 DEF Mine
  <1>15. ASSUME NEW d \in Client PROVE Thread(T, d)
    BY <1>1, <1>11 DEF Thread
  <1>16. ASSUME NEW d \in Client, NEW q \in replies, q.client = d PROVE Answered(T, d, q.res)
    <2>1. Answered(S, d, q.res)
      BY <1>1, <1>16 DEF Told
    <2> QED BY <1>11, <2>1 DEF Answered
  <1>17. FarIInv(T)
    BY <1>1, <1>11, <1>12, <1>13, <1>14, <1>15, <1>16 DEF FarIInv, Common, Told
  <1> QED BY <1>17 DEF T

-------------------------------------------------------------------------------
(* What a thread does with an answer.                                          *)
Moved(S, c) ==
  /\ Thread(S, c)'
  /\ pc'[c] \in Label /\ ptr'[c] \in Nat /\ old'[c] \in Nat /\ i'[c] \in 0 .. N
  /\ result'[c] \in Nat \cup {Exception}
  /\ Filling(c)' => Owns(c) /\ ptr'[c] = ptr[c]

(* An answer that is no OK, or a time-out, ends the call.                      *)
LEMMA MoveFails ==
  ASSUME NEW S, FarIInv(S), NEW c \in Client, Waiting(c), NEW res, Continue(c, res), res.error # "OK",
         mem' = mem, offered' = offered
  PROVE  Moved(S, c)
  <1>1. FarTypes /\ Thread(S, c)
    BY DEF FarIInv
  <1>2. /\ pc \in [Client -> Label] /\ job \in [Client -> Jobs \cup {NoJob}]
        /\ ptr \in [Client -> Nat] /\ old \in [Client -> Nat] /\ i \in [Client -> 0 .. N]
        /\ result \in [Client -> Nat \cup {Exception}]
    BY <1>1, FarVars
  <1>3. pc[c] \in PutLabels \cup FindLabels
    BY <1>1, <1>2 DEF Label, Thread, Waiting, PutLabels, FindLabels, FillLabels
  <1>4. job[c] \in Jobs /\ job[c] # NoJob
    BY <1>1, <1>3, FarPut, FarFind
  <1>5. pc' = [pc EXCEPT ![c] = "return"] /\ result' = [result EXCEPT ![c] = Exception]
        /\ UNCHANGED <<ptr, old, i, job>>
    BY <1>4 DEF Continue, Returns, Goto
  <1>6. pc'[c] = "return" /\ result'[c] = Exception /\ Exception \notin Nat
    BY <1>2, <1>5 DEF Exception
  <1>7. Thread(S, c)'
    BY <1>6 DEF Thread, PutLabels, FindLabels, FillLabels
  <1> QED BY <1>2, <1>5, <1>6, <1>7 DEF Moved, Filling, FillLabels, Label

(* A block is read off the counter, then taken by its CAS.                     *)
LEMMA MoveAlloc ==
  ASSUME NEW S, FarIInv(S), NEW c \in Client, pc[c] \in {"allocRead", "allocCas"},
         NEW r \in replies, r.client = c, Continue(c, r.res), r.res.error = "OK",
         mem' = mem, offered' = offered
  PROVE  Moved(S, c)
  <1>1. FarTypes /\ Thread(S, c) /\ Answered(S, c, r.res)
    BY DEF FarIInv, Told
  <1>2. /\ pc \in [Client -> Label] /\ job \in [Client -> Jobs \cup {NoJob}]
        /\ ptr \in [Client -> Nat] /\ old \in [Client -> Nat] /\ i \in [Client -> 0 .. N]
        /\ result \in [Client -> Nat \cup {Exception}]
    BY <1>1, FarVars
  <1>3. AfterAlloc(c, r.res) /\ job' = job
    BY DEF Continue, AfterCheck, AfterInit, AfterFill, AfterLink, AfterFind
  <1>4. job[c] \in Jobs /\ job[c].kind = "put" /\ <<job[c].key, job[c].val>> \in offered
    BY <1>1, FarPut DEF PutLabels
  <1>5. CASE pc[c] = "allocRead"
    <2>1. pc'[c] = "allocCas" /\ ptr'[c] = r.res.result[1] /\ UNCHANGED <<old, i, result>>
      BY <1>2, <1>3, <1>5 DEF AfterAlloc, Goto
    <2>2. r.res.result[1] \in Nat /\ r.res.result[1] >= TableEnd
      BY <1>1, <1>5 DEF Answered
    <2>3. Thread(S, c)'
      BY <1>3, <1>4, <2>1, <2>2 DEF Thread, PutLabels, FindLabels, FillLabels
    <2> QED BY <1>2, <2>1, <2>2, <2>3 DEF Moved, Filling, FillLabels, Label
  <1>6. CASE pc[c] = "allocCas"
    <2>1. pc'[c] = (IF r.res.result[1] # 0 THEN "writeNext" ELSE "allocRead") /\ UNCHANGED <<ptr, old, i, result>>
      BY <1>2, <1>3, <1>6 DEF AfterAlloc, Goto, Keep
    <2>2. pc'[c] \in {"writeNext", "allocRead"} /\ (pc'[c] = "writeNext" => r.res.result[1] # 0)
      BY <2>1
    <2>3. pc'[c] = "writeNext" => Owns(c)
      BY <1>1, <1>6, <2>2 DEF Answered, Owns
    <2>4. Thread(S, c)'
      BY <1>3, <1>4, <2>2 DEF Thread, PutLabels, FindLabels, FillLabels
    <2> QED BY <1>2, <2>1, <2>2, <2>3, <2>4 DEF Moved, Filling, FillLabels, Label
  <1> QED BY <1>5, <1>6

(* The words of a record are written in order.                                 *)
LEMMA MoveFill ==
  ASSUME NEW S, FarIInv(S), NEW c \in Client, pc[c] \in {"writeNext", "writeVal", "writeLen", "writeKey"},
         NEW r \in replies, r.client = c, Continue(c, r.res), r.res.error = "OK",
         pc[c] = "writeKey" => ptr[c] \in S, mem' = mem, offered' = offered
  PROVE  Moved(S, c)
  <1>1. FarTypes /\ Thread(S, c) /\ Answered(S, c, r.res)
    BY DEF FarIInv, Told
  <1>2. /\ pc \in [Client -> Label] /\ job \in [Client -> Jobs \cup {NoJob}]
        /\ ptr \in [Client -> Nat] /\ old \in [Client -> Nat] /\ i \in [Client -> 0 .. N]
        /\ result \in [Client -> Nat \cup {Exception}]
    BY <1>1, FarVars
  <1>3. AfterFill(c) /\ job' = job
    BY DEF Continue, AfterCheck, AfterInit, AfterAlloc, AfterLink, AfterFind
  <1>4. job[c] \in Jobs /\ job[c].kind = "put" /\ <<job[c].key, job[c].val>> \in offered
    BY <1>1, FarPut DEF PutLabels, FillLabels
  <1>5. /\ pc[c] = "writeNext" => pc'[c] = "writeVal"
        /\ pc[c] = "writeVal" => pc'[c] = "writeLen"
        /\ pc[c] = "writeLen" => pc'[c] = "writeKey"
        /\ pc[c] = "writeKey" => pc'[c] = "readHead"
        /\ UNCHANGED <<ptr, old, i, result>>
    BY <1>2, <1>3 DEF AfterFill, Goto, Keep
  <1>6. Owns(c)
    BY DEF Owns, Filling, FillLabels
  <1>7. pc'[c] \in {"writeVal", "writeLen", "writeKey", "readHead"}
    BY <1>5
  <1>8. pc'[c] \in {"writeVal", "writeLen", "writeKey"} => ptr[c] < MemSize /\ mem[ptr[c]] \in S \cup {0}
    BY <1>1, <1>5 DEF Thread, Answered
  <1>9. pc'[c] \in {"writeLen", "writeKey"} => ptr[c] + 1 < MemSize /\ mem[ptr[c] + 1] = job[c].val
    BY <1>1, <1>5 DEF Thread, Answered
  <1>10. pc'[c] = "writeKey" => ptr[c] + 2 < MemSize /\ mem[ptr[c] + 2] = KeyLen[job[c].key]
    BY <1>1, <1>5 DEF Thread, Answered
  <1>11. pc'[c] = "readHead" => ptr[c] \in S
    BY <1>5
  <1>12. Thread(S, c)'
    BY <1>3, <1>4, <1>5, <1>7, <1>8, <1>9, <1>10, <1>11 DEF Thread, FindLabels
  <1> QED BY <1>2, <1>5, <1>6, <1>7, <1>12 DEF Moved, Label

(* The record is linked, then published.                                       *)
LEMMA MoveLink ==
  ASSUME NEW S, FarIInv(S), NEW c \in Client, pc[c] \in {"readHead", "link", "publish"},
         NEW r \in replies, r.client = c, Continue(c, r.res), r.res.error = "OK",
         mem' = mem, offered' = offered
  PROVE  Moved(S, c)
  <1>1. FarTypes /\ Thread(S, c) /\ Answered(S, c, r.res) /\ S \subseteq Nat
    BY DEF FarIInv, Told
  <1>2. /\ pc \in [Client -> Label] /\ job \in [Client -> Jobs \cup {NoJob}]
        /\ ptr \in [Client -> Nat] /\ old \in [Client -> Nat] /\ i \in [Client -> 0 .. N]
        /\ result \in [Client -> Nat \cup {Exception}]
    BY <1>1, FarVars
  <1>3. AfterLink(c, r.res) /\ job' = job
    BY DEF Continue, AfterCheck, AfterInit, AfterAlloc, AfterFill, AfterFind
  <1>4. job[c] \in Jobs /\ job[c].kind = "put" /\ <<job[c].key, job[c].val>> \in offered /\ ptr[c] \in S
    BY <1>1, FarPut DEF PutLabels, FillLabels, Thread
  <1>5. Owns(c)
    BY DEF Owns, Filling, FillLabels
  <1>6. CASE pc[c] = "readHead"
    <2>1. pc'[c] = "link" /\ old'[c] = r.res.result[1] /\ UNCHANGED <<ptr, i, result>>
      BY <1>2, <1>3, <1>6 DEF AfterLink, Goto
    <2>2. r.res.result[1] \in S \cup {0}
      BY <1>1, <1>6 DEF Answered
    <2>3. r.res.result[1] \in Nat
      <3>1. \A x \in S \cup {0} : x \in Nat
        BY <1>1
      <3> QED BY <2>2, <3>1
    <2>4. Thread(S, c)'
      BY <1>3, <1>4, <2>1, <2>2 DEF Thread, FindLabels
    <2> QED BY <1>2, <1>5, <2>1, <2>3, <2>4 DEF Moved, Label
  <1>7. CASE pc[c] = "link"
    <2>1. pc'[c] = "publish" /\ UNCHANGED <<ptr, old, i, result>>
      BY <1>2, <1>3, <1>7 DEF AfterLink, Goto, Keep
    <2>2. old[c] \in S \cup {0}
      BY <1>1, <1>7 DEF Thread
    <2>3. Thread(S, c)'
      BY <1>3, <1>4, <2>1, <2>2 DEF Thread, FindLabels
    <2> QED BY <1>2, <1>5, <2>1, <2>3 DEF Moved, Label
  <1>8. CASE pc[c] = "publish" /\ r.res.result[1] = 0
    <2>1. pc'[c] = "readHead" /\ UNCHANGED <<ptr, old, i, result>>
      BY <1>2, <1>3, <1>8 DEF AfterLink, Goto, Keep
    <2>2. Thread(S, c)'
      BY <1>3, <1>4, <2>1 DEF Thread, FindLabels
    <2> QED BY <1>2, <1>5, <2>1, <2>2 DEF Moved, Label
  <1>9. CASE pc[c] = "publish" /\ r.res.result[1] # 0
    <2>1. pc'[c] = "return" /\ result'[c] = 0 /\ UNCHANGED <<ptr, old, i>>
      BY <1>2, <1>3, <1>9 DEF AfterLink, Goto, Returns
    <2>2. Thread(S, c)'
      BY <1>3, <1>4, <2>1 DEF Thread, PutLabels, FillLabels, FindLabels
    <2> QED BY <1>2, <2>1, <2>2 DEF Moved, Label, Filling, FillLabels
  <1> QED BY <1>6, <1>7, <1>8, <1>9

(* Keys that agree with a record in length and words agree with its key.       *)
LEMMA KeyFound ==
  ASSUME NEW S, FarTypes, Chained(S), NEW x \in S, NEW k \in Key, mem[x + 2] = KeyLen[k],
         KeyWords[k] = [w \in 1 .. Len(KeyWords[k]) |-> mem[x + 2 + w]]
  PROVE  \E kv \in offered : kv[1] = k /\ mem[x + 1] = kv[2] /\ kv[2] \in Nat
  <1>1. PICK kv \in offered : Holds(x, kv[1], kv[2])
    BY DEF Chained
  <1> DEFINE l == kv[1]
  <1>2. l \in Key /\ kv[2] \in Nat
    BY DEF FarTypes
  <1>3. /\ mem[x + 1] = kv[2] /\ mem[x + 2] = KeyLen[l]
        /\ \A w \in 1 .. Len(KeyWords[l]) : mem[x + 2 + w] = KeyWords[l][w]
    BY <1>1 DEF Holds, Fixed
  <1> HIDE DEF l
  <1>4. KeyLen[k] = KeyLen[l] /\ Len(KeyWords[k]) = Len(KeyWords[l])
    <2>1. KeyLen[k] = KeyLen[l]
      BY <1>3
    <2>2. \A q, r \in Key : KeyLen[q] = KeyLen[r] => Len(KeyWords[q]) = Len(KeyWords[r])
      BY DHTAssumption
    <2> QED BY <1>2, <2>1, <2>2
  <1>5. \A w \in 1 .. Len(KeyWords[k]) : KeyWords[k][w] = KeyWords[l][w]
    BY <1>3, <1>4
  <1>6. KeyWords[k] \in Seq(Nat) /\ KeyWords[l] \in Seq(Nat)
    BY <1>2, DHTAssumption
  <1>7. KeyWords[k] = KeyWords[l]
    <2> DEFINE s == KeyWords[k]
               t == KeyWords[l]
    <2>1. s \in Seq(Nat) /\ t \in Seq(Nat) /\ Len(s) = Len(t) /\ \A w \in 1 .. Len(s) : s[w] = t[w]
      BY <1>4, <1>5, <1>6
    <2> HIDE DEF s, t
    <2>2. s = [w \in 1 .. Len(s) |-> s[w]] /\ t = [w \in 1 .. Len(t) |-> t[w]]
      BY <2>1
    <2>3. s = t
      BY <2>1, <2>2
    <2> QED BY <2>3 DEF s, t
  <1>8. k = l
    BY <1>2, <1>4, <1>7, DHTAssumption
  <1> QED BY <1>2, <1>3, <1>8 DEF l

(* A search goes from record to record.                                        *)
LEMMA MoveFind ==
  ASSUME NEW S, FarIInv(S), NEW c \in Client, pc[c] \in FindLabels,
         NEW r \in replies, r.client = c, Continue(c, r.res), r.res.error = "OK",
         mem' = mem, offered' = offered
  PROVE  Moved(S, c)
  <1>1. FarTypes /\ Thread(S, c) /\ Answered(S, c, r.res) /\ S \subseteq Nat /\ Chained(S)
    BY DEF FarIInv, Told, Common
  <1>2. /\ pc \in [Client -> Label] /\ job \in [Client -> Jobs \cup {NoJob}]
        /\ ptr \in [Client -> Nat] /\ old \in [Client -> Nat] /\ i \in [Client -> 0 .. N]
        /\ result \in [Client -> Nat \cup {Exception}]
    BY <1>1, FarVars
  <1>3. AfterFind(c, r.res) /\ job' = job
    BY DEF Continue, AfterCheck, AfterInit, AfterAlloc, AfterFill, AfterLink, FindLabels
  <1>4. job[c] \in Jobs /\ job[c].kind \in {"get", "has"} /\ job[c].key \in Key
    BY <1>1, FarFind
  <1>5. CASE pc[c] \in {"findHead", "findNext"}
    <2>1. Candidate(c, r.res.result[1]) /\ r.res.result[1] \in S \cup {0} /\ r.res.result[1] \in Nat
      <3>1. Candidate(c, r.res.result[1])
        BY <1>3, <1>5 DEF AfterFind
      <3>2. r.res.result[1] \in S \cup {0}
        BY <1>1, <1>5 DEF Answered
      <3> QED BY <1>1, <3>1, <3>2
    <2>2. CASE r.res.result[1] = 0
      <3>1. pc'[c] = "return" /\ result'[c] = 0 /\ ptr'[c] = 0 /\ UNCHANGED <<old, i>>
        BY <1>2, <2>1, <2>2 DEF Candidate, Returns, Goto
      <3>2. Thread(S, c)'
        BY <3>1 DEF Thread, PutLabels, FillLabels, FindLabels
      <3> QED BY <1>2, <3>1, <3>2 DEF Moved, Label, Filling, FillLabels
    <2>3. CASE r.res.result[1] # 0
      <3>1. pc'[c] = "cmpLen" /\ ptr'[c] = r.res.result[1] /\ UNCHANGED <<old, i, result>>
        BY <1>2, <2>1, <2>3 DEF Candidate, Goto
      <3>2. Thread(S, c)'
        BY <1>3, <1>4, <2>1, <2>3, <3>1 DEF Thread, PutLabels, FillLabels
      <3> QED BY <1>2, <2>1, <3>1, <3>2 DEF Moved, Label, Filling, FillLabels
    <2> QED BY <2>2, <2>3
  <1>6. CASE pc[c] = "cmpLen"
    <2>1. pc'[c] = (IF r.res.result[1] = KeyLen[job[c].key] THEN "cmpKey" ELSE "findNext")
          /\ UNCHANGED <<ptr, old, i, result>>
      BY <1>2, <1>3, <1>6 DEF AfterFind, Goto, Keep
    <2>2. pc'[c] \in {"cmpKey", "findNext"} /\ (pc'[c] = "cmpKey" => mem[ptr[c] + 2] = KeyLen[job[c].key])
      BY <1>1, <1>6, <2>1 DEF Answered
    <2>3. ptr[c] \in S
      BY <1>1, <1>6 DEF Thread
    <2>4. Thread(S, c)'
      BY <1>3, <1>4, <2>1, <2>2, <2>3 DEF Thread, PutLabels, FillLabels
    <2> QED BY <1>2, <2>1, <2>2, <2>4 DEF Moved, Label, Filling, FillLabels
  <1>7. CASE pc[c] = "cmpKey"
    <2>1. ptr[c] \in S /\ mem[ptr[c] + 2] = KeyLen[job[c].key]
      BY <1>1, <1>7 DEF Thread
    <2>2. CASE r.res.result # KeyWords[job[c].key]
      <3>1. pc'[c] = "findNext" /\ UNCHANGED <<ptr, old, i, result>>
        BY <1>2, <1>3, <1>7, <2>2 DEF AfterFind, Goto, Keep
      <3>2. Thread(S, c)'
        BY <1>3, <1>4, <2>1, <3>1 DEF Thread, PutLabels, FillLabels
      <3> QED BY <1>2, <3>1, <3>2 DEF Moved, Label, Filling, FillLabels
    <2>3. CASE r.res.result = KeyWords[job[c].key]
      <3>1. r.res.result = [w \in 1 .. Len(KeyWords[job[c].key]) |-> mem[ptr[c] + 2 + w]]
        BY <1>1, <1>7 DEF Answered
      <3>2. KeyWords[job[c].key] = [w \in 1 .. Len(KeyWords[job[c].key]) |-> mem[ptr[c] + 2 + w]]
        BY <2>3, <3>1
      <3>3. \E kv \in offered : kv[1] = job[c].key /\ mem[ptr[c] + 1] = kv[2]
        <4>1. PICK x, k : x = ptr[c] /\ k = job[c].key
          OBVIOUS
        <4>2. /\ x \in S /\ k \in Key /\ mem[x + 2] = KeyLen[k]
              /\ KeyWords[k] = [w \in 1 .. Len(KeyWords[k]) |-> mem[x + 2 + w]]
          BY <1>4, <2>1, <3>2, <4>1
        <4>3. \E kv \in offered : kv[1] = k /\ mem[x + 1] = kv[2] /\ kv[2] \in Nat
          BY <1>1, <4>2, KeyFound
        <4> QED BY <4>1, <4>3
      <3>4. Found(c)
        BY <1>3, <1>7, <2>3 DEF AfterFind
      <3>5. CASE job[c].kind = "get"
        <4>1. pc'[c] = "readVal" /\ UNCHANGED <<ptr, old, i, result>>
          BY <1>2, <3>4, <3>5 DEF Found, Goto, Keep
        <4>2. Thread(S, c)'
          BY <1>3, <1>4, <2>1, <3>3, <3>5, <4>1 DEF Thread, PutLabels, FillLabels
        <4> QED BY <1>2, <4>1, <4>2 DEF Moved, Label, Filling, FillLabels
      <3>6. CASE job[c].kind = "has"
        <4>1. pc'[c] = "return" /\ result'[c] = 1 /\ UNCHANGED <<ptr, old, i>>
          BY <1>2, <3>4, <3>6 DEF Found, Returns, Goto
        <4>2. Thread(S, c)'
          BY <1>3, <3>3, <3>6, <4>1 DEF Thread, PutLabels, FillLabels, FindLabels
        <4> QED BY <1>2, <4>1, <4>2 DEF Moved, Label, Filling, FillLabels
      <3> QED BY <1>4, <3>5, <3>6
    <2> QED BY <2>2, <2>3
  <1>8. CASE pc[c] = "readVal"
    <2>1. pc'[c] = "return" /\ result'[c] = r.res.result[1] /\ UNCHANGED <<ptr, old, i>>
      BY <1>2, <1>3, <1>8 DEF AfterFind, Returns, Goto
    <2>2. job[c].kind = "get" /\ \E kv \in offered : kv[1] = job[c].key /\ mem[ptr[c] + 1] = kv[2]
      BY <1>1, <1>8 DEF Thread
    <2>3. r.res.result[1] = mem[ptr[c] + 1]
      BY <1>1, <1>8 DEF Answered
    <2>4. result'[c] \in Nat
      BY <1>1, <2>1, <2>2, <2>3 DEF FarTypes
    <2>5. Thread(S, c)'
      BY <1>3, <2>1, <2>2, <2>3 DEF Thread, PutLabels, FillLabels, FindLabels
    <2> QED BY <1>2, <2>1, <2>4, <2>5 DEF Moved, Label, Filling, FillLabels
  <1> QED BY <1>5, <1>6, <1>7, <1>8 DEF FindLabels

-------------------------------------------------------------------------------
(* The steps of the clients.                                                   *)

(* One thread moves, and memory and what travels do not.                       *)
LEMMA OneMoves ==
  ASSUME NEW S, FarIInv(S), NEW c \in Client, Moved(S, c), Frame(c), job' = job, jobs' = jobs,
         mem' = mem, offered' = offered, Due' \subseteq Due,
         call' = [call EXCEPT ![c] = Idle], replies' = {x \in replies : x.client # c},
         timeouts' \in 0 .. MaxTimeouts,
         requests' \subseteq [client : Client, port : Port, op : FarOps, copy : 1 .. Tries + 1],
         \A q \in requests' : q \in requests \/ q.client = c
  PROVE  FarIInv(S)'
  <1>1. FarTypes /\ Common(S) /\ Exchanges /\ Told(S) /\ S \subseteq Nat /\ \A d \in Client : Thread(S, d)
    BY DEF FarIInv
  <1>2. \A d \in Client \ {c} : Asleep(d)
    BY DEF Frame, Others, Asleep
  <1>3. call \in [Client -> {Idle} \cup [op : FarOps, port : Port, sent : 1 .. Tries]]
    BY <1>1 DEF FarTypes
  <1>4. ~Sending(c)' /\ \A d \in Client \ {c} : call'[d] = call[d]
    BY <1>3 DEF Sending, Idle
  <1>5. \A d \in Client : Owns(d)' => Owns(d) /\ ptr'[d] = ptr[d] /\ job'[d] = job[d]
    <2>1. Owns(c)' => Filling(c)'
      BY DEF Owns
    <2>2. \A d \in Client \ {c} : Owns(d)' => Owns(d) /\ ptr'[d] = ptr[d]
      BY <1>2 DEF Owns, Filling, Asleep
    <2> QED BY <2>1, <2>2 DEF Moved
  <1>6. Common(S)'
    BY <1>1, <1>5, QuietCommon
  <1>7. FarTypes'
    <2>1. /\ pc' \in [Client -> Label] /\ ptr' \in [Client -> Nat] /\ old' \in [Client -> Nat]
          /\ i' \in [Client -> 0 .. N] /\ result' \in [Client -> Nat \cup {Exception}]
      <3>1. ASSUME NEW d \in Client
            PROVE  /\ pc'[d] \in Label /\ ptr'[d] \in Nat /\ old'[d] \in Nat
                   /\ i'[d] \in 0 .. N /\ result'[d] \in Nat \cup {Exception}
        <4>1. CASE d = c
          BY <4>1 DEF Moved
        <4>2. CASE d # c
          BY <1>1, <4>2, FarVars DEF Frame, Others
        <4> QED BY <4>1, <4>2
      <3> QED BY <3>1 DEF Frame
    <2>2. ProgramTypeOK'
      BY <1>1, <2>1, FarVars DEF ProgramTypeOK
    <2>3. call' \in [Client -> {Idle} \cup [op : FarOps, port : Port, sent : 1 .. Tries]]
      BY <1>3
    <2>4. replies' \subseteq replies
      OBVIOUS
    <2> QED BY <1>1, <2>2, <2>3, <2>4 DEF FarTypes
  <1>8. Exchanges'
    <2>1. ASSUME NEW d \in Client \ {c}, Waiting(d) PROVE OpOf(d)' = OpOf(d) /\ Waiting(d)'
      <3>1. pc[d] \in PutLabels \cup FindLabels
        <4>1. pc[d] \in Label /\ pc[d] \notin {"check", "initCounter", "initBin"}
          BY <1>1, FarVars DEF Thread
        <4> QED BY <2>1, <4>1 DEF Label, Waiting, PutLabels, FindLabels, FillLabels
      <3>2. pc'[d] = pc[d] /\ job'[d] = job[d] /\ ptr'[d] = ptr[d] /\ old'[d] = old[d] /\ i'[d] = i[d]
        BY DEF Frame, Others
      <3>3. Waiting(d)'
        BY <2>1, <3>2 DEF Waiting
      <3> QED BY <3>1, <3>2, <3>3 DEF OpOf, PutLabels, FindLabels, FillLabels
    <2>2. ASSUME NEW q \in requests', Sending(q.client)', call'[q.client].port = q.port
          PROVE  call'[q.client].op = q.op
      <3>1. q.client \in Client /\ q.client # c /\ q \in requests
        BY <1>4, <2>2
      <3> QED BY <1>1, <1>4, <2>2, <3>1 DEF Exchanges, Sending
    <2>3. ASSUME NEW d \in Client, Sending(d)' PROVE Waiting(d)' /\ call'[d].op = OpOf(d)'
      <3>1. d # c /\ Sending(d)
        BY <1>4, <2>3 DEF Sending
      <3> QED BY <1>1, <1>4, <2>1, <3>1 DEF Exchanges
    <2>4. ASSUME NEW x \in replies' PROVE Sending(x.client)'
      <3>1. x \in replies /\ x.client # c /\ x.client \in Client
        BY <1>1 DEF FarTypes
      <3> QED BY <1>1, <1>4, <3>1 DEF Exchanges, Sending
    <2> QED BY <2>2, <2>3, <2>4 DEF Exchanges
  <1>9. Steady(S) /\ \A d \in Client : Building(S, d)
    BY DEF Steady, Building
  <1>10. ASSUME NEW d \in Client PROVE Thread(S, d)'
    <2>1. CASE d = c
      BY <2>1 DEF Moved
    <2>2. CASE d # c
      BY <1>1, <1>2, <1>9, <2>2, ThreadStays
    <2> QED BY <2>1, <2>2
  <1>11. ASSUME NEW d \in Client, NEW x \in replies', x.client = d PROVE Answered(S, d, x.res)'
    <2>1. x \in replies /\ d # c
      BY <1>11
    <2>2. Answered(S, d, x.res)
      BY <1>1, <1>11, <2>1 DEF Told
    <2> QED BY <1>1, <1>2, <1>9, <2>1, <2>2, AnswerStays
  <1> QED BY <1>1, <1>6, <1>7, <1>8, <1>10, <1>11 DEF FarIInv, Told

(* An answer comes; the one that ends the filling makes the block a record.    *)
LEMMA FarReceive ==
  ASSUME NEW S, FarIInv(S), NEW c \in Client, Receive(c)
  PROVE  \E T : FarIInv(T)'
  <1>1. PICK r \in replies :
           /\ r.client = c /\ Sending(c) /\ Continue(c, r.res)
           /\ call' = [call EXCEPT ![c] = Idle] /\ replies' = {x \in replies : x.client # c}
           /\ UNCHANGED <<mem, requests, timeouts, offered>>
    BY ReceiveStep
  <1>2. PICK T : FarIInv(T) /\ (pc[c] = "writeKey" /\ r.res.error = "OK" => ptr[c] \in T)
    <2>1. CASE pc[c] = "writeKey" /\ r.res.error = "OK"
      <3>1. FarIInv(S \cup {ptr[c]}) /\ ptr[c] \in S \cup {ptr[c]}
        BY <1>1, <2>1, FarGrows
      <3> QED BY <3>1
    <2>2. CASE ~(pc[c] = "writeKey" /\ r.res.error = "OK")
      BY <2>2
    <2> QED BY <2>1, <2>2
  <1>4. FarTypes /\ Exchanges /\ Thread(T, c)
    BY <1>2 DEF FarIInv
  <1>5. Waiting(c)
    BY <1>1, <1>4 DEF Exchanges
  <1>6. Frame(c) /\ job' = job /\ jobs' = jobs
    BY <1>1, <1>4, FarVars, ContinueFrame
  <1>7. Moved(T, c)
    <2>1. pc[c] \in PutLabels \cup FindLabels
      BY <1>4, <1>5, FarVars DEF Label, Thread, Waiting, PutLabels, FindLabels, FillLabels
    <2>2. CASE r.res.error # "OK"
      BY <1>1, <1>2, <1>5, <2>2, MoveFails
    <2>3. CASE r.res.error = "OK" /\ pc[c] \in {"allocRead", "allocCas"}
      BY <1>1, <1>2, <2>3, MoveAlloc
    <2>4. CASE r.res.error = "OK" /\ pc[c] \in {"writeNext", "writeVal", "writeLen", "writeKey"}
      BY <1>1, <1>2, <2>4, MoveFill
    <2>5. CASE r.res.error = "OK" /\ pc[c] \in {"readHead", "link", "publish"}
      BY <1>1, <1>2, <2>5, MoveLink
    <2>6. CASE r.res.error = "OK" /\ pc[c] \in FindLabels
      BY <1>1, <1>2, <2>6, MoveFind
    <2> QED BY <2>1, <2>2, <2>3, <2>4, <2>5, <2>6 DEF PutLabels, FillLabels
  <1>8. Due' \subseteq Due
    <2>1. \A d \in Client : Sending(d)' => Sending(d) /\ call'[d] = call[d]
      BY <1>1, <1>4 DEF FarTypes, Sending, Idle
    <2> QED BY <1>1, <2>1 DEF Due
  <1>9. /\ requests' \subseteq [client : Client, port : Port, op : FarOps, copy : 1 .. Tries + 1]
        /\ timeouts' \in 0 .. MaxTimeouts /\ \A q \in requests' : q \in requests \/ q.client = c
    BY <1>1, <1>4 DEF FarTypes
  <1>10. FarIInv(T)'
    <2>1. mem' = mem /\ offered' = offered
      BY <1>1
    <2> QED BY <1>1, <1>2, <1>6, <1>7, <1>8, <1>9, <2>1, OneMoves
  <1> QED BY <1>10

(* A call is given up, and its last copy travels on.                           *)
LEMMA FarAbandon ==
  ASSUME NEW S, FarIInv(S), NEW c \in Client, Abandon(c), Tries \in Nat \ {0}, MaxTimeouts \in Nat
  PROVE  FarIInv(S)'
  <1>1. /\ Sending(c) /\ timeouts < MaxTimeouts /\ timeouts' = timeouts + 1
        /\ Continue(c, Failed("TIME_OUT"))
        /\ call' = [call EXCEPT ![c] = Idle] /\ replies' = {x \in replies : x.client # c}
        /\ requests' = requests \cup {[client |-> c, port |-> call[c].port, op |-> call[c].op,
                                      copy |-> Tries + 1]}
        /\ UNCHANGED <<mem, offered>>
    BY AbandonStep
  <1>2. FarTypes /\ Exchanges
    BY DEF FarIInv
  <1>3. Waiting(c)
    BY <1>1, <1>2 DEF Exchanges
  <1>4. Frame(c) /\ job' = job /\ jobs' = jobs
    BY <1>1, <1>2, FarVars, ContinueFrame
  <1>5. Moved(S, c)
    <2>1. Failed("TIME_OUT").error # "OK"
      BY DEF Failed
    <2> QED BY <1>1, <1>3, <2>1, MoveFails
  <1>6. call[c].op \in FarOps /\ call[c].port \in Port /\ call[c].op \in Due
    <2>1. call[c] \in {Idle} \cup [op : FarOps, port : Port, sent : 1 .. Tries] /\ call[c] # Idle
      BY <1>1, <1>2 DEF FarTypes, Sending, Idle
    <2> QED BY <1>1, <2>1 DEF Due
  <1>7. Due' \subseteq Due
    <2>1. \A d \in Client : Sending(d)' => Sending(d) /\ call'[d] = call[d]
      BY <1>1, <1>2 DEF FarTypes, Sending, Idle
    <2>2. \A q \in requests' : q \in requests \/ q.op = call[c].op
      BY <1>1
    <2> QED BY <1>6, <2>1, <2>2 DEF Due
  <1>8. requests' \subseteq [client : Client, port : Port, op : FarOps, copy : 1 .. Tries + 1]
    <2>1. [client |-> c, port |-> call[c].port, op |-> call[c].op, copy |-> Tries + 1]
            \in [client : Client, port : Port, op : FarOps, copy : 1 .. Tries + 1]
      BY <1>6
    <2> QED BY <1>1, <1>2, <2>1 DEF FarTypes
  <1>9. timeouts' \in 0 .. MaxTimeouts
    BY <1>1, <1>2 DEF FarTypes
  <1>10. \A q \in requests' : q \in requests \/ q.client = c
    BY <1>1
  <1> QED BY <1>1, <1>4, <1>5, <1>7, <1>8, <1>9, <1>10, OneMoves

(* A new operation, or an old one, is sent: the requests and calls grow.       *)
LEMMA FarSends ==
  ASSUME NEW S, FarIInv(S), Common(S)', NEW c \in Client, NEW o \in FarOps, NEW p \in Port,
         Tries \in Nat \ {0}, NEW n \in 1 .. Tries, Waiting(c), o = OpOf(c),
         \A q \in requests : q.client = c /\ q.port = p => q.op = o,
         call' = [call EXCEPT ![c] = [op |-> o, port |-> p, sent |-> n]],
         requests' = requests \cup {[client |-> c, port |-> p, op |-> o, copy |-> n]},
         timeouts' \in 0 .. MaxTimeouts,
         mem' = mem, replies' = replies, programVars' = programVars, offered' = offered
  PROVE  FarIInv(S)'
  <1>1. FarTypes /\ Exchanges /\ Told(S) /\ S \subseteq Nat /\ \A d \in Client : Thread(S, d)
    BY DEF FarIInv
  <1>2. \A d : Asleep(d)
    BY DEF Asleep, programVars
  <1>3. Steady(S) /\ \A d \in Client : Building(S, d)
    BY DEF Steady, Building
  <1>4. call \in [Client -> {Idle} \cup [op : FarOps, port : Port, sent : 1 .. Tries]]
    BY <1>1 DEF FarTypes
  <1>5. /\ call'[c] = [op |-> o, port |-> p, sent |-> n]
        /\ \A d \in Client \ {c} : call'[d] = call[d]
    BY <1>4
  <1>6. FarTypes'
    <2>1. [op |-> o, port |-> p, sent |-> n] \in [op : FarOps, port : Port, sent : 1 .. Tries]
      OBVIOUS
    <2>2. call' \in [Client -> {Idle} \cup [op : FarOps, port : Port, sent : 1 .. Tries]]
      BY <1>4, <2>1
    <2>3. [client |-> c, port |-> p, op |-> o, copy |-> n]
            \in [client : Client, port : Port, op : FarOps, copy : 1 .. Tries + 1]
      <3>1. n \in 1 .. Tries + 1
        OBVIOUS
      <3> QED BY <3>1
    <2>4. ProgramTypeOK'
      BY <1>1, FarVars DEF programVars, ProgramTypeOK
    <2> QED BY <1>1, <2>2, <2>3, <2>4 DEF FarTypes
  <1>7. Exchanges'
    <2>1. \A d : OpOf(d)' = OpOf(d) /\ (Waiting(d)' <=> Waiting(d))
      BY DEF OpOf, Waiting, programVars
    <2>2. Sending(c)' /\ \A d \in Client \ {c} : Sending(d)' <=> Sending(d)
      BY <1>5 DEF Sending
    <2>3. ASSUME NEW q \in requests', Sending(q.client)', call'[q.client].port = q.port
          PROVE  call'[q.client].op = q.op
      <3>1. CASE q \in requests /\ q.client # c
        <4>1. q.client \in Client \ {c}
          BY <1>1, <3>1 DEF FarTypes
        <4> QED BY <1>1, <1>5, <2>2, <2>3, <3>1, <4>1 DEF Exchanges
      <3>2. CASE q \in requests /\ q.client = c
        BY <1>5, <2>3, <3>2
      <3>3. CASE q = [client |-> c, port |-> p, op |-> o, copy |-> n]
        BY <1>5, <3>3
      <3> QED BY <3>1, <3>2, <3>3
    <2>4. ASSUME NEW d \in Client, Sending(d)' PROVE Waiting(d)' /\ call'[d].op = OpOf(d)'
      <3>1. CASE d = c
        BY <1>5, <2>1, <3>1
      <3>2. CASE d # c
        BY <1>1, <1>5, <2>1, <2>2, <2>4, <3>2 DEF Exchanges
      <3> QED BY <3>1, <3>2
    <2>5. ASSUME NEW x \in replies' PROVE Sending(x.client)'
      <3>1. x \in replies /\ x.client \in Client
        BY <1>1 DEF FarTypes
      <3> QED BY <1>1, <2>2, <3>1 DEF Exchanges
    <2> QED BY <2>3, <2>4, <2>5 DEF Exchanges
  <1>8. ASSUME NEW d \in Client PROVE Thread(S, d)'
    BY <1>1, <1>2, <1>3, ThreadStays
  <1>9. ASSUME NEW d \in Client, NEW x \in replies', x.client = d PROVE Answered(S, d, x.res)'
    <2>1. Answered(S, d, x.res)
      BY <1>1, <1>9 DEF Told
    <2> QED BY <1>1, <1>2, <1>3, <2>1, AnswerStays
  <1> QED BY <1>1, <1>6, <1>7, <1>8, <1>9 DEF FarIInv, Told

(* A copy of the same request is sent.                                         *)
LEMMA FarRetry ==
  ASSUME NEW S, FarIInv(S), NEW c \in Client, Retry(c), Tries \in Nat \ {0}, MaxTimeouts \in Nat
  PROVE  FarIInv(S)'
  <1>1. /\ Sending(c) /\ timeouts < MaxTimeouts /\ call[c].sent < Tries /\ timeouts' = timeouts + 1
        /\ call' = [call EXCEPT ![c].sent = call[c].sent + 1]
        /\ requests' = requests \cup {[client |-> c, port |-> call[c].port, op |-> call[c].op,
                                      copy |-> call[c].sent + 1]}
        /\ UNCHANGED <<mem, replies, programVars, offered>>
    BY RetryStep
  <1> DEFINE o == call[c].op
             p == call[c].port
             n == call[c].sent + 1
  <1>2. FarTypes /\ Exchanges /\ Common(S)
    BY DEF FarIInv
  <1>3. call \in [Client -> {Idle} \cup [op : FarOps, port : Port, sent : 1 .. Tries]]
    BY <1>2 DEF FarTypes
  <1>4. call[c] \in [op : FarOps, port : Port, sent : 1 .. Tries]
    <2>1. call[c] # Idle
      BY <1>1 DEF Sending, Idle
    <2> QED BY <1>3, <2>1
  <1>5. o \in FarOps /\ p \in Port /\ n \in 1 .. Tries
    BY <1>1, <1>4
  <1>6. Waiting(c) /\ o = OpOf(c)
    BY <1>1, <1>2 DEF Exchanges
  <1>7. \A q \in requests : q.client = c /\ q.port = p => q.op = o
    BY <1>1, <1>2 DEF Exchanges
  <1>8. call' = [call EXCEPT ![c] = [op |-> o, port |-> p, sent |-> n]]
    <2>1. [call[c] EXCEPT !.sent = n] = [op |-> o, port |-> p, sent |-> n]
      BY <1>4
    <2>2. call' = [call EXCEPT ![c] = [call[c] EXCEPT !.sent = n]]
      BY <1>1
    <2> QED BY <2>1, <2>2
  <1>9. timeouts' \in 0 .. MaxTimeouts
    BY <1>1, <1>2 DEF FarTypes
  <1>10. requests' = requests \cup {[client |-> c, port |-> p, op |-> o, copy |-> n]}
    BY <1>1
  <1>11. Due' \subseteq Due
    <2>1. o \in Due
      BY <1>1 DEF Due
    <2>2. \A d \in Client : Sending(d)' => Sending(d) /\ call'[d].op = call[d].op
      <3>1. call'[c] = [op |-> o, port |-> p, sent |-> n] /\ \A d \in Client \ {c} : call'[d] = call[d]
        BY <1>3, <1>8
      <3>2. Sending(c) /\ call'[c].op = o
        BY <1>1, <3>1
      <3> QED BY <3>1, <3>2 DEF Sending
    <2>3. \A q \in requests' : q \in requests \/ q.op = o
      BY <1>10
    <2> QED BY <2>1, <2>2, <2>3 DEF Due
  <1>12. Common(S)'
    <2>1. \A d \in Client : Owns(d)' => Owns(d) /\ ptr'[d] = ptr[d] /\ job'[d] = job[d]
      BY <1>1 DEF Owns, Filling, programVars
    <2> QED BY <1>1, <1>2, <1>11, <2>1, QuietCommon
  <1> HIDE DEF o, p, n
  <1>13. \E x \in FarOps, y \in Port, z \in 1 .. Tries :
           /\ x = OpOf(c) /\ \A q \in requests : q.client = c /\ q.port = y => q.op = x
           /\ call' = [call EXCEPT ![c] = [op |-> x, port |-> y, sent |-> z]]
           /\ requests' = requests \cup {[client |-> c, port |-> y, op |-> x, copy |-> z]}
    BY <1>5, <1>6, <1>7, <1>8, <1>10
  <1> QED BY <1>1, <1>6, <1>9, <1>12, <1>13, FarSends

(* What a thread sends: an operation of the types that packets have, which     *)
(* writes to its own block only, and links or publishes records only.          *)
LEMMA FarOpOf ==
  ASSUME NEW S, FarIInv(S), NEW c \in Client, Waiting(c)
  PROVE  LET o == OpOf(c) IN
         /\ o \in FarOps
         /\ o.kind = "WRITE" => /\ TableEnd <= o.addr /\ o.addr + Len(o.values) <= mem[0]
                                /\ Filling(c)
                                /\ \A a \in Nat : Stores(o, a) =>
                                     /\ InBlock(c, a)
                                     /\ IF a = ptr[c] THEN Stored(o, a) \in S \cup {0}
                                        ELSE Stored(o, a) = Word(c, a)
         /\ o.kind = "CAS" => \/ o.addr = 0 /\ TableEnd <= o.test /\ o.test <= o.value
                              \/ 1 <= o.addr /\ o.addr < TableEnd /\ o.value \in S
  <1> DEFINE o == OpOf(c)
             k == job[c].key
             p == ptr[c]
             n == recLen(k)
  <1>1. FarTypes /\ Common(S) /\ Thread(S, c) /\ S \subseteq Nat
    BY DEF FarIInv
  <1>2. pc[c] \in PutLabels \cup FindLabels
    <2>1. pc[c] \in Label /\ pc[c] \notin {"check", "initCounter", "initBin"}
      BY <1>1, FarVars DEF Thread
    <2> QED BY <2>1 DEF Label, Waiting, PutLabels, FindLabels, FillLabels
  <1>3. /\ k \in Key /\ p \in Nat /\ old[c] \in Nat
        /\ pc[c] \in PutLabels => job[c].val \in Nat
    BY <1>1, <1>2, FarPut, FarFind, FarVars
  <1>4. /\ hashPtr(k) \in Nat /\ 1 <= hashPtr(k) /\ hashPtr(k) < TableEnd /\ KeyLen[k] \in Nat
        /\ KeyWords[k] \in Seq(Nat) /\ Len(KeyWords[k]) \in Nat /\ n = 3 + Len(KeyWords[k])
        /\ TableEnd \in Nat
    BY <1>3, FarLayout
  <1>5. mem[0] \in Nat
    BY <1>1, FarVars
  <1>6. ASSUME pc[c] \in FillLabels
        PROVE  TableEnd <= p /\ p + n <= mem[0] /\ (\A a : InBlock(c, a) <=> p <= a /\ a < p + n) /\ Filling(c)
    <2>1. Filling(c) /\ Mine(S, c)
      BY <1>1, <1>6 DEF Common, Owns, Filling
    <2>2. \A a : InBlock(c, a) <=> p <= a /\ a < p + n
      BY DEF InBlock
    <2> HIDE DEF p, n
    <2>3. p \in Nat /\ n \in Nat /\ n >= 3 /\ p + n - 1 \in Nat
      BY <1>3, <1>4
    <2>4. Given(p) /\ Given(p + n - 1)
      <3>1. p <= p /\ p < p + n /\ p <= p + n - 1 /\ p + n - 1 < p + n
        BY <2>3
      <3> QED BY <2>1, <2>2, <2>3, <3>1 DEF Mine
    <2>5. TableEnd <= p /\ p + n <= mem[0]
      BY <1>5, <2>3, <2>4 DEF Given
    <2> QED BY <2>1, <2>2, <2>5
  <1>7. ASSUME NEW a \in Nat, NEW vs \in Seq(Nat), o = Write(a, vs), pc[c] \in FillLabels,
               p <= a, a + Len(vs) <= p + n,
               \A w \in 1 .. Len(vs) : IF a + w - 1 = p THEN vs[w] \in S \cup {0}
                                       ELSE vs[w] = Word(c, a + w - 1)
        PROVE  /\ o \in FarOps /\ o.kind = "WRITE"
               /\ TableEnd <= o.addr /\ o.addr + Len(o.values) <= mem[0] /\ Filling(c)
               /\ \A x \in Nat : Stores(o, x) => /\ InBlock(c, x)
                                                 /\ IF x = p THEN Stored(o, x) \in S \cup {0}
                                                    ELSE Stored(o, x) = Word(c, x)
    <2>1. o.kind = "WRITE" /\ o.addr = a /\ o.values = vs /\ o \in FarOps /\ Len(vs) \in Nat
      BY <1>7 DEF Write, FarOps
    <2> HIDE DEF o, p, n
    <2>2. TableEnd <= a /\ a + Len(vs) <= mem[0] /\ Filling(c)
      <3>1. n \in Nat
        BY <1>4
      <3> QED BY SMTT(30), <1>3, <1>4, <1>5, <1>6, <1>7, <2>1, <3>1
    <2>3. ASSUME NEW x \in Nat, Stores(o, x)
          PROVE  InBlock(c, x) /\ IF x = p THEN Stored(o, x) \in S \cup {0} ELSE Stored(o, x) = Word(c, x)
      <3> DEFINE w == x - a + 1
      <3>1. a <= x /\ x < a + Len(vs)
        BY <2>1, <2>3 DEF Stores
      <3>2. w \in 1 .. Len(vs) /\ a + w - 1 = x
        BY <2>1, <3>1
      <3>3. Stored(o, x) = vs[w]
        BY <2>1 DEF Stored
      <3>4. InBlock(c, x)
        <4>1. p <= x /\ x < p + n
          BY <1>3, <1>4, <1>7, <2>1, <3>1 DEF n
        <4> QED BY <1>6, <1>7, <4>1
      <3> HIDE DEF w
      <3>5. IF x = p THEN vs[w] \in S \cup {0} ELSE vs[w] = Word(c, x)
        BY <1>7, <3>2
      <3> QED BY <3>3, <3>4, <3>5
    <2> QED BY <2>1, <2>2, <2>3
  <1>8. ASSUME NEW a \in Nat, NEW m \in Nat, o = Read(a, m) PROVE o \in FarOps /\ o.kind = "READ"
    BY <1>8 DEF Read, FarOps
  <1>9. ASSUME NEW a \in Nat, NEW t \in Nat, NEW v \in Nat, o = Cas(a, t, v)
        PROVE  o \in FarOps /\ o.kind = "CAS" /\ o.addr = a /\ o.test = t /\ o.value = v
    BY <1>9 DEF Cas, FarOps
  <1>10. CASE pc[c] \in {"allocRead", "readHead"} \cup FindLabels
    <2>1. \E a \in Nat, m \in Nat : o = Read(a, m)
      <3>1. pc[c] = "allocRead" => o = Read(0, 1)
        BY DEF OpOf
      <3>2. pc[c] \in {"readHead", "findHead"} => o = Read(hashPtr(k), 1)
        BY DEF OpOf
      <3>3. pc[c] \in {"cmpLen", "findNext", "readVal"} =>
              o = Read(p + 2, 1) \/ o = Read(p, 1) \/ o = Read(p + 1, 1)
        BY DEF OpOf
      <3>4. pc[c] = "cmpKey" => o = Read(p + 3, Len(KeyWords[k]))
        BY DEF OpOf
      <3>5. p + 1 \in Nat /\ p + 2 \in Nat /\ p + 3 \in Nat /\ 0 \in Nat /\ 1 \in Nat
        BY <1>3
      <3> HIDE DEF o
      <3> QED BY <1>3, <1>4, <1>10, <3>1, <3>2, <3>3, <3>4, <3>5 DEF FindLabels
    <2> HIDE DEF o
    <2>2. o \in FarOps /\ o.kind = "READ"
      BY <1>8, <2>1
    <2> QED BY <2>2 DEF o
  <1>11. CASE pc[c] = "allocCas"
    <2>1. o = Cas(0, p, p + n) /\ p + n \in Nat /\ 0 \in Nat /\ p <= p + n
      BY <1>3, <1>4, <1>11 DEF OpOf
    <2>2. TableEnd <= p
      BY <1>1, <1>11 DEF Thread
    <2> HIDE DEF o, n
    <2>3. o \in FarOps /\ o.kind = "CAS" /\ o.addr = 0 /\ o.test = p /\ o.value = p + n
      BY <1>3, <1>9, <2>1
    <2> QED BY <2>1, <2>2, <2>3 DEF o
  <1>12. CASE pc[c] = "publish"
    <2>1. o = Cas(hashPtr(k), old[c], p)
      BY <1>12 DEF OpOf
    <2>2. p \in S
      BY <1>1, <1>12 DEF Thread
    <2> HIDE DEF o
    <2>3. o \in FarOps /\ o.kind = "CAS" /\ o.addr = hashPtr(k) /\ o.value = p
      BY <1>3, <1>4, <1>9, <2>1
    <2> QED BY <1>4, <2>2, <2>3 DEF o
  <1>13. CASE pc[c] \in {"writeNext", "link"}
    <2>1. PICK v \in S \cup {0} : o = Write(p, <<v>>) /\ v \in Nat
      BY <1>1, <1>13 DEF OpOf, Thread
    <2>2. <<v>> \in Seq(Nat) /\ Len(<<v>>) = 1 /\ p + 1 <= p + n
      BY <1>3, <1>4, <2>1
    <2>3. \A w \in 1 .. 1 : p + w - 1 = p /\ <<v>>[w] \in S \cup {0}
      BY <1>3
    <2>4. pc[c] \in FillLabels /\ p <= p
      BY <1>3, <1>13 DEF FillLabels
    <2> HIDE DEF o, n
    <2> QED BY <1>3, <1>7, <2>1, <2>2, <2>3, <2>4 DEF o
  <1>14. CASE pc[c] \in {"writeVal", "writeLen"}
    <2>1. PICK j \in 1 .. 2, v \in Nat : o = Write(p + j, <<v>>) /\ v = Word(c, p + j)
      <3>1. CASE pc[c] = "writeVal"
        <4>1. o = Write(p + 1, <<job[c].val>>) /\ Word(c, p + 1) = job[c].val /\ job[c].val \in Nat
          BY <1>3, <3>1 DEF OpOf, Word, PutLabels, FillLabels
        <4> QED BY <4>1
      <3>2. CASE pc[c] = "writeLen"
        <4>1. o = Write(p + 2, <<KeyLen[k]>>) /\ Word(c, p + 2) = KeyLen[k]
          BY <1>3, <3>2 DEF OpOf, Word
        <4> QED BY <1>4, <4>1
      <3> QED BY <1>14, <3>1, <3>2
    <2>2. <<v>> \in Seq(Nat) /\ Len(<<v>>) = 1 /\ p + j + 1 <= p + n /\ p <= p + j /\ p + j \in Nat
      <3>1. <<v>> \in Seq(Nat) /\ Len(<<v>>) = 1
        OBVIOUS
      <3> HIDE DEF n, p
      <3>2. n >= 3 /\ n \in Nat /\ p \in Nat /\ j \in 1 .. 2
        BY <1>3, <1>4
      <3> QED BY <3>1, <3>2
    <2>3. \A w \in 1 .. 1 : p + j + w - 1 = p + j /\ p + j # p /\ <<v>>[w] = v
      BY <1>3
    <2>4. pc[c] \in FillLabels
      BY <1>14 DEF FillLabels
    <2> DEFINE a == p + j
               vs == <<v>>
    <2>5. \A w \in 1 .. Len(vs) : IF a + w - 1 = p THEN vs[w] \in S \cup {0} ELSE vs[w] = Word(c, a + w - 1)
      BY <2>1, <2>2, <2>3
    <2>6. a \in Nat /\ vs \in Seq(Nat) /\ o = Write(a, vs) /\ p <= a /\ a + Len(vs) <= p + n
      BY <2>1, <2>2
    <2> HIDE DEF a, vs, o, n, p
    <2> QED BY <1>7, <2>4, <2>5, <2>6 DEF o, p
  <1>15. CASE pc[c] = "writeKey"
    <2> DEFINE a == p + 3
               vs == KeyWords[k]
    <2>1. o = Write(a, vs) /\ a \in Nat /\ vs \in Seq(Nat) /\ p <= a /\ a + Len(vs) <= p + n
      BY <1>3, <1>4, <1>15 DEF OpOf
    <2>2. ASSUME NEW w \in 1 .. Len(vs) PROVE a + w - 1 # p /\ vs[w] = Word(c, a + w - 1)
      <3> DEFINE x == a + w - 1
      <3>1. x # p /\ x # p + 1 /\ x # p + 2 /\ x - p - 2 = w
        <4> HIDE DEF vs, k, p
        <4>1. p \in Nat /\ w \in Nat /\ w >= 1
          BY <1>3, <1>4 DEF vs
        <4> QED BY <4>1
      <3>2. Word(c, x) = IF x = p + 1 THEN job[c].val ELSE IF x = p + 2 THEN KeyLen[k] ELSE vs[x - p - 2]
        BY DEF Word
      <3> HIDE DEF x, vs, p
      <3>3. Word(c, x) = vs[w]
        BY <3>1, <3>2
      <3> QED BY <3>1, <3>3 DEF x
    <2>3. pc[c] \in FillLabels
      BY <1>15 DEF FillLabels
    <2> HIDE DEF a, vs, o, n, p
    <2> QED BY <1>7, <2>1, <2>2, <2>3 DEF o, p
  <1> QED BY <1>2, <1>10, <1>11, <1>12, <1>13, <1>14, <1>15 DEF PutLabels, FillLabels

(* A new request is sent, from a port that no old one of the client has.       *)
LEMMA FarIssue ==
  ASSUME NEW S, FarIInv(S), NEW c \in Client, Issue(c), FreshPorts, Tries \in Nat \ {0}
  PROVE  FarIInv(S)'
  <1> DEFINE o == OpOf(c)
  <1>1. PICK p \in Port :
           /\ Waiting(c) /\ ~Sending(c)
           /\ \A q \in requests : ~(q.client = c /\ q.port = p)
           /\ call' = [call EXCEPT ![c] = [op |-> o, port |-> p, sent |-> 1]]
           /\ requests' = requests \cup {[client |-> c, port |-> p, op |-> o, copy |-> 1]}
           /\ UNCHANGED <<mem, replies, timeouts, programVars, offered>>
    BY IssueStep
  <1>2. /\ o \in FarOps
        /\ o.kind = "WRITE" => /\ TableEnd <= o.addr /\ o.addr + Len(o.values) <= mem[0] /\ Owns(c)
                               /\ \A a \in Nat : Stores(o, a) =>
                                     /\ InBlock(c, a)
                                     /\ IF a = ptr[c] THEN Stored(o, a) \in S \cup {0}
                                        ELSE Stored(o, a) = Word(c, a)
        /\ o.kind = "CAS" => \/ o.addr = 0 /\ TableEnd <= o.test /\ o.test <= o.value
                             \/ 1 <= o.addr /\ o.addr < TableEnd /\ o.value \in S
    BY <1>1, FarOpOf DEF Owns
  <1> HIDE DEF o
  <1>3. FarTypes /\ Common(S) /\ S \subseteq Nat
    BY DEF FarIInv
  <1>4. Due' \subseteq Due \cup {o}
    <2>1. call'[c].op = o /\ \A d \in Client \ {c} : call'[d] = call[d]
      BY <1>1, <1>3 DEF FarTypes
    <2>2. \A q \in requests' : q \in requests \/ q.op = o
      BY <1>1
    <2> QED BY <2>1, <2>2 DEF Due, Sending
  <1>5. \A d, a : /\ InBlock(d, a)' <=> InBlock(d, a)
                  /\ Word(d, a)' = Word(d, a) /\ ptr'[d] = ptr[d]
                  /\ Given(a)' <=> Given(a)
    BY <1>1 DEF InBlock, Word, Given, programVars
  <1>6. \A d : Owns(d)' <=> Owns(d)
    BY <1>1 DEF Owns, Filling, programVars
  <1>7. ASSUME NEW a \in Nat, Stores(o, a)
        PROVE  /\ Owns(c) /\ InBlock(c, a)
               /\ a = ptr[c] => Stored(o, a) \in S \cup {0}
               /\ a # ptr[c] => Stored(o, a) = Word(c, a)
    <2>1. o.kind = "WRITE"
      BY <1>7 DEF Stores
    <2> QED BY <1>2, <1>7, <2>1
  <1>8. ASSUME NEW a \in Nat, NEW v, Fixed(a, v) PROVE Fixed(a, v)'
    <2>1. Stores(o, a) => Stored(o, a) = v
      BY <1>7, <1>8 DEF Fixed
    <2> QED BY <1>1, <1>4, <1>5, <1>6, <1>8, <2>1 DEF Fixed
  <1>9. ASSUME NEW x \in Nat, Linking(S, x) PROVE Linking(S, x)'
    <2>1. Stores(o, x) => Stored(o, x) \in S \cup {0}
      BY <1>7, <1>9 DEF Linking
    <2> QED BY <1>1, <1>4, <1>5, <1>6, <1>9, <2>1 DEF Linking
  <1>10. ASSUME NEW x \in Nat, NEW k \in Key, NEW v, Holds(x, k, v) PROVE Holds(x, k, v)'
    <2>1. x + 1 \in Nat /\ x + 2 \in Nat /\ \A w \in 1 .. Len(KeyWords[k]) : x + 2 + w \in Nat
      OBVIOUS
    <2> QED BY <1>8, <1>10, <2>1 DEF Holds
  <1>11. Chained(S)'
    <2>1. ASSUME NEW x \in S PROVE Linking(S, x)' /\ \E kv \in offered' : Holds(x, kv[1], kv[2])'
      <3>1. x \in Nat /\ Linking(S, x)
        BY <1>3 DEF Common, Chained
      <3>2. PICK kv \in offered : Holds(x, kv[1], kv[2])
        BY <1>3 DEF Common, Chained
      <3>3. kv[1] \in Key
        BY <1>3 DEF FarTypes
      <3> QED BY <1>1, <1>9, <1>10, <3>1, <3>2, <3>3
    <2> QED BY <2>1 DEF Chained
  <1>12. ASSUME NEW d \in Client, Owns(d)' PROVE Mine(S, d)'
    <2>1. Owns(d) /\ Mine(S, d)
      BY <1>3, <1>6, <1>12 DEF Common
    <2>2. ASSUME NEW a \in Nat, InBlock(d, a), Stores(o, a)
          PROVE  IF a = ptr[d] THEN Stored(o, a) \in S \cup {0} ELSE Stored(o, a) = Word(d, a)
      <3>1. d = c
        BY <1>7, <2>1, <2>2 DEF Mine
      <3> QED BY <1>7, <2>2, <3>1
    <2>3. ASSUME NEW a \in Nat, InBlock(d, a)
          PROVE  /\ Given(a)
                 /\ \A op \in Due' : Stores(op, a) => IF a = ptr[d] THEN Stored(op, a) \in S \cup {0}
                                                      ELSE Stored(op, a) = Word(d, a)
                 /\ \A e \in Client \ {d} : ~(Owns(e) /\ InBlock(e, a))
      <3>1. \A op \in Due : Stores(op, a) => IF a = ptr[d] THEN Stored(op, a) \in S \cup {0}
                                             ELSE Stored(op, a) = Word(d, a)
        BY <2>1, <2>3 DEF Mine
      <3>2. \A op \in Due' : op \in Due \/ op = o
        BY <1>4
      <3>3. Given(a) /\ \A e \in Client \ {d} : ~(Owns(e) /\ InBlock(e, a))
        BY <2>1, <2>3 DEF Mine
      <3> QED BY <2>2, <2>3, <3>1, <3>2, <3>3
    <2> QED BY <1>5, <1>6, <2>3 DEF Mine
  <1>13. Heads(S)' /\ DueOK(S)'
    BY <1>1, <1>2, <1>3, <1>4 DEF Common, Heads, DueOK
  <1>14. Common(S)'
    BY <1>11, <1>12, <1>13 DEF Common
  <1>15. \A q \in requests : q.client = c /\ q.port = p => q.op = o
    BY <1>1
  <1>16. timeouts' \in 0 .. MaxTimeouts /\ 1 \in 1 .. Tries /\ o = OpOf(c)
    BY <1>1, <1>3 DEF FarTypes, o
  <1> QED BY <1>1, <1>2, <1>14, <1>15, <1>16, FarSends

(* A thread that sends nothing goes to another label.                          *)
LEMMA FarTurns ==
  ASSUME NEW S, FarIInv(S), NEW c \in Client, ~Waiting(c), Thread(S, c)', ProgramTypeOK', ~Owns(c)',
         \A d \in Client \ {c} : Asleep(d) /\ i'[d] = i[d],
         mem' = mem, call' = call, requests' = requests, replies' = replies, timeouts' = timeouts,
         offered \subseteq offered', \A kv \in offered' : kv[1] \in Key /\ kv[2] \in Nat
  PROVE  FarIInv(S)'
  <1>1. FarTypes /\ Common(S) /\ Exchanges /\ Told(S) /\ S \subseteq Nat /\ \A d \in Client : Thread(S, d)
    BY DEF FarIInv
  <1>2. ~Sending(c) /\ \A d : Sending(d)' <=> Sending(d)
    BY <1>1 DEF Exchanges, Sending
  <1>3. \A d \in Client : Owns(d)' => Owns(d) /\ ptr'[d] = ptr[d] /\ job'[d] = job[d]
    BY DEF Owns, Filling, Asleep
  <1>4. Due' \subseteq Due
    BY DEF Due, Sending
  <1>5. Common(S)'
    BY <1>1, <1>3, <1>4, QuietCommon
  <1>6. FarTypes'
    BY <1>1 DEF FarTypes
  <1>7. Exchanges'
    <2>1. ASSUME NEW d \in Client, Sending(d)' PROVE Waiting(d)' /\ call'[d].op = OpOf(d)'
      <3>1. d # c /\ Waiting(d) /\ call[d].op = OpOf(d)
        BY <1>1, <1>2, <2>1 DEF Exchanges
      <3>2. pc[d] \in PutLabels \cup FindLabels
        <4>1. pc[d] \in Label /\ pc[d] \notin {"check", "initCounter", "initBin"}
          BY <1>1, FarVars DEF Thread
        <4> QED BY <3>1, <4>1 DEF Label, Waiting, PutLabels, FindLabels, FillLabels
      <3>3. pc'[d] = pc[d] /\ job'[d] = job[d] /\ ptr'[d] = ptr[d] /\ old'[d] = old[d] /\ i'[d] = i[d]
        BY <3>1 DEF Asleep
      <3>4. Waiting(d)'
        BY <3>1, <3>3 DEF Waiting
      <3>5. OpOf(d)' = OpOf(d)
        BY <3>2, <3>3 DEF OpOf, PutLabels, FindLabels, FillLabels
      <3> QED BY <3>1, <3>4, <3>5
    <2> QED BY <1>1, <1>2, <2>1 DEF Exchanges
  <1>8. Steady(S) /\ \A d \in Client : Building(S, d)
    BY DEF Steady, Building
  <1>9. ASSUME NEW d \in Client, d # c PROVE Thread(S, d)'
    BY <1>1, <1>8, <1>9, ThreadStays
  <1>10. ASSUME NEW d \in Client, NEW x \in replies', x.client = d PROVE Answered(S, d, x.res)'
    <2>1. d # c /\ Answered(S, d, x.res)
      BY <1>1, <1>2, <1>10 DEF Exchanges, Told
    <2> QED BY <1>1, <1>8, <2>1, AnswerStays
  <1> QED BY <1>1, <1>5, <1>6, <1>7, <1>9, <1>10 DEF FarIInv, Told

(* A call begins.                                                              *)
LEMMA FarInvoke ==
  ASSUME NEW S, FarIInv(S), NEW c \in Client, UDPInvoke(c)
  PROVE  FarIInv(S)'
  <1>1. /\ pc[c] = "ready" /\ jobs[c] < MaxJobs /\ jobs' = [jobs EXCEPT ![c] = jobs[c] + 1]
        /\ UNCHANGED <<ptr, old, i, result, mem, call, requests, replies, timeouts>>
    BY InvokeStep
  <1>2. PICK j \in Jobs :
           /\ job' = [job EXCEPT ![c] = j]
           /\ pc' = [pc EXCEPT ![c] = IF c \in Active THEN "queued" ELSE
                                      IF j.kind = "put" THEN "allocRead" ELSE "findHead"]
           /\ offered' = IF job'[c].kind = "put" THEN offered \cup {<<job'[c].key, job'[c].val>>} ELSE offered
    BY InvokeStep
  <1>3. FarTypes
    BY DEF FarIInv
  <1>4. /\ pc \in [Client -> Label] /\ job \in [Client -> Jobs \cup {NoJob}] /\ jobs \in [Client -> 0 .. MaxJobs]
    BY <1>3, FarVars
  <1>5. /\ job'[c] = j /\ \A d \in Client \ {c} : job'[d] = job[d] /\ pc'[d] = pc[d]
        /\ pc'[c] \in {"queued", "allocRead", "findHead"}
        /\ pc'[c] = "allocRead" => j.kind = "put"
        /\ pc'[c] = "findHead" => j.kind # "put"
    BY <1>2, <1>4
  <1>6. j.kind \in {"put", "get", "has"} /\ j.key \in Key /\ (j.kind = "put" => j.val \in Nat)
    BY JobTypes
  <1>7. offered \subseteq offered' /\ (j.kind = "put" => <<j.key, j.val>> \in offered')
    BY <1>2, <1>5
  <1>8. ASSUME NEW kv \in offered' PROVE kv[1] \in Key /\ kv[2] \in Nat
    <2>1. kv \in offered \/ (j.kind = "put" /\ kv = <<j.key, j.val>>)
      BY <1>2, <1>5
    <2> QED BY <1>3, <1>6, <2>1 DEF FarTypes
  <1>9. Thread(S, c)'
    BY <1>5, <1>6, <1>7 DEF Thread, PutLabels, FillLabels, FindLabels
  <1>10. ~Waiting(c) /\ ~Owns(c)'
    BY <1>1, <1>5 DEF Waiting, Owns, Filling, FillLabels
  <1>11. ProgramTypeOK'
    <2>1. pc' \in [Client -> Label]
      <3>1. pc'[c] \in Label
        BY <1>5 DEF Label
      <3> QED BY <1>2, <1>4, <1>5, <3>1
    <2>2. job' \in [Client -> Jobs \cup {NoJob}]
      BY <1>2, <1>4
    <2>3. jobs' \in [Client -> 0 .. MaxJobs]
      <3>1. jobs[c] \in 0 .. MaxJobs /\ MaxJobs \in Nat
        BY <1>4, DHTAssumption
      <3>2. jobs[c] + 1 \in 0 .. MaxJobs
        BY <1>1, <3>1
      <3> QED BY <1>1, <1>4, <3>2
    <2> QED BY <1>1, <1>3, <2>1, <2>2, <2>3, FarVars DEF ProgramTypeOK
  <1>12. \A d \in Client \ {c} : Asleep(d) /\ i'[d] = i[d]
    BY <1>1, <1>5 DEF Asleep
  <1> QED BY <1>1, <1>7, <1>8, <1>9, <1>10, <1>11, <1>12, FarTurns

(* A call returns.                                                             *)
LEMMA FarLeave ==
  ASSUME NEW S, FarIInv(S), NEW c \in Client, UDPLeave(c)
  PROVE  FarIInv(S)'
  <1>1. /\ pc[c] = "return" /\ pc' = [pc EXCEPT ![c] = "ready"] /\ job' = [job EXCEPT ![c] = NoJob]
        /\ UNCHANGED <<ptr, old, i, result, jobs, mem, call, requests, replies, timeouts, offered>>
    BY LeaveStep
  <1>2. FarTypes
    BY DEF FarIInv
  <1>3. pc \in [Client -> Label] /\ job \in [Client -> Jobs \cup {NoJob}]
    BY <1>2, FarVars
  <1>4. pc'[c] = "ready" /\ \A d \in Client \ {c} : job'[d] = job[d] /\ pc'[d] = pc[d]
    BY <1>1, <1>3
  <1>5. Thread(S, c)'
    BY <1>4 DEF Thread, PutLabels, FillLabels, FindLabels
  <1>6. ~Waiting(c) /\ ~Owns(c)'
    BY <1>1, <1>4 DEF Waiting, Owns, Filling, FillLabels
  <1>7. ProgramTypeOK'
    <2>1. pc' \in [Client -> Label]
      BY <1>1, <1>3 DEF Label
    <2>2. job' \in [Client -> Jobs \cup {NoJob}]
      BY <1>1, <1>3
    <2> QED BY <1>1, <1>2, <2>1, <2>2, FarVars DEF ProgramTypeOK
  <1>8. \A d \in Client \ {c} : Asleep(d) /\ i'[d] = i[d]
    BY <1>1, <1>4 DEF Asleep
  <1>9. \A kv \in offered' : kv[1] \in Key /\ kv[2] \in Nat
    BY <1>1, <1>2 DEF FarTypes
  <1> QED BY <1>1, <1>5, <1>6, <1>7, <1>8, <1>9, FarTurns

(* Packets are lost, or none.                                                  *)
LEMMA FarDrop ==
  ASSUME NEW S, FarIInv(S), requests' \subseteq requests, replies' \subseteq replies,
         UNCHANGED <<mem, call, timeouts, programVars, offered>>
  PROVE  FarIInv(S)'
  <1>1. FarTypes /\ Common(S) /\ Exchanges /\ Told(S) /\ S \subseteq Nat /\ \A d \in Client : Thread(S, d)
    BY DEF FarIInv
  <1>2. \A d : Asleep(d) /\ (Sending(d)' <=> Sending(d))
    BY DEF Asleep, programVars, Sending
  <1>3. \A d \in Client : Owns(d)' => Owns(d) /\ ptr'[d] = ptr[d] /\ job'[d] = job[d]
    BY DEF Owns, Filling, programVars
  <1>4. Due' \subseteq Due
    BY DEF Due, Sending
  <1>5. Common(S)'
    BY <1>1, <1>3, <1>4, QuietCommon
  <1>6. FarTypes'
    <2>1. ProgramTypeOK'
      BY <1>1, FarVars DEF programVars, ProgramTypeOK
    <2> QED BY <1>1, <2>1 DEF FarTypes
  <1>7. Exchanges'
    <2>1. \A d : OpOf(d)' = OpOf(d) /\ (Waiting(d)' <=> Waiting(d))
      BY DEF OpOf, Waiting, programVars
    <2> QED BY <1>1, <1>2, <2>1 DEF Exchanges
  <1>8. Steady(S) /\ \A d \in Client : Building(S, d)
    BY DEF Steady, Building
  <1>9. ASSUME NEW d \in Client PROVE Thread(S, d)'
    BY <1>1, <1>2, <1>8, ThreadStays
  <1>10. ASSUME NEW d \in Client, NEW x \in replies', x.client = d PROVE Answered(S, d, x.res)'
    <2>1. Answered(S, d, x.res)
      BY <1>1, <1>10 DEF Told
    <2> QED BY <1>1, <1>2, <1>8, <2>1, AnswerStays
  <1> QED BY <1>1, <1>5, <1>6, <1>7, <1>9, <1>10 DEF FarIInv, Told

-------------------------------------------------------------------------------
FarOK == \E S \in SUBSET Nat : FarIInv(S)

(* Nothing is put, and nobody has begun.                                       *)
LEMMA FarInit ==
  ASSUME UDPInit, MaxTimeouts \in Nat
  PROVE  FarOK
  <1>1. /\ mem = [a \in Cells |-> IF a = 0 THEN 2 * N ELSE 0]
        /\ call = [c \in Client |-> Idle] /\ requests = {} /\ replies = {} /\ timeouts = 0
        /\ offered = {} /\ ProgramInit
    BY SameMemory DEF UDPInit, Net!ExchangeInit, Net!NoCall, Idle
  <1>2. \A c \in Client : ~Sending(c)
    BY <1>1 DEF Sending, Idle
  <1>3. \A c \in Client : pc[c] \in {"ready", "out"} /\ job[c] = NoJob
    BY <1>1 DEF ProgramInit
  <1>4. FarTypes
    <2>1. mem \in [Cells -> Nat]
      <3>1. 2 * N \in Nat
        BY DHTAssumption
      <3> QED BY <1>1, <3>1
    <2>2. ProgramTypeOK
      <3>1. pc \in [Client -> Label]
        BY <1>1 DEF ProgramInit, Label
      <3>2. MaxJobs \in Nat /\ N \in Nat
        BY DHTAssumption
      <3> QED BY <1>1, <3>1, <3>2 DEF ProgramInit, ProgramTypeOK
    <2> QED BY <1>1, <2>1, <2>2 DEF FarTypes
  <1>5. Common({})
    <2>1. Due = {}
      BY <1>1, <1>2 DEF Due
    <2>2. \A c \in Client : ~Owns(c)
      BY <1>1, <1>3 DEF Owns, Filling, FillLabels
    <2>3. Heads({})
      <3>1. mem[0] = TableEnd /\ TableEnd \in Nat
        BY <1>1, FarLayout DEF TableEnd
      <3>2. ASSUME NEW b \in 1 .. TableEnd - 1, b < MemSize PROVE mem[b] = 0
        <4>1. b \in Cells /\ b # 0
          BY <3>2, FarLayout
        <4> QED BY <1>1, <4>1
      <3> QED BY <3>1, <3>2 DEF Heads
    <2> QED BY <2>1, <2>2, <2>3 DEF Common, DueOK, Chained
  <1>6. \A c \in Client : Thread({}, c)
    BY <1>3 DEF Thread, PutLabels, FillLabels, FindLabels
  <1>7. Exchanges /\ Told({})
    BY <1>1, <1>2 DEF Exchanges, Told
  <1>8. FarIInv({}) /\ {} \in SUBSET Nat
    BY <1>4, <1>5, <1>6, <1>7 DEF FarIInv
  <1> QED BY <1>8 DEF FarOK

(* Every step keeps the invariant.                                             *)
LEMMA FarStep ==
  ASSUME FarOK, [UDPNext]_udpVars, FreshPorts, Tries \in Nat \ {0}, MaxTimeouts \in Nat
  PROVE  FarOK'
  <1>1. PICK S \in SUBSET Nat : FarIInv(S)
    BY DEF FarOK
  <1> SUFFICES \E T : FarIInv(T)'
    BY DEF FarOK, FarIInv
  <1>2. ASSUME NEW c \in Client, UDPStep(c) PROVE \E T : FarIInv(T)'
    <2>1. CASE UDPInvoke(c)
      BY <1>1, <2>1, FarInvoke
    <2>2. CASE Issue(c)
      BY <1>1, <2>2, FarIssue
    <2>3. CASE Receive(c)
      BY <1>1, <2>3, FarReceive
    <2>4. CASE Retry(c)
      BY <1>1, <2>4, FarRetry
    <2>5. CASE Abandon(c)
      BY <1>1, <2>5, FarAbandon
    <2>6. CASE UDPLeave(c)
      BY <1>1, <2>6, FarLeave
    <2> QED BY <1>2, <2>1, <2>2, <2>3, <2>4, <2>5, <2>6 DEF UDPStep
  <1>3. CASE ServeOne
    BY <1>1, <1>3, FarServe
  <1>4. CASE Drop
    <2>1. /\ requests' \subseteq requests /\ replies' \subseteq replies
          /\ UNCHANGED <<mem, call, timeouts, programVars, offered>>
      BY <1>4, DropStep
    <2> QED BY <1>1, <2>1, FarDrop
  <1>5. CASE UNCHANGED udpVars
    <2>1. /\ requests' \subseteq requests /\ replies' \subseteq replies
          /\ UNCHANGED <<mem, call, timeouts, programVars, offered>>
      BY <1>5 DEF udpVars, programVars
    <2> QED BY <1>1, <2>1, FarDrop
  <1> QED BY <1>2, <1>3, <1>4, <1>5 DEF UDPNext

(* Whatever the network loses, delays, repeats and serves late, a search of a  *)
(* remote client finds only what was put under its key, if no socket gets a    *)
(* port from which its client's requests still travel.                         *)
THEOREM FoundIsPut == ASSUME FreshPorts PROVE UDPSpec => []FoundWasPut
  <1>1. Tries \in Nat \ {0} /\ MaxTimeouts \in Nat
    BY UDPAssumption DEF Net!ExchangeAssumption
  <1>2. UDPInit => FarOK
    BY <1>1, FarInit
  <1>3. FarOK /\ [UDPNext]_udpVars => FarOK'
    BY <1>1, FarStep
  <1>4. FarOK => FoundWasPut
    <2> SUFFICES ASSUME FarOK PROVE FoundWasPut
      OBVIOUS
    <2>1. PICK S \in SUBSET Nat : FarIInv(S)
      BY DEF FarOK
    <2>2. FarTypes /\ \A c \in Client : Thread(S, c)
      BY <2>1 DEF FarIInv
    <2>3. OpTypes = FarOps
      BY DEF OpTypes, FarOps
    <2>4. ProgramTypeOK
      BY <2>2 DEF FarTypes
    <2>5. UDPTypeOK
      BY <2>2, <2>3, <2>4, SameMemory DEF UDPTypeOK, Net!ExchangeTypeOK, Net!NoCall, Idle, FarTypes
    <2>6. ASSUME NEW c \in Client, pc[c] = "return", job[c].kind \in {"get", "has"}, result[c] \in Nat \ {0}
          PROVE  \E kv \in offered : kv[1] = job[c].key /\ (job[c].kind = "get" => kv[2] = result[c])
      BY <2>2, <2>6 DEF Thread
    <2> QED BY <2>5, <2>6 DEF FoundWasPut
  <1> QED BY <1>2, <1>3, <1>4, PTL DEF UDPSpec
===============================================================================
