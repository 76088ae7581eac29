----------------------------- MODULE InodeStoreProof --------------------------
(* Proofs about InodeStore for any stores, files, calls, page size and memory: *)
(* pages stay apart, a get returns what was put there, words that were stored  *)
(* stay in the file, and mobile code loses none.                               *)
EXTENDS InodeStore, TLAPS, SequenceTheorems, FiniteSetTheorems

-------------------------------------------------------------------------------
(* What serving one operation does to memory, of any size.                     *)

(* What serving one operation on one word does and answers.                    *)
LEMMA ReadOne ==
  ASSUME NEW a \in Nat, NEW m
  PROVE  /\ Effect(Read(a, 1), m) = m
         /\ Outcome(Read(a, 1), m).error = "OK" <=> a < MemSize
         /\ a < MemSize => Outcome(Read(a, 1), m).result[1] = m[a]
  BY MemSizeAssumption DEF Effect, Read, Outcome, InBounds, Width, Ok, Failed

(* A WRITE of one word stores it, or nothing beyond the end of memory.         *)
LEMMA WriteOne ==
  ASSUME NEW a \in Nat, NEW v \in Int, NEW m \in [Cells -> Int]
  PROVE  /\ a < MemSize => Effect(Write(a, <<v>>), m) = [m EXCEPT ![a] = v]
         /\ ~(a < MemSize) => Effect(Write(a, <<v>>), m) = m
         /\ Outcome(Write(a, <<v>>), m).error = "OK" <=> a < MemSize
  <1> DEFINE op == Write(a, <<v>>)
  <1>1. op.kind = "WRITE" /\ op.addr = a /\ op.values = <<v>> /\ Len(op.values) = 1
    BY DEF Write
  <1> HIDE DEF op
  <1>2. Effect(op, m) = [i \in Cells |-> IF /\ op.addr >= 0
                                            /\ i \in op.addr .. op.addr + Len(op.values) - 1
                                         THEN op.values[i - op.addr + 1] ELSE m[i]]
    BY <1>1 DEF Effect
  <1>3. ASSUME NEW i \in Cells
        PROVE  Effect(op, m)[i] = IF i = a THEN v ELSE m[i]
    <2>1. i \in Int
      BY MemSizeAssumption DEF Cells
    <2>2. op.addr >= 0 /\ i \in op.addr .. op.addr + Len(op.values) - 1 <=> i = a
      BY <1>1, <2>1
    <2>3. i = a => op.values[i - op.addr + 1] = v
      BY <1>1, <2>1
    <2> QED BY <1>2, <2>2, <2>3
  <1>4. a < MemSize => Effect(op, m) = [m EXCEPT ![a] = v]
    BY <1>2, <1>3
  <1>5. ~(a < MemSize) => Effect(op, m) = m
    <2>1. ~(a < MemSize) => a \notin Cells
      BY MemSizeAssumption DEF Cells
    <2> QED BY <1>2, <1>3, <2>1
  <1>6. InBounds(op) <=> a < MemSize
    BY <1>1, MemSizeAssumption DEF InBounds, Width
  <1>7. Outcome(op, m).error = "OK" <=> a < MemSize
    BY <1>1, <1>6 DEF Outcome, Ok, Failed
  <1> QED BY <1>4, <1>5, <1>7 DEF op

(* A CAS stores its word if it finds what it tests for.                        *)
LEMMA CasOne ==
  ASSUME NEW a \in Nat, NEW t, NEW v, NEW m
  PROVE  /\ Swaps(Cas(a, t, v), m) <=> a < MemSize /\ m[a] = t
         /\ Swaps(Cas(a, t, v), m) => Effect(Cas(a, t, v), m) = [m EXCEPT ![a] = v]
         /\ ~Swaps(Cas(a, t, v), m) => Effect(Cas(a, t, v), m) = m
         /\ Outcome(Cas(a, t, v), m).error = "OK" <=> a < MemSize
         /\ a < MemSize => (Outcome(Cas(a, t, v), m).result[1] # 0 <=> Swaps(Cas(a, t, v), m))
  <1> DEFINE op == Cas(a, t, v)
  <1>1. op.kind = "CAS" /\ op.addr = a /\ op.test = t /\ op.value = v
    BY DEF Cas
  <1>2. InBounds(op) <=> a < MemSize
    BY <1>1, MemSizeAssumption DEF InBounds, Width
  <1>3. Swaps(op, m) <=> a < MemSize /\ m[a] = t
    BY <1>1, <1>2 DEF Swaps
  <1>4. /\ Swaps(op, m) => Effect(op, m) = [m EXCEPT ![a] = v]
        /\ ~Swaps(op, m) => Effect(op, m) = m
    BY <1>1 DEF Effect
  <1>5. Outcome(op, m).error = "OK" <=> a < MemSize
    BY <1>1, <1>2 DEF Outcome, Ok, Failed
  <1>6. a < MemSize => Outcome(op, m).result[1] = IF Swaps(op, m) THEN 1 ELSE 0
    BY <1>1, <1>2 DEF Outcome, Ok, Failed
  <1> HIDE DEF op
  <1> QED BY <1>3, <1>4, <1>5, <1>6 DEF op

(* What serving a write of several words does and answers.                     *)
LEMMA WriteMany ==
  ASSUME NEW a \in Nat, NEW vs \in Seq(Int), NEW m \in [Cells -> Int]
  PROVE  /\ Effect(Write(a, vs), m) = [x \in Cells |-> IF x >= a /\ x < a + Len(vs)
                                                      THEN vs[x - a + 1] ELSE m[x]]
         /\ Outcome(Write(a, vs), m).error = "OK" <=> Len(vs) = 0 \/ a + Len(vs) <= MemSize
  <1> DEFINE op == Write(a, vs)
  <1>1. op.kind = "WRITE" /\ op.addr = a /\ op.values = vs /\ Len(vs) \in Nat
    BY DEF Write
  <1> HIDE DEF op
  <1>2. Effect(op, m) = [x \in Cells |-> IF /\ op.addr >= 0
                                            /\ x \in op.addr .. op.addr + Len(op.values) - 1
                                         THEN op.values[x - op.addr + 1] ELSE m[x]]
    BY <1>1 DEF Effect
  <1>3. \A x \in Cells : op.addr >= 0 /\ x \in op.addr .. op.addr + Len(op.values) - 1
                           <=> x >= a /\ x < a + Len(vs)
    BY <1>1, MemSizeAssumption DEF Cells
  <1>4. Effect(op, m) = [x \in Cells |-> IF x >= a /\ x < a + Len(vs)
                                         THEN vs[x - a + 1] ELSE m[x]]
    BY <1>1, <1>2, <1>3
  <1>5. InBounds(op) <=> Len(vs) = 0 \/ a + Len(vs) <= MemSize
    BY <1>1, MemSizeAssumption DEF InBounds, Width
  <1>6. Outcome(op, m).error = "OK" <=> Len(vs) = 0 \/ a + Len(vs) <= MemSize
    BY <1>1, <1>5 DEF Outcome, Ok, Failed
  <1> QED BY <1>4, <1>6 DEF op

-------------------------------------------------------------------------------
(* The arithmetic of pages.                                                    *)
IsPage(p) == p \in Nat /\ p % Page = 1

(* The word of a file in block b at n, and the block of the third level.       *)
Nth(b, n)       == b * Page + n
LeafBlock(k, n) == (Page - 2) + k * Page + n
Limit           == Page * Page * Page

(* The constants, one by one.                                                  *)
LEMMA Sizes ==
  /\ Page \in Nat /\ Page > 2 /\ Req \in 1 .. Page /\ Chunk \in 1 .. Page
  /\ MemSize \in Nat /\ 0 \in Cells
  /\ \A x \in Nat : x \in Cells <=> x < MemSize
  /\ \A x \in Cells : x \in Nat
  BY InodeStoreAssumption, MemSizeAssumption DEF Cells

(* A number is its quotient and its remainder.                                 *)
LEMMA Divided ==
  ASSUME NEW o \in Nat
  PROVE  /\ Block(o) \in Nat /\ o % Page \in 0 .. Page - 1
         /\ o = Block(o) * Page + (o % Page)
  BY InodeStoreAssumption DEF Block

(* ... and it has one of each only.                                            *)
LEMMA DividedOnce ==
  ASSUME NEW x \in Nat, NEW y \in Nat, NEW n \in 0 .. Page - 1, NEW k \in 0 .. Page - 1,
         x * Page + n = y * Page + k
  PROVE  x = y /\ n = k
  <1>1. ASSUME NEW v \in Nat, NEW w \in Nat, NEW i \in 0 .. Page - 1, NEW j \in 0 .. Page - 1,
               v * Page + i = w * Page + j
        PROVE  ~(v < w)
    <2>1. ASSUME v < w PROVE FALSE
      <3>1. PICK d \in Nat : w = v + 1 + d
        <4>1. w - v - 1 \in Nat /\ w = v + 1 + (w - v - 1)
          BY <2>1
        <4> QED BY <4>1
      <3>2. w * Page = v * Page + Page + d * Page
        BY Sizes, <3>1
      <3>3. d * Page >= 0 /\ d * Page \in Nat /\ v * Page \in Nat
        BY Sizes
      <3> QED BY <1>1, <3>2, <3>3, Sizes
    <2> QED BY <2>1
  <1>2. ~(x < y) /\ ~(y < x)
    BY <1>1
  <1>3. x = y
    BY <1>2
  <1>4. x * Page \in Nat
    BY Sizes
  <1> QED BY <1>3, <1>4, Sizes

(* Two pages share no word.                                                    *)
LEMMA PagesDisjoint ==
  ASSUME NEW p, NEW q, IsPage(p), IsPage(q),
         NEW n \in 0 .. Page - 1, NEW k \in 0 .. Page - 1, p + n = q + k
  PROVE  p = q /\ n = k
  <1>1. PICK x \in Nat : p = x * Page + 1
    <2>1. Block(p) \in Nat /\ p = Block(p) * Page + 1
      BY Divided DEF IsPage
    <2> QED BY <2>1
  <1>2. PICK y \in Nat : q = y * Page + 1
    <2>1. Block(q) \in Nat /\ q = Block(q) * Page + 1
      BY Divided DEF IsPage
    <2> QED BY <2>1
  <1>3. x * Page \in Nat /\ y * Page \in Nat
    BY Sizes
  <1>4. x * Page + n = y * Page + k
    BY <1>1, <1>2, <1>3, Sizes
  <1>5. x = y /\ n = k
    BY <1>4, DividedOnce
  <1> QED BY <1>1, <1>2, <1>5

(* Pages follow each other, from word 1 on.                                    *)
LEMMA NextPage ==
  ASSUME NEW p \in Nat, IsPage(p)
  PROVE  p \in Nat /\ p >= 1 /\ p # 0 /\ IsPage(p + Page)
  <1>1. p \in Nat /\ p % Page = 1 /\ Page \in Nat /\ Page > 2
    BY Sizes DEF IsPage
  <1>2. p # 0
    BY <1>1
  <1>3. (p + Page) % Page = 1
    <2>1. PICK x \in Nat : p = x * Page + 1
      BY <1>1, Divided
    <2>2. p + Page = (x + 1) * Page + 1 /\ p + Page \in Nat
      BY <1>1, <2>1
    <2>3. /\ Block(p + Page) \in Nat /\ (p + Page) % Page \in 0 .. Page - 1
          /\ p + Page = Block(p + Page) * Page + ((p + Page) % Page)
      BY <2>2, Divided
    <2>4. 1 \in 0 .. Page - 1 /\ x + 1 \in Nat
      BY <1>1
    <2> QED BY <2>2, <2>3, <2>4, DividedOnce
  <1> QED BY <1>1, <1>2, <1>3 DEF IsPage

(* Where a word of a file is.                                                  *)
LEMMA WordOf ==
  ASSUME NEW o \in Nat, NEW k \in Nat, (o % Page) + k < Page
  PROVE  Nth(Block(o), (o % Page) + k) = o + k
  <1>1. PICK b \in Nat, r \in 0 .. Page - 1 : b = Block(o) /\ r = o % Page /\ o = b * Page + r
    BY Divided
  <1>2. b * Page \in Nat /\ Page \in Nat
    BY Sizes
  <1>3. b * Page + (r + k) = o + k
    BY <1>1, <1>2
  <1> QED BY <1>1, <1>3 DEF Nth

(* Two levels reach a block of a file that is not too long.                    *)
LEMMA Levels ==
  ASSUME NEW o \in Nat, o <= Limit
  PROVE  /\ Block(o) \in Nat
         /\ IsDirect(o) => 1 + Block(o) \in 1 .. Page - 1
         /\ ~IsDirect(o) => /\ Idx0(o) \in 0 .. Page - 1 /\ Idx1(o) \in 0 .. Page - 1
                            /\ Block(o) = LeafBlock(Idx0(o), Idx1(o)) /\ Block(o) > Page - 2
  BY InodeStoreAssumption DEF Block, IsDirect, Idx0, Idx1, LeafBlock, Limit

-------------------------------------------------------------------------------
(* The variables and where a call is.                                          *)
Allocs == {"allocRead", "allocCas"}
Sets   == {"setDirect", "setL2", "makeL2", "setL3", "makeL3", "setLeaf"}
Finds  == {"direct", "l2", "l3", "leaf"}
Plain  == {"queued", "return", "publish", "lookup", "setLen", "getLen", "length", "transfer"}
Labels == {"ready"} \cup Plain \cup Allocs \cup Sets \cup Finds
Locals == [ino : Nat, off : Nat, left : Nat, rest : Nat, buf : Seq(Nat), ptr : Nat,
           l2 : Nat, l3 : Nat, page : Nat, for : {"inode", "block", "l2", "l3"},
           result : Nat \cup {Refused, Exception}]
AllJobs == UNION {Jobs[c] : c \in Client}

Types == /\ mem \in [Cells -> Nat] /\ names \in [Name -> Nat]
         /\ holder \in Active \cup {Nobody}
         /\ pc \in [Client -> Labels] /\ me \in [Client -> Locals]
         /\ job \in [Client -> AllJobs \cup {NoJob}]
         /\ jobs \in [Client -> Nat] /\ \A c \in Client : jobs[c] \in 0 .. MaxJobs[c]
         /\ inode \in [Client -> Nat \ {0}]
         /\ was = [used |-> was.used, put |-> was.put, last |-> was.last, lost |-> was.lost]

(* Store c, at label l of call j with locals m: which call it can be.          *)
Late(l, m) == l \in Allocs /\ m.for \in {"l2", "l3"}
CallOK(c, l, j, m) ==
  /\ l = "ready" => j = NoJob
  /\ l # "ready" => j \in Jobs[c]
  /\ l \in Finds \cup {"length", "transfer"} => IsAccess(j)
  /\ l \in Sets => j.kind = "put"
  /\ l \in Allocs => j.kind = IF m.for = "inode" THEN "create" ELSE "put"
  /\ l = "queued" => c \in Active /\ (j.kind = "create" => m.for = "inode")
  /\ l = "publish" => j.kind = "create"
  /\ l = "lookup" => j.kind = "lookup"
  /\ l = "setLen" => j.kind = "setLen"
  /\ l = "getLen" => j.kind = "getLen"

(* ... how far its buffer has gone, with inode i and the words that were put,  *)
BufferOK(l, j, m, i, put) ==
  /\ l # "ready" /\ j.kind # "create" => m.ino = i
  /\ IsAccess(j) => m.off + m.left + m.rest <= Limit
  /\ j.kind = "put" =>
       /\ Len(m.buf) = m.left + m.rest
       /\ \A n \in 1 .. Len(m.buf) : <<m.ino, m.off + (n - 1), m.buf[n]>> \in put
  /\ j.kind = "get" => m.off = j.off + Len(m.buf)

(* ... and which way it looks for its block.                                   *)
PathOK(l, m, used) ==
  /\ l \in {"direct", "setDirect"} => IsDirect(m.off)
  /\ l \in {"l2", "l3", "leaf", "setL2", "makeL2", "setL3", "makeL3", "setLeaf"} \/ Late(l, m)
       => ~IsDirect(m.off)
  /\ l \in Sets \cup {"l3", "leaf", "transfer"} \/ (l \in Allocs /\ m.for # "inode")
       => <<m.ino, Block(m.off)>> \in used

FlowAt(c) == /\ CallOK(c, pc[c], job[c], me[c])
             /\ BufferOK(pc[c], job[c], me[c], inode[c], was.put)
             /\ PathOK(pc[c], me[c], was.used)
Flow      == \A c \in Client : FlowAt(c)

-------------------------------------------------------------------------------
(* What a page is for.  The page of a pointer knows the word that leads to it, *)
(* the file, and its place in it; a page nobody else can see is its store's.   *)
Role(kind, at, file, nth) == [kind |-> kind, at |-> at, file |-> file, nth |-> nth]
Free   == Role("free", 0, 0, 0)
Inode  == Role("inode", 0, 0, 0)
Own(c) == Role("own", c, 0, 0)

(* The file i has its second level, and none may have it and block Page - 2.   *)
Deep(used, i) == \E x \in used : x[1] = i /\ x[2] > Page - 2
LastUsed(used, i) == Deep(used, i) \/ <<i, Page - 2>> \in used
Mixed(used)   == \E x, y \in used : x[1] = y[1] /\ x[2] = Page - 2 /\ y[2] > Page - 2

(* What the page is for that word n of page p leads to.                        *)
Child(R, used, p, n) ==
  CASE R[p].kind = "inode"  -> IF n = Page - 1 /\ Deep(used, p) THEN Role("second", p + n, p, 0)
                               ELSE Role("block", p + n, p, n - 1)
    [] R[p].kind = "second" -> Role("third", p + n, R[p].file, n)
    [] OTHER                -> Role("block", p + n, R[p].file, LeafBlock(R[p].nth, n))

(* Word n of page p, with v in it, is what the page says.                      *)
Points(R, p, n) == (R[p].kind = "inode" /\ n # 0) \/ R[p].kind \in {"second", "third"}
WordOK(R, used, put, p, n, v) ==
  /\ R[p].kind \notin {"free", "own"}
  /\ Points(R, p, n) => IsPage(v) /\ R[v] = Child(R, used, p, n)
  /\ R[p].kind = "inode" /\ n = Page - 1 => LastUsed(used, p)
  /\ R[p].kind = "block" => <<R[p].file, Nth(R[p].nth, n), v>> \in put

(* Memory m is what the roles R of its pages say.                              *)
Tree(R, m, used, put) ==
  /\ IsPage(m[0])
  /\ \A p \in Nat : IsPage(p) /\ p >= m[0] => R[p] = Free
  /\ \A p \in Nat, n \in 0 .. Page - 1 :
       IsPage(p) /\ p + n \in Cells /\ m[p + n] # 0 => WordOK(R, used, put, p, n, m[p + n])

IsInode(R, i)       == IsPage(i) /\ R[i] = Inode
IsOwn(R, c, p)      == IsPage(p) /\ R[p] = Own(c)
IsSecond(R, p, i)   == IsPage(p) /\ R[p].kind = "second" /\ R[p].file = i
IsThird(R, p, i, k) == IsPage(p) /\ R[p].kind = "third" /\ R[p].file = i /\ R[p].nth = k
IsBlock(R, p, i, b) == IsPage(p) /\ R[p].kind = "block" /\ R[p].file = i /\ R[p].nth = b

(* The inodes in the table, those that users have, and those that words were   *)
(* stored in.                                                                  *)
Lists(R) == /\ \A f \in Name : IsInode(R, names[f])
            /\ \A c \in Client : IsInode(R, inode[c])
            /\ \A x \in was.last : IsInode(R, x[1])

(* What a get has read was put there, or is zero.                              *)
ReadOK(j, m, put) == j.kind = "get" => \A n \in 1 .. Len(m.buf) :
  m.buf[n] = 0 \/ <<m.ino, j.off + (n - 1), m.buf[n]>> \in put

(* What a store holds: its fresh pages, the pages it has found, its inode, and *)
(* what it has read.                                                           *)
Holds(R, c, l, j, m, put) ==
  /\ l \in Sets \/ Late(l, m) => IsOwn(R, c, m.ptr)
  /\ l = "makeL2" => IsOwn(R, c, m.l2) /\ m.l2 # m.ptr
  /\ l = "makeL3" => IsOwn(R, c, m.l3) /\ m.l3 # m.ptr
  /\ l \in {"l3", "setL3", "makeL3"} \/ (l \in Allocs /\ m.for = "l3") => IsSecond(R, m.l2, m.ino)
  /\ l \in {"leaf", "setLeaf"} => IsThird(R, m.l3, m.ino, Idx0(m.off))
  /\ l = "transfer" => IsBlock(R, m.ptr, m.ino, Block(m.off))
  /\ l = "publish" => IsInode(R, m.ino)
  /\ l = "return" /\ j.kind \in {"create", "lookup"} /\ m.result > 0 => IsInode(R, m.result)
  /\ ReadOK(j, m, put)

Sound(R) == /\ Tree(R, mem, was.used, was.put) /\ Lists(R)
            /\ \A c \in Client : Holds(R, c, pc[c], job[c], me[c], was.put)

IInv == Types /\ Flow /\ (~Overlaid => \E R : Sound(R))

-------------------------------------------------------------------------------
(* A step of c may give a role to a page that was free or its own.             *)
Near(R, S, c) == \A p \in Nat : S[p] = R[p] \/ R[p] \in {Free, Own(c)}

(* What another store holds it holds still.                                    *)
LEMMA NearHolds ==
  ASSUME NEW R, NEW S, NEW c, NEW d, c # d, Near(R, S, c), NEW l, NEW j, NEW m, NEW put, NEW more,
         put \subseteq more, Holds(R, d, l, j, m, put)
  PROVE  Holds(S, d, l, j, m, more)
  <1>1. \A p : IsPage(p) => p \in Nat
    BY DEF IsPage
  <1>2. \A p : IsPage(p) /\ R[p].kind \notin {"free", "own"} => S[p] = R[p]
    BY <1>1 DEF Near, Free, Own, Role
  <1>3. \A p : IsOwn(R, d, p) => IsOwn(S, d, p)
    <2>1. Own(d) # Own(c) /\ Own(d) # Free
      BY DEF Own, Free, Role
    <2> QED BY <1>1, <2>1 DEF IsOwn, Near
  <1>4. \A p : IsInode(R, p) => IsInode(S, p)
    BY <1>2 DEF IsInode, Inode, Role
  <1>5. /\ \A p, i : IsSecond(R, p, i) => IsSecond(S, p, i)
        /\ \A p, i, k : IsThird(R, p, i, k) => IsThird(S, p, i, k)
        /\ \A p, i, b : IsBlock(R, p, i, b) => IsBlock(S, p, i, b)
    BY <1>2 DEF IsSecond, IsThird, IsBlock
  <1>6. ReadOK(j, m, put) => ReadOK(j, m, more)
    BY DEF ReadOK
  <1> QED BY <1>3, <1>4, <1>5, <1>6 DEF Holds

(* ... and so do the table and the users.                                      *)
LEMMA NearInode ==
  ASSUME NEW R, NEW S, NEW c, Near(R, S, c), NEW i, IsInode(R, i)
  PROVE  IsInode(S, i)
  BY DEF Near, IsInode, IsPage, Inode, Free, Own, Role

(* Looking for more blocks changes nothing, unless it overlays the word.       *)
LEMMA TreeGrows ==
  ASSUME NEW R, NEW m, NEW used, NEW more, NEW put, Tree(R, m, used, put),
         used \subseteq more, ~Mixed(more)
  PROVE  Tree(R, m, more, put)
  <1>1. ASSUME NEW p \in Nat, NEW n \in 0 .. Page - 1, IsPage(p), p + n \in Cells, m[p + n] # 0
        PROVE  WordOK(R, more, put, p, n, m[p + n])
    <2>1. WordOK(R, used, put, p, n, m[p + n])
      BY <1>1 DEF Tree
    <2>2. Deep(used, p) => Deep(more, p)
      BY DEF Deep
    <2>3. R[p].kind = "inode" /\ n = Page - 1 => (Deep(used, p) <=> Deep(more, p))
      <3> DEFINE x == <<p, Page - 2>>
      <3>1. x[1] = p /\ x[2] = Page - 2
        OBVIOUS
      <3> HIDE DEF x
      <3>2. x \in used => ~Deep(more, p)
        BY <3>1 DEF Deep, Mixed
      <3>3. R[p].kind = "inode" /\ n = Page - 1 => Deep(used, p) \/ x \in used
        BY <2>1 DEF WordOK, LastUsed, x
      <3> QED BY <2>2, <3>2, <3>3
    <2>4. Child(R, used, p, n) = Child(R, more, p, n)
      BY <2>3 DEF Child
    <2> QED BY <2>1, <2>2, <2>4 DEF WordOK, LastUsed
  <1> QED BY <1>1 DEF Tree

(* A word is written that is what its page says.                               *)
LEMMA TreeWrite ==
  ASSUME NEW R, NEW m \in [Cells -> Nat], NEW used, NEW put, Tree(R, m, used, put),
         NEW p \in Nat, IsPage(p), NEW n \in 0 .. Page - 1, p + n \in Cells,
         NEW v \in Nat, v # 0 => WordOK(R, used, put, p, n, v)
  PROVE  Tree(R, [m EXCEPT ![p + n] = v], used, put)
  <1> DEFINE k == [m EXCEPT ![p + n] = v]
  <1>1. p \in Nat /\ p # 0 /\ p + n # 0
    BY NextPage
  <1>2. k[0] = m[0]
    BY <1>1
  <1>3. ASSUME NEW q \in Nat, NEW i \in 0 .. Page - 1, IsPage(q), q + i \in Cells, k[q + i] # 0
        PROVE  WordOK(R, used, put, q, i, k[q + i])
    <2>1. CASE q + i = p + n
      <3>1. q = p /\ i = n
        BY <1>3, <2>1, PagesDisjoint
      <3>2. k[q + i] = v
        BY <2>1
      <3> QED BY <1>3, <3>1, <3>2
    <2>2. CASE q + i # p + n
      <3>1. k[q + i] = m[q + i]
        BY <2>2
      <3> QED BY <1>3, <3>1 DEF Tree
    <2> QED BY <2>1, <2>2
  <1> HIDE DEF k
  <1>4. Tree(R, k, used, put)
    BY <1>2, <1>3 DEF Tree
  <1> QED BY <1>4 DEF k

(* The counter moves past a page.                                              *)
LEMMA TreeCounter ==
  ASSUME NEW R, NEW m \in [Cells -> Nat], NEW used, NEW put, Tree(R, m, used, put)
  PROVE  Tree(R, [m EXCEPT ![0] = m[0] + Page], used, put)
  <1> DEFINE k == [m EXCEPT ![0] = m[0] + Page]
  <1>1. k[0] = m[0] + Page /\ m[0] \in Nat
    BY Sizes
  <1>2. IsPage(k[0])
    BY <1>1, NextPage DEF Tree
  <1>3. \A p \in Nat : p >= k[0] => p >= m[0]
    BY <1>1, Sizes
  <1>4. ASSUME NEW q \in Nat, NEW i \in 0 .. Page - 1, IsPage(q), q + i \in Cells, k[q + i] # 0
        PROVE  WordOK(R, used, put, q, i, k[q + i])
    <2>1. q + i # 0
      BY <1>4, NextPage
    <2>2. k[q + i] = m[q + i]
      BY <2>1
    <2> QED BY <1>4, <2>2 DEF Tree
  <1> HIDE DEF k
  <1>5. Tree(R, k, used, put)
    BY <1>2, <1>3, <1>4 DEF Tree
  <1> QED BY <1>5 DEF k

(* The words of a block are written.                                           *)
LEMMA TreeBlock ==
  ASSUME NEW R, NEW m \in [Cells -> Nat], NEW used, NEW put, Tree(R, m, used, put),
         NEW p \in Nat, IsPage(p), R[p].kind = "block", NEW k \in [Cells -> Nat],
         \A x \in Cells : \/ k[x] = m[x]
                          \/ \E n \in 0 .. Page - 1 :
                               x = p + n /\ <<R[p].file, Nth(R[p].nth, n), k[x]>> \in put
  PROVE  Tree(R, k, used, put)
  <1>1. p \in Nat /\ p # 0
    BY NextPage
  <1>2. k[0] = m[0]
    <2>1. \A n \in 0 .. Page - 1 : p + n # 0
      BY <1>1
    <2> QED BY <2>1, Sizes
  <1>3. ASSUME NEW q \in Nat, NEW i \in 0 .. Page - 1, IsPage(q), q + i \in Cells, k[q + i] # 0
        PROVE  WordOK(R, used, put, q, i, k[q + i])
    <2>1. CASE k[q + i] = m[q + i]
      BY <1>3, <2>1 DEF Tree
    <2>2. CASE k[q + i] # m[q + i]
      <3>1. PICK n \in 0 .. Page - 1 :
              q + i = p + n /\ <<R[p].file, Nth(R[p].nth, n), k[q + i]>> \in put
        BY <1>3, <2>2
      <3>2. q = p /\ i = n
        BY <1>3, <3>1, PagesDisjoint
      <3> QED BY <3>1, <3>2 DEF WordOK, Points
    <2> QED BY <2>1, <2>2
  <1> QED BY <1>2, <1>3 DEF Tree

(* A page that was free or its own gets a role: nothing is in it yet, and      *)
(* nothing points to it.                                                       *)
Given(R, p, r) == [q \in Nat |-> IF q = p THEN r ELSE R[q]]
(* The tree allows for it.                                                   *)
LEMMA TreeRole ==
  ASSUME NEW R, NEW m \in [Cells -> Nat], NEW used, NEW put, Tree(R, m, used, put), NEW c,
         NEW p \in Nat, IsPage(p), p < m[0], R[p] \in {Free, Own(c)}, NEW r
  PROVE  /\ Tree(Given(R, p, r), m, used, put) /\ Near(R, Given(R, p, r), c)
         /\ Given(R, p, r)[p] = r
         /\ \A q \in Nat : q # p => Given(R, p, r)[q] = R[q]
  <1> DEFINE S == Given(R, p, r)
  <1>1. p \in Nat /\ S[p] = r /\ \A q \in Nat : q # p => S[q] = R[q]
    BY DEF Given, IsPage
  <1> HIDE DEF S
  <1>2. Near(R, S, c)
    BY <1>1 DEF Near
  <1>3. ASSUME NEW q \in Nat, NEW n \in 0 .. Page - 1, IsPage(q), q + n \in Cells, m[q + n] # 0
        PROVE  WordOK(S, used, put, q, n, m[q + n])
    <2>1. WordOK(R, used, put, q, n, m[q + n])
      BY <1>3 DEF Tree
    <2>2. q # p
      BY <2>1 DEF WordOK, Free, Own, Role
    <2>3. S[q] = R[q]
      BY <1>1, <2>2
    <2>4. Child(S, used, q, n) = Child(R, used, q, n) /\ (Points(S, q, n) <=> Points(R, q, n))
      BY <2>3 DEF Child, Points
    <2>5. Points(R, q, n) => S[m[q + n]] = R[m[q + n]]
      <3>1. Child(R, used, q, n) \notin {Free, Own(c)}
        BY DEF Child, Free, Own, Role
      <3>2. Points(R, q, n) => m[q + n] # p /\ m[q + n] \in Nat
        BY <2>1, <3>1 DEF WordOK, IsPage
      <3> QED BY <1>1, <3>2
    <2> QED BY <2>1, <2>3, <2>4, <2>5 DEF WordOK
  <1>4. \A q \in Nat : IsPage(q) /\ q >= m[0] => S[q] = Free
    <2>1. m[0] \in Nat
      BY Sizes
    <2>2. \A q \in Nat : q >= m[0] => q # p
      BY <1>1, <2>1
    <2> QED BY <1>1, <2>2 DEF Tree
  <1>5. Tree(S, m, used, put)
    BY <1>3, <1>4 DEF Tree
  <1> QED BY <1>1, <1>2, <1>5 DEF S

(* A word that is no longer 0 tells what it leads to, or what was put there.   *)
LEMMA Follow ==
  ASSUME NEW R, NEW m \in [Cells -> Nat], NEW used, NEW put, Tree(R, m, used, put),
         NEW p \in Nat, IsPage(p), NEW n \in 0 .. Page - 1, p + n \in Cells, Points(R, p, n),
         NEW v \in Nat, v # 0, m[p + n] = v
  PROVE  IsPage(v) /\ R[v] = Child(R, used, p, n)
  BY DEF Tree, WordOK

(* ... or, in a block, was put there.                                        *)
LEMMA Content ==
  ASSUME NEW R, NEW m \in [Cells -> Nat], NEW used, NEW put, Tree(R, m, used, put),
         NEW p \in Nat, IsPage(p), NEW n \in 0 .. Page - 1, p + n \in Cells, R[p].kind = "block",
         NEW v \in Nat, v # 0, m[p + n] = v
  PROVE  <<R[p].file, Nth(R[p].nth, n), v>> \in put
  BY DEF Tree, WordOK

(* A store's own page is below the counter.                                    *)
LEMMA OwnBelow ==
  ASSUME NEW R, NEW m \in [Cells -> Nat], NEW used, NEW put, Tree(R, m, used, put),
         NEW p \in Nat, IsPage(p), R[p] # Free
  PROVE  p < m[0]
  <1>1. p \in Nat /\ m[0] \in Nat
    BY Sizes DEF IsPage
  <1>2. ~(p >= m[0])
    BY <1>1 DEF Tree
  <1> QED BY <1>1, <1>2

-------------------------------------------------------------------------------
(* The locals of a call, one by one.                                           *)
LEMMA LocalTypes ==
  ASSUME NEW m \in Locals
  PROVE  /\ m.ino \in Nat /\ m.off \in Nat /\ m.left \in Nat /\ m.rest \in Nat
         /\ m.buf \in Seq(Nat) /\ m.ptr \in Nat /\ m.l2 \in Nat /\ m.l3 \in Nat /\ m.page \in Nat
         /\ m.for \in {"inode", "block", "l2", "l3"} /\ m.result \in Nat \cup {Refused, Exception}
  BY DEF Locals

(* The calls, kind by kind.                                                    *)
LEMMA JobTypes ==
  ASSUME NEW c \in Client, NEW j \in Jobs[c]
  PROVE  /\ j.kind \in {"create", "lookup", "setLen", "getLen", "put", "get"}
         /\ j.kind \in {"create", "lookup"} => j.name \in Name
         /\ j.kind = "setLen" => j.len \in Nat
         /\ j.kind = "put" => /\ j.off \in Nat /\ j.values \in Seq(Nat)
                              /\ j.off + Len(j.values) <= Limit
         /\ j.kind = "get" => j.off \in Nat /\ j.n \in Nat /\ j.off + j.n <= Limit
  <1>1. \/ j.kind \in {"create", "lookup"} /\ j.name \in Name
        \/ j.kind = "setLen" /\ j.len \in Nat
        \/ j.kind = "getLen"
        \/ /\ j.kind = "put" /\ j.off \in Nat /\ j.values \in Seq(Nat)
           /\ j.off + Len(j.values) <= Page * Page * Page
        \/ j.kind = "get" /\ j.off \in Nat /\ j.n \in Nat /\ j.off + j.n <= Page * Page * Page
    BY InodeStoreAssumption
  <1> QED BY <1>1 DEF Limit

(* The least of two numbers, and of three.                                     *)
LEMMA LeastOfTwo ==
  ASSUME NEW x \in Int, NEW y \in Int
  PROVE  Min({x, y}) \in {x, y} /\ Min({x, y}) <= x /\ Min({x, y}) <= y
  <1>1. \E z \in {x, y} : \A w \in {x, y} : z <= w
    <2>1. CASE x <= y
      BY <2>1
    <2>2. CASE ~(x <= y)
      BY <2>2
    <2> QED BY <2>1, <2>2
  <1> QED BY <1>1 DEF Min

(* The least of three numbers.                                               *)
LEMMA LeastOfThree ==
  ASSUME NEW x \in Int, NEW y \in Int, NEW z \in Int
  PROVE  /\ Min({x, y, z}) \in {x, y, z}
         /\ Min({x, y, z}) <= x /\ Min({x, y, z}) <= y /\ Min({x, y, z}) <= z
  <1>1. \E u \in {x, y, z} : \A w \in {x, y, z} : u <= w
    <2>1. CASE x <= y /\ x <= z
      BY <2>1
    <2>2. CASE y <= x /\ y <= z
      BY <2>2
    <2>3. CASE z <= x /\ z <= y
      BY <2>3
    <2> QED BY <2>1, <2>2, <2>3
  <1> QED BY <1>1 DEF Min

(* A chunk is a part of what is left, a request one that ends with its block.  *)
LEMMA Chunks ==
  ASSUME NEW c, NEW n \in Nat
  PROVE  NextChunk(c, n) \in Nat /\ NextChunk(c, n) <= n
  <1>1. Chunk \in Int /\ Chunk \in Nat
    BY Sizes
  <1>2. Min({n, Chunk}) \in {n, Chunk} /\ Min({n, Chunk}) <= n
    BY <1>1, LeastOfTwo
  <1>3. Min({n, Chunk}) \in Nat
    BY <1>1, <1>2
  <1> QED BY <1>2, <1>3 DEF NextChunk

(* A request ends with its block.                                            *)
LEMMA Spans ==
  ASSUME NEW m \in Locals
  PROVE  Span(m) \in Nat /\ Span(m) <= m.left /\ (m.off % Page) + Span(m) <= Page
  <1>1. m.left \in Nat /\ m.off \in Nat
    BY LocalTypes
  <1>2. m.off % Page \in 0 .. Page - 1
    BY <1>1, Divided
  <1>3. Req \in Nat /\ Page \in Nat
    BY Sizes
  <1>4. PICK k \in Nat : k = Page - (m.off % Page)
    BY <1>2, <1>3
  <1>5. PICK x \in Nat, y \in Nat : x = m.left /\ y = Req
    BY <1>1, <1>3
  <1>6. Min({x, y, k}) \in {x, y, k} /\ Min({x, y, k}) <= x /\ Min({x, y, k}) <= k
    <2>1. x \in Int /\ y \in Int /\ k \in Int
      OBVIOUS
    <2> QED BY <2>1, LeastOfThree
  <1>7. Span(m) = Min({x, y, k})
    BY <1>4, <1>5 DEF Span
  <1>8. Span(m) \in Nat /\ Span(m) <= m.left /\ Span(m) <= k
    BY <1>5, <1>6, <1>7
  <1> QED BY <1>2, <1>3, <1>4, <1>8

(* What every operation of c leaves alone.                                     *)
LEMMA Operates ==
  ASSUME Types, NEW c \in Client, Operate(c)
  PROVE  /\ names' = names /\ job' = job /\ inode' = inode /\ jobs' = jobs
         /\ mem' = Effect(OpOf(c), mem) /\ holder' \in {holder, Nobody}
         /\ was'.put = was.put /\ was.used \subseteq was'.used
         /\ pc[c] \in {"direct", "l2"} => <<me[c].ino, Block(me[c].off)>> \in was'.used
         /\ was' = [used |-> was'.used, put |-> was'.put, last |-> was'.last, lost |-> was'.lost]
         /\ Working(c) /\ pc[c] \notin {"publish", "lookup"}
  <1>1. /\ Record(c, OpOf(c)) /\ names' = names /\ job' = job /\ inode' = inode /\ jobs' = jobs
        /\ mem' = Effect(OpOf(c), mem) /\ holder' \in {holder, Nobody}
        /\ Working(c) /\ pc[c] \notin {"publish", "lookup"}
    BY DEF Operate
  <1>2. PICK last, lost : was' = [was EXCEPT
          !.used = IF pc[c] \in {"direct", "l2"} THEN @ \cup {<<me[c].ino, Block(me[c].off)>>} ELSE @,
          !.last = last, !.lost = lost]
    BY <1>1 DEF Record
  <1>3. was = [used |-> was.used, put |-> was.put, last |-> was.last, lost |-> was.lost]
    BY DEF Types
  <1> QED BY <1>1, <1>2, <1>3

(* The words that c's operation stores, as the bookkeeping has them.           *)
Stores(c)  == pc[c] = "transfer" /\ job[c].kind = "put"
Written(c) == {<<me[c].ino, me[c].off + n - 1, OpOf(c).values[n]>> :
                 n \in {k \in DOMAIN OpOf(c).values : OpOf(c).addr + k - 1 \in Cells}}
Places(X)  == {<<x[1], x[2]>> : x \in X}
Strays(x)  == AddressOf(mem', x[1], x[2]) # AddressOf(mem, x[1], x[2])
Missed(c)  == {x \in Written(c) :
                 AddressOf(mem, x[1], x[2]) # OpOf(c).addr + x[2] - me[c].off}

(* What the bookkeeping does with them.                                        *)
LEMMA Recorded ==
  ASSUME Types, NEW c, Operate(c)
  PROVE  /\ ~Stores(c) => /\ was'.last = was.last
                          /\ was'.lost = was.lost \cup
                               (IF pc[c] \in Installs THEN Places({x \in was.last : Strays(x)}) ELSE {})
         /\ Stores(c) => /\ was'.last = {x \in was.last : <<x[1], x[2]>> \notin Places(Written(c))}
                                           \cup Written(c)
                         /\ was'.lost = (was.lost \ Places(Written(c))) \cup Places(Missed(c))
  <1> DEFINE stored == IF pc[c] # "transfer" \/ job[c].kind # "put" THEN {} ELSE Written(c)
             gone   == IF pc[c] \in Installs THEN {x \in was.last : Strays(x)}
                       ELSE {x \in stored : AddressOf(mem, x[1], x[2])
                                               # OpOf(c).addr + x[2] - me[c].off}
  <1>1. PICK used : was' = [was EXCEPT
          !.used = used,
          !.last = {x \in @ : <<x[1], x[2]>> \notin Places(stored)} \cup stored,
          !.lost = (@ \ Places(stored)) \cup Places(gone)]
    BY DEF Operate, Record, Written, Places, Strays
  <1>2. was = [used |-> was.used, put |-> was.put, last |-> was.last, lost |-> was.lost]
    BY DEF Types
  <1> HIDE DEF stored, gone
  <1>3. /\ was'.last = {x \in was.last : <<x[1], x[2]>> \notin Places(stored)} \cup stored
        /\ was'.lost = (was.lost \ Places(stored)) \cup Places(gone)
    BY <1>1, <1>2
  <1>4. Places({}) = {}
    BY DEF Places
  <1>5. CASE ~Stores(c)
    <2>1. stored = {}
      BY <1>5 DEF stored, Stores
    <2>2. gone = IF pc[c] \in Installs THEN {x \in was.last : Strays(x)} ELSE {}
      BY <2>1 DEF gone
    <2>3. was'.last = was.last
      BY <1>3, <1>4, <2>1
    <2>4. was'.lost = was.lost \cup Places(gone)
      BY <1>3, <1>4, <2>1
    <2> QED BY <1>4, <1>5, <2>2, <2>3, <2>4
  <1>6. CASE Stores(c)
    <2>1. stored = Written(c)
      BY <1>6 DEF stored, Stores
    <2>2. gone = Missed(c)
      BY <1>6, <2>1 DEF gone, Stores, Installs, Missed
    <2> QED BY <1>3, <1>6, <2>1, <2>2
  <1> QED BY <1>5, <1>6

(* What comes after an answer.                                                 *)
LEMMA Answered ==
  ASSUME NEW c, Operate(c)
  PROVE  LET res == Outcome(OpOf(c), mem) v == Outcome(OpOf(c), mem).result[1] IN
         \/ res.error # "OK" /\ Returns(c, Exception)
         \/ /\ res.error = "OK"
            /\ \/ pc[c] \in Allocs /\ AfterAlloc(c, v)
               \/ pc[c] \in {"setLen", "getLen", "length"} /\ AfterLen(c, v)
               \/ pc[c] \in Finds /\ AfterFind(c, v)
               \/ pc[c] \in Sets /\ AfterInstall(c, v)
               \/ pc[c] = "transfer" /\ AfterTransfer(c, res.result)
  <1> DEFINE res == Outcome(OpOf(c), mem)
             v == Outcome(OpOf(c), mem).result[1]
  <1>1. \/ res.error # "OK" /\ Returns(c, Exception)
        \/ /\ res.error = "OK"
           /\ \/ AfterAlloc(c, v) \/ AfterLen(c, v)
              \/ AfterFind(c, v) \/ AfterInstall(c, v)
              \/ AfterTransfer(c, res.result)
    BY DEF Operate
  <1> HIDE DEF res, v
  <1>2. AfterAlloc(c, v) => pc[c] \in Allocs
    BY DEF AfterAlloc, Allocs
  <1>3. AfterLen(c, v) => pc[c] \in {"setLen", "getLen", "length"}
    BY DEF AfterLen
  <1>4. AfterFind(c, v) => pc[c] \in Finds
    BY DEF AfterFind, Finds
  <1>5. AfterInstall(c, v) => pc[c] \in Sets
    BY DEF AfterInstall, Sets
  <1>6. AfterTransfer(c, res.result) => pc[c] = "transfer"
    BY DEF AfterTransfer
  <1>7. \/ res.error # "OK" /\ Returns(c, Exception)
        \/ /\ res.error = "OK"
           /\ \/ pc[c] \in Allocs /\ AfterAlloc(c, v)
              \/ pc[c] \in {"setLen", "getLen", "length"} /\ AfterLen(c, v)
              \/ pc[c] \in Finds /\ AfterFind(c, v)
              \/ pc[c] \in Sets /\ AfterInstall(c, v)
              \/ pc[c] = "transfer" /\ AfterTransfer(c, res.result)
    BY <1>1, <1>2, <1>3, <1>4, <1>5, <1>6
  <1> QED BY <1>7 DEF res, v

-------------------------------------------------------------------------------
(* Where a step of c leads it: to label l with locals m, memory k and blocks   *)
(* that were accessed, and everything is as the invariant says.                *)
Fine(c, l, m, used) == /\ l \in Labels /\ m \in Locals /\ CallOK(c, l, job[c], m)
                       /\ BufferOK(l, job[c], m, inode[c], was.put) /\ PathOK(l, m, used)
Before(R, c, used) == /\ Tree(R, mem, used, was.put) /\ Lists(R) /\ ~Mixed(used)
                      /\ Holds(R, c, pc[c], job[c], me[c], was.put)
Moves(c, l, m, k, used) ==
  \A R : Before(R, c, used) => \E S : /\ Tree(S, k, used, was.put) /\ Near(R, S, c)
                                     /\ Holds(S, c, l, job[c], m, was.put)
Good(c) == \E l, m : /\ pc' = [pc EXCEPT ![c] = l] /\ me' = [me EXCEPT ![c] = m]
                     /\ mem' \in [Cells -> Nat] /\ Fine(c, l, m, was'.used)
                     /\ Moves(c, l, m, mem', was'.used)

(* A page keeps its role.                                                      *)
LEMMA NearSame ==
  ASSUME NEW R, NEW c
  PROVE  Near(R, R, c)
  BY DEF Near

(* Looking for more blocks changes no path.                                    *)
LEMMA PathGrows ==
  ASSUME NEW l, NEW m, NEW used, NEW more, used \subseteq more, PathOK(l, m, used)
  PROVE  PathOK(l, m, more)
  BY DEF PathOK

(* A call that ends with a code: an exception, or a length.                    *)
LEMMA Ending ==
  ASSUME Types, NEW c \in Client, FlowAt(c), pc[c] # "ready", NEW used,
         NEW rc \in Nat \cup {Refused, Exception},
         job[c].kind \notin {"create", "lookup"} \/ rc = Exception
  PROVE  LET m == [me[c] EXCEPT !.result = rc] IN
         /\ Fine(c, "return", m, used)
         /\ \A R : Holds(R, c, pc[c], job[c], me[c], was.put)
                     => Holds(R, c, "return", job[c], m, was.put)
  <1> DEFINE n == me[c]
             m == [me[c] EXCEPT !.result = rc]
  <1>1. n \in Locals
    BY DEF Types
  <1>2. m \in Locals /\ m.result = rc /\ m.ino = n.ino /\ m.off = n.off /\ m.left = n.left
        /\ m.rest = n.rest /\ m.buf = n.buf /\ m.for = n.for
    BY <1>1 DEF Locals
  <1>3. CallOK(c, "return", job[c], m)
    BY DEF FlowAt, CallOK, Finds, Sets, Allocs
  <1>4. BufferOK("return", job[c], m, inode[c], was.put)
    BY <1>2 DEF FlowAt, BufferOK
  <1>5. PathOK("return", m, used)
    BY DEF PathOK, Late, Sets, Allocs
  <1>6. ~(Exception > 0)
    BY DEF Exception
  <1>7. ASSUME NEW R, Holds(R, c, pc[c], job[c], n, was.put)
        PROVE  Holds(R, c, "return", job[c], m, was.put)
    <2>1. ReadOK(job[c], m, was.put)
      BY <1>2, <1>7 DEF Holds, ReadOK
    <2> QED BY <1>2, <1>6, <2>1 DEF Holds, Late, Sets, Allocs
  <1> QED BY <1>2, <1>3, <1>4, <1>5, <1>7 DEF Fine, Labels, Plain

(* The parts of a buffer, and two in a row.                                    *)
LEMMA Parts ==
  ASSUME NEW s \in Seq(Nat), NEW n \in Nat, n <= Len(s)
  PROVE  /\ SubSeq(s, 1, n) \in Seq(Nat) /\ Len(SubSeq(s, 1, n)) = n
         /\ \A k \in 1 .. n : SubSeq(s, 1, n)[k] = s[k]
         /\ SubSeq(s, n + 1, Len(s)) \in Seq(Nat) /\ Len(SubSeq(s, n + 1, Len(s))) = Len(s) - n
         /\ \A k \in 1 .. Len(s) - n : SubSeq(s, n + 1, Len(s))[k] = s[n + k]
  <1>1. PICK z \in Nat : z = Len(s)
    OBVIOUS
  <1>2. /\ SubSeq(s, 1, n) \in Seq(Nat)
        /\ Len(SubSeq(s, 1, n)) = IF 1 <= n THEN n - 1 + 1 ELSE 0
        /\ \A k \in 1 .. n - 1 + 1 : SubSeq(s, 1, n)[k] = s[1 + k - 1]
    <2>1. \A k \in 1 .. n : s[k] \in Nat
      BY <1>1
    <2>2. 1 \in Int /\ n \in Int
      OBVIOUS
    <2> QED BY <2>1, <2>2, SubSeqProperties
  <1>3. /\ SubSeq(s, n + 1, z) \in Seq(Nat)
        /\ Len(SubSeq(s, n + 1, z)) = IF n + 1 <= z THEN z - (n + 1) + 1 ELSE 0
        /\ \A k \in 1 .. z - (n + 1) + 1 : SubSeq(s, n + 1, z)[k] = s[(n + 1) + k - 1]
    <2>1. \A k \in n + 1 .. z : s[k] \in Nat
      BY <1>1
    <2>2. n + 1 \in Int /\ z \in Int
      OBVIOUS
    <2> QED BY <2>1, <2>2, SubSeqProperties
  <1>4. z - (n + 1) + 1 = z - n /\ n - 1 + 1 = n
    OBVIOUS
  <1>5. \A k \in 1 .. n : 1 + k - 1 = k
    OBVIOUS
  <1>6. \A k \in 1 .. z - n : (n + 1) + k - 1 = n + k
    OBVIOUS
  <1>7. Len(SubSeq(s, 1, n)) = n
    BY <1>2
  <1>8. Len(SubSeq(s, n + 1, z)) = z - n
    BY <1>1, <1>3
  <1>9. \A k \in 1 .. n : SubSeq(s, 1, n)[k] = s[k]
    BY <1>2, <1>4, <1>5
  <1>10. \A k \in 1 .. z - n : SubSeq(s, n + 1, z)[k] = s[n + k]
    BY <1>3, <1>4, <1>6
  <1> QED BY <1>1, <1>2, <1>3, <1>7, <1>8, <1>9, <1>10

(* Two buffers in a row.                                                     *)
LEMMA Joined ==
  ASSUME NEW s \in Seq(Nat), NEW t \in Seq(Nat)
  PROVE  /\ s \o t \in Seq(Nat) /\ Len(s \o t) = Len(s) + Len(t)
         /\ \A k \in 1 .. Len(s) : (s \o t)[k] = s[k]
         /\ \A k \in 1 .. Len(s) + Len(t) : ~(k <= Len(s)) =>
              k - Len(s) \in 1 .. Len(t) /\ (s \o t)[k] = t[k - Len(s)]
  <1>1. /\ s \o t \in Seq(Nat) /\ Len(s \o t) = Len(s) + Len(t)
        /\ \A k \in 1 .. Len(s) + Len(t) : (s \o t)[k] = IF k <= Len(s) THEN s[k] ELSE t[k - Len(s)]
    BY ConcatProperties
  <1>2. PICK x \in Nat, y \in Nat : x = Len(s) /\ y = Len(t)
    OBVIOUS
  <1> QED BY <1>1, <1>2

(* The end of access().                                                        *)
EndLabel(c, m) == IF c \notin Active \/ m.rest = 0 THEN "return" ELSE "queued"
Skipped(j, m)  == IF j.kind = "put" THEN SubSeq(m.buf, m.left + 1, Len(m.buf))
                  ELSE m.buf \o [n \in 1 .. m.left |-> 0]
Ended(c, j, m, rc) ==
  IF c \notin Active THEN [m EXCEPT !.result = rc]
  ELSE [m EXCEPT !.buf = Skipped(j, m), !.off = m.off + m.left,
                 !.left = NextChunk(c, m.rest), !.rest = m.rest - NextChunk(c, m.rest)]

(* EndAccess goes to that label with those locals.                           *)
LEMMA Ends ==
  ASSUME NEW c, NEW m, NEW rc, EndAccess(c, m, rc), m \in Locals
  PROVE  /\ pc' = [pc EXCEPT ![c] = EndLabel(c, m)]
         /\ me' = [me EXCEPT ![c] = Ended(c, job[c], m, rc)]
  <1>1. CASE c \notin Active
    BY <1>1 DEF EndAccess, EndLabel, Ended, Goto
  <1>2. CASE c \in Active
    <2>1. /\ pc' = [pc EXCEPT ![c] = EndLabel(c, m)]
          /\ me' = [me EXCEPT ![c] = [m EXCEPT !.buf = Skipped(job[c], m), !.off = @ + m.left,
                        !.left = NextChunk(c, m.rest), !.rest = @ - NextChunk(c, m.rest)]]
      BY <1>2 DEF EndAccess, EndLabel, Skipped, Goto
    <2>2. [m EXCEPT !.buf = Skipped(job[c], m), !.off = @ + m.left,
                    !.left = NextChunk(c, m.rest), !.rest = @ - NextChunk(c, m.rest)]
            = Ended(c, job[c], m, rc)
      BY <1>2 DEF Ended
    <2> QED BY <2>1, <2>2
  <1> QED BY <1>1, <1>2

(* ... keeps the buffer in step with the words that are left.                  *)
LEMMA EndFine ==
  ASSUME NEW c \in Client, NEW j \in Jobs[c], IsAccess(j), NEW m \in Locals, NEW rc \in {0, Refused},
         NEW i, NEW put, BufferOK("transfer", j, m, i, put), NEW used
  PROVE  LET l == EndLabel(c, m) n == Ended(c, j, m, rc) IN
         /\ l \in Labels /\ n \in Locals /\ CallOK(c, l, j, n)
         /\ BufferOK(l, j, n, i, put) /\ PathOK(l, n, used)
         /\ ReadOK(j, m, put) => \A R : Holds(R, c, l, j, n, put)
  <1> DEFINE l == EndLabel(c, m)
             n == Ended(c, j, m, rc)
  <1>1. l \in {"return", "queued"} /\ (l = "queued" => c \in Active)
    BY DEF EndLabel
  <1>2. j.kind \in {"put", "get"} /\ j.kind \notin {"create", "lookup", "setLen", "getLen"}
    BY DEF IsAccess
  <1>3. j.kind = "get" => j.off \in Nat
    BY JobTypes
  <1>4. PICK x \in Nat, y \in Nat, o \in Nat, z \in Nat, buf \in Seq(Nat) :
          x = m.left /\ y = m.rest /\ o = m.off /\ buf = m.buf /\ z = NextChunk(c, m.rest) /\ z <= y
    BY LocalTypes, Chunks
  <1>5. CASE c \notin Active
    <2>1. n = [m EXCEPT !.result = rc]
      BY <1>5 DEF Ended
    <2>0. rc \in Nat \cup {Refused, Exception}
      OBVIOUS
    <2>2. n \in Locals /\ n.ino = m.ino /\ n.off = m.off /\ n.left = m.left
          /\ n.rest = m.rest /\ n.buf = m.buf
      BY <2>0, <2>1 DEF Locals
    <2>3. BufferOK(l, j, n, i, put)
      BY <1>1, <2>2 DEF BufferOK
    <2>4. ReadOK(j, m, put) => ReadOK(j, n, put)
      BY <2>2 DEF ReadOK
    <2> QED
      BY <1>1, <1>2, <2>2, <2>3, <2>4
      DEF Labels, Plain, CallOK, PathOK, Holds, Finds, Sets, Allocs, Late
  <1>6. CASE c \in Active
    <2>1. n = [m EXCEPT !.buf = Skipped(j, m), !.off = o + x, !.left = z, !.rest = y - z]
      BY <1>4, <1>6 DEF Ended
    <2>2. y - z \in Nat /\ o + x \in Nat
      BY <1>4
    <2>3. PICK s : s = Skipped(j, m)
      OBVIOUS
    <2>4. CASE j.kind = "put"
      <3>1. s = SubSeq(buf, x + 1, Len(buf)) /\ Len(buf) = x + y
        BY <1>4, <2>3, <2>4 DEF Skipped, BufferOK
      <3>2. s \in Seq(Nat) /\ Len(s) = y /\ \A k \in 1 .. y : s[k] = buf[x + k]
        <4>1. x <= Len(buf) /\ Len(buf) - x = y
          BY <1>4, <3>1
        <4> QED BY <3>1, <4>1, Parts
      <3>3. n \in Locals /\ n.ino = m.ino /\ n.off = o + x /\ n.left = z
            /\ n.rest = y - z /\ n.buf = s
        BY <2>1, <2>2, <2>3, <3>2, <1>4 DEF Locals
      <3>4. o + x + y <= Limit
        BY <1>4 DEF BufferOK, IsAccess
      <3>5. n.off + n.left + n.rest <= Limit
        BY <3>3, <3>4, <1>4 DEF Limit
      <3>6. ASSUME NEW k \in 1 .. y PROVE <<n.ino, n.off + (k - 1), s[k]>> \in put
        <4>1. x + k \in 1 .. (x + y) /\ o + x + (k - 1) = o + ((x + k) - 1)
          BY <1>4
        <4>2. <<m.ino, o + ((x + k) - 1), buf[x + k]>> \in put
          BY <3>1, <4>1, <1>4, <2>4 DEF BufferOK
        <4> QED BY <3>2, <3>3, <4>1, <4>2
      <3>7. n.left + n.rest = y
        BY <3>3, <1>4
      <3>8. BufferOK(l, j, n, i, put)
        BY <1>1, <1>2, <2>4, <3>2, <3>3, <3>5, <3>6, <3>7 DEF BufferOK
      <3>9. ReadOK(j, n, put)
        BY <2>4 DEF ReadOK
      <3> QED
        BY <1>1, <1>2, <3>3, <3>8, <3>9
        DEF Labels, Plain, CallOK, PathOK, Holds, Finds, Sets, Allocs, Late
    <2>5. CASE j.kind = "get"
      <3>1. PICK zs : zs = [k \in 1 .. x |-> 0]
        OBVIOUS
      <3>2. zs \in Seq(Nat) /\ Len(zs) = x /\ \A k \in 1 .. x : zs[k] = 0
        BY <3>1
      <3>3. s = buf \o zs
        BY <1>4, <2>3, <2>5, <3>1 DEF Skipped
      <3>4. /\ s \in Seq(Nat) /\ Len(s) = Len(buf) + x
            /\ \A k \in 1 .. Len(buf) : s[k] = buf[k]
            /\ \A k \in 1 .. Len(buf) + x : ~(k <= Len(buf)) => s[k] = 0
        <4>1. /\ s \in Seq(Nat) /\ Len(s) = Len(buf) + Len(zs)
              /\ \A k \in 1 .. Len(buf) : s[k] = buf[k]
              /\ \A k \in 1 .. Len(buf) + Len(zs) : ~(k <= Len(buf)) =>
                   k - Len(buf) \in 1 .. Len(zs) /\ s[k] = zs[k - Len(buf)]
          BY <3>2, <3>3, Joined
        <4> QED BY <3>2, <4>1
      <3>5. n \in Locals /\ n.ino = m.ino /\ n.off = o + x /\ n.left = z
            /\ n.rest = y - z /\ n.buf = s
        BY <2>1, <2>2, <2>3, <3>4, <1>4 DEF Locals
      <3>6. o + x + y <= Limit /\ o = j.off + Len(buf)
        BY <1>4, <2>5 DEF BufferOK, IsAccess
      <3>7. n.off + n.left + n.rest <= Limit
        BY <3>5, <3>6, <1>4 DEF Limit
      <3>8. n.off = j.off + Len(n.buf)
        <4>1. PICK w \in Nat, g \in Nat : w = Len(buf) /\ g = j.off
          BY <1>3, <2>5
        <4>3. o = g + w
          BY <3>6, <4>1
        <4>2. o + x = g + (w + x)
          BY <4>3
        <4> QED BY <3>4, <3>5, <4>1, <4>2
      <3>9. BufferOK(l, j, n, i, put)
        BY <1>1, <1>2, <2>5, <3>5, <3>7, <3>8 DEF BufferOK
      <3>10. ASSUME ReadOK(j, m, put) PROVE ReadOK(j, n, put)
        <4>1. ASSUME NEW k \in 1 .. Len(s)
              PROVE  s[k] = 0 \/ <<m.ino, j.off + (k - 1), s[k]>> \in put
          <5>1. CASE k <= Len(buf)
            <6>1. k \in 1 .. Len(buf)
              BY <5>1
            <6>2. s[k] = m.buf[k] /\ k \in 1 .. Len(m.buf)
              BY <1>4, <3>4, <6>1
            <6> QED BY <2>5, <3>10, <6>2 DEF ReadOK
          <5>2. CASE ~(k <= Len(buf))
            <6>1. k \in 1 .. Len(buf) + x
              BY <3>4
            <6> QED BY <3>4, <5>2, <6>1
          <5> QED BY <5>1, <5>2
        <4> QED BY <3>5, <4>1 DEF ReadOK
      <3> QED
        BY <1>1, <1>2, <3>5, <3>9, <3>10
        DEF Labels, Plain, CallOK, PathOK, Holds, Finds, Sets, Allocs, Late
    <2> QED BY <1>2, <2>4, <2>5
  <1> HIDE DEF l, n
  <1> QED BY <1>5, <1>6 DEF l, n

-------------------------------------------------------------------------------
(* Set changes one of the locals.                                              *)
LEMMA Setting ==
  ASSUME Types, NEW c \in Client, NEW v
  PROVE  /\ Set(c, "result", v) => me' = [me EXCEPT ![c] = [me[c] EXCEPT !.result = v]]
         /\ Set(c, "page", v) => me' = [me EXCEPT ![c] = [me[c] EXCEPT !.page = v]]
         /\ Set(c, "for", v) => me' = [me EXCEPT ![c] = [me[c] EXCEPT !.for = v]]
         /\ Set(c, "ino", v) => me' = [me EXCEPT ![c] = [me[c] EXCEPT !.ino = v]]
         /\ Set(c, "ptr", v) => me' = [me EXCEPT ![c] = [me[c] EXCEPT !.ptr = v]]
         /\ Set(c, "l2", v) => me' = [me EXCEPT ![c] = [me[c] EXCEPT !.l2 = v]]
         /\ Set(c, "l3", v) => me' = [me EXCEPT ![c] = [me[c] EXCEPT !.l3 = v]]
  BY DEF Set, Types

(* c's state, one by one.                                                      *)
LEMMA Here ==
  ASSUME Types, Flow, NEW c \in Client
  PROVE  /\ me[c] \in Locals /\ me = [me EXCEPT ![c] = me[c]] /\ FlowAt(c)
         /\ pc[c] # "ready" => job[c] \in Jobs[c]
         /\ mem \in [Cells -> Int] /\ mem \in [Cells -> Nat]
         /\ me[c].ino \in Nat /\ me[c].off \in Nat /\ me[c].left \in Nat /\ me[c].rest \in Nat
         /\ me[c].buf \in Seq(Nat) /\ me[c].ptr \in Nat /\ me[c].l2 \in Nat /\ me[c].l3 \in Nat
         /\ me[c].page \in Nat
  <1>1. me[c] \in Locals /\ me = [me EXCEPT ![c] = me[c]] /\ FlowAt(c)
    BY DEF Types, Flow
  <1>2. pc[c] # "ready" => job[c] \in Jobs[c]
    BY <1>1 DEF FlowAt, CallOK
  <1>3. mem \in [Cells -> Int] /\ mem \in [Cells -> Nat]
    BY DEF Types
  <1> QED BY <1>1, <1>2, <1>3, LocalTypes

(* A step that was refused ends with an exception.                             *)
LEMMA Refusal ==
  ASSUME Types, Flow, NEW c \in Client, pc[c] # "ready", Returns(c, Exception),
         mem' \in [Cells -> Nat],
         \A R : Before(R, c, was'.used) => Tree(R, mem', was'.used, was.put)
  PROVE  Good(c)
  <1> DEFINE m == [me[c] EXCEPT !.result = Exception]
  <1>1. pc' = [pc EXCEPT ![c] = "return"] /\ me' = [me EXCEPT ![c] = m]
    BY Setting DEF Returns, Goto
  <1>2. FlowAt(c)
    BY DEF Flow
  <1>3. /\ Fine(c, "return", m, was'.used)
        /\ \A R : Holds(R, c, pc[c], job[c], me[c], was.put)
                    => Holds(R, c, "return", job[c], m, was.put)
    BY <1>2, Ending
  <1> HIDE DEF m
  <1>4. Moves(c, "return", m, mem', was'.used)
    BY <1>3, NearSame DEF Moves, Before
  <1> QED BY <1>1, <1>3, <1>4 DEF Good

(* A step that reads and goes on.                                              *)
LEMMA Reading ==
  ASSUME NEW c, NEW l, NEW m, mem' = mem, NEW used,
         \A R : Before(R, c, used) => Holds(R, c, l, job[c], m, was.put)
  PROVE  Moves(c, l, m, mem', used)
  BY NearSame DEF Moves, Before

(* The length of a file.                                                       *)
LEMMA StepSetLen ==
  ASSUME Types, Flow, NEW c \in Client, Operate(c), pc[c] = "setLen"
  PROVE  Good(c)
  <1> DEFINE i == me[c].ino
             v == job[c].len
  <1>1. job[c] \in Jobs[c] /\ job[c].kind = "setLen" /\ i = inode[c] /\ i \in Nat
    BY Here DEF FlowAt, CallOK, BufferOK
  <1>2. v \in Nat /\ v \in Int
    BY <1>1, JobTypes
  <1>3. OpOf(c) = Write(i, <<v>>)
    BY DEF OpOf
  <1> HIDE DEF i, v
  <1>4. /\ i < MemSize => mem' = [mem EXCEPT ![i] = v]
        /\ ~(i < MemSize) => mem' = mem
        /\ Outcome(OpOf(c), mem).error = "OK" <=> i < MemSize
    <2>1. mem \in [Cells -> Int]
      BY Here
    <2>2. mem' = Effect(Write(i, <<v>>), mem)
      BY <1>3, Operates
    <2>3. /\ i < MemSize => Effect(Write(i, <<v>>), mem) = [mem EXCEPT ![i] = v]
          /\ ~(i < MemSize) => Effect(Write(i, <<v>>), mem) = mem
          /\ Outcome(Write(i, <<v>>), mem).error = "OK" <=> i < MemSize
      BY <1>1, <1>2, <2>1, WriteOne
    <2> QED BY <1>3, <2>2, <2>3
  <1>5. mem' \in [Cells -> Nat]
    BY <1>2, <1>4, Here
  <1>6. ASSUME NEW R, NEW used, Tree(R, mem, used, was.put), Lists(R)
        PROVE  Tree(R, mem', used, was.put)
    <2>1. IsPage(i) /\ R[i] = Inode
      BY <1>1, <1>6 DEF Lists, IsInode
    <2>2. WordOK(R, used, was.put, i, 0, v)
      BY <2>1, Sizes DEF WordOK, Points, Inode, Role
    <2>3. i + 0 = i /\ 0 \in 0 .. Page - 1
      BY <1>1, Sizes
    <2>4. CASE i < MemSize
      <3>1. i + 0 \in Cells
        BY <1>1, <2>3, <2>4, Sizes
      <3>2. Tree(R, [mem EXCEPT ![i + 0] = v], used, was.put)
        BY <1>1, <1>2, <1>6, <2>1, <2>2, <2>3, <3>1, Here, TreeWrite
      <3> QED BY <1>4, <2>3, <2>4, <3>2
    <2>5. CASE ~(i < MemSize)
      BY <1>4, <1>6, <2>5
    <2> QED BY <2>4, <2>5
  <1>7. \/ Returns(c, Exception)
        \/ Returns(c, 0)
    BY Answered DEF AfterLen, Allocs, Finds, Sets
  <1>8. CASE Returns(c, Exception)
    BY <1>5, <1>6, <1>8, Refusal DEF Before
  <1>9. CASE Returns(c, 0)
    <2> DEFINE m == [me[c] EXCEPT !.result = 0]
    <2>1. pc' = [pc EXCEPT ![c] = "return"] /\ me' = [me EXCEPT ![c] = m]
      BY <1>9, Setting DEF Returns, Goto
    <2>2. /\ Fine(c, "return", m, was'.used)
          /\ \A R : Holds(R, c, pc[c], job[c], me[c], was.put)
                      => Holds(R, c, "return", job[c], m, was.put)
      BY <1>1, Here, Ending
    <2> HIDE DEF m
    <2>3. Moves(c, "return", m, mem', was'.used)
      BY <1>6, <2>2, NearSame DEF Moves, Before
    <2> QED BY <1>5, <2>1, <2>2, <2>3 DEF Good
  <1> QED BY <1>7, <1>8, <1>9

(* getLength reads it and changes nothing.                                   *)
LEMMA StepGetLen ==
  ASSUME Types, Flow, NEW c \in Client, Operate(c), pc[c] = "getLen"
  PROVE  Good(c)
  <1> DEFINE i == me[c].ino
  <1>1. job[c].kind = "getLen" /\ i \in Nat
    BY Here DEF FlowAt, CallOK
  <1>2. OpOf(c) = Read(i, 1)
    BY DEF OpOf
  <1>3. /\ mem' = mem
        /\ Outcome(OpOf(c), mem).error = "OK" <=> i < MemSize
        /\ i < MemSize => Outcome(OpOf(c), mem).result[1] = mem[i]
    BY <1>1, <1>2, ReadOne, Operates
  <1>4. \/ Returns(c, Exception)
        \/ i < MemSize /\ Returns(c, mem[i])
    BY <1>3, Answered DEF AfterLen, Allocs, Finds, Sets
  <1>5. CASE Returns(c, Exception)
    BY <1>3, <1>5, Refusal, Here DEF Before
  <1>6. CASE i < MemSize /\ Returns(c, mem[i])
    <2>1. PICK v \in Nat : v = mem[i]
      BY <1>1, <1>6, Here, Sizes
    <2> DEFINE m == [me[c] EXCEPT !.result = v]
    <2>2. pc' = [pc EXCEPT ![c] = "return"] /\ me' = [me EXCEPT ![c] = m]
      BY <1>6, <2>1, Setting DEF Returns, Goto
    <2>3. /\ Fine(c, "return", m, was'.used)
          /\ \A R : Holds(R, c, pc[c], job[c], me[c], was.put)
                      => Holds(R, c, "return", job[c], m, was.put)
      BY <1>1, Here, Ending
    <2> HIDE DEF m
    <2>4. Moves(c, "return", m, mem', was'.used)
      BY <1>3, <2>3, Reading DEF Before
    <2> QED BY <1>3, <2>2, <2>3, <2>4, Here DEF Good
  <1> QED BY <1>4, <1>5, <1>6

(* access() looks for its next block.                                          *)
LEMMA Looking ==
  ASSUME NEW c, NEW j \in Jobs[c], IsAccess(j), NEW m, NEW i, NEW put,
         BufferOK("transfer", j, m, i, put), NEW used
  PROVE  LET l == SlotLabel(m.off) IN
         /\ l \in Labels /\ CallOK(c, l, j, m) /\ BufferOK(l, j, m, i, put) /\ PathOK(l, m, used)
         /\ ReadOK(j, m, put) => \A R : Holds(R, c, l, j, m, put)
  <1> DEFINE l == SlotLabel(m.off)
  <1>1. \/ l = "direct" /\ IsDirect(m.off)
        \/ l = "l2" /\ ~IsDirect(m.off)
    BY DEF SlotLabel
  <1> HIDE DEF l
  <1>2. l \in Labels /\ CallOK(c, l, j, m)
    BY <1>1 DEF Labels, Plain, Finds, CallOK, Sets, Allocs
  <1>3. BufferOK(l, j, m, i, put)
    BY <1>1 DEF BufferOK
  <1>4. PathOK(l, m, used)
    BY <1>1 DEF PathOK, Sets, Allocs, Late
  <1>5. ReadOK(j, m, put) => \A R : Holds(R, c, l, j, m, put)
    BY <1>1 DEF Holds, Sets, Allocs, Late
  <1> QED BY <1>2, <1>3, <1>4, <1>5 DEF l

(* A call that is in access(), whichever label it is at.                       *)
InAccess(c) == \/ pc[c] \in Finds \cup Sets \cup {"length", "transfer"}
               \/ pc[c] \in Allocs /\ me[c].for # "inode"

(* Such a call is a put or a get, and its buffer is in step.                 *)
LEMMA Accessing ==
  ASSUME Types, Flow, NEW c \in Client,
         InAccess(c)
  PROVE  /\ job[c] \in Jobs[c] /\ IsAccess(job[c]) /\ pc[c] # "ready" /\ me[c].ino = inode[c]
         /\ pc[c] \notin Finds \cup {"length", "transfer"} => job[c].kind = "put"
         /\ BufferOK("transfer", job[c], me[c], inode[c], was.put)
         /\ me[c].off \in Nat /\ me[c].off <= Limit
         /\ \A R : Holds(R, c, pc[c], job[c], me[c], was.put) => ReadOK(job[c], me[c], was.put)
  <1>1. CallOK(c, pc[c], job[c], me[c]) /\ BufferOK(pc[c], job[c], me[c], inode[c], was.put)
    BY Here DEF FlowAt
  <1>2. pc[c] # "ready"
    BY DEF Finds, Sets, Allocs, InAccess
  <1>3. job[c] \in Jobs[c]
    BY <1>2, Here
  <1>4. pc[c] \notin Finds \cup {"length", "transfer"} => job[c].kind = "put"
    BY <1>1 DEF CallOK, Finds, Sets, Allocs, InAccess
  <1>5. IsAccess(job[c])
    BY <1>1, <1>4 DEF CallOK, IsAccess, InAccess
  <1>6. BufferOK("transfer", job[c], me[c], inode[c], was.put)
    BY <1>1, <1>2 DEF BufferOK
  <1>7. me[c].ino = inode[c]
    BY <1>5, <1>6 DEF BufferOK, IsAccess
  <1>8. me[c].off <= Limit
    <2>1. PICK o \in Nat, x \in Nat, y \in Nat : o = me[c].off /\ x = me[c].left /\ y = me[c].rest
      BY Here
    <2>2. o + x + y <= Limit /\ Limit \in Int
      BY <1>5, <1>6, <2>1, Sizes DEF BufferOK, Limit
    <2> QED BY <2>1, <2>2
  <1> QED BY <1>2, <1>3, <1>4, <1>5, <1>6, <1>7, <1>8, Here DEF Holds

(* access() is over without having stored or read.                             *)
LEMMA Stopping ==
  ASSUME Types, Flow, NEW c \in Client,
         InAccess(c),
         EndAccess(c, me[c], Refused), mem' = mem
  PROVE  Good(c)
  <1> DEFINE l == EndLabel(c, me[c])
             m == Ended(c, job[c], me[c], Refused)
             u == was'.used
  <1>1. pc' = [pc EXCEPT ![c] = l] /\ me' = [me EXCEPT ![c] = m]
    BY Ends, Here
  <1>2. /\ l \in Labels /\ m \in Locals /\ CallOK(c, l, job[c], m)
        /\ BufferOK(l, job[c], m, inode[c], was.put) /\ PathOK(l, m, u)
        /\ ReadOK(job[c], me[c], was.put) => \A R : Holds(R, c, l, job[c], m, was.put)
    BY Accessing, Here, EndFine
  <1> HIDE DEF l, m
  <1>3. Fine(c, l, m, u)
    BY <1>2 DEF Fine
  <1>4. Moves(c, l, m, mem', u)
    BY <1>2, Accessing, Reading DEF Before
  <1> QED BY <1>1, <1>3, <1>4, Here DEF Good

(* access() refuses what is beyond the length, or looks for a block.         *)
LEMMA StepLength ==
  ASSUME Types, Flow, NEW c \in Client, Operate(c), pc[c] = "length"
  PROVE  Good(c)
  <1>0. InAccess(c)
    BY DEF InAccess
  <1>1. PICK i \in Nat : i = me[c].ino
    BY Here
  <1>2. OpOf(c) = Read(i, 1)
    BY <1>1 DEF OpOf
  <1>3. mem' = mem
    BY <1>2, ReadOne, Operates
  <1>4. \/ Returns(c, Exception)
        \/ EndAccess(c, me[c], Refused)
        \/ Goto(c, SlotLabel(me[c].off)) /\ UNCHANGED me
    BY Answered DEF AfterLen, Allocs, Finds, Sets
  <1>5. CASE Returns(c, Exception)
    BY <1>3, <1>5, Refusal, Here DEF Before
  <1>6. CASE EndAccess(c, me[c], Refused)
    BY <1>0, <1>3, <1>6, Stopping
  <1>7. CASE Goto(c, SlotLabel(me[c].off)) /\ UNCHANGED me
    <2> DEFINE l == SlotLabel(me[c].off)
    <2>1. pc' = [pc EXCEPT ![c] = l] /\ me' = [me EXCEPT ![c] = me[c]]
      BY <1>7, Here DEF Goto
    <2>2. /\ l \in Labels /\ CallOK(c, l, job[c], me[c])
          /\ BufferOK(l, job[c], me[c], inode[c], was.put) /\ PathOK(l, me[c], was'.used)
          /\ ReadOK(job[c], me[c], was.put) => \A R : Holds(R, c, l, job[c], me[c], was.put)
      <3>1. /\ job[c] \in Jobs[c] /\ IsAccess(job[c])
            /\ BufferOK("transfer", job[c], me[c], inode[c], was.put)
        BY <1>0, Accessing
      <3> QED BY <3>1, Looking
    <2> HIDE DEF l
    <2>3. Fine(c, l, me[c], was'.used)
      BY <2>2, Here DEF Fine
    <2>4. Moves(c, l, me[c], mem', was'.used)
      BY <1>0, <1>3, <2>2, Accessing, Reading DEF Before
    <2> QED BY <1>3, <2>1, <2>3, <2>4, Here DEF Good
  <1> QED BY <1>4, <1>5, <1>6, <1>7

-------------------------------------------------------------------------------
(* What the words lead to that a store looks at on its way to a block.         *)
LEMMA SlotDirect ==
  ASSUME NEW R, NEW used, ~Mixed(used), NEW i \in Nat, IsInode(R, i), NEW b \in Nat,
         NEW n \in 1 .. Page - 1, n = 1 + b, <<i, b>> \in used
  PROVE  Points(R, i, n) /\ Child(R, used, i, n) = Role("block", i + n, i, b)
  <1>1. n # 0 /\ n - 1 = b /\ (n = Page - 1 <=> b = Page - 2)
    BY Sizes
  <1>2. R[i].kind = "inode"
    BY DEF IsInode, Inode, Role
  <1> DEFINE x == <<i, Page - 2>>
  <1>3. x[1] = i /\ x[2] = Page - 2
    OBVIOUS
  <1>4. b = Page - 2 => x \in used
    OBVIOUS
  <1> HIDE DEF x
  <1>5. b = Page - 2 => ~Deep(used, i)
    BY <1>3, <1>4 DEF Deep, Mixed
  <1>6. Points(R, i, n)
    BY <1>1, <1>2 DEF Points
  <1>7. Child(R, used, i, n) = Role("block", i + n, i, n - 1)
    BY <1>1, <1>2, <1>5 DEF Child
  <1> QED BY <1>1, <1>6, <1>7

(* Word Page - 1 of an inode leads to its second level once that is in use.  *)
LEMMA SlotSecond ==
  ASSUME NEW R, NEW used, NEW i \in Nat, IsInode(R, i), NEW o \in Nat, o <= Limit,
         ~IsDirect(o), <<i, Block(o)>> \in used
  PROVE  /\ Page - 1 \in 0 .. Page - 1 /\ Points(R, i, Page - 1) /\ Deep(used, i)
         /\ Child(R, used, i, Page - 1) = Role("second", i + (Page - 1), i, 0)
  <1>1. R[i].kind = "inode" /\ Page - 1 # 0 /\ Page - 1 \in 0 .. Page - 1
    BY Sizes DEF IsInode, Inode, Role
  <1>2. Deep(used, i)
    <2> DEFINE x == <<i, Block(o)>>
    <2>1. x[1] = i /\ x[2] = Block(o) /\ x \in used
      OBVIOUS
    <2> HIDE DEF x
    <2> QED BY <2>1, Levels DEF Deep
  <1> QED BY <1>1, <1>2 DEF Points, Child

(* A word of the second level leads to a page of the third.                  *)
LEMMA SlotThird ==
  ASSUME NEW R, NEW used, NEW p \in Nat, NEW i, IsSecond(R, p, i), NEW o \in Nat, o <= Limit, ~IsDirect(o)
  PROVE  /\ Idx0(o) \in 0 .. Page - 1 /\ Points(R, p, Idx0(o))
         /\ Child(R, used, p, Idx0(o)) = Role("third", p + Idx0(o), i, Idx0(o))
  BY Levels DEF Points, Child, IsSecond

(* A word of the third level leads to a block.                               *)
LEMMA SlotLeaf ==
  ASSUME NEW R, NEW used, NEW p \in Nat, NEW i, NEW o \in Nat, IsThird(R, p, i, Idx0(o)), o <= Limit,
         ~IsDirect(o)
  PROVE  /\ Idx1(o) \in 0 .. Page - 1 /\ Points(R, p, Idx1(o))
         /\ Child(R, used, p, Idx1(o)) = Role("block", p + Idx1(o), i, Block(o))
  BY Levels DEF Points, Child, IsThird

(* The locals but one are as they were.                                        *)
Alike(m, n) == /\ n \in Locals /\ n.ino = m.ino /\ n.off = m.off /\ n.left = m.left
               /\ n.rest = m.rest /\ n.buf = m.buf
(* One local that holds a page changes.                                      *)
LEMMA Changed ==
  ASSUME NEW m \in Locals, NEW v \in Nat
  PROVE  /\ LET n == [m EXCEPT !.ptr = v] IN
            Alike(m, n) /\ n.ptr = v /\ n.l2 = m.l2 /\ n.l3 = m.l3 /\ n.for = m.for
         /\ LET n == [m EXCEPT !.l2 = v] IN
            Alike(m, n) /\ n.l2 = v /\ n.ptr = m.ptr /\ n.l3 = m.l3 /\ n.for = m.for
         /\ LET n == [m EXCEPT !.l3 = v] IN
            Alike(m, n) /\ n.l3 = v /\ n.ptr = m.ptr /\ n.l2 = m.l2 /\ n.for = m.for
         /\ LET n == [m EXCEPT !.page = v] IN
            Alike(m, n) /\ n.page = v /\ n.ptr = m.ptr /\ n.l2 = m.l2 /\ n.l3 = m.l3 /\ n.for = m.for
  BY DEF Locals, Alike

(* So it is when what the page is for changes.                               *)
LEMMA ChangedFor ==
  ASSUME NEW m \in Locals, NEW for \in {"inode", "block", "l2", "l3"}
  PROVE  LET n == [m EXCEPT !.for = for] IN
         Alike(m, n) /\ n.for = for /\ n.ptr = m.ptr /\ n.l2 = m.l2 /\ n.l3 = m.l3
  BY DEF Locals, Alike

(* What is said of a call's buffer holds for another label and other pages.    *)
LEMMA AlikeOK ==
  ASSUME NEW j, NEW m, NEW n, Alike(m, n), NEW i, NEW put, BufferOK("transfer", j, m, i, put), NEW l
  PROVE  BufferOK(l, j, n, i, put) /\ (ReadOK(j, m, put) => ReadOK(j, n, put))
  BY DEF Alike, BufferOK, ReadOK

(* What a store reads of one word.                                             *)
LEMMA Peek ==
  ASSUME Types, NEW c \in Client, Operate(c), NEW a \in Nat, OpOf(c) = Read(a, 1)
  PROVE  LET res == Outcome(OpOf(c), mem) IN
         /\ mem' = mem
         /\ res.error = "OK" => a \in Cells /\ res.result[1] = mem[a] /\ mem[a] \in Nat
  <1>1. a < MemSize => a \in Cells
    BY Sizes
  <1>2. a \in Cells => mem[a] \in Nat
    BY DEF Types
  <1> QED BY <1>1, <1>2, ReadOne, Operates

-------------------------------------------------------------------------------
(* getBlock has found the page v, or none: a get reads zeros, a put needs one. *)
LEMMA Finding ==
  ASSUME Types, Flow, NEW c \in Client, pc[c] \in Finds, NEW v \in Nat, Found(c, v), mem' = mem,
         <<me[c].ino, Block(me[c].off)>> \in was'.used,
         v # 0 => \A R : Before(R, c, was'.used) => IsBlock(R, v, me[c].ino, Block(me[c].off))
  PROVE  Good(c)
  <1> DEFINE u == was'.used
  <1>0. InAccess(c)
    BY DEF InAccess
  <1>1. /\ job[c] \in Jobs[c] /\ IsAccess(job[c])
        /\ BufferOK("transfer", job[c], me[c], inode[c], was.put)
        /\ \A R : Holds(R, c, pc[c], job[c], me[c], was.put) => ReadOK(job[c], me[c], was.put)
    BY <1>0, Accessing
  <1>2. me[c] \in Locals
    BY Here
  <1>3. \/ v # 0 /\ Goto(c, "transfer") /\ Set(c, "ptr", v)
        \/ job[c].kind = "put" /\ NeedPage(c, "block") /\ v = 0
        \/ EndAccess(c, me[c], Refused)
    BY DEF Found
  <1>4. CASE v # 0 /\ Goto(c, "transfer") /\ Set(c, "ptr", v)
    <2>1. PICK m : m = [me[c] EXCEPT !.ptr = v]
      OBVIOUS
    <2>2. pc' = [pc EXCEPT ![c] = "transfer"] /\ me' = [me EXCEPT ![c] = m]
      BY <1>4, <2>1, Setting DEF Goto
    <2>3. Alike(me[c], m) /\ m.ptr = v
      BY <1>2, <2>1, Changed
    <2>4. BufferOK("transfer", job[c], m, inode[c], was.put)
          /\ (ReadOK(job[c], me[c], was.put) => ReadOK(job[c], m, was.put))
      BY <1>1, <2>3, AlikeOK
    <2>5. CallOK(c, "transfer", job[c], m)
      BY <1>1 DEF CallOK, Finds, Sets, Allocs
    <2>6. PathOK("transfer", m, u)
      BY <2>3 DEF PathOK, Sets, Allocs, Late, Alike
    <2>7. Fine(c, "transfer", m, u)
      BY <2>3, <2>4, <2>5, <2>6 DEF Fine, Labels, Plain, Alike
    <2>8. ASSUME NEW R, Before(R, c, u) PROVE Holds(R, c, "transfer", job[c], m, was.put)
      <3>1. IsBlock(R, m.ptr, m.ino, Block(m.off))
        BY <1>4, <2>3, <2>8 DEF Alike
      <3>2. ReadOK(job[c], m, was.put)
        BY <1>1, <2>4, <2>8 DEF Before
      <3> QED BY <3>1, <3>2 DEF Holds, Sets, Allocs, Late
    <2>9. Moves(c, "transfer", m, mem', u)
      BY <2>8, Reading
    <2> QED BY <2>2, <2>7, <2>9, Here DEF Good
  <1>5. CASE job[c].kind = "put" /\ NeedPage(c, "block") /\ v = 0
    <2>1. PICK m : m = [me[c] EXCEPT !.for = "block"]
      OBVIOUS
    <2>2. pc' = [pc EXCEPT ![c] = "allocRead"] /\ me' = [me EXCEPT ![c] = m]
      BY <1>5, <2>1, Setting DEF Goto, NeedPage
    <2>3. Alike(me[c], m) /\ m.for = "block"
      BY <1>2, <2>1, ChangedFor
    <2>4. BufferOK("allocRead", job[c], m, inode[c], was.put)
          /\ (ReadOK(job[c], me[c], was.put) => ReadOK(job[c], m, was.put))
      BY <1>1, <2>3, AlikeOK
    <2>5. CallOK(c, "allocRead", job[c], m)
      BY <1>1, <1>5, <2>3 DEF CallOK, Finds, Sets, Allocs
    <2>6. PathOK("allocRead", m, u)
      BY <2>3 DEF PathOK, Sets, Allocs, Late, Alike
    <2>7. Fine(c, "allocRead", m, u)
      BY <2>3, <2>4, <2>5, <2>6 DEF Fine, Labels, Allocs, Alike
    <2>8. ASSUME NEW R, Before(R, c, u) PROVE Holds(R, c, "allocRead", job[c], m, was.put)
      <3>1. ReadOK(job[c], m, was.put)
        BY <1>1, <2>4, <2>8 DEF Before
      <3> QED BY <2>3, <3>1 DEF Holds, Sets, Allocs, Late
    <2>9. Moves(c, "allocRead", m, mem', u)
      BY <2>8, Reading
    <2> QED BY <2>2, <2>7, <2>9, Here DEF Good
  <1>6. CASE EndAccess(c, me[c], Refused)
    BY <1>0, <1>6, Stopping
  <1> QED BY <1>3, <1>4, <1>5, <1>6

(* The block is one that the inode points to.                                *)
LEMMA StepDirect ==
  ASSUME Types, Flow, NEW c \in Client, Operate(c), pc[c] = "direct"
  PROVE  Good(c)
  <1>1. PICK i \in Nat, o \in Nat : i = me[c].ino /\ o = me[c].off
    BY Here
  <1>4. /\ InAccess(c) /\ pc[c] \in Finds /\ IsDirect(o) /\ o <= Limit /\ i = inode[c]
    <2>1. InAccess(c) /\ pc[c] \in Finds
      BY DEF InAccess, Finds
    <2> QED BY <1>1, <2>1, Here, Accessing DEF FlowAt, PathOK
  <1>2. PICK b \in Nat, n \in 1 .. Page - 1 : b = Block(o) /\ n = 1 + b
    BY <1>4, Levels
  <1>3. OpOf(c) = Read(i + n, 1) /\ i + n \in Nat
    <2>1. i + 1 + b = i + n /\ i + n \in Nat
      BY <1>2
    <2> QED BY <1>1, <1>2, <2>1 DEF OpOf
  <1>5. <<i, b>> \in was'.used
    BY <1>1, <1>2, Operates
  <1>6. \/ mem' = mem /\ Returns(c, Exception)
        \/ \E v \in Nat : /\ mem' = mem /\ i + n \in Cells /\ v = mem[i + n] /\ Found(c, v)
    <2>1. PICK res : res = Outcome(OpOf(c), mem)
      OBVIOUS
    <2>2. mem' = mem /\ (res.error = "OK" => /\ i + n \in Cells /\ res.result[1] = mem[i + n]
                                              /\ mem[i + n] \in Nat)
      BY <1>3, <2>1, Peek
    <2>3. Returns(c, Exception) \/ (res.error = "OK" /\ Found(c, res.result[1]))
      BY <2>1, Answered DEF AfterFind, Allocs, Finds, Sets
    <2> QED BY <2>2, <2>3
  <1>7. CASE mem' = mem /\ Returns(c, Exception)
    BY <1>7, Refusal, Here DEF Before
  <1>8. ASSUME NEW v \in Nat, mem' = mem, i + n \in Cells, v = mem[i + n], Found(c, v)
        PROVE  Good(c)
    <2>1. ASSUME NEW R, Before(R, c, was'.used), v # 0 PROVE IsBlock(R, v, i, b)
      <3>0. PICK u : u = was'.used
        OBVIOUS
      <3>1. /\ IsInode(R, i) /\ Tree(R, mem, u, was.put) /\ ~Mixed(u)
        BY <1>4, <2>1, <3>0 DEF Before, Lists
      <3>2. /\ n \in 0 .. Page - 1 /\ Points(R, i, n)
            /\ Child(R, u, i, n) = Role("block", i + n, i, b)
        <4>1. n \in 0 .. Page - 1
          BY Sizes
        <4>2. <<i, b>> \in u
          BY <1>5, <3>0
        <4> QED BY <1>2, <3>1, <4>1, <4>2, SlotDirect
      <3>3. IsPage(v) /\ R[v] = Role("block", i + n, i, b)
        <4>1. IsPage(i) /\ mem[i + n] # 0 /\ mem \in [Cells -> Nat]
          BY <1>8, <2>1, <3>1, Here DEF IsInode
        <4> QED BY <1>8, <3>1, <3>2, <4>1, Follow
      <3> QED BY <3>3 DEF IsBlock, Role
    <2> QED BY <1>1, <1>2, <1>4, <1>5, <1>8, <2>1, Finding
  <1> QED BY <1>6, <1>7, <1>8

(* A call goes on at another label, and its buffer is as it was.               *)
LEMMA Onward ==
  ASSUME Types, Flow, NEW c \in Client, pc[c] # "ready", mem' \in [Cells -> Nat],
         NEW l \in Labels, NEW m, Alike(me[c], m),
         pc' = [pc EXCEPT ![c] = l], me' = [me EXCEPT ![c] = m],
         CallOK(c, l, job[c], m), PathOK(l, m, was'.used),
         \A R : Before(R, c, was'.used) /\ ReadOK(job[c], m, was.put) =>
           \E S : /\ Tree(S, mem', was'.used, was.put) /\ Near(R, S, c)
                  /\ Holds(S, c, l, job[c], m, was.put)
  PROVE  Good(c)
  <1>1. BufferOK(pc[c], job[c], me[c], inode[c], was.put)
    BY Here DEF FlowAt
  <1>2. BufferOK("transfer", job[c], me[c], inode[c], was.put)
    BY <1>1 DEF BufferOK
  <1>3. /\ BufferOK(l, job[c], m, inode[c], was.put)
        /\ ReadOK(job[c], me[c], was.put) => ReadOK(job[c], m, was.put)
    BY <1>2, AlikeOK
  <1>4. Fine(c, l, m, was'.used)
    BY <1>3 DEF Fine, Alike
  <1>5. \A R : Before(R, c, was'.used) => ReadOK(job[c], m, was.put)
    BY <1>3 DEF Before, Holds
  <1>6. Moves(c, l, m, mem', was'.used)
    BY <1>5 DEF Moves
  <1> QED BY <1>4, <1>6 DEF Good

(* ... and so does access().                                                   *)
LEMMA Going ==
  ASSUME Types, Flow, NEW c \in Client, InAccess(c), mem' \in [Cells -> Nat],
         NEW l \in Labels, NEW m, Alike(me[c], m),
         pc' = [pc EXCEPT ![c] = l], me' = [me EXCEPT ![c] = m],
         CallOK(c, l, job[c], m), PathOK(l, m, was'.used),
         \A R : Before(R, c, was'.used) /\ ReadOK(job[c], m, was.put) =>
           \E S : /\ Tree(S, mem', was'.used, was.put) /\ Near(R, S, c)
                  /\ Holds(S, c, l, job[c], m, was.put)
  PROVE  Good(c)
  <1>1. pc[c] # "ready"
    BY Accessing
  <1> QED BY <1>1, Onward

(* A store that only looks goes on with what it knows.                       *)
LEMMA Walking ==
  ASSUME Types, Flow, NEW c \in Client, InAccess(c), mem' = mem,
         NEW l \in Labels, NEW m, Alike(me[c], m),
         pc' = [pc EXCEPT ![c] = l], me' = [me EXCEPT ![c] = m],
         CallOK(c, l, job[c], m), PathOK(l, m, was'.used),
         \A R : Before(R, c, was'.used) /\ ReadOK(job[c], m, was.put)
                  => Holds(R, c, l, job[c], m, was.put)
  PROVE  Good(c)
  <1>1. mem' \in [Cells -> Nat]
    BY Here
  <1>2. ASSUME NEW R, Before(R, c, was'.used), ReadOK(job[c], m, was.put)
        PROVE  \E S : /\ Tree(S, mem', was'.used, was.put) /\ Near(R, S, c)
                      /\ Holds(S, c, l, job[c], m, was.put)
    BY <1>2, NearSame DEF Before
  <1> QED BY <1>1, <1>2, Going

(* What a store learns from a word on its way that is not 0.                   *)
LEMMA SeesSecond ==
  ASSUME Types, NEW c \in Client, NEW R, NEW used, Before(R, c, used), NEW i \in Nat, IsInode(R, i),
         NEW o \in Nat, o <= Limit, ~IsDirect(o), <<i, Block(o)>> \in used,
         NEW v \in Nat, v # 0, i + (Page - 1) \in Cells, mem[i + (Page - 1)] = v
  PROVE  IsSecond(R, v, i)
  <1>1. PICK n \in 0 .. Page - 1 : n = Page - 1
    BY Sizes
  <1>2. Points(R, i, n) /\ Child(R, used, i, n) = Role("second", i + n, i, 0)
    BY <1>1, SlotSecond
  <1>3. Tree(R, mem, used, was.put) /\ mem \in [Cells -> Nat] /\ IsPage(i)
    BY DEF Before, Types, IsInode
  <1>4. i + n \in Cells /\ mem[i + n] = v
    BY <1>1
  <1>5. IsPage(v) /\ R[v] = Role("second", i + n, i, 0)
    BY <1>2, <1>3, <1>4, Follow
  <1> QED BY <1>5 DEF IsSecond, Role

(* A word of the second level: a page of the third.                          *)
LEMMA SeesThird ==
  ASSUME Types, NEW c \in Client, NEW R, NEW used, Before(R, c, used), NEW i, NEW p \in Nat,
         IsSecond(R, p, i), NEW o \in Nat, o <= Limit, ~IsDirect(o),
         NEW v \in Nat, v # 0, p + Idx0(o) \in Cells, mem[p + Idx0(o)] = v
  PROVE  IsThird(R, v, i, Idx0(o))
  <1>1. PICK n \in 0 .. Page - 1 : n = Idx0(o)
    BY SlotThird
  <1>2. Points(R, p, n) /\ Child(R, used, p, n) = Role("third", p + n, i, n)
    BY <1>1, SlotThird
  <1>3. Tree(R, mem, used, was.put) /\ mem \in [Cells -> Nat] /\ IsPage(p)
    BY DEF Before, Types, IsSecond
  <1>4. p + n \in Cells /\ mem[p + n] = v
    BY <1>1
  <1>5. IsPage(v) /\ R[v] = Role("third", p + n, i, n)
    BY <1>2, <1>3, <1>4, Follow
  <1> QED BY <1>1, <1>5 DEF IsThird, Role

(* A word of the third level: the block.                                     *)
LEMMA SeesBlock ==
  ASSUME Types, NEW c \in Client, NEW R, NEW used, Before(R, c, used), NEW i, NEW p \in Nat,
         NEW o \in Nat, IsThird(R, p, i, Idx0(o)), o <= Limit, ~IsDirect(o),
         NEW v \in Nat, v # 0, p + Idx1(o) \in Cells, mem[p + Idx1(o)] = v
  PROVE  IsBlock(R, v, i, Block(o))
  <1>1. PICK n \in 0 .. Page - 1 : n = Idx1(o)
    BY SlotLeaf
  <1>2. Points(R, p, n) /\ Child(R, used, p, n) = Role("block", p + n, i, Block(o))
    BY <1>1, SlotLeaf
  <1>3. Tree(R, mem, used, was.put) /\ mem \in [Cells -> Nat] /\ IsPage(p)
    BY DEF Before, Types, IsThird
  <1>4. p + n \in Cells /\ mem[p + n] = v
    BY <1>1
  <1>5. IsPage(v) /\ R[v] = Role("block", p + n, i, Block(o))
    BY <1>2, <1>3, <1>4, Follow
  <1> QED BY <1>5 DEF IsBlock, Role

(* A call at a label of access().                                              *)
LEMMA CallAccess ==
  ASSUME NEW c, NEW j \in Jobs[c], IsAccess(j), NEW m, NEW l,
         \/ l \in Finds \cup {"transfer"}
         \/ j.kind = "put" /\ l \in Sets
         \/ j.kind = "put" /\ l \in Allocs /\ m.for # "inode"
  PROVE  l \in Labels /\ CallOK(c, l, j, m)
  BY DEF Labels, Plain, CallOK, Finds, Sets, Allocs, IsAccess

(* The block is further on: the inode leads to the second level, ...         *)
LEMMA StepL2 ==
  ASSUME Types, Flow, NEW c \in Client, Operate(c), pc[c] = "l2"
  PROVE  Good(c)
  <1>0. PICK i \in Nat, o \in Nat : i = me[c].ino /\ o = me[c].off
    BY Here
  <1>1. PICK a \in Nat : i = me[c].ino /\ o = me[c].off /\ a = i + (Page - 1)
    <2>1. i + (Page - 1) \in Nat
      BY Sizes
    <2> QED BY <1>0, <2>1
  <1>2. OpOf(c) = Read(a, 1)
    <2>1. i + Page - 1 = a
      BY <1>1, Sizes
    <2> QED BY <1>1, <2>1 DEF OpOf
  <1>3. /\ InAccess(c) /\ pc[c] \in Finds /\ ~IsDirect(o) /\ o <= Limit /\ i = inode[c]
        /\ job[c] \in Jobs[c] /\ IsAccess(job[c])
    <2>1. InAccess(c) /\ pc[c] \in Finds
      BY DEF InAccess, Finds
    <2> QED BY <1>1, <2>1, Here, Accessing DEF FlowAt, PathOK
  <1>4. <<i, Block(o)>> \in was'.used
    BY <1>1, Operates
  <1>5. \/ mem' = mem /\ Returns(c, Exception)
        \/ \E v \in Nat : /\ mem' = mem /\ a \in Cells /\ v = mem[a]
                          /\ \/ v = 0 /\ Found(c, v)
                             \/ v # 0 /\ Set(c, "l2", v) /\ Goto(c, "l3")
    <2>1. PICK res : res = Outcome(OpOf(c), mem)
      OBVIOUS
    <2>2. mem' = mem /\ (res.error = "OK" => /\ a \in Cells /\ res.result[1] = mem[a]
                                              /\ mem[a] \in Nat)
      BY <1>2, <2>1, Peek
    <2>3. \/ Returns(c, Exception)
          \/ /\ res.error = "OK"
             /\ \/ res.result[1] = 0 /\ Found(c, res.result[1])
                \/ res.result[1] # 0 /\ Set(c, "l2", res.result[1]) /\ Goto(c, "l3")
      BY <2>1, Answered DEF AfterFind, Allocs, Finds, Sets
    <2> QED BY <2>2, <2>3
  <1>6. CASE mem' = mem /\ Returns(c, Exception)
    BY <1>6, Refusal, Here DEF Before
  <1>7. ASSUME NEW v \in Nat, mem' = mem, v = 0, Found(c, v) PROVE Good(c)
    BY <1>1, <1>3, <1>4, <1>7, Finding
  <1>8. ASSUME NEW v \in Nat, mem' = mem, a \in Cells, v = mem[a], v # 0,
               Set(c, "l2", v), Goto(c, "l3")
        PROVE  Good(c)
    <2>1. PICK m : m = [me[c] EXCEPT !.l2 = v]
      OBVIOUS
    <2>2. pc' = [pc EXCEPT ![c] = "l3"] /\ me' = [me EXCEPT ![c] = m]
      BY <1>8, <2>1, Setting DEF Goto
    <2>3. Alike(me[c], m) /\ m.l2 = v
      <3>1. me[c] \in Locals
        BY Here
      <3> QED BY <2>1, <3>1, Changed
    <2>4. "l3" \in Labels /\ CallOK(c, "l3", job[c], m)
      BY <1>3, CallAccess DEF Finds
    <2>5. PathOK("l3", m, was'.used)
      BY <1>1, <1>3, <1>4, <2>3 DEF PathOK, Alike, Allocs, Late
    <2>6. ASSUME NEW R, Before(R, c, was'.used), ReadOK(job[c], m, was.put)
          PROVE  Holds(R, c, "l3", job[c], m, was.put)
      <3>1. IsInode(R, i)
        BY <1>3, <2>6 DEF Before, Lists
      <3>2. IsSecond(R, v, i)
        BY <1>1, <1>3, <1>4, <1>8, <2>6, <3>1, SeesSecond
      <3> QED BY <1>1, <2>3, <2>6, <3>2 DEF Holds, Alike, Sets, Allocs, Late
    <2> QED BY <1>3, <1>8, <2>2, <2>3, <2>4, <2>5, <2>6, Walking
  <1> QED BY <1>5, <1>6, <1>7, <1>8

(* ... the second level to the third, ...                                    *)
LEMMA StepL3 ==
  ASSUME Types, Flow, NEW c \in Client, Operate(c), pc[c] = "l3"
  PROVE  Good(c)
  <1>1. PICK i \in Nat, o \in Nat, p \in Nat : i = me[c].ino /\ o = me[c].off /\ p = me[c].l2
    BY Here
  <1>2. /\ InAccess(c) /\ pc[c] \in Finds /\ ~IsDirect(o) /\ o <= Limit
        /\ job[c] \in Jobs[c] /\ IsAccess(job[c]) /\ <<i, Block(o)>> \in was'.used
    <2>1. InAccess(c) /\ pc[c] \in Finds
      BY DEF InAccess, Finds
    <2> QED BY <1>1, <2>1, Here, Accessing, Operates DEF FlowAt, PathOK
  <1>3. PICK a \in Nat : a = p + Idx0(o)
    BY <1>1, <1>2, Levels
  <1>4. OpOf(c) = Read(a, 1)
    BY <1>1, <1>3 DEF OpOf
  <1>5. \/ mem' = mem /\ Returns(c, Exception)
        \/ \E v \in Nat : /\ mem' = mem /\ a \in Cells /\ v = mem[a]
                          /\ \/ v = 0 /\ Found(c, v)
                             \/ v # 0 /\ Set(c, "l3", v) /\ Goto(c, "leaf")
    <2>1. PICK res : res = Outcome(OpOf(c), mem)
      OBVIOUS
    <2>2. mem' = mem /\ (res.error = "OK" => /\ a \in Cells /\ res.result[1] = mem[a]
                                              /\ mem[a] \in Nat)
      BY <1>4, <2>1, Peek
    <2>3. \/ Returns(c, Exception)
          \/ /\ res.error = "OK"
             /\ \/ res.result[1] = 0 /\ Found(c, res.result[1])
                \/ res.result[1] # 0 /\ Set(c, "l3", res.result[1]) /\ Goto(c, "leaf")
      BY <2>1, Answered DEF AfterFind, Allocs, Finds, Sets
    <2> QED BY <2>2, <2>3
  <1>6. CASE mem' = mem /\ Returns(c, Exception)
    BY <1>6, Refusal, Here DEF Before
  <1>7. ASSUME NEW v \in Nat, mem' = mem, v = 0, Found(c, v) PROVE Good(c)
    BY <1>1, <1>2, <1>7, Finding
  <1>8. ASSUME NEW v \in Nat, mem' = mem, a \in Cells, v = mem[a], v # 0,
               Set(c, "l3", v), Goto(c, "leaf")
        PROVE  Good(c)
    <2>1. PICK m : m = [me[c] EXCEPT !.l3 = v]
      OBVIOUS
    <2>2. pc' = [pc EXCEPT ![c] = "leaf"] /\ me' = [me EXCEPT ![c] = m]
      BY <1>8, <2>1, Setting DEF Goto
    <2>3. Alike(me[c], m) /\ m.l3 = v
      <3>1. me[c] \in Locals
        BY Here
      <3> QED BY <2>1, <3>1, Changed
    <2>4. "leaf" \in Labels /\ CallOK(c, "leaf", job[c], m)
      BY <1>2, CallAccess DEF Finds
    <2>5. PathOK("leaf", m, was'.used)
      BY <1>1, <1>2, <2>3 DEF PathOK, Alike, Allocs, Late
    <2>6. ASSUME NEW R, Before(R, c, was'.used), ReadOK(job[c], m, was.put)
          PROVE  Holds(R, c, "leaf", job[c], m, was.put)
      <3>1. IsSecond(R, p, i)
        BY <1>1, <2>6 DEF Before, Holds
      <3>2. IsThird(R, v, i, Idx0(o))
        BY <1>2, <1>3, <1>8, <2>6, <3>1, SeesThird
      <3> QED BY <1>1, <2>3, <2>6, <3>2 DEF Holds, Alike, Sets, Allocs, Late
    <2> QED BY <1>2, <1>8, <2>2, <2>3, <2>4, <2>5, <2>6, Walking
  <1> QED BY <1>5, <1>6, <1>7, <1>8

(* ... and that to the block.                                                *)
LEMMA StepLeaf ==
  ASSUME Types, Flow, NEW c \in Client, Operate(c), pc[c] = "leaf"
  PROVE  Good(c)
  <1>1. PICK i \in Nat, o \in Nat, p \in Nat : i = me[c].ino /\ o = me[c].off /\ p = me[c].l3
    BY Here
  <1>2. /\ InAccess(c) /\ pc[c] \in Finds /\ ~IsDirect(o) /\ o <= Limit
        /\ <<i, Block(o)>> \in was'.used
    <2>1. InAccess(c) /\ pc[c] \in Finds
      BY DEF InAccess, Finds
    <2> QED BY <1>1, <2>1, Here, Accessing, Operates DEF FlowAt, PathOK
  <1>3. PICK a \in Nat : a = p + Idx1(o)
    BY <1>1, <1>2, Levels
  <1>4. OpOf(c) = Read(a, 1)
    BY <1>1, <1>3 DEF OpOf
  <1>5. \/ mem' = mem /\ Returns(c, Exception)
        \/ \E v \in Nat : mem' = mem /\ a \in Cells /\ v = mem[a] /\ Found(c, v)
    <2>1. PICK res : res = Outcome(OpOf(c), mem)
      OBVIOUS
    <2>2. mem' = mem /\ (res.error = "OK" => /\ a \in Cells /\ res.result[1] = mem[a]
                                              /\ mem[a] \in Nat)
      BY <1>4, <2>1, Peek
    <2>3. Returns(c, Exception) \/ (res.error = "OK" /\ Found(c, res.result[1]))
      BY <2>1, Answered DEF AfterFind, Allocs, Finds, Sets
    <2> QED BY <2>2, <2>3
  <1>6. CASE mem' = mem /\ Returns(c, Exception)
    BY <1>6, Refusal, Here DEF Before
  <1>7. ASSUME NEW v \in Nat, mem' = mem, a \in Cells, v = mem[a], Found(c, v)
        PROVE  Good(c)
    <2>1. ASSUME NEW R, Before(R, c, was'.used), v # 0 PROVE IsBlock(R, v, i, Block(o))
      <3>1. IsThird(R, p, i, Idx0(o))
        BY <1>1, <2>1 DEF Before, Holds
      <3> QED BY <1>2, <1>3, <1>7, <2>1, <3>1, SeesBlock
    <2> QED BY <1>1, <1>2, <1>7, <2>1, Finding
  <1> QED BY <1>5, <1>6, <1>7

-------------------------------------------------------------------------------
(* setBlock.  It reads whether there is a page of the level, ...               *)
LEMMA StepSetL2 ==
  ASSUME Types, Flow, NEW c \in Client, Operate(c), pc[c] = "setL2"
  PROVE  Good(c)
  <1>0. PICK i \in Nat, o \in Nat : i = me[c].ino /\ o = me[c].off
    BY Here
  <1>1. PICK a \in Nat : i = me[c].ino /\ o = me[c].off /\ a = i + (Page - 1)
    <2>1. i + (Page - 1) \in Nat
      BY Sizes
    <2> QED BY <1>0, <2>1
  <1>2. OpOf(c) = Read(a, 1)
    <2>1. i + Page - 1 = a
      BY <1>1, Sizes
    <2> QED BY <1>1, <2>1 DEF OpOf
  <1>3. /\ InAccess(c) /\ ~IsDirect(o) /\ o <= Limit /\ i = inode[c]
        /\ job[c] \in Jobs[c] /\ IsAccess(job[c]) /\ job[c].kind = "put"
        /\ <<i, Block(o)>> \in was'.used
    <2>1. InAccess(c) /\ pc[c] \in Sets /\ pc[c] \notin Finds \cup {"length", "transfer"}
      BY DEF InAccess, Sets, Finds
    <2> QED BY <1>1, <2>1, Here, Accessing, Operates DEF FlowAt, PathOK
  <1>4. \/ mem' = mem /\ Returns(c, Exception)
        \/ mem' = mem /\ NeedPage(c, "l2")
        \/ \E v \in Nat : /\ mem' = mem /\ a \in Cells /\ v = mem[a] /\ v # 0
                          /\ Set(c, "l2", v) /\ Goto(c, "setL3")
    <2>1. PICK res : res = Outcome(OpOf(c), mem)
      OBVIOUS
    <2>2. mem' = mem /\ (res.error = "OK" => /\ a \in Cells /\ res.result[1] = mem[a]
                                              /\ mem[a] \in Nat)
      BY <1>2, <2>1, Peek
    <2>3. \/ Returns(c, Exception)
          \/ NeedPage(c, "l2")
          \/ /\ res.error = "OK" /\ res.result[1] # 0
             /\ Set(c, "l2", res.result[1]) /\ Goto(c, "setL3")
      BY <2>1, Answered DEF AfterInstall, Allocs, Finds, Sets
    <2> QED BY <2>2, <2>3
  <1>5. CASE mem' = mem /\ Returns(c, Exception)
    BY <1>5, Refusal, Here DEF Before
  <1>6. CASE mem' = mem /\ NeedPage(c, "l2")
    <2>1. PICK m : m = [me[c] EXCEPT !.for = "l2"]
      OBVIOUS
    <2>2. pc' = [pc EXCEPT ![c] = "allocRead"] /\ me' = [me EXCEPT ![c] = m]
      BY <1>6, <2>1, Setting DEF Goto, NeedPage
    <2>3. Alike(me[c], m) /\ m.for = "l2" /\ m.ptr = me[c].ptr
      <3>1. me[c] \in Locals
        BY Here
      <3> QED BY <2>1, <3>1, ChangedFor
    <2>4. "allocRead" \in Labels /\ CallOK(c, "allocRead", job[c], m)
      BY <1>3, <2>3, CallAccess DEF Allocs
    <2>5. PathOK("allocRead", m, was'.used)
      BY <1>1, <1>3, <2>3 DEF PathOK, Alike, Allocs, Late
    <2>6. ASSUME NEW R, Before(R, c, was'.used), ReadOK(job[c], m, was.put)
          PROVE  Holds(R, c, "allocRead", job[c], m, was.put)
      <3>1. IsOwn(R, c, me[c].ptr)
        BY <2>6 DEF Before, Holds, Sets
      <3> QED BY <2>3, <2>6, <3>1 DEF Holds, Sets, Allocs, Late
    <2> QED BY <1>3, <1>6, <2>2, <2>3, <2>4, <2>5, <2>6, Walking
  <1>7. ASSUME NEW v \in Nat, mem' = mem, a \in Cells, v = mem[a], v # 0,
               Set(c, "l2", v), Goto(c, "setL3")
        PROVE  Good(c)
    <2>1. PICK m : m = [me[c] EXCEPT !.l2 = v]
      OBVIOUS
    <2>2. pc' = [pc EXCEPT ![c] = "setL3"] /\ me' = [me EXCEPT ![c] = m]
      BY <1>7, <2>1, Setting DEF Goto
    <2>3. Alike(me[c], m) /\ m.l2 = v /\ m.ptr = me[c].ptr
      <3>1. me[c] \in Locals
        BY Here
      <3> QED BY <2>1, <3>1, Changed
    <2>4. "setL3" \in Labels /\ CallOK(c, "setL3", job[c], m)
      BY <1>3, CallAccess DEF Sets
    <2>5. PathOK("setL3", m, was'.used)
      BY <1>1, <1>3, <2>3 DEF PathOK, Alike, Allocs, Late
    <2>6. ASSUME NEW R, Before(R, c, was'.used), ReadOK(job[c], m, was.put)
          PROVE  Holds(R, c, "setL3", job[c], m, was.put)
      <3>1. IsInode(R, i)
        BY <1>3, <2>6 DEF Before, Lists
      <3>2. IsSecond(R, v, i)
        BY <1>1, <1>3, <1>7, <2>6, <3>1, SeesSecond
      <3>3. IsOwn(R, c, m.ptr)
        BY <2>3, <2>6 DEF Before, Holds, Sets
      <3> QED BY <1>1, <2>3, <2>6, <3>2, <3>3 DEF Holds, Alike, Sets, Allocs, Late
    <2> QED BY <1>3, <1>7, <2>2, <2>3, <2>4, <2>5, <2>6, Walking
  <1> QED BY <1>4, <1>5, <1>6, <1>7

(* The same one level down.                                                  *)
LEMMA StepSetL3 ==
  ASSUME Types, Flow, NEW c \in Client, Operate(c), pc[c] = "setL3"
  PROVE  Good(c)
  <1>1. PICK i \in Nat, o \in Nat, p \in Nat : i = me[c].ino /\ o = me[c].off /\ p = me[c].l2
    BY Here
  <1>2. /\ InAccess(c) /\ ~IsDirect(o) /\ o <= Limit
        /\ job[c] \in Jobs[c] /\ IsAccess(job[c]) /\ job[c].kind = "put"
        /\ <<i, Block(o)>> \in was'.used
    <2>1. InAccess(c) /\ pc[c] \in Sets /\ pc[c] \notin Finds \cup {"length", "transfer"}
      BY DEF InAccess, Sets, Finds
    <2> QED BY <1>1, <2>1, Here, Accessing, Operates DEF FlowAt, PathOK
  <1>3. PICK a \in Nat : a = p + Idx0(o)
    BY <1>1, <1>2, Levels
  <1>4. OpOf(c) = Read(a, 1)
    BY <1>1, <1>3 DEF OpOf
  <1>5. \/ mem' = mem /\ Returns(c, Exception)
        \/ mem' = mem /\ NeedPage(c, "l3")
        \/ \E v \in Nat : /\ mem' = mem /\ a \in Cells /\ v = mem[a] /\ v # 0
                          /\ Set(c, "l3", v) /\ Goto(c, "setLeaf")
    <2>1. PICK res : res = Outcome(OpOf(c), mem)
      OBVIOUS
    <2>2. mem' = mem /\ (res.error = "OK" => /\ a \in Cells /\ res.result[1] = mem[a]
                                              /\ mem[a] \in Nat)
      BY <1>4, <2>1, Peek
    <2>3. \/ Returns(c, Exception)
          \/ NeedPage(c, "l3")
          \/ /\ res.error = "OK" /\ res.result[1] # 0
             /\ Set(c, "l3", res.result[1]) /\ Goto(c, "setLeaf")
      BY <2>1, Answered DEF AfterInstall, Allocs, Finds, Sets
    <2> QED BY <2>2, <2>3
  <1>6. CASE mem' = mem /\ Returns(c, Exception)
    BY <1>6, Refusal, Here DEF Before
  <1>7. CASE mem' = mem /\ NeedPage(c, "l3")
    <2>1. PICK m : m = [me[c] EXCEPT !.for = "l3"]
      OBVIOUS
    <2>2. pc' = [pc EXCEPT ![c] = "allocRead"] /\ me' = [me EXCEPT ![c] = m]
      BY <1>7, <2>1, Setting DEF Goto, NeedPage
    <2>3. Alike(me[c], m) /\ m.for = "l3" /\ m.ptr = me[c].ptr /\ m.l2 = me[c].l2
      <3>1. me[c] \in Locals
        BY Here
      <3> QED BY <2>1, <3>1, ChangedFor
    <2>4. "allocRead" \in Labels /\ CallOK(c, "allocRead", job[c], m)
      BY <1>2, <2>3, CallAccess DEF Allocs
    <2>5. PathOK("allocRead", m, was'.used)
      BY <1>1, <1>2, <2>3 DEF PathOK, Alike, Allocs, Late
    <2>6. ASSUME NEW R, Before(R, c, was'.used), ReadOK(job[c], m, was.put)
          PROVE  Holds(R, c, "allocRead", job[c], m, was.put)
      <3>1. IsOwn(R, c, me[c].ptr) /\ IsSecond(R, me[c].l2, me[c].ino)
        BY <2>6 DEF Before, Holds, Sets
      <3> QED BY <2>3, <2>6, <3>1 DEF Holds, Sets, Allocs, Late, Alike
    <2> QED BY <1>2, <1>7, <2>2, <2>3, <2>4, <2>5, <2>6, Walking
  <1>8. ASSUME NEW v \in Nat, mem' = mem, a \in Cells, v = mem[a], v # 0,
               Set(c, "l3", v), Goto(c, "setLeaf")
        PROVE  Good(c)
    <2>1. PICK m : m = [me[c] EXCEPT !.l3 = v]
      OBVIOUS
    <2>2. pc' = [pc EXCEPT ![c] = "setLeaf"] /\ me' = [me EXCEPT ![c] = m]
      BY <1>8, <2>1, Setting DEF Goto
    <2>3. Alike(me[c], m) /\ m.l3 = v /\ m.ptr = me[c].ptr
      <3>1. me[c] \in Locals
        BY Here
      <3> QED BY <2>1, <3>1, Changed
    <2>4. "setLeaf" \in Labels /\ CallOK(c, "setLeaf", job[c], m)
      BY <1>2, CallAccess DEF Sets
    <2>5. PathOK("setLeaf", m, was'.used)
      BY <1>1, <1>2, <2>3 DEF PathOK, Alike, Allocs, Late
    <2>6. ASSUME NEW R, Before(R, c, was'.used), ReadOK(job[c], m, was.put)
          PROVE  Holds(R, c, "setLeaf", job[c], m, was.put)
      <3>1. IsSecond(R, p, i)
        BY <1>1, <2>6 DEF Before, Holds
      <3>2. IsThird(R, v, i, Idx0(o))
        BY <1>2, <1>3, <1>8, <2>6, <3>1, SeesThird
      <3>3. IsOwn(R, c, m.ptr)
        BY <2>3, <2>6 DEF Before, Holds, Sets
      <3> QED BY <1>1, <2>3, <2>6, <3>2, <3>3 DEF Holds, Alike, Sets, Allocs, Late
    <2> QED BY <1>2, <1>8, <2>2, <2>3, <2>4, <2>5, <2>6, Walking
  <1> QED BY <1>5, <1>6, <1>7, <1>8

(* ... and sets the word to the store's own page.                              *)
LEMMA Poke ==
  ASSUME Types, NEW c \in Client, Operate(c), NEW a \in Nat, NEW v \in Nat, OpOf(c) = Write(a, <<v>>)
  PROVE  /\ a \in Cells => mem' = [mem EXCEPT ![a] = v]
         /\ a \notin Cells => mem' = mem
         /\ Outcome(OpOf(c), mem).error = "OK" <=> a \in Cells
         /\ mem' \in [Cells -> Nat]
  <1>1. mem \in [Cells -> Int] /\ mem \in [Cells -> Nat] /\ v \in Int
    BY DEF Types
  <1>2. a \in Cells <=> a < MemSize
    BY Sizes
  <1>3. mem' = Effect(Write(a, <<v>>), mem)
    BY Operates
  <1>4. /\ a < MemSize => Effect(Write(a, <<v>>), mem) = [mem EXCEPT ![a] = v]
        /\ ~(a < MemSize) => Effect(Write(a, <<v>>), mem) = mem
        /\ Outcome(Write(a, <<v>>), mem).error = "OK" <=> a < MemSize
    BY <1>1, WriteOne
  <1>5. a \in Cells => mem' = [mem EXCEPT ![a] = v]
    BY <1>2, <1>3, <1>4
  <1>6. a \notin Cells => mem' = mem
    BY <1>2, <1>3, <1>4
  <1>7. mem' \in [Cells -> Nat]
    BY <1>1, <1>5, <1>6
  <1>8. Outcome(OpOf(c), mem).error = "OK" <=> a \in Cells
    BY <1>2, <1>4
  <1> QED BY <1>5, <1>6, <1>7, <1>8

(* The page p that c installs in word n of page q.                             *)
LEMMA Installing ==
  ASSUME Types, NEW c \in Client, NEW R, NEW used, Before(R, c, used), NEW p \in Nat, IsOwn(R, c, p),
         NEW q \in Nat, IsPage(q), NEW n \in 0 .. Page - 1, NEW a \in Cells, a = q + n,
         R[q].kind \notin {"free", "own", "block"}, Points(R, q, n),
         R[q].kind = "inode" /\ n = Page - 1 => LastUsed(used, q)
  PROVE  \E S : /\ Tree(S, [mem EXCEPT ![a] = p], used, was.put) /\ Near(R, S, c)
                /\ S[p] = Child(R, used, q, n)
                /\ \A x \in Nat : x # p => S[x] = R[x]
  <1> DEFINE r == Child(R, used, q, n)
             S == Given(R, p, r)
  <1>1. IsPage(p) /\ R[p] = Own(c) /\ p \in Nat /\ q \in Nat /\ p # 0
    BY NextPage DEF IsOwn, IsPage
  <1>0. mem \in [Cells -> Nat] /\ Tree(R, mem, used, was.put) /\ q + n \in Cells
    BY DEF Types, Before
  <1>2. Own(c) # Free
    BY DEF Own, Free, Role
  <1>3. p < mem[0]
    BY <1>0, <1>1, <1>2, OwnBelow
  <1> HIDE DEF r
  <1>4. /\ Tree(S, mem, used, was.put) /\ Near(R, S, c) /\ S[p] = r
        /\ \A x \in Nat : x # p => S[x] = R[x]
    BY <1>0, <1>1, <1>3, TreeRole
  <1> HIDE DEF S
  <1>5. q # p
    BY <1>1 DEF Own, Role
  <1>6. S[q] = R[q]
    BY <1>1, <1>4, <1>5
  <1>7. Child(S, used, q, n) = r /\ Points(S, q, n)
    BY <1>6 DEF Child, r, Points
  <1>8. WordOK(S, used, was.put, q, n, p)
    BY <1>1, <1>4, <1>6, <1>7 DEF WordOK
  <1>9. Tree(S, [mem EXCEPT ![q + n] = p], used, was.put)
    BY <1>0, <1>1, <1>4, <1>8, TreeWrite
  <1> QED BY <1>4, <1>9 DEF r

(* The word of the second level in the inode,                                *)
LEMMA StepMakeL2 ==
  ASSUME Types, Flow, NEW c \in Client, Operate(c), pc[c] = "makeL2"
  PROVE  Good(c)
  <1>0. PICK i \in Nat, o \in Nat, p \in Nat : i = me[c].ino /\ o = me[c].off /\ p = me[c].l2
    BY Here
  <1>1. PICK n \in 0 .. Page - 1, a \in Nat : n = Page - 1 /\ a = i + n
    <2>1. Page - 1 \in 0 .. Page - 1 /\ i + (Page - 1) \in Nat
      BY Sizes
    <2> QED BY <2>1
  <1>2. OpOf(c) = Write(a, <<p>>)
    <2>1. i + Page - 1 = a
      BY <1>1, Sizes
    <2> QED BY <1>0, <2>1 DEF OpOf
  <1>3. /\ InAccess(c) /\ ~IsDirect(o) /\ o <= Limit /\ i = inode[c]
        /\ job[c] \in Jobs[c] /\ IsAccess(job[c]) /\ job[c].kind = "put"
        /\ <<i, Block(o)>> \in was'.used
    <2>1. InAccess(c) /\ pc[c] \in Sets /\ pc[c] \notin Finds \cup {"length", "transfer"}
      BY DEF InAccess, Sets, Finds
    <2> QED BY <1>0, <2>1, Here, Accessing, Operates DEF FlowAt, PathOK
  <1>4. /\ a \in Cells => mem' = [mem EXCEPT ![a] = p]
        /\ a \notin Cells => mem' = mem
        /\ mem' \in [Cells -> Nat]
    BY <1>2, Poke
  <1>5. \/ mem' = mem /\ Returns(c, Exception)
        \/ a \in Cells /\ Goto(c, "setL3") /\ UNCHANGED me
    <2>1. Outcome(OpOf(c), mem).error = "OK" <=> a \in Cells
      BY <1>2, Poke
    <2> QED BY <1>4, <2>1, Answered DEF AfterInstall, Allocs, Finds, Sets
  <1>6. CASE mem' = mem /\ Returns(c, Exception)
    BY <1>6, Refusal, Here DEF Before
  <1>7. CASE a \in Cells /\ Goto(c, "setL3") /\ UNCHANGED me
    <2>1. PICK m : m = me[c]
      OBVIOUS
    <2>2. pc' = [pc EXCEPT ![c] = "setL3"] /\ me' = [me EXCEPT ![c] = m] /\ Alike(me[c], m)
      BY <1>7, <2>1, Here DEF Goto, Alike
    <2>3. "setL3" \in Labels /\ CallOK(c, "setL3", job[c], m)
      BY <1>3, CallAccess DEF Sets
    <2>4. PathOK("setL3", m, was'.used)
      BY <1>0, <1>3, <2>1 DEF PathOK, Allocs, Late
    <2>5. ASSUME NEW R, Before(R, c, was'.used), ReadOK(job[c], m, was.put)
          PROVE  \E S : /\ Tree(S, mem', was'.used, was.put) /\ Near(R, S, c)
                        /\ Holds(S, c, "setL3", job[c], m, was.put)
      <3>1. PICK u : u = was'.used
        OBVIOUS
      <3>2. IsInode(R, i) /\ IsPage(i) /\ R[i].kind = "inode"
        BY <1>3, <2>5 DEF Before, Lists, IsInode, Inode, Role
      <3>3. IsOwn(R, c, p) /\ IsOwn(R, c, m.ptr) /\ p # m.ptr /\ m.ptr \in Nat
        BY <1>0, <2>1, <2>5, Here DEF Before, Holds, Sets
      <3>4. Points(R, i, n) /\ LastUsed(u, i) /\ Child(R, u, i, n) = Role("second", i + n, i, 0)
        BY <1>0, <1>1, <1>3, <3>1, <3>2, SlotSecond DEF LastUsed
      <3>5. Before(R, c, u)
        BY <2>5, <3>1
      <3>6. PICK S : /\ Tree(S, [mem EXCEPT ![a] = p], u, was.put) /\ Near(R, S, c)
                     /\ S[p] = Child(R, u, i, n)
                     /\ \A x \in Nat : x # p => S[x] = R[x]
        BY <1>1, <1>7, <3>2, <3>3, <3>4, <3>5, Installing
      <3>7. IsSecond(S, p, i)
        BY <3>3, <3>4, <3>6 DEF IsSecond, IsOwn, Role
      <3>8. IsOwn(S, c, m.ptr)
        BY <3>3, <3>6 DEF IsOwn
      <3>9. Holds(S, c, "setL3", job[c], m, was.put)
        BY <1>0, <2>1, <2>5, <3>7, <3>8 DEF Holds, Allocs, Late
      <3> QED BY <1>4, <1>7, <3>1, <3>6, <3>9
    <2> QED BY <1>3, <1>4, <2>2, <2>3, <2>4, <2>5, Going
  <1> QED BY <1>5, <1>6, <1>7

(* the word of the third level in the second,                                *)
LEMMA StepMakeL3 ==
  ASSUME Types, Flow, NEW c \in Client, Operate(c), pc[c] = "makeL3"
  PROVE  Good(c)
  <1>0. PICK i \in Nat, o \in Nat, p \in Nat, q \in Nat :
          i = me[c].ino /\ o = me[c].off /\ p = me[c].l3 /\ q = me[c].l2
    BY Here
  <1>1. /\ InAccess(c) /\ ~IsDirect(o) /\ o <= Limit
        /\ job[c] \in Jobs[c] /\ IsAccess(job[c]) /\ job[c].kind = "put"
        /\ <<i, Block(o)>> \in was'.used
    <2>1. InAccess(c) /\ pc[c] \in Sets /\ pc[c] \notin Finds \cup {"length", "transfer"}
      BY DEF InAccess, Sets, Finds
    <2> QED BY <1>0, <2>1, Here, Accessing, Operates DEF FlowAt, PathOK
  <1>2. PICK n \in 0 .. Page - 1, a \in Nat : n = Idx0(o) /\ a = q + n
    BY <1>1, Levels
  <1>3. OpOf(c) = Write(a, <<p>>)
    BY <1>0, <1>2 DEF OpOf
  <1>4. /\ a \in Cells => mem' = [mem EXCEPT ![a] = p]
        /\ a \notin Cells => mem' = mem
        /\ mem' \in [Cells -> Nat]
    BY <1>3, Poke
  <1>5. \/ mem' = mem /\ Returns(c, Exception)
        \/ a \in Cells /\ Goto(c, "setLeaf") /\ UNCHANGED me
    <2>1. Outcome(OpOf(c), mem).error = "OK" <=> a \in Cells
      BY <1>3, Poke
    <2> QED BY <1>4, <2>1, Answered DEF AfterInstall, Allocs, Finds, Sets
  <1>6. CASE mem' = mem /\ Returns(c, Exception)
    BY <1>6, Refusal, Here DEF Before
  <1>7. CASE a \in Cells /\ Goto(c, "setLeaf") /\ UNCHANGED me
    <2>1. PICK m : m = me[c]
      OBVIOUS
    <2>2. pc' = [pc EXCEPT ![c] = "setLeaf"] /\ me' = [me EXCEPT ![c] = m] /\ Alike(me[c], m)
      BY <1>7, <2>1, Here DEF Goto, Alike
    <2>3. "setLeaf" \in Labels /\ CallOK(c, "setLeaf", job[c], m)
      BY <1>1, CallAccess DEF Sets
    <2>4. PathOK("setLeaf", m, was'.used)
      BY <1>0, <1>1, <2>1 DEF PathOK, Allocs, Late
    <2>5. ASSUME NEW R, Before(R, c, was'.used), ReadOK(job[c], m, was.put)
          PROVE  \E S : /\ Tree(S, mem', was'.used, was.put) /\ Near(R, S, c)
                        /\ Holds(S, c, "setLeaf", job[c], m, was.put)
      <3>1. PICK u : u = was'.used
        OBVIOUS
      <3>2. IsSecond(R, q, i) /\ IsPage(q) /\ R[q].kind = "second"
        BY <1>0, <2>5 DEF Before, Holds, IsSecond
      <3>3. IsOwn(R, c, p) /\ IsOwn(R, c, m.ptr) /\ p # m.ptr /\ m.ptr \in Nat
        BY <1>0, <2>1, <2>5, Here DEF Before, Holds, Sets
      <3>4. Points(R, q, n) /\ Child(R, u, q, n) = Role("third", q + n, i, n)
        BY <1>1, <1>2, <3>2, SlotThird
      <3>5. Before(R, c, u)
        BY <2>5, <3>1
      <3>6. PICK S : /\ Tree(S, [mem EXCEPT ![a] = p], u, was.put) /\ Near(R, S, c)
                     /\ S[p] = Child(R, u, q, n)
                     /\ \A x \in Nat : x # p => S[x] = R[x]
        BY <1>2, <1>7, <3>2, <3>3, <3>4, <3>5, Installing
      <3>7. IsThird(S, p, i, n)
        BY <3>3, <3>4, <3>6 DEF IsThird, IsOwn, Role
      <3>8. IsOwn(S, c, m.ptr)
        BY <3>3, <3>6 DEF IsOwn
      <3>9. Holds(S, c, "setLeaf", job[c], m, was.put)
        BY <1>0, <1>2, <2>1, <2>5, <3>7, <3>8 DEF Holds, Allocs, Late
      <3> QED BY <1>4, <1>7, <3>1, <3>6, <3>9
    <2> QED BY <1>1, <1>4, <2>2, <2>3, <2>4, <2>5, Going
  <1> QED BY <1>5, <1>6, <1>7

(* the word of the block in the third,                                       *)
LEMMA StepSetLeaf ==
  ASSUME Types, Flow, NEW c \in Client, Operate(c), pc[c] = "setLeaf"
  PROVE  Good(c)
  <1>0. PICK i \in Nat, o \in Nat, p \in Nat, q \in Nat :
          i = me[c].ino /\ o = me[c].off /\ p = me[c].ptr /\ q = me[c].l3
    BY Here
  <1>1. /\ InAccess(c) /\ ~IsDirect(o) /\ o <= Limit
        /\ job[c] \in Jobs[c] /\ IsAccess(job[c]) /\ job[c].kind = "put"
        /\ <<i, Block(o)>> \in was'.used
    <2>1. InAccess(c) /\ pc[c] \in Sets /\ pc[c] \notin Finds \cup {"length", "transfer"}
      BY DEF InAccess, Sets, Finds
    <2> QED BY <1>0, <2>1, Here, Accessing, Operates DEF FlowAt, PathOK
  <1>2. PICK n \in 0 .. Page - 1, a \in Nat : n = Idx1(o) /\ a = q + n
    BY <1>1, Levels
  <1>3. OpOf(c) = Write(a, <<p>>)
    BY <1>0, <1>2 DEF OpOf
  <1>4. /\ a \in Cells => mem' = [mem EXCEPT ![a] = p]
        /\ a \notin Cells => mem' = mem
        /\ mem' \in [Cells -> Nat]
    BY <1>3, Poke
  <1>5. \/ mem' = mem /\ Returns(c, Exception)
        \/ a \in Cells /\ Goto(c, "transfer") /\ UNCHANGED me
    <2>1. Outcome(OpOf(c), mem).error = "OK" <=> a \in Cells
      BY <1>3, Poke
    <2> QED BY <1>4, <2>1, Answered DEF AfterInstall, Allocs, Finds, Sets
  <1>6. CASE mem' = mem /\ Returns(c, Exception)
    BY <1>6, Refusal, Here DEF Before
  <1>7. CASE a \in Cells /\ Goto(c, "transfer") /\ UNCHANGED me
    <2>1. PICK m : m = me[c]
      OBVIOUS
    <2>2. pc' = [pc EXCEPT ![c] = "transfer"] /\ me' = [me EXCEPT ![c] = m] /\ Alike(me[c], m)
      BY <1>7, <2>1, Here DEF Goto, Alike
    <2>3. "transfer" \in Labels /\ CallOK(c, "transfer", job[c], m)
      BY <1>1, CallAccess
    <2>4. PathOK("transfer", m, was'.used)
      BY <1>0, <1>1, <2>1 DEF PathOK, Allocs, Late
    <2>5. ASSUME NEW R, Before(R, c, was'.used), ReadOK(job[c], m, was.put)
          PROVE  \E S : /\ Tree(S, mem', was'.used, was.put) /\ Near(R, S, c)
                        /\ Holds(S, c, "transfer", job[c], m, was.put)
      <3>1. PICK u : u = was'.used
        OBVIOUS
      <3>2. IsThird(R, q, i, Idx0(o)) /\ IsPage(q) /\ R[q].kind = "third"
        BY <1>0, <2>5 DEF Before, Holds, IsThird
      <3>3. IsOwn(R, c, p)
        BY <1>0, <2>5 DEF Before, Holds, Sets
      <3>4. Points(R, q, n) /\ Child(R, u, q, n) = Role("block", q + n, i, Block(o))
        BY <1>1, <1>2, <3>2, SlotLeaf
      <3>5. Before(R, c, u)
        BY <2>5, <3>1
      <3>6. PICK S : /\ Tree(S, [mem EXCEPT ![a] = p], u, was.put) /\ Near(R, S, c)
                     /\ S[p] = Child(R, u, q, n)
                     /\ \A x \in Nat : x # p => S[x] = R[x]
        BY <1>2, <1>7, <3>2, <3>3, <3>4, <3>5, Installing
      <3>7. IsBlock(S, p, i, Block(o))
        BY <3>3, <3>4, <3>6 DEF IsBlock, IsOwn, Role
      <3>8. Holds(S, c, "transfer", job[c], m, was.put)
        BY <1>0, <2>1, <2>5, <3>7 DEF Holds, Allocs, Late, Sets
      <3> QED BY <1>4, <1>7, <3>1, <3>6, <3>8
    <2> QED BY <1>1, <1>4, <2>2, <2>3, <2>4, <2>5, Going
  <1> QED BY <1>5, <1>6, <1>7

(* and the word of the block in the inode.                                   *)
LEMMA StepSetDirect ==
  ASSUME Types, Flow, NEW c \in Client, Operate(c), pc[c] = "setDirect"
  PROVE  Good(c)
  <1>0. PICK i \in Nat, o \in Nat, p \in Nat : i = me[c].ino /\ o = me[c].off /\ p = me[c].ptr
    BY Here
  <1>1. /\ InAccess(c) /\ IsDirect(o) /\ o <= Limit /\ i = inode[c]
        /\ job[c] \in Jobs[c] /\ IsAccess(job[c]) /\ job[c].kind = "put"
        /\ <<i, Block(o)>> \in was'.used
    <2>1. InAccess(c) /\ pc[c] \in Sets /\ pc[c] \notin Finds \cup {"length", "transfer"}
      BY DEF InAccess, Sets, Finds
    <2> QED BY <1>0, <2>1, Here, Accessing, Operates DEF FlowAt, PathOK
  <1>2. PICK b \in Nat, n \in 1 .. Page - 1 : b = Block(o) /\ n = 1 + b
    BY <1>1, Levels
  <1>3. PICK a \in Nat : a = i + n /\ i + 1 + b = a
    <2>1. i + 1 + b = i + n /\ i + n \in Nat
      BY <1>2
    <2> QED BY <2>1
  <1>4. OpOf(c) = Write(a, <<p>>)
    BY <1>0, <1>2, <1>3 DEF OpOf
  <1>5. /\ a \in Cells => mem' = [mem EXCEPT ![a] = p]
        /\ a \notin Cells => mem' = mem
        /\ mem' \in [Cells -> Nat]
    BY <1>4, Poke
  <1>6. \/ mem' = mem /\ Returns(c, Exception)
        \/ a \in Cells /\ Goto(c, "transfer") /\ UNCHANGED me
    <2>1. Outcome(OpOf(c), mem).error = "OK" <=> a \in Cells
      BY <1>4, Poke
    <2> QED BY <1>5, <2>1, Answered DEF AfterInstall, Allocs, Finds, Sets
  <1>7. CASE mem' = mem /\ Returns(c, Exception)
    BY <1>7, Refusal, Here DEF Before
  <1>8. CASE a \in Cells /\ Goto(c, "transfer") /\ UNCHANGED me
    <2>1. PICK m : m = me[c]
      OBVIOUS
    <2>2. pc' = [pc EXCEPT ![c] = "transfer"] /\ me' = [me EXCEPT ![c] = m] /\ Alike(me[c], m)
      BY <1>8, <2>1, Here DEF Goto, Alike
    <2>3. "transfer" \in Labels /\ CallOK(c, "transfer", job[c], m)
      BY <1>1, CallAccess
    <2>4. PathOK("transfer", m, was'.used)
      BY <1>0, <1>1, <2>1 DEF PathOK, Allocs, Late
    <2>5. ASSUME NEW R, Before(R, c, was'.used), ReadOK(job[c], m, was.put)
          PROVE  \E S : /\ Tree(S, mem', was'.used, was.put) /\ Near(R, S, c)
                        /\ Holds(S, c, "transfer", job[c], m, was.put)
      <3>1. PICK u : u = was'.used
        OBVIOUS
      <3>2. IsInode(R, i) /\ IsPage(i) /\ R[i].kind = "inode"
        BY <1>1, <2>5 DEF Before, Lists, IsInode, Inode, Role
      <3>3. IsOwn(R, c, p)
        BY <1>0, <2>5 DEF Before, Holds, Sets
      <3>4. <<i, b>> \in u /\ ~Mixed(u)
        BY <1>1, <1>2, <2>5, <3>1 DEF Before
      <3>5. Points(R, i, n) /\ Child(R, u, i, n) = Role("block", i + n, i, b)
        BY <1>2, <3>2, <3>4, SlotDirect
      <3>6. Before(R, c, u)
        BY <2>5, <3>1
      <3>7. n = Page - 1 => LastUsed(u, i)
        <4>1. n = Page - 1 => b = Page - 2
          BY <1>2, Sizes
        <4> QED BY <3>4, <4>1 DEF LastUsed
      <3>8. n \in 0 .. Page - 1
        BY Sizes
      <3>9. PICK S : /\ Tree(S, [mem EXCEPT ![a] = p], u, was.put) /\ Near(R, S, c)
                     /\ S[p] = Child(R, u, i, n)
                     /\ \A x \in Nat : x # p => S[x] = R[x]
        BY <1>3, <1>8, <3>2, <3>3, <3>5, <3>6, <3>7, <3>8, Installing
      <3>10. IsBlock(S, p, i, b)
        BY <3>3, <3>5, <3>9 DEF IsBlock, IsOwn, Role
      <3>11. Holds(S, c, "transfer", job[c], m, was.put)
        BY <1>0, <1>2, <2>1, <2>5, <3>10 DEF Holds, Allocs, Late, Sets
      <3> QED BY <1>5, <1>8, <3>1, <3>9, <3>11
    <2> QED BY <1>1, <1>5, <2>2, <2>3, <2>4, <2>5, Going
  <1> QED BY <1>6, <1>7, <1>8

-------------------------------------------------------------------------------
(* The allocation of a page.  It reads the counter ...                         *)
LEMMA StepAllocRead ==
  ASSUME Types, Flow, NEW c \in Client, Operate(c), pc[c] = "allocRead"
  PROVE  Good(c)
  <1>1. OpOf(c) = Read(0, 1)
    BY DEF OpOf
  <1>2. \/ mem' = mem /\ Returns(c, Exception)
        \/ \E v \in Nat : mem' = mem /\ Set(c, "page", v) /\ Goto(c, "allocCas")
    <2>1. PICK res : res = Outcome(OpOf(c), mem)
      OBVIOUS
    <2>2. mem' = mem /\ (res.error = "OK" => res.result[1] = mem[0] /\ mem[0] \in Nat)
      BY <1>1, <2>1, Peek
    <2>3. \/ Returns(c, Exception)
          \/ /\ res.error = "OK"
             /\ Set(c, "page", res.result[1]) /\ Goto(c, "allocCas")
      BY <2>1, Answered DEF AfterAlloc, Allocs, Finds, Sets
    <2> QED BY <2>2, <2>3
  <1>3. CASE mem' = mem /\ Returns(c, Exception)
    BY <1>3, Refusal, Here DEF Before
  <1>4. ASSUME NEW v \in Nat, mem' = mem, Set(c, "page", v), Goto(c, "allocCas")
        PROVE  Good(c)
    <2>1. PICK m : m = [me[c] EXCEPT !.page = v]
      OBVIOUS
    <2>2. pc' = [pc EXCEPT ![c] = "allocCas"] /\ me' = [me EXCEPT ![c] = m]
      BY <1>4, <2>1, Setting DEF Goto
    <2>3. Alike(me[c], m) /\ m.for = me[c].for /\ m.ptr = me[c].ptr /\ m.l2 = me[c].l2
      <3>1. me[c] \in Locals
        BY Here
      <3> QED BY <2>1, <3>1, Changed
    <2>4. "allocCas" \in Labels /\ CallOK(c, "allocCas", job[c], m)
      BY <2>3, Here DEF Labels, FlowAt, CallOK, Allocs, Sets, Finds
    <2>5. PathOK("allocCas", m, was'.used)
      <3>1. PathOK("allocRead", me[c], was.used) /\ was.used \subseteq was'.used
        BY Here, Operates DEF FlowAt
      <3> QED BY <2>3, <3>1 DEF PathOK, Alike, Allocs, Late, Sets
    <2>6. ASSUME NEW R, Before(R, c, was'.used), ReadOK(job[c], m, was.put)
          PROVE  \E S : /\ Tree(S, mem', was'.used, was.put) /\ Near(R, S, c)
                        /\ Holds(S, c, "allocCas", job[c], m, was.put)
      <3>1. Holds(R, c, "allocCas", job[c], m, was.put)
        BY <2>3, <2>6 DEF Before, Holds, Sets, Allocs, Late, Alike
      <3>2. Tree(R, mem', was'.used, was.put)
        BY <1>4, <2>6 DEF Before
      <3> QED BY <3>1, <3>2, NearSame
    <2>7. mem' \in [Cells -> Nat] /\ pc[c] # "ready"
      BY <1>4, Here
    <2> QED BY <2>2, <2>3, <2>4, <2>5, <2>6, <2>7, Onward
  <1> QED BY <1>2, <1>3, <1>4

(* ... and moves it past a page that was free.                                 *)
Counted(p, k) == k = [mem EXCEPT ![0] = p + Page]
(* The page at the counter was free, and may get any role.                   *)
LEMMA Fresh ==
  ASSUME Types, NEW c \in Client, NEW R, NEW used, Before(R, c, used), NEW p \in Nat, p = mem[0],
         NEW k, Counted(p, k), NEW r
  PROVE  /\ IsPage(p) /\ R[p] = Free
         /\ Tree(Given(R, p, r), k, used, was.put)
         /\ Near(R, Given(R, p, r), c) /\ Given(R, p, r)[p] = r
         /\ \A q \in Nat : q # p => Given(R, p, r)[q] = R[q]
  <1>1. mem \in [Cells -> Nat] /\ Tree(R, mem, used, was.put)
    BY DEF Types, Before
  <1>2. IsPage(p) /\ R[p] = Free /\ R[p] \in {Free, Own(c)}
    BY <1>1 DEF Tree
  <1>3. k \in [Cells -> Nat] /\ k[0] = p + Page /\ p < k[0]
    BY <1>1, Sizes DEF Counted
  <1>4. Tree(R, k, used, was.put)
    BY <1>1, TreeCounter DEF Counted
  <1>5. /\ Tree(Given(R, p, r), k, used, was.put) /\ Near(R, Given(R, p, r), c)
        /\ Given(R, p, r)[p] = r
        /\ \A q \in Nat : q # p => Given(R, p, r)[q] = R[q]
    <2>1. k \in [Cells -> Nat] /\ p < k[0]
      BY <1>3
    <2>2. R[p] \in {Free, Own(c)} /\ IsPage(p)
      BY <1>2
    <2> HIDE DEF Given
    <2>3. k \in [Cells -> Nat] /\ Tree(R, k, used, was.put) /\ p < k[0]
      BY <1>4, <2>1
    <2>4. PICK put : put = was.put
      OBVIOUS
    <2> QED BY <2>2, <2>3, <2>4, TreeRole
  <1> QED BY <1>2, <1>5

(* The page becomes what it was allocated for.                                 *)
LEMMA Using ==
  ASSUME Types, Flow, NEW c \in Client, pc[c] = "allocCas", Operate(c), UsePage(c),
         NEW p \in Nat, p = mem[0], p = me[c].page, mem' = [mem EXCEPT ![0] = p + Page]
  PROVE  Good(c)
  <1>1. me[c] \in Locals /\ CallOK(c, "allocCas", job[c], me[c]) /\ job[c] \in Jobs[c]
        /\ PathOK("allocCas", me[c], was.used)
        /\ BufferOK("allocCas", job[c], me[c], inode[c], was.put)
    BY Here DEF FlowAt
  <1>2. mem' \in [Cells -> Nat]
    <2>1. p + Page \in Nat /\ mem \in [Cells -> Nat]
      BY Sizes, Here
    <2> QED BY <2>1
  <1>3. PICK k : k = mem' /\ Counted(p, k)
    BY DEF Counted
  <1>4. PICK u : u = was'.used /\ was.used \subseteq u
    BY Operates
  <1>5. me[c].for # "inode" => /\ InAccess(c) /\ IsAccess(job[c]) /\ job[c].kind = "put"
                               /\ <<me[c].ino, Block(me[c].off)>> \in u
    <2>1. me[c].for # "inode" => InAccess(c) /\ pc[c] \notin Finds \cup {"length", "transfer"}
      BY DEF InAccess, Allocs, Finds
    <2> QED BY <1>1, <1>4, <2>1, Accessing DEF PathOK, Allocs
  <1>6. CASE me[c].for = "inode"
    <2>1. PICK m : m = [me[c] EXCEPT !.ino = p]
      OBVIOUS
    <2>2. pc' = [pc EXCEPT ![c] = "publish"] /\ me' = [me EXCEPT ![c] = m]
      BY <1>6, <2>1, Setting DEF Goto, UsePage
    <2>3. m \in Locals /\ m.ino = p
      BY <1>1, <2>1 DEF Locals
    <2>4. job[c].kind = "create"
      BY <1>1, <1>6 DEF CallOK, Allocs
    <2>5. Fine(c, "publish", m, u)
      BY <1>1, <2>3, <2>4 DEF Fine, Labels, Plain, CallOK, BufferOK, PathOK, IsAccess, Finds, Sets, Allocs, Late
    <2>6. ASSUME NEW R, Before(R, c, u)
          PROVE  \E S : /\ Tree(S, mem', u, was.put) /\ Near(R, S, c)
                        /\ Holds(S, c, "publish", job[c], m, was.put)
      <3>1. PICK S : S = Given(R, p, Inode)
        OBVIOUS
      <3>2. /\ Tree(S, k, u, was.put) /\ Near(R, S, c)
            /\ S[p] = Inode /\ \A q \in Nat : q # p => S[q] = R[q]
            /\ IsPage(p) /\ R[p] = Free
        BY <1>3, <2>6, <3>1, Fresh
      <3>3. Holds(S, c, "publish", job[c], m, was.put)
        BY <2>3, <2>4, <3>1, <3>2 DEF Holds, ReadOK, IsInode, Sets, Allocs, Late
      <3> QED BY <1>3, <3>2, <3>3
    <2>7. Moves(c, "publish", m, mem', u)
      BY <2>6 DEF Moves
    <2> QED BY <1>2, <1>4, <2>2, <2>5, <2>7 DEF Good
  <1>7. CASE me[c].for = "block"
    <2>1. PICK m : m = [me[c] EXCEPT !.ptr = p]
      OBVIOUS
    <2>2. PICK l : l = IF IsDirect(me[c].off) THEN "setDirect" ELSE "setL2"
      OBVIOUS
    <2>3. pc' = [pc EXCEPT ![c] = l] /\ me' = [me EXCEPT ![c] = m]
      BY <1>7, <2>1, <2>2, Setting DEF Goto, UsePage
    <2>4. Alike(me[c], m) /\ m.ptr = p
      BY <1>1, <2>1, Changed
    <2>5. l \in Sets /\ l \in {"setDirect", "setL2"}
      BY <2>2 DEF Sets
    <2>6. l \in Labels /\ CallOK(c, l, job[c], m)
      BY <1>1, <1>5, <1>7, <2>5, CallAccess
    <2>7. PathOK(l, m, was'.used)
      BY <1>4, <1>5, <1>7, <2>2, <2>4, <2>5 DEF PathOK, Alike, Allocs, Late
    <2>8. ASSUME NEW R, Before(R, c, was'.used), ReadOK(job[c], m, was.put)
          PROVE  \E S : /\ Tree(S, mem', was'.used, was.put) /\ Near(R, S, c)
                        /\ Holds(S, c, l, job[c], m, was.put)
      <3>0. Before(R, c, u)
        BY <1>4, <2>8
      <3>1. PICK S : S = Given(R, p, Own(c))
        OBVIOUS
      <3>2. /\ Tree(S, k, u, was.put) /\ Near(R, S, c)
            /\ S[p] = Own(c) /\ \A q \in Nat : q # p => S[q] = R[q]
            /\ IsPage(p) /\ R[p] = Free
        BY <1>3, <3>0, <3>1, Fresh
      <3>3. Holds(S, c, l, job[c], m, was.put)
        BY <2>4, <2>5, <2>8, <3>1, <3>2 DEF Holds, IsOwn, Allocs, Late
      <3> QED BY <1>4, <1>3, <3>2, <3>3
    <2> QED BY <1>2, <1>5, <1>7, <2>3, <2>4, <2>6, <2>7, <2>8, Going
  <1>8. CASE me[c].for = "l2"
    <2>1. PICK m : m = [me[c] EXCEPT !.l2 = p]
      OBVIOUS
    <2>3. pc' = [pc EXCEPT ![c] = "makeL2"] /\ me' = [me EXCEPT ![c] = m]
      BY <1>8, <2>1, Setting DEF Goto, UsePage
    <2>4. Alike(me[c], m) /\ m.l2 = p /\ m.ptr = me[c].ptr /\ m.ptr \in Nat
      BY <1>1, <2>1, Changed, Here
    <2>6. "makeL2" \in Labels /\ CallOK(c, "makeL2", job[c], m)
      BY <1>1, <1>5, <1>8, CallAccess DEF Sets
    <2>7. PathOK("makeL2", m, was'.used)
      BY <1>1, <1>4, <1>5, <1>8, <2>4 DEF PathOK, Alike, Allocs, Late
    <2>8. ASSUME NEW R, Before(R, c, was'.used), ReadOK(job[c], m, was.put)
          PROVE  \E S : /\ Tree(S, mem', was'.used, was.put) /\ Near(R, S, c)
                        /\ Holds(S, c, "makeL2", job[c], m, was.put)
      <3>0. Before(R, c, u)
        BY <1>4, <2>8
      <3>1. PICK S : S = Given(R, p, Own(c))
        OBVIOUS
      <3>2. /\ Tree(S, k, u, was.put) /\ Near(R, S, c)
            /\ S[p] = Own(c) /\ \A q \in Nat : q # p => S[q] = R[q]
            /\ IsPage(p) /\ R[p] = Free
        BY <1>3, <3>0, <3>1, Fresh
      <3>3. IsOwn(R, c, m.ptr)
        BY <1>8, <2>4, <3>0 DEF Before, Holds, Late, Allocs
      <3>4. m.ptr # p /\ IsOwn(S, c, m.ptr) /\ IsOwn(S, c, p)
        BY <2>4, <3>1, <3>2, <3>3 DEF IsOwn, Own, Free, Role
      <3>5. Holds(S, c, "makeL2", job[c], m, was.put)
        BY <2>4, <2>8, <3>4 DEF Holds, Allocs, Late
      <3> QED BY <1>4, <1>3, <3>2, <3>5
    <2> QED BY <1>2, <1>5, <1>8, <2>3, <2>4, <2>6, <2>7, <2>8, Going
  <1>9. CASE me[c].for = "l3"
    <2>1. PICK m : m = [me[c] EXCEPT !.l3 = p]
      OBVIOUS
    <2>3. pc' = [pc EXCEPT ![c] = "makeL3"] /\ me' = [me EXCEPT ![c] = m]
      BY <1>9, <2>1, Setting DEF Goto, UsePage
    <2>4. /\ Alike(me[c], m) /\ m.l3 = p /\ m.ptr = me[c].ptr /\ m.ptr \in Nat
          /\ m.l2 = me[c].l2 /\ m.l2 \in Nat
      BY <1>1, <2>1, Changed, Here
    <2>6. "makeL3" \in Labels /\ CallOK(c, "makeL3", job[c], m)
      BY <1>1, <1>5, <1>9, CallAccess DEF Sets
    <2>7. PathOK("makeL3", m, was'.used)
      BY <1>1, <1>4, <1>5, <1>9, <2>4 DEF PathOK, Alike, Allocs, Late
    <2>8. ASSUME NEW R, Before(R, c, was'.used), ReadOK(job[c], m, was.put)
          PROVE  \E S : /\ Tree(S, mem', was'.used, was.put) /\ Near(R, S, c)
                        /\ Holds(S, c, "makeL3", job[c], m, was.put)
      <3>0. Before(R, c, u)
        BY <1>4, <2>8
      <3>1. PICK S : S = Given(R, p, Own(c))
        OBVIOUS
      <3>2. /\ Tree(S, k, u, was.put) /\ Near(R, S, c)
            /\ S[p] = Own(c) /\ \A q \in Nat : q # p => S[q] = R[q]
            /\ IsPage(p) /\ R[p] = Free
        BY <1>3, <3>0, <3>1, Fresh
      <3>3. IsOwn(R, c, m.ptr) /\ IsSecond(R, m.l2, m.ino)
        BY <1>9, <2>4, <3>0 DEF Before, Holds, Late, Allocs, Alike
      <3>4. m.ptr # p /\ IsOwn(S, c, m.ptr) /\ IsOwn(S, c, p)
        BY <2>4, <3>1, <3>2, <3>3 DEF IsOwn, Own, Free, Role
      <3>5. IsSecond(S, m.l2, m.ino)
        BY <2>4, <3>1, <3>2, <3>3 DEF IsSecond, Free, Role
      <3>6. Holds(S, c, "makeL3", job[c], m, was.put)
        BY <2>4, <2>8, <3>4, <3>5 DEF Holds, Allocs, Late
      <3> QED BY <1>4, <1>3, <3>2, <3>6
    <2> QED BY <1>2, <1>5, <1>9, <2>3, <2>4, <2>6, <2>7, <2>8, Going
  <1> QED BY <1>1, <1>6, <1>7, <1>8, <1>9, LocalTypes

(* The counter moves unless another store moved it since it was read.        *)
LEMMA StepAllocCas ==
  ASSUME Types, Flow, NEW c \in Client, Operate(c), pc[c] = "allocCas"
  PROVE  Good(c)
  <1>1. PICK p \in Nat, r \in Nat : p = mem[0] /\ r = me[c].page
    BY Here, Sizes
  <1>2. OpOf(c) = Cas(0, r, r + Page)
    BY <1>1 DEF OpOf
  <1>3. \/ mem' = mem /\ Goto(c, "allocRead") /\ UNCHANGED me
        \/ mem' = [mem EXCEPT ![0] = r + Page] /\ p = r /\ UsePage(c)
    <2>1. PICK res : res = Outcome(OpOf(c), mem)
      OBVIOUS
    <2>2. 0 \in Nat /\ 0 < MemSize
      BY Sizes
    <2>3. /\ res.error = "OK"
          /\ res.result[1] # 0 <=> p = r
          /\ p = r => mem' = [mem EXCEPT ![0] = r + Page]
          /\ p # r => mem' = mem
      <3>1. PICK v : v = r + Page
        OBVIOUS
      <3>2. mem' = Effect(Cas(0, r, v), mem) /\ res = Outcome(Cas(0, r, v), mem)
        BY <1>2, <2>1, <3>1, Operates
      <3> QED BY <1>1, <2>2, <3>1, <3>2, CasOne
    <2>4. \/ res.result[1] = 0 /\ Goto(c, "allocRead") /\ UNCHANGED me
          \/ res.result[1] # 0 /\ UsePage(c)
      BY <2>1, <2>3, Answered DEF AfterAlloc, Allocs, Finds, Sets
    <2> QED BY <2>3, <2>4
  <1>4. CASE mem' = mem /\ Goto(c, "allocRead") /\ UNCHANGED me
    <2>1. PICK m : m = me[c]
      OBVIOUS
    <2>2. pc' = [pc EXCEPT ![c] = "allocRead"] /\ me' = [me EXCEPT ![c] = m] /\ Alike(me[c], m)
      BY <1>4, <2>1, Here DEF Goto, Alike
    <2>4. "allocRead" \in Labels /\ CallOK(c, "allocRead", job[c], m)
      BY <2>1, Here DEF Labels, FlowAt, CallOK, Allocs, Sets, Finds
    <2>5. PathOK("allocRead", m, was'.used)
      <3>1. PathOK("allocCas", me[c], was.used) /\ was.used \subseteq was'.used
        BY Here, Operates DEF FlowAt
      <3> QED BY <2>1, <3>1 DEF PathOK, Allocs, Late, Sets
    <2>6. ASSUME NEW R, Before(R, c, was'.used), ReadOK(job[c], m, was.put)
          PROVE  \E S : /\ Tree(S, mem', was'.used, was.put) /\ Near(R, S, c)
                        /\ Holds(S, c, "allocRead", job[c], m, was.put)
      <3>1. Holds(R, c, "allocRead", job[c], m, was.put)
        BY <2>1, <2>6 DEF Before, Holds, Sets, Allocs, Late
      <3>2. Tree(R, mem', was'.used, was.put)
        BY <1>4, <2>6 DEF Before
      <3> QED BY <3>1, <3>2, NearSame
    <2>7. mem' \in [Cells -> Nat] /\ pc[c] # "ready"
      BY <1>4, Here
    <2> QED BY <2>2, <2>4, <2>5, <2>6, <2>7, Onward
  <1>5. CASE mem' = [mem EXCEPT ![0] = r + Page] /\ p = r /\ UsePage(c)
    BY <1>1, <1>5, Using
  <1> QED BY <1>3, <1>4, <1>5

-------------------------------------------------------------------------------
(* The transfer of n words, and what is left of the call after it.             *)
Moved(j, m, n, vs) ==
  [m EXCEPT !.off = m.off + n, !.left = m.left - n,
            !.buf = IF j.kind = "put" THEN SubSeq(m.buf, n + 1, Len(m.buf)) ELSE m.buf \o vs]
(* The buffer stays in step with what is left.                               *)
LEMMA Advance ==
  ASSUME NEW c \in Client, NEW j \in Jobs[c], IsAccess(j), NEW m \in Locals, NEW i, NEW put,
         BufferOK("transfer", j, m, i, put), NEW n \in Nat, n <= m.left,
         NEW vs \in Seq(Nat), Len(vs) = n
  PROVE  LET k == Moved(j, m, n, vs) IN
         /\ k \in Locals /\ BufferOK("transfer", j, k, i, put)
         /\ ReadOK(j, m, put)
              /\ (\A x \in 1 .. n : vs[x] = 0 \/ <<m.ino, m.off + (x - 1), vs[x]>> \in put)
              => ReadOK(j, k, put)
  <1>1. PICK k : k = Moved(j, m, n, vs)
    OBVIOUS
  <1>2. PICK x \in Nat, y \in Nat, o \in Nat, buf \in Seq(Nat) :
          x = m.left /\ y = m.rest /\ o = m.off /\ buf = m.buf
    BY LocalTypes
  <1>3. x - n \in Nat /\ o + n \in Nat /\ n <= x
    BY <1>2
  <1>4. j.kind \in {"put", "get"} /\ (j.kind = "get" => j.off \in Nat)
    BY JobTypes DEF IsAccess
  <1>5. o + x + y <= Limit
    BY <1>2 DEF BufferOK
  <1>6. (o + n) + (x - n) + y <= Limit
    BY <1>3, <1>5, Sizes DEF Limit
  <1>7. CASE j.kind = "put"
    <2>1. PICK s : s = SubSeq(buf, n + 1, Len(buf))
      OBVIOUS
    <2>2. Len(buf) = x + y
      BY <1>2, <1>7 DEF BufferOK
    <2>3. s \in Seq(Nat) /\ Len(s) = x + y - n /\ \A z \in 1 .. x + y - n : s[z] = buf[n + z]
      <3>1. n <= Len(buf) /\ Len(buf) - n = x + y - n
        BY <1>3, <2>2
      <3>2. /\ SubSeq(buf, n + 1, Len(buf)) \in Seq(Nat)
            /\ Len(SubSeq(buf, n + 1, Len(buf))) = Len(buf) - n
            /\ \A z \in 1 .. Len(buf) - n : SubSeq(buf, n + 1, Len(buf))[z] = buf[n + z]
        BY <3>1, Parts
      <3> QED BY <2>1, <3>1, <3>2
    <2>4. k \in Locals /\ k.ino = m.ino /\ k.off = o + n /\ k.left = x - n /\ k.rest = y /\ k.buf = s
      BY <1>1, <1>2, <1>3, <1>7, <2>1, <2>3 DEF Moved, Locals
    <2>5. ASSUME NEW z \in 1 .. x + y - n PROVE <<m.ino, (o + n) + (z - 1), s[z]>> \in put
      <3>1. n + z \in 1 .. x + y /\ (o + n) + (z - 1) = o + ((n + z) - 1)
        BY <1>3
      <3>2. <<m.ino, o + ((n + z) - 1), buf[n + z]>> \in put
        BY <1>2, <1>7, <2>2, <3>1 DEF BufferOK
      <3> QED BY <2>3, <3>1, <3>2
    <2>6. x + y - n = (x - n) + y
      BY <1>3
    <2>7. BufferOK("transfer", j, k, i, put)
      BY <1>6, <1>7, <2>3, <2>4, <2>5, <2>6 DEF BufferOK
    <2>8. ReadOK(j, k, put)
      BY <1>7 DEF ReadOK
    <2> QED BY <1>1, <2>4, <2>7, <2>8
  <1>8. CASE j.kind = "get"
    <2>1. PICK s : s = buf \o vs
      OBVIOUS
    <2>2. PICK w \in Nat, g \in Nat : w = Len(buf) /\ g = j.off
      BY <1>4, <1>8
    <2>3. /\ s \in Seq(Nat) /\ Len(s) = w + n
          /\ \A z \in 1 .. w : s[z] = buf[z]
          /\ \A z \in 1 .. w + n : ~(z <= w) => z - w \in 1 .. n /\ s[z] = vs[z - w]
      BY <2>1, <2>2, Joined
    <2>4. k \in Locals /\ k.ino = m.ino /\ k.off = o + n /\ k.left = x - n /\ k.rest = y /\ k.buf = s
      BY <1>1, <1>2, <1>3, <1>8, <2>1, <2>3 DEF Moved, Locals
    <2>5. o = g + w
      BY <1>2, <1>8, <2>2 DEF BufferOK
    <2>6. o + n = g + (w + n)
      BY <2>5
    <2>7. BufferOK("transfer", j, k, i, put)
      BY <1>6, <1>8, <2>2, <2>3, <2>4, <2>6 DEF BufferOK
    <2>8. ASSUME ReadOK(j, m, put),
                 \A z \in 1 .. n : vs[z] = 0 \/ <<m.ino, m.off + (z - 1), vs[z]>> \in put
          PROVE  ReadOK(j, k, put)
      <3>1. ASSUME NEW z \in 1 .. w + n PROVE s[z] = 0 \/ <<m.ino, g + (z - 1), s[z]>> \in put
        <4>1. CASE z <= w
          <5>1. z \in 1 .. w /\ s[z] = buf[z]
            BY <2>3, <4>1
          <5> QED BY <1>2, <1>8, <2>2, <2>8, <5>1 DEF ReadOK
        <4>2. CASE ~(z <= w)
          <5>1. PICK h \in 1 .. n : h = z - w
            BY <2>3, <4>2
          <5>2. s[z] = vs[h] /\ o + (h - 1) = g + (z - 1)
            BY <2>3, <2>5, <4>2, <5>1
          <5>3. vs[h] = 0 \/ <<m.ino, o + (h - 1), vs[h]>> \in put
            BY <1>2, <2>8
          <5> QED BY <5>2, <5>3
        <4> QED BY <4>1, <4>2
      <3> QED BY <2>2, <2>3, <2>4, <3>1 DEF ReadOK
    <2> QED BY <1>1, <2>4, <2>7, <2>8
  <1> QED BY <1>4, <1>7, <1>8

(* Memory k is m with the words vs from a on.                                  *)
Laid(m, k, a, vs) ==
  \A y \in Nat : y \in Cells => IF y >= a /\ y < a + Len(vs) THEN k[y] = vs[y - a + 1] ELSE k[y] = m[y]

(* Where a put stores next, and what: a part of its buffer.                    *)
Target(m) == m.ptr + (m.off % Page)
Part(m)   == SubSeq(m.buf, 1, Span(m))
(* It is stored in a part of a page.                                         *)
LEMMA StoresWords ==
  ASSUME Types, Flow, NEW c \in Client, Operate(c), Stores(c), NEW m \in Locals, m = me[c]
  PROVE  /\ Target(m) \in Nat /\ Part(m) \in Seq(Nat) /\ Len(Part(m)) = Span(m)
         /\ (\A k \in 1 .. Span(m) : Part(m)[k] = m.buf[k]) /\ Span(m) <= Len(m.buf)
         /\ OpOf(c) = Write(Target(m), Part(m)) /\ mem' \in [Cells -> Nat]
         /\ Laid(mem, mem', Target(m), Part(m))
  <1>0. PICK a \in Nat, n \in Nat : a = Target(m) /\ n = Span(m)
    <2>1. m.ptr \in Nat /\ m.off % Page \in 0 .. Page - 1
      BY LocalTypes, Divided
    <2>2. m.off % Page \in Nat
      BY <2>1, Sizes
    <2>3. Target(m) \in Nat
      BY <2>1, <2>2 DEF Target
    <2> QED BY <2>3, Spans
  <1>8. PICK vs : vs = Part(m)
    OBVIOUS
  <1>1. BufferOK("transfer", job[c], m, inode[c], was.put)
    <2>1. InAccess(c)
      BY DEF InAccess, Stores
    <2> QED BY <2>1, Accessing
  <1>2. vs \in Seq(Nat) /\ Len(vs) = n /\ (\A k \in 1 .. n : vs[k] = m.buf[k]) /\ n <= Len(m.buf)
    <2>1. PICK x \in Nat, y \in Nat : x = m.left /\ y = m.rest
      BY LocalTypes
    <2>2. Len(m.buf) = x + y /\ n <= x
      BY <1>0, <1>1, <2>1, Spans DEF BufferOK, Stores
    <2>3. n <= Len(m.buf) /\ m.buf \in Seq(Nat)
      BY <2>2, LocalTypes
    <2>4. vs = SubSeq(m.buf, 1, n)
      BY <1>0, <1>8 DEF Part
    <2> QED BY <2>3, <2>4, Parts
  <1>3. OpOf(c) = Write(a, vs)
    BY <1>0, <1>8 DEF OpOf, Stores, Part, Target
  <1>4. mem' = [y \in Cells |-> IF y >= a /\ y < a + Len(vs) THEN vs[y - a + 1] ELSE mem[y]]
    <2>1. vs \in Seq(Int) /\ mem \in [Cells -> Int]
      BY <1>2, Here
    <2>2. mem' = Effect(Write(a, vs), mem)
      BY <1>3, Operates
    <2> QED BY <2>1, <2>2, WriteMany
  <1>5. ASSUME NEW y \in Nat, y \in Cells
        PROVE  /\ mem'[y] \in Nat
               /\ IF y >= a /\ y < a + Len(vs) THEN mem'[y] = vs[y - a + 1] ELSE mem'[y] = mem[y]
    <2>1. CASE y >= a /\ y < a + Len(vs)
      <3>1. mem'[y] = vs[y - a + 1]
        BY <1>4, <1>5, <2>1
      <3>2. y - a + 1 \in 1 .. n
        BY <1>2, <2>1
      <3> QED BY <1>2, <2>1, <3>1, <3>2
    <2>2. CASE ~(y >= a /\ y < a + Len(vs))
      <3>1. mem'[y] = mem[y]
        BY <1>4, <1>5, <2>2
      <3> QED BY <1>5, <2>2, <3>1, Here
    <2> QED BY <2>1, <2>2
  <1>6. mem' \in [Cells -> Nat]
    BY <1>4, <1>5, Sizes
  <1>7. Laid(mem, mem', a, vs)
    BY <1>5 DEF Laid
  <1> QED BY <1>0, <1>8, <1>2, <1>3, <1>6, <1>7

(* A put stores its next words in the block it has found.                      *)
LEMMA Storing ==
  ASSUME Types, Flow, NEW c \in Client, Operate(c), Stores(c)
  PROVE  /\ mem' \in [Cells -> Nat]
         /\ \A R : Before(R, c, was'.used) => Tree(R, mem', was'.used, was.put)
  <1>0. InAccess(c) /\ pc[c] = "transfer" /\ job[c].kind = "put"
    BY DEF InAccess, Stores
  <1>1. PICK m \in Locals, n \in Nat : m = me[c] /\ n = Span(m)
    BY Here, Spans
  <1>2. PICK i \in Nat, o \in Nat, p \in Nat, buf \in Seq(Nat), r \in Nat, a \in Nat :
          i = m.ino /\ o = m.off /\ p = m.ptr /\ buf = m.buf /\ r = o % Page /\ a = p + r
    <2>1. m.off % Page \in Nat
      <3>1. m.off % Page \in 0 .. Page - 1
        BY LocalTypes, Divided
      <3> QED BY <3>1, Sizes
    <2> QED BY <2>1, LocalTypes
  <1>4. PICK vs : vs = SubSeq(buf, 1, n)
    OBVIOUS
  <1>5. BufferOK("transfer", job[c], m, inode[c], was.put) /\ r + n <= Page
    BY <1>0, <1>1, <1>2, Accessing, Spans
  <1>6. /\ vs \in Seq(Nat) /\ Len(vs) = n /\ (\A k \in 1 .. n : vs[k] = buf[k]) /\ n <= Len(buf)
        /\ mem' \in [Cells -> Nat] /\ Laid(mem, mem', a, vs)
    <2>1. vs = Part(m) /\ a = Target(m)
      BY <1>1, <1>2, <1>4 DEF Part, Target
    <2>2. /\ Part(m) \in Seq(Nat) /\ Len(Part(m)) = Span(m)
          /\ (\A k \in 1 .. Span(m) : Part(m)[k] = m.buf[k]) /\ Span(m) <= Len(m.buf)
          /\ mem' \in [Cells -> Nat] /\ Laid(mem, mem', Target(m), Part(m))
      BY <1>1, StoresWords
    <2> QED BY <1>1, <1>2, <2>1, <2>2
  <1>8. ASSUME NEW y \in Cells
        PROVE  \/ mem'[y] = mem[y]
               \/ \E k \in 1 .. n : /\ y = p + (r + (k - 1)) /\ mem'[y] = buf[k]
                                    /\ r + (k - 1) \in 0 .. Page - 1 /\ r + (k - 1) < Page
    <2>1. y \in Nat /\ Page \in Nat
      BY Sizes
    <2>2. CASE y >= a /\ y < a + n
      <3>2. PICK k \in 1 .. n : k = y - a + 1
        BY <2>1, <2>2
      <3>3. y = p + (r + (k - 1)) /\ r + (k - 1) \in 0 .. Page - 1 /\ r + (k - 1) < Page
        <4>1. a = p + r /\ r + n <= Page /\ r \in Nat /\ p \in Nat /\ Page \in Nat
          BY <1>2, <1>5, <2>1
        <4>2. y = p + (r + (k - 1))
          BY <2>1, <3>2, <4>1
        <4>3. r + (k - 1) < Page
          BY <3>2, <4>1
        <4> QED BY <4>1, <4>2, <4>3
      <3>4. mem'[y] = vs[k]
        BY <1>6, <2>1, <2>2, <3>2 DEF Laid
      <3> QED BY <1>6, <3>3, <3>4
    <2>3. CASE ~(y >= a /\ y < a + n)
      BY <1>6, <2>1, <2>3 DEF Laid
    <2> QED BY <2>2, <2>3
  <1>10. ASSUME NEW R, Before(R, c, was'.used) PROVE Tree(R, mem', was'.used, was.put)
    <2>1. PICK u, put : u = was'.used /\ put = was.put
      OBVIOUS
    <2>2. IsPage(p) /\ R[p].kind = "block" /\ R[p].file = i /\ R[p].nth = Block(o)
      BY <1>0, <1>1, <1>2, <1>10 DEF Before, Holds, IsBlock
    <2>3. Tree(R, mem, u, put)
      BY <1>10, <2>1 DEF Before
    <2>4. ASSUME NEW y \in Cells
          PROVE  \/ mem'[y] = mem[y]
                 \/ \E z \in 0 .. Page - 1 :
                      y = p + z /\ <<R[p].file, Nth(R[p].nth, z), mem'[y]>> \in put
      <3>1. CASE mem'[y] = mem[y]
        BY <3>1
      <3>2. ASSUME NEW k \in 1 .. n, y = p + (r + (k - 1)), mem'[y] = buf[k],
                   r + (k - 1) \in 0 .. Page - 1, r + (k - 1) < Page
            PROVE  \E z \in 0 .. Page - 1 :
                      y = p + z /\ <<R[p].file, Nth(R[p].nth, z), mem'[y]>> \in put
        <4>1. k - 1 \in Nat
          OBVIOUS
        <4>2. Nth(Block(o), r + (k - 1)) = o + (k - 1)
          BY <1>2, <3>2, <4>1, WordOf
        <4>3. k \in 1 .. Len(buf)
          BY <1>6
        <4>4. <<i, o + (k - 1), buf[k]>> \in put
          BY <1>0, <1>2, <1>5, <2>1, <4>3 DEF BufferOK
        <4> QED BY <2>2, <3>2, <4>2, <4>4
      <3> QED BY <1>8, <3>1, <3>2
    <2>5. PICK k : k = mem'
      OBVIOUS
    <2>6. Tree(R, k, u, put)
      BY <1>6, <2>2, <2>3, <2>4, <2>5, Here, TreeBlock
    <2> QED BY <2>1, <2>5, <2>6
  <1> QED BY <1>6, <1>10

(* A get reads its next words there: they were put, or nothing was.            *)
LEMMA Fetching ==
  ASSUME Types, Flow, NEW c \in Client, Operate(c), pc[c] = "transfer", job[c].kind # "put",
         NEW res, res = Outcome(OpOf(c), mem), NEW n \in Nat, n = Span(me[c])
  PROVE  /\ mem' = mem
         /\ res.error = "OK" =>
              /\ res.result \in Seq(Nat) /\ Len(res.result) = n
              /\ \A R : Before(R, c, was'.used) =>
                   \A x \in 1 .. n :
                     \/ res.result[x] = 0
                     \/ <<me[c].ino, me[c].off + (x - 1), res.result[x]>> \in was.put
  <1>1. PICK m \in Locals : m = me[c]
    BY Here
  <1>2. PICK i \in Nat, o \in Nat, p \in Nat, r \in Nat :
          i = m.ino /\ o = m.off /\ p = m.ptr /\ r = o % Page
    <2>1. m.ino \in Nat /\ m.off \in Nat /\ m.ptr \in Nat
      BY LocalTypes
    <2>2. m.off % Page \in 0 .. Page - 1
      BY <2>1, Divided
    <2>3. m.off % Page \in Nat
      BY <2>2, Sizes
    <2> QED BY <2>1, <2>3
  <1>3. r + n <= Page
    BY <1>1, <1>2, Spans
  <1>4. PICK a \in Nat : a = p + r
    OBVIOUS
  <1>5. PICK op : op = OpOf(c) /\ op.kind = "READ" /\ op.addr = a /\ op.len = n
    BY <1>1, <1>2, <1>4 DEF OpOf, Read
  <1>6. mem' = mem
    <2>1. mem' = Effect(op, mem)
      BY <1>5, Operates
    <2> QED BY <1>5, <2>1 DEF Effect
  <1>7. ASSUME res.error = "OK"
        PROVE  /\ \A x \in 1 .. n : a + x - 1 \in Cells
               /\ res.result = [x \in 1 .. n |-> mem[a + x - 1]]
    <2>1. Width(op) = n
      BY <1>5 DEF Width
    <2>2. InBounds(op)
      BY <1>5, <1>7 DEF Outcome, Failed
    <2>3. res.result = [x \in 1 .. n |-> mem[a + x - 1]]
      BY <1>5, <2>1, <2>2 DEF Outcome, Ok
    <2>4. \A x \in 1 .. n : a + x - 1 \in Cells
      BY <1>5, <2>1, <2>2, Sizes DEF InBounds
    <2> QED BY <2>3, <2>4
  <1>8. ASSUME res.error = "OK" PROVE res.result \in Seq(Nat) /\ Len(res.result) = n
    <2>1. \A x \in 1 .. n : mem[a + x - 1] \in Nat
      BY <1>7, <1>8, Here
    <2>2. res.result \in [1 .. n -> Nat]
      BY <1>7, <1>8, <2>1
    <2>3. \A s \in [1 .. n -> Nat] : s \in Seq(Nat) /\ Len(s) = n
      OBVIOUS
    <2> QED BY <2>2, <2>3
  <1>9. ASSUME res.error = "OK", NEW R, Before(R, c, was'.used), NEW x \in 1 .. n
        PROVE  \/ res.result[x] = 0
               \/ <<i, o + (x - 1), res.result[x]>> \in was.put
    <2>0. PICK u, put : u = was'.used /\ put = was.put
      OBVIOUS
    <2>1. PICK v \in Nat : v = res.result[x]
      <3>1. res.result[x] = mem[a + x - 1] /\ a + x - 1 \in Cells
        BY <1>7, <1>9
      <3>2. res.result[x] \in Nat
        BY <3>1, Here
      <3> QED BY <3>2
    <2>2. IsPage(p) /\ R[p].kind = "block" /\ R[p].file = i /\ R[p].nth = Block(o)
      BY <1>1, <1>2, <1>9 DEF Before, Holds, IsBlock
    <2>3. Tree(R, mem, u, put) /\ mem \in [Cells -> Nat]
      BY <1>9, <2>0, Here DEF Before
    <2>4. PICK z \in 0 .. Page - 1 : z = r + (x - 1) /\ z < Page
      BY <1>3, Sizes
    <2>5. p + z \in Cells /\ mem[p + z] = v
      <3>1. a + x - 1 = p + z
        BY <1>4, <2>4
      <3>2. v = mem[a + x - 1] /\ a + x - 1 \in Cells
        BY <1>7, <1>9, <2>1
      <3> QED BY <3>1, <3>2
    <2>6. Nth(Block(o), z) = o + (x - 1)
      <3>1. x - 1 \in Nat
        OBVIOUS
      <3> QED BY <1>2, <2>4, <3>1, WordOf
    <2>7. v # 0 => <<R[p].file, Nth(R[p].nth, z), v>> \in put
      BY <2>2, <2>3, <2>5, Content
    <2> QED BY <2>0, <2>1, <2>2, <2>6, <2>7
  <1> QED BY <1>1, <1>2, <1>6, <1>8, <1>9

(* After it, access() looks for the next block or is over.                     *)
LEMMA Resuming ==
  ASSUME Types, Flow, NEW c \in Client, pc[c] = "transfer", Operate(c), mem' \in [Cells -> Nat],
         NEW n \in Nat, n <= me[c].left, NEW vs \in Seq(Nat), Len(vs) = n,
         NEW m, m = Moved(job[c], me[c], n, vs),
         \/ EndAccess(c, m, 0)
         \/ pc' = [pc EXCEPT ![c] = SlotLabel(m.off)] /\ me' = [me EXCEPT ![c] = m],
         \A R : Before(R, c, was'.used) => /\ Tree(R, mem', was'.used, was.put)
                                           /\ ReadOK(job[c], m, was.put)
  PROVE  Good(c)
  <1>1. /\ job[c] \in Jobs[c] /\ IsAccess(job[c])
        /\ BufferOK("transfer", job[c], me[c], inode[c], was.put)
    <2>1. InAccess(c)
      BY DEF InAccess
    <2> QED BY <2>1, Accessing
  <1>2. m \in Locals /\ BufferOK("transfer", job[c], m, inode[c], was.put)
    BY <1>1, Here, Advance
  <1>3. \E l \in Labels, k \in Locals :
          /\ pc' = [pc EXCEPT ![c] = l] /\ me' = [me EXCEPT ![c] = k]
          /\ CallOK(c, l, job[c], k) /\ BufferOK(l, job[c], k, inode[c], was.put)
          /\ PathOK(l, k, was'.used)
          /\ ReadOK(job[c], m, was.put) => \A R : Holds(R, c, l, job[c], k, was.put)
    <2>1. CASE EndAccess(c, m, 0)
      <3>1. PICK l, k : l = EndLabel(c, m) /\ k = Ended(c, job[c], m, 0)
        OBVIOUS
      <3>2. pc' = [pc EXCEPT ![c] = l] /\ me' = [me EXCEPT ![c] = k]
        BY <1>2, <2>1, <3>1, Ends
      <3>3. /\ l \in Labels /\ k \in Locals /\ CallOK(c, l, job[c], k)
            /\ BufferOK(l, job[c], k, inode[c], was.put) /\ PathOK(l, k, was'.used)
            /\ ReadOK(job[c], m, was.put) => \A R : Holds(R, c, l, job[c], k, was.put)
        BY <1>1, <1>2, <3>1, EndFine
      <3> QED BY <3>2, <3>3
    <2>2. CASE pc' = [pc EXCEPT ![c] = SlotLabel(m.off)] /\ me' = [me EXCEPT ![c] = m]
      <3>1. PICK l : l = SlotLabel(m.off)
        OBVIOUS
      <3>2. /\ l \in Labels /\ CallOK(c, l, job[c], m)
            /\ BufferOK(l, job[c], m, inode[c], was.put) /\ PathOK(l, m, was'.used)
            /\ ReadOK(job[c], m, was.put) => \A R : Holds(R, c, l, job[c], m, was.put)
        BY <1>1, <1>2, <3>1, Looking
      <3> QED BY <1>2, <2>2, <3>1, <3>2
    <2> QED BY <2>1, <2>2
  <1>4. PICK l \in Labels, k \in Locals :
          /\ pc' = [pc EXCEPT ![c] = l] /\ me' = [me EXCEPT ![c] = k]
          /\ CallOK(c, l, job[c], k) /\ BufferOK(l, job[c], k, inode[c], was.put)
          /\ PathOK(l, k, was'.used)
          /\ ReadOK(job[c], m, was.put) => \A R : Holds(R, c, l, job[c], k, was.put)
    BY <1>3
  <1>5. Fine(c, l, k, was'.used)
    BY <1>4 DEF Fine
  <1>6. Moves(c, l, k, mem', was'.used)
    BY <1>4, NearSame DEF Moves
  <1> QED BY <1>4, <1>5, <1>6 DEF Good

(* The transfer of one request, either way.                                  *)
LEMMA StepTransfer ==
  ASSUME Types, Flow, NEW c \in Client, Operate(c), pc[c] = "transfer"
  PROVE  Good(c)
  <1>1. PICK n \in Nat : n = Span(me[c]) /\ n <= me[c].left
    BY Here, Spans
  <1>2. PICK res : res = Outcome(OpOf(c), mem)
    OBVIOUS
  <1>3. PICK m : m = Moved(job[c], me[c], n, res.result)
    OBVIOUS
  <1>4. \/ Returns(c, Exception)
        \/ /\ res.error = "OK"
           /\ \/ EndAccess(c, m, 0)
              \/ pc' = [pc EXCEPT ![c] = SlotLabel(m.off)] /\ me' = [me EXCEPT ![c] = m]
    <2>1. Returns(c, Exception) \/ (res.error = "OK" /\ AfterTransfer(c, res.result))
      BY <1>2, Answered DEF Allocs, Finds, Sets
    <2>2. m = [me[c] EXCEPT !.off = @ + n, !.left = @ - n,
                            !.buf = IF job[c].kind = "put" THEN SubSeq(@, n + 1, Len(@)) ELSE @ \o res.result]
      BY <1>3 DEF Moved
    <2>3. AfterTransfer(c, res.result) =>
            \/ EndAccess(c, m, 0)
            \/ pc' = [pc EXCEPT ![c] = SlotLabel(m.off)] /\ me' = [me EXCEPT ![c] = m]
      BY <1>1, <2>2 DEF AfterTransfer, Goto
    <2> QED BY <2>1, <2>3
  <1>5. CASE job[c].kind = "put"
    <2>1. mem' \in [Cells -> Nat]
          /\ \A R : Before(R, c, was'.used) => Tree(R, mem', was'.used, was.put)
      BY <1>5, Storing DEF Stores
    <2>2. CASE Returns(c, Exception)
      BY <2>1, <2>2, Refusal
    <2>3. CASE EndAccess(c, m, 0)
               \/ (pc' = [pc EXCEPT ![c] = SlotLabel(m.off)] /\ me' = [me EXCEPT ![c] = m])
      <3>1. PICK vs : vs = [x \in 1 .. n |-> 0]
        OBVIOUS
      <3>2. vs \in Seq(Nat) /\ Len(vs) = n
        BY <3>1
      <3>3. m = Moved(job[c], me[c], n, vs)
        BY <1>3, <1>5 DEF Moved
      <3>4. ReadOK(job[c], m, was.put)
        BY <1>5 DEF ReadOK
      <3> QED BY <1>1, <2>1, <2>3, <3>2, <3>3, <3>4, Resuming
    <2> QED BY <1>4, <2>2, <2>3
  <1>6. CASE job[c].kind # "put"
    <2>1. /\ mem' = mem
          /\ res.error = "OK" =>
              /\ res.result \in Seq(Nat) /\ Len(res.result) = n
              /\ \A R : Before(R, c, was'.used) =>
                   \A x \in 1 .. n :
                     \/ res.result[x] = 0
                     \/ <<me[c].ino, me[c].off + (x - 1), res.result[x]>> \in was.put
      BY <1>1, <1>2, <1>6, Fetching
    <2>2. CASE Returns(c, Exception)
      BY <2>1, <2>2, Refusal, Here DEF Before
    <2>3. CASE res.error = "OK" /\ (EndAccess(c, m, 0)
               \/ (pc' = [pc EXCEPT ![c] = SlotLabel(m.off)] /\ me' = [me EXCEPT ![c] = m]))
      <3>1. /\ job[c] \in Jobs[c] /\ IsAccess(job[c])
            /\ BufferOK("transfer", job[c], me[c], inode[c], was.put)
        <4>1. InAccess(c)
          BY DEF InAccess
        <4> QED BY <4>1, Accessing
      <3>2. ASSUME NEW R, Before(R, c, was'.used)
            PROVE  Tree(R, mem', was'.used, was.put) /\ ReadOK(job[c], m, was.put)
        <4>1. ReadOK(job[c], me[c], was.put) /\ Tree(R, mem', was'.used, was.put)
          BY <2>1, <3>2 DEF Before, Holds
        <4>2. me[c] \in Locals
          BY Here
        <4>3. PICK vs \in Seq(Nat) : vs = res.result /\ Len(vs) = n
          BY <2>1, <2>3
        <4>6. PICK put : put = was.put
          OBVIOUS
        <4>4. \A x \in 1 .. n : vs[x] = 0 \/ <<me[c].ino, me[c].off + (x - 1), vs[x]>> \in put
          BY <2>1, <2>3, <3>2, <4>3, <4>6
        <4>5. ReadOK(job[c], m, put)
          BY <1>1, <1>3, <3>1, <4>1, <4>2, <4>3, <4>4, <4>6, Advance
        <4> QED BY <4>1, <4>5, <4>6
      <3>3. mem' \in [Cells -> Nat]
        BY <2>1, Here
      <3> QED BY <1>1, <1>3, <2>1, <2>3, <3>2, <3>3, Resuming
    <2> QED BY <1>4, <2>2, <2>3
  <1> QED BY <1>5, <1>6

-------------------------------------------------------------------------------
(* Every operation leads to where the invariant says.                          *)
LEMMA Progress ==
  ASSUME Types, Flow, NEW c \in Client, Operate(c)
  PROVE  Good(c)
  <1>1. pc[c] \in Labels /\ Working(c) /\ pc[c] \notin {"publish", "lookup"}
    BY Operates DEF Types
  <1>2. \/ pc[c] \in {"setLen", "getLen", "length", "transfer"}
        \/ pc[c] \in {"allocRead", "allocCas", "direct", "l2", "l3", "leaf"}
        \/ pc[c] \in {"setDirect", "setL2", "makeL2", "setL3", "makeL3", "setLeaf"}
    BY <1>1 DEF Labels, Plain, Allocs, Sets, Finds, Working
  <1>3. CASE pc[c] \in {"setLen", "getLen", "length", "transfer"}
    BY <1>3, StepSetLen, StepGetLen, StepLength, StepTransfer
  <1>4. CASE pc[c] \in {"allocRead", "allocCas", "direct", "l2", "l3", "leaf"}
    BY <1>4, StepAllocRead, StepAllocCas, StepDirect, StepL2, StepL3, StepLeaf
  <1>5. CASE pc[c] \in {"setDirect", "setL2", "makeL2", "setL3", "makeL3", "setLeaf"}
    BY <1>5, StepSetDirect, StepSetL2, StepMakeL2, StepSetL3, StepMakeL3, StepSetLeaf
  <1> QED BY <1>2, <1>3, <1>4, <1>5

(* What was overlaid stays so.                                                 *)
LEMMA Overlays ==
  ASSUME NEW used, NEW more, used \subseteq more, Mixed(used)
  PROVE  Mixed(more)
  BY DEF Mixed

(* An operation keeps the invariant.                                           *)
LEMMA OperateInv ==
  ASSUME IInv, NEW c \in Client, Operate(c)
  PROVE  IInv'
  <1>1. /\ Types /\ Flow
        /\ names' = names /\ job' = job /\ inode' = inode /\ jobs' = jobs
        /\ holder' \in {holder, Nobody} /\ was'.put = was.put /\ was.used \subseteq was'.used
        /\ was' = [used |-> was'.used, put |-> was'.put, last |-> was'.last, lost |-> was'.lost]
    BY Operates DEF IInv
  <1>2. Good(c)
    BY <1>1, Progress
  <1>3. PICK l, m : /\ pc' = [pc EXCEPT ![c] = l] /\ me' = [me EXCEPT ![c] = m]
                    /\ mem' \in [Cells -> Nat] /\ Fine(c, l, m, was'.used)
                    /\ Moves(c, l, m, mem', was'.used)
    BY <1>2 DEF Good
  <1>4. /\ l \in Labels /\ m \in Locals
        /\ CallOK(c, l, job[c], m) /\ BufferOK(l, job[c], m, inode[c], was.put)
        /\ PathOK(l, m, was'.used)
    BY <1>3 DEF Fine
  <1>5. /\ pc'[c] = l /\ me'[c] = m
        /\ \A d \in Client : d # c => pc'[d] = pc[d] /\ me'[d] = me[d]
    BY <1>1, <1>3 DEF Types
  <1>6. Types'
    BY <1>1, <1>3, <1>4 DEF Types
  <1>7. Flow'
    <2>1. ASSUME NEW d \in Client PROVE FlowAt(d)'
      <3>1. CASE d = c
        BY <1>1, <1>4, <1>5, <3>1 DEF FlowAt
      <3>2. CASE d # c
        <4>1. /\ CallOK(d, pc[d], job[d], me[d])
              /\ BufferOK(pc[d], job[d], me[d], inode[d], was.put)
              /\ PathOK(pc[d], me[d], was.used)
          BY <1>1 DEF Flow, FlowAt
        <4>2. PathOK(pc[d], me[d], was'.used)
          BY <1>1, <4>1, PathGrows
        <4> QED BY <1>1, <1>5, <3>2, <4>1, <4>2 DEF FlowAt
      <3> QED BY <3>1, <3>2
    <2> QED BY <2>1 DEF Flow
  <1>8. ASSUME ~Overlaid' PROVE \E S : Sound(S)'
    <2>1. PICK u, put, k : u = was'.used /\ put = was.put /\ k = mem'
      OBVIOUS
    <2>2. ~Mixed(u) /\ was.used \subseteq u
      BY <1>1, <1>8, <2>1 DEF Overlaid, Mixed
    <2>3. ~Overlaid
      <3>1. ~Mixed(was.used)
        BY <2>2, Overlays
      <3> QED BY <3>1 DEF Overlaid, Mixed
    <2>4. PICK R : Sound(R)
      BY <2>3 DEF IInv
    <2>5. /\ Tree(R, mem, was.used, put) /\ Lists(R)
          /\ \A d \in Client : Holds(R, d, pc[d], job[d], me[d], put)
      BY <2>1, <2>4 DEF Sound
    <2>6. Tree(R, mem, u, put)
      BY <2>2, <2>5, TreeGrows
    <2>7. Before(R, c, u)
      BY <2>1, <2>2, <2>5, <2>6 DEF Before
    <2>8. PICK S : Tree(S, k, u, put) /\ Near(R, S, c) /\ Holds(S, c, l, job[c], m, put)
      BY <1>3, <2>1, <2>7 DEF Moves
    <2>9. /\ \A f \in Name : IsInode(S, names[f])
          /\ \A d \in Client : IsInode(S, inode[d])
          /\ \A x \in was.last : IsInode(S, x[1])
      BY <2>5, <2>8, NearInode DEF Lists
    <2>12. ASSUME NEW x \in was'.last PROVE IsInode(S, x[1])
      <3>1. CASE x \in was.last
        BY <2>9, <3>1
      <3>2. CASE x \notin was.last
        <4>1. Stores(c) /\ x \in Written(c)
          BY <1>1, <3>2, Recorded
        <4>2. x[1] = me[c].ino
          BY <4>1 DEF Written
        <4>3. InAccess(c)
          BY <4>1 DEF Stores, InAccess
        <4>4. x[1] = inode[c]
          BY <1>1, <4>2, <4>3, Accessing
        <4> QED BY <2>9, <4>4
      <3> QED BY <3>1, <3>2
    <2>10. ASSUME NEW d \in Client PROVE Holds(S, d, pc'[d], job[d], me'[d], put)
      <3>1. CASE d = c
        BY <1>5, <2>8, <3>1
      <3>2. CASE d # c
        <4>1. Holds(R, d, pc[d], job[d], me[d], put) /\ put \subseteq put
          BY <2>5
        <4>2. Holds(S, d, pc[d], job[d], me[d], put)
          BY <2>8, <3>2, <4>1, NearHolds
        <4> QED BY <1>5, <3>2, <4>2
      <3> QED BY <3>1, <3>2
    <2>11. Sound(S)'
      BY <1>1, <2>1, <2>8, <2>9, <2>10, <2>12 DEF Sound, Lists
    <2> QED BY <2>11
  <1> QED BY <1>6, <1>7, <1>8 DEF IInv

(* More words may be put.                                                      *)
LEMMA TreePut ==
  ASSUME NEW R, NEW m, NEW used, NEW put, NEW more, put \subseteq more, Tree(R, m, used, put)
  PROVE  Tree(R, m, used, more)
  BY DEF Tree, WordOK

(* What a store has read was still put there.                                *)
LEMMA HoldsPut ==
  ASSUME NEW R, NEW c, NEW l, NEW j, NEW m, NEW put, NEW more, put \subseteq more,
         Holds(R, c, l, j, m, put)
  PROVE  Holds(R, c, l, j, m, more)
  <1>1. ReadOK(j, m, put) => ReadOK(j, m, more)
    BY DEF ReadOK
  <1> QED BY <1>1 DEF Holds

(* What a put has left to store was still offered.                           *)
LEMMA BufferPut ==
  ASSUME NEW l, NEW j, NEW m, NEW i, NEW put, NEW more, put \subseteq more, BufferOK(l, j, m, i, put)
  PROVE  BufferOK(l, j, m, i, more)
  BY DEF BufferOK

(* A step of c that leaves memory alone keeps the invariant if it does so for  *)
(* c, for the names and for the inode that c's user has.                       *)
LEMMA ElseInv ==
  ASSUME IInv, NEW c \in Client, mem' = mem, was'.used = was.used, was'.last = was.last,
         was.put \subseteq was'.put, Types', FlowAt(c)',
         \A d \in Client : d # c => /\ pc'[d] = pc[d] /\ me'[d] = me[d]
                                    /\ job'[d] = job[d] /\ inode'[d] = inode[d],
         \A R : Sound(R) => /\ \A f \in Name : IsInode(R, names'[f])
                            /\ IsInode(R, inode'[c])
                            /\ Holds(R, c, pc'[c], job'[c], me'[c], was'.put)
  PROVE  IInv'
  <1>1. Flow'
    <2>1. ASSUME NEW d \in Client PROVE FlowAt(d)'
      <3>1. CASE d = c
        BY <3>1
      <3>2. CASE d # c
        <4>1. /\ CallOK(d, pc[d], job[d], me[d])
              /\ BufferOK(pc[d], job[d], me[d], inode[d], was.put)
              /\ PathOK(pc[d], me[d], was.used)
          BY DEF IInv, Flow, FlowAt
        <4>2. BufferOK(pc[d], job[d], me[d], inode[d], was'.put)
          BY <4>1, BufferPut
        <4> QED BY <3>2, <4>1, <4>2 DEF FlowAt
      <3> QED BY <3>1, <3>2
    <2> QED BY <2>1 DEF Flow
  <1>2. ASSUME ~Overlaid' PROVE \E S : Sound(S)'
    <2>1. ~Overlaid
      BY <1>2 DEF Overlaid
    <2>2. PICK R : Sound(R)
      BY <2>1 DEF IInv
    <2>3. PICK put, more : put = was.put /\ more = was'.put /\ put \subseteq more
      OBVIOUS
    <2>4. /\ Tree(R, mem, was.used, put) /\ Lists(R)
          /\ \A d \in Client : Holds(R, d, pc[d], job[d], me[d], put)
      BY <2>2, <2>3 DEF Sound
    <2>5. Tree(R, mem, was.used, more)
      BY <2>3, <2>4, TreePut
    <2>6. /\ \A f \in Name : IsInode(R, names'[f])
          /\ \A d \in Client : IsInode(R, inode'[d])
          /\ \A x \in was'.last : IsInode(R, x[1])
      BY <2>2, <2>4 DEF Lists
    <2>7. ASSUME NEW d \in Client PROVE Holds(R, d, pc'[d], job'[d], me'[d], more)
      <3>1. CASE d = c
        BY <2>2, <2>3, <3>1
      <3>2. CASE d # c
        <4>1. Holds(R, d, pc[d], job[d], me[d], more)
          BY <2>3, <2>4, HoldsPut
        <4> QED BY <3>2, <4>1
      <3> QED BY <3>1, <3>2
    <2>8. Sound(R)'
      BY <2>3, <2>5, <2>6, <2>7 DEF Sound, Lists
    <2> QED BY <2>8
  <1> QED BY <1>1, <1>2 DEF IInv

(* The user goes on with an inode of the tree.                               *)
LEMMA ReturnInv ==
  ASSUME IInv, NEW c \in Client, Return(c)
  PROVE  IInv'
  <1>1. Types /\ FlowAt(c) /\ pc[c] = "return"
    BY DEF IInv, Flow, Return
  <1>2. /\ pc' = [pc EXCEPT ![c] = "ready"] /\ job' = [job EXCEPT ![c] = NoJob]
        /\ me' = [me EXCEPT ![c] = NoLocals]
        /\ UNCHANGED <<mem, names, holder, jobs, was>>
        /\ \/ /\ job[c].kind \in {"create", "lookup"} /\ me[c].result > 0
              /\ inode' = [inode EXCEPT ![c] = me[c].result]
           \/ inode' = inode
    BY DEF Return, Goto
  <1>3. NoLocals \in Locals
    BY DEF NoLocals, Locals
  <1>4. me[c].result > 0 => me[c].result \in Nat \ {0}
    <2>1. me[c].result \in Nat \cup {Refused, Exception}
      BY <1>1, LocalTypes DEF Types
    <2> QED BY <2>1 DEF Refused, Exception
  <1>5. Types'
    <2>1. inode' \in [Client -> Nat \ {0}]
      BY <1>1, <1>2, <1>4 DEF Types
    <2> QED BY <1>1, <1>2, <1>3, <2>1 DEF Types, Labels
  <1>6. pc'[c] = "ready" /\ job'[c] = NoJob /\ me'[c] = NoLocals
    BY <1>1, <1>2 DEF Types
  <1>7. FlowAt(c)'
    <2>1. CallOK(c, "ready", NoJob, NoLocals)
      BY DEF CallOK, Finds, Sets, Allocs, NoJob, NoLocals
    <2>2. \A i, put : BufferOK("ready", NoJob, NoLocals, i, put)
      BY DEF BufferOK, NoJob, IsAccess
    <2>3. \A used : PathOK("ready", NoLocals, used)
      BY DEF PathOK, Sets, Allocs, Late
    <2> QED BY <1>6, <2>1, <2>2, <2>3 DEF FlowAt
  <1>8. ASSUME NEW R, Sound(R)
        PROVE  /\ \A f \in Name : IsInode(R, names'[f])
               /\ IsInode(R, inode'[c])
               /\ Holds(R, c, pc'[c], job'[c], me'[c], was'.put)
    <2>1. Lists(R) /\ Holds(R, c, "return", job[c], me[c], was.put)
      BY <1>1, <1>8 DEF Sound
    <2>2. IsInode(R, inode'[c])
      BY <1>1, <1>2, <2>1 DEF Lists, Holds, Types
    <2>3. \A put : Holds(R, c, "ready", NoJob, NoLocals, put)
      BY DEF Holds, ReadOK, NoJob, Sets, Allocs, Late
    <2> QED BY <1>2, <1>6, <2>1, <2>2, <2>3 DEF Lists
  <1>9. \A d \in Client : d # c => /\ pc'[d] = pc[d] /\ me'[d] = me[d]
                                   /\ job'[d] = job[d] /\ inode'[d] = inode[d]
    BY <1>1, <1>2 DEF Types
  <1> QED BY <1>2, <1>5, <1>7, <1>8, <1>9, ElseInv

(* The table holds inodes of the tree, and answers with one.                 *)
LEMMA TableInv ==
  ASSUME IInv, NEW c \in Client, Table(c)
  PROVE  IInv'
  <1>1. Types /\ FlowAt(c) /\ pc[c] \in {"publish", "lookup"}
    BY DEF IInv, Flow, Table
  <1>2. job[c] \in Jobs[c] /\ job[c].kind = IF pc[c] = "publish" THEN "create" ELSE "lookup"
    BY <1>1 DEF FlowAt, CallOK
  <1>3. job[c].name \in Name
    BY <1>2, JobTypes
  <1>4. PICK f \in Name, i \in Nat, v \in Nat :
          /\ f = job[c].name /\ i = me[c].ino
          /\ v = IF pc[c] = "publish" THEN i ELSE names[f]
    <2>1. me[c].ino \in Nat /\ names[job[c].name] \in Nat
      BY <1>1, <1>3, LocalTypes DEF Types
    <2> QED BY <1>3, <2>1
  <1>5. names' \in [Name -> Nat] /\ names' = [names EXCEPT ![f] = v]
    BY <1>1, <1>4 DEF Types, Table
  <1>6. PICK m : m = [me[c] EXCEPT !.result = v]
    OBVIOUS
  <1>7. /\ pc' = [pc EXCEPT ![c] = "return"] /\ me' = [me EXCEPT ![c] = m]
        /\ holder' = Nobody /\ UNCHANGED <<mem, job, inode, jobs, was>>
    <2>1. names'[f] = v
      BY <1>1, <1>5 DEF Types
    <2> QED BY <1>1, <1>4, <1>6, <2>1, Setting DEF Table, Returns, Goto
  <1>8. m \in Locals /\ m.result = v /\ m.ino = i
    <2>1. me[c] \in Locals
      BY <1>1 DEF Types
    <2> QED BY <1>4, <1>6, <2>1 DEF Locals
  <1>9. Types'
    BY <1>1, <1>5, <1>7, <1>8 DEF Types, Labels, Plain
  <1>10. pc'[c] = "return" /\ job'[c] = job[c] /\ me'[c] = m
    BY <1>1, <1>7 DEF Types
  <1>11. FlowAt(c)'
    <2>1. CallOK(c, "return", job[c], m)
      BY <1>2 DEF CallOK, Finds, Sets, Allocs
    <2>2. BufferOK("return", job[c], m, inode[c], was.put)
      <3>1. pc[c] = "lookup" => i = inode[c]
        BY <1>1, <1>2, <1>4 DEF FlowAt, BufferOK
      <3> QED BY <1>1, <1>2, <1>8, <3>1 DEF BufferOK, IsAccess
    <2>3. \A used : PathOK("return", m, used)
      BY DEF PathOK, Sets, Allocs, Late
    <2> QED BY <1>7, <1>10, <2>1, <2>2, <2>3 DEF FlowAt
  <1>12. ASSUME NEW R, Sound(R)
         PROVE  /\ \A g \in Name : IsInode(R, names'[g])
                /\ IsInode(R, inode'[c])
                /\ Holds(R, c, pc'[c], job'[c], me'[c], was'.put)
    <2>1. Lists(R) /\ Holds(R, c, pc[c], job[c], me[c], was.put)
      BY <1>1, <1>12 DEF Sound
    <2>2. IsInode(R, v)
      BY <1>1, <1>4, <2>1 DEF Lists, Holds
    <2>3. \A g \in Name : IsInode(R, names'[g])
      BY <1>1, <1>5, <2>1, <2>2 DEF Lists, Types
    <2>4. Holds(R, c, "return", job[c], m, was.put)
      BY <1>2, <1>8, <2>2 DEF Holds, ReadOK, Sets, Allocs, Late
    <2> QED BY <1>7, <1>10, <2>1, <2>3, <2>4 DEF Lists
  <1>13. \A d \in Client : d # c => /\ pc'[d] = pc[d] /\ me'[d] = me[d]
                                    /\ job'[d] = job[d] /\ inode'[d] = inode[d]
    BY <1>1, <1>7 DEF Types
  <1> QED BY <1>7, <1>9, <1>11, <1>12, <1>13, ElseInv

(* The first label of a call: one that allocates does so for its inode.        *)
LEMMA Starting ==
  ASSUME NEW c \in Client, NEW j \in Jobs[c], NEW m, j.kind = "create" => m.for = "inode", NEW l,
         l = FirstLabel(j) \/ (l = "queued" /\ c \in Active)
  PROVE  /\ l \in Labels /\ l # "ready" /\ CallOK(c, l, j, m)
         /\ \A used : PathOK(l, m, used)
         /\ \A R, put : ReadOK(j, m, put) => Holds(R, c, l, j, m, put)
  <1>1. \/ l = "allocRead" /\ j.kind = "create"
        \/ l = "lookup" /\ j.kind = "lookup"
        \/ l \in {"setLen", "getLen"} /\ j.kind = l
        \/ l = "length" /\ IsAccess(j)
        \/ l = "queued" /\ c \in Active
    <2>1. j.kind \in {"create", "lookup", "setLen", "getLen", "put", "get"}
      BY JobTypes
    <2>2. /\ j.kind = "create" => FirstLabel(j) = "allocRead"
          /\ j.kind = "lookup" => FirstLabel(j) = "lookup"
          /\ j.kind = "setLen" => FirstLabel(j) = "setLen"
          /\ j.kind = "getLen" => FirstLabel(j) = "getLen"
          /\ j.kind \in {"put", "get"} => FirstLabel(j) = "length"
      BY DEF FirstLabel, IsAccess
    <2> QED BY <2>1, <2>2 DEF IsAccess
  <1>2. l \in Labels /\ l # "ready"
    BY <1>1 DEF Labels, Plain, Allocs
  <1>3. CallOK(c, l, j, m)
    BY <1>1 DEF CallOK, Finds, Sets, Allocs
  <1>4. \A used : PathOK(l, m, used)
    BY <1>1 DEF PathOK, Sets, Allocs, Late
  <1>5. \A R, put : ReadOK(j, m, put) => Holds(R, c, l, j, m, put)
    BY <1>1 DEF Holds, Sets, Allocs, Late
  <1> QED BY <1>2, <1>3, <1>4, <1>5

(* The server takes a request: the call starts at its first label.           *)
LEMMA RunInv ==
  ASSUME IInv, NEW c \in Client, Run(c)
  PROVE  IInv'
  <1>1. PICK l, j, m : l = FirstLabel(job[c]) /\ j = job[c] /\ m = me[c]
    OBVIOUS
  <1>2. Types /\ FlowAt(c) /\ pc[c] = "queued"
    BY DEF IInv, Flow, Run
  <1>3. c \in Active /\ j \in Jobs[c] /\ (j.kind = "create" => m.for = "inode")
    BY <1>1, <1>2 DEF FlowAt, CallOK
  <1>4. /\ l \in Labels /\ l # "ready" /\ CallOK(c, l, j, m)
        /\ \A used : PathOK(l, m, used)
        /\ \A R, put : ReadOK(j, m, put) => Holds(R, c, l, j, m, put)
    BY <1>1, <1>3, Starting
  <1>5. /\ holder' = c /\ pc' = [pc EXCEPT ![c] = l]
        /\ UNCHANGED <<mem, names, job, me, inode, jobs, was>>
    BY <1>1 DEF Run, Goto
  <1>6. Types'
    BY <1>2, <1>3, <1>4, <1>5 DEF Types
  <1>7. pc'[c] = l /\ job'[c] = j /\ me'[c] = m
    BY <1>1, <1>2, <1>5 DEF Types
  <1>8. FlowAt(c)'
    <2>1. BufferOK(l, j, m, inode[c], was.put)
      BY <1>1, <1>2, <1>4 DEF FlowAt, BufferOK
    <2> QED BY <1>4, <1>5, <1>7, <2>1 DEF FlowAt
  <1>9. ASSUME NEW R, Sound(R)
        PROVE  /\ \A f \in Name : IsInode(R, names'[f])
               /\ IsInode(R, inode'[c])
               /\ Holds(R, c, pc'[c], job'[c], me'[c], was'.put)
    <2>1. Lists(R) /\ Holds(R, c, pc[c], j, m, was.put)
      BY <1>1, <1>9 DEF Sound
    <2>2. Holds(R, c, l, j, m, was.put)
      BY <1>4, <2>1 DEF Holds
    <2> QED BY <1>5, <1>7, <2>1, <2>2 DEF Lists
  <1>10. \A d \in Client : d # c => /\ pc'[d] = pc[d] /\ me'[d] = me[d]
                                    /\ job'[d] = job[d] /\ inode'[d] = inode[d]
    BY <1>2, <1>5 DEF Types
  <1> QED BY <1>5, <1>6, <1>8, <1>9, <1>10, ElseInv

(* The locals a call starts with.                                              *)
Started(c, i, j) ==
  LET n == IF IsAccess(j) THEN Words(j) ELSE 0 IN
  [NoLocals EXCEPT !.ino = i, !.off = IF IsAccess(j) THEN j.off ELSE 0,
                   !.left = NextChunk(c, n), !.rest = n - NextChunk(c, n),
                   !.buf = IF j.kind = "put" THEN j.values ELSE <<>>]
(* They have their types, and the buffer is in step.                         *)
LEMMA Starts ==
  ASSUME NEW c \in Client, NEW j \in Jobs[c], NEW i \in Nat, NEW put,
         j.kind = "put" => \A n \in DOMAIN j.values : <<i, j.off + n - 1, j.values[n]>> \in put,
         NEW m, m = Started(c, i, j)
  PROVE  /\ m \in Locals /\ m.for = "inode" /\ ReadOK(j, m, put)
         /\ \A l : BufferOK(l, j, m, i, put)
  <1>1. PICK n \in Nat : n = IF IsAccess(j) THEN Words(j) ELSE 0
    BY JobTypes DEF IsAccess, Words
  <1>2. PICK x \in Nat : x = NextChunk(c, n) /\ x <= n
    BY Chunks
  <1>3. n - x \in Nat
    BY <1>2
  <1>4. PICK o \in Nat, buf \in Seq(Nat) : /\ o = IF IsAccess(j) THEN j.off ELSE 0
                                           /\ buf = IF j.kind = "put" THEN j.values ELSE <<>>
    <2>1. /\ j.kind = "put" => j.off \in Nat /\ j.values \in Seq(Nat)
          /\ j.kind = "get" => j.off \in Nat
      BY JobTypes
    <2>2. <<>> \in Seq(Nat) /\ 0 \in Nat
      OBVIOUS
    <2> QED BY <2>1, <2>2 DEF IsAccess
  <1>5. m = [NoLocals EXCEPT !.ino = i, !.off = o, !.left = x, !.rest = n - x, !.buf = buf]
    BY <1>1, <1>2, <1>4 DEF Started
  <1>6. /\ m \in Locals /\ m.for = "inode" /\ m.ino = i /\ m.off = o /\ m.left = x
        /\ m.rest = n - x /\ m.buf = buf
    <2>1. m = [ino |-> i, off |-> o, left |-> x, rest |-> n - x, buf |-> buf, ptr |-> 0,
               l2 |-> 0, l3 |-> 0, page |-> 0, for |-> "inode", result |-> 0]
      BY <1>5 DEF NoLocals
    <2> QED BY <1>3, <2>1 DEF Locals
  <1>7. ReadOK(j, m, put)
    BY <1>4, <1>6 DEF ReadOK
  <1>8. ASSUME IsAccess(j) PROVE m.off + m.left + m.rest <= Limit
    <2>1. o + n <= Limit
      BY <1>1, <1>4, <1>8, JobTypes DEF IsAccess, Words
    <2>2. o + x + (n - x) = o + n
      BY <1>2
    <2> QED BY <1>6, <2>1, <2>2
  <1>9. ASSUME j.kind = "put"
        PROVE  /\ Len(m.buf) = m.left + m.rest
               /\ \A k \in 1 .. Len(m.buf) : <<m.ino, m.off + (k - 1), m.buf[k]>> \in put
    <2>1. IsAccess(j) /\ n = Len(buf) /\ buf = j.values /\ o = j.off
      BY <1>1, <1>4, <1>9 DEF IsAccess, Words
    <2>2. x + (n - x) = n
      BY <1>2
    <2>3. ASSUME NEW k \in 1 .. n PROVE <<i, o + (k - 1), buf[k]>> \in put
      <3>1. k \in DOMAIN j.values
        BY <2>1
      <3>2. <<i, o + k - 1, buf[k]>> \in put
        BY <1>9, <2>1, <3>1
      <3>3. o + k - 1 = o + (k - 1)
        OBVIOUS
      <3> QED BY <3>2, <3>3
    <2> QED BY <1>6, <2>1, <2>2, <2>3
  <1>10. j.kind = "get" => m.off = j.off + Len(m.buf)
    BY <1>4, <1>6, JobTypes DEF IsAccess
  <1>11. \A l : BufferOK(l, j, m, i, put)
    BY <1>6, <1>8, <1>9, <1>10 DEF BufferOK
  <1> QED BY <1>6, <1>7, <1>11

(* A new call starts with an inode of the tree and its own words.            *)
LEMMA CallInv ==
  ASSUME IInv, NEW c \in Client, Call(c)
  PROVE  IInv'
  <1>1. Types /\ pc[c] = "ready" /\ jobs[c] < MaxJobs[c]
    BY DEF IInv, Call
  <1>2. PICK j \in Jobs[c] :
          /\ job' = [job EXCEPT ![c] = j]
          /\ pc' = [pc EXCEPT ![c] = IF c \in Active THEN "queued" ELSE FirstLabel(j)]
          /\ me' = [me EXCEPT ![c] = Started(c, inode[c], j)]
          /\ was' = IF j.kind = "put"
                    THEN [was EXCEPT !.put = @ \cup {<<inode[c], j.off + n - 1, j.values[n]>> :
                                                       n \in DOMAIN j.values}]
                    ELSE was
          /\ jobs' = [jobs EXCEPT ![c] = @ + 1]
          /\ UNCHANGED <<mem, names, holder, inode>>
    BY DEF Call, Goto, Started
  <1>3. PICK l, m : /\ l = IF c \in Active THEN "queued" ELSE FirstLabel(j)
                    /\ m = Started(c, inode[c], j)
    OBVIOUS
  <1>4. PICK i \in Nat : i = inode[c]
    BY <1>1 DEF Types
  <1>5. was.put \subseteq was'.put /\ was'.used = was.used /\ was'.last = was.last
        /\ was' = [used |-> was'.used, put |-> was'.put, last |-> was'.last, lost |-> was'.lost]
    BY <1>1, <1>2 DEF Types
  <1>6. j.kind = "put" => \A n \in DOMAIN j.values : <<i, j.off + n - 1, j.values[n]>> \in was'.put
    BY <1>1, <1>2, <1>4 DEF Types
  <1>7. /\ m \in Locals /\ m.for = "inode" /\ ReadOK(j, m, was'.put)
        /\ \A h : BufferOK(h, j, m, i, was'.put)
    BY <1>3, <1>4, <1>6, Starts
  <1>8. /\ l \in Labels /\ l # "ready" /\ CallOK(c, l, j, m)
        /\ \A used : PathOK(l, m, used)
        /\ \A R, put : ReadOK(j, m, put) => Holds(R, c, l, j, m, put)
    BY <1>3, <1>7, Starting
  <1>9. pc' = [pc EXCEPT ![c] = l] /\ me' = [me EXCEPT ![c] = m]
    BY <1>2, <1>3
  <1>10. jobs' \in [Client -> Nat] /\ \A d \in Client : jobs'[d] \in 0 .. MaxJobs[d]
    <2>1. MaxJobs[c] \in Nat /\ jobs[c] \in Nat
      BY <1>1, InodeStoreAssumption DEF Types
    <2>2. jobs[c] + 1 \in 0 .. MaxJobs[c] /\ jobs[c] + 1 \in Nat
      BY <1>1, <2>1
    <2> QED BY <1>1, <1>2, <2>2 DEF Types
  <1>11. Types'
    <2>1. job' \in [Client -> AllJobs \cup {NoJob}]
      BY <1>1, <1>2 DEF Types, AllJobs
    <2> QED BY <1>1, <1>2, <1>5, <1>7, <1>8, <1>9, <1>10, <2>1 DEF Types
  <1>12. pc'[c] = l /\ job'[c] = j /\ me'[c] = m
    BY <1>1, <1>2, <1>9 DEF Types
  <1>13. FlowAt(c)'
    BY <1>2, <1>4, <1>7, <1>8, <1>12 DEF FlowAt
  <1>14. ASSUME NEW R, Sound(R)
         PROVE  /\ \A f \in Name : IsInode(R, names'[f])
                /\ IsInode(R, inode'[c])
                /\ Holds(R, c, pc'[c], job'[c], me'[c], was'.put)
    BY <1>2, <1>7, <1>8, <1>12, <1>14 DEF Sound, Lists
  <1>15. \A d \in Client : d # c => /\ pc'[d] = pc[d] /\ me'[d] = me[d]
                                    /\ job'[d] = job[d] /\ inode'[d] = inode[d]
    BY <1>1, <1>2, <1>9 DEF Types
  <1> QED BY <1>2, <1>5, <1>11, <1>13, <1>14, <1>15, ElseInv

(* At first the pages below the counter are the inodes of the names.           *)
LEMMA FirstPages ==
  ASSUME NEW n \in Nat
  PROVE  IsPage(1 + Page * n) /\ 1 + Page * n \in Nat
  <1>1. PICK k \in Nat : k = n * Page /\ k = Page * n
    BY Sizes
  <1>2. PICK p \in Nat : p = k + 1 /\ p = 1 + Page * n
    BY <1>1
  <1>3. Block(p) \in Nat /\ p % Page \in 0 .. Page - 1 /\ p = Block(p) * Page + (p % Page)
    BY Divided
  <1>4. 1 \in 0 .. Page - 1
    BY Sizes
  <1>5. n * Page + 1 = Block(p) * Page + (p % Page)
    BY <1>1, <1>2, <1>3
  <1>6. p % Page = 1
    BY <1>3, <1>4, <1>5, DividedOnce
  <1> QED BY <1>2, <1>6 DEF IsPage

(* The invariant holds at first.                                             *)
LEMMA InitInv ==
  ASSUME Init
  PROVE  IInv
  <1>1. PICK k \in Nat : k = Cardinality(Name)
    BY InodeStoreAssumption, FS_CardinalityType
  <1>2. PICK first \in Nat : first = 1 + Page * k
    BY Sizes
  <1>3. \A f \in Name : names[f] \in Nat /\ IsPage(names[f]) /\ names[f] < first
    <2>1. ASSUME NEW f \in Name PROVE names[f] \in Nat /\ IsPage(names[f]) /\ names[f] < first
      <3>1. PICK n \in 0 .. k - 1 : names[f] = 1 + Page * n
        BY <1>1 DEF Init
      <3>2. n \in Nat /\ k = n + 1 + (k - n - 1) /\ k - n - 1 \in Nat
        OBVIOUS
      <3>3. Page * k = Page * n + Page + Page * (k - n - 1)
        BY <3>2, Sizes
      <3>4. Page * (k - n - 1) \in Nat /\ Page * n \in Nat
        BY <3>2, Sizes
      <3>5. names[f] < first
        BY <1>2, <3>1, <3>3, <3>4, Sizes
      <3> QED BY <3>1, <3>2, <3>5, FirstPages
    <2> QED BY <2>1
  <1>4. names \in [Name -> Nat]
    BY <1>3 DEF Init
  <1>5. mem \in [Cells -> Nat] /\ mem[0] = first
        /\ \A a \in Cells : a # 0 /\ mem[a] # 0 => \E f \in Name : names[f] = a
    <2>1. InitLen \in Nat
      BY InodeStoreAssumption
    <2> QED BY <1>1, <1>2, <2>1, Sizes DEF Init
  <1>6. \A c \in Client : inode[c] \in Nat \ {0} /\ \E f \in Name : names[f] = inode[c]
    <2>1. \A f \in Name : names[f] # 0
      BY <1>3, NextPage
    <2> QED BY <1>3, <2>1 DEF Init
  <1>7. NoLocals \in Locals
    BY DEF NoLocals, Locals
  <1>8. Types
    <2>1. \A c \in Client : 0 \in 0 .. MaxJobs[c]
      BY InodeStoreAssumption
    <2>2. inode \in [Client -> Nat \ {0}]
      BY <1>6 DEF Init
    <2> QED BY <1>4, <1>5, <1>7, <2>1, <2>2 DEF Init, Types, Labels
  <1>9. ASSUME NEW c \in Client PROVE pc[c] = "ready" /\ job[c] = NoJob /\ me[c] = NoLocals
    BY DEF Init
  <1>10. Flow
    <2>1. \A c : CallOK(c, "ready", NoJob, NoLocals)
      BY DEF CallOK, Finds, Sets, Allocs, NoJob, NoLocals
    <2>2. \A i, put : BufferOK("ready", NoJob, NoLocals, i, put)
      BY DEF BufferOK, NoJob, IsAccess
    <2>3. \A used : PathOK("ready", NoLocals, used)
      BY DEF PathOK, Sets, Allocs, Late
    <2> QED BY <1>9, <2>1, <2>2, <2>3 DEF Flow, FlowAt
  <1>11. PICK R : R = [p \in Nat |-> IF \E f \in Name : names[f] = p THEN Inode ELSE Free]
    OBVIOUS
  <1>12. \A p \in Nat : /\ (\E f \in Name : names[f] = p) => R[p] = Inode
                        /\ p >= first => R[p] = Free
    BY <1>2, <1>3, <1>11
  <1>13. Lists(R)
    <2>1. was.last = {}
      BY DEF Init
    <2> QED BY <1>3, <1>6, <1>12, <2>1 DEF Lists, IsInode
  <1>14. Tree(R, mem, was.used, was.put)
    <2>1. IsPage(mem[0])
      BY <1>1, <1>2, <1>5, FirstPages
    <2>2. ASSUME NEW p \in Nat, NEW n \in 0 .. Page - 1, IsPage(p), p + n \in Cells, mem[p + n] # 0
          PROVE  WordOK(R, was.used, was.put, p, n, mem[p + n])
      <3>1. p + n # 0
        BY <2>2, NextPage
      <3>2. PICK f \in Name : names[f] = p + n
        BY <1>5, <2>2, <3>1
      <3>3. PICK q \in Nat : q = names[f] /\ IsPage(q)
        BY <1>3
      <3>4. 0 \in 0 .. Page - 1 /\ p + n = q + 0
        BY <3>2, <3>3, Sizes
      <3>5. p = q /\ n = 0
        BY <2>2, <3>3, <3>4, PagesDisjoint
      <3>6. R[p] = Inode /\ n # Page - 1
        BY <1>12, <3>3, <3>5, Sizes
      <3> QED BY <3>5, <3>6 DEF WordOK, Points, Inode, Role
    <2> QED BY <1>5, <1>12, <2>1, <2>2 DEF Tree
  <1>15. ASSUME NEW c \in Client PROVE Holds(R, c, pc[c], job[c], me[c], was.put)
    BY <1>9 DEF Holds, ReadOK, NoJob, Sets, Allocs, Late
  <1>16. Sound(R)
    BY <1>13, <1>14, <1>15 DEF Sound
  <1> QED BY <1>8, <1>10, <1>16 DEF IInv

(* Every step keeps the invariant.                                             *)
LEMMA NextInv ==
  ASSUME IInv, [Next]_vars
  PROVE  IInv'
  <1>1. CASE UNCHANGED vars
    BY <1>1 DEF vars, IInv, Types, Flow, FlowAt, Sound, Lists, Overlaid
  <1>2. ASSUME NEW c \in Client, Step(c) PROVE IInv'
    BY <1>2, CallInv, RunInv, OperateInv, TableInv, ReturnInv DEF Step
  <1> QED BY <1>1, <1>2 DEF Next, Finished

(* Whatever the stores do, the memory is a tree of pages under each inode, and *)
(* every store holds what it believes it does.                                 *)
THEOREM StoreInvariance == Spec => []IInv
  <1>1. Init => IInv
    BY InitInv
  <1>2. IInv /\ [Next]_vars => IInv'
    BY NextInv
  <1> QED BY <1>1, <1>2, PTL DEF Spec

(* A get returns what was put at its offsets, or zeros.                        *)
THEOREM GetsWhatWasPut == Spec => []GetWasPut
  <1>1. ASSUME IInv PROVE GetWasPut
    <2> SUFFICES ASSUME ~Overlaid, NEW c \in Client, pc[c] = "return", job[c].kind = "get",
                        NEW n \in DOMAIN me[c].buf
                 PROVE  \/ me[c].buf[n] = 0
                        \/ <<me[c].ino, job[c].off + n - 1, me[c].buf[n]>> \in was.put
      BY DEF GetWasPut
    <2>1. PICK R : Sound(R)
      BY <1>1 DEF IInv
    <2>2. ReadOK(job[c], me[c], was.put)
      BY <2>1 DEF Sound, Holds
    <2>3. me[c].buf \in Seq(Nat) /\ job[c] \in Jobs[c]
      BY <1>1, Here DEF IInv
    <2>4. PICK o \in Nat : o = job[c].off
      BY <2>3, JobTypes
    <2>5. n \in 1 .. Len(me[c].buf) /\ n \in Nat
      BY <2>3
    <2>6. o + n - 1 = o + (n - 1)
      BY <2>5
    <2>7. me[c].buf[n] = 0 \/ <<me[c].ino, o + (n - 1), me[c].buf[n]>> \in was.put
      BY <2>2, <2>4, <2>5 DEF ReadOK
    <2> QED BY <2>4, <2>6, <2>7
  <1> QED BY <1>1, StoreInvariance, PTL

(* A word of memory that points to a page.                                     *)
IsPointer(R, a) == \E p \in Nat : \E n \in 0 .. Page - 1 :
                     IsPage(p) /\ a = p + n /\ a \in Cells /\ mem[a] # 0 /\ Points(R, p, n)

(* It leads to a page that knows it, below the counter, and not an inode.      *)
LEMMA PointerOK ==
  ASSUME Types, NEW R, NEW used, NEW put, Tree(R, mem, used, put), NEW a, IsPointer(R, a)
  PROVE  IsPage(mem[a]) /\ mem[a] < mem[0] /\ R[mem[a]].at = a /\ R[mem[a]].kind # "inode"
  <1>1. PICK p \in Nat, n \in 0 .. Page - 1 :
          IsPage(p) /\ a = p + n /\ a \in Cells /\ mem[a] # 0 /\ Points(R, p, n)
    BY DEF IsPointer
  <1>2. PICK v \in Nat : v = mem[a]
    BY <1>1 DEF Types
  <1>3. mem \in [Cells -> Nat]
    BY DEF Types
  <1>4. IsPage(v) /\ R[v] = Child(R, used, p, n)
    BY <1>1, <1>2, <1>3, Follow
  <1>5. Child(R, used, p, n).at = p + n /\ Child(R, used, p, n).kind \in {"block", "second", "third"}
    BY DEF Child, Role
  <1>6. R[v] # Free
    BY <1>4, <1>5 DEF Free, Role
  <1>7. v < mem[0]
    BY <1>2, <1>3, <1>4, <1>6, OwnBelow
  <1> QED BY <1>1, <1>2, <1>4, <1>5, <1>7

(* The words that PagesApart speaks of are such.                               *)
LEMMA PointersOf ==
  ASSUME Types, NEW R, NEW put, Tree(R, mem, was.used, put), NEW i \in Nat, IsInode(R, i),
         NEW a \in Pointers(i)
  PROVE  IsPointer(R, a)
  <1>1. mem \in [Cells -> Nat] /\ IsPage(i) /\ R[i].kind = "inode"
    BY DEF Types, IsInode, Inode, Role
  <1>2. a \in Cells /\ mem[a] # 0
    BY DEF Pointers, Cell
  <1>3. PICK used : used = was.used
    OBVIOUS
  <1>4. CASE a \in i + 1 .. i + Page - 1
    <2>1. PICK n \in 0 .. Page - 1 : a = i + n /\ n # 0
      BY <1>4, Sizes
    <2> QED BY <1>1, <1>2, <2>1 DEF IsPointer, Points
  <1>5. ASSUME NEW b \in Thirds(i)
        PROVE  /\ b \in Cells
               /\ \E s \in Nat : \E n \in 0 .. Page - 1 :
                    /\ IsPage(s) /\ b = s + n
                    /\ R[s].kind = "second"
    <2>1. Second(i) # 0 /\ b \in Cells /\ \E n \in 0 .. Page - 1 : b = Second(i) + n
      BY <1>5 DEF Thirds
    <2>2. Deep(used, i) /\ Second(i) = Cell(mem, i + Page - 1)
      BY <1>3, <2>1 DEF Second, Deep
    <2>3. PICK n \in 0 .. Page - 1 : n = Page - 1 /\ n # 0 /\ i + Page - 1 = i + n
      BY Sizes
    <2>4. PICK v \in Nat : v = Second(i) /\ v # 0 /\ i + n \in Cells /\ mem[i + n] = v
      BY <1>1, <2>1, <2>2, <2>3 DEF Cell
    <2>5. Points(R, i, n) /\ Child(R, used, i, n) = Role("second", i + n, i, 0)
      BY <1>1, <2>2, <2>3 DEF Points, Child
    <2>6. IsPage(v) /\ R[v] = Child(R, used, i, n)
      BY <1>1, <1>3, <2>4, <2>5, Follow
    <2> QED BY <2>1, <2>4, <2>5, <2>6 DEF Role
  <1>6. CASE a \in Thirds(i)
    BY <1>2, <1>5, <1>6 DEF IsPointer, Points
  <1>7. CASE a \in Leaves(i)
    <2>1. PICK b \in Thirds(i) : mem[b] # 0 /\ \E n \in 0 .. Page - 1 : a = mem[b] + n
      BY <1>7 DEF Leaves
    <2>2. PICK s \in Nat, n \in 0 .. Page - 1 : IsPage(s) /\ b = s + n /\ R[s].kind = "second"
      BY <1>5
    <2>3. PICK v \in Nat : v = mem[b] /\ v # 0 /\ s + n \in Cells /\ mem[s + n] = v
      BY <1>1, <1>5, <2>1, <2>2
    <2>4. Points(R, s, n) /\ Child(R, used, s, n).kind = "third"
      BY <2>2 DEF Points, Child, Role
    <2>5. IsPage(v) /\ R[v] = Child(R, used, s, n)
      BY <1>1, <1>3, <2>2, <2>3, <2>4, Follow
    <2>6. R[v].kind = "third"
      BY <2>4, <2>5
    <2> QED BY <1>2, <2>1, <2>3, <2>5, <2>6 DEF IsPointer, Points
  <1> QED BY <1>4, <1>6, <1>7 DEF Pointers

(* The variables have their types, every pointer leads to a page of its own    *)
(* below the counter, and none to an inode.                                    *)
THEOREM PagesStayApart == Spec => []PagesApart
  <1>1. ASSUME IInv PROVE TypeOK
    <2>1. Types /\ Flow
      BY <1>1 DEF IInv
    <2>2. ASSUME NEW c \in Client
          PROVE  /\ job[c] \in Jobs[c] \cup {NoJob}
                 /\ me[c].left \in Nat /\ me[c].rest \in Nat /\ me[c].ptr \in Nat
                 /\ me[c].buf \in Seq(Int)
      <3>1. pc[c] = "ready" => job[c] = NoJob
        BY <2>1 DEF Flow, FlowAt, CallOK
      <3>2. me[c].buf \in Seq(Int)
        <4>1. me[c].buf \in Seq(Nat)
          BY <2>1, Here
        <4> QED BY <4>1
      <3> QED BY <2>1, <3>1, <3>2, Here
    <2>3. mem \in [Cells -> Int]
      BY <2>1 DEF Types
    <2> QED BY <2>1, <2>2, <2>3 DEF Types, TypeOK
  <1>2. ASSUME IInv, ~Overlaid, NEW a, NEW i \in Known, a \in Pointers(i)
        PROVE  /\ mem[a] % Page = 1 /\ mem[a] < mem[0] /\ mem[a] \notin Known
               /\ \A k \in Known : \A b \in Pointers(k) : a # b => mem[a] # mem[b]
    <2>1. PICK R : Sound(R)
      BY <1>2 DEF IInv
    <2>2. PICK put : Tree(R, mem, was.used, put) /\ Lists(R) /\ Types
      BY <1>2, <2>1 DEF Sound, IInv
    <2>3. ASSUME NEW k \in Known PROVE IsInode(R, k) /\ k \in Nat /\ R[k].kind = "inode"
      BY <2>2, <2>3 DEF Known, Lists, IsInode, IsPage, Inode, Role
    <2>4. ASSUME NEW k \in Known, NEW b \in Pointers(k)
          PROVE  IsPage(mem[b]) /\ mem[b] < mem[0] /\ R[mem[b]].at = b /\ R[mem[b]].kind # "inode"
      <3>1. IsPointer(R, b)
        BY <2>2, <2>3, <2>4, PointersOf
      <3> QED BY <2>2, <3>1, PointerOK
    <2> QED BY <1>2, <2>3, <2>4 DEF IsPage
  <1>3. ASSUME IInv PROVE PagesApart
    BY <1>1, <1>2, <1>3 DEF PagesApart
  <1> QED BY <1>3, StoreInvariance, PTL

-------------------------------------------------------------------------------
(* Word n of page p leads on to page v.                                        *)
Leads(R, m, p, n, v) ==
  /\ p \in Nat /\ IsPage(p) /\ n \in 0 .. Page - 1 /\ Points(R, p, n) /\ p + n \in Cells
  /\ v \in Nat /\ v # 0 /\ m[p + n] = v

(* The words on the way from inode i to p, the page of offset o.               *)
Route(R, m, i, o, p) ==
  IF IsDirect(o) THEN Leads(R, m, i, 1 + Block(o), p)
  ELSE \E s, t \in Nat : /\ Leads(R, m, i, Page - 1, s) /\ Leads(R, m, s, Idx0(o), t)
                         /\ Leads(R, m, t, Idx1(o), p)

(* Memory k leads on wherever m does.                                          *)
Follows(R, m, k) == \A p, n, v : Leads(R, m, p, n, v) => Leads(R, k, p, n, v)

(* The page is what the way leads to.                                          *)
LEMMA AtTheEnd ==
  ASSUME NEW R, NEW m, NEW i \in Nat, NEW o \in Nat, NEW p, Route(R, m, i, o, p)
  PROVE  PageOf(m, i, o) = p
  <1>1. CASE IsDirect(o)
    <2>1. Leads(R, m, i, 1 + Block(o), p)
      BY <1>1 DEF Route
    <2>2. Block(o) \in Nat /\ i + (1 + Block(o)) = i + 1 + Block(o)
      BY Divided
    <2> QED BY <1>1, <2>1, <2>2 DEF PageOf, Leads, Cell
  <1>2. CASE ~IsDirect(o)
    <2>1. PICK s \in Nat, t \in Nat :
            Leads(R, m, i, Page - 1, s) /\ Leads(R, m, s, Idx0(o), t) /\ Leads(R, m, t, Idx1(o), p)
      BY <1>2 DEF Route
    <2>2. i + (Page - 1) = i + Page - 1
      BY Sizes
    <2>3. Cell(m, i + Page - 1) = s
      BY <2>1, <2>2 DEF Leads, Cell
    <2>4. Through(m, s, Idx0(o)) = t
      BY <2>1 DEF Leads, Cell, Through
    <2>5. Through(m, t, Idx1(o)) = p
      BY <2>1 DEF Leads, Cell, Through
    <2> QED BY <1>2, <2>3, <2>4, <2>5 DEF PageOf
  <1> QED BY <1>1, <1>2

(* A block that was looked for, and that has a page, has a way to it, and the  *)
(* page is that block's.                                                       *)
LEMMA Reached ==
  ASSUME NEW R, NEW m \in [Cells -> Nat], NEW used, NEW put, Tree(R, m, used, put), ~Mixed(used),
         NEW i \in Nat, IsInode(R, i), NEW o \in Nat, o <= Limit, <<i, Block(o)>> \in used,
         NEW p, p = PageOf(m, i, o), p # 0
  PROVE  p \in Nat /\ IsBlock(R, p, i, Block(o)) /\ Route(R, m, i, o, p)
  <1>0. IsPage(i)
    BY DEF IsInode
  <1>1. CASE IsDirect(o)
    <2>1. PICK b \in Nat, n \in 1 .. Page - 1 : b = Block(o) /\ n = 1 + b /\ n \in 0 .. Page - 1
      <3>1. \A n \in 1 .. Page - 1 : n \in 0 .. Page - 1
        BY Sizes
      <3> QED BY <1>1, <3>1, Levels
    <2>2. i + n = i + 1 + b
      BY <2>1
    <2>3. p = Cell(m, i + n)
      BY <1>1, <2>1, <2>2 DEF PageOf
    <2>4. i + n \in Cells /\ m[i + n] = p /\ p \in Nat
      BY <2>3 DEF Cell
    <2>5. Points(R, i, n) /\ Child(R, used, i, n) = Role("block", i + n, i, b)
      BY <2>1, SlotDirect
    <2>6. IsPage(p) /\ R[p] = Role("block", i + n, i, b)
      BY <1>0, <2>1, <2>4, <2>5, Follow
    <2>7. Leads(R, m, i, n, p)
      BY <1>0, <2>1, <2>4, <2>5 DEF Leads
    <2> QED BY <1>1, <2>1, <2>4, <2>6, <2>7 DEF IsBlock, Role, Route
  <1>2. CASE ~IsDirect(o)
    <2>1. PICK s : s = Cell(m, i + Page - 1)
      OBVIOUS
    <2>2. PICK t : t = Through(m, s, Idx0(o))
      OBVIOUS
    <2>3. p = Through(m, t, Idx1(o))
      BY <1>2, <2>1, <2>2 DEF PageOf
    <2>4. t # 0 /\ s # 0
      BY <2>2, <2>3 DEF Through
    <2>5. PICK n \in 0 .. Page - 1 : n = Page - 1 /\ i + n = i + Page - 1
      BY Sizes
    <2>6. i + n \in Cells /\ m[i + n] = s /\ s \in Nat
      BY <2>1, <2>4, <2>5 DEF Cell
    <2>7. Points(R, i, n) /\ Child(R, used, i, n) = Role("second", i + n, i, 0)
      BY <1>2, <2>5, SlotSecond
    <2>8. IsPage(s) /\ R[s] = Role("second", i + n, i, 0)
      BY <1>0, <2>4, <2>6, <2>7, Follow
    <2>9. IsSecond(R, s, i)
      BY <2>8 DEF IsSecond, Role
    <2>10. PICK k \in 0 .. Page - 1 : k = Idx0(o)
      BY <1>2, Levels
    <2>11. s + k \in Cells /\ m[s + k] = t /\ t \in Nat
      BY <2>2, <2>4, <2>6, <2>10 DEF Through, Cell
    <2>12. Points(R, s, k) /\ Child(R, used, s, k) = Role("third", s + k, i, k)
      BY <1>2, <2>6, <2>9, <2>10, SlotThird
    <2>13. IsPage(t) /\ R[t] = Role("third", s + k, i, k)
      BY <2>4, <2>6, <2>8, <2>11, <2>12, Follow
    <2>14. IsThird(R, t, i, Idx0(o))
      BY <2>10, <2>13 DEF IsThird, Role
    <2>15. PICK l \in 0 .. Page - 1 : l = Idx1(o)
      BY <1>2, Levels
    <2>16. t + l \in Cells /\ m[t + l] = p /\ p \in Nat
      BY <2>3, <2>4, <2>11, <2>15 DEF Through, Cell
    <2>17. Points(R, t, l) /\ Child(R, used, t, l) = Role("block", t + l, i, Block(o))
      BY <1>2, <2>11, <2>14, <2>15, SlotLeaf
    <2>18. IsPage(p) /\ R[p] = Role("block", t + l, i, Block(o))
      BY <2>11, <2>13, <2>16, <2>17, Follow
    <2>19. Leads(R, m, i, n, s) /\ Leads(R, m, s, k, t) /\ Leads(R, m, t, l, p)
      BY <1>0, <2>4, <2>6, <2>7, <2>8, <2>11, <2>12, <2>13, <2>16, <2>17 DEF Leads
    <2>20. Route(R, m, i, o, p)
      BY <1>2, <2>5, <2>6, <2>10, <2>11, <2>15, <2>19 DEF Route
    <2> QED BY <2>16, <2>18, <2>20 DEF IsBlock, Role
  <1> QED BY <1>1, <1>2

(* A way stays where every word on it does.                                    *)
LEMMA StaysReached ==
  ASSUME NEW R, NEW m, NEW k, Follows(R, m, k), NEW i \in Nat, NEW o \in Nat, NEW p,
         Route(R, m, i, o, p)
  PROVE  PageOf(k, i, o) = p
  <1>1. Route(R, k, i, o, p)
    <2>1. CASE IsDirect(o)
      BY <2>1 DEF Route, Follows
    <2>2. CASE ~IsDirect(o)
      <3>1. PICK s \in Nat, t \in Nat :
            Leads(R, m, i, Page - 1, s) /\ Leads(R, m, s, Idx0(o), t) /\ Leads(R, m, t, Idx1(o), p)
        BY <2>2 DEF Route
      <3>2. Leads(R, k, i, Page - 1, s) /\ Leads(R, k, s, Idx0(o), t) /\ Leads(R, k, t, Idx1(o), p)
        BY <3>1 DEF Follows
      <3> QED BY <2>2, <3>2 DEF Route
    <2> QED BY <2>1, <2>2
  <1> QED BY <1>1, AtTheEnd

(* The word that setBlock sets, of which page, and what to.                    *)
SlotPage(l, m) == IF l \in {"setDirect", "makeL2"} THEN m.ino ELSE IF l = "makeL3" THEN m.l2 ELSE m.l3
SlotWord(l, m) == CASE l = "setDirect" -> 1 + Block(m.off)
                    [] l = "makeL2"    -> Page - 1
                    [] l = "makeL3"    -> Idx0(m.off)
                    [] l = "setLeaf"   -> Idx1(m.off)
SlotNew(l, m)  == IF l = "makeL2" THEN m.l2 ELSE IF l = "makeL3" THEN m.l3 ELSE m.ptr

(* It is one that points, and nothing else changes.                            *)
LEMMA Slots ==
  ASSUME Types, Flow, NEW c \in Client, pc[c] \in Installs, NEW R, Sound(R)
  PROVE  LET q == SlotPage(pc[c], me[c]) n == SlotWord(pc[c], me[c]) v == SlotNew(pc[c], me[c]) IN
         /\ q \in Nat /\ IsPage(q) /\ n \in 0 .. Page - 1 /\ Points(R, q, n) /\ v \in Nat
         /\ OpOf(c) = Write(q + n, <<v>>) /\ q + n \in Nat
  <1>1. PICK i \in Nat, o \in Nat, p \in Nat, s \in Nat, t \in Nat :
          i = me[c].ino /\ o = me[c].off /\ p = me[c].ptr /\ s = me[c].l2 /\ t = me[c].l3
    BY Here
  <1>2. /\ o <= Limit /\ i = inode[c] /\ PathOK(pc[c], me[c], was.used)
        /\ Holds(R, c, pc[c], job[c], me[c], was.put)
    <2>1. InAccess(c)
      BY DEF InAccess, Sets, Installs
    <2> QED BY <1>1, <2>1, Here, Accessing DEF FlowAt, Sound
  <1>3. IsPage(i) /\ R[i].kind = "inode"
    BY <1>2 DEF Sound, Lists, IsInode, Inode, Role
  <1>4. CASE pc[c] = "setDirect"
    <2>1. PICK b \in Nat, n \in 1 .. Page - 1 : b = Block(o) /\ n = 1 + b
      BY <1>1, <1>2, <1>4, Levels DEF PathOK
    <2>2. n \in 0 .. Page - 1 /\ n # 0 /\ i + n \in Nat /\ i + 1 + b = i + n
      BY <2>1, Sizes
    <2>3. OpOf(c) = Write(i + 1 + b, <<p>>)
      BY <1>1, <1>4, <2>1 DEF OpOf
    <2> QED BY <1>1, <1>3, <1>4, <2>1, <2>2, <2>3 DEF SlotPage, SlotWord, SlotNew, Points
  <1>5. CASE pc[c] = "makeL2"
    <2>1. PICK n \in 0 .. Page - 1 : n = Page - 1 /\ n # 0 /\ i + n \in Nat /\ i + Page - 1 = i + n
      BY Sizes
    <2>2. OpOf(c) = Write(i + Page - 1, <<s>>)
      BY <1>1, <1>5 DEF OpOf
    <2> QED BY <1>1, <1>3, <1>5, <2>1, <2>2 DEF SlotPage, SlotWord, SlotNew, Points
  <1>6. CASE pc[c] = "makeL3"
    <2>1. ~IsDirect(o) /\ IsSecond(R, s, i)
      BY <1>1, <1>2, <1>6 DEF PathOK, Holds
    <2>2. PICK n \in 0 .. Page - 1 : n = Idx0(o) /\ s + n \in Nat
      BY <1>2, <2>1, Levels
    <2>3. OpOf(c) = Write(s + Idx0(o), <<t>>)
      BY <1>1, <1>6 DEF OpOf
    <2> QED BY <1>1, <1>6, <2>1, <2>2, <2>3 DEF SlotPage, SlotWord, SlotNew, Points, IsSecond
  <1>7. CASE pc[c] = "setLeaf"
    <2>1. ~IsDirect(o) /\ IsThird(R, t, i, Idx0(o))
      BY <1>1, <1>2, <1>7 DEF PathOK, Holds
    <2>2. PICK n \in 0 .. Page - 1 : n = Idx1(o) /\ t + n \in Nat
      BY <1>2, <2>1, Levels
    <2>3. OpOf(c) = Write(t + Idx1(o), <<p>>)
      BY <1>1, <1>7 DEF OpOf
    <2> QED BY <1>1, <1>7, <2>1, <2>2, <2>3 DEF SlotPage, SlotWord, SlotNew, Points, IsThird
  <1> QED BY <1>4, <1>5, <1>6, <1>7 DEF Installs

(* An operation that neither sets nor stores changes nothing.                  *)
LEMMA OnlyReads ==
  ASSUME Types, NEW c \in Client, Operate(c), pc[c] \notin {"allocCas", "setLen"} \cup Installs, ~Stores(c)
  PROVE  mem' = mem
  <1>1. pc[c] \in {"allocRead", "getLen", "length", "direct", "l2", "l3", "leaf", "setL2", "setL3", "transfer"}
    BY Operates DEF Types, Labels, Plain, Allocs, Sets, Finds, Working, Installs
  <1>2. OpOf(c).kind = "READ"
    BY <1>1 DEF OpOf, Read, Stores
  <1> QED BY <1>2, Operates DEF Effect

(* Which words an operation changes: the length, a pointer, or content.        *)
LEMMA Alters ==
  ASSUME Types, Flow, NEW c \in Client, Operate(c), NEW R, Sound(R),
         NEW q \in Nat, IsPage(q), NEW n \in 0 .. Page - 1, q + n \in Cells, mem'[q + n] # mem[q + n]
  PROVE  \/ pc[c] = "setLen" /\ ~Points(R, q, n) /\ R[q].kind = "inode"
         \/ /\ pc[c] \in Installs /\ Points(R, q, n) /\ q = SlotPage(pc[c], me[c])
            /\ n = SlotWord(pc[c], me[c])
         \/ Stores(c) /\ R[q].kind = "block"
  <1>0. mem \in [Cells -> Nat]
    BY DEF Types
  <1>1. pc[c] \in {"allocCas", "setLen"} \cup Installs \/ Stores(c)
    BY OnlyReads
  <1>2. CASE pc[c] = "allocCas"
    <2>1. PICK v : OpOf(c) = Cas(0, me[c].page, v)
      BY <1>2 DEF OpOf
    <2>2. mem' = Effect(Cas(0, me[c].page, v), mem)
      BY <2>1, Operates
    <2>3. mem' = mem \/ mem' = [mem EXCEPT ![0] = v]
      BY <2>2, CasOne
    <2>4. q + n # 0
      BY NextPage
    <2> QED BY <1>0, <2>3, <2>4
  <1>3. CASE pc[c] = "setLen"
    <2>1. PICK i \in Nat, v \in Nat : i = me[c].ino /\ i = inode[c] /\ OpOf(c) = Write(i, <<v>>)
      <3>1. job[c] \in Jobs[c] /\ job[c].kind = "setLen" /\ me[c].ino = inode[c] /\ me[c].ino \in Nat
        BY <1>3, Here DEF FlowAt, CallOK, BufferOK
      <3>2. job[c].len \in Nat
        BY <3>1, JobTypes
      <3> QED BY <1>3, <3>1, <3>2 DEF OpOf
    <2>2. IsPage(i) /\ R[i].kind = "inode"
      BY <2>1 DEF Sound, Lists, IsInode, Inode, Role
    <2>3. q + n = i
      BY <1>0, <2>1, Poke
    <2>4. q = i /\ n = 0
      <3>1. 0 \in 0 .. Page - 1 /\ i = i + 0
        BY Sizes
      <3> QED BY <2>2, <2>3, <3>1, PagesDisjoint
    <2> QED BY <1>3, <2>2, <2>4 DEF Points
  <1>4. CASE pc[c] \in Installs
    <2>1. PICK p \in Nat, k \in 0 .. Page - 1, v \in Nat :
            /\ p = SlotPage(pc[c], me[c]) /\ k = SlotWord(pc[c], me[c])
            /\ IsPage(p) /\ Points(R, p, k) /\ OpOf(c) = Write(p + k, <<v>>) /\ p + k \in Nat
      BY <1>4, Slots
    <2>2. q + n = p + k
      BY <1>0, <2>1, Poke
    <2>3. q = p /\ n = k
      BY <2>1, <2>2, PagesDisjoint
    <2> QED BY <1>4, <2>1, <2>3
  <1>5. CASE Stores(c)
    <2>1. PICK m \in Locals, k \in Nat : m = me[c] /\ k = Span(m)
      BY Here, Spans
    <2>2. PICK p \in Nat, r \in Nat, a \in Nat : p = m.ptr /\ r = m.off % Page /\ a = p + r
      <3>1. m.ptr \in Nat /\ m.off % Page \in 0 .. Page - 1
        BY LocalTypes, Divided
      <3>2. m.off % Page \in Nat
        BY <3>1, Sizes
      <3> QED BY <3>1, <3>2
    <2>6. PICK vs : vs = Part(m)
      OBVIOUS
    <2>7. Laid(mem, mem', a, vs) /\ Len(vs) = k /\ r + k <= Page
      <3>1. a = Target(m)
        BY <2>2 DEF Target
      <3>2. Laid(mem, mem', Target(m), Part(m)) /\ Len(Part(m)) = Span(m)
        BY <1>5, <2>1, StoresWords
      <3> QED BY <2>1, <2>2, <2>6, <3>1, <3>2, Spans
    <2>3. PICK z \in 0 .. Page - 1 : q + n = p + z
      <3>0. q + n \in Nat
        BY Sizes
      <3>1. q + n >= a /\ q + n < a + k
        BY <2>7, <3>0 DEF Laid
      <3>2. PICK x \in Nat : x = q + n
        BY <3>0
      <3>3. p + r <= x /\ x < p + r + k /\ r + k <= Page
        BY <2>2, <2>7, <3>1, <3>2
      <3>4. x - p \in 0 .. Page - 1 /\ x = p + (x - p)
        BY <3>3, Sizes
      <3> QED BY <3>2, <3>4
    <2>4. IsPage(p) /\ R[p].kind = "block"
      BY <1>5, <2>1, <2>2 DEF Sound, Holds, IsBlock, Stores
    <2>5. q = p
      BY <2>3, <2>4, PagesDisjoint
    <2> QED BY <1>5, <2>4, <2>5
  <1> QED BY <1>1, <1>2, <1>3, <1>4, <1>5

-------------------------------------------------------------------------------
(* What is known of a word x that was stored, as <<inode, offset, value>>: its *)
(* block was looked for, and unless it is lost memory m still has it.          *)
StoredAt(used, x) == /\ x[1] \in Nat /\ x[2] \in Nat /\ x[2] <= Limit
                     /\ <<x[1], Block(x[2])>> \in used
InPlace(m, x)     == PageOf(m, x[1], x[2]) # 0 /\ Cell(m, AddressOf(m, x[1], x[2])) = x[3]
Keeping(m, used, last, lost) ==
  /\ \A x \in last : StoredAt(used, x)
  /\ ~Mixed(used) => \A x \in last : <<x[1], x[2]>> \in lost \/ InPlace(m, x)
Kept == Keeping(mem, was.used, was.last, was.lost)

(* Every way stays, unless a pointer is set.                                   *)
LEMMA Steady ==
  ASSUME Types, Flow, NEW c \in Client, Operate(c), NEW R, Sound(R), pc[c] \notin Installs
  PROVE  Follows(R, mem, mem')
  <1> SUFFICES ASSUME NEW p, NEW n, NEW v, Leads(R, mem, p, n, v)
               PROVE  Leads(R, mem', p, n, v)
    BY DEF Follows
  <1>1. p \in Nat /\ IsPage(p) /\ n \in 0 .. Page - 1 /\ p + n \in Cells /\ Points(R, p, n)
    BY DEF Leads
  <1>2. R[p].kind # "block"
    BY <1>1 DEF Points
  <1>3. mem'[p + n] = mem[p + n]
    BY <1>1, <1>2, Alters
  <1> QED BY <1>3 DEF Leads

(* Every word of a block stays, unless it is stored.                           *)
LEMMA Unmoved ==
  ASSUME Types, Flow, NEW c \in Client, Operate(c), NEW R, Sound(R), ~Stores(c),
         NEW p \in Nat, NEW i, NEW b, IsBlock(R, p, i, b), NEW n \in 0 .. Page - 1
  PROVE  Cell(mem', p + n) = Cell(mem, p + n)
  <1>1. IsPage(p) /\ R[p].kind = "block" /\ ~Points(R, p, n)
    BY DEF IsBlock, Points
  <1>2. CASE p + n \in Cells
    <2>1. mem'[p + n] = mem[p + n]
      BY <1>1, <1>2, Alters
    <2> QED BY <1>2, <2>1 DEF Cell
  <1>3. CASE p + n \notin Cells
    BY <1>3 DEF Cell
  <1> QED BY <1>2, <1>3

(* A page that is there is part of the address.                                *)
LEMMA Addressed ==
  ASSUME NEW m, NEW i, NEW o \in Nat, NEW p \in Nat, IsPage(p), NEW a, a = p + (o % Page)
  PROVE  /\ a \in Nat /\ a # 0 /\ p # 0
         /\ PageOf(m, i, o) = p => AddressOf(m, i, o) = a
         /\ AddressOf(m, i, o) = a => PageOf(m, i, o) # 0
  <1>1. p >= 1 /\ p # 0
    BY NextPage
  <1>2. PICK r \in 0 .. Page - 1 : r = o % Page
    BY Divided
  <1>3. a \in Nat /\ a # 0
    BY <1>1, <1>2, Sizes
  <1> QED BY <1>1, <1>3 DEF AddressOf

(* A word that was stored and is not lost is in a word of its block.           *)
LEMMA Kind ==
  ASSUME Types, NEW R, Sound(R), ~Mixed(was.used), NEW x \in was.last, StoredAt(was.used, x),
         InPlace(mem, x)
  PROVE  \E p \in Nat : /\ p = PageOf(mem, x[1], x[2]) /\ p # 0
                        /\ IsBlock(R, p, x[1], Block(x[2])) /\ Route(R, mem, x[1], x[2], p)
                        /\ Cell(mem, p + (x[2] % Page)) = x[3]
  <1>1. PICK i \in Nat, o \in Nat : i = x[1] /\ o = x[2]
    BY DEF StoredAt
  <1>2. PICK p : p = PageOf(mem, i, o)
    OBVIOUS
  <1>3. IsInode(R, i) /\ o <= Limit /\ <<i, Block(o)>> \in was.used /\ p # 0
    BY <1>1, <1>2 DEF Sound, Lists, StoredAt, InPlace
  <1>4. PICK used, put : used = was.used /\ put = was.put
    OBVIOUS
  <1>5. mem \in [Cells -> Nat] /\ Tree(R, mem, used, put) /\ ~Mixed(used) /\ <<i, Block(o)>> \in used
    BY <1>3, <1>4 DEF Types, Sound
  <1>6. p \in Nat /\ IsBlock(R, p, i, Block(o)) /\ Route(R, mem, i, o, p)
    BY <1>2, <1>3, <1>5, Reached
  <1>7. AddressOf(mem, i, o) = p + (o % Page)
    BY <1>2, <1>3 DEF AddressOf
  <1> QED BY <1>1, <1>2, <1>3, <1>6, <1>7 DEF InPlace

(* Memory may change so, and a word that is not lost stays.                    *)
LEMMA StaysIn ==
  ASSUME Types, Flow, NEW c \in Client, Operate(c), NEW R, Sound(R), ~Mixed(was.used),
         ~Stores(c), NEW x \in was.last, StoredAt(was.used, x), InPlace(mem, x),
         pc[c] \in Installs => ~Strays(x)
  PROVE  InPlace(mem', x)
  <1>0. PICK v : v = x[3]
    OBVIOUS
  <1>1. PICK i \in Nat, o \in Nat : i = x[1] /\ o = x[2]
    BY DEF StoredAt
  <1>2. PICK p \in Nat : /\ p = PageOf(mem, i, o) /\ p # 0
                         /\ IsBlock(R, p, i, Block(o)) /\ Route(R, mem, i, o, p)
                         /\ Cell(mem, p + (o % Page)) = v
    BY <1>0, <1>1, Kind
  <1>3. PICK r \in 0 .. Page - 1, a \in Nat : r = o % Page /\ a = p + r
    <2>1. PICK r \in 0 .. Page - 1 : r = o % Page
      BY Divided
    <2>2. p + r \in Nat
      BY Sizes
    <2> QED BY <2>1, <2>2
  <1>4. IsPage(p)
    BY <1>2 DEF IsBlock
  <1>5. Cell(mem', a) = v
    BY <1>2, <1>3, Unmoved
  <1>6. a # 0 /\ AddressOf(mem, i, o) = a
    BY <1>2, <1>3, <1>4, Addressed
  <1>7. PICK k : k = mem'
    OBVIOUS
  <1>8. AddressOf(k, i, o) = a
    <2>1. CASE pc[c] \in Installs
      BY <1>1, <1>6, <1>7, <2>1 DEF Strays
    <2>2. CASE pc[c] \notin Installs
      <3>1. PageOf(k, i, o) = p
        BY <1>2, <1>7, <2>2, Steady, StaysReached
      <3> QED BY <1>3, <1>4, <3>1, Addressed
    <2> QED BY <2>1, <2>2
  <1>9. PageOf(k, i, o) # 0
    BY <1>3, <1>4, <1>8, Addressed
  <1> QED BY <1>0, <1>1, <1>5, <1>7, <1>8, <1>9 DEF InPlace

(* A store of words: which words they are.                                     *)
LEMMA Writes ==
  ASSUME Types, Flow, NEW c \in Client, Operate(c), Stores(c), NEW m \in Locals, m = me[c]
  PROVE  /\ \A x : x \in Written(c) <=>
              \E k \in 1 .. Span(m) : /\ x = <<m.ino, m.off + k - 1, Part(m)[k]>>
                                      /\ Target(m) + k - 1 \in Cells
         /\ \A x : x \in Missed(c) <=>
              x \in Written(c) /\ AddressOf(mem, x[1], x[2]) # Target(m) + x[2] - m.off
  <1>1. Part(m) \in Seq(Nat) /\ Len(Part(m)) = Span(m) /\ OpOf(c) = Write(Target(m), Part(m))
    BY StoresWords
  <1>2. OpOf(c).values = Part(m) /\ OpOf(c).addr = Target(m)
    BY <1>1 DEF Write
  <1>3. DOMAIN Part(m) = 1 .. Span(m)
    BY <1>1
  <1>4. Written(c) = {<<m.ino, m.off + k - 1, Part(m)[k]>> :
                        k \in {n \in 1 .. Span(m) : Target(m) + n - 1 \in Cells}}
    BY <1>2, <1>3 DEF Written
  <1>5. Missed(c) = {x \in Written(c) : AddressOf(mem, x[1], x[2]) # Target(m) + x[2] - m.off}
    BY <1>2 DEF Missed
  <1> QED BY <1>4, <1>5

(* They are all of the block that was found.                                   *)
LEMMA Within ==
  ASSUME NEW o \in Nat, NEW n \in Nat, n < Page, (o % Page) + n < Page
  PROVE  Block(o + n) = Block(o) /\ (o + n) % Page = (o % Page) + n
  <1>1. PICK b \in Nat, r \in 0 .. Page - 1 : b = Block(o) /\ r = o % Page /\ o = b * Page + r
    BY Divided
  <1>2. PICK d \in Nat, s \in 0 .. Page - 1 :
          d = Block(o + n) /\ s = (o + n) % Page /\ o + n = d * Page + s
    BY Divided
  <1>3. b * Page + (r + n) = d * Page + s
    <2>1. b * Page \in Nat
      BY Sizes
    <2> QED BY <1>1, <1>2, <2>1
  <1>4. r + n \in 0 .. Page - 1
    BY <1>1, Sizes
  <1>5. d = b /\ s = r + n
    BY <1>3, <1>4, DividedOnce
  <1> QED BY <1>1, <1>2, <1>5

(* What is stored is stored at its place.                                      *)
LEMMA WrittenAt ==
  ASSUME Types, Flow, NEW c \in Client, Operate(c), Stores(c), NEW x \in Written(c)
  PROVE  StoredAt(was.used, x) /\ x[1] = inode[c] /\ x[3] \in Nat
         /\ Block(x[2]) = Block(me[c].off)
  <1>1. PICK m \in Locals, o \in Nat, n \in Nat : m = me[c] /\ o = m.off /\ n = Span(m)
    BY Here, Spans
  <1>2. PICK k \in 1 .. n : x = <<m.ino, o + k - 1, Part(m)[k]>>
    BY <1>1, Writes
  <1>3. InAccess(c)
    BY DEF InAccess, Stores
  <1>4. m.ino = inode[c] /\ BufferOK("transfer", job[c], m, inode[c], was.put) /\ m.ino \in Nat
    BY <1>1, <1>3, Accessing, Here
  <1>5. PICK r \in 0 .. Page - 1 : r = o % Page /\ r + n <= Page
    BY <1>1, Divided, Spans
  <1>6. PICK j \in Nat : j = k - 1 /\ j < n /\ o + k - 1 = o + j
    BY <1>2
  <1>7. Block(o + j) = Block(o)
    <2>1. r + j < Page /\ j < Page
      BY <1>5, <1>6, Sizes
    <2> QED BY <1>5, <2>1, Within
  <1>8. o + j <= Limit
    <2>1. PICK y \in Nat, z \in Nat : y = m.left /\ z = m.rest
      BY LocalTypes
    <2>2. o + y + z <= Limit /\ n <= y
      BY <1>1, <1>4, <2>1, Spans DEF BufferOK, Stores, IsAccess
    <2> QED BY <1>6, <2>2, Sizes DEF Limit
  <1>9. <<m.ino, Block(o)>> \in was.used
    <2>1. PathOK(pc[c], m, was.used)
      BY <1>1, Here DEF FlowAt
    <2> QED BY <1>1, <2>1 DEF PathOK, Stores
  <1>10. Part(m)[k] \in Nat
    BY <1>1, StoresWords
  <1>11. x[1] = m.ino /\ x[2] = o + j /\ x[3] = Part(m)[k] /\ o + j \in Nat
    BY <1>2, <1>6
  <1> QED BY <1>1, <1>4, <1>7, <1>8, <1>9, <1>10, <1>11 DEF StoredAt

(* A store leaves every other word that is not lost where it is,               *)
LEMMA StoreKeeps ==
  ASSUME Types, Flow, NEW c \in Client, Operate(c), Stores(c), NEW R, Sound(R), ~Mixed(was.used),
         NEW x, StoredAt(was.used, x), InPlace(mem, x), x \in was.last,
         <<x[1], x[2]>> \notin Places(Written(c))
  PROVE  InPlace(mem', x)
  <1>1. PICK m \in Locals, n \in Nat, q \in Nat, f \in Nat, a \in Nat, vs \in Seq(Nat) :
          m = me[c] /\ n = Span(m) /\ q = m.ptr /\ f = m.off /\ a = Target(m) /\ vs = Part(m)
    BY Here, Spans, StoresWords
  <1>2. PICK s \in 0 .. Page - 1 : s = f % Page /\ a = q + s /\ s + n <= Page
    BY <1>1, Divided, Spans DEF Target
  <1>3. IsBlock(R, q, m.ino, Block(f))
    BY <1>1 DEF Sound, Holds, Stores
  <1>0. PICK v : v = x[3]
    OBVIOUS
  <1>4. PICK i \in Nat, o \in Nat : i = x[1] /\ o = x[2]
    BY DEF StoredAt
  <1>5. PICK p \in Nat : /\ p = PageOf(mem, i, o) /\ p # 0
                         /\ IsBlock(R, p, i, Block(o)) /\ Route(R, mem, i, o, p)
                         /\ Cell(mem, p + (o % Page)) = v
    BY <1>0, <1>4, Kind
  <1>6. PICK r \in 0 .. Page - 1, w \in Nat : r = o % Page /\ w = p + r
    <2>1. o % Page \in 0 .. Page - 1
      BY Divided
    <2>2. p + (o % Page) \in Nat
      BY <2>1, Sizes
    <2> QED BY <2>1, <2>2
  <1>7. IsPage(p) /\ IsPage(q)
    BY <1>3, <1>5 DEF IsBlock
  <1>8. PICK k : k = mem'
    OBVIOUS
  <1>9. PageOf(k, i, o) = p
    <2>1. pc[c] \notin Installs
      BY DEF Stores, Installs
    <2> QED BY <1>5, <1>8, <2>1, Steady, StaysReached
  <1>10. ~(w \in Cells /\ w >= a /\ w < a + n)
    <2> SUFFICES ASSUME w \in Cells, w >= a, w < a + n PROVE FALSE
      OBVIOUS
    <2>1. PICK j \in Nat : j = w - a /\ j < n
      BY <1>6
    <2>2. s + j \in 0 .. Page - 1 /\ w = q + (s + j)
      <3>1. s + j < Page /\ w = q + (s + j)
        BY <1>2, <2>1, Sizes
      <3> QED BY <2>1, <3>1, Sizes
    <2>3. p = q /\ r = s + j
      <3>1. PICK g \in 0 .. Page - 1 : g = s + j
        BY <2>2
      <3>2. p + r = q + g
        BY <1>6, <2>2, <3>1
      <3>3. p = q /\ r = g
        <4>1. ASSUME NEW y \in Nat, IsPage(y) PROVE \A h \in 0 .. Page - 1 : y + h = q + g => y = q /\ h = g
          BY <1>7, <4>1, PagesDisjoint
        <4> QED BY <1>7, <3>2, <4>1
      <3> QED BY <3>1, <3>3
    <2>4. i = m.ino /\ Block(o) = Block(f)
      BY <1>3, <1>5, <2>3 DEF IsBlock
    <2>5. o = f + j
      <3>1. PICK b \in Nat : b = Block(o) /\ o = b * Page + r /\ f = b * Page + s
        BY <1>2, <1>6, <2>4, Divided
      <3>2. PICK y \in Nat : y = b * Page
        BY Sizes
      <3>3. o = y + (s + j) /\ f = y + s
        BY <2>3, <3>1, <3>2
      <3> QED BY <3>3
    <2>6. PICK z \in 1 .. n : z = j + 1 /\ f + z - 1 = f + j /\ a + z - 1 = w
      <3>1. j + 1 \in 1 .. n /\ f + (j + 1) - 1 = f + j
        BY <2>1
      <3>2. a + (j + 1) - 1 = w
        BY <1>6, <2>1
      <3> QED BY <3>1, <3>2
    <2>7. <<m.ino, f + z - 1, Part(m)[z]>> \in Written(c)
      BY <1>1, <2>6, Writes
    <2>8. <<m.ino, f + z - 1>> \in Places(Written(c))
      BY <2>7 DEF Places
    <2> QED BY <1>4, <2>4, <2>5, <2>6, <2>8
  <1>11. Cell(k, w) = Cell(mem, w)
    <2>1. CASE w \in Cells
      <3>1. Laid(mem, k, a, vs) /\ Len(vs) = n
        BY <1>1, <1>8, StoresWords
      <3>2. k[w] = mem[w]
        BY <1>10, <2>1, <3>1 DEF Laid
      <3> QED BY <2>1, <3>2 DEF Cell
    <2>2. CASE w \notin Cells
      BY <2>2 DEF Cell
    <2> QED BY <2>1, <2>2
  <1>12. AddressOf(k, i, o) = w
    BY <1>6, <1>7, <1>9, Addressed
  <1> QED BY <1>0, <1>4, <1>5, <1>6, <1>8, <1>9, <1>11, <1>12 DEF InPlace

(* ... and puts its own where they belong, unless it misses.                   *)
LEMMA StoreLands ==
  ASSUME Types, Flow, NEW c \in Client, Operate(c), Stores(c), NEW R, Sound(R), ~Mixed(was.used),
         NEW x \in Written(c), x \notin Missed(c)
  PROVE  InPlace(mem', x)
  <1>1. PICK m \in Locals, n \in Nat, q \in Nat, f \in Nat, a \in Nat, vs \in Seq(Nat) :
          m = me[c] /\ n = Span(m) /\ q = m.ptr /\ f = m.off /\ a = Target(m) /\ vs = Part(m)
    BY Here, Spans, StoresWords
  <1>2. PICK s \in 0 .. Page - 1 : s = f % Page /\ a = q + s
    BY <1>1, Divided DEF Target
  <1>3. IsPage(q)
    BY <1>1 DEF Sound, Holds, Stores, IsBlock
  <1>4. PICK z \in 1 .. n : x = <<m.ino, f + z - 1, vs[z]>> /\ a + z - 1 \in Cells
    BY <1>1, Writes
  <1>5. PICK i \in Nat, o \in Nat, v \in Nat : i = x[1] /\ o = x[2] /\ v = x[3]
    BY WrittenAt DEF StoredAt
  <1>6. o = f + z - 1 /\ v = vs[z]
    BY <1>4, <1>5
  <1>7. AddressOf(mem, i, o) = a + z - 1
    <2>1. AddressOf(mem, i, o) = a + o - f
      BY <1>1, <1>5, Writes
    <2>2. a + o - f = a + z - 1
      BY <1>6
    <2> QED BY <2>1, <2>2
  <1>8. PICK w \in Nat : w = a + z - 1 /\ w # 0
    <2>1. q >= 1
      BY <1>3, NextPage
    <2> QED BY <1>2, <2>1
  <1>9. PICK p : p = PageOf(mem, i, o)
    OBVIOUS
  <1>10. p # 0
    BY <1>7, <1>8, <1>9 DEF AddressOf
  <1>11. PICK used, put : used = was.used /\ put = was.put
    OBVIOUS
  <1>12. IsInode(R, i) /\ o <= Limit /\ <<i, Block(o)>> \in used
    BY <1>5, <1>11, WrittenAt DEF Sound, Lists, StoredAt
  <1>13. mem \in [Cells -> Nat] /\ Tree(R, mem, used, put) /\ ~Mixed(used)
    BY <1>11 DEF Types, Sound
  <1>14. p \in Nat /\ IsBlock(R, p, i, Block(o)) /\ Route(R, mem, i, o, p)
    BY <1>9, <1>10, <1>12, <1>13, Reached
  <1>15. PICK k : k = mem'
    OBVIOUS
  <1>16. PageOf(k, i, o) = p
    <2>1. pc[c] \notin Installs
      BY DEF Stores, Installs
    <2> QED BY <1>14, <1>15, <2>1, Steady, StaysReached
  <1>17. AddressOf(k, i, o) = w
    BY <1>7, <1>8, <1>9, <1>16 DEF AddressOf
  <1>18. Cell(k, w) = v
    <2>1. Laid(mem, k, a, vs) /\ Len(vs) = n
      BY <1>1, <1>15, StoresWords
    <2>2. w >= a /\ w < a + n /\ w - a + 1 = z /\ w \in Cells
      BY <1>4, <1>8
    <2>3. k[w] = vs[z]
      BY <2>1, <2>2 DEF Laid
    <2> QED BY <1>6, <2>2, <2>3 DEF Cell
  <1> QED BY <1>5, <1>10, <1>15, <1>16, <1>17, <1>18 DEF InPlace

(* An operation keeps what was stored.                                         *)
LEMMA OperateKept ==
  ASSUME IInv, Kept, NEW c \in Client, Operate(c)
  PROVE  Kept'
  <1>1. Types /\ Flow /\ was.used \subseteq was'.used
    BY Operates DEF IInv
  <1>2. ASSUME NEW x, StoredAt(was.used, x) PROVE StoredAt(was'.used, x)
    BY <1>1, <1>2 DEF StoredAt
  <1>3. ASSUME ~Mixed(was'.used)
        PROVE  ~Mixed(was.used) /\ \E R : Sound(R)
    <2>1. ~Mixed(was.used)
      BY <1>1, <1>3, Overlays
    <2>2. ~Overlaid
      BY <2>1 DEF Overlaid, Mixed
    <2> QED BY <2>1, <2>2 DEF IInv
  <1>4. /\ \A x \in was.last : StoredAt(was.used, x)
        /\ ~Mixed(was.used) => \A x \in was.last : <<x[1], x[2]>> \in was.lost \/ InPlace(mem, x)
    BY DEF Kept, Keeping
  <1>5. CASE ~Stores(c)
    <2>1. was'.last = was.last /\ was.lost \subseteq was'.lost
      BY <1>1, <1>5, Recorded
    <2>2. pc[c] \in Installs => \A x \in was.last : Strays(x) => <<x[1], x[2]>> \in was'.lost
      BY <1>1, <1>5, Recorded DEF Places
    <2>3. ASSUME ~Mixed(was'.used), NEW x \in was.last
          PROVE  <<x[1], x[2]>> \in was'.lost \/ InPlace(mem', x)
      <3> SUFFICES ASSUME <<x[1], x[2]>> \notin was'.lost PROVE InPlace(mem', x)
        OBVIOUS
      <3>1. PICK R : Sound(R) /\ ~Mixed(was.used)
        BY <1>3, <2>3
      <3>2. StoredAt(was.used, x) /\ InPlace(mem, x)
        BY <1>4, <2>1, <3>1
      <3>3. pc[c] \in Installs => ~Strays(x)
        BY <2>2
      <3> QED BY <1>1, <1>5, <3>1, <3>2, <3>3, StaysIn
    <2> QED BY <1>2, <1>4, <2>1, <2>3 DEF Kept, Keeping
  <1>6. CASE Stores(c)
    <2>1. /\ was'.last = {x \in was.last : <<x[1], x[2]>> \notin Places(Written(c))} \cup Written(c)
          /\ was'.lost = (was.lost \ Places(Written(c))) \cup Places(Missed(c))
      BY <1>1, <1>6, Recorded
    <2>2. ASSUME NEW x \in Written(c) PROVE StoredAt(was.used, x)
      BY <1>1, <1>6, WrittenAt
    <2>3. ASSUME ~Mixed(was'.used), NEW x \in was'.last
          PROVE  <<x[1], x[2]>> \in was'.lost \/ InPlace(mem', x)
      <3> SUFFICES ASSUME <<x[1], x[2]>> \notin was'.lost PROVE InPlace(mem', x)
        OBVIOUS
      <3>1. PICK R : Sound(R) /\ ~Mixed(was.used)
        BY <1>3, <2>3
      <3>2. CASE x \in Written(c)
        <4>1. x \notin Missed(c)
          BY <2>1 DEF Places
        <4> QED BY <1>1, <1>6, <3>1, <3>2, <4>1, StoreLands
      <3>3. CASE x \in was.last /\ <<x[1], x[2]>> \notin Places(Written(c))
        <4>1. StoredAt(was.used, x) /\ InPlace(mem, x)
          BY <1>4, <2>1, <3>1, <3>3
        <4> QED BY <1>1, <1>6, <3>1, <3>3, <4>1, StoreKeeps
      <3> QED BY <2>1, <3>2, <3>3
    <2> QED BY <1>2, <1>4, <2>1, <2>2, <2>3 DEF Kept, Keeping
  <1> QED BY <1>5, <1>6

(* So does every step, and nothing is stored at first.                         *)
LEMMA NextKept ==
  ASSUME IInv, Kept, [Next]_vars
  PROVE  Kept'
  <1>1. ASSUME mem' = mem, was'.used = was.used, was'.last = was.last, was'.lost = was.lost
        PROVE  Kept'
    BY <1>1 DEF Kept
  <1>2. CASE UNCHANGED vars
    BY <1>1, <1>2 DEF vars
  <1>3. ASSUME NEW c \in Client, Step(c) PROVE Kept'
    <2>1. CASE Call(c)
      <3>1. mem' = mem /\ (was' = was \/ \E put : was' = [was EXCEPT !.put = put])
        BY <2>1 DEF Call
      <3>2. was = [used |-> was.used, put |-> was.put, last |-> was.last, lost |-> was.lost]
        BY DEF IInv, Types
      <3>3. was'.used = was.used /\ was'.last = was.last /\ was'.lost = was.lost
        BY <3>1, <3>2
      <3> QED BY <1>1, <3>1, <3>3
    <2>2. CASE Run(c)
      BY <1>1, <2>2 DEF Run
    <2>3. CASE Operate(c)
      BY <2>3, OperateKept
    <2>4. CASE Table(c)
      BY <1>1, <2>4 DEF Table
    <2>5. CASE Return(c)
      BY <1>1, <2>5 DEF Return
    <2> QED BY <1>3, <2>1, <2>2, <2>3, <2>4, <2>5 DEF Step
  <1>4. CASE Finished
    BY <1>2, <1>4 DEF Finished
  <1> QED BY <1>2, <1>3, <1>4 DEF Next

(* A file holds at every offset what was stored there last, unless a pointer   *)
(* on the way was overwritten since its block was looked for.                  *)
THEOREM StoredWordsStay == Spec => []StoredStays
  <1>1. Init => Kept
    BY DEF Init, Kept, Keeping
  <1>2. IInv /\ Kept /\ [Next]_vars => Kept'
    BY NextKept
  <1>3. Kept => StoredStays
    BY DEF Kept, Keeping, InPlace, StoredStays, Overlaid, Mixed
  <1> QED BY <1>1, <1>2, <1>3, StoreInvariance, PTL DEF Spec

-------------------------------------------------------------------------------
(* The words on the way to a block, as memory m has them.                      *)
SecondOf(m, i)   == Cell(m, i + Page - 1)
ThirdOf(m, i, o) == Through(m, SecondOf(m, i), Idx0(o))

(* Memory k is still what store c has read on its way, at label l with m.      *)
NeedsFor(l, m, for) == l \in Allocs /\ m.for = for
Current(k, l, m) ==
  /\ l \in Sets \/ (l \in Allocs /\ m.for # "inode") => PageOf(k, m.ino, m.off) = 0
  /\ l = "makeL2" \/ NeedsFor(l, m, "l2") => SecondOf(k, m.ino) = 0
  /\ l \in {"l3", "setL3", "makeL3"} \/ NeedsFor(l, m, "l3") => m.l2 = SecondOf(k, m.ino)
  /\ l = "makeL3" \/ NeedsFor(l, m, "l3") => ThirdOf(k, m.ino, m.off) = 0
  /\ l \in {"leaf", "setLeaf"} => m.l3 = ThirdOf(k, m.ino, m.off)
  /\ l = "transfer" => m.ptr = PageOf(k, m.ino, m.off)

(* At these labels nothing has been read.                                      *)
Idle == {"ready", "queued", "return", "publish", "lookup", "setLen", "getLen", "length",
         "direct", "l2"}

(* What a store knows at those labels holds of any memory.                     *)
LEMMA IdleCurrent ==
  ASSUME NEW k, NEW l \in Idle, NEW m
  PROVE  Current(k, l, m)
  BY DEF Idle, Current, Sets, Allocs, NeedsFor

(* The page of a block is the end of its way.                                  *)
LEMMA WayTo ==
  ASSUME NEW m, NEW i \in Nat, NEW o \in Nat
  PROVE  /\ IsDirect(o) => PageOf(m, i, o) = Cell(m, i + 1 + Block(o))
         /\ ~IsDirect(o) => PageOf(m, i, o) = Through(m, ThirdOf(m, i, o), Idx1(o))
         /\ SecondOf(m, i) = 0 => ThirdOf(m, i, o) = 0
         /\ ~IsDirect(o) /\ ThirdOf(m, i, o) = 0 => PageOf(m, i, o) = 0
  BY DEF PageOf, SecondOf, ThirdOf, Through

(* What a cell holds is a number.                                              *)
LEMMA CellType ==
  ASSUME NEW m \in [Cells -> Nat], NEW a
  PROVE  Cell(m, a) \in Nat
  BY DEF Cell

(* The counter is on no way.                                                   *)
LEMMA SameWay ==
  ASSUME NEW k \in [Cells -> Nat], NEW h \in [Cells -> Nat],
         \A y \in Nat : y # 0 => Cell(k, y) = Cell(h, y),
         NEW i \in Nat, i # 0, NEW o \in Nat, o <= Limit
  PROVE  /\ SecondOf(k, i) = SecondOf(h, i)
         /\ ~IsDirect(o) => ThirdOf(k, i, o) = ThirdOf(h, i, o)
         /\ PageOf(k, i, o) = PageOf(h, i, o)
  <1>1. SecondOf(k, i) = SecondOf(h, i)
    <2>1. PICK y \in Nat : y = i + Page - 1 /\ y # 0
      BY Sizes
    <2> QED BY <2>1 DEF SecondOf
  <1>2. ASSUME NEW p \in Nat, NEW n \in Nat PROVE Through(k, p, n) = Through(h, p, n)
    <2>1. p # 0 => p + n \in Nat /\ p + n # 0
      OBVIOUS
    <2> QED BY <2>1 DEF Through
  <1>3. CASE IsDirect(o)
    <2>1. PICK y \in Nat : y = i + 1 + Block(o) /\ y # 0
      BY Levels
    <2> QED BY <1>1, <1>3, <2>1, WayTo
  <1>4. CASE ~IsDirect(o)
    <2>1. PICK x \in Nat, z \in Nat : x = Idx0(o) /\ z = Idx1(o)
      BY <1>4, Levels
    <2>2. PICK s \in Nat : s = SecondOf(k, i)
      BY CellType DEF SecondOf
    <2>3. ThirdOf(k, i, o) = ThirdOf(h, i, o)
      BY <1>1, <1>2, <2>1, <2>2 DEF ThirdOf
    <2>4. PICK t \in Nat : t = ThirdOf(k, i, o)
      BY CellType DEF ThirdOf, Through
    <2> QED BY <1>1, <1>2, <1>4, <2>1, <2>3, <2>4, WayTo
  <1> QED BY <1>3, <1>4

(* Words of pages of different kinds are different.                            *)
LEMMA KindsApart ==
  ASSUME NEW R, NEW p \in Nat, NEW q \in Nat, IsPage(p), IsPage(q), R[p].kind # R[q].kind,
         NEW n \in 0 .. Page - 1, NEW k \in 0 .. Page - 1
  PROVE  p + n # q + k
  BY PagesDisjoint

(* A page of its own is empty.                                                 *)
LEMMA EmptyOwn ==
  ASSUME NEW R, NEW m \in [Cells -> Nat], NEW used, NEW put, Tree(R, m, used, put), NEW c,
         NEW p \in Nat, IsOwn(R, c, p), NEW n \in 0 .. Page - 1
  PROVE  Cell(m, p + n) = 0
  <1>1. IsPage(p) /\ R[p].kind = "own"
    BY DEF IsOwn, Own, Role
  <1>2. p + n \in Cells => m[p + n] = 0
    BY <1>1 DEF Tree, WordOK
  <1> QED BY <1>2 DEF Cell

(* The store still works on the same offset of the same inode.                 *)
Ways(m, n) == n.ino = m.ino /\ n.off = m.off

(* A store that goes to a label or notes one page forgets nothing else.        *)
LEMMA Noted ==
  ASSUME Types, NEW c \in Client, NEW v \in Nat
  PROVE  /\ \A l : Goto(c, l) => pc'[c] = l
         /\ Set(c, "ptr", v) => /\ Ways(me[c], me'[c]) /\ me'[c].ptr = v /\ me'[c].for = me[c].for
                                /\ me'[c].l2 = me[c].l2 /\ me'[c].l3 = me[c].l3
         /\ Set(c, "l2", v) => /\ Ways(me[c], me'[c]) /\ me'[c].l2 = v /\ me'[c].for = me[c].for
                               /\ me'[c].ptr = me[c].ptr /\ me'[c].l3 = me[c].l3
         /\ Set(c, "l3", v) => /\ Ways(me[c], me'[c]) /\ me'[c].l3 = v /\ me'[c].for = me[c].for
                               /\ me'[c].ptr = me[c].ptr /\ me'[c].l2 = me[c].l2
         /\ Set(c, "page", v) => /\ Ways(me[c], me'[c]) /\ me'[c].for = me[c].for
                                 /\ me'[c].ptr = me[c].ptr /\ me'[c].l2 = me[c].l2
                                 /\ me'[c].l3 = me[c].l3
  <1>1. ASSUME NEW m, me' = [me EXCEPT ![c] = m] PROVE me'[c] = m
    BY <1>1 DEF Types
  <1>2. me[c] \in Locals
    BY DEF Types
  <1>3. ASSUME NEW l, Goto(c, l) PROVE pc'[c] = l
    BY <1>3 DEF Goto, Types
  <1>4. ASSUME Set(c, "ptr", v)
        PROVE  /\ Ways(me[c], me'[c]) /\ me'[c].ptr = v
               /\ me'[c].for = me[c].for /\ me'[c].l2 = me[c].l2 /\ me'[c].l3 = me[c].l3
    <2>1. PICK n : n = [me[c] EXCEPT !.ptr = v]
      OBVIOUS
    <2>2. me'[c] = n
      BY <1>1, <1>4, <2>1, Setting
    <2> QED BY <1>2, <2>1, <2>2, Changed DEF Alike, Ways
  <1>5. ASSUME Set(c, "l2", v)
        PROVE  /\ Ways(me[c], me'[c]) /\ me'[c].l2 = v
               /\ me'[c].for = me[c].for /\ me'[c].ptr = me[c].ptr /\ me'[c].l3 = me[c].l3
    <2>1. PICK n : n = [me[c] EXCEPT !.l2 = v]
      OBVIOUS
    <2>2. me'[c] = n
      BY <1>1, <1>5, <2>1, Setting
    <2> QED BY <1>2, <2>1, <2>2, Changed DEF Alike, Ways
  <1>6. ASSUME Set(c, "l3", v)
        PROVE  /\ Ways(me[c], me'[c]) /\ me'[c].l3 = v
               /\ me'[c].for = me[c].for /\ me'[c].ptr = me[c].ptr /\ me'[c].l2 = me[c].l2
    <2>1. PICK n : n = [me[c] EXCEPT !.l3 = v]
      OBVIOUS
    <2>2. me'[c] = n
      BY <1>1, <1>6, <2>1, Setting
    <2> QED BY <1>2, <2>1, <2>2, Changed DEF Alike, Ways
  <1>7. ASSUME Set(c, "page", v)
        PROVE  /\ Ways(me[c], me'[c])
               /\ me'[c].for = me[c].for /\ me'[c].ptr = me[c].ptr /\ me'[c].l2 = me[c].l2 /\ me'[c].l3 = me[c].l3
    <2>1. PICK n : n = [me[c] EXCEPT !.page = v]
      OBVIOUS
    <2>2. me'[c] = n
      BY <1>1, <1>7, <2>1, Setting
    <2> QED BY <1>2, <2>1, <2>2, Changed DEF Alike, Ways
  <1> QED BY <1>3, <1>4, <1>5, <1>6, <1>7

(* So it is when it needs one.                                                 *)
LEMMA NotedFor ==
  ASSUME Types, NEW c \in Client, NEW for \in {"inode", "block", "l2", "l3"}, NeedPage(c, for)
  PROVE  /\ pc'[c] = "allocRead" /\ Ways(me[c], me'[c]) /\ me'[c].for = for
         /\ me'[c].ptr = me[c].ptr /\ me'[c].l2 = me[c].l2 /\ me'[c].l3 = me[c].l3
  <1>1. pc'[c] = "allocRead" /\ me' = [me EXCEPT ![c] = [me[c] EXCEPT !.for = for]]
    BY Setting DEF NeedPage, Goto, Types
  <1>2. PICK n : n = [me[c] EXCEPT !.for = for]
    OBVIOUS
  <1>3. me'[c] = n /\ me[c] \in Locals
    BY <1>1, <1>2 DEF Types
  <1>4. /\ n.ino = me[c].ino /\ n.off = me[c].off /\ n.for = for
        /\ n.ptr = me[c].ptr /\ n.l2 = me[c].l2 /\ n.l3 = me[c].l3
    BY <1>2, <1>3 DEF Locals
  <1> QED BY <1>1, <1>3, <1>4 DEF Ways

(* A refused operation and the end of access() leave nothing behind.           *)
LEMMA Leaving ==
  ASSUME Types, NEW c \in Client, NEW v, NEW m, NEW rc,
         Returns(c, v) \/ EndAccess(c, m, rc)
  PROVE  pc'[c] \in {"queued", "return"}
  BY DEF Types, Returns, EndAccess, Goto

(* A store that allocates still knows what it knew.                            *)
LEMMA CurrentAlloc ==
  ASSUME Types, Flow, NEW c \in Client, Operate(c), pc[c] \in Allocs, Current(mem, pc[c], me[c])
  PROVE  Current(mem', pc'[c], me'[c])
  <1>1. PICK i \in Nat, o \in Nat, s \in Nat, v \in Nat :
          i = me[c].ino /\ o = me[c].off /\ s = me[c].l2 /\ v = me[c].page
    BY Here
  <1>2. mem \in [Cells -> Nat] /\ mem' \in [Cells -> Nat]
    BY Progress DEF Good, Types
  <1>3. \A y \in Nat : y # 0 => Cell(mem', y) = Cell(mem, y)
    <2>1. mem' = mem \/ \E w : mem' = [mem EXCEPT ![0] = w]
      <3>1. CASE pc[c] = "allocRead"
        <4>1. OpOf(c) = Read(0, 1)
          BY <3>1 DEF OpOf
        <4> QED BY <4>1, Peek
      <3>2. CASE pc[c] = "allocCas"
        <4>1. PICK w : OpOf(c) = Cas(0, v, w)
          BY <1>1, <3>2 DEF OpOf
        <4>2. mem' = Effect(Cas(0, v, w), mem)
          BY <4>1, Operates
        <4> QED BY <4>2, CasOne
      <3> QED BY <3>1, <3>2 DEF Allocs
    <2> QED BY <1>2, <2>1 DEF Cell
  <1>4. \/ pc'[c] \in Idle
        \/ /\ pc'[c] \in Allocs /\ Ways(me[c], me'[c]) /\ me'[c].for = me[c].for
           /\ me'[c].l2 = me[c].l2
        \/ /\ me[c].for = "block" /\ pc'[c] \in {"setDirect", "setL2"} /\ Ways(me[c], me'[c])
        \/ /\ me[c].for = "l2" /\ pc'[c] = "makeL2" /\ Ways(me[c], me'[c])
        \/ /\ me[c].for = "l3" /\ pc'[c] = "makeL3" /\ Ways(me[c], me'[c]) /\ me'[c].l2 = me[c].l2
    <2>1. PICK res : res = Outcome(OpOf(c), mem)
      OBVIOUS
    <2>2. \/ Returns(c, Exception)
          \/ res.error = "OK" /\ AfterAlloc(c, res.result[1])
      BY <2>1, Answered DEF Allocs, Finds, Sets
    <2>3. CASE Returns(c, Exception)
      BY <2>3, Leaving DEF Idle
    <2>4. CASE /\ pc[c] = "allocRead" /\ res.error = "OK"
               /\ Set(c, "page", res.result[1]) /\ Goto(c, "allocCas")
      <3>1. OpOf(c) = Read(0, 1)
        BY <2>4 DEF OpOf
      <3>2. PICK w \in Nat : w = res.result[1]
        BY <2>1, <2>4, <3>1, Peek
      <3> QED BY <2>4, <3>2, Noted DEF Allocs
    <2>5. CASE Goto(c, "allocRead") /\ UNCHANGED me
      <3>1. pc'[c] = "allocRead"
        BY <2>5 DEF Goto, Types
      <3> QED BY <2>5, <3>1 DEF Allocs, Ways
    <2>6. CASE UsePage(c)
      <3>1. me[c].for \in {"inode", "block", "l2", "l3"}
        BY DEF Types, Locals
      <3>2. CASE me[c].for = "inode"
        BY <2>6, <3>2, Noted DEF UsePage, Idle
      <3>3. CASE me[c].for = "block"
        BY <1>1, <2>6, <3>3, Noted DEF UsePage
      <3>4. CASE me[c].for = "l2"
        BY <1>1, <2>6, <3>4, Noted DEF UsePage
      <3>5. CASE me[c].for = "l3"
        BY <1>1, <2>6, <3>5, Noted DEF UsePage
      <3> QED BY <3>1, <3>2, <3>3, <3>4, <3>5
    <2> QED BY <2>2, <2>3, <2>4, <2>5, <2>6 DEF AfterAlloc
  <1>5. CASE pc'[c] \in Idle
    BY <1>5, IdleCurrent
  <1>6. CASE me[c].for = "inode" /\ pc'[c] \in Allocs /\ me'[c].for = me[c].for
    BY <1>6 DEF Current, Sets, Allocs, NeedsFor
  <1>7. CASE me[c].for # "inode"
    <2>1. i # 0 /\ o <= Limit
      <3>1. InAccess(c)
        BY <1>7 DEF InAccess
      <3> QED BY <1>1, <3>1, Accessing DEF Types
    <2>2. me[c].for = "l3" => ~IsDirect(o)
      BY <1>1, Here DEF FlowAt, PathOK, Late
    <2>3. PICK k \in [Cells -> Nat] : k = mem'
      BY <1>2
    <2>4. /\ SecondOf(k, i) = SecondOf(mem, i) /\ PageOf(k, i, o) = PageOf(mem, i, o)
          /\ ~IsDirect(o) => ThirdOf(k, i, o) = ThirdOf(mem, i, o)
      BY <1>2, <1>3, <2>1, <2>3, SameWay
    <2>5. /\ PageOf(k, i, o) = 0
          /\ me[c].for = "l2" => SecondOf(k, i) = 0
          /\ me[c].for = "l3" => s = SecondOf(k, i) /\ ThirdOf(k, i, o) = 0
      BY <1>1, <1>7, <2>2, <2>4 DEF Current, NeedsFor
    <2>6. CASE pc'[c] \in Allocs /\ Ways(me[c], me'[c]) /\ me'[c].for = me[c].for /\ me'[c].l2 = me[c].l2
      BY <1>1, <1>7, <2>3, <2>5, <2>6 DEF Current, NeedsFor, Ways, Allocs, Sets
    <2>7. CASE me[c].for = "block" /\ pc'[c] \in {"setDirect", "setL2"} /\ Ways(me[c], me'[c])
      BY <1>1, <2>3, <2>5, <2>7 DEF Current, NeedsFor, Ways, Allocs, Sets
    <2>8. CASE me[c].for = "l2" /\ pc'[c] = "makeL2" /\ Ways(me[c], me'[c])
      BY <1>1, <2>3, <2>5, <2>8 DEF Current, NeedsFor, Ways, Allocs, Sets
    <2>9. CASE me[c].for = "l3" /\ pc'[c] = "makeL3" /\ Ways(me[c], me'[c]) /\ me'[c].l2 = me[c].l2
      BY <1>1, <2>3, <2>5, <2>9 DEF Current, NeedsFor, Ways, Allocs, Sets
    <2> QED BY <1>4, <1>5, <2>6, <2>7, <2>8, <2>9
  <1> QED BY <1>4, <1>5, <1>6, <1>7

(* So does one that has found the page of its block, or that there is none.    *)
LEMMA CurrentFound ==
  ASSUME Types, NEW c \in Client, NEW v \in Nat, Found(c, v), mem' = mem,
         v = PageOf(mem, me[c].ino, me[c].off)
  PROVE  Current(mem', pc'[c], me'[c])
  <1>1. \/ Goto(c, "transfer") /\ Set(c, "ptr", v)
        \/ v = 0 /\ NeedPage(c, "block")
        \/ EndAccess(c, me[c], Refused)
    BY DEF Found
  <1>2. CASE Goto(c, "transfer") /\ Set(c, "ptr", v)
    <2>1. pc'[c] = "transfer" /\ Ways(me[c], me'[c]) /\ me'[c].ptr = v
      BY <1>2, Noted
    <2> QED BY <2>1 DEF Current, Ways, Sets, Allocs, NeedsFor
  <1>3. CASE v = 0 /\ NeedPage(c, "block")
    <2>1. pc'[c] = "allocRead" /\ Ways(me[c], me'[c]) /\ me'[c].for = "block"
      BY <1>3, NotedFor
    <2> QED BY <1>3, <2>1 DEF Current, Ways, Sets, Allocs, NeedsFor
  <1>4. CASE EndAccess(c, me[c], Refused)
    BY <1>4, Leaving, IdleCurrent DEF Idle
  <1> QED BY <1>1, <1>2, <1>3, <1>4

(* A put or a get is of an inode that is listed, and of an offset in reach.    *)
LEMMA Accesses ==
  ASSUME Types, Flow, NEW c \in Client, pc[c] \in Finds \cup Sets, NEW R, Sound(R)
  PROVE  /\ IsInode(R, me[c].ino) /\ IsPage(me[c].ino) /\ R[me[c].ino].kind = "inode"
         /\ me[c].off <= Limit
         /\ pc[c] \in {"direct", "setDirect"} => IsDirect(me[c].off)
         /\ pc[c] \notin {"direct", "setDirect"} => ~IsDirect(me[c].off)
         /\ pc[c] \notin {"direct", "l2"} => <<me[c].ino, Block(me[c].off)>> \in was.used
         /\ Holds(R, c, pc[c], job[c], me[c], was.put)
  <1>1. me[c].ino = inode[c] /\ me[c].off <= Limit
    <2>1. InAccess(c)
      BY DEF InAccess
    <2> QED BY <2>1, Accessing
  <1>2. IsInode(R, me[c].ino) /\ IsPage(me[c].ino) /\ R[me[c].ino].kind = "inode"
    BY <1>1 DEF Sound, Lists, IsInode, Inode, Role
  <1>3. PathOK(pc[c], me[c], was.used)
    BY Here DEF FlowAt
  <1> QED BY <1>1, <1>2, <1>3 DEF PathOK, Finds, Sets, Sound

(* So does one that looks for its block.                                       *)
LEMMA CurrentFind ==
  ASSUME Types, Flow, NEW c \in Client, Operate(c), pc[c] \in Finds, Current(mem, pc[c], me[c]),
         NEW R, Sound(R)
  PROVE  Current(mem', pc'[c], me'[c])
  <1>1. PICK i \in Nat, o \in Nat, s \in Nat, t \in Nat :
          i = me[c].ino /\ o = me[c].off /\ s = me[c].l2 /\ t = me[c].l3
    BY Here
  <1>2. /\ o <= Limit /\ (pc[c] = "direct" => IsDirect(o)) /\ (pc[c] # "direct" => ~IsDirect(o))
        /\ Holds(R, c, pc[c], job[c], me[c], was.put)
    BY <1>1, Accesses DEF Finds
  <1>3. PICK res : res = Outcome(OpOf(c), mem)
    OBVIOUS
  <1>4. \/ Returns(c, Exception)
        \/ res.error = "OK" /\ AfterFind(c, res.result[1])
    BY <1>3, Answered DEF Allocs, Finds, Sets
  <1>5. CASE Returns(c, Exception)
    BY <1>5, Leaving, IdleCurrent DEF Idle
  <1>6. ASSUME NEW a \in Nat, OpOf(c) = Read(a, 1), res.error = "OK"
        PROVE  mem' = mem /\ res.result[1] = Cell(mem, a) /\ res.result[1] \in Nat
    BY <1>3, <1>6, Peek DEF Cell
  <1>7. CASE pc[c] = "direct" /\ res.error = "OK"
    <2>1. PICK a \in Nat : a = i + 1 + Block(o) /\ OpOf(c) = Read(a, 1)
      <3>1. i + 1 + Block(o) \in Nat
        BY <1>2, <1>7, Levels
      <3> QED BY <1>1, <1>7, <3>1 DEF OpOf
    <2>2. PICK v \in Nat : v = res.result[1] /\ v = Cell(mem, a) /\ mem' = mem
      BY <1>6, <1>7, <2>1
    <2>3. v = PageOf(mem, i, o)
      BY <1>2, <1>7, <2>1, <2>2, WayTo
    <2>4. Found(c, v) \/ Returns(c, Exception)
      BY <1>4, <1>7, <2>2 DEF AfterFind
    <2> QED BY <1>1, <1>5, <2>2, <2>3, <2>4, CurrentFound
  <1>8. CASE pc[c] = "l2" /\ res.error = "OK"
    <2>1. PICK a \in Nat : a = i + Page - 1 /\ OpOf(c) = Read(a, 1)
      <3>1. i + Page - 1 \in Nat
        BY Sizes
      <3> QED BY <1>1, <1>8, <3>1 DEF OpOf
    <2>2. PICK v \in Nat : v = res.result[1] /\ v = Cell(mem, a) /\ mem' = mem
      BY <1>6, <1>8, <2>1
    <2>3. v = SecondOf(mem, i)
      BY <2>1, <2>2 DEF SecondOf
    <2>4. \/ v = 0 /\ Found(c, v)
          \/ Set(c, "l2", v) /\ Goto(c, "l3")
          \/ Returns(c, Exception)
      BY <1>4, <1>8, <2>2 DEF AfterFind
    <2>5. CASE v = 0 /\ Found(c, v)
      <3>1. v = PageOf(mem, i, o)
        <4>1. ~IsDirect(o) /\ SecondOf(mem, i) = 0 /\ v = 0
          BY <1>2, <1>8, <2>3, <2>5
        <4>2. ThirdOf(mem, i, o) = 0
          BY <4>1 DEF ThirdOf, Through
        <4>3. PageOf(mem, i, o) = 0
          BY <4>1, <4>2, WayTo
        <4> QED BY <4>1, <4>3
      <3> QED BY <1>1, <2>2, <2>5, <3>1, CurrentFound
    <2>6. CASE Set(c, "l2", v) /\ Goto(c, "l3")
      <3>1. pc'[c] = "l3" /\ Ways(me[c], me'[c]) /\ me'[c].l2 = v
        BY <2>6, Noted
      <3> QED BY <1>1, <2>2, <2>3, <3>1 DEF Current, Ways, Sets, Allocs, NeedsFor
    <2> QED BY <1>5, <2>4, <2>5, <2>6
  <1>9. CASE pc[c] = "l3" /\ res.error = "OK"
    <2>1. IsSecond(R, s, i) /\ s = SecondOf(mem, i)
      BY <1>1, <1>2, <1>9 DEF Holds, Current
    <2>2. PICK a \in Nat : a = s + Idx0(o) /\ OpOf(c) = Read(a, 1)
      <3>1. s + Idx0(o) \in Nat
        BY <1>2, <1>9, Levels
      <3> QED BY <1>1, <1>9, <3>1 DEF OpOf
    <2>3. PICK v \in Nat : v = res.result[1] /\ v = Cell(mem, a) /\ mem' = mem
      BY <1>6, <1>9, <2>2
    <2>4. s # 0
      BY <2>1, NextPage DEF IsSecond
    <2>5. v = ThirdOf(mem, i, o)
      BY <2>1, <2>2, <2>3, <2>4 DEF ThirdOf, Through
    <2>6. \/ v = 0 /\ Found(c, v)
          \/ Set(c, "l3", v) /\ Goto(c, "leaf")
          \/ Returns(c, Exception)
      BY <1>4, <1>9, <2>3 DEF AfterFind
    <2>7. CASE v = 0 /\ Found(c, v)
      <3>1. v = PageOf(mem, i, o)
        <4>1. ~IsDirect(o) /\ ThirdOf(mem, i, o) = 0 /\ v = 0
          BY <1>2, <1>9, <2>5, <2>7
        <4>2. PageOf(mem, i, o) = 0
          BY <4>1, WayTo
        <4> QED BY <4>1, <4>2
      <3> QED BY <1>1, <2>3, <2>7, <3>1, CurrentFound
    <2>8. CASE Set(c, "l3", v) /\ Goto(c, "leaf")
      <3>1. pc'[c] = "leaf" /\ Ways(me[c], me'[c]) /\ me'[c].l3 = v
        BY <2>8, Noted
      <3> QED BY <1>1, <2>3, <2>5, <3>1 DEF Current, Ways, Sets, Allocs, NeedsFor
    <2> QED BY <1>5, <2>6, <2>7, <2>8
  <1>10. CASE pc[c] = "leaf" /\ res.error = "OK"
    <2>1. IsThird(R, t, i, Idx0(o)) /\ t = ThirdOf(mem, i, o)
      BY <1>1, <1>2, <1>10 DEF Holds, Current
    <2>2. PICK a \in Nat : a = t + Idx1(o) /\ OpOf(c) = Read(a, 1)
      <3>1. t + Idx1(o) \in Nat
        BY <1>2, <1>10, Levels
      <3> QED BY <1>1, <1>10, <3>1 DEF OpOf
    <2>3. PICK v \in Nat : v = res.result[1] /\ v = Cell(mem, a) /\ mem' = mem
      BY <1>6, <1>10, <2>2
    <2>4. t # 0
      BY <2>1, NextPage DEF IsThird
    <2>5. v = PageOf(mem, i, o)
      <3>1. Through(mem, t, Idx1(o)) = v
        BY <2>2, <2>3, <2>4 DEF Through
      <3> QED BY <1>2, <1>10, <2>1, <3>1, WayTo
    <2>6. Found(c, v) \/ Returns(c, Exception)
      BY <1>4, <1>10, <2>3 DEF AfterFind
    <2> QED BY <1>1, <1>5, <2>3, <2>5, <2>6, CurrentFound
  <1> QED BY <1>4, <1>5, <1>7, <1>8, <1>9, <1>10 DEF Finds

(* What a write of one word leaves.                                            *)
LEMMA Poked ==
  ASSUME Types, NEW c \in Client, Operate(c), NEW a \in Nat, NEW v \in Nat,
         OpOf(c) = Write(a, <<v>>), Outcome(OpOf(c), mem).error = "OK"
  PROVE  Cell(mem', a) = v /\ \A y : y # a => Cell(mem', y) = Cell(mem, y)
  <1>1. a \in Cells /\ mem' = [mem EXCEPT ![a] = v]
    BY Poke
  <1>2. mem \in [Cells -> Nat]
    BY DEF Types
  <1> QED BY <1>1, <1>2 DEF Cell

(* setBlock: the pointer to a direct block, ...                                *)
LEMMA CurrentSetDirect ==
  ASSUME Types, Flow, NEW c \in Client, Operate(c), pc[c] = "setDirect", NEW R, Sound(R),
         Outcome(OpOf(c), mem).error = "OK", pc'[c] = "transfer", me' = me
  PROVE  Current(mem', pc'[c], me'[c])
  <1>1. PICK i \in Nat, o \in Nat, p \in Nat : i = me[c].ino /\ o = me[c].off /\ p = me[c].ptr
    BY Here
  <1>2. o <= Limit /\ IsDirect(o)
    BY <1>1, Accesses DEF Sets
  <1>3. PICK a \in Nat : a = i + 1 + Block(o) /\ OpOf(c) = Write(a, <<p>>)
    <2>1. i + 1 + Block(o) \in Nat
      BY <1>2, Levels
    <2> QED BY <1>1, <2>1 DEF OpOf
  <1>4. PICK k : k = mem'
    OBVIOUS
  <1>5. Cell(k, a) = p
    BY <1>3, <1>4, Poked
  <1>6. PageOf(k, i, o) = p
    BY <1>2, <1>3, <1>5, WayTo
  <1> QED BY <1>1, <1>4, <1>6 DEF Current, Sets, Allocs, NeedsFor

(* ... the word of the second level in the inode, ...                          *)
LEMMA CurrentMakeL2 ==
  ASSUME Types, Flow, NEW c \in Client, Operate(c), pc[c] = "makeL2", NEW R, Sound(R),
         Outcome(OpOf(c), mem).error = "OK", pc'[c] = "setL3", me' = me
  PROVE  Current(mem', pc'[c], me'[c])
  <1>1. PICK i \in Nat, o \in Nat, s \in Nat : i = me[c].ino /\ o = me[c].off /\ s = me[c].l2
    BY Here
  <1>2. /\ o <= Limit /\ ~IsDirect(o) /\ IsPage(i) /\ R[i].kind = "inode"
        /\ IsOwn(R, c, s)
    BY <1>1, Accesses DEF Sets, Holds
  <1>3. PICK w \in 0 .. Page - 1, a \in Nat :
          w = Page - 1 /\ a = i + w /\ a = i + Page - 1 /\ OpOf(c) = Write(a, <<s>>)
    <2>1. Page - 1 \in 0 .. Page - 1 /\ i + Page - 1 \in Nat /\ i + (Page - 1) = i + Page - 1
      BY Sizes
    <2> QED BY <1>1, <2>1 DEF OpOf
  <1>4. PICK k : k = mem'
    OBVIOUS
  <1>5. Cell(k, a) = s /\ \A y : y # a => Cell(k, y) = Cell(mem, y)
    BY <1>3, <1>4, Poked
  <1>6. SecondOf(k, i) = s
    BY <1>3, <1>5 DEF SecondOf
  <1>7. PICK n \in 0 .. Page - 1 : n = Idx0(o)
    BY <1>2, Levels
  <1>8. Cell(mem, s + n) = 0
    <2>1. PICK used, put : used = was.used /\ put = was.put
      OBVIOUS
    <2>2. Tree(R, mem, used, put) /\ mem \in [Cells -> Nat]
      BY <2>1 DEF Sound, Types
    <2> QED BY <1>2, <2>2, EmptyOwn
  <1>9. s + n # a
    <2>1. IsPage(s) /\ R[s].kind # R[i].kind
      BY <1>2 DEF IsOwn, Own, Role
    <2>2. s + n # i + w
      BY <1>2, <2>1, KindsApart
    <2> QED BY <1>3, <2>2
  <1>10. ThirdOf(k, i, o) = 0
    BY <1>5, <1>6, <1>7, <1>8, <1>9 DEF ThirdOf, Through
  <1>11. PageOf(k, i, o) = 0
    BY <1>2, <1>10, WayTo
  <1> QED BY <1>1, <1>4, <1>6, <1>11 DEF Current, Sets, Allocs, NeedsFor

(* ... the word of the third level in the second, ...                          *)
LEMMA CurrentMakeL3 ==
  ASSUME Types, Flow, NEW c \in Client, Operate(c), pc[c] = "makeL3", NEW R, Sound(R),
         Current(mem, pc[c], me[c]),
         Outcome(OpOf(c), mem).error = "OK", pc'[c] = "setLeaf", me' = me
  PROVE  Current(mem', pc'[c], me'[c])
  <1>1. PICK i \in Nat, o \in Nat, s \in Nat, t \in Nat :
          i = me[c].ino /\ o = me[c].off /\ s = me[c].l2 /\ t = me[c].l3
    BY Here
  <1>2. /\ o <= Limit /\ ~IsDirect(o) /\ IsPage(i) /\ R[i].kind = "inode"
        /\ IsOwn(R, c, t) /\ IsSecond(R, s, i)
    BY <1>1, Accesses DEF Sets, Holds
  <1>3. IsPage(t) /\ R[t].kind = "own" /\ IsPage(s) /\ R[s].kind = "second"
    BY <1>2 DEF IsOwn, Own, Role, IsSecond
  <1>4. PICK n \in 0 .. Page - 1, l \in 0 .. Page - 1 : n = Idx0(o) /\ l = Idx1(o)
    BY <1>2, Levels
  <1>5. PICK a \in Nat : a = s + n /\ OpOf(c) = Write(a, <<t>>)
    <2>1. s + n \in Nat
      BY Sizes
    <2> QED BY <1>1, <1>4, <2>1 DEF OpOf
  <1>6. PICK k : k = mem'
    OBVIOUS
  <1>7. Cell(k, a) = t /\ \A y : y # a => Cell(k, y) = Cell(mem, y)
    BY <1>5, <1>6, Poked
  <1>8. SecondOf(k, i) = s
    <2>1. PICK w \in 0 .. Page - 1 : w = Page - 1 /\ i + w = i + Page - 1
      BY Sizes
    <2>2. i + w # s + n
      BY <1>2, <1>3, KindsApart
    <2>3. Cell(k, i + Page - 1) = Cell(mem, i + Page - 1)
      BY <1>5, <1>7, <2>1, <2>2
    <2> QED BY <1>1, <2>3 DEF SecondOf, Current
  <1>9. s # 0 /\ t # 0
    BY <1>3, NextPage
  <1>10. ThirdOf(k, i, o) = t
    BY <1>4, <1>5, <1>7, <1>8, <1>9 DEF ThirdOf, Through
  <1>11. Cell(k, t + l) = 0
    <2>1. PICK used, put : used = was.used /\ put = was.put
      OBVIOUS
    <2>2. Tree(R, mem, used, put) /\ mem \in [Cells -> Nat]
      BY <2>1 DEF Sound, Types
    <2>3. Cell(mem, t + l) = 0
      BY <1>2, <2>2, EmptyOwn
    <2>4. t + l # s + n
      BY <1>3, KindsApart
    <2> QED BY <1>5, <1>7, <2>3, <2>4
  <1>12. PageOf(k, i, o) = 0
    BY <1>2, <1>4, <1>10, <1>11, WayTo DEF Through
  <1> QED BY <1>1, <1>6, <1>10, <1>12 DEF Current, Sets, Allocs, NeedsFor

(* ... and the pointer in the third level.                                     *)
LEMMA CurrentSetLeaf ==
  ASSUME Types, Flow, NEW c \in Client, Operate(c), pc[c] = "setLeaf", NEW R, Sound(R),
         ~Mixed(was.used), Current(mem, pc[c], me[c]),
         Outcome(OpOf(c), mem).error = "OK", pc'[c] = "transfer", me' = me
  PROVE  Current(mem', pc'[c], me'[c])
  <1>1. PICK i \in Nat, o \in Nat, t \in Nat, p \in Nat :
          i = me[c].ino /\ o = me[c].off /\ t = me[c].l3 /\ p = me[c].ptr
    BY Here
  <1>2. /\ o <= Limit /\ ~IsDirect(o) /\ IsInode(R, i) /\ IsPage(i) /\ R[i].kind = "inode"
        /\ IsThird(R, t, i, Idx0(o)) /\ <<i, Block(o)>> \in was.used
    BY <1>1, Accesses DEF Sets, Holds
  <1>3. IsPage(t) /\ R[t].kind = "third" /\ t # 0 /\ t = ThirdOf(mem, i, o)
    <2>1. IsPage(t) /\ R[t].kind = "third" /\ t = ThirdOf(mem, i, o)
      BY <1>1, <1>2 DEF IsThird, Current
    <2> QED BY <2>1, NextPage
  <1>4. PICK n \in 0 .. Page - 1, l \in 0 .. Page - 1 : n = Idx0(o) /\ l = Idx1(o)
    BY <1>2, Levels
  <1>5. PICK a \in Nat : a = t + l /\ OpOf(c) = Write(a, <<p>>)
    <2>1. t + l \in Nat
      BY Sizes
    <2> QED BY <1>1, <1>4, <2>1 DEF OpOf
  <1>6. PICK k : k = mem'
    OBVIOUS
  <1>7. Cell(k, a) = p /\ \A y : y # a => Cell(k, y) = Cell(mem, y)
    BY <1>5, <1>6, Poked
  <1>8. PICK w \in 0 .. Page - 1 : w = Page - 1 /\ i + w = i + Page - 1 /\ i + w = i + (Page - 1)
    BY Sizes
  <1>9. SecondOf(k, i) = SecondOf(mem, i)
    <2>1. i + w # t + l
      BY <1>2, <1>3, KindsApart
    <2> QED BY <1>5, <1>7, <1>8, <2>1 DEF SecondOf
  <1>10. PICK s \in Nat : s = SecondOf(mem, i) /\ s # 0
    <2>1. SecondOf(mem, i) \in Nat
      BY CellType DEF SecondOf, Types
    <2> QED BY <1>3, <2>1, WayTo
  <1>11. IsPage(s) /\ R[s].kind = "second"
    <2>1. i + (Page - 1) \in Cells /\ mem[i + (Page - 1)] = s
      BY <1>8, <1>10 DEF SecondOf, Cell
    <2>2. PICK used : used = was.used
      OBVIOUS
    <2>3. Before(R, c, used) /\ <<i, Block(o)>> \in used
      BY <1>2, <2>2 DEF Before, Sound
    <2>4. IsSecond(R, s, i)
      BY <1>2, <1>10, <2>1, <2>3, SeesSecond
    <2> QED BY <2>4 DEF IsSecond
  <1>12. Cell(k, s + n) = Cell(mem, s + n)
    <2>1. s + n # t + l
      BY <1>3, <1>11, KindsApart
    <2> QED BY <1>5, <1>7, <2>1
  <1>13. ThirdOf(k, i, o) = t
    BY <1>3, <1>4, <1>9, <1>10, <1>12 DEF ThirdOf, Through
  <1>14. PageOf(k, i, o) = p
    <2>1. PageOf(k, i, o) = Through(k, t, l)
      BY <1>2, <1>4, <1>13, WayTo
    <2> QED BY <1>3, <1>5, <1>7, <2>1 DEF Through
  <1> QED BY <1>1, <1>6, <1>14 DEF Current, Sets, Allocs, NeedsFor

(* So a store that sets pointers still knows what it knew.                     *)
LEMMA CurrentSet ==
  ASSUME Types, Flow, NEW c \in Client, Operate(c), pc[c] \in Sets, Current(mem, pc[c], me[c]),
         NEW R, Sound(R), ~Mixed(was.used)
  PROVE  Current(mem', pc'[c], me'[c])
  <1>1. PICK i \in Nat, o \in Nat, s \in Nat :
          i = me[c].ino /\ o = me[c].off /\ s = me[c].l2
    BY Here
  <1>2. PICK res : res = Outcome(OpOf(c), mem)
    OBVIOUS
  <1>3. \/ Returns(c, Exception)
        \/ res.error = "OK" /\ AfterInstall(c, res.result[1])
    BY <1>2, Answered DEF Allocs, Finds, Sets
  <1>4. CASE Returns(c, Exception)
    BY <1>4, Leaving, IdleCurrent DEF Idle
  <1>5. ASSUME NEW a \in Nat, OpOf(c) = Read(a, 1), res.error = "OK"
        PROVE  mem' = mem /\ res.result[1] = Cell(mem, a) /\ res.result[1] \in Nat
    BY <1>2, <1>5, Peek DEF Cell
  <1>6. \A l : Goto(c, l) => pc'[c] = l
    BY DEF Goto, Types
  <1>7. CASE pc[c] = "setDirect" /\ res.error = "OK" /\ Goto(c, "transfer") /\ UNCHANGED me
    BY <1>2, <1>6, <1>7, CurrentSetDirect
  <1>8. CASE pc[c] = "makeL2" /\ res.error = "OK" /\ Goto(c, "setL3") /\ UNCHANGED me
    BY <1>2, <1>6, <1>8, CurrentMakeL2
  <1>9. CASE pc[c] = "makeL3" /\ res.error = "OK" /\ Goto(c, "setLeaf") /\ UNCHANGED me
    BY <1>2, <1>6, <1>9, CurrentMakeL3
  <1>10. CASE pc[c] = "setLeaf" /\ res.error = "OK" /\ Goto(c, "transfer") /\ UNCHANGED me
    BY <1>2, <1>6, <1>10, CurrentSetLeaf
  <1>11. PageOf(mem, i, o) = 0
    BY <1>1 DEF Current
  <1>12. CASE pc[c] = "setL2" /\ res.error = "OK" /\ AfterInstall(c, res.result[1])
    <2>1. PICK a \in Nat : a = i + Page - 1 /\ OpOf(c) = Read(a, 1)
      <3>1. i + Page - 1 \in Nat
        BY Sizes
      <3> QED BY <1>1, <1>12, <3>1 DEF OpOf
    <2>2. PICK v \in Nat : v = res.result[1] /\ v = Cell(mem, a) /\ mem' = mem
      BY <1>5, <1>12, <2>1
    <2>3. v = SecondOf(mem, i)
      BY <2>1, <2>2 DEF SecondOf
    <2>4. \/ v = 0 /\ NeedPage(c, "l2")
          \/ Set(c, "l2", v) /\ Goto(c, "setL3")
      BY <1>12, <2>2 DEF AfterInstall
    <2>5. CASE v = 0 /\ NeedPage(c, "l2")
      <3>1. pc'[c] = "allocRead" /\ Ways(me[c], me'[c]) /\ me'[c].for = "l2"
        BY <2>5, NotedFor
      <3> QED BY <1>1, <1>11, <2>2, <2>3, <2>5, <3>1 DEF Current, Ways, Sets, Allocs, NeedsFor
    <2>6. CASE Set(c, "l2", v) /\ Goto(c, "setL3")
      <3>1. pc'[c] = "setL3" /\ Ways(me[c], me'[c]) /\ me'[c].l2 = v
        BY <2>6, Noted
      <3> QED BY <1>1, <1>11, <2>2, <2>3, <3>1 DEF Current, Ways, Sets, Allocs, NeedsFor
    <2> QED BY <2>4, <2>5, <2>6
  <1>13. CASE pc[c] = "setL3" /\ res.error = "OK" /\ AfterInstall(c, res.result[1])
    <2>1. /\ o <= Limit /\ ~IsDirect(o) /\ IsSecond(R, s, i) /\ s = SecondOf(mem, i)
      BY <1>1, <1>13, Accesses DEF Sets, Holds, Current
    <2>2. PICK a \in Nat : a = s + Idx0(o) /\ OpOf(c) = Read(a, 1)
      <3>1. s + Idx0(o) \in Nat
        BY <2>1, Levels
      <3> QED BY <1>1, <1>13, <3>1 DEF OpOf
    <2>3. PICK v \in Nat : v = res.result[1] /\ v = Cell(mem, a) /\ mem' = mem
      BY <1>5, <1>13, <2>2
    <2>4. s # 0
      BY <2>1, NextPage DEF IsSecond
    <2>5. v = ThirdOf(mem, i, o)
      BY <2>1, <2>2, <2>3, <2>4 DEF ThirdOf, Through
    <2>6. \/ v = 0 /\ NeedPage(c, "l3")
          \/ Set(c, "l3", v) /\ Goto(c, "setLeaf")
      BY <1>13, <2>3 DEF AfterInstall
    <2>7. CASE v = 0 /\ NeedPage(c, "l3")
      <3>1. /\ pc'[c] = "allocRead" /\ Ways(me[c], me'[c]) /\ me'[c].for = "l3"
            /\ me'[c].l2 = me[c].l2
        BY <2>7, NotedFor
      <3> QED BY <1>1, <1>11, <2>1, <2>3, <2>5, <2>7, <3>1 DEF Current, Ways, Sets, Allocs, NeedsFor
    <2>8. CASE Set(c, "l3", v) /\ Goto(c, "setLeaf")
      <3>1. pc'[c] = "setLeaf" /\ Ways(me[c], me'[c]) /\ me'[c].l3 = v
        BY <2>8, Noted
      <3> QED BY <1>1, <1>11, <2>3, <2>5, <3>1 DEF Current, Ways, Sets, Allocs, NeedsFor
    <2> QED BY <2>6, <2>7, <2>8
  <1> QED BY <1>3, <1>4, <1>7, <1>8, <1>9, <1>10, <1>12, <1>13 DEF Sets, AfterInstall

(* Every operation leaves its store with what it knows.                        *)
LEMMA OperateCurrent ==
  ASSUME IInv, NEW c \in Client, Operate(c), Current(mem, pc[c], me[c]), ~Mixed(was'.used)
  PROVE  Current(mem', pc'[c], me'[c])
  <1>1. Types /\ Flow /\ was.used \subseteq was'.used
    BY Operates DEF IInv
  <1>2. ~Mixed(was.used)
    BY <1>1, Overlays
  <1>3. PICK R : Sound(R)
    BY <1>2 DEF IInv, Overlaid, Mixed
  <1>4. PICK res : res = Outcome(OpOf(c), mem)
    OBVIOUS
  <1>5. CASE pc[c] \in Allocs
    BY <1>1, <1>5, CurrentAlloc
  <1>6. CASE pc[c] \in Finds
    BY <1>1, <1>3, <1>6, CurrentFind
  <1>7. CASE pc[c] \in Sets
    BY <1>1, <1>2, <1>3, <1>7, CurrentSet
  <1>8. ASSUME NEW o, Goto(c, SlotLabel(o)) PROVE pc'[c] \in Idle
    BY <1>1, <1>8 DEF Goto, SlotLabel, Types, Idle
  <1>9. CASE pc[c] \in {"setLen", "getLen", "length"}
    <2>1. Returns(c, Exception) \/ AfterLen(c, res.result[1])
      BY <1>1, <1>4, <1>9, Answered DEF Allocs, Finds, Sets
    <2>2. AfterLen(c, res.result[1]) =>
            \/ \E v : Returns(c, v)
            \/ EndAccess(c, me[c], Refused)
            \/ Goto(c, SlotLabel(me[c].off))
      BY DEF AfterLen
    <2>3. pc'[c] \in Idle
      BY <1>1, <1>8, <2>1, <2>2, Leaving DEF Idle
    <2> QED BY <2>3, IdleCurrent
  <1>10. CASE pc[c] = "transfer"
    <2>1. Returns(c, Exception) \/ AfterTransfer(c, res.result)
      BY <1>1, <1>4, <1>10, Answered DEF Allocs, Finds, Sets
    <2>2. AfterTransfer(c, res.result) =>
            \E m : EndAccess(c, m, 0) \/ Goto(c, SlotLabel(m.off))
      BY DEF AfterTransfer
    <2>3. pc'[c] \in Idle
      BY <1>1, <1>8, <2>1, <2>2, Leaving DEF Idle
    <2> QED BY <2>3, IdleCurrent
  <1> QED BY <1>1, <1>5, <1>6, <1>7, <1>9, <1>10, Answered, Leaving, IdleCurrent DEF Idle

(* The server runs the mobile code of one store alone, which knows the way.    *)
Knows == ~Mixed(was.used) => \A c \in Active : Working(c) => Current(mem, pc[c], me[c])
Alone == \A c \in Active : Working(c) => holder = c

(* Only c's label changes.                                                     *)
LEMMA Others ==
  ASSUME IInv, NEW c \in Client, Step(c), NEW d \in Client, d # c
  PROVE  pc'[d] = pc[d] /\ me'[d] = me[d]
  <1>1. pc \in [Client -> Labels] /\ me \in [Client -> Locals]
    BY DEF IInv, Types
  <1>2. ASSUME NEW l, NEW m, pc' = [pc EXCEPT ![c] = l], me' = [me EXCEPT ![c] = m] \/ me' = me
        PROVE  pc'[d] = pc[d] /\ me'[d] = me[d]
    BY <1>1, <1>2
  <1>3. CASE Call(c)
    BY <1>1, <1>3 DEF Call, Goto
  <1>4. CASE Run(c)
    BY <1>1, <1>4 DEF Run, Goto
  <1>5. CASE Operate(c)
    <2>1. Good(c)
      BY <1>5, Progress DEF IInv
    <2> QED BY <1>2, <2>1 DEF Good
  <1>6. CASE Table(c)
    BY <1>1, <1>6 DEF Table, Returns, Goto, Set
  <1>7. CASE Return(c)
    BY <1>1, <1>7 DEF Return, Goto
  <1> QED BY <1>3, <1>4, <1>5, <1>6, <1>7 DEF Step

(* A step keeps the server to one of them.                                     *)
LEMMA NextAlone ==
  ASSUME IInv, Alone, [Next]_vars
  PROVE  Alone'
  <1>1. CASE UNCHANGED vars
    BY <1>1 DEF vars, Alone, Working
  <1>2. ASSUME NEW c \in Client, Step(c), NEW d \in Active, Working(d)' PROVE holder' = d
    <2>1. d \in Client /\ d # Nobody /\ pc \in [Client -> Labels]
      BY InodeStoreAssumption DEF IInv, Types, Nobody
    <2>2. d # c => pc'[d] = pc[d]
      BY <1>2, <2>1, Others
    <2>3. d # c => holder = d
      BY <1>2, <2>2 DEF Alone, Working
    <2>4. CASE Call(c)
      <3>1. c \in Active => pc'[c] = "queued"
        BY <2>1, <2>4 DEF Call, Goto
      <3>2. d # c
        BY <1>2, <3>1 DEF Working
      <3> QED BY <2>3, <2>4, <3>2 DEF Call
    <2>5. CASE Run(c)
      BY <2>1, <2>3, <2>5 DEF Run
    <2>6. CASE Operate(c)
      <3>1. holder \in {Nobody, c} /\ Working(c)
        BY <2>6 DEF Operate
      <3>2. d = c
        BY <2>1, <2>3, <3>1
      <3>3. holder = c
        BY <1>2, <3>1, <3>2 DEF Alone
      <3>4. pc'[c] \notin {"queued", "return"}
        BY <1>2, <3>2 DEF Working
      <3> QED BY <2>6, <3>2, <3>3, <3>4 DEF Operate
    <2>7. CASE Table(c)
      <3>1. holder \in {Nobody, c} /\ pc'[c] = "return"
        BY <2>1, <2>7 DEF Table, Returns, Goto
      <3>2. d = c
        BY <2>1, <2>3, <3>1
      <3> QED BY <1>2, <3>1, <3>2 DEF Working
    <2>8. CASE Return(c)
      <3>1. pc'[c] = "ready" /\ holder' = holder
        BY <2>1, <2>8 DEF Return, Goto
      <3>2. d # c
        BY <1>2, <3>1 DEF Working
      <3> QED BY <2>3, <3>1, <3>2
    <2> QED BY <1>2, <2>4, <2>5, <2>6, <2>7, <2>8 DEF Step
  <1>3. (\E c \in Client : Step(c)) => Alone'
    BY <1>2 DEF Alone
  <1> QED BY <1>1, <1>3 DEF Next, Finished

(* ... and nobody changes what that one has read.                              *)
LEMMA NextKnows ==
  ASSUME IInv, Alone, Knows, [Next]_vars
  PROVE  Knows'
  <1>1. CASE UNCHANGED vars
    BY <1>1 DEF vars, Knows, Working
  <1>2. ASSUME NEW c \in Client, Step(c), NEW d \in Active, Working(d)', ~Mixed(was'.used)
        PROVE  Current(mem', pc'[d], me'[d])
    <2>1. d \in Client /\ d # Nobody /\ pc \in [Client -> Labels] /\ Types
      BY InodeStoreAssumption DEF IInv, Types, Nobody
    <2>2. d # c => pc'[d] = pc[d] /\ me'[d] = me[d]
      BY <1>2, <2>1, Others
    <2>3. d # c => Working(d) /\ holder = d
      BY <1>2, <2>2 DEF Alone, Working
    <2>4. was.used \subseteq was'.used
      <3>1. was = [used |-> was.used, put |-> was.put, last |-> was.last, lost |-> was.lost]
        BY <2>1 DEF Types
      <3>2. CASE Call(c)
        BY <3>1, <3>2 DEF Call
      <3>3. CASE Operate(c)
        BY <2>1, <3>3, Operates
      <3> QED BY <1>2, <3>2, <3>3 DEF Step, Run, Table, Return
    <2>5. ~Mixed(was.used)
      BY <1>2, <2>4, Overlays
    <2>6. Working(d) => Current(mem, pc[d], me[d])
      BY <2>5 DEF Knows
    <2>7. CASE d # c /\ mem' = mem
      BY <2>2, <2>3, <2>6, <2>7
    <2>8. CASE d = c /\ pc'[c] \in Idle
      BY <2>8, IdleCurrent
    <2>9. CASE Call(c)
      <3>1. (c \in Active => pc'[c] = "queued") /\ mem' = mem
        BY <2>1, <2>9 DEF Call, Goto
      <3> QED BY <2>7, <2>8, <3>1 DEF Idle
    <2>10. CASE Run(c)
      <3>1. d = c /\ pc[c] = "queued" /\ pc'[c] = FirstLabel(job[c]) /\ me' = me /\ mem' = mem
        BY <2>1, <2>3, <2>10 DEF Run, Goto
      <3>2. FlowAt(c) /\ job[c] \in Jobs[c]
        <4>1. Flow
          BY DEF IInv
        <4> QED BY <2>1, <3>1, <4>1, Here
      <3>3. job[c].kind = "create" => me[c].for = "inode"
        BY <3>1, <3>2 DEF FlowAt, CallOK
      <3>4. FirstLabel(job[c]) \in Idle \/ (FirstLabel(job[c]) = "allocRead" /\ me[c].for = "inode")
        BY <3>2, <3>3, JobTypes DEF FirstLabel, IsAccess, Idle
      <3>5. CASE FirstLabel(job[c]) = "allocRead" /\ me[c].for = "inode"
        BY <3>1, <3>5 DEF Current, Sets, Allocs, NeedsFor
      <3> QED BY <2>8, <3>1, <3>4, <3>5
    <2>11. CASE Operate(c)
      <3>1. holder \in {Nobody, c} /\ Working(c)
        BY <2>11 DEF Operate
      <3>2. d = c
        BY <2>1, <2>3, <3>1
      <3> QED BY <1>2, <2>6, <2>11, <3>1, <3>2, OperateCurrent
    <2>12. CASE Table(c)
      <3>1. pc'[c] = "return" /\ mem' = mem
        BY <2>1, <2>12 DEF Table, Returns, Goto
      <3> QED BY <2>7, <2>8, <3>1 DEF Idle
    <2>13. CASE Return(c)
      <3>1. pc'[c] = "ready" /\ mem' = mem
        BY <2>1, <2>13 DEF Return, Goto
      <3> QED BY <2>7, <2>8, <3>1 DEF Idle
    <2> QED BY <1>2, <2>9, <2>10, <2>11, <2>12, <2>13 DEF Step
  <1>3. (\E c \in Client : Step(c)) => Knows'
    BY <1>2 DEF Knows
  <1> QED BY <1>1, <1>3 DEF Next, Finished

(* Such a store overwrites no pointer ...                                      *)
LEMMA SlotEmpty ==
  ASSUME Types, Flow, NEW c \in Client, pc[c] \in Installs, Current(mem, pc[c], me[c]),
         NEW R, Sound(R)
  PROVE  Cell(mem, SlotPage(pc[c], me[c]) + SlotWord(pc[c], me[c])) = 0
  <1>1. PICK i \in Nat, o \in Nat, s \in Nat, t \in Nat :
          i = me[c].ino /\ o = me[c].off /\ s = me[c].l2 /\ t = me[c].l3
    BY Here
  <1>2. /\ o <= Limit /\ (pc[c] = "setDirect" => IsDirect(o)) /\ (pc[c] # "setDirect" => ~IsDirect(o))
        /\ Holds(R, c, pc[c], job[c], me[c], was.put)
    BY <1>1, Accesses DEF Sets, Installs
  <1>3. CASE pc[c] = "setDirect"
    <2>1. PageOf(mem, i, o) = 0
      BY <1>1, <1>3 DEF Current, Sets
    <2>2. i + (1 + Block(o)) = i + 1 + Block(o)
      BY Divided
    <2>3. Cell(mem, i + (1 + Block(o))) = 0
      <3>1. PageOf(mem, i, o) = Cell(mem, i + 1 + Block(o))
        BY <1>2, <1>3, WayTo
      <3> QED BY <2>1, <2>2, <3>1
    <2> QED BY <1>1, <1>3, <2>3 DEF SlotPage, SlotWord
  <1>4. CASE pc[c] = "makeL2"
    <2>1. i + (Page - 1) = i + Page - 1
      BY Sizes
    <2> QED BY <1>1, <1>4, <2>1 DEF SlotPage, SlotWord, Current, SecondOf
  <1>5. CASE pc[c] = "makeL3"
    <2>1. s = SecondOf(mem, i) /\ ThirdOf(mem, i, o) = 0 /\ IsSecond(R, s, i)
      BY <1>1, <1>2, <1>5 DEF Current, Holds
    <2>2. s # 0
      BY <2>1, NextPage DEF IsSecond
    <2>3. Cell(mem, s + Idx0(o)) = 0
      BY <2>1, <2>2 DEF ThirdOf, Through
    <2> QED BY <1>1, <1>5, <2>3 DEF SlotPage, SlotWord
  <1>6. CASE pc[c] = "setLeaf"
    <2>1. t = ThirdOf(mem, i, o) /\ PageOf(mem, i, o) = 0 /\ IsThird(R, t, i, Idx0(o))
      BY <1>1, <1>2, <1>6 DEF Current, Holds, Sets
    <2>2. t # 0
      BY <2>1, NextPage DEF IsThird
    <2>3. PageOf(mem, i, o) = Through(mem, t, Idx1(o))
      BY <1>2, <1>6, <2>1, WayTo
    <2>4. Cell(mem, t + Idx1(o)) = 0
      BY <2>1, <2>2, <2>3 DEF Through
    <2> QED BY <1>1, <1>6, <2>4 DEF SlotPage, SlotWord
  <1> QED BY <1>3, <1>4, <1>5, <1>6 DEF Installs

(* ... so that every way stays, ...                                            *)
LEMMA FillsOnly ==
  ASSUME Types, Flow, NEW c \in Client, Operate(c), pc[c] \in Installs, Current(mem, pc[c], me[c]),
         NEW R, Sound(R)
  PROVE  Follows(R, mem, mem')
  <1> SUFFICES ASSUME NEW p, NEW n, NEW v, Leads(R, mem, p, n, v)
               PROVE  Leads(R, mem', p, n, v)
    BY DEF Follows
  <1>1. p \in Nat /\ IsPage(p) /\ n \in 0 .. Page - 1 /\ p + n \in Cells /\ v # 0 /\ mem[p + n] = v
    BY DEF Leads
  <1>2. mem'[p + n] = mem[p + n]
    <2> SUFFICES ASSUME mem'[p + n] # mem[p + n] PROVE FALSE
      OBVIOUS
    <2>1. p = SlotPage(pc[c], me[c]) /\ n = SlotWord(pc[c], me[c])
      BY <1>1, Alters DEF Installs, Stores
    <2>2. Cell(mem, p + n) = 0
      BY <2>1, SlotEmpty
    <2> QED BY <1>1, <2>2 DEF Cell
  <1> QED BY <1>2 DEF Leads

(* ... and stores its words where they belong.                                 *)
LEMMA NoneMissed ==
  ASSUME Types, Flow, NEW c \in Client, Operate(c), Stores(c), Current(mem, pc[c], me[c]),
         NEW R, Sound(R)
  PROVE  Missed(c) = {}
  <1> SUFFICES ASSUME NEW x \in Written(c) PROVE x \notin Missed(c)
    BY DEF Missed
  <1>1. PICK m \in Locals, n \in Nat, q \in Nat, f \in Nat, a \in Nat :
          m = me[c] /\ n = Span(m) /\ q = m.ptr /\ f = m.off /\ a = Target(m)
    BY Here, Spans, StoresWords
  <1>2. PICK z \in 1 .. n : x = <<m.ino, f + z - 1, Part(m)[z]>>
    BY <1>1, Writes
  <1>3. PICK j \in Nat : j = z - 1 /\ j < n /\ f + z - 1 = f + j
    BY <1>2
  <1>4. x[1] = m.ino /\ x[2] = f + j /\ m.ino \in Nat /\ f + j \in Nat
    BY <1>1, <1>2, <1>3, LocalTypes
  <1>5. PICK s \in 0 .. Page - 1 : s = f % Page /\ s + n <= Page /\ a = q + s
    BY <1>1, Divided, Spans DEF Target
  <1>6. Block(f + j) = Block(f) /\ (f + j) % Page = s + j
    <2>1. s + j < Page /\ j < Page
      BY <1>3, <1>5, Sizes
    <2> QED BY <1>5, <2>1, Within
  <1>7. IsPage(q) /\ q = PageOf(mem, m.ino, f)
    BY <1>1 DEF Sound, Holds, Stores, IsBlock, Current
  <1>8. PageOf(mem, m.ino, f + j) = PageOf(mem, m.ino, f)
    BY <1>6 DEF PageOf, IsDirect, Idx0, Idx1
  <1>9. q # 0
    BY <1>7, NextPage
  <1>10. AddressOf(mem, m.ino, f + j) = q + (s + j)
    BY <1>6, <1>7, <1>8, <1>9 DEF AddressOf
  <1>11. a + (f + j) - f = q + (s + j)
    BY <1>5, Sizes
  <1> QED BY <1>1, <1>4, <1>10, <1>11, Writes

(* So no word is lost in its step.                                             *)
LEMMA LosesNone ==
  ASSUME IInv, Kept, NEW c \in Client, Operate(c), Current(mem, pc[c], me[c]), ~Mixed(was'.used)
  PROVE  was'.lost \subseteq was.lost
  <1>1. Types /\ Flow /\ was.used \subseteq was'.used
    BY Operates DEF IInv
  <1>2. ~Mixed(was.used)
    BY <1>1, Overlays
  <1>3. PICK R : Sound(R)
    BY <1>2 DEF IInv, Overlaid, Mixed
  <1>4. Places({}) = {}
    BY DEF Places
  <1>5. CASE Stores(c)
    <2>1. was'.lost = (was.lost \ Places(Written(c))) \cup Places(Missed(c))
      BY <1>1, <1>5, Recorded
    <2>2. Missed(c) = {}
      BY <1>1, <1>3, <1>5, NoneMissed
    <2> QED BY <1>4, <2>1, <2>2
  <1>6. CASE ~Stores(c) /\ pc[c] \notin Installs
    BY <1>1, <1>6, Recorded
  <1>7. CASE ~Stores(c) /\ pc[c] \in Installs
    <2>1. was'.lost = was.lost \cup Places({x \in was.last : Strays(x)})
      BY <1>1, <1>7, Recorded
    <2>2. ASSUME NEW x \in was.last, Strays(x) PROVE <<x[1], x[2]>> \in was.lost
      <3> SUFFICES ASSUME <<x[1], x[2]>> \notin was.lost PROVE FALSE
        OBVIOUS
      <3>1. StoredAt(was.used, x) /\ InPlace(mem, x)
        BY <1>2 DEF Kept, Keeping
      <3>2. PICK i \in Nat, o \in Nat : i = x[1] /\ o = x[2]
        BY <3>1 DEF StoredAt
      <3>3. PICK p \in Nat : p = PageOf(mem, i, o) /\ p # 0 /\ Route(R, mem, i, o, p)
        BY <1>1, <1>2, <1>3, <3>1, <3>2, Kind
      <3>4. PICK k : k = mem'
        OBVIOUS
      <3>5. PageOf(k, i, o) = p
        BY <1>1, <1>3, <1>7, <3>3, <3>4, FillsOnly, StaysReached
      <3>6. AddressOf(k, i, o) = AddressOf(mem, i, o)
        BY <3>3, <3>5 DEF AddressOf
      <3> QED BY <2>2, <3>2, <3>4, <3>6 DEF Strays
    <2> QED BY <2>1, <2>2 DEF Places
  <1> QED BY <1>5, <1>6, <1>7

(* Mobile code loses no word that was stored: it looks for a block and puts    *)
(* one in its place in one request.                                            *)
THEOREM ActiveLosesNone == Spec => ActiveKeeps
  <1>1. Init => Kept /\ Alone /\ Knows
    <2>1. Init => Kept
      BY DEF Init, Kept, Keeping
    <2>2. Init => \A c \in Client : ~Working(c)
      BY DEF Init, Working
    <2>3. Active \subseteq Client
      BY InodeStoreAssumption
    <2> QED BY <2>1, <2>2, <2>3 DEF Alone, Knows
  <1>2. IInv /\ (Kept /\ Alone /\ Knows) /\ [Next]_vars => (Kept /\ Alone /\ Knows)'
    BY NextKept, NextAlone, NextKnows
  <1>3. ASSUME IInv, Kept, Knows, [Next]_vars
        PROVE  [\A c \in Active : Working(c) /\ pc'[c] # pc[c] /\ ~Overlaid'
                                    => was'.lost \subseteq was.lost]_vars
    <2> SUFFICES ASSUME NEW d \in Active, Working(d), pc'[d] # pc[d], ~Overlaid'
                 PROVE  was'.lost \subseteq was.lost
      OBVIOUS
    <2>1. d \in Client
      BY InodeStoreAssumption
    <2>2. CASE UNCHANGED vars
      BY <2>2 DEF vars
    <2>3. ASSUME NEW c \in Client, Step(c) PROVE was'.lost \subseteq was.lost
      <3>1. d = c
        BY <1>3, <2>1, <2>3, Others
      <3>2. CASE Operate(c)
        <4>1. Types /\ was.used \subseteq was'.used
          BY <1>3, <3>2, Operates DEF IInv
        <4>2. ~Mixed(was'.used)
          BY DEF Overlaid, Mixed
        <4>3. ~Mixed(was.used)
          BY <4>1, <4>2, Overlays
        <4>4. Current(mem, pc[c], me[c])
          BY <1>3, <3>1, <4>3 DEF Knows
        <4> QED BY <1>3, <3>2, <4>2, <4>4, LosesNone
      <3>3. CASE Call(c)
        BY <3>1, <3>3 DEF Call, Working
      <3> QED BY <2>3, <3>2, <3>3 DEF Step, Run, Table, Return
    <2> QED BY <1>3, <2>2, <2>3 DEF Next, Finished
  <1> QED BY <1>1, <1>2, <1>3, StoreInvariance, PTL DEF Spec, ActiveKeeps
===============================================================================
