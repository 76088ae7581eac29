------------------------------- MODULE InodeStore -----------------------------
(* The inode store: DFS_RDMA, and DFS_Active, which sends the same code to the *)
(* server, on a memory that serves each operation once.  Memory holds, in      *)
(* words, the allocation counter and pages: inodes, pages of pointers and      *)
(* pages of content.  An inode is its length, pointers to its first blocks,    *)
(* and in its last word a pointer to the pages that point to the rest.         *)
(*                                                                             *)
(* OpOf(c) is the operation c issues at its label, the After actions are what  *)
(* it does with the answer.  A DFS_RDMA issues the operations of a call one by *)
(* one; of a DFS_Active each call is one request, a get or put one for every   *)
(* chunk, and the server serves nobody else meanwhile.  The table of names is  *)
(* the hash table's, of which IsMap is known: a put or a get of it is one step.*)
EXTENDS Memory, FiniteSets, FiniteSetsExt

CONSTANTS Client,        \* the stores
          Active,        \* those that are a DFS_Active
          Name,          \* names of files
          InitLen,       \* their length at first
          Jobs,          \* Jobs[c]: the calls that store c gets
          MaxJobs,       \* MaxJobs[c]: bound on them
          Page,          \* words of a page (1024)
          Req,           \* words read or written at once (256)
          Chunk          \* words of one request of a DFS_Active (300)

(* Offsets are 31-bit numbers of bytes, so two levels of pointers reach them.  *)
ASSUME InodeStoreAssumption ==
  /\ Active \subseteq Client /\ "nobody" \notin Client /\ IsFiniteSet(Name)
  /\ MaxJobs \in [Client -> Nat] /\ InitLen \in Nat
  /\ Page \in Nat /\ Page > 2
  /\ Req \in 1 .. Page /\ Chunk \in 1 .. Page
  /\ \A c \in Client : \A j \in Jobs[c] :
       \/ j.kind \in {"create", "lookup"} /\ j.name \in Name
       \/ j.kind = "setLen" /\ j.len \in Nat
       \/ j.kind = "getLen"
       \/ /\ j.kind = "put" /\ j.off \in Nat /\ j.values \in Seq(Nat)
          /\ j.off + Len(j.values) <= Page * Page * Page
       \/ j.kind = "get" /\ j.off \in Nat /\ j.n \in Nat /\ j.off + j.n <= Page * Page * Page

VARIABLES mem,           \* the server's memory
          names,         \* names[f]: inode of name f, 0 for none
          holder,        \* the store whose mobile code the server runs, or Nobody
          pc,            \* pc[c]: the label c is at
          job,           \* job[c]: the call c is in, NoJob in none
          me,            \* me[c]: the locals of the call
          inode,         \* inode[c]: the inode c's user got last
          jobs,          \* jobs[c]: calls c has had
          was            \* what has happened, as far as the properties ask

vars == <<mem, names, holder, pc, job, me, inode, jobs, was>>

Nobody    == "nobody"
NoJob     == [kind |-> "none"]
Refused   == -1
Exception == -2
Create(f)  == [kind |-> "create", name |-> f]
Lookup(f)  == [kind |-> "lookup", name |-> f]
SetLen(n)  == [kind |-> "setLen", len |-> n]
GetLen     == [kind |-> "getLen"]
Put(o, vs) == [kind |-> "put", off |-> o, values |-> vs]
Get(o, n)  == [kind |-> "get", off |-> o, n |-> n]

NoLocals == [ino |-> 0, off |-> 0, left |-> 0, rest |-> 0, buf |-> <<>>, ptr |-> 0,
             l2 |-> 0, l3 |-> 0, page |-> 0, for |-> "inode", result |-> 0]

(* Every name has been created and given a length, and every user has the      *)
(* inode of one.                                                               *)
Init == /\ names \in [Name -> {1 + Page * n : n \in 0 .. Cardinality(Name) - 1}]
        /\ \A f, g \in Name : f # g => names[f] # names[g]
        /\ mem = [a \in Cells |-> IF a = 0 THEN 1 + Page * Cardinality(Name)
                                  ELSE IF \E f \in Name : names[f] = a THEN InitLen ELSE 0]
        /\ holder = Nobody
        /\ pc = [c \in Client |-> "ready"]
        /\ job = [c \in Client |-> NoJob]
        /\ me = [c \in Client |-> NoLocals]
        /\ inode \in [Client -> {names[f] : f \in Name}]
        /\ jobs = [c \in Client |-> 0]
        /\ was = [used |-> {}, put |-> {}, last |-> {}, lost |-> {}]

Goto(c, label)   == pc' = [pc EXCEPT ![c] = label]
Set(c, field, v) == me' = [me EXCEPT ![c][field] = v]
Working(c)       == pc[c] \notin {"ready", "queued", "return"}
IsAccess(j)      == j.kind \in {"put", "get"}
Words(j)         == IF j.kind = "put" THEN Len(j.values) ELSE j.n

FirstLabel(j) == CASE j.kind = "create" -> "allocRead"
                   [] j.kind = "lookup" -> "lookup"
                   [] j.kind = "setLen" -> "setLen"
                   [] j.kind = "getLen" -> "getLen"
                   [] IsAccess(j)       -> "length"

(* The words of the next chunk, of n that are left.                            *)
NextChunk(c, n) == IF c \in Active THEN Min({n, Chunk}) ELSE n

Call(c) ==
  /\ pc[c] = "ready" /\ jobs[c] < MaxJobs[c]
  /\ \E j \in Jobs[c] :
       /\ job' = [job EXCEPT ![c] = j]
       /\ Goto(c, IF c \in Active THEN "queued" ELSE FirstLabel(j))
       /\ LET n == IF IsAccess(j) THEN Words(j) ELSE 0 IN
          me' = [me EXCEPT ![c] =
                  [NoLocals EXCEPT !.ino = inode[c],
                                   !.off = IF IsAccess(j) THEN j.off ELSE 0,
                                   !.left = NextChunk(c, n), !.rest = n - NextChunk(c, n),
                                   !.buf = IF j.kind = "put" THEN j.values ELSE <<>>]]
       /\ was' = IF j.kind = "put"
                 THEN [was EXCEPT !.put = @ \cup {<<inode[c], j.off + n - 1, j.values[n]>> :
                                                    n \in DOMAIN j.values}]
                 ELSE was
  /\ jobs' = [jobs EXCEPT ![c] = @ + 1]
  /\ UNCHANGED <<mem, names, holder, inode>>

\* A slip: mobile code leaves the server to others between its operations.
RunUnheld(c) == /\ holder = Nobody /\ pc[c] = "queued"
                /\ holder' = holder
                /\ Goto(c, FirstLabel(job[c]))
                /\ UNCHANGED <<mem, names, job, me, inode, jobs, was>>

(* The server takes a request of an active store.                              *)
Run(c) == /\ holder = Nobody /\ pc[c] = "queued"
          /\ holder' = c
          /\ Goto(c, FirstLabel(job[c]))
          /\ UNCHANGED <<mem, names, job, me, inode, jobs, was>>

-------------------------------------------------------------------------------
(* Where the block of offset o is: the first Page - 1 have their word in the   *)
(* inode, of which the last is that of the second level too.                   *)
Block(o)    == o \div Page
IsDirect(o) == Block(o) <= Page - 2
Idx0(o)     == (Block(o) - (Page - 2)) \div Page
Idx1(o)     == (Block(o) - (Page - 2)) % Page
SlotLabel(o) == IF IsDirect(o) THEN "direct" ELSE "l2"

\* A slip: a request is not cut at the end of its block.
SpanUncut(m) == Min({m.left, Req})

(* The words of the next request.                                              *)
Span(m) == Min({m.left, Req, Page - (m.off % Page)})

OpOf(c) ==
  LET m == me[c] IN
  CASE pc[c] = "allocRead" -> Read(0, 1)
    [] pc[c] = "allocCas"  -> Cas(0, m.page, m.page + Page)
    [] pc[c] = "setLen"    -> Write(m.ino, <<job[c].len>>)
    [] pc[c] = "getLen"    -> Read(m.ino, 1)
    [] pc[c] = "length"    -> Read(m.ino, 1)
    [] pc[c] = "direct"    -> Read(m.ino + 1 + Block(m.off), 1)
    [] pc[c] = "l2"        -> Read(m.ino + Page - 1, 1)
    [] pc[c] = "l3"        -> Read(m.l2 + Idx0(m.off), 1)
    [] pc[c] = "leaf"      -> Read(m.l3 + Idx1(m.off), 1)
    [] pc[c] = "setDirect" -> Write(m.ino + 1 + Block(m.off), <<m.ptr>>)
    [] pc[c] = "setL2"     -> Read(m.ino + Page - 1, 1)
    [] pc[c] = "makeL2"    -> Write(m.ino + Page - 1, <<m.l2>>)
    [] pc[c] = "setL3"     -> Read(m.l2 + Idx0(m.off), 1)
    [] pc[c] = "makeL3"    -> Write(m.l2 + Idx0(m.off), <<m.l3>>)
    [] pc[c] = "setLeaf"   -> Write(m.l3 + Idx1(m.off), <<m.ptr>>)
    [] pc[c] = "transfer"  -> IF job[c].kind = "put"
                              THEN Write(m.ptr + (m.off % Page), SubSeq(m.buf, 1, Span(m)))
                              ELSE Read(m.ptr + (m.off % Page), Span(m))

Returns(c, v) == Goto(c, "return") /\ Set(c, "result", v)

(* access() is over with code rc.  A DFS_Active goes on with the next chunk    *)
(* whatever rc is, with zeros for what a get did not read.                     *)
EndAccess(c, m, rc) ==
  LET next == NextChunk(c, m.rest)
      skip == IF job[c].kind = "put" THEN SubSeq(m.buf, m.left + 1, Len(m.buf))
              ELSE m.buf \o [n \in 1 .. m.left |-> 0]
  IN IF c \notin Active
     THEN Goto(c, "return") /\ me' = [me EXCEPT ![c] = [m EXCEPT !.result = rc]]
     ELSE /\ Goto(c, IF m.rest = 0 THEN "return" ELSE "queued")
          /\ me' = [me EXCEPT ![c] = [m EXCEPT !.buf = skip, !.off = @ + m.left,
                                               !.left = next, !.rest = @ - next]]

NeedPage(c, for) == Goto(c, "allocRead") /\ Set(c, "for", for)

(* The new page is an inode to enter, a block or a page of pointers to set.    *)
UsePage(c) ==
  LET p == me[c].page IN
  CASE me[c].for = "inode" -> Set(c, "ino", p) /\ Goto(c, "publish")
    [] me[c].for = "block" -> /\ Set(c, "ptr", p)
                              /\ Goto(c, IF IsDirect(me[c].off) THEN "setDirect" ELSE "setL2")
    [] me[c].for = "l2"    -> Set(c, "l2", p) /\ Goto(c, "makeL2")
    [] me[c].for = "l3"    -> Set(c, "l3", p) /\ Goto(c, "makeL3")

\* A slip: a lost race for the counter is not noticed.
AfterAllocUnchecked(c, v) ==
  \/ pc[c] = "allocRead" /\ Set(c, "page", v) /\ Goto(c, "allocCas")
  \/ pc[c] = "allocCas" /\ UsePage(c)

AfterAlloc(c, v) ==
  \/ pc[c] = "allocRead" /\ Set(c, "page", v) /\ Goto(c, "allocCas")
  \/ pc[c] = "allocCas" /\ v = 0 /\ Goto(c, "allocRead") /\ UNCHANGED me
  \/ pc[c] = "allocCas" /\ v # 0 /\ UsePage(c)

AfterLen(c, v) ==
  \/ pc[c] \in {"setLen", "getLen"} /\ Returns(c, IF pc[c] = "getLen" THEN v ELSE 0)
  \/ /\ pc[c] = "length"
     /\ IF me[c].off + me[c].left > v THEN EndAccess(c, me[c], Refused)
        ELSE Goto(c, SlotLabel(me[c].off)) /\ UNCHANGED me

(* getBlock, which has found p, and what access() does with it.                *)
Found(c, p) ==
  IF p # 0 THEN Goto(c, "transfer") /\ Set(c, "ptr", p)
  ELSE IF job[c].kind = "put" THEN NeedPage(c, "block")
  ELSE EndAccess(c, me[c], Refused)

AfterFind(c, v) ==
  \/ pc[c] \in {"direct", "leaf"} /\ Found(c, v)
  \/ pc[c] \in {"l2", "l3"} /\ v = 0 /\ Found(c, v)
  \/ pc[c] = "l2" /\ v # 0 /\ Set(c, "l2", v) /\ Goto(c, "l3")
  \/ pc[c] = "l3" /\ v # 0 /\ Set(c, "l3", v) /\ Goto(c, "leaf")

(* setBlock.                                                                   *)
AfterInstall(c, v) ==
  \/ pc[c] \in {"setDirect", "setLeaf"} /\ Goto(c, "transfer") /\ UNCHANGED me
  \/ pc[c] = "setL2" /\ IF v = 0 THEN NeedPage(c, "l2") ELSE Set(c, "l2", v) /\ Goto(c, "setL3")
  \/ pc[c] = "makeL2" /\ Goto(c, "setL3") /\ UNCHANGED me
  \/ pc[c] = "setL3" /\ IF v = 0 THEN NeedPage(c, "l3") ELSE Set(c, "l3", v) /\ Goto(c, "setLeaf")
  \/ pc[c] = "makeL3" /\ Goto(c, "setLeaf") /\ UNCHANGED me

\* A slip: a get reads on where it was.
AfterTransferStays(c, vs) ==
  /\ pc[c] = "transfer"
  /\ LET n == Span(me[c])
         m == [me[c] EXCEPT !.off = IF job[c].kind = "put" THEN @ + n ELSE @, !.left = @ - n,
                            !.buf = IF job[c].kind = "put" THEN SubSeq(@, n + 1, Len(@)) ELSE @ \o vs]
     IN IF m.left = 0 THEN EndAccess(c, m, 0)
        ELSE Goto(c, SlotLabel(m.off)) /\ me' = [me EXCEPT ![c] = m]

AfterTransfer(c, vs) ==
  /\ pc[c] = "transfer"
  /\ LET n == Span(me[c])
         m == [me[c] EXCEPT !.off = @ + n, !.left = @ - n,
                            !.buf = IF job[c].kind = "put" THEN SubSeq(@, n + 1, Len(@)) ELSE @ \o vs]
     IN IF m.left = 0 THEN EndAccess(c, m, 0)
        ELSE Goto(c, SlotLabel(m.off)) /\ me' = [me EXCEPT ![c] = m]
-------------------------------------------------------------------------------
(* The address of the word at offset o of inode i in memory m, 0 for none.     *)
Cell(m, a)       == IF a \in Cells THEN m[a] ELSE 0
Through(m, p, n) == IF p = 0 THEN 0 ELSE Cell(m, p + n)
PageOf(m, i, o)  == IF IsDirect(o) THEN Cell(m, i + 1 + Block(o))
                    ELSE Through(m, Through(m, Cell(m, i + Page - 1), Idx0(o)), Idx1(o))
AddressOf(m, i, o) == LET p == PageOf(m, i, o) IN IF p = 0 THEN 0 ELSE p + (o % Page)

Known    == {names[f] : f \in Name} \cup {inode[c] : c \in Client}

(* The bookkeeping: blocks <<inode, block>> that were accessed, words <<inode, *)
(* offset, value>> offered to put, the last one stored at each <<inode,        *)
(* offset>>, and those that no pointer leads to, as one was overwritten after  *)
(* the word was stored, or between the look for its block and the store.       *)
Installs == {"setDirect", "makeL2", "makeL3", "setLeaf"}
Record(c, op) ==
  LET m == me[c]
      stored == IF pc[c] # "transfer" \/ job[c].kind # "put" THEN {}
                ELSE {<<m.ino, m.off + n - 1, op.values[n]>> :
                        n \in {k \in DOMAIN op.values : op.addr + k - 1 \in Cells}}
      Places(X) == {<<x[1], x[2]>> : x \in X}
      gone   == IF pc[c] \in Installs
                THEN {x \in was.last : AddressOf(mem', x[1], x[2]) # AddressOf(mem, x[1], x[2])}
                ELSE {x \in stored : AddressOf(mem, x[1], x[2]) # op.addr + x[2] - m.off}
  IN was' = [was EXCEPT
       !.used = IF pc[c] \in {"direct", "l2"} THEN @ \cup {<<m.ino, Block(m.off)>>} ELSE @,
       !.last = {x \in @ : <<x[1], x[2]>> \notin Places(stored)} \cup stored,
       !.lost = (@ \ Places(stored)) \cup Places(gone)]

(* c's next operation is served, and c goes on.  A Result that is not OK is an *)
(* exception to the end of the call.                                           *)
Operate(c) ==
  LET op == OpOf(c) res == Outcome(OpOf(c), mem) IN
  /\ Working(c) /\ pc[c] \notin {"publish", "lookup"} /\ holder \in {Nobody, c}
  /\ mem' = Effect(op, mem)
  /\ \/ /\ res.error = "OK"
        /\ \/ AfterAlloc(c, res.result[1]) \/ AfterLen(c, res.result[1])
           \/ AfterFind(c, res.result[1]) \/ AfterInstall(c, res.result[1])
           \/ AfterTransfer(c, res.result)
     \/ res.error # "OK" /\ Returns(c, Exception)
  /\ Record(c, op)
  /\ holder' = IF pc'[c] \in {"queued", "return"} THEN Nobody ELSE holder
  /\ UNCHANGED <<names, job, inode, jobs>>

(* create enters the new inode in the table, lookup asks it.                   *)
Table(c) ==
  /\ pc[c] \in {"publish", "lookup"} /\ holder \in {Nobody, c}
  /\ names' = IF pc[c] = "publish" THEN [names EXCEPT ![job[c].name] = me[c].ino] ELSE names
  /\ Returns(c, names'[job[c].name])
  /\ holder' = Nobody
  /\ UNCHANGED <<mem, job, inode, jobs, was>>

(* The caller goes on with the inode that create or lookup gave it.            *)
Return(c) ==
  /\ pc[c] = "return"
  /\ Goto(c, "ready")
  /\ inode' = IF job[c].kind \in {"create", "lookup"} /\ me[c].result > 0
              THEN [inode EXCEPT ![c] = me[c].result] ELSE inode
  /\ job' = [job EXCEPT ![c] = NoJob]
  /\ me' = [me EXCEPT ![c] = NoLocals]
  /\ UNCHANGED <<mem, names, holder, jobs, was>>

Step(c)  == Call(c) \/ Run(c) \/ Operate(c) \/ Table(c) \/ Return(c)
Finished == (\A c \in Client : pc[c] = "ready" /\ jobs[c] = MaxJobs[c]) /\ UNCHANGED vars
Next     == (\E c \in Client : Step(c)) \/ Finished

Spec == Init /\ [][Next]_vars

-------------------------------------------------------------------------------
(* The variables hold what their declarations say.                             *)
TypeOK == /\ mem \in [Cells -> Int]
          /\ names \in [Name -> Nat]
          /\ holder \in Active \cup {Nobody}
          /\ \A c \in Client : job[c] \in Jobs[c] \cup {NoJob} /\ jobs[c] \in 0 .. MaxJobs[c]
          /\ inode \in [Client -> Nat \ {0}]
          /\ \A c \in Client : /\ me[c].left \in Nat /\ me[c].rest \in Nat
                               /\ me[c].ptr \in Nat /\ me[c].buf \in Seq(Int)

(* No promise is made of a file once block Page - 2 and a later one were both  *)
(* accessed: the word of the one is the second level of the other.             *)
Overlaid == \E x, y \in was.used : x[1] = y[1] /\ x[2] = Page - 2 /\ y[2] > Page - 2

(* Every pointer leads to a page of its own, below the counter, and no pointer *)
(* leads to an inode, whatever races for the counter and for a pointer.        *)
Second(i)  == IF \E x \in was.used : x[1] = i /\ x[2] > Page - 2 THEN Cell(mem, i + Page - 1) ELSE 0
Thirds(i)  == IF Second(i) = 0 THEN {} ELSE {Second(i) + n : n \in 0 .. Page - 1} \cap Cells
Leaves(i)  == UNION {{mem[a] + n : n \in 0 .. Page - 1} \cap Cells : a \in {b \in Thirds(i) : mem[b] # 0}}
Pointers(i) == {a \in (i + 1 .. i + Page - 1) \cup Thirds(i) \cup Leaves(i) : Cell(mem, a) # 0}
PagesApart ==
  /\ TypeOK
  /\ ~Overlaid =>
       LET at == UNION {Pointers(i) : i \in Known} IN
       \A a \in at : /\ mem[a] % Page = 1 /\ mem[a] < mem[0] /\ mem[a] \notin Known
                     /\ \A b \in at : a # b => mem[a] # mem[b]

(* A file holds at every offset what was stored there last, unless its block   *)
(* or a page that leads to it was replaced since it was looked for: two stores *)
(* found none and each put in one of its own.                                  *)
StoredStays ==
  ~Overlaid =>
    \A x \in was.last : \/ <<x[1], x[2]>> \in was.lost
                        \/ Cell(mem, AddressOf(mem, x[1], x[2])) = x[3]

(* Only a DFS_RDMA does that: the mobile code looks and stores in one request. *)
ActiveKeeps ==
  [][\A c \in Active : Working(c) /\ pc'[c] # pc[c] /\ ~Overlaid'
                         => was'.lost \subseteq was.lost]_vars

(* What a get returns are words that were put at those offsets of that inode,  *)
(* or the zeros of a new page and of a buffer that was not read.               *)
GetWasPut ==
  ~Overlaid =>
    \A c \in Client : pc[c] = "return" /\ job[c].kind = "get" =>
      \A n \in DOMAIN me[c].buf :
        me[c].buf[n] = 0 \/ <<me[c].ino, job[c].off + n - 1, me[c].buf[n]>> \in was.put
===============================================================================
