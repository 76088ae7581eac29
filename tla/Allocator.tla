------------------------------- MODULE Allocator ------------------------------
(* The allocator every data structure of the repository is built on, used over *)
(* the UDP exchange.  Word 0 of server memory counts the words handed out; it  *)
(* is advanced by a read / compare-and-swap loop run at the client, or by the  *)
(* same loop in mobile code at the server (DFS_Active.alloc), where nothing    *)
(* interleaves with it.  A block is never given back.                          *)
(*                                                                             *)
(* The owner of a block then stores its mark in it with one write, as put and  *)
(* add do with their records.  Nothing checks a block against the end of       *)
(* memory: a block beyond it is granted too, and writing it fails.             *)
EXTENDS Exchange, FiniteSets

CONSTANTS Sizes,         \* sizes (in words) the programs ask for
          Active,        \* clients that allocate by mobile code
          FirstBlock,    \* where blocks start: word 1, or the end of a hash table
          MaxAllocs      \* bound on the allocations one client starts

ASSUME FirstBlockAssumption == FirstBlock \in Nat \ {0}

ASSUME AllocatorAssumption == /\ Client \subseteq Nat \ {0}   \* a client is its mark
                              /\ Sizes \subseteq Nat \ {0}
                              /\ Active \subseteq Client
                              /\ MaxAllocs \in Nat

VARIABLES pc,            \* pc[c]: where c is in alloc
          size,          \* size[c]: args[0]
          counter,       \* counter[c]: the local variable c of Alloc.execute
          block,         \* block[c]: address of the block c was given last
          started,       \* started[c]: allocations c has started
          granted        \* every block given out: to whom, in which of its
                         \* allocations, first word, word after the last

allocVars == <<pc, size, counter, block, started, granted>>
vars == <<mem, call, requests, replies, timeouts, pc, size, counter, block, started, granted>>

MEM_COUNTER == 0

RunAlloc(n) == [kind |-> "RUN", size |-> n]

\* A slip: the counter is advanced by one word less than was asked for.
AllocEffectShort(op, m) == IF op.kind = "RUN" THEN [m EXCEPT ![MEM_COUNTER] = @ + op.size - 1]
                                              ELSE Effect(op, m)

\* A slip: the loop goes round once more after its success.
AllocEffectTwice(op, m) == IF op.kind = "RUN" THEN [m EXCEPT ![MEM_COUNTER] = @ + 2 * op.size]
                                              ELSE Effect(op, m)

(* The mobile code's loop ends at its first try, inside one request.           *)
AllocEffect(op, m)  == IF op.kind = "RUN" THEN [m EXCEPT ![MEM_COUNTER] = @ + op.size]
                                          ELSE Effect(op, m)
AllocOutcome(op, m) == IF op.kind = "RUN" THEN Ok(<<m[MEM_COUNTER]>>) ELSE Outcome(op, m)

(* Alloc.init, or a hash table's init, has set the counter to the first block. *)
Init == /\ mem = [i \in Cells |-> IF i = MEM_COUNTER THEN FirstBlock ELSE 0]
        /\ ExchangeInit
        /\ pc = [c \in Client |-> "idle"]
        /\ size = [c \in Client |-> 1]
        /\ counter = [c \in Client |-> 0]
        /\ block = [c \in Client |-> 0]
        /\ started = [c \in Client |-> 0]
        /\ granted = {}

Goto(c, label) == pc' = [pc EXCEPT ![c] = label]

(* alloc(n) is called: by a remote client, or as one RUN request.              *)
Begin(c) ==
  /\ pc[c] = "idle" /\ started[c] < MaxAllocs
  /\ started' = [started EXCEPT ![c] = @ + 1]
  /\ \E n \in Sizes : size' = [size EXCEPT ![c] = n]
  /\ Goto(c, IF c \in Active THEN "run" ELSE "read")
  /\ UNCHANGED <<exchangeVars, counter, block, granted>>

\* A slip: the loop over the block runs one word too far.
FillOverrun(c) == Write(block[c], [n \in 1 .. size[c] + 1 |-> c])

(* The owner's write to its new block.                                         *)
Fill(c) == Write(block[c], [n \in 1 .. size[c] |-> c])

(* The operation c issues where it stands.                                     *)
OpOf(c) == CASE pc[c] = "read" -> Read(MEM_COUNTER, 1)
             [] pc[c] = "cas"  -> Cas(MEM_COUNTER, counter[c], counter[c] + size[c])
             [] pc[c] = "run"  -> RunAlloc(size[c])
             [] pc[c] = "fill" -> Fill(c)

Issue(c) == /\ pc[c] # "idle"
            /\ \E p \in Port : Request(c, OpOf(c), p)
            /\ UNCHANGED allocVars

ServeOne == /\ \E q \in requests : Serve(q, AllocEffect(q.op, mem), AllocOutcome(q.op, mem))
            /\ UNCHANGED allocVars

(* execute returns a: the words from a on are c's.                             *)
Grant(c, a) == /\ block' = [block EXCEPT ![c] = a]
               /\ granted' = granted \cup {[client |-> c, nth |-> started[c], lo |-> a, hi |-> a + size[c]]}
               /\ Goto(c, "fill")

AfterRead(c, res) == /\ pc[c] = "read"
                     /\ counter' = [counter EXCEPT ![c] = res.result[1]]
                     /\ Goto(c, "cas")
                     /\ UNCHANGED <<block, granted>>

\* A slip: the result of the CAS is not looked at.
AfterCasUnchecked(c, res) == pc[c] = "cas" /\ Grant(c, counter[c]) /\ UNCHANGED counter

AfterCas(c, res) == /\ pc[c] = "cas"
                    /\ IF res.result[1] = 0
                       THEN Goto(c, "read") /\ UNCHANGED <<block, granted>>
                       ELSE Grant(c, counter[c])
                    /\ UNCHANGED counter

AfterRun(c, res) == /\ pc[c] = "run"
                    /\ Grant(c, res.result[1])
                    /\ UNCHANGED counter

AfterFill(c) == /\ pc[c] = "fill"
                /\ Goto(c, "idle")
                /\ UNCHANGED <<counter, block, granted>>

(* unwrap throws on every Result that is not OK: alloc's caller is left with   *)
(* an exception, and c is back outside.                                        *)
Throw(c) == Goto(c, "idle") /\ UNCHANGED <<counter, block, granted>>

Continue(c, res) ==
  /\ \/ res.error # "OK" /\ Throw(c)
     \/ res.error = "OK" /\ (AfterRead(c, res) \/ AfterCas(c, res)
                             \/ AfterRun(c, res) \/ AfterFill(c))
  /\ UNCHANGED <<size, started>>

Receive(c) == \E r \in replies : r.client = c /\ Answer(c, r.res) /\ Continue(c, r.res)
Retry(c)   == Resend(c) /\ UNCHANGED allocVars
Abandon(c) == GiveUp(c) /\ Continue(c, TimedOut)
Drop       == Lose /\ UNCHANGED allocVars

Step(c) == Begin(c) \/ Issue(c) \/ Receive(c) \/ Retry(c) \/ Abandon(c)

Quiet == /\ \A c \in Client : pc[c] = "idle" /\ started[c] = MaxAllocs
         /\ requests = {}
         /\ UNCHANGED vars

Next == (\E c \in Client : Step(c)) \/ ServeOne \/ Drop \/ Quiet

Spec == Init /\ [][Next]_vars

-------------------------------------------------------------------------------
ReadOps  == [kind : {"READ"}, addr : {MEM_COUNTER}, len : {1}]
CasOps   == [kind : {"CAS"}, addr : {MEM_COUNTER}, test : Nat \ {0}, value : Nat \ {0}]
WriteOps == [kind : {"WRITE"}, addr : Nat \ {0}, values : Seq(Client)]
RunOps   == [kind : {"RUN"}, size : Nat \ {0}]
AllocOps == ReadOps \cup CasOps \cup WriteOps \cup RunOps

(* The variables hold what their declarations say.                             *)
TypeOK ==
  /\ ExchangeTypeOK(AllocOps, Result, Nat)
  /\ pc \in [Client -> {"idle", "read", "cas", "run", "fill"}]
  /\ size \in [Client -> Nat \ {0}]
  /\ counter \in [Client -> Nat]
  /\ block \in [Client -> Nat]
  /\ started \in [Client -> 0 .. MaxAllocs]
  /\ granted \subseteq [client : Client, nth : Nat, lo : Nat, hi : Nat]

(* No word is handed out twice, however requests are repeated, delayed or      *)
(* lost and however remote and mobile allocations interleave.                  *)
Apart(lo1, hi1, lo2, hi2) == hi1 <= lo2 \/ hi2 <= lo1
Disjoint == \A b, d \in granted : b # d => Apart(b.lo, b.hi, d.lo, d.hi)

(* The counter stays ahead of every block, and the word it lives in is never   *)
(* part of one: "should not be used for anything else... or we will have bugs" *)
(* (common/ActiveRDMA.java:169).                                               *)
CounterAhead == \A b \in granted : FirstBlock <= b.lo /\ b.hi <= mem[MEM_COUNTER]

(* What a client stored in its block is not touched by another client's        *)
(* writes, the copies sent before a time-out and served long after included.   *)
BlockIntact ==
  \A b \in granted : \A i \in b.lo .. b.hi - 1 : i \in Cells => mem[i] \in {0, b.client}

(* The counter only moves forward.                                             *)
CounterGrows == [][mem[MEM_COUNTER] <= mem'[MEM_COUNTER]]_vars

(* Words are only lost to blocks nobody knows when a receive has timed out:    *)
(* otherwise, with no call open, the blocks granted account for the counter.   *)
NoLeak ==
  (timeouts = 0 /\ requests = {} /\ \A c \in Client : ~Open(c))
    => \A i \in FirstBlock .. mem[MEM_COUNTER] - 1 :
          \E b \in granted : i \in b.lo .. b.hi - 1

-------------------------------------------------------------------------------
(* The invariant that carries the proofs of AllocatorProof.                    *)

(* A claim is a reply that will make its receiver's alloc return: a block is   *)
(* given away when the server serves the request, and known when it is read.   *)
OpFor(r)    == call[r.client].op
Claiming(r) == /\ r.res.error = "OK"
               /\ \/ OpFor(r).kind = "RUN"
                  \/ OpFor(r).kind = "CAS" /\ r.res.result[1] # 0
Lo(r) == IF OpFor(r).kind = "RUN" THEN r.res.result[1] ELSE OpFor(r).test
Hi(r) == IF OpFor(r).kind = "RUN" THEN r.res.result[1] + OpFor(r).size ELSE OpFor(r).value

(* A write is one of the owner's, to a whole block of its own.                 *)
OwnWrite(c, op) ==
  /\ \E b \in granted : /\ b.client = c
                         /\ b.lo = op.addr /\ b.hi = op.addr + Len(op.values)
  /\ \A i \in 1 .. Len(op.values) : op.values[i] = c

(* A client waits for the operation of the step it is in, the packets of its   *)
(* socket are copies of that operation, and the replies are answers to it.     *)
Matching ==
  /\ \A c \in Client : Open(c) => pc[c] # "idle" /\ call[c].op = OpOf(c)
  /\ \A q \in requests : Bound(q) => q.op = call[q.client].op
  /\ \A r \in replies :
       /\ Bound(r)
       /\ r.res.error = "OK" =>
            /\ OpFor(r).kind \in {"READ", "RUN"} => r.res.result[1] \in Nat \ {0}
            /\ OpFor(r).kind = "CAS" => r.res.result[1] \in {0, 1}

Locals ==
  \A c \in Client :
    /\ pc[c] = "cas" => counter[c] # 0
    /\ pc[c] = "fill" => OwnWrite(c, OpOf(c))

Sent == \A q \in requests :
          /\ q.op.kind = "CAS" => q.op.test < q.op.value
          /\ q.op.kind = "WRITE" => OwnWrite(q.client, q.op)

ClaimsSafe ==
  /\ \A r \in replies : Claiming(r) => FirstBlock <= Lo(r) /\ Hi(r) <= mem[MEM_COUNTER]
  /\ \A r \in replies, b \in granted : Claiming(r) => Apart(Lo(r), Hi(r), b.lo, b.hi)
  /\ \A r, s \in replies : (Claiming(r) /\ Claiming(s) /\ r.client # s.client)
                             => Apart(Lo(r), Hi(r), Lo(s), Hi(s))

(* Words nobody knows about yet, or that only a reply knows about, are blank.  *)
Blank ==
  /\ FirstBlock <= mem[MEM_COUNTER]
  /\ \A i \in Cells : i >= mem[MEM_COUNTER] => mem[i] = 0
  /\ \A r \in replies : Claiming(r) =>
       \A i \in Cells : Lo(r) <= i /\ i < Hi(r) => mem[i] = 0

IInv == /\ TypeOK /\ Matching /\ Locals /\ Sent
        /\ Disjoint /\ CounterAhead /\ ClaimsSafe /\ Blank /\ BlockIntact
===============================================================================
