----------------------------- MODULE AllocatorProof ---------------------------
(* Proofs about Allocator for any set of clients, any sizes, any memory, and   *)
(* any number of tries and time-outs: blocks are disjoint, below the counter   *)
(* and intact.  They assume that no port is reused while a packet from it      *)
(* travels (FreshPorts).  IInv is the inductive invariant; there is one lemma  *)
(* per action, and under it one step per conjunct the action can disturb.      *)
EXTENDS Allocator, TLAPS

USE FirstBlockAssumption DEF MEM_COUNTER

-------------------------------------------------------------------------------
(* The operations of the programs, by kind.                                    *)
LEMMA OpKinds ==
  ASSUME NEW op \in AllocOps
  PROVE  /\ op.kind \in {"READ", "CAS", "WRITE", "RUN"}
         /\ op.kind = "READ"  => op.addr = 0 /\ op.len = 1
         /\ op.kind = "CAS"   => op.addr = 0 /\ op.test \in Nat \ {0} /\ op.value \in Nat \ {0}
         /\ op.kind = "WRITE" => op.addr \in Nat \ {0} /\ op.values \in Seq(Client)
         /\ op.kind = "RUN"   => op.size \in Nat \ {0}
  BY DEF AllocOps, ReadOps, CasOps, WriteOps, RunOps

(* Word 0 exists.                                                              *)
LEMMA CounterIsACell == 0 \in Cells /\ MemSize \in Nat \ {0}
  BY MemSizeAssumption DEF Cells

(* What serving one operation does to memory, kind by kind.                    *)
LEMMA EffectByKind ==
  ASSUME NEW op \in AllocOps, NEW m \in [Cells -> Nat]
  PROVE  /\ op.kind = "READ" => AllocEffect(op, m) = m
         /\ op.kind = "CAS" /\ m[0] = op.test => AllocEffect(op, m) = [m EXCEPT ![0] = op.value]
         /\ op.kind = "CAS" /\ m[0] # op.test => AllocEffect(op, m) = m
         /\ op.kind = "RUN" => AllocEffect(op, m) = [m EXCEPT ![0] = m[0] + op.size]
         /\ op.kind = "WRITE" =>
              AllocEffect(op, m) = [i \in Cells |-> IF i \in op.addr .. op.addr + Len(op.values) - 1
                                                    THEN op.values[i - op.addr + 1] ELSE m[i]]
  <1> USE OpKinds, CounterIsACell
  <1>1. op.kind = "READ" => AllocEffect(op, m) = m
    BY DEF AllocEffect, Effect
  <1>2. ASSUME op.kind = "CAS" PROVE Swaps(op, m) <=> m[0] = op.test
    BY <1>2 DEF Swaps, InBounds, Width
  <1>3. op.kind = "CAS" /\ m[0] = op.test => AllocEffect(op, m) = [m EXCEPT ![0] = op.value]
    BY <1>2 DEF AllocEffect, Effect
  <1>4. op.kind = "CAS" /\ m[0] # op.test => AllocEffect(op, m) = m
    BY <1>2 DEF AllocEffect, Effect
  <1>5. op.kind = "RUN" => AllocEffect(op, m) = [m EXCEPT ![0] = m[0] + op.size]
    BY DEF AllocEffect
  <1>6. ASSUME op.kind = "WRITE"
        PROVE  AllocEffect(op, m) = [i \in Cells |-> IF i \in op.addr .. op.addr + Len(op.values) - 1
                                                    THEN op.values[i - op.addr + 1] ELSE m[i]]
    <2>1. op.addr >= 0
      BY <1>6
    <2>2. AllocEffect(op, m) = Effect(op, m)
      BY <1>6 DEF AllocEffect
    <2> QED BY <1>6, <2>1, <2>2 DEF Effect
  <1> QED BY <1>1, <1>3, <1>4, <1>5, <1>6

(* What serving one operation answers, kind by kind.                           *)
LEMMA OutcomeByKind ==
  ASSUME NEW op \in AllocOps, NEW m \in [Cells -> Nat]
  PROVE  /\ AllocOutcome(op, m) \in Result
         /\ op.kind = "READ" => AllocOutcome(op, m).result[1] = m[0]
         /\ op.kind = "CAS" => AllocOutcome(op, m).result[1] = IF m[0] = op.test THEN 1 ELSE 0
         /\ op.kind = "RUN" => AllocOutcome(op, m).result[1] = m[0]
  <1> USE OpKinds, CounterIsACell
  <1>1. CASE op.kind = "READ"
    <2>1. InBounds(op) /\ Width(op) = 1 /\ op.kind # "CAS" /\ op.addr = 0
      BY <1>1 DEF InBounds, Width
    <2>2. Outcome(op, m) = Ok([i \in 1 .. 1 |-> m[0 + i - 1]])
      BY <2>1 DEF Outcome
    <2>3. [i \in 1 .. 1 |-> m[0 + i - 1]] \in Seq(Int) /\ [i \in 1 .. 1 |-> m[0 + i - 1]][1] = m[0]
      OBVIOUS
    <2> QED BY <1>1, <2>2, <2>3 DEF AllocOutcome, Ok, Result, ErrorCode
  <1>2. CASE op.kind = "CAS"
    <2>1. InBounds(op) /\ (Swaps(op, m) <=> m[0] = op.test)
      BY <1>2 DEF InBounds, Width, Swaps
    <2> QED BY <1>2, <2>1 DEF AllocOutcome, Outcome, Ok, Result, ErrorCode
  <1>3. CASE op.kind = "RUN"
    BY <1>3 DEF AllocOutcome, Ok, Result, ErrorCode
  <1>4. CASE op.kind = "WRITE"
    <2>1. AllocOutcome(op, m) = Outcome(op, m) /\ op.kind # "CAS" /\ Width(op) = Len(op.values)
      BY <1>4 DEF AllocOutcome, Width
    <2>2. CASE ~InBounds(op)
      BY <1>4, <2>1, <2>2 DEF Outcome, Failed, Result, ErrorCode
    <2>3. CASE InBounds(op)
      <3> DEFINE s == [i \in 1 .. Len(op.values) |-> m[op.addr + i - 1]]
      <3>1. Len(op.values) \in Nat
        BY <1>4
      <3>2. \A i \in 1 .. Len(op.values) : op.addr + i - 1 \in Cells
        BY <1>4, <2>1, <2>3, <3>1 DEF InBounds, Cells
      <3>3. s \in Seq(Int)
        BY <3>1, <3>2
      <3>4. Outcome(op, m) = Ok(s)
        BY <2>1, <2>3 DEF Outcome
      <3> QED BY <1>4, <2>1, <3>3, <3>4 DEF Ok, Result, ErrorCode
    <2> QED BY <1>4, <2>2, <2>3
  <1> QED BY <1>1, <1>2, <1>3, <1>4
(* Serving one request never moves the counter back, and leaves a memory.      *)
LEMMA ServedMemory ==
  ASSUME IInv, NEW q \in requests
  PROVE  /\ AllocEffect(q.op, mem) \in [Cells -> Nat]
         /\ mem[0] <= AllocEffect(q.op, mem)[0]
         /\ q.op.kind = "WRITE" => AllocEffect(q.op, mem)[0] = mem[0]
  <1> DEFINE op == q.op
             m  == AllocEffect(q.op, mem)
  <1>0. op \in AllocOps /\ mem \in [Cells -> Nat] /\ mem[0] \in Nat
    BY CounterIsACell DEF IInv, TypeOK, ExchangeTypeOK
  <1> HIDE DEF op
  <1>1. CASE op.kind = "READ"
    BY <1>0, <1>1, EffectByKind DEF op
  <1>2. CASE op.kind = "CAS"
    <2>1. op.test \in Nat /\ op.value \in Nat /\ op.test < op.value
      BY <1>0, <1>2, OpKinds DEF IInv, Sent, op
    <2> QED BY <1>0, <1>2, <2>1, EffectByKind, CounterIsACell DEF op
  <1>3. CASE op.kind = "RUN"
    BY <1>0, <1>3, EffectByKind, OpKinds, CounterIsACell DEF op
  <1>4. CASE op.kind = "WRITE"
    <2>1. op.addr \in Nat \ {0} /\ op.values \in Seq(Client) /\ Len(op.values) \in Nat
      BY <1>0, <1>4, OpKinds
    <2>2. \A i \in 1 .. Len(op.values) : op.values[i] \in Nat
      <3>1. \A i \in 1 .. Len(op.values) : op.values[i] \in Client
        BY <2>1
      <3> QED BY <3>1, AllocatorAssumption
    <2>3. m = [i \in Cells |-> IF i \in op.addr .. op.addr + Len(op.values) - 1
                               THEN op.values[i - op.addr + 1] ELSE mem[i]]
      BY <1>0, <1>4, EffectByKind DEF op
    <2>4. \A i \in Cells : m[i] \in Nat
      BY <1>0, <2>1, <2>2, <2>3 DEF Cells
    <2>5. m[0] = mem[0]
      BY <1>0, <2>1, <2>3, CounterIsACell
    <2> QED BY <1>0, <2>3, <2>4, <2>5 DEF op
  <1> QED BY <1>0, <1>1, <1>2, <1>3, <1>4, OpKinds DEF op

(* The operation a client is about to issue has the type the servers expects,  *)
(* advances the counter if it is a CAS, and is its own write if it is a write. *)
LEMMA NextOp ==
  ASSUME IInv, NEW c \in Client, pc[c] # "idle"
  PROVE  /\ OpOf(c) \in AllocOps
         /\ OpOf(c).kind = "CAS" => OpOf(c).test < OpOf(c).value
         /\ OpOf(c).kind = "WRITE" => OwnWrite(c, OpOf(c))
         /\ pc[c] = "read" => OpOf(c).kind = "READ"
         /\ pc[c] = "cas" => /\ OpOf(c).kind = "CAS" /\ OpOf(c).test = counter[c]
                             /\ OpOf(c).value = counter[c] + size[c]
         /\ pc[c] = "run" => OpOf(c).kind = "RUN" /\ OpOf(c).size = size[c]
         /\ pc[c] = "fill" => OpOf(c).kind = "WRITE"
  <1>1. /\ size[c] \in Nat \ {0} /\ counter[c] \in Nat /\ block[c] \in Nat
        /\ pc[c] \in {"read", "cas", "run", "fill"}
    BY DEF IInv, TypeOK
  <1>2. CASE pc[c] = "read"
    BY <1>2 DEF OpOf, Read, AllocOps, ReadOps
  <1>3. CASE pc[c] = "cas"
    <2>1. counter[c] # 0
      BY <1>3 DEF IInv, Locals
    <2> QED BY <1>1, <1>3, <2>1 DEF OpOf, Cas, AllocOps, CasOps
  <1>4. CASE pc[c] = "run"
    BY <1>1, <1>4 DEF OpOf, RunAlloc, AllocOps, RunOps
  <1>5. CASE pc[c] = "fill"
    <2>1. OwnWrite(c, OpOf(c))
      BY <1>5 DEF IInv, Locals
    <2>2. OpOf(c) = [kind |-> "WRITE", addr |-> block[c], values |-> [i \in 1 .. size[c] |-> c]]
      BY <1>5 DEF OpOf, Fill, Write
    <2>3. PICK b \in granted : b.lo = OpOf(c).addr
      BY <2>1 DEF OwnWrite
    <2>4. b.lo \in Nat /\ b.lo >= 1
      BY DEF IInv, TypeOK, CounterAhead
    <2>5. [i \in 1 .. size[c] |-> c] \in Seq(Client)
      BY <1>1
    <2> QED BY <1>1, <1>5, <2>1, <2>2, <2>3, <2>4, <2>5 DEF AllocOps, WriteOps
  <1> QED BY <1>1, <1>2, <1>3, <1>4, <1>5

-------------------------------------------------------------------------------
(* Initially nothing is granted and all memory but the counter is blank.       *)
LEMMA InitIInv == Init => IInv
  <1> SUFFICES ASSUME Init PROVE IInv
    OBVIOUS
  <1> USE DEF Init, ExchangeInit
  <1>1. TypeOK
    <2>1. timeouts \in 0 .. MaxTimeouts /\ started \in [Client -> 0 .. MaxAllocs]
      BY ExchangeAssumption, AllocatorAssumption
    <2> QED BY <2>1 DEF TypeOK, ExchangeTypeOK
  <1>2. \A c \in Client : ~Open(c) /\ pc[c] = "idle"
    BY DEF Open, NoCall
  <1>3. Matching /\ Locals /\ Sent
    BY <1>2 DEF Matching, Locals, Sent
  <1>4. Disjoint /\ CounterAhead /\ ClaimsSafe /\ BlockIntact
    BY DEF Disjoint, CounterAhead, ClaimsSafe, BlockIntact
  <1>5. Blank
    BY CounterIsACell DEF Blank, Cells
  <1> QED BY <1>1, <1>3, <1>4, <1>5 DEF IInv

(* alloc is called: only the caller's program counter and size change.         *)
LEMMA BeginIInv == ASSUME IInv, NEW c \in Client, Begin(c) PROVE IInv'
  <1> USE DEF Begin, Goto, allocVars, exchangeVars
  <1>1. ~Open(c)
    BY DEF IInv, Matching
  <1>2. \A d \in Client : d # c => pc'[d] = pc[d] /\ size'[d] = size[d]
    BY DEF IInv, TypeOK
  <1>3. \A d \in Client : d # c => OpOf(d)' = OpOf(d)
    BY <1>2 DEF OpOf, Fill
  <1>4. TypeOK'
    BY AllocatorAssumption DEF IInv, TypeOK, ExchangeTypeOK
  <1>5. pc'[c] \in {"run", "read"}
    BY DEF IInv, TypeOK
  <1>6. Matching'
    BY <1>1, <1>2, <1>3 DEF IInv, Matching, Open, Bound, OpFor
  <1>7. Locals'
    BY <1>2, <1>3, <1>5 DEF IInv, Locals, OwnWrite
  <1>8. Sent' /\ Disjoint' /\ CounterAhead' /\ ClaimsSafe' /\ Blank' /\ BlockIntact'
    BY DEF IInv, Sent, OwnWrite, Disjoint, CounterAhead, ClaimsSafe, Blank, BlockIntact,
           Claiming, Lo, Hi, OpFor
  <1> QED BY <1>4, <1>6, <1>7, <1>8 DEF IInv

(* A request is sent from a new socket: no reply waits at it, and no request   *)
(* of an earlier call bears its port.                                          *)
LEMMA IssueIInv == ASSUME FreshPorts, IInv, NEW c \in Client, Issue(c) PROVE IInv'
  <1> USE DEF allocVars
  <1>1. PICK p \in Port : Request(c, OpOf(c), p)
    BY DEF Issue
  <1>2. pc[c] # "idle" /\ OpOf(c) \in AllocOps /\ UNCHANGED allocVars
    BY NextOp DEF Issue
  <1>3. /\ ~Open(c)
        /\ call' = [call EXCEPT ![c] = [op |-> OpOf(c), port |-> p, sent |-> 1]]
        /\ requests' = requests \cup {[client |-> c, port |-> p, op |-> OpOf(c), copy |-> 1]}
        /\ mem' = mem /\ replies' = replies /\ timeouts' = timeouts
        /\ \A q \in requests : ~(q.client = c /\ q.port = p)
    BY <1>1 DEF Request
  <1>4. /\ call'[c] = [op |-> OpOf(c), port |-> p, sent |-> 1]
        /\ \A d \in Client : d # c => call'[d] = call[d]
    BY <1>3 DEF IInv, TypeOK, ExchangeTypeOK
  <1>5. \A d \in Client : OpOf(d)' = OpOf(d)
    BY <1>2 DEF OpOf, Fill
  <1>6. \A r \in replies : r.client # c /\ r.client \in Client /\ OpFor(r)' = OpFor(r)
    BY <1>3, <1>4 DEF IInv, Matching, Bound, TypeOK, ExchangeTypeOK, OpFor
  <1>7. TypeOK'
    <2>1. call' \in [Client -> {NoCall} \cup [op : AllocOps, port : Port, sent : 1 .. Tries]]
      BY <1>2, <1>3, ExchangeAssumption DEF IInv, TypeOK, ExchangeTypeOK
    <2>2. requests' \subseteq [client : Client, port : Port, op : AllocOps, copy : 1 .. Tries + 1]
      BY <1>2, <1>3, ExchangeAssumption DEF IInv, TypeOK, ExchangeTypeOK
    <2> QED BY <1>2, <1>3, <2>1, <2>2 DEF IInv, TypeOK, ExchangeTypeOK
  <1>8. Matching'
    <2>1. \A d \in Client : Open(d)' => pc'[d] # "idle" /\ call'[d].op = OpOf(d)'
      BY <1>2, <1>4, <1>5 DEF IInv, Matching, Open
    <2>2. \A q \in requests' : Bound(q)' => q.op = call'[q.client].op
      <3> SUFFICES ASSUME NEW q \in requests', Bound(q)' PROVE q.op = call'[q.client].op
        OBVIOUS
      <3>1. CASE q \in requests /\ q.client # c
        <4>1. q.client \in Client
          BY <3>1 DEF IInv, TypeOK, ExchangeTypeOK
        <4> QED BY <1>4, <3>1, <4>1 DEF IInv, Matching, Bound, Open
      <3>2. CASE q \in requests /\ q.client = c
        BY <1>3, <1>4, <3>2 DEF Bound
      <3>3. CASE q \notin requests
        BY <1>3, <1>4, <3>3
      <3> QED BY <3>1, <3>2, <3>3
    <2>3. \A r \in replies' : Bound(r)'
      BY <1>3, <1>4, <1>6 DEF IInv, Matching, Bound, Open
    <2> QED BY <1>3, <1>6, <2>1, <2>2, <2>3 DEF IInv, Matching
  <1>9. Locals'
    BY <1>2, <1>5 DEF IInv, Locals, OwnWrite
  <1>10. Sent'
    BY <1>2, <1>3, NextOp DEF IInv, Sent, OwnWrite
  <1>11. Disjoint' /\ CounterAhead' /\ BlockIntact'
    BY <1>2, <1>3 DEF IInv, Disjoint, CounterAhead, BlockIntact
  <1>12. \A r \in replies : Claiming(r)' = Claiming(r) /\ Lo(r)' = Lo(r) /\ Hi(r)' = Hi(r)
    BY <1>6 DEF Claiming, Lo, Hi
  <1>13. ClaimsSafe' /\ Blank'
    BY <1>2, <1>3, <1>12 DEF IInv, ClaimsSafe, Blank
  <1> QED BY <1>7, <1>8, <1>9, <1>10, <1>11, <1>13 DEF IInv

(* What a reply that ends an allocation tells is two natural numbers.          *)
LEMMA ClaimTypes ==
  ASSUME IInv, NEW r \in replies, Claiming(r)
  PROVE  Lo(r) \in Nat /\ Hi(r) \in Nat
  <1>1. OpFor(r) \in AllocOps
    BY DEF IInv, Matching, Bound, Open, NoCall, OpFor, TypeOK, ExchangeTypeOK
  <1>2. OpFor(r).kind = "RUN" => r.res.result[1] \in Nat
    BY DEF IInv, Matching, Claiming
  <1>3. OpFor(r).kind \in {"RUN", "CAS"}
    BY DEF Claiming
  <1> QED BY <1>1, <1>2, <1>3, OpKinds DEF Lo, Hi

(* The server answers one request.  If that gives a block away it is the one   *)
(* between the old counter and the new, beyond everything claimed or granted.  *)
LEMMA ServeIInv == ASSUME IInv, ServeOne PROVE IInv'
  <1> USE DEF allocVars
  <1>1. PICK q \in requests : Serve(q, AllocEffect(q.op, mem), AllocOutcome(q.op, mem))
    BY DEF ServeOne
  <1> DEFINE out == AllocOutcome(q.op, mem)
             nr  == [client |-> q.client, port |-> q.port, res |-> out]
  <1>2. UNCHANGED allocVars /\ call' = call /\ timeouts' = timeouts
    BY <1>1 DEF Serve, ServeOne
  <1>3. /\ requests' = requests \ {q} /\ mem' = AllocEffect(q.op, mem)
        /\ replies' = replies \/ (Bound(q) /\ replies' = replies \cup {nr})
    BY <1>1 DEF Serve
  <1>4. /\ q.client \in Client /\ q.port \in Port /\ q.op \in AllocOps
        /\ mem \in [Cells -> Nat] /\ mem[0] \in Nat \ {0}
    BY CounterIsACell DEF IInv, TypeOK, ExchangeTypeOK, Blank
  <1>5. mem' \in [Cells -> Nat] /\ mem'[0] \in Nat /\ mem[0] <= mem'[0]
    BY <1>3, ServedMemory, CounterIsACell
  <1>6. Bound(q) => OpFor(nr) = q.op
    BY DEF IInv, Matching, OpFor
  <1>7. TypeOK'
    BY <1>2, <1>3, <1>4, <1>5, OutcomeByKind DEF IInv, TypeOK, ExchangeTypeOK
  <1>8. \A d \in Client : OpOf(d)' = OpOf(d)
    BY <1>2 DEF OpOf, Fill
  <1>9. Locals' /\ Sent' /\ Disjoint'
    BY <1>2, <1>3, <1>8 DEF IInv, Locals, Sent, OwnWrite, Disjoint
  <1>10. CounterAhead'
    BY <1>2, <1>4, <1>5 DEF IInv, TypeOK, CounterAhead
  <1>11. Matching'
    <2>1. \A d \in Client : Open(d)' => pc'[d] # "idle" /\ call'[d].op = OpOf(d)'
      BY <1>2, <1>8 DEF IInv, Matching, Open
    <2>2. \A x \in requests' : Bound(x)' => x.op = call'[x.client].op
      BY <1>2, <1>3 DEF IInv, Matching, Bound, Open
    <2>3. Bound(q) => Bound(nr)
      BY DEF Bound
    <2>4. Bound(q) => /\ OpFor(nr).kind \in {"READ", "RUN"} => out.result[1] \in Nat \ {0}
                      /\ OpFor(nr).kind = "CAS" => out.result[1] \in {0, 1}
      BY <1>4, <1>6, OutcomeByKind
    <2>5. \A r \in replies' : /\ Bound(r)
                              /\ r.res.error = "OK" =>
                                  /\ OpFor(r).kind \in {"READ", "RUN"} => r.res.result[1] \in Nat \ {0}
                                  /\ OpFor(r).kind = "CAS" => r.res.result[1] \in {0, 1}
      BY <1>3, <2>3, <2>4 DEF IInv, Matching
    <2> QED BY <1>2, <2>1, <2>2, <2>5 DEF Matching, Bound, Open, OpFor
  <1>12. \A r : Claiming(r)' = Claiming(r) /\ Lo(r)' = Lo(r) /\ Hi(r)' = Hi(r)
    BY <1>2 DEF Claiming, Lo, Hi, OpFor
  <1>13. Bound(q) /\ Claiming(nr) => Lo(nr) = mem[0] /\ Hi(nr) = mem'[0]
    <2> SUFFICES ASSUME Bound(q), Claiming(nr) PROVE Lo(nr) = mem[0] /\ Hi(nr) = mem'[0]
      OBVIOUS
    <2>1. CASE q.op.kind = "RUN"
      BY <1>3, <1>4, <1>6, <2>1, EffectByKind, OutcomeByKind, CounterIsACell, OpKinds DEF Lo, Hi
    <2>2. CASE q.op.kind = "CAS"
      <3>1. out.result[1] # 0
        BY <1>6, <2>2 DEF Claiming
      <3>2. mem[0] = q.op.test
        BY <1>4, <2>2, <3>1, OutcomeByKind
      <3> QED BY <1>3, <1>4, <1>6, <2>2, <3>2, EffectByKind, CounterIsACell, OpKinds DEF Lo, Hi
    <2> QED BY <1>6, <2>1, <2>2 DEF Claiming
  <1>14. \A r \in replies' : Claiming(r) =>
           \/ r \in replies /\ Lo(r) \in Nat /\ Hi(r) \in Nat
           \/ r = nr /\ Lo(r) = mem[0] /\ Hi(r) = mem'[0]
    BY <1>3, <1>13, ClaimTypes
  <1>15. ClaimsSafe'
    <2>1. \A b \in granted : b.lo \in Nat /\ b.hi \in Nat /\ b.hi <= mem[0]
      BY DEF IInv, TypeOK, CounterAhead
    <2>2. \A r \in replies : Claiming(r) => FirstBlock <= Lo(r) /\ Hi(r) <= mem[0]
      BY DEF IInv, ClaimsSafe
    <2>3. \A r \in replies' : Claiming(r) => FirstBlock <= Lo(r) /\ Hi(r) <= mem'[0]
      <3>1. FirstBlock <= mem[0] /\ mem[0] \in Nat /\ FirstBlock \in Nat
        BY <1>4 DEF IInv, Blank
      <3> QED BY <1>5, <1>14, <2>2, <3>1
    <2>4. \A r \in replies', b \in granted : Claiming(r) => Apart(Lo(r), Hi(r), b.lo, b.hi)
      BY <1>14, <2>1 DEF IInv, ClaimsSafe, Apart
    <2>5. \A r, s \in replies' : (Claiming(r) /\ Claiming(s) /\ r.client # s.client)
                                 => Apart(Lo(r), Hi(r), Lo(s), Hi(s))
      BY <1>14, <2>2 DEF IInv, ClaimsSafe, Apart
    <2> QED BY <1>2, <1>12, <2>3, <2>4, <2>5 DEF ClaimsSafe
  <1>16. \A i \in Cells \ {0} :
           \/ mem'[i] = mem[i]
           \/ \E b \in granted : /\ b.client = q.client /\ b.lo <= i /\ i < b.hi
                                 /\ mem'[i] = b.client
    <2>1. CASE q.op.kind # "WRITE"
      BY <1>3, <1>4, <2>1, EffectByKind, OpKinds
    <2>2. CASE q.op.kind = "WRITE"
      <3>1. q.op.addr \in Nat /\ Len(q.op.values) \in Nat
        BY <1>4, <2>2, OpKinds
      <3>2. OwnWrite(q.client, q.op)
        BY <2>2 DEF IInv, Sent
      <3>3. PICK b \in granted : /\ b.client = q.client
                                 /\ b.lo = q.op.addr /\ b.hi = q.op.addr + Len(q.op.values)
        BY <3>2 DEF OwnWrite
      <3>5. b.lo .. b.hi - 1 = q.op.addr .. q.op.addr + Len(q.op.values) - 1
        BY <3>1, <3>3
      <3>6. mem' = [i \in Cells |-> IF i \in q.op.addr .. q.op.addr + Len(q.op.values) - 1
                                    THEN q.op.values[i - q.op.addr + 1] ELSE mem[i]]
        BY <1>3, <1>4, <2>2, EffectByKind
      <3>7. ASSUME NEW i \in b.lo .. b.hi - 1
            PROVE  q.op.values[i - q.op.addr + 1] = q.client
        <4>1. i - q.op.addr + 1 \in 1 .. Len(q.op.values)
          BY <3>1, <3>3
        <4> QED BY <3>2, <4>1 DEF OwnWrite
      <3>8. ASSUME NEW i \in Cells, i \in b.lo .. b.hi - 1
            PROVE  b.lo <= i /\ i < b.hi /\ mem'[i] = b.client
        BY <3>1, <3>3, <3>5, <3>6, <3>7, <3>8
      <3>9. ASSUME NEW i \in Cells, i \notin b.lo .. b.hi - 1 PROVE mem'[i] = mem[i]
        BY <3>5, <3>6, <3>9
      <3> QED BY <3>3, <3>8, <3>9
    <2> QED BY <2>1, <2>2
  <1>17. Blank'
    <2>1. \A b \in granted : b.lo \in Nat /\ b.hi \in Nat /\ b.hi <= mem[0]
      BY DEF IInv, TypeOK, CounterAhead
    <2>2. \A i \in Cells : i \in Nat
      BY DEF Cells
    <2>3. \A i \in Cells : i >= mem[0] => mem'[i] = 0
      BY <1>4, <1>16, <2>1, <2>2 DEF IInv, Blank
    <2>4. \A r \in replies' : Claiming(r) =>
            \A i \in Cells : Lo(r) <= i /\ i < Hi(r) => mem'[i] = 0
      <3> SUFFICES ASSUME NEW r \in replies', Claiming(r), NEW i \in Cells, Lo(r) <= i, i < Hi(r)
                   PROVE  mem'[i] = 0
        OBVIOUS
      <3>1. CASE r \in replies /\ Lo(r) \in Nat /\ Hi(r) \in Nat
        <4>1. mem[i] = 0 /\ i # 0
          BY <3>1 DEF IInv, Blank, ClaimsSafe
        <4>2. \A b \in granted : ~(b.lo <= i /\ i < b.hi)
          BY <2>1, <2>2, <3>1 DEF IInv, ClaimsSafe, Apart
        <4> QED BY <1>16, <4>1, <4>2
      <3>2. CASE Lo(r) = mem[0]
        BY <2>2, <2>3, <3>2
      <3> QED BY <1>14, <3>1, <3>2
    <2>5. FirstBlock <= mem'[0]
      <3>1. FirstBlock <= mem[0] /\ mem[0] \in Nat /\ FirstBlock \in Nat
        BY <1>4 DEF IInv, Blank
      <3> QED BY <1>5, <3>1
    <2>6. \A i \in Cells : i >= mem'[0] => mem'[i] = 0
      BY <1>4, <1>5, <2>2, <2>3
    <2> QED BY <1>12, <2>4, <2>5, <2>6 DEF Blank
  <1>18. BlockIntact'
    <2> SUFFICES ASSUME NEW b \in granted, NEW i \in b.lo .. b.hi - 1, i \in Cells
                 PROVE  mem'[i] \in {0, b.client}
      BY <1>2 DEF BlockIntact
    <2>1. /\ b.lo \in Nat \ {0} /\ b.hi \in Nat
          /\ \A d \in granted : d.lo \in Nat /\ d.hi \in Nat
      BY DEF IInv, TypeOK, CounterAhead
    <2>2. i \in Nat /\ i # 0 /\ b.lo <= i /\ i < b.hi
      BY <2>1
    <2>3. mem[i] \in {0, b.client}
      BY DEF IInv, BlockIntact
    <2>4. ASSUME NEW d \in granted, d.lo <= i, i < d.hi PROVE d = b
      <3>1. d # b => Apart(d.lo, d.hi, b.lo, b.hi)
        BY DEF IInv, Disjoint
      <3> QED BY <2>1, <2>2, <2>4, <3>1 DEF Apart
    <2> QED BY <1>16, <2>2, <2>3, <2>4
  <1> QED BY <1>7, <1>9, <1>10, <1>11, <1>15, <1>17, <1>18 DEF IInv

(* A call that gives its caller no block returns: the replies at its socket    *)
(* vanish with it, and at most one more copy of its request is on the way.     *)
LEMMA ReturnIInv ==
  ASSUME IInv, NEW c \in Client, Open(c), Return(c),
         mem' = mem, requests' \subseteq requests \cup {Packet(c, Tries + 1)},
         timeouts' \in 0 .. MaxTimeouts,
         UNCHANGED <<size, block, started, granted>>,
         counter' \in [Client -> Nat],
         pc' \in [Client -> {"idle", "read", "cas", "run", "fill"}],
         \A d \in Client : d # c => pc'[d] = pc[d] /\ counter'[d] = counter[d],
         pc'[c] \in {"idle", "read", "cas"}, pc'[c] = "cas" => counter'[c] # 0
  PROVE  IInv'
  <1>1. /\ call' = [call EXCEPT ![c] = NoCall]
        /\ replies' = {r \in replies : r.client # c}
    BY DEF Return
  <1>2. /\ call'[c].sent = 0
        /\ \A d \in Client : d # c => call'[d] = call[d]
    BY <1>1 DEF IInv, TypeOK, ExchangeTypeOK, NoCall
  <1>3. \A d \in Client : d # c => OpOf(d)' = OpOf(d)
    BY DEF OpOf, Fill
  <1>4. /\ pc[c] # "idle" /\ call[c].op = OpOf(c) /\ OpOf(c) \in AllocOps
        /\ call[c].port \in Port
    <2>1. pc[c] # "idle" /\ call[c].op = OpOf(c)
      BY DEF IInv, Matching
    <2>2. call[c].port \in Port
      BY DEF IInv, TypeOK, ExchangeTypeOK, Open, NoCall
    <2> QED BY <2>1, <2>2, NextOp
  <1>5. \A q \in requests' : q \in requests \/ (/\ q.client = c /\ q.op = OpOf(c)
                                                /\ q.port = call[c].port /\ q = Packet(c, Tries + 1))
    BY <1>4 DEF Packet
  <1>6. \A r \in replies' : /\ r \in replies /\ r.client # c /\ r.client \in Client
                            /\ OpFor(r)' = OpFor(r)
    BY <1>1, <1>2 DEF IInv, TypeOK, ExchangeTypeOK, OpFor
  <1>7. TypeOK'
    <2>1. call' \in [Client -> {NoCall} \cup [op : AllocOps, port : Port, sent : 1 .. Tries]]
      BY <1>1 DEF IInv, TypeOK, ExchangeTypeOK
    <2>2. Packet(c, Tries + 1) \in [client : Client, port : Port, op : AllocOps, copy : 1 .. Tries + 1]
      BY <1>4, ExchangeAssumption DEF Packet
    <2>3. requests' \subseteq [client : Client, port : Port, op : AllocOps, copy : 1 .. Tries + 1]
      BY <2>2 DEF IInv, TypeOK, ExchangeTypeOK
    <2> QED BY <1>1, <2>1, <2>3 DEF IInv, TypeOK, ExchangeTypeOK
  <1>8. Matching'
    <2>1. \A d \in Client : Open(d)' => pc'[d] # "idle" /\ call'[d].op = OpOf(d)'
      BY <1>2, <1>3 DEF IInv, Matching, Open
    <2>2. \A q \in requests' : Bound(q)' => q.op = call'[q.client].op
      <3> SUFFICES ASSUME NEW q \in requests', Bound(q)' PROVE q.op = call'[q.client].op
        OBVIOUS
      <3>1. q.client # c
        BY <1>2 DEF Bound, Open
      <3>2. q \in requests /\ q.client \in Client
        BY <1>5, <3>1 DEF IInv, TypeOK, ExchangeTypeOK
      <3> QED BY <1>2, <3>1, <3>2 DEF IInv, Matching, Bound, Open
    <2>3. \A r \in replies' : Bound(r)'
      BY <1>2, <1>6 DEF IInv, Matching, Bound, Open
    <2> QED BY <1>6, <2>1, <2>2, <2>3 DEF IInv, Matching
  <1>9. Locals'
    BY <1>3 DEF IInv, Locals, OwnWrite
  <1>10. Sent'
    BY <1>4, <1>5, NextOp DEF IInv, Sent, OwnWrite
  <1>11. Disjoint' /\ CounterAhead' /\ BlockIntact'
    BY DEF IInv, Disjoint, CounterAhead, BlockIntact
  <1>12. \A r \in replies' : Claiming(r)' = Claiming(r) /\ Lo(r)' = Lo(r) /\ Hi(r)' = Hi(r)
    BY <1>6 DEF Claiming, Lo, Hi
  <1>13. ClaimsSafe' /\ Blank'
    BY <1>6, <1>12 DEF IInv, ClaimsSafe, Blank
  <1> QED BY <1>7, <1>8, <1>9, <1>10, <1>11, <1>13 DEF IInv

(* A claim reaches its client and becomes a granted block.                     *)
LEMMA GrantIInv ==
  ASSUME IInv, NEW c \in Client, NEW r \in replies, r.client = c, Claiming(r),
         Answer(c, r.res), Grant(c, Lo(r)), Hi(r) = Lo(r) + size[c],
         UNCHANGED <<size, counter, started>>
  PROVE  IInv'
  <1> DEFINE nb == [client |-> c, nth |-> started[c], lo |-> Lo(r), hi |-> Hi(r)]
  <1>1. /\ call' = [call EXCEPT ![c] = NoCall]
        /\ replies' = {s \in replies : s.client # c}
        /\ UNCHANGED <<mem, requests, timeouts>>
    BY DEF Answer, Return
  <1>2. /\ call'[c].sent = 0
        /\ \A d \in Client : d # c => call'[d] = call[d]
    BY <1>1 DEF IInv, TypeOK, ExchangeTypeOK, NoCall
  <1>3. Lo(r) \in Nat /\ Hi(r) \in Nat /\ size[c] \in Nat
    BY ClaimTypes DEF IInv, TypeOK
  <1>4. /\ block' = [block EXCEPT ![c] = Lo(r)] /\ pc' = [pc EXCEPT ![c] = "fill"]
        /\ granted' = granted \cup {nb}
    BY DEF Grant, Goto
  <1>5. /\ pc'[c] = "fill" /\ block'[c] = Lo(r)
        /\ \A d \in Client : d # c => pc'[d] = pc[d] /\ block'[d] = block[d]
    BY <1>4 DEF IInv, TypeOK
  <1>6. \A d \in Client : d # c => OpOf(d)' = OpOf(d)
    BY <1>5 DEF OpOf, Fill
  <1>7. \A s \in replies' : /\ s \in replies /\ s.client # c /\ s.client \in Client
                            /\ OpFor(s)' = OpFor(s)
    BY <1>1, <1>2 DEF IInv, TypeOK, ExchangeTypeOK, OpFor
  <1>8. TypeOK'
    <2>1. call' \in [Client -> {NoCall} \cup [op : AllocOps, port : Port, sent : 1 .. Tries]]
      BY <1>1 DEF IInv, TypeOK, ExchangeTypeOK
    <2>2. started[c] \in Nat
      BY AllocatorAssumption DEF IInv, TypeOK
    <2>3. nb \in [client : Client, nth : Nat, lo : Nat, hi : Nat]
      BY <1>3, <2>2
    <2> QED BY <1>1, <1>3, <1>4, <2>1, <2>3 DEF IInv, TypeOK, ExchangeTypeOK
  <1>9. Matching'
    <2>1. \A d \in Client : Open(d)' => pc'[d] # "idle" /\ call'[d].op = OpOf(d)'
      BY <1>2, <1>5, <1>6 DEF IInv, Matching, Open
    <2>2. \A q \in requests' : Bound(q)' => q.op = call'[q.client].op
      <3> SUFFICES ASSUME NEW q \in requests', Bound(q)' PROVE q.op = call'[q.client].op
        OBVIOUS
      <3>1. q.client # c /\ q \in requests /\ q.client \in Client
        BY <1>1, <1>2 DEF Bound, Open, IInv, TypeOK, ExchangeTypeOK
      <3> QED BY <1>2, <3>1 DEF IInv, Matching, Bound, Open
    <2>3. \A s \in replies' : Bound(s)'
      BY <1>2, <1>7 DEF IInv, Matching, Bound, Open
    <2> QED BY <1>7, <2>1, <2>2, <2>3 DEF IInv, Matching
  <1>10. \A d \in Client : \A op : OwnWrite(d, op) => OwnWrite(d, op)'
    BY <1>4 DEF OwnWrite
  <1>11. Locals'
    <2> DEFINE vs == [i \in 1 .. size[c] |-> c]
    <2>1. OpOf(c)'.addr = Lo(r) /\ OpOf(c)'.values = vs
      BY <1>5 DEF OpOf, Fill, Write
    <2>2. Len(vs) = size[c] /\ \A i \in 1 .. size[c] : vs[i] = c
      BY <1>3
    <2> HIDE DEF vs
    <2>3. /\ OpOf(c)'.addr = Lo(r) /\ Len(OpOf(c)'.values) = size[c]
          /\ \A i \in 1 .. size[c] : OpOf(c)'.values[i] = c
      BY <2>1, <2>2
    <2>4. nb \in granted' /\ nb.client = c /\ nb.lo = Lo(r) /\ nb.hi = Lo(r) + size[c]
      BY <1>4
    <2>5. OwnWrite(c, OpOf(c))'
      BY <2>3, <2>4 DEF OwnWrite
    <2> QED BY <1>5, <1>6, <1>10, <2>5 DEF IInv, Locals
  <1>12. Sent'
    BY <1>1, <1>10 DEF IInv, Sent, TypeOK, ExchangeTypeOK
  <1>13. \A b \in granted : Apart(nb.lo, nb.hi, b.lo, b.hi) /\ Apart(b.lo, b.hi, nb.lo, nb.hi)
    BY DEF IInv, ClaimsSafe, Apart
  <1>14. Disjoint'
    BY <1>4, <1>13 DEF IInv, Disjoint
  <1>15. CounterAhead'
    BY <1>1, <1>4 DEF IInv, CounterAhead, ClaimsSafe
  <1>16. \A s \in replies' : Claiming(s)' = Claiming(s) /\ Lo(s)' = Lo(s) /\ Hi(s)' = Hi(s)
    BY <1>7 DEF Claiming, Lo, Hi
  <1>17. ClaimsSafe'
    BY <1>1, <1>4, <1>7, <1>16 DEF IInv, ClaimsSafe
  <1>18. Blank'
    BY <1>1, <1>7, <1>16 DEF IInv, Blank
  <1>19. BlockIntact'
    <2>1. \A i \in nb.lo .. nb.hi - 1 : i \in Cells => mem[i] = 0
      BY <1>3 DEF IInv, Blank
    <2> QED BY <1>1, <1>4, <2>1 DEF IInv, BlockIntact
  <1> QED BY <1>8, <1>9, <1>11, <1>12, <1>14, <1>15, <1>17, <1>18, <1>19 DEF IInv

(* A result arrives, or the exchange gives up: alloc goes on by one step.      *)
LEMMA ContinueIInv ==
  ASSUME IInv, NEW c \in Client, NEW res, Open(c), Return(c), Continue(c, res),
         mem' = mem, requests' \subseteq requests \cup {Packet(c, Tries + 1)},
         timeouts' \in 0 .. MaxTimeouts,
         \/ res = TimedOut
         \/ /\ Answer(c, res)
            /\ \E r \in replies : r.client = c /\ r.res = res
  PROVE  IInv'
  <1> USE DEF Goto
  <1>1. UNCHANGED <<size, started>> /\ pc[c] # "idle" /\ call[c].op = OpOf(c)
    BY DEF Continue, IInv, Matching
  <1>2. TypeOK
    BY DEF IInv
  <1>3. CASE res.error # "OK"
    <2>1. Throw(c)
      BY <1>3 DEF Continue
    <2>2. pc' = [pc EXCEPT ![c] = "idle"] /\ UNCHANGED <<counter, block, granted>>
      BY <2>1 DEF Throw
    <2> QED BY <1>1, <1>2, <2>2, ReturnIInv DEF TypeOK
  <1>4. CASE res.error = "OK"
    <2>1. PICK r \in replies : r.client = c /\ r.res = res
      BY <1>4 DEF TimedOut, Failed
    <2>2. /\ OpFor(r) = OpOf(c) /\ Answer(c, r.res)
          /\ OpFor(r).kind \in {"READ", "RUN"} => res.result[1] \in Nat \ {0}
      BY <1>1, <1>4, <2>1 DEF IInv, Matching, OpFor, TimedOut, Failed
    <2>3. CASE AfterRead(c, res)
      <3>1. res.result[1] \in Nat \ {0}
        BY <1>1, <2>2, <2>3, NextOp DEF AfterRead
      <3>2. /\ pc' = [pc EXCEPT ![c] = "cas"] /\ counter' = [counter EXCEPT ![c] = res.result[1]]
            /\ UNCHANGED <<block, granted>>
        BY <2>3 DEF AfterRead
      <3> QED BY <1>1, <1>2, <3>1, <3>2, ReturnIInv DEF TypeOK
    <2>4. CASE AfterCas(c, res) /\ res.result[1] = 0
      <3>1. pc' = [pc EXCEPT ![c] = "read"] /\ UNCHANGED <<counter, block, granted>>
        BY <2>4 DEF AfterCas
      <3> QED BY <1>1, <1>2, <3>1, ReturnIInv DEF TypeOK
    <2>5. CASE AfterCas(c, res) /\ res.result[1] # 0
      <3>1. pc[c] = "cas" /\ Grant(c, counter[c]) /\ UNCHANGED counter
        BY <2>5 DEF AfterCas
      <3>2. Claiming(r) /\ Lo(r) = counter[c] /\ Hi(r) = counter[c] + size[c]
        BY <1>1, <1>4, <2>1, <2>2, <2>5, <3>1, NextOp DEF Claiming, Lo, Hi
      <3> QED BY <1>1, <2>1, <2>2, <3>1, <3>2, GrantIInv
    <2>6. CASE AfterRun(c, res)
      <3>1. pc[c] = "run" /\ Grant(c, res.result[1]) /\ UNCHANGED counter
        BY <2>6 DEF AfterRun
      <3>2. Claiming(r) /\ Lo(r) = res.result[1] /\ Hi(r) = res.result[1] + size[c]
        BY <1>1, <1>4, <2>1, <2>2, <3>1, NextOp DEF Claiming, Lo, Hi
      <3> QED BY <1>1, <2>1, <2>2, <3>1, <3>2, GrantIInv
    <2>7. CASE AfterFill(c)
      <3>1. pc' = [pc EXCEPT ![c] = "idle"] /\ UNCHANGED <<counter, block, granted>>
        BY <2>7 DEF AfterFill
      <3> QED BY <1>1, <1>2, <3>1, ReturnIInv DEF TypeOK
    <2> QED BY <1>4, <2>3, <2>4, <2>5, <2>6, <2>7 DEF Continue
  <1> QED BY <1>3, <1>4

(* A reply is taken from the socket.                                           *)
LEMMA ReceiveIInv == ASSUME IInv, NEW c \in Client, Receive(c) PROVE IInv'
  <1>1. PICK r \in replies : r.client = c /\ Answer(c, r.res) /\ Continue(c, r.res)
    BY DEF Receive
  <1>2. Open(c) /\ Return(c) /\ UNCHANGED <<mem, requests, timeouts>>
    BY <1>1 DEF Answer
  <1>3. timeouts \in 0 .. MaxTimeouts
    BY DEF IInv, TypeOK, ExchangeTypeOK
  <1>4. requests' \subseteq requests \cup {Packet(c, Tries + 1)} /\ timeouts' \in 0 .. MaxTimeouts
    BY <1>2, <1>3
  <1> QED BY <1>1, <1>2, <1>4, ContinueIInv

(* The tries are over.                                                         *)
LEMMA AbandonIInv == ASSUME IInv, NEW c \in Client, Abandon(c) PROVE IInv'
  <1>1. GiveUp(c) /\ Continue(c, TimedOut)
    BY DEF Abandon
  <1>2. /\ Open(c) /\ Return(c) /\ mem' = mem
        /\ timeouts < MaxTimeouts /\ timeouts' = timeouts + 1
        /\ requests' \subseteq requests \cup {Packet(c, Tries + 1)}
    BY <1>1 DEF GiveUp, Late
  <1>3. timeouts' \in 0 .. MaxTimeouts
    BY <1>2, ExchangeAssumption DEF IInv, TypeOK, ExchangeTypeOK
  <1> QED BY <1>1, <1>2, <1>3, ContinueIInv

(* The same request is sent again.                                             *)
LEMMA RetryIInv == ASSUME IInv, NEW c \in Client, Retry(c) PROVE IInv'
  <1> USE DEF allocVars
  <1>1. /\ Open(c) /\ timeouts < MaxTimeouts /\ call[c].sent < Tries
        /\ call' = [call EXCEPT ![c].sent = @ + 1]
        /\ requests' = requests \cup {Packet(c, call[c].sent + 1)}
        /\ timeouts' = timeouts + 1 /\ UNCHANGED <<mem, replies>> /\ UNCHANGED allocVars
    BY DEF Retry, Resend, Late
  <1>2. /\ pc[c] # "idle" /\ call[c].op = OpOf(c)
    BY <1>1 DEF IInv, Matching
  <1>3. /\ OpOf(c) \in AllocOps /\ call[c].port \in Port /\ call[c].sent \in 1 .. Tries
        /\ call[c] \in [op : AllocOps, port : Port, sent : 1 .. Tries]
    BY <1>1, <1>2, NextOp DEF IInv, TypeOK, ExchangeTypeOK, Open, NoCall
  <1>4. /\ call' \in [Client -> {NoCall} \cup [op : AllocOps, port : Port, sent : 1 .. Tries]]
        /\ call'[c].sent > 0
        /\ \A d \in Client : call'[d].op = call[d].op /\ call'[d].port = call[d].port
        /\ \A d \in Client : d # c => call'[d] = call[d]
    <2>1. call' = [call EXCEPT ![c] = [call[c] EXCEPT !.sent = call[c].sent + 1]]
      BY <1>1
    <2>2. call[c].sent + 1 \in 1 .. Tries
      BY <1>1, <1>3, ExchangeAssumption
    <2>3. [call[c] EXCEPT !.sent = call[c].sent + 1] \in [op : AllocOps, port : Port, sent : 1 .. Tries]
      BY <1>3, <2>2
    <2>4. call \in [Client -> {NoCall} \cup [op : AllocOps, port : Port, sent : 1 .. Tries]]
      BY DEF IInv, TypeOK, ExchangeTypeOK
    <2> QED BY <1>3, <2>1, <2>2, <2>3, <2>4
  <1>5. \A d \in Client : Open(d)' = Open(d) /\ OpOf(d)' = OpOf(d)
    BY <1>1, <1>4 DEF Open, OpOf
  <1>6. \A q \in requests' : \/ q \in requests
                             \/ q.client = c /\ q.op = OpOf(c) /\ q = Packet(c, call[c].sent + 1)
    BY <1>1, <1>2 DEF Packet
  <1>7. \A r \in replies : r.client \in Client /\ OpFor(r)' = OpFor(r)
    BY <1>4 DEF IInv, TypeOK, ExchangeTypeOK, OpFor
  <1>8. TypeOK'
    <2>1. Packet(c, call[c].sent + 1) \in [client : Client, port : Port, op : AllocOps, copy : 1 .. Tries + 1]
      BY <1>2, <1>3, ExchangeAssumption DEF Packet
    <2>2. timeouts' \in 0 .. MaxTimeouts
      BY <1>1, ExchangeAssumption DEF IInv, TypeOK, ExchangeTypeOK
    <2> QED BY <1>1, <1>4, <2>1, <2>2 DEF IInv, TypeOK, ExchangeTypeOK
  <1>9. Matching'
    <2>1. \A d \in Client : Open(d)' => pc'[d] # "idle" /\ call'[d].op = OpOf(d)'
      BY <1>1, <1>4, <1>5 DEF IInv, Matching
    <2>2. \A q \in requests' : q.client \in Client
      BY <1>6 DEF IInv, TypeOK, ExchangeTypeOK
    <2>3. \A q \in requests' : Bound(q)' => q.op = call'[q.client].op
      BY <1>2, <1>4, <1>5, <1>6, <2>2 DEF IInv, Matching, Bound
    <2>4. \A r \in replies' : Bound(r)'
      BY <1>1, <1>4, <1>5, <1>7 DEF IInv, Matching, Bound
    <2> QED BY <1>1, <1>7, <2>1, <2>3, <2>4 DEF IInv, Matching
  <1>10. Locals' /\ Disjoint' /\ CounterAhead' /\ BlockIntact'
    BY <1>1, <1>5 DEF IInv, Locals, OwnWrite, Disjoint, CounterAhead, BlockIntact
  <1>11. Sent'
    BY <1>1, <1>2, <1>6, NextOp DEF IInv, Sent, OwnWrite
  <1>12. \A r \in replies : Claiming(r)' = Claiming(r) /\ Lo(r)' = Lo(r) /\ Hi(r)' = Hi(r)
    BY <1>7 DEF Claiming, Lo, Hi
  <1>13. ClaimsSafe' /\ Blank'
    BY <1>1, <1>12 DEF IInv, ClaimsSafe, Blank
  <1> QED BY <1>8, <1>9, <1>10, <1>11, <1>13 DEF IInv

(* A packet is lost.                                                           *)
LEMMA DropIInv == ASSUME IInv, Drop PROVE IInv'
  <1>1. /\ UNCHANGED <<mem, call, timeouts>> /\ UNCHANGED allocVars
        /\ requests' \subseteq requests /\ replies' \subseteq replies
    BY DEF Drop, Lose, LoseRequest, LoseReply
  <1> USE <1>1 DEF allocVars
  <1>2. TypeOK'
    BY DEF IInv, TypeOK, ExchangeTypeOK
  <1>3. \A d \in Client : OpOf(d)' = OpOf(d)
    BY DEF OpOf, Fill
  <1>4. Matching' /\ Locals' /\ Sent'
    BY <1>3 DEF IInv, Matching, Locals, Sent, OwnWrite, Open, Bound, OpFor
  <1>5. Disjoint' /\ CounterAhead' /\ BlockIntact' /\ ClaimsSafe' /\ Blank'
    BY DEF IInv, Disjoint, CounterAhead, BlockIntact, ClaimsSafe, Blank, Claiming, Lo, Hi, OpFor
  <1> QED BY <1>2, <1>4, <1>5 DEF IInv

(* Nothing changes.                                                            *)
LEMMA StutterIInv == ASSUME IInv, UNCHANGED vars PROVE IInv'
  <1> USE DEF vars
  <1>1. TypeOK' /\ (\A d \in Client : OpOf(d)' = OpOf(d))
    BY DEF IInv, TypeOK, ExchangeTypeOK, OpOf, Fill
  <1>2. Matching' /\ Locals' /\ Sent'
    BY <1>1 DEF IInv, Matching, Locals, Sent, OwnWrite, Open, Bound, OpFor
  <1>3. Disjoint' /\ CounterAhead' /\ BlockIntact' /\ ClaimsSafe' /\ Blank'
    BY DEF IInv, Disjoint, CounterAhead, BlockIntact, ClaimsSafe, Blank, Claiming, Lo, Hi, OpFor
  <1> QED BY <1>1, <1>2, <1>3 DEF IInv

-------------------------------------------------------------------------------
(* IInv is an invariant of the allocator: it holds initially and every step of *)
(* a client, of the server and of the network preserves it.                    *)
THEOREM Invariance == ASSUME FreshPorts PROVE Spec => []IInv
  <1>1. Init => IInv
    BY InitIInv
  <1>2. IInv /\ [Next]_vars => IInv'
    <2> SUFFICES ASSUME IInv, [Next]_vars PROVE IInv'
      OBVIOUS
    <2>1. ASSUME NEW c \in Client, Step(c) PROVE IInv'
      BY <2>1, BeginIInv, IssueIInv, ReceiveIInv, RetryIInv, AbandonIInv DEF Step
    <2>2. CASE ServeOne
      BY <2>2, ServeIInv
    <2>3. CASE Drop
      BY <2>3, DropIInv
    <2>4. CASE Quiet
      BY <2>4, StutterIInv DEF Quiet
    <2>5. CASE UNCHANGED vars
      BY <2>5, StutterIInv
    <2> QED BY <2>1, <2>2, <2>3, <2>4, <2>5 DEF Next
  <1> QED BY <1>1, <1>2, PTL DEF Spec

(* The allocator's variables keep their types (common/ActiveRDMA.java:163-194  *)
(* over client/Client.java:65-118).                                            *)
THEOREM TypeCorrect == ASSUME FreshPorts PROVE Spec => []TypeOK
  <1>1. IInv => TypeOK
    BY DEF IInv
  <1> QED BY <1>1, Invariance, PTL

(* Alloc.execute never hands out a word twice, to any number of clients, over  *)
(* a network that loses, delays and repeats its requests.                      *)
THEOREM BlocksDisjoint == ASSUME FreshPorts PROVE Spec => []Disjoint
  <1>1. IInv => Disjoint
    BY DEF IInv
  <1> QED BY <1>1, Invariance, PTL

(* Every block lies between the reserved word and the counter.                 *)
THEOREM CounterStaysAhead == ASSUME FreshPorts PROVE Spec => []CounterAhead
  <1>1. IInv => CounterAhead
    BY DEF IInv
  <1> QED BY <1>1, Invariance, PTL

(* What the owner wrote in its block is never overwritten by another client,   *)
(* not even by a request served after its sender gave up.                      *)
THEOREM BlocksIntact == ASSUME FreshPorts PROVE Spec => []BlockIntact
  <1>1. IInv => BlockIntact
    BY DEF IInv
  <1> QED BY <1>1, Invariance, PTL

(* The allocation counter never moves back.                                    *)
THEOREM CounterMonotone == ASSUME FreshPorts PROVE Spec => CounterGrows
  <1>1. IInv /\ [Next]_vars => [mem[MEM_COUNTER] <= mem'[MEM_COUNTER]]_vars
    <2> SUFFICES ASSUME IInv, Next PROVE mem[MEM_COUNTER] <= mem'[MEM_COUNTER]
      OBVIOUS
    <2>1. mem[0] \in Nat
      BY CounterIsACell DEF IInv, TypeOK, ExchangeTypeOK
    <2>2. CASE ServeOne
      BY <2>2, ServedMemory DEF ServeOne, Serve
    <2>3. CASE ~ServeOne
      <3>1. mem' = mem
        BY <2>3 DEF Next, Step, Begin, Issue, Request, Receive, Answer, Retry, Resend, Abandon,
                    GiveUp, Drop, Lose, LoseRequest, LoseReply, Quiet, exchangeVars, vars
      <3> QED BY <2>1, <3>1
    <2> QED BY <2>2, <2>3
  <1> QED BY <1>1, Invariance, PTL DEF Spec, CounterGrows

-------------------------------------------------------------------------------
(* Nothing is lost before the first time-out.  Until then there is one copy of *)
(* a request, and it is gone when it has been answered ...                     *)
OneCopy == timeouts = 0 =>
             /\ \A q \in requests : Open(q.client) /\ q = Packet(q.client, 1)
             /\ \A q \in requests, r \in replies : r.client # q.client
             /\ \A r, s \in replies : r.client = s.client => r = s

(* ... so as long as the network loses neither, the words up to the counter    *)
(* are known to somebody, or will be.                                          *)
Waits(c)  == Open(c) => \/ \E q \in requests : q.client = c
                        \/ \E r \in replies : r.client = c
Known(i)  == \/ \E b \in granted : i \in b.lo .. b.hi - 1
             \/ \E r \in replies : Claiming(r) /\ i \in Lo(r) .. Hi(r) - 1
Accounted == timeouts = 0 /\ (\A c \in Client : Waits(c))
               => \A i \in FirstBlock .. mem[MEM_COUNTER] - 1 : Known(i)

(* alloc is called.                                                            *)
LEMMA BeginAccounts ==
  ASSUME IInv, OneCopy, Accounted, NEW c \in Client, Begin(c)
  PROVE  OneCopy' /\ Accounted'
  <1>1. UNCHANGED <<exchangeVars, granted>>
    BY DEF Begin
  <1>2. OneCopy'
    BY <1>1 DEF OneCopy, Open, Packet, exchangeVars
  <1>3. Accounted'
    BY <1>1 DEF Accounted, Waits, Known, Open, Claiming, Lo, Hi, OpFor, exchangeVars
  <1> QED BY <1>2, <1>3

(* The first copy is sent, from a socket nothing is queued at.                 *)
LEMMA IssueAccounts ==
  ASSUME IInv, OneCopy, Accounted, NEW c \in Client, Issue(c)
  PROVE  OneCopy' /\ Accounted'
  <1>1. PICK p \in Port : Request(c, OpOf(c), p)
    BY DEF Issue
  <1> DEFINE new == [client |-> c, port |-> p, op |-> OpOf(c), copy |-> 1]
  <1>2. /\ ~Open(c) /\ requests' = requests \cup {new} /\ granted' = granted
        /\ mem' = mem /\ replies' = replies /\ timeouts' = timeouts
        /\ call' = [call EXCEPT ![c] = [op |-> OpOf(c), port |-> p, sent |-> 1]]
    BY <1>1 DEF Request, Issue, allocVars
  <1>3. /\ call'[c] = [op |-> OpOf(c), port |-> p, sent |-> 1]
        /\ \A d \in Client : d # c => call'[d] = call[d]
    BY <1>2 DEF IInv, TypeOK, ExchangeTypeOK
  <1>4. \A r \in replies : r.client \in Client /\ r.client # c
    BY <1>2 DEF IInv, TypeOK, ExchangeTypeOK, Matching, Bound
  <1>5. \A q \in requests : q.client \in Client
    BY DEF IInv, TypeOK, ExchangeTypeOK
  <1>6. OneCopy'
    <2> SUFFICES ASSUME timeouts = 0 PROVE OneCopy'
      BY <1>2 DEF OneCopy
    <2>1. \A q \in requests : q.client # c /\ Open(q.client) /\ q = Packet(q.client, 1)
      BY <1>2 DEF OneCopy
    <2>2. Open(c)' /\ new = Packet(c, 1)'
      BY <1>3 DEF Open, Packet
    <2>3. \A q \in requests' : Open(q.client)' /\ q = Packet(q.client, 1)'
      BY <1>2, <1>3, <1>5, <2>1, <2>2 DEF Open, Packet
    <2>4. \A q \in requests', r \in replies' : r.client # q.client
      BY <1>2, <1>4 DEF OneCopy
    <2> QED BY <1>2, <2>3, <2>4 DEF OneCopy
  <1>7. \A d \in Client : Waits(d)' => Waits(d)
    BY <1>2, <1>3 DEF Waits, Open
  <1>8. \A i : Known(i) => Known(i)'
    BY <1>2, <1>3, <1>4 DEF Known, Claiming, Lo, Hi, OpFor
  <1> QED BY <1>2, <1>6, <1>7, <1>8 DEF Accounted

(* The words between the old counter and the new are those the reply tells of. *)
LEMMA ServeAccounts ==
  ASSUME IInv, OneCopy, Accounted, ServeOne
  PROVE  OneCopy' /\ Accounted'
  <1>1. PICK q \in requests : Serve(q, AllocEffect(q.op, mem), AllocOutcome(q.op, mem))
    BY DEF ServeOne
  <1> DEFINE out == AllocOutcome(q.op, mem)
             nr  == [client |-> q.client, port |-> q.port, res |-> out]
  <1>2. /\ call' = call /\ timeouts' = timeouts /\ granted' = granted
        /\ requests' = requests \ {q} /\ mem' = AllocEffect(q.op, mem)
        /\ replies' = IF Bound(q) THEN replies \cup {nr} ELSE replies
    BY <1>1 DEF Serve, ServeOne, allocVars
  <1> SUFFICES ASSUME timeouts = 0 PROVE OneCopy' /\ Accounted'
    BY <1>2 DEF OneCopy, Accounted
  <1>3. /\ \A x \in requests : Open(x.client) /\ x = Packet(x.client, 1)
        /\ \A x \in requests, r \in replies : r.client # x.client
        /\ \A r, s \in replies : r.client = s.client => r = s
    BY DEF OneCopy
  <1>4. Bound(q) /\ q.client \in Client
    BY <1>3 DEF Bound, Packet, IInv, TypeOK, ExchangeTypeOK
  <1>5. replies' = replies \cup {nr} /\ nr.client = q.client
    BY <1>2, <1>4
  <1>6. OneCopy'
    <2>1. \A x \in requests' : x \in requests /\ x # q /\ x.client # q.client
      BY <1>2, <1>3
    <2>2. \A x \in requests' : Open(x.client)' /\ x = Packet(x.client, 1)'
      BY <1>2, <1>3, <2>1 DEF Open, Packet
    <2>3. \A x \in requests', r \in replies' : r.client # x.client
      BY <1>3, <1>5, <2>1
    <2>4. \A r, s \in replies' : r.client = s.client => r = s
      BY <1>3, <1>5
    <2> QED BY <2>2, <2>3, <2>4 DEF OneCopy
  <1>7. \A d \in Client : Waits(d)' => Waits(d)
    BY <1>2, <1>5 DEF Waits, Open
  <1>8. \A i : Known(i) => Known(i)'
    BY <1>2, <1>5 DEF Known, Claiming, Lo, Hi, OpFor
  <1>9. \A i \in mem[0] .. mem'[0] - 1 : Known(i)'
    <2>1. /\ q.op \in AllocOps /\ mem \in [Cells -> Nat] /\ mem[0] \in Nat
          /\ OpFor(nr) = q.op
      BY <1>4, CounterIsACell DEF IInv, TypeOK, ExchangeTypeOK, Matching, OpFor
    <2>2. CASE q.op.kind \in {"READ", "WRITE"} \/ (q.op.kind = "CAS" /\ mem[0] # q.op.test)
      <3>1. mem'[0] = mem[0]
        BY <1>2, <2>1, <2>2, EffectByKind, ServedMemory
      <3> QED BY <2>1, <3>1
    <2>3. CASE q.op.kind = "RUN" \/ (q.op.kind = "CAS" /\ mem[0] = q.op.test)
      <3>1. out.error = "OK"
        BY <2>1, <2>3, OpKinds, CounterIsACell
           DEF AllocOutcome, Outcome, Ok, InBounds, Width
      <3>2. out.result[1] # 0 \/ q.op.kind = "RUN"
        BY <2>1, <2>3, OutcomeByKind
      <3>3. Claiming(nr)
        BY <2>1, <2>3, <3>1, <3>2 DEF Claiming
      <3>4. Lo(nr) = mem[0] /\ Hi(nr) = mem'[0]
        BY <1>2, <2>1, <2>3, EffectByKind, OutcomeByKind, OpKinds, CounterIsACell DEF Lo, Hi
      <3>5. PICK s \in replies' : s = nr
        BY <1>5
      <3>6. Claiming(s)' /\ Lo(s)' = mem[0] /\ Hi(s)' = mem'[0]
        BY <1>2, <3>3, <3>4, <3>5 DEF Claiming, Lo, Hi, OpFor
      <3> QED BY <3>5, <3>6 DEF Known
    <2> QED BY <2>1, <2>2, <2>3, OpKinds
  <1>10. mem[0] \in Nat /\ mem'[0] \in Nat /\ FirstBlock \in Nat
    BY <1>2, ServedMemory, CounterIsACell DEF IInv, TypeOK, ExchangeTypeOK
  <1>11. Accounted'
    <2> SUFFICES ASSUME \A d \in Client : Waits(d)', NEW i \in FirstBlock .. mem'[0] - 1
                 PROVE  Known(i)'
      BY DEF Accounted
    <2>1. CASE i < mem[0]
      <3>1. i \in FirstBlock .. mem[0] - 1
        BY <1>10, <2>1
      <3> QED BY <1>7, <1>8, <3>1 DEF Accounted
    <2>2. CASE ~(i < mem[0])
      BY <1>9, <1>10, <2>2
    <2> QED BY <2>1, <2>2
  <1> QED BY <1>6, <1>11

(* The only reply is read.  What it tells of is granted.                       *)
LEMMA ReceiveAccounts ==
  ASSUME IInv, OneCopy, Accounted, NEW c \in Client, Receive(c)
  PROVE  OneCopy' /\ Accounted'
  <1>1. PICK r \in replies : r.client = c /\ Answer(c, r.res) /\ Continue(c, r.res)
    BY DEF Receive
  <1>2. /\ Open(c) /\ call' = [call EXCEPT ![c] = NoCall] /\ UNCHANGED <<mem, requests, timeouts>>
        /\ replies' = {s \in replies : s.client # c} /\ size' = size
    BY <1>1 DEF Answer, Return, Continue
  <1> SUFFICES ASSUME timeouts = 0 PROVE OneCopy' /\ Accounted'
    BY <1>2 DEF OneCopy, Accounted
  <1>3. /\ \A x \in requests : /\ Open(x.client) /\ x = Packet(x.client, 1)
                               /\ x.client \in Client /\ x.client # c
        /\ \A s \in replies : s.client = c => s = r
        /\ \A s \in replies : s.client \in Client
    BY <1>1 DEF OneCopy, IInv, TypeOK, ExchangeTypeOK
  <1>4. /\ ~Open(c)' /\ \A d \in Client : d # c => call'[d] = call[d]
    BY <1>2 DEF IInv, TypeOK, ExchangeTypeOK, NoCall, Open
  <1>5. OneCopy'
    <2>1. \A x \in requests' : Open(x.client)' /\ x = Packet(x.client, 1)'
      BY <1>2, <1>3, <1>4 DEF Open, Packet
    <2> QED BY <1>2, <2>1 DEF OneCopy
  <1>6. \A d \in Client : Waits(d)' => Waits(d)
    BY <1>1, <1>2, <1>4 DEF Waits, Open
  <1>7. granted \subseteq granted'
    BY <1>1 DEF Continue, Throw, AfterRead, AfterCas, AfterRun, AfterFill, Grant
  <1>8. \A s \in replies : s # r =>
          /\ s \in replies' /\ Claiming(s)' = Claiming(s) /\ Lo(s)' = Lo(s) /\ Hi(s)' = Hi(s)
    BY <1>2, <1>3, <1>4 DEF Claiming, Lo, Hi, OpFor
  <1>9. Claiming(r) => \E b \in granted' : b.lo = Lo(r) /\ b.hi = Hi(r)
    <2> SUFFICES ASSUME Claiming(r) PROVE \E b \in granted' : b.lo = Lo(r) /\ b.hi = Hi(r)
      OBVIOUS
    <2>1. pc[c] # "idle" /\ OpFor(r) = OpOf(c) /\ r.res.error = "OK"
      BY <1>1, <1>2 DEF IInv, Matching, OpFor, Claiming
    <2>2. pc[c] \in {"read", "cas", "run", "fill"} /\ OpFor(r).kind \in {"RUN", "CAS"}
      BY <2>1 DEF IInv, TypeOK, Claiming
    <2>3. CASE pc[c] = "cas"
      <3>1. r.res.result[1] # 0 /\ Lo(r) = counter[c] /\ Hi(r) = counter[c] + size[c]
        BY <2>1, <2>3, NextOp DEF Claiming, Lo, Hi
      <3>2. Grant(c, counter[c])
        BY <1>1, <2>1, <2>3, <3>1 DEF Continue, AfterRead, AfterCas, AfterRun, AfterFill
      <3>3. [client |-> c, nth |-> started[c], lo |-> counter[c], hi |-> counter[c] + size[c]]
              \in granted'
        BY <3>2 DEF Grant
      <3> QED BY <3>1, <3>3
    <2>4. CASE pc[c] = "run"
      <3>1. Lo(r) = r.res.result[1] /\ Hi(r) = r.res.result[1] + size[c]
        BY <2>1, <2>4, NextOp DEF Lo, Hi
      <3>2. Grant(c, r.res.result[1])
        BY <1>1, <2>1, <2>4 DEF Continue, AfterRead, AfterCas, AfterRun, AfterFill
      <3>3. [client |-> c, nth |-> started[c], lo |-> r.res.result[1],
             hi |-> r.res.result[1] + size[c]] \in granted'
        BY <3>2 DEF Grant
      <3> QED BY <3>1, <3>3
    <2> QED BY <2>1, <2>2, <2>3, <2>4, NextOp
  <1>10. \A i : Known(i) => Known(i)'
    BY <1>7, <1>8, <1>9 DEF Known
  <1> QED BY <1>2, <1>5, <1>6, <1>10 DEF Accounted

(* The network loses the only packet of a call: the call waits in vain until   *)
(* its time-out.                                                               *)
LEMMA DropAccounts ==
  ASSUME IInv, OneCopy, Accounted, Drop
  PROVE  OneCopy' /\ Accounted'
  <1>1. /\ UNCHANGED <<mem, call, timeouts, granted>>
        /\ \/ \E q \in requests : requests' = requests \ {q} /\ replies' = replies
           \/ \E r \in replies : replies' = replies \ {r} /\ requests' = requests
    BY DEF Drop, Lose, LoseRequest, LoseReply, allocVars
  <1> SUFFICES ASSUME timeouts = 0 PROVE OneCopy' /\ Accounted'
    BY <1>1 DEF OneCopy, Accounted
  <1>2. /\ \A x \in requests : Open(x.client) /\ x = Packet(x.client, 1)
        /\ \A x \in requests, r \in replies : r.client # x.client
        /\ \A r, s \in replies : r.client = s.client => r = s
    BY DEF OneCopy
  <1>3. OneCopy'
    BY <1>1, <1>2 DEF OneCopy, Open, Packet
  <1>4. \E d \in Client : ~Waits(d)'
    <2>1. CASE \E q \in requests : requests' = requests \ {q} /\ replies' = replies
      <3>1. PICK q \in requests : requests' = requests \ {q} /\ replies' = replies
        BY <2>1
      <3>2. q.client \in Client /\ Open(q.client)'
        BY <1>1, <1>2 DEF IInv, TypeOK, ExchangeTypeOK, Open
      <3>3. ~Waits(q.client)'
        BY <1>2, <3>1, <3>2 DEF Waits
      <3> QED BY <3>2, <3>3
    <2>2. CASE \E r \in replies : replies' = replies \ {r} /\ requests' = requests
      <3>1. PICK r \in replies : replies' = replies \ {r} /\ requests' = requests
        BY <2>2
      <3>2. r.client \in Client /\ Open(r.client)'
        BY <1>1 DEF IInv, TypeOK, ExchangeTypeOK, Matching, Bound, Open
      <3>3. ~Waits(r.client)'
        BY <1>2, <3>1, <3>2 DEF Waits
      <3> QED BY <3>2, <3>3
    <2> QED BY <1>1, <2>1, <2>2
  <1> QED BY <1>3, <1>4 DEF Accounted

(* Words are lost to blocks nobody knows only after a receive has timed out    *)
(* (client/Client.java:92-107, common/ActiveRDMA.java:178-192): before that,   *)
(* with no call open, the blocks granted account for the counter.              *)
THEOREM NothingLeaks == ASSUME FreshPorts PROVE Spec => []NoLeak
  <1>1. Init => OneCopy /\ Accounted
    <2> SUFFICES ASSUME Init PROVE OneCopy /\ Accounted
      OBVIOUS
    <2>1. requests = {} /\ replies = {} /\ mem[0] = FirstBlock /\ FirstBlock \in Nat
      BY CounterIsACell DEF Init, ExchangeInit
    <2>2. FirstBlock .. mem[0] - 1 = {}
      BY <2>1
    <2> QED BY <2>1, <2>2 DEF OneCopy, Accounted
  <1>2. IInv /\ (OneCopy /\ Accounted) /\ [Next]_vars => (OneCopy /\ Accounted)'
    <2> SUFFICES ASSUME IInv, OneCopy, Accounted, [Next]_vars PROVE OneCopy' /\ Accounted'
      OBVIOUS
    <2>1. ASSUME NEW c \in Client, Step(c) PROVE OneCopy' /\ Accounted'
      <3>1. CASE Retry(c) \/ Abandon(c)
        <4>1. timeouts' # 0
          BY <3>1 DEF Retry, Abandon, Resend, GiveUp, IInv, TypeOK, ExchangeTypeOK
        <4> QED BY <4>1 DEF OneCopy, Accounted
      <3> QED BY <2>1, <3>1, BeginAccounts, IssueAccounts, ReceiveAccounts DEF Step
    <2>2. CASE UNCHANGED vars
      <3>1. OneCopy'
        BY <2>2 DEF vars, OneCopy, Open, Packet
      <3>2. Accounted'
        BY <2>2 DEF vars, Accounted, Waits, Known, Open, Claiming, Lo, Hi, OpFor
      <3> QED BY <3>1, <3>2
    <2> QED BY <2>1, <2>2, ServeAccounts, DropAccounts DEF Next, Quiet
  <1>3. IInv /\ Accounted => NoLeak
    <2> SUFFICES ASSUME Accounted, timeouts = 0, requests = {}, \A c \in Client : ~Open(c), IInv,
                        NEW i \in FirstBlock .. mem[0] - 1
                 PROVE  \E b \in granted : i \in b.lo .. b.hi - 1
      BY DEF NoLeak
    <2>1. \A c \in Client : Waits(c)
      BY DEF Waits
    <2>2. replies = {}
      BY DEF IInv, Matching, Bound, TypeOK, ExchangeTypeOK
    <2> QED BY <2>1, <2>2 DEF Accounted, Known
  <1> QED BY <1>1, <1>2, <1>3, Invariance, PTL DEF Spec
===============================================================================
