----------------------------- MODULE AnyClientProof ----------------------------
(* Proofs about AnyClient for any clients, operations, ports, memory, tries    *)
(* and time-outs: an answer is an answer to the call that gets it, and the     *)
(* exchange implements AtomicMemory.  They assume that no port is reused while *)
(* a packet from it travels (FreshPorts).                                      *)
EXTENDS AnyClient, TLAPS

-------------------------------------------------------------------------------
(* What serving one operation does to memory, of any size.                     *)

(* An operation that a program can ask for.                                    *)
IsOp(op) == \/ op.kind = "READ" /\ op.addr \in Int /\ op.len \in Nat
            \/ op.kind = "WRITE" /\ op.addr \in Int /\ op.values \in Seq(Int)
            \/ op.kind = "CAS" /\ op.addr \in Int /\ op.test \in Int /\ op.value \in Int

(* Memory stays a memory.                                                      *)
LEMMA EffectType ==
  ASSUME NEW op, IsOp(op), NEW m \in [Cells -> Int]
  PROVE  Effect(op, m) \in [Cells -> Int]
  <1>1. CASE op.kind = "READ"
    BY <1>1 DEF Effect
  <1>2. CASE op.kind = "WRITE" /\ op.addr \in Int /\ op.values \in Seq(Int)
    <2>1. ASSUME NEW a \in Cells, op.addr >= 0, a \in op.addr .. op.addr + Len(op.values) - 1
          PROVE  op.values[a - op.addr + 1] \in Int
      <3>1. a \in Int /\ Len(op.values) \in Nat
        BY <1>2, MemSizeAssumption DEF Cells
      <3>2. a - op.addr + 1 \in 1 .. Len(op.values)
        BY <1>2, <2>1, <3>1
      <3> QED BY <1>2, <3>2
    <2>2. Effect(op, m) = [a \in Cells |-> IF /\ op.addr >= 0
                                              /\ a \in op.addr .. op.addr + Len(op.values) - 1
                                           THEN op.values[a - op.addr + 1] ELSE m[a]]
      BY <1>2 DEF Effect
    <2> QED BY <2>1, <2>2
  <1>3. CASE op.kind = "CAS" /\ op.value \in Int
    BY <1>3 DEF Effect
  <1> QED BY <1>1, <1>2, <1>3 DEF IsOp

(* What it answers is a Result.                                                *)
LEMMA OutcomeType ==
  ASSUME NEW op, IsOp(op), NEW m \in [Cells -> Int]
  PROVE  Outcome(op, m) \in Result
  <1>1. CASE ~InBounds(op)
    BY <1>1 DEF Outcome, Failed, Result, ErrorCode
  <1>2. CASE op.kind = "CAS" /\ InBounds(op)
    BY <1>2 DEF Outcome, Ok, Result, ErrorCode
  <1>3. CASE op.kind # "CAS" /\ InBounds(op)
    <2>1. Width(op) \in Nat /\ op.addr \in Int
      BY <1>3 DEF IsOp, Width
    <2> DEFINE s == [i \in 1 .. Width(op) |-> m[op.addr + i - 1]]
    <2>2. ASSUME NEW i \in 1 .. Width(op) PROVE m[op.addr + i - 1] \in Int
      <3>1. op.addr + i - 1 \in Cells
        BY <1>3, <2>1, MemSizeAssumption DEF InBounds, Cells
      <3> QED BY <3>1
    <2>3. s \in Seq(Int)
      BY <2>1, <2>2
    <2>4. Outcome(op, m) = Ok(s)
      BY <1>3 DEF Outcome
    <2> QED BY <2>3, <2>4 DEF Ok, Result, ErrorCode
  <1> QED BY <1>1, <1>2, <1>3

-------------------------------------------------------------------------------
(* A request that its open call would take the answer of is that call's.       *)
Matching == \A q \in requests : Bound(q) => OfOpenCall(q)

(* What is queued at a socket was computed for the call that opened it.        *)
Computed == \A r \in replies : /\ Open(r.client) /\ call[r.client].port = r.port
                               /\ r.res \in outcomes[r.client]

(* Before the first time-out there is one copy of a request, as long as its    *)
(* call waits and nothing has been computed for it.                            *)
OneCopy == timeouts = 0 =>
             \A q \in requests :
               /\ Open(q.client) /\ q = Packet(q.client, 1)
               /\ outcomes[q.client] = {}

IInv == /\ TypeOK /\ outcomes \in [Client -> SUBSET Result]
        /\ Matching /\ Computed /\ OneCopy

-------------------------------------------------------------------------------
(* The operations are those that EffectType is about.                          *)
LEMMA OpsAreOps == ASSUME NEW op \in Ops PROVE IsOp(op)
  BY AnyClientAssumption DEF IsOp

(* What a client's exchange can be.                                            *)
LEMMA OpenCall ==
  ASSUME TypeOK, NEW c \in Client
  PROVE  /\ Open(c) => /\ call[c].op \in Ops /\ call[c].port \in Port
                       /\ call[c].sent \in 1 .. Tries
                       /\ call[c] = [op |-> call[c].op, port |-> call[c].port, sent |-> call[c].sent]
         /\ ~Open(c) => call[c] = NoCall
  <1>1. call[c] \in {NoCall} \cup [op : Ops, port : Port, sent : 1 .. Tries]
    BY DEF TypeOK, ExchangeTypeOK
  <1>2. NoCall.sent = 0
    BY DEF NoCall
  <1>3. CASE call[c] = NoCall
    BY <1>2, <1>3 DEF Open
  <1>4. CASE call[c] \in [op : Ops, port : Port, sent : 1 .. Tries]
    <2>1. call[c].sent \in 1 .. Tries /\ Open(c)
      BY <1>4, ExchangeAssumption DEF Open
    <2> QED BY <1>4, <2>1
  <1> QED BY <1>1, <1>3, <1>4

(* What a packet can be.                                                       *)
LEMMA Packets ==
  ASSUME TypeOK
  PROVE  /\ \A q \in requests : q.client \in Client /\ q.port \in Port /\ q.op \in Ops
         /\ \A r \in replies : r.client \in Client /\ r.res \in Result
  BY DEF TypeOK, ExchangeTypeOK

(* A new exchange: no packet of its client can be taken for one of it.         *)
LEMMA InvokeKeeps ==
  ASSUME FreshPorts, IInv, NEW c \in Client, Invoke(c)
  PROVE  IInv'
  <1>1. PICK op \in Ops, p \in Port : Request(c, op, p)
    BY DEF Invoke
  <1>2. /\ calls[c] < MaxCalls[c] /\ calls' = [calls EXCEPT ![c] = @ + 1]
        /\ outcomes' = [outcomes EXCEPT ![c] = {}] /\ answer' = answer
    BY DEF Invoke
  <1>3. TypeOK /\ outcomes \in [Client -> SUBSET Result]
    BY DEF IInv
  <1>4. /\ ~Open(c) /\ call' = [call EXCEPT ![c] = [op |-> op, port |-> p, sent |-> 1]]
        /\ \A q \in requests : ~(q.client = c /\ q.port = p)
        /\ requests' = requests \cup {[client |-> c, port |-> p, op |-> op, copy |-> 1]}
        /\ UNCHANGED <<mem, replies, timeouts>>
    BY <1>1 DEF Request
  <1>5. /\ call'[c] = [op |-> op, port |-> p, sent |-> 1] /\ outcomes'[c] = {}
        /\ \A d \in Client \ {c} : call'[d] = call[d] /\ outcomes'[d] = outcomes[d]
    BY <1>2, <1>3, <1>4 DEF TypeOK, ExchangeTypeOK
  <1>6. TypeOK' /\ outcomes' \in [Client -> SUBSET Result]
    <2>1. [op |-> op, port |-> p, sent |-> 1] \in [op : Ops, port : Port, sent : 1 .. Tries]
      BY ExchangeAssumption
    <2>2. call' \in [Client -> {NoCall} \cup [op : Ops, port : Port, sent : 1 .. Tries]]
      BY <1>3, <1>4, <2>1 DEF TypeOK, ExchangeTypeOK
    <2>3. requests' \subseteq [client : Client, port : Port, op : Ops, copy : 1 .. Tries + 1]
      BY <1>3, <1>4, ExchangeAssumption DEF TypeOK, ExchangeTypeOK
    <2>4. calls' \in [Client -> Nat] /\ \A d \in Client : calls'[d] <= MaxCalls[d]
      BY <1>2, <1>3, AnyClientAssumption DEF TypeOK
    <2> QED BY <1>2, <1>3, <1>4, <2>2, <2>3, <2>4 DEF TypeOK, ExchangeTypeOK
  <1>7. Matching'
    <2> SUFFICES ASSUME NEW q \in requests', Bound(q)' PROVE OfOpenCall(q)'
      BY DEF Matching
    <2>1. CASE q \in requests /\ q.client # c
      BY <1>3, <1>5, <2>1, Packets DEF IInv, Matching, Bound, OfOpenCall, Open
    <2>2. CASE q \in requests /\ q.client = c
      BY <1>4, <1>5, <2>2 DEF Bound
    <2>3. CASE q = [client |-> c, port |-> p, op |-> op, copy |-> 1]
      BY <1>5, <2>3 DEF OfOpenCall
    <2> QED BY <1>4, <2>1, <2>2, <2>3
  <1>8. Computed'
    <2>1. \A r \in replies : r.client \in Client \ {c}
      BY <1>3, <1>4, Packets DEF IInv, Computed
    <2> QED BY <1>4, <1>5, <2>1 DEF IInv, Computed, Open
  <1>9. OneCopy'
    <2> SUFFICES ASSUME timeouts = 0, NEW q \in requests'
                 PROVE  /\ Open(q.client)' /\ q = Packet(q.client, 1)'
                        /\ outcomes'[q.client] = {}
      BY <1>4 DEF OneCopy
    <2>1. CASE q \in requests
      <3>1. q.client \in Client \ {c}
        BY <1>3, <1>4, <2>1, Packets DEF IInv, OneCopy
      <3> QED BY <1>5, <2>1, <3>1 DEF IInv, OneCopy, Open, Packet
    <2>2. CASE q = [client |-> c, port |-> p, op |-> op, copy |-> 1]
      BY <1>5, <2>2 DEF Open, Packet
    <2> QED BY <1>4, <2>1, <2>2
  <1> QED BY <1>6, <1>7, <1>8, <1>9 DEF IInv

(* The server handles a packet: if it answers a socket, the answer is counted  *)
(* among those computed for the call that opened it.                           *)
LEMMA ServeKeeps == ASSUME IInv, ServeOne PROVE IInv'
  <1>1. PICK q \in requests :
          /\ Serve(q, Effect(q.op, mem), Outcome(q.op, mem))
          /\ IF OfOpenCall(q)
             THEN outcomes' = [outcomes EXCEPT ![q.client] = @ \cup {Outcome(q.op, mem)}]
             ELSE UNCHANGED outcomes
          /\ UNCHANGED <<calls, answer>>
    BY DEF ServeOne
  <1> DEFINE m   == Effect(q.op, mem)
             res == Outcome(q.op, mem)
  <1>2. TypeOK /\ outcomes \in [Client -> SUBSET Result]
    BY DEF IInv
  <1>3. q.client \in Client /\ q.op \in Ops /\ m \in [Cells -> Int] /\ res \in Result
    BY <1>2, Packets, OpsAreOps, EffectType, OutcomeType DEF TypeOK, ExchangeTypeOK
  <1> HIDE DEF m, res
  <1>4. /\ requests' = requests \ {q} /\ mem' = m
        /\ \/ replies' = replies
           \/ /\ Bound(q)
              /\ replies' = replies \cup {[client |-> q.client, port |-> q.port, res |-> res]}
        /\ UNCHANGED <<call, timeouts>>
    BY <1>1 DEF Serve, m, res
  <1>5. /\ outcomes' \in [Client -> SUBSET Result]
        /\ \A c \in Client : outcomes[c] \subseteq outcomes'[c]
        /\ \A c \in Client \ {q.client} : outcomes'[c] = outcomes[c]
        /\ Bound(q) => res \in outcomes'[q.client]
    BY <1>1, <1>2, <1>3 DEF IInv, Matching, res
  <1>6. TypeOK'
    <2>1. q.port \in Port
      BY <1>2, Packets
    <2>2. replies' \subseteq [client : Client, port : Port, res : Result]
      BY <1>2, <1>3, <1>4, <2>1 DEF TypeOK, ExchangeTypeOK
    <2> QED BY <1>1, <1>2, <1>3, <1>4, <2>2 DEF TypeOK, ExchangeTypeOK
  <1>7. Matching'
    BY <1>4 DEF IInv, Matching, Bound, OfOpenCall, Open
  <1>8. Computed'
    BY <1>2, <1>3, <1>4, <1>5, Packets DEF IInv, Computed, Open, Bound
  <1>9. OneCopy'
    <2> SUFFICES ASSUME timeouts = 0, NEW r \in requests, r # q
                 PROVE  /\ Open(r.client)' /\ r = Packet(r.client, 1)'
                        /\ outcomes'[r.client] = {}
      BY <1>4 DEF OneCopy
    <2>1. /\ Open(r.client) /\ r = Packet(r.client, 1) /\ outcomes[r.client] = {}
          /\ q = Packet(q.client, 1)
      BY DEF IInv, OneCopy
    <2>2. r.client # q.client /\ r.client \in Client
      BY <1>2, <2>1, Packets
    <2> QED BY <1>4, <1>5, <2>1, <2>2 DEF Open, Packet
  <1> QED BY <1>5, <1>6, <1>7, <1>8, <1>9 DEF IInv

(* A call is over: what was queued for it is gone.                             *)
LEMMA ReturnKeeps ==
  ASSUME IInv, NEW c \in Client, Return(c), TypeOK', outcomes' = outcomes,
         \/ /\ requests' = requests /\ timeouts' = timeouts
            /\ timeouts = 0 => \A q \in requests : q.client # c
         \/ timeouts' # 0 /\ requests' = requests \cup {Packet(c, Tries + 1)}
  PROVE  IInv'
  <1>1. TypeOK /\ outcomes \in [Client -> SUBSET Result]
    BY DEF IInv
  <1>2. /\ call' = [call EXCEPT ![c] = NoCall] /\ replies' = {r \in replies : r.client # c}
        /\ ~Open(c)' /\ \A d \in Client \ {c} : call'[d] = call[d]
    BY <1>1 DEF Return, TypeOK, ExchangeTypeOK, Open, NoCall
  <1>3. Matching'
    <2> SUFFICES ASSUME NEW q \in requests', Bound(q)' PROVE OfOpenCall(q)'
      BY DEF Matching
    <2>1. q.client # c /\ q.client \in Client
      BY <1>2 DEF Bound, Open, TypeOK, ExchangeTypeOK
    <2>2. q \in requests
      BY <2>1 DEF Packet
    <2> QED BY <1>2, <2>1, <2>2 DEF IInv, Matching, Bound, OfOpenCall, Open
  <1>4. Computed'
    BY <1>1, <1>2, Packets DEF IInv, Computed, Open
  <1>5. OneCopy'
    <2> SUFFICES ASSUME timeouts' = 0, NEW q \in requests'
                 PROVE  /\ Open(q.client)' /\ q = Packet(q.client, 1)'
                        /\ outcomes'[q.client] = {}
      BY DEF OneCopy
    <2>1. q \in requests /\ timeouts = 0 /\ q.client # c /\ q.client \in Client
      BY <1>1, Packets
    <2> QED BY <1>2, <2>1 DEF IInv, OneCopy, Open, Packet
  <1> QED BY <1>1, <1>3, <1>4, <1>5 DEF IInv

(* A call returns with a packet that was queued for it.                        *)
LEMMA ReceiveKeeps == ASSUME IInv, NEW c \in Client, Receive(c) PROVE IInv'
  <1>1. PICK r \in replies : /\ r.client = c /\ Answer(c, r.res)
                             /\ answer' = [answer EXCEPT ![c] = r.res]
                             /\ UNCHANGED <<calls, outcomes>>
    BY DEF Receive
  <1>2. Return(c) /\ UNCHANGED <<mem, requests, timeouts>>
    BY <1>1 DEF Answer
  <1>3. TypeOK'
    BY <1>1, <1>2, Packets DEF IInv, TypeOK, ExchangeTypeOK, Return
  <1>4. timeouts = 0 => \A q \in requests : q.client # c
    BY <1>1 DEF IInv, OneCopy, Computed
  <1> QED BY <1>1, <1>2, <1>3, <1>4, ReturnKeeps

(* A call reports TIME_OUT; its last copy travels on.                          *)
LEMMA AbandonKeeps == ASSUME IInv, NEW c \in Client, Abandon(c) PROVE IInv'
  <1>1. /\ Open(c) /\ timeouts < MaxTimeouts /\ Return(c)
        /\ requests' = requests \cup {Packet(c, Tries + 1)} /\ timeouts' = timeouts + 1
        /\ answer' = [answer EXCEPT ![c] = TimedOut]
        /\ UNCHANGED <<mem, calls, outcomes>>
    BY DEF Abandon, GiveUp, Late
  <1>2. TypeOK
    BY DEF IInv
  <1>3. timeouts' \in 0 .. MaxTimeouts /\ timeouts' # 0
    BY <1>1, <1>2, ExchangeAssumption DEF TypeOK, ExchangeTypeOK
  <1>4. call[c].op \in Ops /\ call[c].port \in Port
    BY <1>1, <1>2, OpenCall
  <1>5. Packet(c, Tries + 1) \in [client : Client, port : Port, op : Ops, copy : 1 .. Tries + 1]
    BY <1>4, ExchangeAssumption DEF Packet
  <1>6. TimedOut \in Result
    BY DEF TimedOut, Failed, Result, ErrorCode
  <1>7. TypeOK'
    BY <1>1, <1>2, <1>3, <1>5, <1>6 DEF TypeOK, ExchangeTypeOK, Return
  <1> QED BY <1>1, <1>3, <1>7, ReturnKeeps

(* A call sends its request again.                                             *)
LEMMA RetryKeeps == ASSUME IInv, NEW c \in Client, Retry(c) PROVE IInv'
  <1>1. /\ Open(c) /\ timeouts < MaxTimeouts /\ call[c].sent < Tries
        /\ call' = [call EXCEPT ![c].sent = @ + 1]
        /\ requests' = requests \cup {Packet(c, call[c].sent + 1)}
        /\ timeouts' = timeouts + 1
        /\ UNCHANGED <<mem, replies, calls, answer, outcomes>>
    BY DEF Retry, Resend, Late
  <1>2. TypeOK
    BY DEF IInv
  <1>3. /\ call[c].op \in Ops /\ call[c].port \in Port /\ call[c].sent \in 1 .. Tries
        /\ call[c] = [op |-> call[c].op, port |-> call[c].port, sent |-> call[c].sent]
    BY <1>1, <1>2, OpenCall
  <1>4. /\ call'[c] = [op |-> call[c].op, port |-> call[c].port, sent |-> call[c].sent + 1]
        /\ \A d \in Client \ {c} : call'[d] = call[d]
        /\ call[c].sent + 1 \in 1 .. Tries
    BY <1>1, <1>2, <1>3, ExchangeAssumption DEF TypeOK, ExchangeTypeOK
  <1>5. \A d \in Client : /\ Open(d)' <=> Open(d)
                          /\ call'[d].port = call[d].port /\ call'[d].op = call[d].op
    BY <1>1, <1>3, <1>4 DEF Open
  <1>6. TypeOK'
    <2>1. call' \in [Client -> {NoCall} \cup [op : Ops, port : Port, sent : 1 .. Tries]]
      <3>1. call'[c] \in [op : Ops, port : Port, sent : 1 .. Tries]
        BY <1>3, <1>4
      <3> QED BY <1>1, <1>2, <1>4, <3>1 DEF TypeOK, ExchangeTypeOK
    <2>2. Packet(c, call[c].sent + 1) \in [client : Client, port : Port, op : Ops, copy : 1 .. Tries + 1]
      BY <1>3, <1>4, ExchangeAssumption DEF Packet
    <2>3. timeouts' \in 0 .. MaxTimeouts /\ timeouts' # 0
      BY <1>1, <1>2, ExchangeAssumption DEF TypeOK, ExchangeTypeOK
    <2> QED BY <1>1, <1>2, <2>1, <2>2, <2>3 DEF TypeOK, ExchangeTypeOK
  <1>7. Matching'
    <2> SUFFICES ASSUME NEW q \in requests', Bound(q)' PROVE OfOpenCall(q)'
      BY DEF Matching
    <2>1. CASE q \in requests
      BY <1>2, <1>5, <2>1, Packets DEF IInv, Matching, Bound, OfOpenCall
    <2>2. CASE q = Packet(c, call[c].sent + 1)
      BY <1>5, <2>2 DEF Packet, OfOpenCall
    <2> QED BY <1>1, <2>1, <2>2
  <1>8. Computed'
    BY <1>1, <1>2, <1>5, Packets DEF IInv, Computed
  <1>9. OneCopy'
    BY <1>1, <1>2 DEF OneCopy, TypeOK, ExchangeTypeOK
  <1> QED BY <1>1, <1>6, <1>7, <1>8, <1>9 DEF IInv

(* A packet is lost.                                                           *)
LEMMA DropKeeps == ASSUME IInv, Drop PROVE IInv'
  <1>1. /\ requests' \subseteq requests /\ replies' \subseteq replies
        /\ UNCHANGED <<mem, call, timeouts, calls, answer, outcomes>>
    BY DEF Drop, Lose, LoseRequest, LoseReply
  <1>2. TypeOK'
    BY <1>1 DEF IInv, TypeOK, ExchangeTypeOK
  <1> QED BY <1>1, <1>2 DEF IInv, Matching, Computed, OneCopy, Bound, OfOpenCall, Open, Packet

(* Nothing travels and nobody has called.                                      *)
LEMMA InitIInv == Init => IInv
  <1> SUFFICES ASSUME Init PROVE IInv
    OBVIOUS
  <1>1. TypeOK
    BY AnyClientAssumption, ExchangeAssumption
    DEF Init, ExchangeInit, TypeOK, ExchangeTypeOK, NoAnswer, Failed, Result, ErrorCode
  <1> QED BY <1>1 DEF Init, ExchangeInit, IInv, Matching, Computed, OneCopy

-------------------------------------------------------------------------------
(* IInv is an invariant: what travels to or from an open socket belongs to the *)
(* call that opened it (Client.exchange, client/Client.java:65-118).           *)
THEOREM ExchangeInvariance == ASSUME FreshPorts PROVE Spec => []IInv
  <1>1. IInv /\ [Next]_vars => IInv'
    <2> SUFFICES ASSUME IInv, [Next]_vars PROVE IInv'
      OBVIOUS
    <2>1. ASSUME NEW c \in Client, Invoke(c) \/ Receive(c) \/ Retry(c) \/ Abandon(c)
          PROVE  IInv'
      BY <2>1, InvokeKeeps, ReceiveKeeps, RetryKeeps, AbandonKeeps
    <2>2. CASE ServeOne
      BY <2>2, ServeKeeps
    <2>3. CASE Drop
      BY <2>3, DropKeeps
    <2>4. CASE UNCHANGED vars
      BY <2>4 DEF vars, IInv, TypeOK, ExchangeTypeOK, Matching, Computed, OneCopy, Bound,
                  OfOpenCall, Open, Packet
    <2> QED BY <2>1, <2>2, <2>3, <2>4 DEF Next, Quiet
  <1> QED BY <1>1, InitIInv, PTL DEF Spec

(* The exchange's variables, packets in flight included, keep their types.     *)
THEOREM ExchangeTypes == ASSUME FreshPorts PROVE Spec => []TypeOK
  <1>1. IInv => TypeOK
    BY DEF IInv
  <1> QED BY <1>1, ExchangeInvariance, PTL

(* An answer with OK was computed for this very call while it was open: no     *)
(* socket ever reads the answer to an earlier exchange, though no packet says  *)
(* which request it answers (client/Client.java:65-118).                       *)
THEOREM AnswersBelong == ASSUME FreshPorts PROVE Spec => AnswerIsOfThisCall
  <1>1. IInv /\ [Next]_vars =>
          [\A c \in Client : (Open(c) /\ ~Open(c)' /\ answer'[c].error = "OK")
                                => answer'[c] \in outcomes[c]]_vars
    <2> SUFFICES ASSUME IInv, Next, NEW c \in Client, Open(c), ~Open(c)',
                        answer'[c].error = "OK"
                 PROVE  answer'[c] \in outcomes[c]
      OBVIOUS
    <2>1. TypeOK
      BY DEF IInv
    <2>2. ASSUME NEW d \in Client, Receive(d) PROVE answer'[c] \in outcomes[c]
      <3>1. d = c
        BY <2>1, <2>2 DEF Receive, Answer, Return, Open, TypeOK, ExchangeTypeOK
      <3> QED BY <2>1, <2>2, <3>1 DEF IInv, Receive, Computed, TypeOK
    <2>3. ASSUME NEW d \in Client, Abandon(d) PROVE FALSE
      <3>1. d = c
        BY <2>1, <2>3 DEF Abandon, GiveUp, Return, Open, TypeOK, ExchangeTypeOK
      <3> QED BY <2>1, <2>3, <3>1 DEF Abandon, TypeOK, TimedOut, Failed
    <2>4. ASSUME NEW d \in Client, Invoke(d) PROVE FALSE
      <3>1. d # c
        BY <2>4 DEF Invoke, Request
      <3> QED BY <2>1, <2>4, <3>1 DEF Invoke, Request, Open, TypeOK, ExchangeTypeOK
    <2>5. ASSUME NEW d \in Client, Retry(d) PROVE FALSE
      BY <2>1, <2>5, OpenCall DEF Retry, Resend, Late, Open, TypeOK, ExchangeTypeOK
    <2>6. ASSUME call' = call PROVE FALSE
      BY <2>6 DEF Open
    <2> QED BY <2>2, <2>3, <2>4, <2>5, <2>6
            DEF Next, ServeOne, Serve, Drop, Lose, LoseRequest, LoseReply, Quiet, vars
  <1> QED BY <1>1, ExchangeInvariance, PTL DEF Spec, AnswerIsOfThisCall

-------------------------------------------------------------------------------
(* The state of AtomicMemory that a state of the exchange stands for.          *)
Phase   == [c \in Client |-> IF ~Open(c) THEN "idle"
                             ELSE IF outcomes[c] = {} THEN "called" ELSE "done"]
Pending == [c \in Client |-> IF Open(c) THEN call[c].op ELSE <<>>]
Comp    == [c \in Client |-> IF Open(c) THEN outcomes[c] ELSE {}]
Due     == {q.op : q \in requests}
Exact   == timeouts = 0

(* What may yet be performed when a packet is sent, or handled, or lost.       *)
LEMMA DueGrows ==
  ASSUME NEW R, NEW q
  PROVE  {x.op : x \in R \cup {q}} = {x.op : x \in R} \cup {q.op}
  <1> DEFINE S == {x.op : x \in R}
             T == {x.op : x \in R \cup {q}}
  <1>1. \A y : y \in T <=> \E x \in R \cup {q} : y = x.op
    OBVIOUS
  <1>2. \A y : y \in S <=> \E x \in R : y = x.op
    OBVIOUS
  <1>3. \A y : y \in T <=> y \in S \cup {q.op}
    BY <1>1, <1>2
  <1> HIDE DEF S, T
  <1> QED BY <1>3 DEF S, T

(* Taking a request away takes its operation away, unless another copy of it   *)
(* is left.                                                                    *)
LEMMA DueShrinks ==
  ASSUME NEW R, NEW q \in R
  PROVE  /\ q.op \in {x.op : x \in R}
         /\ {x.op : x \in R \ {q}} \in {{x.op : x \in R}, {x.op : x \in R} \ {q.op}}
  <1> DEFINE S == {x.op : x \in R}
             T == {x.op : x \in R \ {q}}
  <1>1. \A y : y \in T <=> \E x \in R \ {q} : y = x.op
    OBVIOUS
  <1>2. \A y : y \in S <=> \E x \in R : y = x.op
    OBVIOUS
  <1>3. CASE \E x \in R \ {q} : x.op = q.op
    <2>1. \A y : y \in T <=> y \in S
      BY <1>1, <1>2, <1>3
    <2> QED BY <1>2, <2>1
  <1>4. CASE ~\E x \in R \ {q} : x.op = q.op
    <2>1. \A y : y \in T <=> y \in S \ {q.op}
      BY <1>1, <1>2, <1>4
    <2> QED BY <1>2, <2>1
  <1> QED BY <1>3, <1>4

(* Both modules mean the same by performing an operation.                      *)
LEMMA SameMemory ==
  /\ Atomic!Cells = Cells
  /\ \A op, m : Atomic!Effect(op, m) = Effect(op, m)
  /\ \A op, m : Atomic!Outcome(op, m) = Outcome(op, m)
  <1>1. Atomic!Cells = Cells
    BY DEF Atomic!Cells, Cells
  <1>2. \A op : Atomic!InBounds(op) <=> InBounds(op)
    BY DEF Atomic!InBounds, InBounds, Atomic!Width, Width
  <1>3. \A op, m : Atomic!Swaps(op, m) <=> Swaps(op, m)
    BY <1>2 DEF Atomic!Swaps, Swaps
  <1>4. \A op, m : Atomic!Effect(op, m) = Effect(op, m)
    BY <1>1, <1>3 DEF Atomic!Effect, Effect
  <1>5. \A op, m : Atomic!Outcome(op, m) = Outcome(op, m)
    BY <1>2, <1>3 DEF Atomic!Outcome, Outcome, Atomic!Ok, Ok, Atomic!Failed, Failed,
                      Atomic!Width, Width
  <1> QED BY <1>1, <1>4, <1>5

(* The mapped variables are functions on the clients.                          *)
LEMMA Mapped ==
  /\ Phase = [c \in Client |-> Phase[c]] /\ Phase' = [c \in Client |-> Phase'[c]]
  /\ Pending = [c \in Client |-> Pending[c]] /\ Pending' = [c \in Client |-> Pending'[c]]
  /\ Comp = [c \in Client |-> Comp[c]] /\ Comp' = [c \in Client |-> Comp'[c]]
  BY DEF Phase, Pending, Comp

(* What an open exchange, and a closed one, stand for.                         *)
LEMMA MappedAt ==
  ASSUME NEW c \in Client
  PROVE  /\ Open(c) => /\ Phase[c] = IF outcomes[c] = {} THEN "called" ELSE "done"
                       /\ Pending[c] = call[c].op /\ Comp[c] = outcomes[c]
         /\ ~Open(c) => Phase[c] = "idle" /\ Pending[c] = <<>> /\ Comp[c] = {}
  BY DEF Phase, Pending, Comp

(* A call of the exchange is a call of the atomic memory.                      *)
LEMMA InvokeIsInvoke ==
  ASSUME IInv, NEW c \in Client, Invoke(c)
  PROVE  Atomic!Invoke(c)
  <1>1. PICK op \in Ops, p \in Port : Request(c, op, p)
    BY DEF Invoke
  <1>2. outcomes' = [outcomes EXCEPT ![c] = {}] /\ answer' = answer
    BY DEF Invoke
  <1>3. TypeOK /\ outcomes \in [Client -> SUBSET Result]
    BY DEF IInv
  <1>4. /\ ~Open(c) /\ call' = [call EXCEPT ![c] = [op |-> op, port |-> p, sent |-> 1]]
        /\ requests' = requests \cup {[client |-> c, port |-> p, op |-> op, copy |-> 1]}
        /\ UNCHANGED <<mem, replies, timeouts>>
    BY <1>1 DEF Request
  <1>5. /\ call'[c] = [op |-> op, port |-> p, sent |-> 1] /\ outcomes'[c] = {}
        /\ \A d \in Client \ {c} : call'[d] = call[d] /\ outcomes'[d] = outcomes[d]
    BY <1>2, <1>3, <1>4 DEF TypeOK, ExchangeTypeOK
  <1> Open(c)' /\ \A d \in Client \ {c} : Open(d)' <=> Open(d)
    BY <1>5 DEF Open
  <1>6. Phase[c] = "idle" /\ Phase' = [Phase EXCEPT ![c] = "called"]
    <2>1. Phase'[c] = "called" /\ \A d \in Client \ {c} : Phase'[d] = Phase[d]
      BY <1>5 DEF Phase
    <2> QED BY <1>4, <2>1, Mapped, MappedAt
  <1>7. Pending' = [Pending EXCEPT ![c] = op]
    <2>1. Pending'[c] = op /\ \A d \in Client \ {c} : Pending'[d] = Pending[d]
      BY <1>5 DEF Pending
    <2> QED BY <2>1, Mapped
  <1>8. Comp' = Comp
    <2>1. \A d \in Client : Comp'[d] = Comp[d]
      BY <1>4, <1>5 DEF Comp
    <2> QED BY <2>1, Mapped
  <1>9. Due' = Due \cup {op} /\ Exact' = Exact
    BY <1>4, DueGrows DEF Due, Exact
  <1> QED BY <1>2, <1>4, <1>6, <1>7, <1>8, <1>9
          DEF Atomic!Invoke, Phase, Pending, Comp, Due, Exact

(* The server handles a packet: the open call it belongs to takes effect, once *)
(* until a time-out, or a call takes effect that is over.                      *)
LEMMA ServePerforms ==
  ASSUME IInv, ServeOne
  PROVE  (\E c \in Client : Atomic!Perform(c)) \/ Atomic!Stray
  <1>1. PICK q \in requests :
          /\ Serve(q, Effect(q.op, mem), Outcome(q.op, mem))
          /\ IF OfOpenCall(q)
             THEN outcomes' = [outcomes EXCEPT ![q.client] = @ \cup {Outcome(q.op, mem)}]
             ELSE UNCHANGED outcomes
          /\ UNCHANGED <<calls, answer>>
    BY DEF ServeOne
  <1>2. TypeOK /\ outcomes \in [Client -> SUBSET Result]
    BY DEF IInv
  <1>3. q.client \in Client /\ q.op \in Ops
    BY <1>2, Packets
  <1>4. /\ requests' = requests \ {q} /\ mem' = Effect(q.op, mem)
        /\ UNCHANGED <<call, timeouts, answer>>
    BY <1>1 DEF Serve
  <1>5. \A d \in Client : Open(d)' <=> Open(d)
    BY <1>4 DEF Open
  <1>6. /\ q.op \in Due /\ Due' \in {Due, Due \ {q.op}}
        /\ mem' = Atomic!Effect(q.op, mem)
    BY <1>4, DueShrinks, SameMemory DEF Due
  <1>7. Pending' = Pending /\ Exact' = Exact
    BY <1>4 DEF Pending, Exact, Open
  <1>8. ASSUME OfOpenCall(q) PROVE Atomic!Perform(q.client)
    <2>1. PICK c \in Client : c = q.client
      BY <1>3
    <2>2. PICK res : res = Outcome(q.op, mem)
      OBVIOUS
    <2>3. Open(c) /\ call[c].op = q.op
      BY <1>8, <2>1 DEF OfOpenCall, Bound
    <2>4. /\ outcomes'[c] = outcomes[c] \cup {res}
          /\ \A d \in Client \ {c} : outcomes'[d] = outcomes[d]
      BY <1>1, <1>2, <1>8, <2>1, <2>2
    <2>5. Pending[c] = q.op
      BY <2>3, MappedAt
    <2>6. Phase[c] = "called" \/ (Phase[c] = "done" /\ ~Exact)
      <3>1. Exact => outcomes[c] = {}
        BY <2>1 DEF IInv, OneCopy, Exact
      <3> QED BY <2>3, <3>1, MappedAt
    <2>7. Phase' = [Phase EXCEPT ![c] = "done"]
      <3>1. Phase'[c] = "done" /\ \A d \in Client \ {c} : Phase'[d] = Phase[d]
        BY <1>5, <2>3, <2>4 DEF Phase
      <3> QED BY <3>1, Mapped
    <2>8. Comp' = [Comp EXCEPT ![c] = @ \cup {Atomic!Outcome(Pending[c], mem)}]
      <3>1. /\ Comp'[c] = Comp[c] \cup {res}
            /\ \A d \in Client \ {c} : Comp'[d] = Comp[d]
        BY <1>5, <2>3, <2>4 DEF Comp
      <3>2. Atomic!Outcome(Pending[c], mem) = res
        BY <2>2, <2>5, SameMemory
      <3> QED BY <3>1, <3>2, Mapped
    <2>9. /\ Pending[c] \in Due /\ Due' \in {Due, Due \ {Pending[c]}}
          /\ mem' = Atomic!Effect(Pending[c], mem)
      BY <1>6, <2>5
    <2> QED BY <1>4, <1>7, <2>1, <2>6, <2>7, <2>8, <2>9
            DEF Atomic!Perform, Atomic!Happens, Phase, Pending, Comp, Due, Exact
  <1>9. ASSUME ~OfOpenCall(q) PROVE Atomic!Stray
    <2>1. ~Exact
      BY <1>9 DEF IInv, OneCopy, Exact, OfOpenCall, Bound, Packet
    <2>2. Phase' = Phase /\ Comp' = Comp
      BY <1>1, <1>4, <1>9 DEF Phase, Comp, Open
    <2> QED BY <1>4, <1>6, <1>7, <2>1, <2>2
            DEF Atomic!Stray, Atomic!Happens, Phase, Pending, Comp, Due, Exact
  <1> QED BY <1>3, <1>8, <1>9

(* A call returns with what was computed while it was open.                    *)
LEMMA ReturnIsReturns ==
  ASSUME IInv, NEW c \in Client, NEW res, Return(c), Open(c), outcomes' = outcomes,
         answer' = [answer EXCEPT ![c] = res]
  PROVE  Atomic!Returns(c, res)
  <1>1. TypeOK /\ outcomes \in [Client -> SUBSET Result]
    BY DEF IInv
  <1>2. ~Open(c)' /\ \A d \in Client \ {c} : call'[d] = call[d] /\ (Open(d)' <=> Open(d))
    BY <1>1 DEF Return, TypeOK, ExchangeTypeOK, Open, NoCall
  <1>3. Phase' = [Phase EXCEPT ![c] = "idle"]
    <2>1. Phase'[c] = "idle" /\ \A d \in Client \ {c} : Phase'[d] = Phase[d]
      BY <1>2 DEF Phase
    <2> QED BY <2>1, Mapped
  <1>4. Pending' = [Pending EXCEPT ![c] = <<>>]
    <2>1. Pending'[c] = <<>> /\ \A d \in Client \ {c} : Pending'[d] = Pending[d]
      BY <1>2 DEF Pending
    <2> QED BY <2>1, Mapped
  <1>5. Comp' = [Comp EXCEPT ![c] = {}]
    <2>1. Comp'[c] = {} /\ \A d \in Client \ {c} : Comp'[d] = Comp[d]
      BY <1>2 DEF Comp
    <2> QED BY <2>1, Mapped
  <1> QED BY <1>3, <1>4, <1>5 DEF Atomic!Returns, Phase, Pending, Comp

(* An answer that is received was computed for an operation performed while    *)
(* the call was open.                                                          *)
LEMMA ReceiveResponds ==
  ASSUME IInv, NEW c \in Client, Receive(c)
  PROVE  Atomic!Respond(c)
  <1>1. PICK r \in replies : /\ r.client = c /\ Answer(c, r.res)
                             /\ answer' = [answer EXCEPT ![c] = r.res]
                             /\ UNCHANGED <<calls, outcomes>>
    BY DEF Receive
  <1>2. Return(c) /\ Open(c) /\ UNCHANGED <<mem, requests, timeouts>>
    BY <1>1 DEF Answer
  <1>3. r.res \in outcomes[c]
    BY <1>1 DEF IInv, Computed
  <1>4. Phase[c] = "done" /\ r.res \in Comp[c]
    BY <1>2, <1>3, MappedAt
  <1>5. Due' = Due /\ Exact' = Exact
    BY <1>2 DEF Due, Exact
  <1>6. Atomic!Returns(c, r.res)
    BY <1>1, <1>2, ReturnIsReturns
  <1> QED BY <1>2, <1>4, <1>5, <1>6 DEF Atomic!Respond, Phase, Comp, Due, Exact

(* One more copy of a request travels, and a time-out has passed.              *)
LEMMA LateCopy ==
  ASSUME IInv, NEW c \in Client, NEW n, Open(c), timeouts' = timeouts + 1,
         requests' = requests \cup {Packet(c, n)}
  PROVE  Due' = Due \cup {Pending[c]} /\ Exact' = FALSE
  <1>1. timeouts \in Nat
    BY DEF IInv, TypeOK, ExchangeTypeOK
  <1>2. Packet(c, n).op = Pending[c]
    BY MappedAt DEF Packet
  <1>3. Due' = Due \cup {Packet(c, n).op}
    BY DueGrows DEF Due
  <1> QED BY <1>1, <1>2, <1>3 DEF Exact

(* A time-out with tries left sends what is already due, or what may be due    *)
(* again.                                                                      *)
LEMMA RetryRepeats ==
  ASSUME IInv, NEW c \in Client, Retry(c)
  PROVE  Atomic!Repeat(c)
  <1>1. /\ Open(c) /\ call' = [call EXCEPT ![c].sent = @ + 1]
        /\ requests' = requests \cup {Packet(c, call[c].sent + 1)}
        /\ timeouts' = timeouts + 1
        /\ UNCHANGED <<mem, replies, calls, answer, outcomes>>
    BY DEF Retry, Resend, Late
  <1>2. TypeOK
    BY DEF IInv
  <1>3. \A d \in Client : (Open(d)' <=> Open(d)) /\ call'[d].op = call[d].op
    <2>1. \A d \in Client \ {c} : call'[d] = call[d]
      BY <1>1, <1>2 DEF TypeOK, ExchangeTypeOK
    <2>2. /\ call[c].sent \in 1 .. Tries
          /\ call[c] = [op |-> call[c].op, port |-> call[c].port, sent |-> call[c].sent]
      BY <1>1, <1>2, OpenCall
    <2>3. call'[c] = [op |-> call[c].op, port |-> call[c].port, sent |-> call[c].sent + 1]
      BY <1>1, <1>2, <2>2 DEF TypeOK, ExchangeTypeOK
    <2> QED BY <2>1, <2>2, <2>3, ExchangeAssumption DEF Open
  <1>4. Phase' = Phase /\ Pending' = Pending /\ Comp' = Comp
    <2>1. \A d \in Client : Phase'[d] = Phase[d] /\ Pending'[d] = Pending[d] /\ Comp'[d] = Comp[d]
      BY <1>1, <1>3 DEF Phase, Pending, Comp
    <2> QED BY <2>1, Mapped
  <1>5. Phase[c] # "idle"
    BY <1>1, MappedAt
  <1>6. Due' = Due \cup {Pending[c]} /\ Exact' = FALSE
    BY <1>1, LateCopy
  <1> QED BY <1>1, <1>4, <1>5, <1>6 DEF Atomic!Repeat, Phase, Pending, Comp, Due, Exact

(* The last time-out sends one more copy and ends the call.                    *)
LEMMA AbandonGivesUp ==
  ASSUME IInv, NEW c \in Client, Abandon(c)
  PROVE  Atomic!GiveUp(c)
  <1>1. /\ Open(c) /\ Return(c) /\ timeouts' = timeouts + 1
        /\ requests' = requests \cup {Packet(c, Tries + 1)}
        /\ answer' = [answer EXCEPT ![c] = TimedOut]
        /\ UNCHANGED <<mem, outcomes>>
    BY DEF Abandon, GiveUp, Late
  <1>2. Phase[c] # "idle"
    BY <1>1, MappedAt
  <1>3. Due' = Due \cup {Pending[c]} /\ Exact' = FALSE
    BY <1>1, LateCopy
  <1>4. Atomic!TimedOut = TimedOut
    BY DEF Atomic!TimedOut, Atomic!Failed, TimedOut, Failed
  <1>5. Atomic!Returns(c, Atomic!TimedOut)
    BY <1>1, <1>4, ReturnIsReturns
  <1> QED BY <1>1, <1>2, <1>3, <1>5 DEF Atomic!GiveUp, Phase, Pending, Due, Exact

(* The names of AtomicMemory's variables, for the steps it does not see.       *)
LEMMA Stutter ==
  ASSUME UNCHANGED <<mem, Phase, Pending, answer, Comp, Due, Exact>>
  PROVE  UNCHANGED Atomic!vars
  BY DEF Atomic!vars, Phase, Pending, Comp, Due, Exact

(* A lost request is one performance less; a lost response is not seen at all. *)
LEMMA DropLoses ==
  ASSUME IInv, Drop
  PROVE  Atomic!Lose \/ UNCHANGED Atomic!vars
  <1>1. UNCHANGED <<mem, call, timeouts, calls, answer, outcomes>>
    BY DEF Drop, Lose, LoseRequest, LoseReply
  <1>2. UNCHANGED <<mem, Phase, Pending, answer, Comp, Exact>>
    BY <1>1 DEF Phase, Pending, Comp, Exact, Open
  <1>3. CASE requests' = requests
    BY <1>2, <1>3, Stutter DEF Due
  <1>4. ASSUME NEW q \in requests, requests' = requests \ {q} PROVE Atomic!Lose \/ UNCHANGED Atomic!vars
    <2>1. q.op \in Due /\ Due' \in {Due, Due \ {q.op}}
      BY <1>4, DueShrinks DEF Due
    <2>2. CASE Due' = Due
      BY <1>2, <2>2, Stutter
    <2>3. CASE Due' = Due \ {q.op}
      BY <1>2, <2>1, <2>3 DEF Atomic!Lose, Phase, Pending, Comp, Due, Exact
    <2> QED BY <2>1, <2>2, <2>3
  <1> QED BY <1>3, <1>4 DEF Drop, Lose, LoseRequest, LoseReply

(* Nothing is open and nothing is due at first.                                *)
LEMMA InitIsInit == Init => Atomic!Init
  <1> SUFFICES ASSUME Init PROVE Atomic!Init
    OBVIOUS
  <1>1. mem = [k \in Cells |-> 0] /\ answer = [c \in Client |-> NoAnswer]
    BY DEF Init
  <1>2. \A c \in Client : ~Open(c)
    BY DEF Init, ExchangeInit, NoCall, Open
  <1>3. /\ Phase = [c \in Client |-> "idle"] /\ Pending = [c \in Client |-> <<>>]
        /\ Comp = [c \in Client |-> {}]
    BY <1>2 DEF Phase, Pending, Comp
  <1>4. Due = {} /\ Exact
    BY DEF Init, ExchangeInit, Due, Exact
  <1>5. Atomic!NoAnswer = NoAnswer
    BY DEF Atomic!NoAnswer, Atomic!Failed, NoAnswer, Failed
  <1> QED BY <1>1, <1>3, <1>4, <1>5, SameMemory
          DEF Atomic!Init, Phase, Pending, Comp, Due, Exact

(* The exchange implements AtomicMemory: an operation is performed whole, only *)
(* after it was called, once and before its call returns as long as no receive *)
(* has timed out (Client.exchange, client/Client.java:65-118, against          *)
(* SimpleServer.serve, server/SimpleServer.java).                              *)
THEOREM ExchangeIsAtomic == ASSUME FreshPorts PROVE Spec => AtomicSpec
  <1>1. IInv /\ [Next]_vars => [Atomic!Next]_(Atomic!vars)
    <2> SUFFICES ASSUME IInv, [Next]_vars PROVE Atomic!Next \/ UNCHANGED Atomic!vars
      OBVIOUS
    <2>1. ASSUME NEW c \in Client, Invoke(c) \/ Receive(c) \/ Retry(c) \/ Abandon(c)
          PROVE  Atomic!Next
      BY <2>1, InvokeIsInvoke, ReceiveResponds, RetryRepeats, AbandonGivesUp DEF Atomic!Next
    <2>2. CASE ServeOne
      BY <2>2, ServePerforms DEF Atomic!Next
    <2>3. CASE Drop
      BY <2>3, DropLoses DEF Atomic!Next
    <2>4. CASE UNCHANGED vars
      <3>1. UNCHANGED <<mem, Phase, Pending, answer, Comp, Due, Exact>>
        BY <2>4 DEF vars, Phase, Pending, Comp, Due, Exact, Open
      <3> QED BY <3>1, Stutter
    <2> QED BY <2>1, <2>2, <2>3, <2>4 DEF Next, Quiet
  <1> QED BY <1>1, InitIsInit, ExchangeInvariance, PTL DEF Spec, AtomicSpec, Atomic!Spec
===============================================================================
