------------------------------- MODULE AnyClient ------------------------------
(* The exchange under its most general callers: each client issues any         *)
(* operations of Ops, one after the other, and keeps what it is answered.      *)
(* What the server computed is recorded beside it, so that the answers can be  *)
(* compared with what really happened to the memory.                           *)
EXTENDS Exchange, FiniteSets

CONSTANTS Ops,           \* the operations the clients choose from
          MaxCalls       \* MaxCalls[c]: bound on the exchanges of c

ASSUME AnyClientAssumption ==
  /\ \A op \in Ops : /\ op.kind \in {"READ", "WRITE", "CAS"} /\ op.addr \in Int
                     /\ op.kind = "READ" => op.len \in Nat
                     /\ op.kind = "WRITE" => op.values \in Seq(Int)
                     /\ op.kind = "CAS" => op.test \in Int /\ op.value \in Int
  /\ MaxCalls \in [Client -> Nat]

VARIABLES calls,         \* calls[c]: exchanges c has started
          answer,        \* answer[c]: the Result of the last exchange of c
          outcomes       \* outcomes[c]: Results computed for the open exchange of c

vars == <<mem, call, requests, replies, timeouts, calls, answer, outcomes>>

NoAnswer == Failed("ERROR")       \* what a Result holds before it is read

Init == /\ mem = [i \in Cells |-> 0]
        /\ ExchangeInit
        /\ calls = [c \in Client |-> 0]
        /\ answer = [c \in Client |-> NoAnswer]
        /\ outcomes = [c \in Client |-> {}]

Invoke(c) ==
  /\ calls[c] < MaxCalls[c]
  /\ \E op \in Ops, p \in Port : Request(c, op, p)
  /\ calls' = [calls EXCEPT ![c] = @ + 1]
  /\ outcomes' = [outcomes EXCEPT ![c] = {}]
  /\ UNCHANGED answer

(* The packet q is a copy of the request that its client is now waiting on.    *)
OfOpenCall(q) == Bound(q) /\ call[q.client].op = q.op

ServeOne ==
  \E q \in requests :
    /\ Serve(q, Effect(q.op, mem), Outcome(q.op, mem))
    /\ IF OfOpenCall(q)
       THEN outcomes' = [outcomes EXCEPT ![q.client] = @ \cup {Outcome(q.op, mem)}]
       ELSE UNCHANGED outcomes
    /\ UNCHANGED <<calls, answer>>

Receive(c) == \E r \in replies :
  /\ r.client = c
  /\ Answer(c, r.res)
  /\ answer' = [answer EXCEPT ![c] = r.res]
  /\ UNCHANGED <<calls, outcomes>>

Retry(c) == Resend(c) /\ UNCHANGED <<calls, answer, outcomes>>

Abandon(c) == /\ GiveUp(c)
              /\ answer' = [answer EXCEPT ![c] = TimedOut]
              /\ UNCHANGED <<calls, outcomes>>

Drop == Lose /\ UNCHANGED <<calls, answer, outcomes>>

(* All programs have ended and the network is empty.                           *)
Quiet == /\ \A c \in Client : ~Open(c) /\ calls[c] = MaxCalls[c]
         /\ requests = {}
         /\ UNCHANGED vars

Next == \/ \E c \in Client : Invoke(c) \/ Receive(c) \/ Retry(c) \/ Abandon(c)
        \/ ServeOne \/ Drop \/ Quiet

Spec == Init /\ [][Next]_vars

(* receive() returns: with a packet, or when its timer has run out.            *)
FairClients == \A c \in Client : WF_vars(Receive(c) \/ Retry(c) \/ Abandon(c))

LiveSpec == Spec /\ FairClients

-------------------------------------------------------------------------------
(* The variables hold what their declarations say.                             *)
TypeOK == /\ ExchangeTypeOK(Ops, Result, Int)
          /\ calls \in [Client -> Nat] /\ \A c \in Client : calls[c] <= MaxCalls[c]
          /\ answer \in [Client -> Result]

(* What a call returns with OK is what the server computed for this very       *)
(* operation at some moment between the call and its return, however many      *)
(* copies were sent, lost or overtaken: an answer never belongs to an earlier  *)
(* exchange (Client.exchange opens a socket per exchange and matches nothing). *)
AnswerIsOfThisCall ==
  [][\A c \in Client : (Open(c) /\ ~Open(c)' /\ answer'[c].error = "OK")
                          => answer'[c] \in outcomes[c]]_vars

(* Every exchange returns, whatever the network and the server do: the tries   *)
(* of Client.exchange run out.  (The bound of the model may run out before.)   *)
ExchangeEnds == \A c \in Client : Open(c) ~> ~Open(c) \/ timeouts = MaxTimeouts

-------------------------------------------------------------------------------
(* The exchange implements AtomicMemory: as long as no receive times out each  *)
(* call takes effect exactly once, between its invocation and its return,      *)
(* though packets overtake and get lost; after that an operation may be        *)
(* performed again and late, but whole, and only while a copy of it travels.   *)
Atomic == INSTANCE AtomicMemory WITH
  phase    <- [c \in Client |-> IF ~Open(c) THEN "idle"
                                ELSE IF outcomes[c] = {} THEN "called" ELSE "done"],
  pending  <- [c \in Client |-> IF Open(c) THEN call[c].op ELSE <<>>],
  computed <- [c \in Client |-> IF Open(c) THEN outcomes[c] ELSE {}],
  due      <- {q.op : q \in requests},
  exact    <- timeouts = 0
AtomicSpec == Atomic!Spec
===============================================================================
