------------------------------- MODULE DHTOverUDP -----------------------------
(* The hash table's remote clients over the UDP exchange: each operation of    *)
(* DHTProgram is one exchange, whose request may be lost, delayed and sent     *)
(* again, and be served after its sender has given it up.                      *)
EXTENDS DHTProgram

CONSTANTS Port, FreshPorts, Tries, MaxTimeouts

VARIABLES call, requests, replies, timeouts,
          offered        \* the <<key, value>> pairs some put was called with

netVars == <<mem, call, requests, replies, timeouts>>
udpVars == <<mem, call, requests, replies, timeouts, offered,
             pc, job, ptr, old, i, result, jobs>>

Net == INSTANCE Exchange

ASSUME UDPAssumption == Net!ExchangeAssumption

(* A constructor has run: the counter stands behind the table.                 *)
UDPInit == /\ mem = [a \in Cells |-> IF a = 0 THEN 2 * N ELSE 0]
           /\ Net!ExchangeInit
           /\ offered = {}
           /\ ProgramInit

UDPInvoke(c) == /\ Call(c)
                /\ offered' = IF job'[c].kind = "put"
                              THEN offered \cup {<<job'[c].key, job'[c].val>>} ELSE offered
                /\ UNCHANGED netVars

Issue(c) == /\ Waiting(c)
            /\ \E p \in Port : Net!Request(c, OpOf(c), p)
            /\ UNCHANGED <<programVars, offered>>

ServeOne == /\ \E q \in requests : Net!Serve(q, Effect(q.op, mem), Outcome(q.op, mem))
            /\ UNCHANGED <<programVars, offered>>

Receive(c) == \E r \in replies : /\ r.client = c
                                 /\ Net!Answer(c, r.res)
                                 /\ Continue(c, r.res)
                                 /\ UNCHANGED offered

Retry(c) == Net!Resend(c) /\ UNCHANGED <<programVars, offered>>

Abandon(c) == /\ Net!GiveUp(c)
              /\ Continue(c, Net!TimedOut)
              /\ UNCHANGED offered

Drop == Net!Lose /\ UNCHANGED <<programVars, offered>>

UDPLeave(c) == /\ Return(c)
               /\ UNCHANGED <<netVars, offered>>

UDPStep(c) == UDPInvoke(c) \/ Issue(c) \/ Receive(c) \/ Retry(c) \/ Abandon(c) \/ UDPLeave(c)

UDPNext == (\E c \in Client : UDPStep(c)) \/ ServeOne \/ Drop

UDPSpec == UDPInit /\ [][UDPNext]_udpVars

-------------------------------------------------------------------------------
OpTypes == [kind : {"READ"}, addr : Nat, len : Nat]
             \cup [kind : {"WRITE"}, addr : Nat, values : Seq(Nat)]
             \cup [kind : {"CAS"}, addr : Nat, test : Nat, value : Nat]

(* The variables hold what their declarations say.                             *)
UDPTypeOK == Net!ExchangeTypeOK(OpTypes, Result, Nat) /\ ProgramTypeOK

(* Whatever the network does, a search that ends tells the truth about its     *)
(* key: the value found was put under it, because a record is filled and its   *)
(* words are its own before any bin points to it.                              *)
FoundWasPut ==
  /\ UDPTypeOK
  /\ \A c \in Client :
       (pc[c] = "return" /\ job[c].kind \in {"get", "has"} /\ result[c] \in Nat \ {0}) =>
         \E kv \in offered : /\ kv[1] = job[c].key
                             /\ job[c].kind = "get" => kv[2] = result[c]
===============================================================================
