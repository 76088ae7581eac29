------------------------------- MODULE Exchange -------------------------------
(* One request/response exchange over UDP: Client.exchange on the caller's     *)
(* side, SimpleServer.serveSocket on the other, and the network between them.  *)
(*                                                                             *)
(* Every exchange opens a socket of its own, on a port the system picks, sends *)
(* the request, and waits.  After each receive timeout it sends the request    *)
(* again; after the Tries-th it sends one more copy and reports TIME_OUT.      *)
(* Packets may be lost and overtake one another.  No packet carries an         *)
(* identifier: whatever arrives at the port is taken as the answer.            *)
(*                                                                             *)
(* The module has actions only.  A module that EXTENDS it supplies the calling *)
(* programs, what serving does to memory, and the next-state relation.         *)
EXTENDS Memory

CONSTANTS Client,        \* the threads that issue requests
          Port,          \* the ports a client's sockets may be bound to
          FreshPorts,    \* TRUE: no port is reused while a packet of it travels
          Tries,         \* receives before an exchange gives up (3 in the code)
          MaxTimeouts    \* bound on the receive timeouts of a behaviour

ASSUME ExchangeAssumption == /\ Tries \in Nat \ {0}
                             /\ MaxTimeouts \in Nat
                             /\ FreshPorts \in BOOLEAN

VARIABLES mem,           \* the server's memory
          call,          \* call[c]: the exchange c is blocked in, or NoCall
          requests,      \* request packets on their way to the server
          replies,       \* response packets on their way to an open socket
          timeouts       \* receive timeouts so far

exchangeVars == <<mem, call, requests, replies, timeouts>>

NoCall  == [op |-> <<>>, port |-> <<>>, sent |-> 0]
Open(c) == call[c].sent > 0

Packet(c, n) == [client |-> c, port |-> call[c].port, op |-> call[c].op, copy |-> n]

ExchangeInit == /\ call = [c \in Client |-> NoCall]
                /\ requests = {} /\ replies = {}
                /\ timeouts = 0

(* c calls op: a new socket, the first copy of the request.  Fresh ports: no    *)
(* packet to or from the port travels.  Only requests need a guard, as Return  *)
(* and Serve drop at once the responses that nobody could receive then.        *)
Request(c, op, p) ==
  /\ ~Open(c)
  /\ p \in Port
  /\ FreshPorts => \A q \in requests : ~(q.client = c /\ q.port = p)
  /\ call' = [call EXCEPT ![c] = [op |-> op, port |-> p, sent |-> 1]]
  /\ requests' = requests \cup {[client |-> c, port |-> p, op |-> op, copy |-> 1]}
  /\ UNCHANGED <<mem, replies, timeouts>>

Bound(q) == Open(q.client) /\ call[q.client].port = q.port

\* A slip: the same packet is handled once more.
ServeAgain(q, m, res) ==
  /\ q \in requests
  /\ mem' = m
  /\ replies' = IF Bound(q)
                THEN replies \cup {[client |-> q.client, port |-> q.port, res |-> res]}
                ELSE replies
  /\ UNCHANGED <<requests, call, timeouts>>

(* The server's loop handles packet q: memory becomes m, and res is sent to    *)
(* the packet's origin, where it is dropped if no socket has that port.        *)
Serve(q, m, res) ==
  /\ q \in requests
  /\ requests' = requests \ {q}
  /\ mem' = m
  /\ replies' = IF Bound(q)
                THEN replies \cup {[client |-> q.client, port |-> q.port, res |-> res]}
                ELSE replies
  /\ UNCHANGED <<call, timeouts>>

\* A slip: the next exchange finds what was queued for this one.
ReturnKeepsReplies(c) == call' = [call EXCEPT ![c] = NoCall] /\ replies' = replies

(* The call of c is over: its socket takes what was queued for it along, and   *)
(* what is still on its way to the port finds no socket there.                 *)
Return(c) ==
  /\ call' = [call EXCEPT ![c] = NoCall]
  /\ replies' = {r \in replies : r.client # c}

(* receive() gets a packet: its content is the Result of the call.             *)
Answer(c, res) ==
  /\ Open(c)
  /\ [client |-> c, port |-> call[c].port, res |-> res] \in replies
  /\ Return(c)
  /\ UNCHANGED <<mem, requests, timeouts>>

Late(c) == Open(c) /\ timeouts < MaxTimeouts

\* A slip: the tries are not counted down.
ResendUncounted(c) ==
  /\ Late(c)
  /\ requests' = requests \cup {Packet(c, call[c].sent)}
  /\ UNCHANGED <<mem, call, replies, timeouts>>

\* A slip: one try too many.
ResendOnceMore(c) ==
  /\ Late(c) /\ call[c].sent <= Tries
  /\ call' = [call EXCEPT ![c].sent = @ + 1]
  /\ requests' = requests \cup {Packet(c, call[c].sent + 1)}
  /\ timeouts' = timeouts + 1
  /\ UNCHANGED <<mem, replies>>

(* receive() times out and tries are left: send the same packet again.         *)
Resend(c) ==
  /\ Late(c) /\ call[c].sent < Tries
  /\ call' = [call EXCEPT ![c].sent = @ + 1]
  /\ requests' = requests \cup {Packet(c, call[c].sent + 1)}
  /\ timeouts' = timeouts + 1
  /\ UNCHANGED <<mem, replies>>

(* The last receive() times out: the packet is sent again all the same, then   *)
(* the call reports TIME_OUT to its caller.                                    *)
GiveUp(c) ==
  /\ Late(c) /\ call[c].sent = Tries
  /\ requests' = requests \cup {Packet(c, Tries + 1)}
  /\ timeouts' = timeouts + 1
  /\ Return(c)
  /\ UNCHANGED mem

TimedOut == Failed("TIME_OUT")

LoseRequest(q) == /\ q \in requests
                  /\ requests' = requests \ {q}
                  /\ UNCHANGED <<mem, call, replies, timeouts>>

LoseReply(r) == /\ r \in replies
                /\ replies' = replies \ {r}
                /\ UNCHANGED <<mem, call, requests, timeouts>>

Lose == (\E q \in requests : LoseRequest(q)) \/ (\E r \in replies : LoseReply(r))

-------------------------------------------------------------------------------
(* Types, for the modules that supply the operations: Op, the results: Res,    *)
(* and the content of a cell: Value.                                           *)
ExchangeTypeOK(Op, Res, Value) ==
  /\ mem \in [Cells -> Value]
  /\ call \in [Client -> {NoCall} \cup [op : Op, port : Port, sent : 1 .. Tries]]
  /\ requests \subseteq [client : Client, port : Port, op : Op, copy : 1 .. Tries + 1]
  /\ replies \subseteq [client : Client, port : Port, res : Res]
  /\ timeouts \in 0 .. MaxTimeouts
===============================================================================
