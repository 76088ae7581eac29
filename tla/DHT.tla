---------------------------------- MODULE DHT ---------------------------------
(* The hash table shared by remote and active clients, over a server that      *)
(* performs each operation once: the promise AtomicMemory states, which the    *)
(* exchange keeps while no receive times out.  A remote client's operations    *)
(* interleave with everybody's; mobile code has the server's only thread to    *)
(* itself from Dispatch to its end.                                            *)
EXTENDS DHTProgram

CONSTANT AttachAlone     \* TRUE: nobody else uses the table while it is initialised

(* The table lies in the server's memory; otherwise every constructor fails.   *)
ASSUME TableAssumption == AttachAlone \in BOOLEAN /\ TableEnd <= MemSize

VARIABLES holder,        \* the client whose mobile code the server runs, or Nobody
          chain,         \* chain[b]: the records published in bin b, newest first
          seen           \* seen[c]: what the map held when c read its bin's head

vars == <<mem, holder, chain, seen, pc, job, ptr, old, i, result, jobs>>

Nobody == "nobody"

(* Alloc.init has written 4, and init() 8*N if a constructor has run.          *)
Init == /\ mem = [a \in Cells |-> IF a = 0 THEN IF Attached = {} THEN 1 ELSE 2 * N ELSE 0]
        /\ holder = Nobody
        /\ chain = [b \in Bins |-> <<>>]
        /\ seen = [c \in Client |-> 0]
        /\ ProgramInit

(* The newest value of k among published records.                              *)
Absent == -1                      \* no value: values are natural numbers
Lookup(k) ==
  LET hits == {n \in DOMAIN chain[hashPtr(k)] : chain[hashPtr(k)][n].key = k}
      first == CHOOSE n \in hits : \A m \in hits : n <= m
  IN IF hits = {} THEN Absent ELSE chain[hashPtr(k)][first].val

Expected(j) == CASE Lookup(j.key) = Absent -> 0
                 [] Lookup(j.key) # Absent /\ j.kind = "get" -> Lookup(j.key)
                 [] Lookup(j.key) # Absent /\ j.kind = "has" -> 1

(* The bookkeeping beside an operation: a bin's head is swapped or cleared, or *)
(* read by a search.                                                           *)
Record(c, op) ==
  /\ chain' = IF Swaps(op, mem) /\ op.addr \in Bins
              THEN [chain EXCEPT ![op.addr] =
                      <<[ptr |-> op.value, key |-> job[c].key, val |-> job[c].val]>> \o @]
              ELSE IF pc[c] = "initBin" /\ op.addr \in Bins
              THEN [chain EXCEPT ![op.addr] = <<>>]
              ELSE chain
  /\ seen' = IF pc[c] = "findHead" THEN [seen EXCEPT ![c] = Expected(job[c])] ELSE seen

(* c's next operation is served, and c goes on with its Result.                *)
Operate(c) ==
  /\ Waiting(c)
  /\ holder \in {Nobody, c}
  /\ mem' = Effect(OpOf(c), mem)
  /\ Record(c, OpOf(c))
  /\ Continue(c, Outcome(OpOf(c), mem))
  /\ holder' = IF pc'[c] = "return" THEN Nobody ELSE holder

Run(c) == /\ holder = Nobody
          /\ Dispatch(c)
          /\ holder' = c
          /\ UNCHANGED <<mem, chain, seen>>

(* The constructor of c will initialise the table.                             *)
WillInit(c) == c \in AlwaysInit \/ mem[0] < TableEnd

(* Attaching is not atomic, and a client that uses the table while another     *)
(* initialises it loses what it stored.  AttachAlone is the order of starting  *)
(* programs that the code relies on and does nothing to ensure.                *)
Alone(c) == \A d \in Client : /\ pc[d] # "initBin"
                              /\ WillInit(c) => pc[d] = "out"

Enter(c) == /\ AttachAlone => Alone(c)
            /\ Attach(c)
            /\ UNCHANGED <<mem, holder, chain, seen>>
Invoke(c) == Call(c) /\ UNCHANGED <<mem, holder, chain, seen>>
Leave(c) == Return(c) /\ UNCHANGED <<mem, holder, chain, seen>>

Step(c) == Enter(c) \/ Invoke(c) \/ Run(c) \/ Operate(c) \/ Leave(c)

Finished == /\ \A c \in Client : \/ pc[c] = "ready" /\ jobs[c] = MaxJobs
                                 \/ pc[c] = "out" /\ WillInit(c)
            /\ UNCHANGED vars

Next == (\E c \in Client : Step(c)) \/ Finished

Spec == Init /\ [][Next]_vars

(* Threads run, and the server's loop serves the requests that reach it.       *)
LiveSpec == Spec /\ \A c \in Client : WF_vars(Step(c))

-------------------------------------------------------------------------------
(* The variables hold what their declarations say.                             *)
TypeOK == /\ ProgramTypeOK
          /\ mem \in [Cells -> Nat]
          /\ holder \in Active \cup {Nobody}
          /\ \A b \in Bins : \A n \in DOMAIN chain[b] :
                /\ chain[b][n].ptr \in Nat /\ chain[b][n].key \in Key

(* Memory holds the chains: the bin's word points to the newest record, every  *)
(* record to the next older one and the oldest to nothing, and a published     *)
(* record is complete.  No put of another client, finished or half-way, and no *)
(* late attach disturbs it.                                                    *)
ChainOK ==
  \A b \in Bins :
    LET ch == chain[b]
        from(n) == IF n > Len(ch) THEN 0 ELSE ch[n].ptr
    IN /\ mem[b] = from(1)
       /\ \A n \in 1 .. Len(ch) :
            LET r == ch[n] IN
            /\ mem[r.ptr] = from(n + 1)
            /\ mem[r.ptr + 1] = r.val
            /\ mem[r.ptr + 2] = KeyLen[r.key]
            /\ \A w \in DOMAIN KeyWords[r.key] : mem[r.ptr + 2 + w] = KeyWords[r.key][w]

(* Distinct published records share no word, and none reaches into the heads.  *)
RecordsApart ==
  \A b, d \in Bins : \A n \in DOMAIN chain[b], m \in DOMAIN chain[d] :
    LET r == chain[b][n] s == chain[d][m] IN
    /\ r.ptr >= 2 * N
    /\ <<b, n>> # <<d, m>> => \/ r.ptr + recLen(r.key) <= s.ptr
                              \/ s.ptr + recLen(s.key) <= r.ptr

(* The table implements the map of DHTMap.  A put takes effect at the CAS that *)
(* publishes its record, a get or has at its read of the bin's head.           *)
Searching(c) == /\ job[c].kind \in {"get", "has"}
                /\ pc[c] \in {"cmpLen", "cmpKey", "findNext", "readVal"}

Map == INSTANCE DHTMap WITH
         map   <- [k \in Key |-> Lookup(k)],
         phase <- [c \in Client |-> IF job[c] = NoJob THEN "idle"
                                    ELSE IF pc[c] = "return" \/ Searching(c) THEN "done"
                                    ELSE "called"],
         reply <- [c \in Client |-> IF job[c] = NoJob THEN 0
                                    ELSE IF pc[c] = "return" THEN result[c]
                                    ELSE IF Searching(c) THEN seen[c] ELSE 0]
IsMap == Map!Spec

(* Every call returns: searches reach the end of their chain, and of the puts  *)
(* that race for a word one always goes on.                                    *)
CallsReturn == \A c \in Client : job[c] # NoJob ~> job[c] = NoJob
===============================================================================
