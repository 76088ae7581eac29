------------------------------ MODULE DHTProgram ------------------------------
(* The hash table's code, as the sequence of memory operations it issues: the  *)
(* class DHT_RDMA, which also is what DHT_Active's mobile code runs.  Memory   *)
(* holds, in words,                                                            *)
(*     0            the allocation counter,                                    *)
(*     N .. 2N-1    the heads of the bins, 0 for an empty one,                 *)
(*     from 2N on   records <next, data, keylen, key...>.                      *)
(* hash() is a remainder and negative for half of the keys: their bins are the *)
(* words N-1 down to 1, which init() does not clear.                           *)
(*                                                                             *)
(* Each thread is at a label.  OpOf(c) is the operation it issues there,       *)
(* Continue(c, res) what it does with the Result.  The modules that EXTEND     *)
(* this one decide how an operation reaches memory.                            *)
EXTENDS Memory, FiniteSets

CONSTANTS Client,        \* the threads
          Active,        \* those that use DHT_Active: they run at the server
          N,             \* the table's size
          Key,
          Hash,          \* Hash[k]: hash(k), of either sign
          KeyLen,        \* KeyLen[k]: the key's length in bytes
          KeyWords,      \* KeyWords[k]: its bytes, as the words they occupy
          Jobs,          \* the calls the threads make
          MaxJobs,       \* bound on the calls of one thread
          Attached,      \* threads whose constructor has returned initially
          AlwaysInit     \* threads that use the constructor without noInit

ASSUME DHTAssumption ==
  /\ N \in Nat \ {0}
  /\ Hash \in [Key -> -(N - 1) .. N - 1]
  /\ KeyLen \in [Key -> Nat]
  /\ KeyWords \in [Key -> Seq(Nat)]
  /\ \A k, l \in Key : k # l => KeyLen[k] # KeyLen[l] \/ KeyWords[k] # KeyWords[l]
  /\ \A k, l \in Key : KeyLen[k] = KeyLen[l] => Len(KeyWords[k]) = Len(KeyWords[l])
  /\ Active \subseteq Client /\ Attached \subseteq Client /\ AlwaysInit \subseteq Client
  /\ \A j \in Jobs : /\ j.kind \in {"put", "get", "has"} /\ j.key \in Key
                     /\ j.kind = "put" => j.val \in Nat
  /\ MaxJobs \in Nat

VARIABLES mem,           \* the server's memory
          pc,            \* pc[c]: the label c is at
          job,           \* job[c]: the call c is in, NoJob in none
          ptr,           \* ptr[c]: newPtr of put, ptr of findKey
          old,           \* old[c]: oldHead of put
          i,             \* i[c]: the loop index of init
          result,        \* result[c]: what the call returns
          jobs           \* jobs[c]: calls c has made

programVars == <<pc, job, ptr, old, i, result, jobs>>

NoJob     == [kind |-> "none"]
Exception == -2                   \* a RuntimeException reaches the caller
Put(k, v) == [kind |-> "put", key |-> k, val |-> v]
Get(k)    == [kind |-> "get", key |-> k]
Has(k)    == [kind |-> "has", key |-> k]

TableEnd   == 2 * N
hashPtr(k) == N + Hash[k]
Bins       == {hashPtr(k) : k \in Key}
recLen(k)  == 3 + Len(KeyWords[k])

ProgramInit ==
  /\ pc = [c \in Client |-> IF c \in Attached THEN "ready" ELSE "out"]
  /\ job = [c \in Client |-> NoJob]
  /\ ptr = [c \in Client |-> 0]
  /\ old = [c \in Client |-> 0]
  /\ i = [c \in Client |-> 0]
  /\ result = [c \in Client |-> 0]
  /\ jobs = [c \in Client |-> 0]

Goto(c, label) == pc' = [pc EXCEPT ![c] = label]
Keep(c)        == UNCHANGED <<ptr, old, i, result>>

-------------------------------------------------------------------------------
(* Calls and returns: steps of the thread that touch no memory.                *)

(* A constructor is called.                                                    *)
Attach(c) == /\ pc[c] = "out"
             /\ Goto(c, IF c \in AlwaysInit THEN "initCounter" ELSE "check")
             /\ UNCHANGED <<job, ptr, old, i, result, jobs>>

FirstLabel(j) == IF j.kind = "put" THEN "allocRead" ELSE "findHead"

(* get, has or put is called; DHT_Active sends it to the server as a request.  *)
Call(c) == /\ pc[c] = "ready" /\ jobs[c] < MaxJobs
           /\ \E j \in Jobs : /\ job' = [job EXCEPT ![c] = j]
                              /\ Goto(c, IF c \in Active THEN "queued" ELSE FirstLabel(j))
           /\ jobs' = [jobs EXCEPT ![c] = @ + 1]
           /\ UNCHANGED <<ptr, old, i, result>>

(* The server takes the request: the mobile code starts with a new DHT_RDMA.   *)
Dispatch(c) == /\ pc[c] = "queued"
               /\ Goto(c, "check")
               /\ UNCHANGED <<job, ptr, old, i, result, jobs>>

Return(c) == /\ pc[c] = "return"
             /\ Goto(c, "ready")
             /\ job' = [job EXCEPT ![c] = NoJob]
             /\ UNCHANGED <<ptr, old, i, result, jobs>>

-------------------------------------------------------------------------------
(* The operation issued at each label.                                         *)
OpOf(c) ==
  LET k == job[c].key IN
  CASE pc[c] = "check"       -> Read(0, 1)
    [] pc[c] = "initCounter" -> Write(0, <<TableEnd>>)
    [] pc[c] = "initBin"     -> Write(N + i[c], <<0>>)
    [] pc[c] = "allocRead"   -> Read(0, 1)
    [] pc[c] = "allocCas"    -> Cas(0, ptr[c], ptr[c] + recLen(k))
    [] pc[c] = "writeNext"   -> Write(ptr[c], <<0>>)
    [] pc[c] = "writeVal"    -> Write(ptr[c] + 1, <<job[c].val>>)
    [] pc[c] = "writeLen"    -> Write(ptr[c] + 2, <<KeyLen[k]>>)
    [] pc[c] = "writeKey"    -> Write(ptr[c] + 3, KeyWords[k])
    [] pc[c] = "readHead"    -> Read(hashPtr(k), 1)
    [] pc[c] = "link"        -> Write(ptr[c], <<old[c]>>)
    [] pc[c] = "publish"     -> Cas(hashPtr(k), old[c], ptr[c])
    [] pc[c] = "findHead"    -> Read(hashPtr(k), 1)
    [] pc[c] = "cmpLen"      -> Read(ptr[c] + 2, 1)
    [] pc[c] = "cmpKey"      -> Read(ptr[c] + 3, Len(KeyWords[k]))
    [] pc[c] = "findNext"    -> Read(ptr[c], 1)
    [] pc[c] = "readVal"     -> Read(ptr[c] + 1, 1)

Waiting(c) == pc[c] \notin {"out", "ready", "queued", "return"}

(* The constructor is done: the mobile code goes on to its call.               *)
Constructed(c) == Goto(c, IF job[c] = NoJob THEN "ready" ELSE FirstLabel(job[c]))

\* A slip: a table that is empty yet is taken for none.
AfterCheckEmpty(c, res) ==
  /\ pc[c] = "check"
  /\ IF res.result[1] <= TableEnd THEN Goto(c, "initCounter") ELSE Constructed(c)
  /\ Keep(c)

AfterCheck(c, res) ==
  /\ pc[c] = "check"
  /\ IF res.result[1] < TableEnd THEN Goto(c, "initCounter") ELSE Constructed(c)
  /\ Keep(c)

\* A slip: the loop clears one bin too many.
AfterInitOverrun(c) ==
  \/ pc[c] = "initCounter" /\ Goto(c, "initBin") /\ i' = [i EXCEPT ![c] = 0]
     /\ UNCHANGED <<ptr, old, result>>
  \/ /\ pc[c] = "initBin"
     /\ i' = [i EXCEPT ![c] = @ + 1]
     /\ IF i[c] < N THEN Goto(c, "initBin") ELSE Constructed(c)
     /\ UNCHANGED <<ptr, old, result>>

AfterInit(c) ==
  \/ pc[c] = "initCounter" /\ Goto(c, "initBin") /\ i' = [i EXCEPT ![c] = 0]
     /\ UNCHANGED <<ptr, old, result>>
  \/ /\ pc[c] = "initBin"
     /\ i' = [i EXCEPT ![c] = @ + 1]
     /\ IF i[c] + 1 < N THEN Goto(c, "initBin") ELSE Constructed(c)
     /\ UNCHANGED <<ptr, old, result>>

Returns(c, v) == Goto(c, "return") /\ result' = [result EXCEPT ![c] = v]

\* A slip: the result of the CAS is not looked at.
AfterAllocUnchecked(c, res) ==
  \/ /\ pc[c] = "allocRead"
     /\ ptr' = [ptr EXCEPT ![c] = res.result[1]]
     /\ Goto(c, "allocCas")
     /\ UNCHANGED <<old, i, result>>
  \/ pc[c] = "allocCas" /\ Goto(c, "writeNext") /\ Keep(c)

AfterAlloc(c, res) ==
  \/ /\ pc[c] = "allocRead"
     /\ ptr' = [ptr EXCEPT ![c] = res.result[1]]
     /\ Goto(c, "allocCas")
     /\ UNCHANGED <<old, i, result>>
  \/ /\ pc[c] = "allocCas"
     /\ Goto(c, IF res.result[1] # 0 THEN "writeNext" ELSE "allocRead")
     /\ Keep(c)

AfterFill(c) ==
  \/ pc[c] = "writeNext" /\ Goto(c, "writeVal") /\ Keep(c)
  \/ pc[c] = "writeVal"  /\ Goto(c, "writeLen") /\ Keep(c)
  \/ pc[c] = "writeLen"  /\ Goto(c, "writeKey") /\ Keep(c)
  \/ pc[c] = "writeKey"  /\ Goto(c, "readHead") /\ Keep(c)

\* A slip: the record is published with the link it was created with.
AfterLinkUnlinked(c, res) ==
  \/ /\ pc[c] = "readHead"
     /\ old' = [old EXCEPT ![c] = res.result[1]]
     /\ Goto(c, "publish")
     /\ UNCHANGED <<ptr, i, result>>
  \/ pc[c] = "link" /\ Goto(c, "publish") /\ Keep(c)
  \/ pc[c] = "publish" /\ res.result[1] = 0 /\ Goto(c, "readHead") /\ Keep(c)
  \/ pc[c] = "publish" /\ res.result[1] # 0 /\ Returns(c, 0) /\ UNCHANGED <<ptr, old, i>>

\* A slip: the loop does not read the head again.
AfterLinkStale(c, res) ==
  \/ /\ pc[c] = "readHead"
     /\ old' = [old EXCEPT ![c] = res.result[1]]
     /\ Goto(c, "link")
     /\ UNCHANGED <<ptr, i, result>>
  \/ pc[c] = "link" /\ Goto(c, "publish") /\ Keep(c)
  \/ pc[c] = "publish" /\ res.result[1] = 0 /\ Goto(c, "link") /\ Keep(c)
  \/ pc[c] = "publish" /\ res.result[1] # 0 /\ Returns(c, 0) /\ UNCHANGED <<ptr, old, i>>

AfterLink(c, res) ==
  \/ /\ pc[c] = "readHead"
     /\ old' = [old EXCEPT ![c] = res.result[1]]
     /\ Goto(c, "link")
     /\ UNCHANGED <<ptr, i, result>>
  \/ pc[c] = "link" /\ Goto(c, "publish") /\ Keep(c)
  \/ pc[c] = "publish" /\ res.result[1] = 0 /\ Goto(c, "readHead") /\ Keep(c)
  \/ pc[c] = "publish" /\ res.result[1] # 0 /\ Returns(c, 0) /\ UNCHANGED <<ptr, old, i>>

(* findKey has a new candidate: the end of the chain, or a record to compare.  *)
Candidate(c, p) ==
  /\ ptr' = [ptr EXCEPT ![c] = p]
  /\ IF p = 0 THEN Returns(c, 0) ELSE Goto(c, "cmpLen") /\ UNCHANGED result
  /\ UNCHANGED <<old, i>>

Found(c) == IF job[c].kind = "get" THEN Goto(c, "readVal") /\ Keep(c)
                                   ELSE Returns(c, 1) /\ UNCHANGED <<ptr, old, i>>

\* A slip: keys of equal length are taken to be equal.
AfterFindByLength(c, res) ==
  \/ pc[c] \in {"findHead", "findNext"} /\ Candidate(c, res.result[1])
  \/ /\ pc[c] = "cmpLen"
     /\ Goto(c, IF res.result[1] = KeyLen[job[c].key] THEN "cmpKey" ELSE "findNext")
     /\ Keep(c)
  \/ pc[c] = "cmpKey" /\ Found(c)
  \/ pc[c] = "readVal" /\ Returns(c, res.result[1]) /\ UNCHANGED <<ptr, old, i>>

AfterFind(c, res) ==
  \/ pc[c] \in {"findHead", "findNext"} /\ Candidate(c, res.result[1])
  \/ /\ pc[c] = "cmpLen"
     /\ Goto(c, IF res.result[1] = KeyLen[job[c].key] THEN "cmpKey" ELSE "findNext")
     /\ Keep(c)
  \/ /\ pc[c] = "cmpKey"
     /\ IF res.result = KeyWords[job[c].key] THEN Found(c)
        ELSE Goto(c, "findNext") /\ Keep(c)
  \/ pc[c] = "readVal" /\ Returns(c, res.result[1]) /\ UNCHANGED <<ptr, old, i>>

(* What the thread does with the Result of its operation.  One that is not OK  *)
(* is an exception to the end of the call, or of the constructor.              *)
Continue(c, res) ==
  /\ \/ /\ res.error = "OK"
        /\ \/ AfterCheck(c, res) \/ AfterInit(c)
           \/ AfterAlloc(c, res) \/ AfterFill(c) \/ AfterLink(c, res)
           \/ AfterFind(c, res)
     \/ /\ res.error # "OK"
        /\ IF job[c] = NoJob THEN Goto(c, "out") /\ UNCHANGED result
                             ELSE Returns(c, Exception)
        /\ UNCHANGED <<ptr, old, i>>
  /\ UNCHANGED <<job, jobs>>

-------------------------------------------------------------------------------
Label == {"out", "ready", "queued", "return", "check", "initCounter", "initBin",
          "allocRead", "allocCas", "writeNext", "writeVal", "writeLen", "writeKey",
          "readHead", "link", "publish",
          "findHead", "cmpLen", "cmpKey", "findNext", "readVal"}

ProgramTypeOK ==
  /\ pc \in [Client -> Label]
  /\ job \in [Client -> Jobs \cup {NoJob}]
  /\ ptr \in [Client -> Nat] /\ old \in [Client -> Nat] /\ i \in [Client -> 0 .. N]
  /\ result \in [Client -> Nat \cup {Exception}]
  /\ jobs \in [Client -> 0 .. MaxJobs]
===============================================================================
