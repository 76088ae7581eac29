-------------------------------- MODULE Memory --------------------------------
(* The memory a SimpleServer exports and the operations it serves on it.       *)
(*                                                                             *)
(* A cell is one 4-byte word: the code's byte address 4*a is the cell a here,  *)
(* and every address the code stores in memory is divided by four likewise.    *)
(* All callers modelled use word-aligned addresses.  An operation is a record  *)
(* whose "kind" is its opcode; serving it is one indivisible step, because the *)
(* server's only thread runs receive, serve and send in a loop.                *)
EXTENDS Integers, Sequences

CONSTANT MemSize                  \* words of server memory (memory_size / 4)

ASSUME MemSizeAssumption == MemSize \in Nat \ {0}

Cells == 0 .. MemSize - 1

Read(a, n)     == [kind |-> "READ",  addr |-> a, len |-> n]
Write(a, vs)   == [kind |-> "WRITE", addr |-> a, values |-> vs]
Cas(a, t, v)   == [kind |-> "CAS",   addr |-> a, test |-> t, value |-> v]

ErrorCode == {"OK", "OUT_OF_BOUNDS", "TIME_OUT", "ERROR"}
Result    == [error : ErrorCode, result : Seq(Int)]
Ok(vs)         == [error |-> "OK", result |-> vs]
Failed(e)      == [error |-> e, result |-> <<>>]

Width(op) == CASE op.kind = "READ"  -> op.len
               [] op.kind = "WRITE" -> Len(op.values)
               [] op.kind = "CAS"   -> 1

(* No access of the operation raises ArrayIndexOutOfBoundsException.           *)
InBounds(op) == Width(op) = 0 \/ (op.addr >= 0 /\ op.addr + Width(op) <= MemSize)

Swaps(op, m) == op.kind = "CAS" /\ InBounds(op) /\ m[op.addr] = op.test

\* A slip: the word is swapped whatever the test says.
EffectUntested(op, m) ==
  CASE op.kind = "READ"  -> m
    [] op.kind = "WRITE" -> [a \in Cells |-> IF a \in op.addr .. op.addr + Len(op.values) - 1
                                             THEN op.values[a - op.addr + 1] ELSE m[a]]
    [] op.kind = "CAS"   -> [m EXCEPT ![op.addr] = op.value]

(* What is left in memory m once op has been served.  A write stores word by   *)
(* word and stops at the first word out of bounds: the words before it stay.   *)
Effect(op, m) ==
  CASE op.kind = "READ"  -> m
    [] op.kind = "WRITE" -> [a \in Cells |-> IF /\ op.addr >= 0
                                                /\ a \in op.addr .. op.addr + Len(op.values) - 1
                                             THEN op.values[a - op.addr + 1] ELSE m[a]]
    [] op.kind = "CAS"   -> IF Swaps(op, m) THEN [m EXCEPT ![op.addr] = op.value] ELSE m

(* The Result it answers: what was read, what was overwritten, the test's bit. *)
Outcome(op, m) ==
  IF ~InBounds(op) THEN Failed("OUT_OF_BOUNDS")
  ELSE IF op.kind = "CAS" THEN Ok(<< IF Swaps(op, m) THEN 1 ELSE 0 >>)
  ELSE Ok([i \in 1 .. Width(op) |-> m[op.addr + i - 1]])
===============================================================================
