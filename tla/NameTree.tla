------------------------------- MODULE NameTree -------------------------------
(* What a mounted file system promises of its names: each operation on a path  *)
(* takes effect at one moment between its call and its return.  A path may be  *)
(* a file or a directory.  A name that was ever made stays known, and making   *)
(* it again revives it; so do truncating a removed file, writing to one that   *)
(* is still open, and making something in a removed directory.  Directories    *)
(* are removed with or without content.                                        *)
EXTENDS Integers

CONSTANTS Client, Path, Root, Parent, Jobs

VARIABLES known,         \* the <<kind, path>> that were ever made
          live,          \* those that are there
          phase,         \* phase[c]: "idle", "called" or "done"
          job,           \* job[c]: the call c is in
          reply          \* reply[c]: what the call will return, once "done"

vars == <<known, live, phase, job, reply>>

NoJob  == [kind |-> "none"]
Failed == -1
Names  == {"file", "dir"} \X Path

Init == /\ known = {<<"dir", Root>>}
        /\ live = known
        /\ phase = [c \in Client |-> "idle"]
        /\ job = [c \in Client |-> NoJob]
        /\ reply = [c \in Client |-> 0]

(* A read beyond what the client knows of the file asks nobody.                *)
Call(c) == /\ phase[c] = "idle"
           /\ \E j \in Jobs :
                /\ job' = [job EXCEPT ![c] = j]
                /\ \/ phase' = [phase EXCEPT ![c] = "called"]
                   \/ j.kind = "read" /\ phase' = [phase EXCEPT ![c] = "done"]
           /\ UNCHANGED <<known, live, reply>>

Done(c, v) == /\ phase[c] = "called"
              /\ phase' = [phase EXCEPT ![c] = "done"]
              /\ reply' = [reply EXCEPT ![c] = v]
              /\ UNCHANGED job

There(p) == {n \in live : n[2] = p}

Make(c) ==
  /\ job[c].kind \in {"mkdir", "mknod"}
  /\ LET p == job[c].path
         n == <<IF job[c].kind = "mkdir" THEN "dir" ELSE "file", p>>
         may == There(p) = {} /\ (n \in known \/ <<"dir", Parent[p]>> \in known)
     IN /\ Done(c, IF may THEN 0 ELSE Failed)
        /\ known' = IF may THEN known \cup {n} ELSE known
        /\ live' = IF may THEN live \cup {n} ELSE live

Remove(c) ==
  /\ job[c].kind \in {"unlink", "rmdir"}
  /\ LET p == job[c].path
         n == IF job[c].kind = "unlink" /\ <<"file", p>> \in live
              THEN <<"file", p>> ELSE <<"dir", p>>
     IN /\ Done(c, IF n \in live THEN 0 ELSE Failed)
        /\ live' = live \ {n}
  /\ UNCHANGED known

Getattr(c) == /\ job[c].kind = "getattr"
              /\ Done(c, IF <<"file", job[c].path>> \in live THEN 1
                         ELSE IF <<"dir", job[c].path>> \in live THEN 2 ELSE Failed)
              /\ UNCHANGED <<known, live>>

Truncate(c) ==
  /\ job[c].kind = "truncate"
  /\ LET n == <<"file", job[c].path>>
     IN /\ Done(c, IF n \in known THEN 0 ELSE Failed)
        /\ live' = IF n \in known THEN live \cup {n} ELSE live
  /\ UNCHANGED known

Open(c) == /\ job[c].kind = "open"
           /\ Done(c, IF <<"file", job[c].path>> \in live THEN 0 ELSE Failed)
           /\ UNCHANGED <<known, live>>

Rename(c) == job[c].kind = "rename" /\ Done(c, Failed) /\ UNCHANGED <<known, live>>

(* A write to an open file brings it back, if it was removed meanwhile.        *)
Revive(c) == /\ phase[c] = "called" /\ job[c].kind = "write"
             /\ \E n \in known : n[1] = "file" /\ live' = live \cup {n}
             /\ UNCHANGED <<known, phase, job, reply>>

(* So does making something bring its directory back.                          *)
Regrow(c) == /\ phase[c] = "done" /\ job[c].kind \in {"mkdir", "mknod"}
             /\ LET n == <<"dir", Parent[job[c].path]>>
                IN n \in known /\ live' = live \cup {n}
             /\ UNCHANGED <<known, phase, job, reply>>

(* Operations on content leave the names alone.                                *)
Content(c) == /\ job[c].kind \in {"read", "write", "getdir"}
              /\ \E v \in {0, Failed} : Done(c, v)
              /\ UNCHANGED <<known, live>>

(* Another mount makes the root anew.                                          *)
Mount(c) == /\ job[c].kind = "mount" /\ Done(c, 0)
            /\ live' = live \cup {<<"dir", Root>>}
            /\ UNCHANGED known

Return(c) == /\ phase[c] = "done"
             /\ phase' = [phase EXCEPT ![c] = "idle"]
             /\ job' = [job EXCEPT ![c] = NoJob]
             /\ reply' = [reply EXCEPT ![c] = 0]
             /\ UNCHANGED <<known, live>>

Next == \E c \in Client :
          \/ Call(c) \/ Return(c)
          \/ Make(c) \/ Remove(c) \/ Getattr(c) \/ Truncate(c) \/ Open(c) \/ Rename(c)
          \/ Revive(c) \/ Regrow(c) \/ Content(c) \/ Mount(c)

Spec == Init /\ [][Next]_vars
===============================================================================
