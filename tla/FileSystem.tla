------------------------------- MODULE FileSystem -----------------------------
(* The hierarchical file system: ARFilesystem, which FUSE calls, and ARFS, on  *)
(* an inode store.  Names are keys of the hash table, a path for a file and    *)
(* the path behind a prefix for a directory.  A directory is a file of entries *)
(* <inode, name>, only ever appended to.  A removed inode has length -1.       *)
(*                                                                             *)
(* One step is one call of the inode store (dfs.lookup, create, getLen,        *)
(* setLen, get, put).  A client mounted "rdma" issues them one by one.  One    *)
(* mounted "active" runs each operation of ARFS as one request, at the server  *)
(* that serves nobody else meanwhile, but still issues those of ARFilesystem   *)
(* itself (open, read, write, getdir) one by one.                              *)
(*                                                                             *)
(* Content is counted in units: a directory entry is a header <inode, length   *)
(* of the name> and a name, one unit each; a write to a file is one unit.      *)
EXTENDS Integers, Sequences, FiniteSets

CONSTANTS Client,        \* the mounts
          Active,        \* those that are mounted "active"
          Path, Root,
          Parent,        \* Parent[p]: dirname
          Jobs,          \* the calls FUSE makes
          MaxJobs,       \* bound on the calls of one client
          MaxUnits       \* bound on the content of an inode

(* MaxUnits leaves room for an entry of every call.                            *)
ASSUME FileSystemAssumption ==
  /\ Active \subseteq Client /\ IsFiniteSet(Client) /\ "nobody" \notin Client
  /\ Root \in Path
  /\ Parent \in [Path -> Path] /\ Parent[Root] = Root
  /\ MaxJobs \in Nat /\ MaxUnits \in Nat \ {0}
  /\ 2 * (MaxJobs * Cardinality(Client)) <= MaxUnits
  /\ Jobs \subseteq
       [kind : {"mkdir", "mknod", "getattr", "unlink", "rmdir", "open", "getdir", "mount"},
        path : Path]
       \cup [kind : {"truncate"}, path : Path, size : 0 .. MaxUnits]
       \cup [kind : {"rename"}, path : Path, to : Path]
       \cup [kind : {"read"}, path : Path, off : 0 .. MaxUnits - 1]
       \cup [kind : {"write"}, path : Path, off : 0 .. MaxUnits - 1, val : Int]

VARIABLES names,         \* the hash table: names[key] is an inode, 0 for none
          len,           \* len[i]: the length of inode i, -1 for a removed one
          data,          \* data[i]: its units
          inodes,        \* inodes created so far
          holder,        \* the client whose mobile code the server runs, or Nobody
          pc,            \* pc[c]: the label c is at
          job,           \* job[c]: the call c is in, NoJob in none
          me,            \* me[c]: the locals of the call
          handle,        \* handle[c]: the OpenFileHandle FUSE keeps for c
          jobs,          \* jobs[c]: calls c has made
          key,           \* a history: what inode i was created for, key[i], and
          home,          \* the directory inode that it was entered in, home[i]
          was            \* what has happened, as far as the properties ask

files == <<names, len, data, inodes, key, home>>
vars  == <<files, holder, pc, job, me, handle, jobs, was>>

Nobody   == "nobody"
NoJob    == [kind |-> "none"]
Failed   == -1                    \* an error reaches FUSE
Key      == {"file", "dir"} \X Path
NoKey    == <<"none", Root>>      \* a path behind two prefixes: never created
Inode    == 1 .. 2 + MaxJobs * Cardinality(Client)
Entry    == 2                     \* units of a directory entry
Blank    == <<"blank">>
Header(i) == <<"inode", i>>
NameOf(p) == <<"name", p>>
Content(v) == <<"content", v>>

NoLocals == [ino |-> 0, own |-> 0, dir |-> 0, at |-> 0, buf |-> <<>>, out |-> {}, result |-> 0]
NoHandle == [ino |-> 0, length |-> 0, path |-> Root]

(* The clients have been mounted, one after the other: the root is empty.      *)
Init == /\ names = [k \in Key |-> IF k = <<"dir", Root>> THEN 1 ELSE 0]
        /\ len = [i \in Inode |-> 0]
        /\ data = [i \in Inode |-> [o \in -1 .. MaxUnits |-> Blank]]
        /\ inodes = 1
        /\ holder = Nobody
        /\ pc = [c \in Client |-> "ready"]
        /\ job = [c \in Client |-> NoJob]
        /\ me = [c \in Client |-> NoLocals]
        /\ handle = [c \in Client |-> NoHandle]
        /\ jobs = [c \in Client |-> 0]
        /\ key = [i \in Inode |-> IF i = 1 THEN <<"dir", Root>> ELSE NoKey]
        /\ home = [i \in Inode |-> 0]
        /\ was = [removed |-> {}, overlapped |-> {}, raced |-> {}, changed |-> {},
                  must |-> [c \in Client |-> {}], may |-> [c \in Client |-> {}]]

-------------------------------------------------------------------------------
(* Calls.                                                                      *)

(* The operations that ARFS_Active overrides: one request each.                *)
OneRequest == {"mkdir", "mknod", "getattr", "unlink", "rmdir", "truncate", "rename"}

\* A slip: a write at the end of a file is taken for one within it.
WriteLabelShort(c, j) == IF j.off > handle[c].length THEN "extend" ELSE "writePut"

WriteLabel(c, j) == IF j.off + 1 > handle[c].length THEN "extend" ELSE "writePut"

FirstLabel(c, j) ==
  CASE j.kind \in {"mkdir", "mknod"} -> "other"
    [] j.kind \in {"getattr", "unlink", "rmdir"} -> "first"
    [] j.kind = "truncate" -> "trunc"
    [] j.kind = "rename"   -> "linkFrom"
    [] j.kind = "open"     -> "open"
    [] j.kind = "write"    -> WriteLabel(c, j)
    [] j.kind = "read"     -> IF j.off < handle[c].length THEN "readGet" ELSE "return"
    [] j.kind = "getdir"   -> "dirLookup"
    [] j.kind = "mount"    -> "mountRoot"

(* FUSE reads and writes through a handle that open() gave for the path; only  *)
(* an active mount leaves the tables as they are (DHT_RDMA's third argument).  *)
Callable(c, j) == /\ j.kind \in {"read", "write"} => /\ handle[c].ino # 0
                                                    /\ handle[c].path = j.path
                  /\ j.kind = "mount" => c \in Active

Live(k)    == names[k] # 0 /\ len[names[k]] # -1
OtherKind(k) == <<IF k[1] = "file" THEN "dir" ELSE "file", k[2]>>

(* The entries of directory inode i, as <<offset, inode>>, the removed ones    *)
(* included.                                                                   *)
Entries(i) == {<<o, data[i][o][2]>> :
                 o \in {x \in 0 .. len[i] - 1 : data[i][x][1] = "inode"}}
Listed(i)  == {e[2] : e \in Entries(i)}
Shown(i)   == {n \in Listed(i) : len[n] # -1}

Call(c) ==
  /\ pc[c] = "ready" /\ jobs[c] < MaxJobs
  /\ \E j \in Jobs :
       /\ Callable(c, j)
       /\ job' = [job EXCEPT ![c] = j]
       /\ pc' = [pc EXCEPT ![c] = IF c \in Active /\ j.kind \in OneRequest THEN "queued"
                                  ELSE FirstLabel(c, j)]
       /\ was' = IF j.kind = "getdir"
                 THEN LET i == names[<<"dir", j.path>>]
                          s == IF i = 0 THEN {} ELSE Shown(i)
                      IN [was EXCEPT !.must[c] = s, !.may[c] = s]
                 ELSE was
  /\ jobs' = [jobs EXCEPT ![c] = @ + 1]
  /\ UNCHANGED <<files, holder, me, handle>>

\* A slip: the server serves others while it runs mobile code.
RunUnheld(c) ==
  /\ holder = Nobody /\ pc[c] = "queued"
  /\ pc' = [pc EXCEPT ![c] = FirstLabel(c, job[c])]
  /\ UNCHANGED <<files, holder, job, me, handle, jobs, was>>

(* The server takes a request of an active client.                             *)
Run(c) ==
  /\ holder = Nobody /\ pc[c] = "queued"
  /\ holder' = c
  /\ pc' = [pc EXCEPT ![c] = FirstLabel(c, job[c])]
  /\ UNCHANGED <<files, job, me, handle, jobs, was>>

Return(c) ==
  /\ pc[c] = "return"
  /\ pc' = [pc EXCEPT ![c] = "ready"]
  /\ job' = [job EXCEPT ![c] = NoJob]
  /\ me' = [me EXCEPT ![c] = NoLocals]
  /\ UNCHANGED <<files, holder, handle, jobs, was>>

-------------------------------------------------------------------------------
(* The calls of the inode store, each of which answers a value v.              *)
Lookup(k)     == [op |-> "lookup", key |-> k]
Create(k)     == [op |-> "create", key |-> k]
GetLen(i)     == [op |-> "getLen", ino |-> i]
SetLen(i, n)  == [op |-> "setLen", ino |-> i, n |-> n]
Put(i, o, us) == [op |-> "put", ino |-> i, off |-> o, units |-> us]
Fetch(i, o, n) == [op |-> "get", ino |-> i, off |-> o, n |-> n]

OwnKey(c)   == <<IF job[c].kind = "mkdir" THEN "dir" ELSE "file", job[c].path>>
FirstKey(c) == <<IF job[c].kind = "rmdir" THEN "dir" ELSE "file", job[c].path>>
NextKey(c)  == IF job[c].kind = "rmdir" THEN NoKey ELSE <<"dir", job[c].path>>
DirKey(p)   == <<"dir", p>>

(* The inode that the next entry names; there is none in blank content, and    *)
(* inode 0 is the allocation counter, which is not -1.                         *)
HeadInode(buf) == IF buf[1][1] = "inode" THEN buf[1][2] ELSE 0

OpOf(c) ==
  LET j == job[c] m == me[c] IN
  CASE pc[c] = "other"     -> Lookup(OtherKind(OwnKey(c)))
    [] pc[c] = "otherLen"  -> GetLen(m.ino)
    [] pc[c] = "mine"      -> Lookup(OwnKey(c))
    [] pc[c] = "mineLen"   -> GetLen(m.ino)
    [] pc[c] = "revive"    -> SetLen(m.ino, 0)
    [] pc[c] = "parent"    -> Lookup(DirKey(Parent[j.path]))
    [] pc[c] = "create"    -> Create(OwnKey(c))
    [] pc[c] = "appendLen" -> GetLen(m.ino)
    [] pc[c] = "appendSet" -> SetLen(m.ino, m.at + Entry)
    [] pc[c] = "appendPut" -> Put(m.ino, m.at, <<Header(m.own), NameOf(j.path)>>)
    [] pc[c] = "first"     -> Lookup(FirstKey(c))
    [] pc[c] = "firstLen"  -> GetLen(m.ino)
    [] pc[c] = "second"    -> Lookup(NextKey(c))
    [] pc[c] = "lastLen"   -> GetLen(m.ino)
    [] pc[c] = "remove"    -> SetLen(m.ino, -1)
    [] pc[c] = "trunc"     -> Lookup(<<"file", j.path>>)
    [] pc[c] = "cut"       -> SetLen(m.ino, j.size)
    [] pc[c] = "linkFrom"  -> Lookup(<<"file", j.path>>)
    [] pc[c] = "linkTo"    -> Lookup(<<"file", j.to>>)
    [] pc[c] = "open"      -> Lookup(<<"file", j.path>>)
    [] pc[c] = "openLen"   -> GetLen(m.ino)
    [] pc[c] = "extend"    -> SetLen(handle[c].ino, j.off + 1)
    [] pc[c] = "writePut"  -> Put(handle[c].ino, j.off, <<Content(j.val)>>)
    [] pc[c] = "readGet"   -> Fetch(handle[c].ino, j.off, 1)
    [] pc[c] = "dirLookup" -> Lookup(DirKey(j.path))
    [] pc[c] = "dirLen"    -> GetLen(m.ino)
    [] pc[c] = "dirGet"    -> Fetch(m.ino, 0, m.at)
    [] pc[c] = "scan"      -> GetLen(HeadInode(m.buf))
    [] pc[c] = "mountRoot" -> Create(DirKey(Root))

(* The range lies within the length that access() reads.                       *)
Within(i, o, n) == o + n <= len[i]

Value(op) ==
  CASE op.op = "lookup" -> IF op.key = NoKey THEN 0 ELSE names[op.key]
    [] op.op = "create" -> inodes + 1
    [] op.op = "getLen" -> IF op.ino = 0 THEN inodes ELSE len[op.ino]
    [] op.op = "get"    -> [n \in 1 .. op.n |-> IF Within(op.ino, op.off, op.n)
                                                THEN data[op.ino][op.off + n - 1] ELSE Blank]
    [] OTHER            -> 0

(* A put beyond the length is refused, and its caller does not look at that.   *)
Apply(op) ==
  /\ names' = IF op.op = "create" THEN [names EXCEPT ![op.key] = inodes + 1] ELSE names
  /\ inodes' = IF op.op = "create" THEN inodes + 1 ELSE inodes
  /\ key' = IF op.op = "create" THEN [key EXCEPT ![inodes + 1] = op.key] ELSE key
  /\ len' = IF op.op = "setLen" THEN [len EXCEPT ![op.ino] = op.n] ELSE len
  /\ data' = IF op.op = "put" /\ Within(op.ino, op.off, Len(op.units))
             THEN [data EXCEPT ![op.ino] = [o \in DOMAIN @ |->
                     IF o \in op.off .. op.off + Len(op.units) - 1
                     THEN op.units[o - op.off + 1] ELSE @[o]]]
             ELSE data

-------------------------------------------------------------------------------
(* What the operations do with the value v: one action per part of the code.   *)
Goto(c, label) == pc' = [pc EXCEPT ![c] = label]
Stay           == UNCHANGED <<me, handle>>
Hold(c, v)     == me' = [me EXCEPT ![c].ino = v] /\ UNCHANGED handle
Ends(c, v)     == /\ Goto(c, "return")
                  /\ me' = [me EXCEPT ![c].result = v]
                  /\ UNCHANGED handle

\* A slip: that the path is there as the other kind is not looked at.
MakeBlind(c, v) ==
  \/ pc[c] = "other" /\ Goto(c, "mine") /\ Hold(c, v)
  \/ pc[c] = "mine" /\ Goto(c, IF v = 0 THEN "parent" ELSE "mineLen") /\ Hold(c, v)
  \/ pc[c] = "mineLen" /\ IF v # -1 THEN Ends(c, Failed) ELSE Goto(c, "revive") /\ Stay
  \/ pc[c] = "revive" /\ Ends(c, 0)

(* ARFS.mkdir and mknod, which differ in the kinds only, up to the creation.   *)
Make(c, v) ==
  \/ pc[c] = "other" /\ Goto(c, IF v = 0 THEN "mine" ELSE "otherLen") /\ Hold(c, v)
  \/ pc[c] = "otherLen" /\ IF v # -1 THEN Ends(c, Failed) ELSE Goto(c, "mine") /\ Stay
  \/ pc[c] = "mine" /\ Goto(c, IF v = 0 THEN "parent" ELSE "mineLen") /\ Hold(c, v)
  \/ pc[c] = "mineLen" /\ IF v # -1 THEN Ends(c, Failed) ELSE Goto(c, "revive") /\ Stay
  \/ pc[c] = "revive" /\ Ends(c, 0)

(* The parent need only have been created once.                                *)
Enter(c, v) ==
  \/ pc[c] = "parent" /\ IF v = 0 THEN Ends(c, Failed) ELSE Goto(c, "create") /\ Hold(c, v)
  \/ pc[c] = "create" /\ Goto(c, "appendLen")
     /\ me' = [me EXCEPT ![c].own = v] /\ UNCHANGED handle

\* A slip: the directory is not made longer before the entry is put.
AppendUnset(c, v) ==
  \/ pc[c] = "appendLen" /\ Goto(c, "appendPut")
     /\ me' = [me EXCEPT ![c].at = v] /\ UNCHANGED handle
  \/ pc[c] = "appendPut" /\ Ends(c, 0)

(* ARFS.appendDirEntry.                                                        *)
AppendEntry(c, v) ==
  \/ pc[c] = "appendLen" /\ Goto(c, "appendSet")
     /\ me' = [me EXCEPT ![c].at = v] /\ UNCHANGED handle
  \/ pc[c] = "appendSet" /\ Goto(c, "appendPut") /\ Stay
  \/ pc[c] = "appendPut" /\ Ends(c, 0)

(* ARFS.getattr, unlink, and unlink of a prefixed path, which rmdir is.        *)
Find(c, v) ==
  \/ pc[c] = "first" /\ Goto(c, IF v = 0 THEN "second" ELSE "firstLen") /\ Hold(c, v)
  \/ pc[c] = "firstLen" /\ Goto(c, IF v = -1 THEN "second" ELSE "lastLen") /\ Stay
  \/ /\ pc[c] = "second"
     /\ IF v = 0 THEN Ends(c, Failed)
        ELSE /\ Goto(c, "lastLen") /\ UNCHANGED handle
             /\ me' = [me EXCEPT ![c].ino = v, ![c].dir = 1]
  \/ /\ pc[c] = "lastLen"
     /\ IF v = -1 THEN Ends(c, Failed)
        ELSE IF job[c].kind = "getattr"
        THEN Ends(c, 1 + me[c].dir)
        ELSE Goto(c, "remove") /\ Stay
  \/ pc[c] = "remove" /\ Ends(c, 0)

(* ARFS.truncate asks neither whether the file was removed nor how long it is. *)
Truncate(c, v) ==
  \/ pc[c] = "trunc" /\ IF v = 0 THEN Ends(c, Failed) ELSE Goto(c, "cut") /\ Hold(c, v)
  \/ pc[c] = "cut" /\ Ends(c, 0)

(* ARFS.link, the first half of rename, finds that it has an inode, and fails. *)
Link(c, v) ==
  \/ pc[c] = "linkFrom" /\ IF v = 0 THEN Ends(c, Failed) ELSE Goto(c, "linkTo") /\ Stay
  \/ pc[c] = "linkTo" /\ Ends(c, Failed)

OpenHandle(c, v) ==
  /\ handle' = [handle EXCEPT ![c] = [ino |-> me[c].ino, length |-> v, path |-> job[c].path]]
  /\ Goto(c, "return") /\ UNCHANGED me

\* A slip: open() does not ask whether the file was removed.
OpenRemoved(c, v) ==
  \/ pc[c] = "open" /\ IF v = 0 THEN Ends(c, Failed) ELSE Goto(c, "openLen") /\ Hold(c, v)
  \/ pc[c] = "openLen" /\ OpenHandle(c, v)

(* ARFilesystem.open.                                                          *)
Open(c, v) ==
  \/ pc[c] = "open" /\ IF v = 0 THEN Ends(c, Failed) ELSE Goto(c, "openLen") /\ Hold(c, v)
  \/ pc[c] = "openLen" /\ IF v = -1 THEN Ends(c, Failed) ELSE OpenHandle(c, v)

(* ARFilesystem.write and read: neither looks at what put or get answers.      *)
ReadWrite(c, v) ==
  \/ /\ pc[c] = "extend"
     /\ handle' = [handle EXCEPT ![c].length = job[c].off + 1]
     /\ Goto(c, "writePut") /\ UNCHANGED me
  \/ pc[c] \in {"writePut", "readGet"} /\ Ends(c, 0)

(* A mount makes the root, another one each time.                              *)
Mount(c, v) == pc[c] = "mountRoot" /\ Ends(c, 0)

(* ARFilesystem.getdir: the content is read at once, and each entry's length.  *)
Scan(c, buf, out) ==
  /\ me' = [me EXCEPT ![c].buf = buf, ![c].out = out,
                      ![c].result = IF buf # <<>> /\ buf[1][1] = "name" THEN Failed ELSE 0]
  /\ Goto(c, IF buf = <<>> \/ buf[1][1] = "name" THEN "return" ELSE "scan")
  /\ UNCHANGED handle

\* A slip: an entry is shown whether or not its file is removed.
ShowsAll(c, v) == me[c].out \cup {HeadInode(me[c].buf)}

(* The removed ones are passed over.                                           *)
Shows(c, v) == IF v = -1 THEN me[c].out ELSE me[c].out \cup {HeadInode(me[c].buf)}

Getdir(c, v) ==
  \/ pc[c] = "dirLookup" /\ IF v = 0 THEN Ends(c, Failed) ELSE Goto(c, "dirLen") /\ Hold(c, v)
  \/ pc[c] = "dirLen" /\ v = -1 /\ Ends(c, Failed)
  \/ pc[c] = "dirLen" /\ v # -1 /\ Goto(c, "dirGet")
     /\ me' = [me EXCEPT ![c].at = v] /\ UNCHANGED handle
  \/ pc[c] = "dirGet" /\ Scan(c, v, {})
  \/ /\ pc[c] = "scan"
     /\ LET buf == me[c].buf
            size == IF buf[1] = Blank THEN 1 ELSE Entry
        IN Scan(c, SubSeq(buf, size + 1, Len(buf)),
                Shows(c, v))
-------------------------------------------------------------------------------
(* The bookkeeping: inodes that were removed, directories to which an entry    *)
(* was appended at a length they had no more, paths of which two makings were  *)
(* under way at once, of which a removed file was given a length, or a removed *)
(* directory an entry, handles whose inode was given another length since; and *)
(* of each getdir the entries that must and may be in its answer.              *)
Making(c)  == /\ job[c].kind \in {"mkdir", "mknod"}
              /\ pc[c] \notin {"queued", "return"}
Raced(c)   == Making(c) /\ \E d \in Client \ {c} : Making(d) /\ job[d].path = job[c].path
Revived(c) == \/ pc[c] = "cut" /\ len[me[c].ino] = -1
              \/ pc[c] = "extend" /\ len[handle[c].ino] = -1
Regrown(c) == pc[c] = "appendSet" /\ -1 \in {me[c].at, len[me[c].ino]}

Note(c, op) ==
  LET setAt  == IF op.op = "setLen" THEN op.ino ELSE 0
      over   == IF pc[c] = "appendSet" /\ len[setAt] # me[c].at THEN {setAt} ELSE {}
      dir(d) == IF pc'[d] = "dirLookup" THEN names'[DirKey(job[d].path)] ELSE me'[d].ino
      there(d) == IF job[d].kind # "getdir" \/ dir(d) = 0 THEN {}
                  ELSE {n \in Inode : len'[n] # -1 /\ \E o \in 0 .. len'[dir(d)] - 1 :
                                                          data'[dir(d)][o] = Header(n)}
  IN was' = [removed    |-> IF setAt # 0 /\ op.n = -1 THEN was.removed \cup {setAt} ELSE was.removed,
             overlapped |-> was.overlapped \cup over,
             raced      |-> was.raced \cup (IF Raced(c) THEN {<<"made", job[c].path>>} ELSE {})
                              \cup (IF Revived(c) THEN {<<"revived", job[c].path>>} ELSE {})
                              \cup (IF Regrown(c) THEN {<<"regrown", Parent[job[c].path]>>} ELSE {}),
             changed    |-> (was.changed \cup {d \in Client : setAt # 0 /\ handle[d].ino = setAt})
                              \ (IF pc[c] = "extend" \/ (pc[c] = "openLen" /\ Value(op) # -1)
                                 THEN {c} ELSE {}),
             must       |-> [d \in Client |-> was.must[d] \cap there(d)],
             may        |-> [d \in Client |-> was.may[d] \cup there(d)]]

(* c's next call of the inode store is served, and c goes on.                  *)
Operate(c) ==
  LET op == OpOf(c) v == Value(op) IN
  /\ pc[c] \notin {"ready", "queued", "return"}
  /\ holder \in {Nobody, c}
  /\ Apply(op)
  /\ \/ Make(c, v) \/ Enter(c, v) \/ AppendEntry(c, v) \/ Find(c, v) \/ Truncate(c, v)
     \/ Link(c, v) \/ Open(c, v) \/ ReadWrite(c, v) \/ Getdir(c, v) \/ Mount(c, v)
  /\ home' = IF pc[c] = "create" THEN [home EXCEPT ![v] = me[c].ino] ELSE home
  /\ Note(c, op)
  /\ holder' = IF pc'[c] = "return" THEN Nobody ELSE holder
  /\ UNCHANGED <<job, jobs>>

(* Every client has made its calls.                                            *)
Finished == /\ \A c \in Client : pc[c] = "ready" /\ jobs[c] = MaxJobs
            /\ UNCHANGED vars

Next == \/ \E c \in Client : Call(c) \/ Run(c) \/ Operate(c) \/ Return(c)
        \/ Finished

Spec == Init /\ [][Next]_vars

-------------------------------------------------------------------------------
(* The variables hold what their declarations say.                             *)
TypeOK == /\ names \in [Key -> Inode \cup {0}] /\ inodes \in Inode
          /\ len \in [Inode -> -1 .. MaxUnits]
          /\ holder \in Active \cup {Nobody}
          /\ job \in [Client -> Jobs \cup {NoJob}] /\ jobs \in [Client -> 0 .. MaxJobs]
          /\ \A c \in Client : /\ me[c].ino \in Inode \cup {0}
                               /\ me[c].at \in -1 .. MaxUnits
                               /\ me[c].out \subseteq Inode \cup {0}
                               /\ handle[c].length \in 0 .. MaxUnits

(* A file or directory that is there is listed in its parent, unless the       *)
(* parent was removed and made again since, or an append to it was overtaken   *)
(* by another (appendDirEntry reads and sets the length in two calls).         *)
Entering(n) == \E c \in Client : /\ me[c].own = n
                                 /\ pc[c] \in {"appendLen", "appendSet", "appendPut"}
LiveIsListed ==
  \A k \in Key :
    LET n == names[k] i == names[DirKey(Parent[k[2]])] IN
    (k[2] # Root /\ Live(k) /\ Live(DirKey(Parent[k[2]])) /\ ~Entering(n)) =>
      \/ n \in Listed(i)
      \/ home[n] # i \/ i \in was.removed \/ i \in was.overlapped

(* A directory shows no name twice, unless two makings of the path overlapped, *)
(* a removed file was brought back by truncate or a write, or a removed        *)
(* directory by an entry that was made in it.                                  *)
UniqueNames ==
  \A i \in Inode : \A d, e \in Entries(i) :
    (d # e /\ len[d[2]] # -1 /\ len[e[2]] # -1 /\ data[i][d[1] + 1] = data[i][e[1] + 1]) =>
      \E r \in was.raced : data[i][d[1] + 1] = NameOf(r[2])

(* Active mounts need none of these excuses but the last two: their operations *)
(* on names are one request each.                                              *)
ActiveNeverRaces == was.overlapped = {} /\ \A r \in was.raced : r[1] # "made"

(* The answer of a getdir has every entry that was there from its start to its *)
(* end, and none that was at no time there, whatever is made and removed while *)
(* it reads the length, the content and the entries' lengths in turn.          *)
(* Excepted are directories whose entries overwrite each other; an answer may  *)
(* lack entries of one that was entered in while it was removed, and have too  *)
(* many of one that was removed and made again.                                *)
ListingTrue ==
  \A c \in Client :
    (/\ pc[c] = "return" /\ job[c].kind = "getdir" /\ me[c].result # Failed
     /\ me[c].ino \notin was.overlapped) =>
      /\ <<"regrown", job[c].path>> \notin was.raced => was.must[c] \subseteq me[c].out
      /\ me[c].ino \notin was.removed => me[c].out \ {0} \subseteq was.may[c]

(* When a write returns its unit is in the file, unless somebody gave the file *)
(* another length since its handle was opened or extended it last: the put is  *)
(* then refused, and the write returns 0 all the same.                         *)
WriteStored ==
  [][\A c \in Client : pc[c] = "writePut" /\ pc'[c] = "return" =>
       LET i == handle[c].ino IN
       \/ job[c].off < len'[i] /\ data'[i][job[c].off] = Content(job[c].val)
       \/ c \in was.changed]_vars

(* The names of active mounts implement NameTree.                              *)
Entered == {"appendLen", "appendSet", "appendPut", "return"}
Tree == INSTANCE NameTree WITH
          known <- {k \in Key : names[k] # 0},
          live  <- {k \in Key : Live(k)},
          phase <- [c \in Client |-> IF job[c] = NoJob THEN "idle"
                                     ELSE IF pc[c] \in Entered THEN "done" ELSE "called"],
          reply <- [c \in Client |-> IF job[c] # NoJob /\ pc[c] = "return" THEN me[c].result ELSE 0]
IsTree == Tree!Spec
===============================================================================
