---------------------------- MODULE FileSystemProof ---------------------------
(* Proofs about FileSystem for any mounts, paths, calls and bounds.            *)
EXTENDS FileSystem, TLAPS, FiniteSetTheorems, SequenceTheorems

-------------------------------------------------------------------------------
(* Types.                                                                      *)
Headers == {Header(n) : n \in Inode}
Names   == {NameOf(p) : p \in Path}
Units   == {Blank} \cup Headers \cup Names \cup {Content(v) : v \in Int}
Offsets == -1 .. MaxUnits

Locals  == [ino : Inode \cup {0}, own : Inode \cup {0}, dir : {0, 1}, at : Offsets,
            buf : Seq(Units), out : SUBSET (Inode \cup {0}), result : {Failed, 0, 1, 2}]
Handles == [ino : Inode \cup {0}, length : 0 .. MaxUnits, path : Path]
History == [removed : SUBSET Inode, overlapped : SUBSET Inode,
            raced : SUBSET ({"made", "revived", "regrown"} \X Path), changed : SUBSET Client,
            must : [Client -> SUBSET Inode], may : [Client -> SUBSET Inode]]

Labels == {"ready", "queued", "return",
           "other", "otherLen", "mine", "mineLen", "revive", "parent", "create",
           "appendLen", "appendSet", "appendPut",
           "first", "firstLen", "second", "lastLen", "remove", "trunc", "cut", "linkFrom", "linkTo",
           "open", "openLen", "extend", "writePut", "readGet",
           "dirLookup", "dirLen", "dirGet", "scan", "mountRoot"}

FileTypes == /\ names \in [Key -> Inode \cup {0}] /\ inodes \in Inode
             /\ len \in [Inode -> Offsets] /\ data \in [Inode -> [Offsets -> Units]]
             /\ key \in [Inode -> Key \cup {NoKey}] /\ home \in [Inode -> Inode \cup {0}]
ClientTypes == /\ holder \in Active \cup {Nobody}
               /\ pc \in [Client -> Labels] /\ job \in [Client -> Jobs \cup {NoJob}]
               /\ jobs \in [Client -> 0 .. MaxJobs]
               /\ me \in [Client -> Locals] /\ handle \in [Client -> Handles]
               /\ was \in History
Types == FileTypes /\ ClientTypes

(* Which labels a call can be at.                                              *)
Appending == {"appendLen", "appendSet", "appendPut"}
Entries0  == {"other", "otherLen", "mine", "mineLen", "revive", "parent", "create"}
MakeLabels == Entries0 \cup Appending
LabelsOf(kind) ==
  CASE kind \in {"mkdir", "mknod"} -> MakeLabels
    [] kind = "getattr"            -> {"first", "firstLen", "second", "lastLen"}
    [] kind \in {"unlink", "rmdir"} -> {"first", "firstLen", "second", "lastLen", "remove"}
    [] kind = "truncate" -> {"trunc", "cut"}
    [] kind = "rename"   -> {"linkFrom", "linkTo"}
    [] kind = "open"     -> {"open", "openLen"}
    [] kind = "write"    -> {"extend", "writePut"}
    [] kind = "read"     -> {"readGet"}
    [] kind = "getdir"   -> {"dirLookup", "dirLen", "dirGet", "scan"}
    [] kind = "mount"    -> {"mountRoot"}

FlowAt(c) ==
  IF pc[c] = "ready" THEN job[c] = NoJob
  ELSE /\ job[c] \in Jobs /\ jobs[c] >= 1
       /\ \/ pc[c] = "return"
          \/ pc[c] = "queued" /\ job[c].kind \in OneRequest /\ c \in Active
          \/ pc[c] \in LabelsOf(job[c].kind)
Flow == \A c \in Client : FlowAt(c)

(* What an inode was made for does not change, and every name and local knows  *)
(* what its inode is.                                                          *)
Is(i, k) == i \in 1 .. inodes /\ key[i] = k

InodeAt(c) ==
  LET i == me[c].ino j == job[c] IN
  /\ pc[c] = "otherLen" => Is(i, OtherKind(OwnKey(c)))
  /\ pc[c] \in {"mineLen", "revive"} => Is(i, OwnKey(c))
  /\ pc[c] \in {"create"} \cup Appending => Is(i, DirKey(Parent[j.path]))
  /\ pc[c] \in Appending => Is(me[c].own, OwnKey(c)) /\ home[me[c].own] = i
  /\ pc[c] = "firstLen" => Is(i, FirstKey(c))
  /\ pc[c] \in {"lastLen", "remove"} => Is(i, FirstKey(c)) \/ Is(i, NextKey(c))
  /\ pc[c] \in {"cut", "openLen"} => Is(i, <<"file", j.path>>)
  /\ pc[c] \in {"dirLen", "dirGet", "scan"} => Is(i, DirKey(j.path))
  /\ pc[c] = "dirGet" => me[c].at >= 0
  /\ pc[c] = "scan" => me[c].buf # <<>>
  /\ pc[c] = "return" /\ j.kind = "getdir" /\ me[c].result # Failed => Is(i, DirKey(j.path))

HandleAt(c) ==
  LET h == handle[c] IN
  /\ h.ino # 0 => Is(h.ino, <<"file", h.path>>)
  /\ pc[c] \in {"extend", "writePut", "readGet"} => h.ino # 0 /\ h.path = job[c].path

Known == /\ \A k \in Key : names[k] # 0 => Is(names[k], k)
         /\ names[<<"dir", Root>>] # 0
         /\ \A i \in Inode : i > inodes => len[i] = 0 /\ home[i] = 0 /\ key[i] = NoKey
         /\ \A i \in Inode : home[i] # 0 => home[i] <= inodes /\ key[home[i]][1] = "dir"
         /\ \A c \in Client : InodeAt(c) /\ HandleAt(c)

(* Each inode and each entry is due to a call of its own.                      *)
BeforeCreate == Entries0 \cup {"queued", "mountRoot"}
BeforeAppend == BeforeCreate \cup {"appendLen", "appendSet"}
Past(labels) == {x \in Client \X (1 .. MaxJobs) :
                   x[2] < jobs[x[1]] \/ (x[2] = jobs[x[1]] /\ pc[x[1]] \notin labels)}

Counts == /\ inodes <= 1 + Cardinality(Past(BeforeCreate))
          /\ \A i \in Inode : key[i][1] = "dir" => len[i] <= 2 * Cardinality(Past(BeforeAppend))
          /\ \A c \in Client : pc[c] = "appendSet" => me[c].at <= 2 * Cardinality(Past(BeforeAppend))

(* Handles.                                                                    *)
HandleOK == \A c \in Client :
              /\ handle[c].ino # 0 => c \in was.changed \/ len[handle[c].ino] = handle[c].length
              /\ pc[c] = "writePut" => job[c].off < handle[c].length

-------------------------------------------------------------------------------
(* Directories hold entries, each inode's in one place, and files do not.      *)
ContentAt(i, o) ==
  LET u == data[i][o] IN
  /\ u \in Headers \cup Names => key[i][1] = "dir"
  /\ \A n \in Inode : u = Header(n) =>
       /\ home[n] = i /\ n <= inodes
       /\ o < MaxUnits /\ data[i][o + 1] \in Headers \cup Names
       /\ \A p \in Path : data[i][o + 1] = NameOf(p) => key[n][2] = p
       /\ \A j \in Inode, q \in Offsets : data[j][q] = u => i = j /\ o = q
       /\ \A c \in Client : pc[c] \in Appending => me[c].own # n
ContentOK == \A i \in Inode, o \in Offsets : ContentAt(i, o)
OwnOK == \A c, d \in Client :
           (pc[c] \in Appending /\ pc[d] \in Appending /\ me[c].own = me[d].own) => c = d

(* Makings of a path that no race has touched.                                 *)
HasRaced(p) == \E r \in was.raced : r[2] = p
At(n, p)    == home[n] # 0 /\ key[n][2] = p
Makes(c, p) == Making(c) /\ job[c].path = p
NamedOK(p)  == \A n \in Inode : At(n, p) => key[n] \in Key \ {DirKey(Root)} /\ names[key[n]] = n
OneLive(p)  == \A n, m \in Inode : At(n, p) /\ At(m, p) /\ len[n] # -1 /\ len[m] # -1 => n = m
OneMaking(p) == \A c, d \in Client : c # d /\ Makes(c, p) /\ Makes(d, p) =>
                                       pc[c] = "other" \/ pc[d] = "other"
MakingOK(c) ==
  LET other == OtherKind(OwnKey(c)) IN
  /\ pc[c] = "otherLen" => other = DirKey(Root) \/ me[c].ino = names[other]
  /\ pc[c] \in {"mine", "mineLen", "revive", "parent", "create"} =>
       \A n \in Inode : home[n] # 0 /\ key[n] = other => len[n] = -1
  /\ pc[c] \in {"parent", "create"} => names[OwnKey(c)] = 0
PathOK(p) == /\ NamedOK(p) /\ OneLive(p) /\ OneMaking(p)
             /\ \A c \in Client : Makes(c, p) => MakingOK(c)
RacesOK == \A p \in Path : HasRaced(p) \/ PathOK(p)

(* Directories that were never removed, and in which no appends overlapped.    *)
Clean(i) == key[i][1] = "dir" /\ i \notin was.removed /\ i \notin was.overlapped
Putting(c, i) == pc[c] = "appendPut" /\ me[c].ino = i
CleanOK(i) ==
  /\ \A n \in Inode : home[n] = i /\ ~Entering(n) => \E o \in 0 .. len[i] - 1 : data[i][o] = Header(n)
  /\ \A o \in Offsets : data[i][o] \in Headers => 0 <= o /\ o < len[i]
  /\ \A c \in Client : pc[c] = "appendSet" /\ me[c].ino = i => me[c].at >= 0
  /\ \A c \in Client : Putting(c, i) =>
       /\ me[c].at >= 0 /\ me[c].at + Entry <= len[i]
       /\ data[i][me[c].at] \notin Headers /\ data[i][me[c].at + 1] \notin Headers
       /\ \A d \in Client : c # d /\ Putting(d, i) => \/ me[c].at + Entry <= me[d].at
                                                      \/ me[d].at + Entry <= me[c].at
DirsOK == /\ \A i \in Inode : len[i] = -1 => i \in was.removed
          /\ \A c \in Client : pc[c] = "revive" => me[c].ino \in was.removed
          /\ \A i \in Inode : i > inodes => \A o \in Offsets : data[i][o] = Blank
          /\ \A i \in Inode : Clean(i) => CleanOK(i)

(* Directories in which nothing was made while they were removed.              *)
Regular(i) == key[i][1] = "dir" /\ <<"regrown", key[i][2]>> \notin was.raced
Pair(u, v) == (u = Blank /\ v = Blank) \/ (u \in Headers /\ v \in Names)
RegularOK(i) ==
  /\ len[i] = -1 \/ len[i] % 2 = 0
  /\ \A o \in 0 .. MaxUnits - 1 : o % 2 = 0 => Pair(data[i][o], data[i][o + 1])
  /\ \A c \in Client : me[c].ino = i =>
       /\ pc[c] = "appendSet" => me[c].at = -1 \/ me[c].at % 2 = 0
       /\ pc[c] = "appendPut" => me[c].at >= 0 /\ me[c].at % 2 = 0
       /\ pc[c] = "dirGet" => me[c].at % 2 = 0
RegularsOK == \A i \in Inode : Regular(i) => RegularOK(i)

(* What a getdir has seen.                                                     *)
Holds(i, n)  == \E o \in 0 .. len[i] - 1 : data[i][o] = Header(n)
DirOf(c)     == IF pc[c] = "dirLookup" THEN names[DirKey(job[c].path)] ELSE me[c].ino
Present(c)   == IF job[c].kind # "getdir" \/ DirOf(c) = 0 THEN {}
                ELSE {n \in Inode : len[n] # -1 /\ Holds(DirOf(c), n)}
Heads(buf)   == {n \in Inode : \E k \in 1 .. Len(buf) : buf[k] = Header(n)}
Paired(buf)  == /\ \A k \in 1 .. Len(buf) : (Len(buf) - k) % 2 = 1 => Pair(buf[k], buf[k + 1])
                /\ Len(buf) % 2 = 1 => buf[1] = Blank
ListingAt(c) ==
  LET i == me[c].ino m == was.must[c] IN
  /\ m \subseteq Present(c) /\ Present(c) \subseteq was.may[c]
  /\ pc[c] = "dirGet" =>
       \/ i \in was.overlapped
       \/ m = {}
       \/ me[c].at <= len[i] /\ \A n \in m : \E o \in 0 .. me[c].at - 1 : data[i][o] = Header(n)
  /\ pc[c] = "scan" =>
       /\ \/ i \in was.overlapped
          \/ ~Regular(i)
          \/ Paired(me[c].buf) /\ m \subseteq me[c].out \cup Heads(me[c].buf)
       /\ Clean(i) => me[c].out \ {0} \subseteq was.may[c] /\ \A n \in Heads(me[c].buf) : Holds(i, n)
  /\ pc[c] = "return" /\ me[c].result # Failed =>
       /\ i \in was.overlapped \/ ~Regular(i) \/ m \subseteq me[c].out
       /\ Clean(i) => me[c].out \ {0} \subseteq was.may[c]
ListingsOK == \A c \in Client : job[c].kind = "getdir" => ListingAt(c)

IInv == /\ Types /\ Flow /\ Known /\ Counts /\ HandleOK
        /\ ContentOK /\ OwnOK /\ RacesOK /\ DirsOK /\ RegularsOK /\ ListingsOK

-------------------------------------------------------------------------------
(* Calls and units.                                                            *)
LEMMA JobTypes ==
  ASSUME NEW j \in Jobs
  PROVE  /\ j.path \in Path /\ j # NoJob
         /\ j.kind \in {"mkdir", "mknod", "getattr", "unlink", "rmdir", "open", "getdir", "mount",
                        "truncate", "rename", "read", "write"}
         /\ j.kind = "truncate" => j.size \in 0 .. MaxUnits
         /\ j.kind \in {"read", "write"} => j.off \in 0 .. MaxUnits - 1
         /\ j.kind = "write" => j.val \in Int
         /\ j.kind = "rename" => j.to \in Path
  <1>1. MaxUnits \in Nat
    BY FileSystemAssumption
  <1>2. CASE j \in [kind : {"mkdir", "mknod", "getattr", "unlink", "rmdir", "open", "getdir",
                           "mount"}, path : Path]
    BY <1>2 DEF NoJob
  <1>3. CASE j \in [kind : {"truncate"}, path : Path, size : 0 .. MaxUnits]
    BY <1>3 DEF NoJob
  <1>4. CASE j \in [kind : {"rename"}, path : Path, to : Path]
    BY <1>4 DEF NoJob
  <1>5. CASE j \in [kind : {"read"}, path : Path, off : 0 .. MaxUnits - 1]
    BY <1>5 DEF NoJob
  <1>6. CASE j \in [kind : {"write"}, path : Path, off : 0 .. MaxUnits - 1, val : Int]
    BY <1>6 DEF NoJob
  <1> QED BY <1>2, <1>3, <1>4, <1>5, <1>6, FileSystemAssumption

(* Units of different kinds differ.                                            *)
LEMMA UnitsApart ==
  /\ \A n, m : Header(n) = Header(m) => n = m
  /\ \A p, q : NameOf(p) = NameOf(q) => p = q
  /\ \A n, p : Header(n) # NameOf(p) /\ Header(n) # Blank /\ NameOf(p) # Blank
  /\ \A n, v : Header(n) # Content(v) /\ NameOf(n) # Content(v) /\ Blank # Content(v)
  /\ \A n, p, v : /\ Header(n)[1] = "inode" /\ Header(n)[2] = n
                  /\ NameOf(p)[1] = "name" /\ Content(v)[1] = "content"
  /\ Blank[1] = "blank"
  BY DEF Header, NameOf, Blank, Content

(* What a unit is, by its first word.                                          *)
LEMMA UnitKinds ==
  ASSUME NEW u \in Units
  PROVE  /\ u[1] = "inode" => u \in Headers /\ u = Header(u[2]) /\ u[2] \in Inode
         /\ u[1] = "name" => u \in Names
         /\ u \in Headers <=> u[1] = "inode"
         /\ u \in Names <=> u[1] = "name"
         /\ u = Blank <=> u[1] = "blank"
  <1>1. CASE u = Blank
    BY <1>1, UnitsApart DEF Headers, Names
  <1>2. CASE u \in Headers
    BY <1>2, UnitsApart DEF Headers, Names
  <1>3. CASE u \in Names
    BY <1>3, UnitsApart DEF Headers, Names
  <1>4. CASE u \in {Content(v) : v \in Int}
    BY <1>4, UnitsApart DEF Headers, Names
  <1> QED BY <1>1, <1>2, <1>3, <1>4 DEF Units

(* What a client's variables hold.                                             *)
LEMMA Here ==
  ASSUME Types, NEW c \in Client
  PROVE  /\ me[c].ino \in Inode \cup {0} /\ me[c].own \in Inode \cup {0} /\ me[c].dir \in {0, 1}
         /\ me[c].at \in Offsets /\ me[c].buf \in Seq(Units)
         /\ me[c].out \in SUBSET (Inode \cup {0}) /\ me[c].result \in {Failed, 0, 1, 2}
         /\ handle[c].ino \in Inode \cup {0} /\ handle[c].length \in 0 .. MaxUnits
         /\ handle[c].path \in Path
         /\ me[c] \in Locals /\ handle[c] \in Handles
         /\ job[c] \in Jobs \cup {NoJob} /\ jobs[c] \in 0 .. MaxJobs
  <1>1. me[c] \in Locals /\ handle[c] \in Handles
    BY DEF Types, ClientTypes
  <1> QED BY <1>1 DEF Locals, Handles, Types, ClientTypes

(* What the store's variables hold.                                            *)
LEMMA FileIs ==
  ASSUME Types, MaxUnits \in Nat, NEW i \in Inode
  PROVE  /\ len[i] \in Offsets /\ len[i] \in Int /\ len[i] >= -1 /\ home[i] \in Inode \cup {0}
         /\ key[i] \in Key \cup {NoKey} /\ inodes \in Inode
         /\ \A o \in Offsets : data[i][o] \in Units
  <1>1. len[i] \in Offsets
    BY DEF Types, FileTypes
  <1>2. len[i] \in Int /\ len[i] >= -1
    BY <1>1 DEF Offsets
  <1> QED BY <1>1, <1>2 DEF Types, FileTypes

(* The constants.                                                              *)
LEMMA Sizes ==
  /\ MaxUnits \in Nat /\ MaxUnits >= 1 /\ Inode \subseteq Nat /\ 0 \notin Inode /\ 1 \in Inode
  /\ MaxJobs \in Nat /\ IsFiniteSet(Client) /\ Cardinality(Client) \in Nat
  /\ 2 * (MaxJobs * Cardinality(Client)) <= MaxUnits
  /\ MaxJobs * Cardinality(Client) \in Nat
  /\ Inode = 1 .. 2 + MaxJobs * Cardinality(Client)
  <1>1. Cardinality(Client) \in Nat
    BY FileSystemAssumption, FS_CardinalityType
  <1>2. \A a, b \in Nat : a * b \in Nat
    OBVIOUS
  <1>3. MaxJobs * Cardinality(Client) \in Nat
    BY <1>1, <1>2, FileSystemAssumption
  <1> QED BY <1>1, <1>3, FileSystemAssumption DEF Inode

LEMMA InOffsets ==
  /\ \A n \in Offsets : n \in Int /\ n >= -1
  /\ \A n \in Offsets : \A o \in 0 .. n - 1 : o \in Offsets
  <1>1. MaxUnits \in Nat
    BY Sizes
  <1> QED BY <1>1 DEF Offsets

-------------------------------------------------------------------------------
(* What an operation of client c does to c, and to nobody else.                *)
Moved(c, l, m, h) == /\ pc' = [pc EXCEPT ![c] = l] /\ me' = [me EXCEPT ![c] = m]
                     /\ handle' = [handle EXCEPT ![c] = h]
MovesTo(c, l)     == Moved(c, l, me[c], handle[c])
Notes(c, l, i)    == Moved(c, l, [me[c] EXCEPT !.ino = i], handle[c])
NotesAt(c, l, n)  == Moved(c, l, [me[c] EXCEPT !.at = n], handle[c])
Ended(c, v)       == Moved(c, "return", [me[c] EXCEPT !.result = v], handle[c])

LEMMA MovedIs ==
  ASSUME Types, NEW c \in Client, NEW l, NEW m, NEW h, Moved(c, l, m, h)
  PROVE  /\ pc'[c] = l /\ me'[c] = m /\ handle'[c] = h
         /\ \A d \in Client : d # c => pc'[d] = pc[d] /\ me'[d] = me[d] /\ handle'[d] = handle[d]
  BY DEF Moved, Types, ClientTypes

(* The steps of the code, in these words.                                      *)
LEMMA Steps ==
  ASSUME Types, NEW c \in Client
  PROVE  /\ \A l : (Goto(c, l) /\ Stay) => MovesTo(c, l)
         /\ \A l, i : (Goto(c, l) /\ Hold(c, i)) => Notes(c, l, i)
         /\ \A v : Ends(c, v) => Ended(c, v)
         /\ \A l, m : (Goto(c, l) /\ me' = [me EXCEPT ![c] = m] /\ UNCHANGED handle) =>
                        Moved(c, l, m, handle[c])
         /\ \A l, h : (Goto(c, l) /\ handle' = [handle EXCEPT ![c] = h] /\ UNCHANGED me) =>
                        Moved(c, l, me[c], h)
  <1>1. me = [me EXCEPT ![c] = me[c]] /\ handle = [handle EXCEPT ![c] = handle[c]]
    BY DEF Types, ClientTypes
  <1> QED BY <1>1 DEF Goto, Stay, Hold, Ends, MovesTo, Notes, Ended, Moved

(* The parts of the code that may run at a label.                              *)
Parts(c, v) == Make(c, v) \/ Enter(c, v) \/ AppendEntry(c, v) \/ Find(c, v) \/ Truncate(c, v)
               \/ Link(c, v) \/ Open(c, v) \/ ReadWrite(c, v) \/ Getdir(c, v) \/ Mount(c, v)

(* mkdir and mknod.                                                            *)
LEMMA MakeMoves ==
  ASSUME Types, NEW c \in Client, NEW v, Parts(c, v)
  PROVE  /\ pc[c] = "other" => Notes(c, IF v = 0 THEN "mine" ELSE "otherLen", v)
         /\ pc[c] = "otherLen" => IF v # -1 THEN Ended(c, Failed) ELSE MovesTo(c, "mine")
         /\ pc[c] = "mine" => Notes(c, IF v = 0 THEN "parent" ELSE "mineLen", v)
         /\ pc[c] = "mineLen" => IF v # -1 THEN Ended(c, Failed) ELSE MovesTo(c, "revive")
         /\ pc[c] = "revive" => Ended(c, 0)
         /\ pc[c] = "parent" => IF v = 0 THEN Ended(c, Failed) ELSE Notes(c, "create", v)
         /\ pc[c] = "create" => Moved(c, "appendLen", [me[c] EXCEPT !.own = v], handle[c])
         /\ pc[c] = "appendLen" => NotesAt(c, "appendSet", v)
         /\ pc[c] = "appendSet" => MovesTo(c, "appendPut")
         /\ pc[c] = "appendPut" => Ended(c, 0)
  <1> USE DEF Parts, Make, Enter, AppendEntry, Find, Truncate, Link, Open, ReadWrite, Getdir, Mount
  <1>1. pc[c] = "other" => Goto(c, IF v = 0 THEN "mine" ELSE "otherLen") /\ Hold(c, v)
    OBVIOUS
  <1>2. pc[c] = "otherLen" => IF v # -1 THEN Ends(c, Failed) ELSE Goto(c, "mine") /\ Stay
    OBVIOUS
  <1>3. pc[c] = "mine" => Goto(c, IF v = 0 THEN "parent" ELSE "mineLen") /\ Hold(c, v)
    OBVIOUS
  <1>4. pc[c] = "mineLen" => IF v # -1 THEN Ends(c, Failed) ELSE Goto(c, "revive") /\ Stay
    OBVIOUS
  <1>5. pc[c] \in {"revive", "appendPut"} => Ends(c, 0)
    OBVIOUS
  <1>6. pc[c] = "parent" => IF v = 0 THEN Ends(c, Failed) ELSE Goto(c, "create") /\ Hold(c, v)
    OBVIOUS
  <1>7. pc[c] = "create" => Goto(c, "appendLen") /\ me' = [me EXCEPT ![c].own = v] /\ UNCHANGED handle
    OBVIOUS
  <1>8. pc[c] = "appendLen" => Goto(c, "appendSet") /\ me' = [me EXCEPT ![c].at = v] /\ UNCHANGED handle
    OBVIOUS
  <1>9. pc[c] = "appendSet" => Goto(c, "appendPut") /\ Stay
    OBVIOUS
  <1> HIDE DEF Parts, Make, Enter, AppendEntry, Find, Truncate, Link, Open, ReadWrite, Getdir, Mount
  <1> QED BY <1>1, <1>2, <1>3, <1>4, <1>5, <1>6, <1>7, <1>8, <1>9, Steps DEF NotesAt

(* getattr, unlink, rmdir, truncate, and the half of rename that runs.         *)
LEMMA FindMoves ==
  ASSUME Types, NEW c \in Client, NEW v, Parts(c, v)
  PROVE  /\ pc[c] = "first" => Notes(c, IF v = 0 THEN "second" ELSE "firstLen", v)
         /\ pc[c] = "firstLen" => MovesTo(c, IF v = -1 THEN "second" ELSE "lastLen")
         /\ pc[c] = "second" =>
              IF v = 0 THEN Ended(c, Failed)
              ELSE Moved(c, "lastLen", [me[c] EXCEPT !.ino = v, !.dir = 1], handle[c])
         /\ pc[c] = "lastLen" =>
              IF v = -1 THEN Ended(c, Failed)
              ELSE IF job[c].kind = "getattr" THEN Ended(c, 1 + me[c].dir) ELSE MovesTo(c, "remove")
         /\ pc[c] \in {"remove", "cut", "writePut", "readGet", "mountRoot"} => Ended(c, 0)
         /\ pc[c] = "trunc" => IF v = 0 THEN Ended(c, Failed) ELSE Notes(c, "cut", v)
         /\ pc[c] = "linkFrom" => IF v = 0 THEN Ended(c, Failed) ELSE MovesTo(c, "linkTo")
         /\ pc[c] = "linkTo" => Ended(c, Failed)
  <1> USE DEF Parts, Make, Enter, AppendEntry, Find, Truncate, Link, Open, ReadWrite, Getdir, Mount
  <1>1. pc[c] = "first" => Goto(c, IF v = 0 THEN "second" ELSE "firstLen") /\ Hold(c, v)
    OBVIOUS
  <1>2. pc[c] = "firstLen" => Goto(c, IF v = -1 THEN "second" ELSE "lastLen") /\ Stay
    OBVIOUS
  <1>3. pc[c] = "second" => IF v = 0 THEN Ends(c, Failed)
                            ELSE /\ Goto(c, "lastLen") /\ UNCHANGED handle
                                 /\ me' = [me EXCEPT ![c].ino = v, ![c].dir = 1]
    OBVIOUS
  <1>4. pc[c] = "lastLen" => IF v = -1 THEN Ends(c, Failed)
                             ELSE IF job[c].kind = "getattr" THEN Ends(c, 1 + me[c].dir)
                             ELSE Goto(c, "remove") /\ Stay
    OBVIOUS
  <1>5. pc[c] \in {"remove", "cut", "writePut", "readGet", "mountRoot"} => Ends(c, 0)
    OBVIOUS
  <1>6. pc[c] = "trunc" => IF v = 0 THEN Ends(c, Failed) ELSE Goto(c, "cut") /\ Hold(c, v)
    OBVIOUS
  <1>7. pc[c] = "linkFrom" => IF v = 0 THEN Ends(c, Failed) ELSE Goto(c, "linkTo") /\ Stay
    OBVIOUS
  <1>8. pc[c] = "linkTo" => Ends(c, Failed)
    OBVIOUS
  <1> HIDE DEF Parts, Make, Enter, AppendEntry, Find, Truncate, Link, Open, ReadWrite, Getdir, Mount
  <1>9. [me EXCEPT ![c].ino = v, ![c].dir = 1] = [me EXCEPT ![c] = [me[c] EXCEPT !.ino = v, !.dir = 1]]
    BY DEF Types, ClientTypes
  <1> QED BY <1>1, <1>2, <1>3, <1>4, <1>5, <1>6, <1>7, <1>8, <1>9, Steps

(* open, write and getdir.                                                     *)
Begins(buf, out, m) ==
  [m EXCEPT !.buf = buf, !.out = out,
            !.result = IF buf # <<>> /\ buf[1][1] = "name" THEN Failed ELSE 0]
Scanned(c, buf, out) ==
  Moved(c, IF buf = <<>> \/ buf[1][1] = "name" THEN "return" ELSE "scan",
        Begins(buf, out, me[c]), handle[c])
Step(buf) == IF buf[1] = Blank THEN 1 ELSE Entry
LEMMA ContentMoves ==
  ASSUME Types, NEW c \in Client, NEW v, Parts(c, v)
  PROVE  /\ pc[c] = "open" => IF v = 0 THEN Ended(c, Failed) ELSE Notes(c, "openLen", v)
         /\ pc[c] = "openLen" =>
              IF v = -1 THEN Ended(c, Failed)
              ELSE Moved(c, "return", me[c],
                         [ino |-> me[c].ino, length |-> v, path |-> job[c].path])
         /\ pc[c] = "extend" =>
              Moved(c, "writePut", me[c], [handle[c] EXCEPT !.length = job[c].off + 1])
         /\ pc[c] = "dirLookup" => IF v = 0 THEN Ended(c, Failed) ELSE Notes(c, "dirLen", v)
         /\ pc[c] = "dirLen" => IF v = -1 THEN Ended(c, Failed) ELSE NotesAt(c, "dirGet", v)
         /\ pc[c] = "dirGet" => Scanned(c, v, {})
         /\ pc[c] = "scan" => Scanned(c, SubSeq(me[c].buf, Step(me[c].buf) + 1, Len(me[c].buf)),
                                      Shows(c, v))
  <1> USE DEF Parts, Make, Enter, AppendEntry, Find, Truncate, Link, Open, ReadWrite, Getdir, Mount
  <1>1. pc[c] = "open" => IF v = 0 THEN Ends(c, Failed) ELSE Goto(c, "openLen") /\ Hold(c, v)
    OBVIOUS
  <1>2. pc[c] = "openLen" => IF v = -1 THEN Ends(c, Failed) ELSE OpenHandle(c, v)
    OBVIOUS
  <1>3. pc[c] = "extend" => /\ handle' = [handle EXCEPT ![c].length = job[c].off + 1]
                            /\ Goto(c, "writePut") /\ UNCHANGED me
    OBVIOUS
  <1>4. pc[c] = "dirLookup" => IF v = 0 THEN Ends(c, Failed) ELSE Goto(c, "dirLen") /\ Hold(c, v)
    OBVIOUS
  <1>5. pc[c] = "dirLen" => IF v = -1 THEN Ends(c, Failed)
                            ELSE Goto(c, "dirGet") /\ me' = [me EXCEPT ![c].at = v] /\ UNCHANGED handle
    OBVIOUS
  <1>6. pc[c] = "dirGet" => Scan(c, v, {})
    OBVIOUS
  <1>7. pc[c] = "scan" => Scan(c, SubSeq(me[c].buf, Step(me[c].buf) + 1, Len(me[c].buf)), Shows(c, v))
    BY DEF Step
  <1> HIDE DEF Parts, Make, Enter, AppendEntry, Find, Truncate, Link, Open, ReadWrite, Getdir, Mount
  <1>8. ASSUME NEW buf, NEW out, Scan(c, buf, out) PROVE Scanned(c, buf, out)
    <2>1. me' = [me EXCEPT ![c] = Begins(buf, out, me[c])]
      BY <1>8 DEF Scan, Begins, Types, ClientTypes
    <2> QED BY <1>8, <2>1, Steps DEF Scan, Scanned
  <1>9. OpenHandle(c, v) => Moved(c, "return", me[c],
                                  [ino |-> me[c].ino, length |-> v, path |-> job[c].path])
    BY Steps DEF OpenHandle
  <1> QED BY <1>1, <1>2, <1>3, <1>4, <1>5, <1>6, <1>7, <1>8, <1>9, Steps DEF NotesAt

-------------------------------------------------------------------------------
(* The call of the inode store at each label.                                  *)
LookedUp(c) ==
  CASE pc[c] = "other"     -> OtherKind(OwnKey(c))
    [] pc[c] = "mine"      -> OwnKey(c)
    [] pc[c] = "parent"    -> DirKey(Parent[job[c].path])
    [] pc[c] = "first"     -> FirstKey(c)
    [] pc[c] = "second"    -> NextKey(c)
    [] pc[c] = "linkTo"    -> <<"file", job[c].to>>
    [] pc[c] = "dirLookup" -> DirKey(job[c].path)
    [] OTHER               -> <<"file", job[c].path>>
LookupLabels == {"other", "mine", "parent", "first", "second", "trunc", "linkFrom", "linkTo", "open",
                 "dirLookup"}
LenLabels    == {"otherLen", "mineLen", "appendLen", "firstLen", "lastLen", "openLen", "dirLen"}
ReadLabels   == LookupLabels \cup LenLabels \cup {"scan", "readGet", "dirGet"}
SetLabels    == {"revive", "appendSet", "remove", "cut", "extend"}

SetIno(c) == IF pc[c] = "extend" THEN handle[c].ino ELSE me[c].ino
SetTo(c)  == CASE pc[c] = "revive"    -> 0
               [] pc[c] = "appendSet" -> me[c].at + Entry
               [] pc[c] = "remove"    -> -1
               [] pc[c] = "cut"       -> job[c].size
               [] pc[c] = "extend"    -> job[c].off + 1

LEMMA Ops ==
  ASSUME NEW c
  PROVE  /\ pc[c] \in LookupLabels => OpOf(c) = Lookup(LookedUp(c))
         /\ pc[c] \in LenLabels => OpOf(c) = GetLen(me[c].ino)
         /\ pc[c] = "scan" => OpOf(c) = GetLen(HeadInode(me[c].buf))
         /\ pc[c] = "readGet" => OpOf(c) = Fetch(handle[c].ino, job[c].off, 1)
         /\ pc[c] = "dirGet" => OpOf(c) = Fetch(me[c].ino, 0, me[c].at)
         /\ pc[c] \in SetLabels => OpOf(c) = SetLen(SetIno(c), SetTo(c))
         /\ pc[c] = "create" => OpOf(c) = Create(OwnKey(c))
         /\ pc[c] = "mountRoot" => OpOf(c) = Create(DirKey(Root))
         /\ pc[c] = "appendPut" =>
              OpOf(c) = Put(me[c].ino, me[c].at, <<Header(me[c].own), NameOf(job[c].path)>>)
         /\ pc[c] = "writePut" => OpOf(c) = Put(handle[c].ino, job[c].off, <<Content(job[c].val)>>)
  <1>1. pc[c] \in LookupLabels => OpOf(c) = Lookup(LookedUp(c))
    BY DEF OpOf, LookupLabels, LookedUp
  <1>2. pc[c] \in LenLabels => OpOf(c) = GetLen(me[c].ino)
    BY DEF OpOf, LenLabels
  <1>3. pc[c] \in SetLabels => OpOf(c) = SetLen(SetIno(c), SetTo(c))
    BY DEF OpOf, SetLabels, SetIno, SetTo
  <1> QED BY <1>1, <1>2, <1>3 DEF OpOf

Got(i, o, n) == [x \in 1 .. n |-> IF Within(i, o, n) THEN data[i][o + x - 1] ELSE Blank]

(* What each call answers.                                                     *)
LEMMA Values ==
  ASSUME NEW c
  PROVE  /\ pc[c] \in LookupLabels =>
              Value(OpOf(c)) = IF LookedUp(c) = NoKey THEN 0 ELSE names[LookedUp(c)]
         /\ pc[c] \in LenLabels /\ me[c].ino # 0 => Value(OpOf(c)) = len[me[c].ino]
         /\ pc[c] = "scan" => Value(OpOf(c)) = IF HeadInode(me[c].buf) = 0 THEN inodes
                                               ELSE len[HeadInode(me[c].buf)]
         /\ pc[c] \in {"create", "mountRoot"} => Value(OpOf(c)) = inodes + 1
         /\ pc[c] = "dirGet" => Value(OpOf(c)) = Got(me[c].ino, 0, me[c].at)
  <1>1. \A k : Value(Lookup(k)) = IF k = NoKey THEN 0 ELSE names[k]
    BY DEF Value, Lookup
  <1>2. \A i : Value(GetLen(i)) = IF i = 0 THEN inodes ELSE len[i]
    BY DEF Value, GetLen
  <1>3. \A k : Value(Create(k)) = inodes + 1
    BY DEF Value, Create
  <1>4. \A i, o, n : Value(Fetch(i, o, n)) = Got(i, o, n)
    BY DEF Value, Fetch, Got
  <1>5. pc[c] \in LookupLabels => Value(OpOf(c)) = IF LookedUp(c) = NoKey THEN 0 ELSE names[LookedUp(c)]
    BY <1>1, Ops
  <1>6. pc[c] \in LenLabels /\ me[c].ino # 0 => Value(OpOf(c)) = len[me[c].ino]
    BY <1>2, Ops
  <1>7. pc[c] = "scan" => Value(OpOf(c)) = IF HeadInode(me[c].buf) = 0 THEN inodes
                                           ELSE len[HeadInode(me[c].buf)]
    BY <1>2, Ops
  <1>8. pc[c] \in {"create", "mountRoot"} => Value(OpOf(c)) = inodes + 1
    BY <1>3, Ops
  <1>9. pc[c] = "dirGet" => Value(OpOf(c)) = Got(me[c].ino, 0, me[c].at)
    BY <1>4, Ops
  <1> QED BY <1>5, <1>6, <1>7, <1>8, <1>9

(* What each call changes.                                                     *)
Sized(i, n)    == len' = [len EXCEPT ![i] = n] /\ UNCHANGED <<names, inodes, data, key, home>>
Created(k)     == /\ names' = [names EXCEPT ![k] = inodes + 1] /\ inodes' = inodes + 1
                  /\ key' = [key EXCEPT ![inodes + 1] = k] /\ UNCHANGED <<len, data>>
Written(i, o, us) ==
  /\ UNCHANGED <<names, inodes, len, key, home>>
  /\ IF Within(i, o, Len(us))
     THEN data' = [data EXCEPT ![i] = [x \in DOMAIN @ |-> IF x \in o .. o + Len(us) - 1
                                                          THEN us[x - o + 1] ELSE @[x]]]
     ELSE UNCHANGED data

LEMMA Effects ==
  ASSUME NEW c, Operate(c)
  PROVE  /\ pc[c] \in ReadLabels => UNCHANGED files
         /\ pc[c] \in SetLabels => Sized(SetIno(c), SetTo(c))
         /\ pc[c] = "create" => Created(OwnKey(c)) /\ home' = [home EXCEPT ![inodes + 1] = me[c].ino]
         /\ pc[c] = "mountRoot" => Created(DirKey(Root)) /\ UNCHANGED home
         /\ pc[c] = "appendPut" => Written(me[c].ino, me[c].at, <<Header(me[c].own), NameOf(job[c].path)>>)
         /\ pc[c] = "writePut" => Written(handle[c].ino, job[c].off, <<Content(job[c].val)>>)
  <1>1. Apply(OpOf(c)) /\ home' = IF pc[c] = "create" THEN [home EXCEPT ![Value(OpOf(c))] = me[c].ino]
                                  ELSE home
    BY DEF Operate
  <1>2. \A k : Apply(Lookup(k)) => UNCHANGED <<names, len, data, inodes, key>>
    BY DEF Apply, Lookup
  <1>3. \A i : Apply(GetLen(i)) => UNCHANGED <<names, len, data, inodes, key>>
    BY DEF Apply, GetLen
  <1>4. \A i, o, n : Apply(Fetch(i, o, n)) => UNCHANGED <<names, len, data, inodes, key>>
    BY DEF Apply, Fetch
  <1>5. \A i, n : Apply(SetLen(i, n)) => /\ len' = [len EXCEPT ![i] = n]
                                         /\ UNCHANGED <<names, inodes, data, key>>
    BY DEF Apply, SetLen
  <1>6. \A k : Apply(Create(k)) => Created(k)
    BY DEF Apply, Create, Created
  <1>7. \A i, o, us : Apply(Put(i, o, us)) /\ UNCHANGED home => Written(i, o, us)
    <2> SUFFICES ASSUME NEW i, NEW o, NEW us, Apply(Put(i, o, us)), UNCHANGED home
                 PROVE  Written(i, o, us)
      OBVIOUS
    <2>1. PICK op : op = Put(i, o, us)
      OBVIOUS
    <2>2. op.op = "put" /\ op.ino = i /\ op.off = o /\ op.units = us /\ Apply(op)
      BY <2>1 DEF Put
    <2> QED BY <2>2 DEF Apply, Written
  <1>8. Value(OpOf(c)) = inodes + 1 \/ pc[c] # "create"
    BY Values
  <1>9. pc[c] \in ReadLabels => UNCHANGED files
    BY <1>1, <1>2, <1>3, <1>4, Ops DEF ReadLabels, LookupLabels, LenLabels, files
  <1>10. pc[c] \in SetLabels => Sized(SetIno(c), SetTo(c))
    <2> SUFFICES ASSUME pc[c] \in SetLabels PROVE Sized(SetIno(c), SetTo(c))
      OBVIOUS
    <2>1. Apply(SetLen(SetIno(c), SetTo(c)))
      BY <1>1, Ops
    <2>2. pc[c] # "create"
      BY DEF SetLabels
    <2> QED BY <1>1, <1>5, <2>1, <2>2 DEF Sized
  <1> QED BY <1>1, <1>6, <1>7, <1>8, <1>9, <1>10, Ops

-------------------------------------------------------------------------------
(* What the history notes of an operation.                                     *)
Base == Types /\ Flow /\ Known

(* At a label the call is of the kind that has the label.                      *)
LEMMA Kinds ==
  ASSUME Types, Flow, NEW c \in Client, pc[c] \notin {"ready"}
  PROVE  /\ job[c] \in Jobs /\ jobs[c] \in 1 .. MaxJobs
         /\ pc[c] \in MakeLabels => job[c].kind \in {"mkdir", "mknod"}
         /\ pc[c] \in {"first", "firstLen", "second", "lastLen"} =>
              job[c].kind \in {"getattr", "unlink", "rmdir"}
         /\ pc[c] = "remove" => job[c].kind \in {"unlink", "rmdir"}
         /\ pc[c] \in {"trunc", "cut"} => job[c].kind = "truncate"
         /\ pc[c] \in {"linkFrom", "linkTo"} => job[c].kind = "rename"
         /\ pc[c] \in {"open", "openLen"} => job[c].kind = "open"
         /\ pc[c] \in {"extend", "writePut"} => job[c].kind = "write"
         /\ pc[c] = "readGet" => job[c].kind = "read"
         /\ pc[c] \in {"dirLookup", "dirLen", "dirGet", "scan"} <=>
              job[c].kind = "getdir" /\ pc[c] # "return"
         /\ pc[c] = "mountRoot" <=> job[c].kind = "mount" /\ pc[c] # "return"
         /\ pc[c] = "queued" => job[c].kind \in OneRequest /\ c \in Active
         /\ pc[c] \in {"queued", "return", "mountRoot"} \cup ReadLabels \cup SetLabels
                      \cup {"create", "appendPut", "writePut"}
  <1>1. job[c] \in Jobs /\ jobs[c] >= 1 /\ jobs[c] \in 0 .. MaxJobs
    BY Here DEF Flow, FlowAt
  <1>2. job[c].kind \in {"mkdir", "mknod", "getattr", "unlink", "rmdir", "open", "getdir", "mount",
                         "truncate", "rename", "read", "write"}
    BY <1>1, JobTypes
  <1>3. \/ pc[c] = "return"
        \/ pc[c] = "queued" /\ job[c].kind \in OneRequest /\ c \in Active
        \/ pc[c] \in LabelsOf(job[c].kind)
    BY DEF Flow, FlowAt
  <1>4. jobs[c] \in 1 .. MaxJobs
    BY <1>1, Sizes
  <1> QED BY <1>1, <1>2, <1>3, <1>4 DEF LabelsOf, MakeLabels, Entries0, Appending, OneRequest,
                                ReadLabels, LookupLabels, LenLabels, SetLabels

(* An inode that is set to a length exists, and only remove makes it -1.       *)
LEMMA SetsOf ==
  ASSUME Base, NEW c \in Client, pc[c] \in SetLabels
  PROVE  /\ SetIno(c) \in Inode /\ SetIno(c) # 0 /\ SetIno(c) <= inodes /\ SetTo(c) \in Int
         /\ pc[c] # "remove" => SetTo(c) >= 0
         /\ pc[c] = "remove" => SetTo(c) = -1
         /\ pc[c] \in {"cut", "extend"} => key[SetIno(c)][1] = "file"
         /\ pc[c] \in {"cut", "extend"} => key[SetIno(c)] = <<"file", job[c].path>>
         /\ pc[c] = "appendSet" => key[SetIno(c)] = DirKey(Parent[job[c].path])
         /\ pc[c] = "revive" => key[SetIno(c)] = OwnKey(c)
  <1>1. job[c] \in Jobs
    BY Kinds DEF Base, SetLabels
  <1>2. InodeAt(c) /\ HandleAt(c)
    BY DEF Base, Known
  <1>3. /\ me[c].ino \in Inode \cup {0} /\ handle[c].ino \in Inode \cup {0} /\ me[c].at \in Offsets
        /\ inodes \in Inode
    BY Here DEF Base, Types, FileTypes
  <1>4. CASE pc[c] = "revive"
    BY <1>2, <1>3, <1>4, Sizes DEF InodeAt, Is, SetIno, SetTo
  <1>5. CASE pc[c] = "appendSet"
    <2>1. Is(me[c].ino, DirKey(Parent[job[c].path])) /\ SetIno(c) = me[c].ino
      BY <1>2, <1>5 DEF InodeAt, SetIno, Appending
    <2>2. SetTo(c) = me[c].at + 2
      BY <1>5 DEF SetTo, Entry
    <2>3. me[c].at \in Int /\ me[c].at >= -1
      BY <1>3, InOffsets
    <2>4. SetTo(c) \in Int /\ SetTo(c) >= 0
      BY <2>2, <2>3
    <2>5. SetIno(c) \in Inode /\ SetIno(c) # 0 /\ SetIno(c) <= inodes
      <3>1. inodes \in Nat
        BY <1>3, Sizes
      <3>2. SetIno(c) <= inodes /\ SetIno(c) # 0
        BY <2>1, <3>1 DEF Is
      <3> QED BY <1>3, <2>1, <3>2
    <2>6. key[SetIno(c)] = DirKey(Parent[job[c].path])
      BY <2>1 DEF Is
    <2> QED BY <1>5, <2>4, <2>5, <2>6
  <1>6. CASE pc[c] = "remove"
    BY <1>2, <1>3, <1>6, Sizes DEF InodeAt, Is, SetIno, SetTo
  <1>7. CASE pc[c] = "cut"
    <2>1. job[c].size \in 0 .. MaxUnits
      BY <1>1, <1>7, JobTypes, Kinds DEF Base
    <2> QED BY <1>2, <1>3, <1>7, <2>1, Sizes DEF InodeAt, Is, SetIno, SetTo
  <1>8. CASE pc[c] = "extend"
    <2>1. job[c].off \in 0 .. MaxUnits - 1
      BY <1>1, <1>8, JobTypes, Kinds DEF Base
    <2>2. Is(handle[c].ino, <<"file", job[c].path>>)
      BY <1>2, <1>8 DEF HandleAt
    <2>3. SetIno(c) = handle[c].ino /\ SetTo(c) = job[c].off + 1
      BY <1>8 DEF SetIno, SetTo
    <2>4. SetIno(c) \in 1 .. inodes /\ key[SetIno(c)] = <<"file", job[c].path>>
      BY <2>2, <2>3 DEF Is
    <2>5. SetTo(c) \in Int /\ SetTo(c) >= 0
      <3>1. MaxUnits \in Nat
        BY Sizes
      <3> QED BY <2>1, <2>3, <3>1
    <2>6. SetIno(c) \in Inode /\ SetIno(c) # 0 /\ SetIno(c) <= inodes
      <3>1. inodes \in Nat
        BY <1>3, Sizes
      <3>2. SetIno(c) <= inodes /\ SetIno(c) # 0
        BY <2>4, <3>1
      <3> QED BY <1>3, <2>3, <3>2
    <2>7. key[SetIno(c)][1] = "file"
      BY <2>4
    <2> QED BY <1>8, <2>4, <2>5, <2>6, <2>7
  <1> QED BY <1>4, <1>5, <1>6, <1>7, <1>8 DEF SetLabels

LEMMA Noted ==
  ASSUME Base, NEW c \in Client, Operate(c)
  PROVE  /\ was'.removed = was.removed \cup (IF pc[c] = "remove" THEN {me[c].ino} ELSE {})
         /\ was'.overlapped = was.overlapped \cup
              (IF pc[c] = "appendSet" /\ len[me[c].ino] # me[c].at THEN {me[c].ino} ELSE {})
         /\ was'.raced = was.raced \cup (IF Raced(c) THEN {<<"made", job[c].path>>} ELSE {})
                           \cup (IF Revived(c) THEN {<<"revived", job[c].path>>} ELSE {})
                           \cup (IF Regrown(c) THEN {<<"regrown", Parent[job[c].path]>>} ELSE {})
         /\ was'.changed = (was.changed \cup {d \in Client : pc[c] \in SetLabels
                                                             /\ handle[d].ino = SetIno(c)})
                             \ (IF pc[c] = "extend" \/ (pc[c] = "openLen" /\ Value(OpOf(c)) # -1)
                                THEN {c} ELSE {})
         /\ was'.must = [d \in Client |-> was.must[d] \cap Present(d)']
         /\ was'.may = [d \in Client |-> was.may[d] \cup Present(d)']
         /\ DOMAIN was' = {"removed", "overlapped", "raced", "changed", "must", "may"}
         /\ was' = [removed |-> was'.removed, overlapped |-> was'.overlapped, raced |-> was'.raced,
                    changed |-> was'.changed, must |-> was'.must, may |-> was'.may]
  <1> DEFINE op == OpOf(c)
             setAt == IF op.op = "setLen" THEN op.ino ELSE 0
  <1>1. Note(c, op) /\ job' = job /\ pc[c] \notin {"ready", "queued", "return"}
    BY DEF Operate
  <1>2. pc[c] \in ReadLabels \cup SetLabels \cup {"create", "appendPut", "writePut", "mountRoot"}
    BY <1>1, Kinds DEF Base
  <1>3. pc[c] \in SetLabels => op = SetLen(SetIno(c), SetTo(c))
    BY Ops
  <1>4. pc[c] \notin SetLabels => op.op # "setLen"
    BY <1>2, Ops DEF Lookup, GetLen, Fetch, Create, Put, ReadLabels
  <1>5. setAt = IF pc[c] \in SetLabels THEN SetIno(c) ELSE 0
    BY <1>3, <1>4 DEF SetLen
  <1>6. setAt # 0 <=> pc[c] \in SetLabels
    BY <1>5, SetsOf
  <1>7. (setAt # 0 /\ op.n = -1) <=> pc[c] = "remove"
    BY <1>3, <1>5, <1>6, SetsOf DEF SetLen, SetLabels
  <1>8. pc[c] \in {"remove", "appendSet"} => setAt = me[c].ino
    BY <1>5 DEF SetLabels, SetIno
  <1>9. was' = [removed |-> IF setAt # 0 /\ op.n = -1 THEN was.removed \cup {setAt} ELSE was.removed,
                overlapped |-> was.overlapped \cup
                  (IF pc[c] = "appendSet" /\ len[setAt] # me[c].at THEN {setAt} ELSE {}),
                raced |-> was.raced \cup (IF Raced(c) THEN {<<"made", job[c].path>>} ELSE {})
                           \cup (IF Revived(c) THEN {<<"revived", job[c].path>>} ELSE {})
                           \cup (IF Regrown(c) THEN {<<"regrown", Parent[job[c].path]>>} ELSE {}),
                changed |-> (was.changed \cup {d \in Client : setAt # 0 /\ handle[d].ino = setAt})
                             \ (IF pc[c] = "extend" \/ (pc[c] = "openLen" /\ Value(op) # -1)
                                THEN {c} ELSE {}),
                must |-> [d \in Client |-> was.must[d] \cap Present(d)'],
                may |-> [d \in Client |-> was.may[d] \cup Present(d)']]
    BY <1>1 DEF Note, Present, DirOf, Holds
  <1> HIDE DEF op, setAt
  <1>10. was'.removed = was.removed \cup (IF pc[c] = "remove" THEN {me[c].ino} ELSE {})
    BY <1>7, <1>8, <1>9
  <1>11. was'.overlapped = was.overlapped \cup
              (IF pc[c] = "appendSet" /\ len[me[c].ino] # me[c].at THEN {me[c].ino} ELSE {})
    BY <1>8, <1>9
  <1>12. {d \in Client : setAt # 0 /\ handle[d].ino = setAt}
           = {d \in Client : pc[c] \in SetLabels /\ handle[d].ino = SetIno(c)}
    BY <1>5, <1>6
  <1> QED BY <1>9, <1>10, <1>11, <1>12 DEF op

-------------------------------------------------------------------------------
(* The steps: those that are between a client and itself or the server, and    *)
(* those that call the inode store.                                            *)
Quiet(c) == Call(c) \/ Run(c) \/ Return(c)
Starts   == {"queued", "other", "first", "trunc", "linkFrom", "open", "extend", "writePut",
             "readGet", "return", "dirLookup", "mountRoot"}

(* A label at which a call starts is one of its kind.                          *)
LEMMA FirstIs ==
  ASSUME NEW c, NEW j \in Jobs
  PROVE  /\ FirstLabel(c, j) \in Starts \ {"queued"}
         /\ FirstLabel(c, j) = "return" \/ FirstLabel(c, j) \in LabelsOf(j.kind)
         /\ FirstLabel(c, j) = "return" => j.kind = "read"
         /\ FirstLabel(c, j) \in {"extend", "writePut", "readGet"} => j.kind \in {"read", "write"}
         /\ j.kind = "getdir" <=> FirstLabel(c, j) = "dirLookup"
         /\ j.kind \in OneRequest => FirstLabel(c, j) \in {"other", "first", "trunc", "linkFrom"}
         /\ FirstLabel(c, j) = "writePut" => ~(j.off + 1 > handle[c].length)
  <1>1. j.kind \in {"mkdir", "mknod", "getattr", "unlink", "rmdir", "open", "getdir", "mount",
                    "truncate", "rename", "read", "write"}
    BY JobTypes
  <1> QED BY <1>1 DEF FirstLabel, WriteLabel, Starts, LabelsOf, MakeLabels, Entries0, OneRequest

LEMMA QuietIs ==
  ASSUME Types, Flow, NEW c \in Client, Quiet(c)
  PROVE  /\ UNCHANGED files /\ UNCHANGED handle
         /\ \A d \in Client : d # c => /\ pc'[d] = pc[d] /\ me'[d] = me[d] /\ job'[d] = job[d]
                                       /\ jobs'[d] = jobs[d]
                                       /\ was'.must[d] = was.must[d] /\ was'.may[d] = was.may[d]
         /\ was'.removed = was.removed /\ was'.overlapped = was.overlapped
         /\ was'.raced = was.raced /\ was'.changed = was.changed
         /\ pc'[c] \in Starts \cup {"ready"}
         /\ pc'[c] = "ready" => job'[c] = NoJob /\ me'[c] = NoLocals
         /\ pc'[c] # "ready" => job'[c] \in Jobs /\ me'[c] = me[c]
         /\ pc'[c] \in {"extend", "writePut", "readGet"} =>
              handle[c].ino # 0 /\ handle[c].path = job'[c].path
         /\ pc'[c] = "writePut" => ~(job'[c].off + 1 > handle[c].length)
         /\ pc'[c] = "return" => job'[c].kind = "read"
         /\ job'[c].kind = "getdir" => /\ pc'[c] = "dirLookup"
                                       /\ was'.must[c] = was'.may[c]
                                       /\ LET i == names[DirKey(job'[c].path)]
                                          IN was'.must[c] = IF i = 0 THEN {} ELSE Shown(i)
         /\ FlowAt(c)'
         /\ (pc[c] = "ready" /\ jobs'[c] = jobs[c] + 1 /\ jobs[c] < MaxJobs)
            \/ (pc[c] \in {"queued", "return"} /\ jobs'[c] = jobs[c])
         /\ Types'
  <1> USE DEF Types, ClientTypes
  <1>1. CASE Run(c)
    <2>1. job[c] \in Jobs /\ job[c].kind \in OneRequest /\ c \in Active /\ jobs[c] >= 1
      BY <1>1, Kinds, Sizes DEF Run
    <2>2. pc'[c] = FirstLabel(c, job[c]) /\ UNCHANGED <<files, job, me, handle, jobs, was>>
      BY <1>1 DEF Run
    <2>3. pc'[c] \in {"other", "first", "trunc", "linkFrom"} /\ job[c].kind # "getdir"
      BY <2>1, <2>2, FirstIs DEF OneRequest
    <2>4. FlowAt(c)'
      BY <2>1, <2>2, <2>3, FirstIs DEF FlowAt
    <2>5. Types'
      BY <1>1, <2>1, <2>2, <2>3 DEF FileTypes, files, Run, Labels
    <2> QED BY <1>1, <2>1, <2>2, <2>3, <2>4, <2>5 DEF Run, Starts
  <1>2. CASE Return(c)
    <2>1. pc'[c] = "ready" /\ job'[c] = NoJob /\ me'[c] = NoLocals /\ UNCHANGED <<files, handle, jobs, was>>
      BY <1>2 DEF Return
    <2>2. NoLocals \in Locals
      BY Sizes DEF NoLocals, Locals, Failed, Offsets
    <2>3. Types'
      BY <1>2, <2>1, <2>2 DEF FileTypes, files, Return, Labels
    <2> QED BY <1>2, <2>1, <2>3 DEF Return, FlowAt, NoJob
  <1>3. CASE Call(c)
    <2>1. PICK j \in Jobs :
            /\ Callable(c, j)
            /\ job' = [job EXCEPT ![c] = j]
            /\ pc' = [pc EXCEPT ![c] = IF c \in Active /\ j.kind \in OneRequest THEN "queued"
                                       ELSE FirstLabel(c, j)]
            /\ was' = IF j.kind = "getdir"
                      THEN LET i == names[<<"dir", j.path>>]
                               s == IF i = 0 THEN {} ELSE Shown(i)
                           IN [was EXCEPT !.must[c] = s, !.may[c] = s]
                      ELSE was
      BY <1>3 DEF Call
    <2>2. pc[c] = "ready" /\ jobs[c] < MaxJobs /\ jobs' = [jobs EXCEPT ![c] = @ + 1]
          /\ UNCHANGED <<files, holder, me, handle>>
      BY <1>3 DEF Call
    <2>3. pc'[c] = "queued" \/ pc'[c] = FirstLabel(c, j)
      BY <2>1
    <2>4. pc'[c] \in Starts /\ FirstLabel(c, j) \in Labels
      BY <2>3, FirstIs DEF Starts, Labels
    <2>5. jobs[c] \in 0 .. MaxJobs /\ jobs'[c] = jobs[c] + 1
      BY <2>2
    <2>6. FlowAt(c)'
      <3>1. job'[c] \in Jobs /\ jobs'[c] >= 1 /\ pc'[c] # "ready"
        BY <2>1, <2>4, <2>5, Sizes DEF Starts
      <3> QED BY <2>1, <2>3, <3>1, FirstIs DEF FlowAt
    <2> DEFINE i == names[DirKey(j.path)]
               s == IF i = 0 THEN {} ELSE Shown(i)
    <2>7. j.kind = "getdir" => was' = [was EXCEPT !.must[c] = s, !.may[c] = s]
      BY <2>1 DEF DirKey
    <2>8. j.kind # "getdir" => was' = was
      BY <2>1
    <2>9. s \in SUBSET Inode
      <3>1. ASSUME i # 0 PROVE Shown(i) \subseteq Inode
        <4>1. i \in Inode
          BY <3>1, JobTypes DEF FileTypes, Key, DirKey
        <4>2. ASSUME NEW o \in 0 .. len[i] - 1, data[i][o][1] = "inode" PROVE data[i][o][2] \in Inode
          <5>1. len[i] \in Offsets
            BY <4>1 DEF FileTypes
          <5>2. o \in Offsets
            BY <5>1, InOffsets
          <5>3. data[i][o] \in Units
            BY <4>1, <5>2 DEF FileTypes
          <5> QED BY <4>2, <5>3, UnitKinds
        <4> QED BY <4>2 DEF Shown, Listed, Entries
      <3> QED BY <3>1
    <2> HIDE DEF s, i
    <2>10. /\ was' \in History
           /\ was'.removed = was.removed /\ was'.overlapped = was.overlapped
           /\ was'.raced = was.raced /\ was'.changed = was.changed
           /\ \A d \in Client : d # c => was'.must[d] = was.must[d] /\ was'.may[d] = was.may[d]
           /\ j.kind = "getdir" => was'.must[c] = s /\ was'.may[c] = s
      <3>1. CASE j.kind = "getdir"
        <4>1. was'.must = [was.must EXCEPT ![c] = s] /\ was'.may = [was.may EXCEPT ![c] = s]
          BY <2>7, <3>1 DEF History
        <4>2. was'.must \in [Client -> SUBSET Inode] /\ was'.may \in [Client -> SUBSET Inode]
          BY <2>9, <4>1 DEF History
        <4>3. /\ was'.removed = was.removed /\ was'.overlapped = was.overlapped
              /\ was'.raced = was.raced /\ was'.changed = was.changed
          BY <2>7, <3>1 DEF History
        <4>4. was' = [removed |-> was.removed, overlapped |-> was.overlapped, raced |-> was.raced,
                      changed |-> was.changed, must |-> was'.must, may |-> was'.may]
          BY <2>7, <3>1, <4>1 DEF History
        <4>5. was' \in History
          BY <4>2, <4>4 DEF History
        <4>6. was.must \in [Client -> SUBSET Inode] /\ was.may \in [Client -> SUBSET Inode]
          BY DEF History
        <4> QED BY <4>1, <4>3, <4>5, <4>6
      <3>2. CASE j.kind # "getdir"
        BY <2>8, <3>2
      <3> QED BY <3>1, <3>2
    <2>11. Types'
      <3>1. FileTypes'
        BY <2>2 DEF FileTypes, files
      <3>2. jobs' \in [Client -> 0 .. MaxJobs]
        BY <2>2, <2>5, Sizes
      <3>3. pc' \in [Client -> Labels] /\ job' \in [Client -> Jobs \cup {NoJob}]
        BY <2>1, <2>4 DEF Labels
      <3> QED BY <2>2, <2>10, <3>1, <3>2, <3>3
    <2>12. job'[c] = j /\ me'[c] = me[c]
      BY <2>1, <2>2
    <2>13. \A d \in Client : d # c => /\ pc'[d] = pc[d] /\ me'[d] = me[d] /\ job'[d] = job[d]
                                       /\ jobs'[d] = jobs[d]
      BY <2>1, <2>2
    <2>14. pc'[c] \in {"extend", "writePut", "readGet"} =>
              handle[c].ino # 0 /\ handle[c].path = j.path
      BY <2>1, <2>3, FirstIs DEF Callable
    <2>15. /\ pc'[c] = "writePut" => ~(j.off + 1 > handle[c].length)
           /\ pc'[c] = "return" => j.kind = "read"
      BY <2>3, FirstIs
    <2>16. j.kind = "getdir" => pc'[c] = "dirLookup"
      BY <2>1, FirstIs DEF OneRequest
    <2> QED BY <2>2, <2>4, <2>5, <2>6, <2>10, <2>11, <2>12, <2>13, <2>14, <2>15, <2>16 DEF Starts, s, i
  <1> QED BY <1>1, <1>2, <1>3 DEF Quiet

(* What is looked up is a key, and what is found was made for it.              *)
LEMMA Found ==
  ASSUME Base, NEW c \in Client, pc[c] \in LookupLabels
  PROVE  /\ LookedUp(c) \in Key \cup {NoKey}
         /\ Value(OpOf(c)) \in Inode \cup {0}
         /\ Value(OpOf(c)) # 0 => /\ LookedUp(c) \in Key /\ Value(OpOf(c)) = names[LookedUp(c)]
                                  /\ Is(Value(OpOf(c)), LookedUp(c))
  <1>1. job[c] \in Jobs /\ pc[c] \notin {"ready"}
    BY Kinds DEF Base, LookupLabels
  <1>2. job[c].path \in Path /\ Parent[job[c].path] \in Path
    BY <1>1, JobTypes, FileSystemAssumption
  <1>3. pc[c] = "linkTo" => job[c].to \in Path
    BY <1>1, JobTypes, Kinds DEF Base
  <1>4. LookedUp(c) \in Key \cup {NoKey}
    BY <1>2, <1>3 DEF LookedUp, LookupLabels, OtherKind, OwnKey, FirstKey, NextKey, DirKey, Key
  <1>5. NoKey \notin Key
    BY DEF NoKey, Key
  <1>6. Value(OpOf(c)) = IF LookedUp(c) = NoKey THEN 0 ELSE names[LookedUp(c)]
    BY Values
  <1> QED BY <1>4, <1>5, <1>6 DEF Base, Known, Types, FileTypes

(* At a getLen of the client's inode there is one.                             *)
LEMMA Measured ==
  ASSUME Base, NEW c \in Client, pc[c] \in LenLabels
  PROVE  /\ me[c].ino \in Inode /\ me[c].ino # 0 /\ me[c].ino \in 1 .. inodes
         /\ Value(OpOf(c)) = len[me[c].ino] /\ Value(OpOf(c)) \in Offsets
  <1>1. me[c].ino \in Inode \cup {0} /\ inodes \in Inode
    BY Here DEF Base, Types, FileTypes
  <1>2. me[c].ino \in 1 .. inodes
    BY DEF Base, Known, InodeAt, Is, LenLabels, Appending
  <1>3. me[c].ino # 0
    BY <1>1, <1>2, Sizes
  <1> QED BY <1>1, <1>2, <1>3, Values DEF Base, Types, FileTypes

(* Where an operation of c goes.                                               *)
GoesTo(c) ==
  CASE pc[c] = "other"     -> {"mine", "otherLen"}
    [] pc[c] = "otherLen"  -> {"mine", "return"}
    [] pc[c] = "mine"      -> {"parent", "mineLen"}
    [] pc[c] = "mineLen"   -> {"revive", "return"}
    [] pc[c] = "parent"    -> {"create", "return"}
    [] pc[c] = "create"    -> {"appendLen"}
    [] pc[c] = "appendLen" -> {"appendSet"}
    [] pc[c] = "appendSet" -> {"appendPut"}
    [] pc[c] = "first"     -> {"second", "firstLen"}
    [] pc[c] = "firstLen"  -> {"second", "lastLen"}
    [] pc[c] = "second"    -> {"lastLen", "return"}
    [] pc[c] = "lastLen"   -> IF job[c].kind = "getattr" THEN {"return"} ELSE {"remove", "return"}
    [] pc[c] = "trunc"     -> {"cut", "return"}
    [] pc[c] = "linkFrom"  -> {"linkTo", "return"}
    [] pc[c] = "open"      -> {"openLen", "return"}
    [] pc[c] = "extend"    -> {"writePut"}
    [] pc[c] = "dirLookup" -> {"dirLen", "return"}
    [] pc[c] = "dirLen"    -> {"dirGet", "return"}
    [] pc[c] = "dirGet"    -> {"scan", "return"}
    [] pc[c] = "scan"      -> {"scan", "return"}
    [] OTHER               -> {"return"}

LEMMA Operated ==
  ASSUME Types, Flow, NEW c \in Client, Operate(c)
  PROVE  /\ Parts(c, Value(OpOf(c))) /\ job' = job /\ jobs' = jobs
         /\ pc[c] \in ReadLabels \cup SetLabels \cup {"create", "appendPut", "writePut", "mountRoot"}
         /\ job[c] \in Jobs /\ jobs[c] \in 1 .. MaxJobs
         /\ pc'[c] \in GoesTo(c)
         /\ \E m, h : Moved(c, pc'[c], m, h)
         /\ \A d \in Client : d # c => pc'[d] = pc[d] /\ me'[d] = me[d] /\ handle'[d] = handle[d]
         /\ pc' \in [Client -> Labels]
         /\ holder' \in Active \cup {Nobody}
         /\ FlowAt(c)'
  <1> DEFINE v == Value(OpOf(c))
  <1>1. Parts(c, v) /\ job' = job /\ jobs' = jobs /\ pc[c] \notin {"ready", "queued", "return"}
    BY DEF Operate, Parts
  <1>2. holder' \in Active \cup {Nobody}
    BY DEF Operate, Types, ClientTypes
  <1>3. pc[c] \in ReadLabels \cup SetLabels \cup {"create", "appendPut", "writePut", "mountRoot"}
        /\ job[c] \in Jobs /\ jobs[c] \in 1 .. MaxJobs
    BY <1>1, Kinds
  <1> HIDE DEF v
  <1>4. \E l \in GoesTo(c) : \E m, h : Moved(c, l, m, h)
    <2> USE DEF MovesTo, Notes, NotesAt, Ended, Scanned
    <2>1. CASE pc[c] \in MakeLabels
      <3>1. CASE pc[c] \in {"other", "otherLen", "mine", "mineLen"}
        BY <1>1, <2>1, <3>1, MakeMoves DEF GoesTo
      <3>2. CASE pc[c] \in {"revive", "parent", "create"}
        BY <1>1, <2>1, <3>2, MakeMoves DEF GoesTo
      <3>3. CASE pc[c] \in Appending
        BY <1>1, <2>1, <3>3, MakeMoves DEF GoesTo, Appending
      <3> QED BY <2>1, <3>1, <3>2, <3>3 DEF MakeLabels, Entries0
    <2>2. CASE pc[c] \in {"first", "firstLen", "second", "lastLen"}
      BY <1>1, <2>2, FindMoves DEF GoesTo
    <2>3. CASE pc[c] \in {"remove", "cut", "writePut", "readGet", "mountRoot", "trunc", "linkFrom",
                          "linkTo"}
      BY <1>1, <2>3, FindMoves DEF GoesTo
    <2>4. CASE pc[c] \in {"open", "openLen", "extend", "dirLookup", "dirLen"}
      BY <1>1, <2>4, ContentMoves DEF GoesTo
    <2>5. CASE pc[c] \in {"dirGet", "scan"}
      BY <1>1, <2>5, ContentMoves DEF GoesTo
    <2> QED BY <1>3, <2>1, <2>2, <2>3, <2>4, <2>5
            DEF ReadLabels, LookupLabels, LenLabels, SetLabels, MakeLabels, Entries0, Appending
  <1>5. PICK l \in GoesTo(c) : \E m, h : Moved(c, l, m, h)
    BY <1>4
  <1>6. pc'[c] = l /\ pc' = [pc EXCEPT ![c] = l] /\ \E m, h : Moved(c, pc'[c], m, h)
    <2>1. PICK m, h : Moved(c, l, m, h)
      BY <1>5
    <2>2. pc' = [pc EXCEPT ![c] = l] /\ pc'[c] = l
      BY <2>1, MovedIs DEF Moved
    <2> QED BY <2>1, <2>2
  <1>7. l \in Labels
    BY <1>5 DEF GoesTo, Labels
  <1>8. pc' \in [Client -> Labels]
    BY <1>6, <1>7 DEF Types, ClientTypes
  <1>9. FlowAt(c)'
    <2>1. pc[c] \in LabelsOf(job[c].kind)
      BY <1>1 DEF Flow, FlowAt
    <2>2. job[c].kind \in {"mkdir", "mknod", "getattr", "unlink", "rmdir", "open", "getdir", "mount",
                           "truncate", "rename", "read", "write"}
      BY <1>3, JobTypes
    <2>3. l = "return" \/ l \in LabelsOf(job[c].kind)
      BY <1>5, <2>1, <2>2 DEF GoesTo, LabelsOf, MakeLabels, Entries0, Appending
    <2>4. l # "ready"
      BY <1>5 DEF GoesTo
    <2> QED BY <1>1, <1>3, <1>6, <2>3, <2>4 DEF FlowAt
  <1> QED BY <1>1, <1>2, <1>3, <1>5, <1>6, <1>8, <1>9, MovedIs DEF v

-------------------------------------------------------------------------------
(* Counting the calls.                                                         *)
LEMMA PastCounts ==
  ASSUME jobs \in [Client -> 0 .. MaxJobs], NEW labels
  PROVE  /\ IsFiniteSet(Past(labels)) /\ Cardinality(Past(labels)) \in Nat
         /\ Cardinality(Past(labels)) <= MaxJobs * Cardinality(Client)
         /\ \A c \in Client : pc[c] \in labels /\ jobs[c] \in 1 .. MaxJobs =>
              Cardinality(Past(labels)) + 1 <= MaxJobs * Cardinality(Client)
  <1> DEFINE All == Client \X (1 .. MaxJobs)
  <1>1. IsFiniteSet(1 .. MaxJobs) /\ Cardinality(1 .. MaxJobs) = MaxJobs
    <2>1. 1 \in Int /\ MaxJobs \in Int
      BY Sizes
    <2> QED BY <2>1, FS_Interval, Sizes
  <1>2. IsFiniteSet(All) /\ Cardinality(All) = Cardinality(Client) * MaxJobs
    BY <1>1, FS_Product, Sizes
  <1>3. Cardinality(All) = MaxJobs * Cardinality(Client) /\ Cardinality(All) \in Nat
    <2>1. \A a, b \in Nat : a * b = b * a
      OBVIOUS
    <2> QED BY <1>2, <2>1, FS_CardinalityType, Sizes
  <1>4. Past(labels) \in SUBSET All
    BY DEF Past
  <1>5. IsFiniteSet(Past(labels)) /\ Cardinality(Past(labels)) <= Cardinality(All)
    BY <1>2, <1>4, FS_Subset
  <1>6. Cardinality(Past(labels)) \in Nat
    BY <1>5, FS_CardinalityType
  <1>7. ASSUME NEW c \in Client, pc[c] \in labels, jobs[c] \in 1 .. MaxJobs
        PROVE  Cardinality(Past(labels)) + 1 <= Cardinality(All)
    <2>1. <<c, jobs[c]>> \in All /\ <<c, jobs[c]>> \notin Past(labels)
      BY <1>7 DEF Past
    <2>2. Cardinality(Past(labels) \cup {<<c, jobs[c]>>}) = Cardinality(Past(labels)) + 1
      BY <1>5, <2>1, FS_AddElement
    <2>3. Past(labels) \cup {<<c, jobs[c]>>} \in SUBSET All
      BY <1>4, <2>1
    <2>4. Cardinality(Past(labels) \cup {<<c, jobs[c]>>}) <= Cardinality(All)
      BY <1>2, <2>3, FS_Subset
    <2> QED BY <2>2, <2>4
  <1> QED BY <1>3, <1>5, <1>6, <1>7

(* What is past stays past, and a call that leaves the labels becomes so.      *)
LEMMA PastGrows ==
  ASSUME jobs \in [Client -> 0 .. MaxJobs], jobs' \in [Client -> 0 .. MaxJobs],
         NEW labels, NEW c \in Client,
         \A d \in Client : d # c => pc'[d] = pc[d] /\ jobs'[d] = jobs[d],
         \/ jobs'[c] = jobs[c] + 1
         \/ jobs'[c] = jobs[c] /\ (pc[c] \in labels \/ pc'[c] \notin labels)
  PROVE  /\ Cardinality(Past(labels)) <= Cardinality(Past(labels)')
         /\ Cardinality(Past(labels)) \in Nat /\ Cardinality(Past(labels)') \in Nat
         /\ (pc[c] \in labels /\ pc'[c] \notin labels /\ jobs'[c] = jobs[c] /\ jobs[c] >= 1) =>
              Cardinality(Past(labels)) + 1 <= Cardinality(Past(labels)')
  <1>1. Past(labels) \subseteq Past(labels)'
    <2> SUFFICES ASSUME NEW x \in Client \X (1 .. MaxJobs),
                        x[2] < jobs[x[1]] \/ (x[2] = jobs[x[1]] /\ pc[x[1]] \notin labels)
                 PROVE  x[2] < jobs'[x[1]] \/ (x[2] = jobs'[x[1]] /\ pc'[x[1]] \notin labels)
      BY DEF Past
    <2>1. x[1] \in Client /\ x[2] \in 1 .. MaxJobs /\ jobs[x[1]] \in 0 .. MaxJobs
      OBVIOUS
    <2>2. CASE x[1] # c
      BY <2>1, <2>2
    <2>3. CASE x[1] = c
      <3>1. x[2] \in Int /\ jobs[c] \in Int
        BY <2>1, <2>3, Sizes
      <3> QED BY <2>3, <3>1
    <2> QED BY <2>2, <2>3
  <1>2. /\ IsFiniteSet(Past(labels)) /\ IsFiniteSet(Past(labels)')
        /\ Cardinality(Past(labels)) \in Nat /\ Cardinality(Past(labels)') \in Nat
    <2>1. IsFiniteSet(Past(labels)) /\ Cardinality(Past(labels)) \in Nat
      BY PastCounts
    <2>2. Past(labels)' \in SUBSET (Client \X (1 .. MaxJobs))
      BY DEF Past
    <2>3. IsFiniteSet(1 .. MaxJobs)
      <3>1. 1 \in Int /\ MaxJobs \in Int
        BY Sizes
      <3> QED BY <3>1, FS_Interval
    <2>4. IsFiniteSet(Client \X (1 .. MaxJobs))
      BY <2>3, FS_Product, Sizes
    <2>5. IsFiniteSet(Past(labels)')
      BY <2>2, <2>4, FS_Subset
    <2>6. Cardinality(Past(labels)') \in Nat
      BY <2>5, FS_CardinalityType
    <2> QED BY <2>1, <2>5, <2>6
  <1>3. Cardinality(Past(labels)) <= Cardinality(Past(labels)')
    BY <1>1, <1>2, FS_Subset
  <1>4. ASSUME pc[c] \in labels, pc'[c] \notin labels, jobs'[c] = jobs[c], jobs[c] >= 1
        PROVE  Cardinality(Past(labels)) + 1 <= Cardinality(Past(labels)')
    <2>1. jobs[c] \in 1 .. MaxJobs
      BY <1>4, Sizes
    <2>2. <<c, jobs[c]>> \notin Past(labels) /\ <<c, jobs[c]>> \in Past(labels)'
      BY <1>4, <2>1 DEF Past
    <2>3. Cardinality(Past(labels) \cup {<<c, jobs[c]>>}) = Cardinality(Past(labels)) + 1
      BY <1>2, <2>2, FS_AddElement
    <2>4. Past(labels) \cup {<<c, jobs[c]>>} \in SUBSET (Past(labels)')
      BY <1>1, <2>2
    <2> QED BY <1>2, <2>3, <2>4, FS_Subset
  <1> QED BY <1>2, <1>3, <1>4

-------------------------------------------------------------------------------
(* What the calls of the inode store do, in types.                             *)
LEMMA LocalIs ==
  ASSUME Base, NEW c \in Client
  PROVE  /\ pc[c] \in {"create", "appendLen", "appendSet", "appendPut", "otherLen", "mineLen",
                       "revive", "firstLen", "lastLen", "remove", "cut", "openLen", "dirLen",
                       "dirGet", "scan"} =>
              me[c].ino \in Inode /\ me[c].ino # 0 /\ me[c].ino \in 1 .. inodes
         /\ pc[c] \in Appending => me[c].own \in Inode /\ me[c].own # 0 /\ me[c].own \in 1 .. inodes
         /\ pc[c] \in {"extend", "writePut", "readGet"} =>
              handle[c].ino \in Inode /\ handle[c].ino # 0 /\ handle[c].ino \in 1 .. inodes
  <1>1. me[c].ino \in Inode \cup {0} /\ me[c].own \in Inode \cup {0} /\ handle[c].ino \in Inode \cup {0}
    BY Here DEF Base
  <1>2. InodeAt(c) /\ HandleAt(c)
    BY DEF Base, Known
  <1>3. ASSUME pc[c] \in {"create", "appendLen", "appendSet", "appendPut", "otherLen", "mineLen",
                          "revive", "firstLen", "lastLen", "remove", "cut", "openLen", "dirLen",
                          "dirGet", "scan"}
        PROVE  me[c].ino \in 1 .. inodes
    BY <1>2, <1>3 DEF InodeAt, Is, Appending
  <1>4. pc[c] \in Appending => me[c].own \in 1 .. inodes
    BY <1>2 DEF InodeAt, Is
  <1>5. pc[c] \in {"extend", "writePut", "readGet"} => handle[c].ino \in 1 .. inodes
    BY <1>2 DEF HandleAt, Is
  <1>6. \A i \in Inode \cup {0} : i \in 1 .. inodes => i \in Inode /\ i # 0
    OBVIOUS
  <1> QED BY <1>1, <1>3, <1>4, <1>5, <1>6

LEMMA PutIs ==
  ASSUME Base, NEW c \in Client, Operate(c), pc[c] = "appendPut"
  PROVE  /\ UNCHANGED <<names, inodes, len, key, home>>
         /\ data' \in [Inode -> [Offsets -> Units]]
         /\ \A j \in Inode, x \in Offsets :
              data'[j][x] = IF j = me[c].ino /\ me[c].at + Entry <= len[j] /\ x = me[c].at
                            THEN Header(me[c].own)
                            ELSE IF j = me[c].ino /\ me[c].at + Entry <= len[j] /\ x = me[c].at + 1
                            THEN NameOf(job[c].path)
                            ELSE data[j][x]
  <1> DEFINE i == me[c].ino o == me[c].at us == <<Header(me[c].own), NameOf(job[c].path)>>
  <1>1. Written(i, o, us)
    BY Effects
  <1>2. i \in Inode /\ me[c].own \in Inode
    BY LocalIs DEF Appending
  <1>3. o \in Offsets /\ data \in [Inode -> [Offsets -> Units]] /\ len[i] \in Offsets
    BY <1>2, Here DEF Base, Types, FileTypes
  <1>4. job[c].path \in Path
    BY Kinds, JobTypes DEF Base
  <1>5. us[1] = Header(me[c].own) /\ us[2] = NameOf(job[c].path) /\ Len(us) = 2
    OBVIOUS
  <1>6. us[1] \in Units /\ us[2] \in Units
    BY <1>2, <1>4, <1>5 DEF Units, Headers, Names
  <1> HIDE DEF i, o, us
  <1>7. CASE Within(i, o, 2)
    <2>1. data' = [data EXCEPT ![i] = [x \in DOMAIN @ |-> IF x \in o .. o + Len(us) - 1
                                                          THEN us[x - o + 1] ELSE @[x]]]
      BY <1>1, <1>5, <1>7 DEF Written
    <2>2. DOMAIN data[i] = Offsets
      BY <1>2, <1>3
    <2>3. data' = [data EXCEPT ![i] = [x \in Offsets |-> IF x \in o .. o + 1
                                                         THEN us[x - o + 1] ELSE data[i][x]]]
      BY <2>1, <2>2, <1>3, <1>5
    <2>4. \A x \in Offsets : x \in o .. o + 1 => (x = o /\ x - o + 1 = 1) \/ (x = o + 1 /\ x - o + 1 = 2)
      BY <1>3, Sizes DEF Offsets
    <2>5. \A x \in Offsets : (IF x \in o .. o + 1 THEN us[x - o + 1] ELSE data[i][x])
                               = IF x = o THEN us[1] ELSE IF x = o + 1 THEN us[2] ELSE data[i][x]
      BY <1>3, <2>4, Sizes DEF Offsets
    <2>6. data' = [data EXCEPT ![i] = [x \in Offsets |-> IF x = o THEN us[1]
                                                         ELSE IF x = o + 1 THEN us[2] ELSE data[i][x]]]
      BY <2>3, <2>5
    <2>7. data' \in [Inode -> [Offsets -> Units]]
      BY <1>2, <1>3, <1>6, <2>6
    <2>8. \A j \in Inode, x \in Offsets :
            data'[j][x] = IF j = i /\ x = o THEN us[1]
                          ELSE IF j = i /\ x = o + 1 THEN us[2] ELSE data[j][x]
      BY <1>2, <1>3, <2>6
    <2>9. o + Entry <= len[i]
      BY <1>7 DEF Within, Entry
    <2>10. UNCHANGED <<names, inodes, len, key, home>>
      BY <1>1 DEF Written
    <2> QED BY <1>5, <2>7, <2>8, <2>9, <2>10 DEF i, o
  <1>8. CASE ~Within(i, o, 2)
    <2>1. UNCHANGED <<names, inodes, len, key, home, data>>
      BY <1>1, <1>5, <1>8 DEF Written
    <2>2. ~(o + Entry <= len[i])
      BY <1>8 DEF Within, Entry
    <2> QED BY <1>3, <2>1, <2>2 DEF i, o
  <1> QED BY <1>7, <1>8

LEMMA WriteIs ==
  ASSUME Base, NEW c \in Client, Operate(c), pc[c] = "writePut"
  PROVE  /\ UNCHANGED <<names, inodes, len, key, home>>
         /\ data' \in [Inode -> [Offsets -> Units]]
         /\ job[c].off \in 0 .. MaxUnits - 1
         /\ \A j \in Inode, x \in Offsets :
              data'[j][x] = IF j = handle[c].ino /\ job[c].off < len[j] /\ x = job[c].off
                            THEN Content(job[c].val) ELSE data[j][x]
  <1> DEFINE i == handle[c].ino o == job[c].off us == <<Content(job[c].val)>>
  <1>1. Written(i, o, us)
    BY Effects
  <1>2. i \in Inode
    BY LocalIs
  <1>3. o \in 0 .. MaxUnits - 1 /\ job[c].val \in Int
    BY Kinds, JobTypes DEF Base
  <1>4. o \in Offsets /\ data \in [Inode -> [Offsets -> Units]] /\ len[i] \in Offsets
    <2>1. o \in Offsets
      BY <1>3, Sizes DEF Offsets
    <2> QED BY <1>2, <2>1 DEF Base, Types, FileTypes
  <1>5. us[1] = Content(job[c].val) /\ Len(us) = 1 /\ us[1] \in Units
    BY <1>3 DEF Units
  <1> HIDE DEF i, o, us
  <1>6. Within(i, o, 1) <=> o < len[i]
    BY <1>4, Sizes DEF Within, Offsets
  <1>7. CASE Within(i, o, 1)
    <2>1. data' = [data EXCEPT ![i] = [x \in DOMAIN @ |-> IF x \in o .. o + Len(us) - 1
                                                          THEN us[x - o + 1] ELSE @[x]]]
      BY <1>1, <1>5, <1>7 DEF Written
    <2>2. DOMAIN data[i] = Offsets
      BY <1>2, <1>4
    <2>3. \A x \in Offsets : (IF x \in o .. o + Len(us) - 1 THEN us[x - o + 1] ELSE data[i][x])
                               = IF x = o THEN us[1] ELSE data[i][x]
      BY <1>4, <1>5, Sizes DEF Offsets
    <2>4. data' = [data EXCEPT ![i] = [x \in Offsets |-> IF x = o THEN us[1] ELSE data[i][x]]]
      BY <2>1, <2>2, <2>3, <1>4
    <2>5. data' \in [Inode -> [Offsets -> Units]]
      BY <1>2, <1>4, <1>5, <2>4
    <2>6. \A j \in Inode, x \in Offsets :
            data'[j][x] = IF j = i /\ x = o THEN us[1] ELSE data[j][x]
      BY <1>2, <1>4, <2>4
    <2>7. UNCHANGED <<names, inodes, len, key, home>>
      BY <1>1 DEF Written
    <2> QED BY <1>3, <1>5, <1>6, <1>7, <2>5, <2>6, <2>7 DEF i, o
  <1>8. CASE ~Within(i, o, 1)
    <2>1. UNCHANGED <<names, inodes, len, key, home, data>>
      BY <1>1, <1>5, <1>8 DEF Written
    <2> QED BY <1>3, <1>4, <1>6, <1>8, <2>1 DEF i, o
  <1> QED BY <1>7, <1>8

(* There is room for the next inode and the next entry.                        *)
LEMMA Room ==
  ASSUME Base, Counts, NEW c \in Client, pc[c] \notin {"ready"}
  PROVE  /\ pc[c] \in BeforeCreate => inodes + 1 \in Inode
         /\ pc[c] = "appendSet" => me[c].at + Entry \in 0 .. MaxUnits
  <1>1. jobs[c] \in 1 .. MaxJobs /\ jobs \in [Client -> 0 .. MaxJobs]
    BY Kinds DEF Base, Types, ClientTypes
  <1>2. inodes \in Nat /\ inodes >= 1
    BY Sizes DEF Base, Types, FileTypes
  <1>3. ASSUME pc[c] \in BeforeCreate PROVE inodes + 1 \in Inode
    <2>1. /\ Cardinality(Past(BeforeCreate)) \in Nat
          /\ Cardinality(Past(BeforeCreate)) + 1 <= MaxJobs * Cardinality(Client)
      BY <1>1, <1>3, PastCounts
    <2>2. inodes <= 1 + Cardinality(Past(BeforeCreate))
      BY DEF Counts
    <2> QED BY <1>2, <2>1, <2>2, Sizes
  <1>4. ASSUME pc[c] = "appendSet" PROVE me[c].at + Entry \in 0 .. MaxUnits
    <2>1. pc[c] \in BeforeAppend
      BY <1>4 DEF BeforeAppend
    <2>2. /\ Cardinality(Past(BeforeAppend)) \in Nat
          /\ Cardinality(Past(BeforeAppend)) + 1 <= MaxJobs * Cardinality(Client)
      BY <1>1, <2>1, PastCounts
    <2>3. me[c].at <= 2 * Cardinality(Past(BeforeAppend)) /\ me[c].at \in Offsets
      BY <1>4, Here DEF Counts, Base
    <2>4. \A m, n, k \in Nat : m + 1 <= n /\ 2 * n <= k => 2 * m + 2 <= k
      OBVIOUS
    <2>5. 2 * Cardinality(Past(BeforeAppend)) + 2 <= MaxUnits
      BY <2>2, <2>4, Sizes
    <2>6. \A m \in Nat, a \in Int : a >= -1 /\ a <= 2 * m /\ 2 * m + 2 <= MaxUnits => a + 2 \in 0 .. MaxUnits
      BY Sizes
    <2>7. me[c].at \in Int /\ me[c].at >= -1
      BY <2>3, InOffsets
    <2> QED BY <2>2, <2>3, <2>5, <2>6, <2>7 DEF Entry
  <1> QED BY <1>3, <1>4

LEMMA SetFits ==
  ASSUME Base, Counts, NEW c \in Client, pc[c] \in SetLabels
  PROVE  SetTo(c) \in Offsets
  <1>1. job[c] \in Jobs
    BY Kinds DEF Base, SetLabels
  <1>2. CASE pc[c] \in {"revive", "remove"}
    BY <1>2, Sizes DEF SetTo, Offsets
  <1>3. CASE pc[c] = "appendSet"
    BY <1>3, Room, Sizes DEF SetTo, Offsets
  <1>4. CASE pc[c] = "cut"
    <2>1. job[c].size \in 0 .. MaxUnits
      BY <1>1, <1>4, JobTypes, Kinds DEF Base
    <2> QED BY <1>4, <2>1, Sizes DEF SetTo, Offsets
  <1>5. CASE pc[c] = "extend"
    <2>1. job[c].off \in 0 .. MaxUnits - 1
      BY <1>1, <1>5, JobTypes, Kinds DEF Base
    <2> QED BY <1>5, <2>1, Sizes DEF SetTo, Offsets
  <1> QED BY <1>2, <1>3, <1>4, <1>5 DEF SetLabels

(* What a creation does.                                                       *)
CreatedKey(c) == IF pc[c] = "create" THEN OwnKey(c) ELSE DirKey(Root)
LEMMA CreateIs ==
  ASSUME Base, Counts, NEW c \in Client, Operate(c), pc[c] \in {"create", "mountRoot"}
  PROVE  /\ CreatedKey(c) \in Key /\ inodes + 1 \in Inode /\ inodes' = inodes + 1
         /\ names' = [names EXCEPT ![CreatedKey(c)] = inodes + 1]
         /\ key' = [key EXCEPT ![inodes + 1] = CreatedKey(c)]
         /\ UNCHANGED <<len, data>>
         /\ home' = IF pc[c] = "create" THEN [home EXCEPT ![inodes + 1] = me[c].ino] ELSE home
         /\ pc[c] = "create" => me[c].ino \in Inode
  <1>1. job[c] \in Jobs /\ pc[c] \in BeforeCreate
    BY Kinds DEF Base, BeforeCreate, Entries0
  <1>2. inodes + 1 \in Inode
    BY <1>1, Room
  <1>3. Root \in Path /\ job[c].path \in Path
    BY <1>1, JobTypes, FileSystemAssumption
  <1>4. CreatedKey(c) \in Key
    BY <1>3 DEF CreatedKey, OwnKey, DirKey, Key
  <1>5. Created(CreatedKey(c))
    BY Effects DEF CreatedKey
  <1>6. home' = IF pc[c] = "create" THEN [home EXCEPT ![inodes + 1] = me[c].ino] ELSE home
    BY Effects
  <1> QED BY <1>2, <1>4, <1>5, <1>6, LocalIs DEF Created

LEMMA SizeIs ==
  ASSUME Base, Counts, NEW c \in Client, Operate(c), pc[c] \in SetLabels
  PROVE  /\ SetIno(c) \in Inode /\ SetTo(c) \in Offsets
         /\ len' = [len EXCEPT ![SetIno(c)] = SetTo(c)]
         /\ UNCHANGED <<names, inodes, data, key, home>>
  BY SetsOf, SetFits, Effects DEF Sized

LEMMA FilesTyped ==
  ASSUME Base, Counts, NEW c \in Client, Operate(c)
  PROVE  FileTypes'
  <1>1. FileTypes
    BY DEF Base, Types
  <1>2. pc[c] \in ReadLabels \cup SetLabels \cup {"create", "appendPut", "writePut", "mountRoot"}
    BY Operated DEF Base
  <1>3. CASE pc[c] \in ReadLabels
    BY <1>1, <1>3, Effects DEF files, FileTypes
  <1>4. CASE pc[c] \in SetLabels
    <2>1. len' = [len EXCEPT ![SetIno(c)] = SetTo(c)] /\ SetTo(c) \in Offsets
          /\ UNCHANGED <<names, inodes, data, key, home>>
      BY <1>4, SizeIs
    <2>2. len' \in [Inode -> Offsets]
      BY <1>1, <2>1 DEF FileTypes
    <2> QED BY <1>1, <2>1, <2>2 DEF FileTypes
  <1>5. CASE pc[c] \in {"create", "mountRoot"}
    <2>1. CreatedKey(c) \in Key /\ inodes + 1 \in Inode /\ inodes' = inodes + 1 /\ UNCHANGED <<len, data>>
      BY <1>5, CreateIs
    <2>2. names' \in [Key -> Inode \cup {0}]
      BY <1>1, <1>5, <2>1, CreateIs DEF FileTypes
    <2>3. key' \in [Inode -> Key \cup {NoKey}]
      BY <1>1, <1>5, <2>1, CreateIs DEF FileTypes
    <2>4. home' \in [Inode -> Inode \cup {0}]
      BY <1>1, <1>5, <2>1, CreateIs DEF FileTypes
    <2> QED BY <1>1, <2>1, <2>2, <2>3, <2>4 DEF FileTypes
  <1>6. CASE pc[c] = "appendPut"
    BY <1>1, <1>6, PutIs DEF FileTypes
  <1>7. CASE pc[c] = "writePut"
    BY <1>1, <1>7, WriteIs DEF FileTypes
  <1> QED BY <1>2, <1>3, <1>4, <1>5, <1>6, <1>7

(* What a client goes on with is of its types.                                 *)
LEMMA UnitsGot ==
  ASSUME Types, NEW i \in Inode, NEW n \in Offsets
  PROVE  Got(i, 0, n) \in Seq(Units)
  <1>1. \A x \in 1 .. n : 0 + x - 1 \in Offsets
    BY Sizes DEF Offsets
  <1>2. \A x \in 1 .. n : data[i][0 + x - 1] \in Units
    BY <1>1 DEF Types, FileTypes
  <1>3. Blank \in Units
    BY DEF Units
  <1>4. Got(i, 0, n) \in [1 .. n -> Units]
    BY <1>2, <1>3 DEF Got
  <1>5. PICK m \in Nat : 1 .. n = 1 .. m
    <2>1. CASE n \in Nat
      BY <2>1
    <2>2. CASE n = -1
      BY <2>2
    <2> QED BY <2>1, <2>2, Sizes DEF Offsets
  <1>6. Got(i, 0, n) \in [1 .. m -> Units]
    BY <1>4, <1>5
  <1> QED BY <1>6

LEMMA Rest ==
  ASSUME NEW buf \in Seq(Units), buf # <<>>
  PROVE  /\ SubSeq(buf, Step(buf) + 1, Len(buf)) \in Seq(Units)
         /\ Step(buf) \in {1, 2}
         /\ buf[1] \in Units /\ HeadInode(buf) \in Inode \cup {0}
         /\ Len(SubSeq(buf, Step(buf) + 1, Len(buf)))
              = IF Step(buf) < Len(buf) THEN Len(buf) - Step(buf) ELSE 0
         /\ \A k \in 1 .. Len(buf) - Step(buf) :
              SubSeq(buf, Step(buf) + 1, Len(buf))[k] = buf[k + Step(buf)]
  <1>1. Len(buf) \in Nat /\ Len(buf) >= 1 /\ \A k \in 1 .. Len(buf) : buf[k] \in Units
    OBVIOUS
  <1>2. Step(buf) \in {1, 2}
    BY DEF Step, Entry
  <1> DEFINE s == Step(buf) + 1 e == Len(buf)
  <1>3. s \in Int /\ e \in Int
    BY <1>1, <1>2
  <1>4. \A k \in s .. e : buf[k] \in Units
    BY <1>1, <1>2
  <1> HIDE DEF s, e
  <1>5. /\ SubSeq(buf, s, e) \in Seq(Units)
        /\ Len(SubSeq(buf, s, e)) = IF s <= e THEN e - s + 1 ELSE 0
        /\ \A k \in 1 .. e - s + 1 : SubSeq(buf, s, e)[k] = buf[s + k - 1]
    BY <1>3, <1>4, SubSeqProperties
  <1>6. Len(SubSeq(buf, s, e)) = IF Step(buf) < Len(buf) THEN Len(buf) - Step(buf) ELSE 0
    BY <1>1, <1>2, <1>5 DEF s, e
  <1>7. \A k \in 1 .. Len(buf) - Step(buf) : SubSeq(buf, s, e)[k] = buf[k + Step(buf)]
    <2>1. \A k \in 1 .. Len(buf) - Step(buf) : k \in 1 .. e - s + 1 /\ s + k - 1 = k + Step(buf)
      BY <1>1, <1>2 DEF s, e
    <2> QED BY <1>5, <2>1
  <1>8. HeadInode(buf) \in Inode \cup {0}
    BY <1>1, UnitKinds DEF HeadInode
  <1> QED BY <1>1, <1>2, <1>5, <1>6, <1>7, <1>8 DEF s, e

LEMMA NewLocals ==
  ASSUME NEW m \in Locals
  PROVE  /\ \A i \in Inode \cup {0} : [m EXCEPT !.ino = i] \in Locals
         /\ \A i \in Inode \cup {0} : [m EXCEPT !.own = i] \in Locals
         /\ \A i \in Inode \cup {0} : [m EXCEPT !.ino = i, !.dir = 1] \in Locals
         /\ \A n \in Offsets : [m EXCEPT !.at = n] \in Locals
         /\ \A v \in {Failed, 0, 1, 2} : [m EXCEPT !.result = v] \in Locals
         /\ \A buf \in Seq(Units), out \in SUBSET (Inode \cup {0}) : Begins(buf, out, m) \in Locals
  <1>1. \A buf \in Seq(Units), out \in SUBSET (Inode \cup {0}) : Begins(buf, out, m) \in Locals
    <2> SUFFICES ASSUME NEW buf \in Seq(Units), NEW out \in SUBSET (Inode \cup {0})
                 PROVE  Begins(buf, out, m) \in Locals
      OBVIOUS
    <2>1. PICK r \in {Failed, 0, 1, 2} : Begins(buf, out, m) = [m EXCEPT !.buf = buf, !.out = out, !.result = r]
      BY DEF Begins
    <2> QED BY <2>1 DEF Locals
  <1> QED BY <1>1 DEF Locals

LEMMA LocalsTyped ==
  ASSUME Base, Counts, NEW c \in Client, Operate(c)
  PROVE  me' \in [Client -> Locals] /\ handle' \in [Client -> Handles]
  <1> DEFINE v == Value(OpOf(c))
             OK == me' \in [Client -> Locals] /\ handle' \in [Client -> Handles]
  <1>1. /\ Parts(c, v) /\ Types
        /\ pc[c] \in ReadLabels \cup SetLabels \cup {"create", "appendPut", "writePut", "mountRoot"}
        /\ job[c] \in Jobs
    BY Operated DEF Base
  <1>2. me[c] \in Locals /\ handle[c] \in Handles
    BY <1>1, Here
  <1> SUFFICES OK
    OBVIOUS
  <1>0. \A l, m, h : m \in Locals /\ h \in Handles /\ Moved(c, l, m, h) => OK
    BY <1>1 DEF Moved, Types, ClientTypes
  <1> HIDE DEF v, OK
  <1>3. /\ \A l : MovesTo(c, l) => OK
        /\ \A l, i : i \in Inode \cup {0} /\ Notes(c, l, i) => OK
        /\ \A l, n : n \in Offsets /\ NotesAt(c, l, n) => OK
        /\ \A r : r \in {Failed, 0, 1, 2} /\ Ended(c, r) => OK
        /\ \A buf, out : buf \in Seq(Units) /\ out \in SUBSET (Inode \cup {0}) /\ Scanned(c, buf, out) => OK
    <2>1. \A l : MovesTo(c, l) => OK
      BY <1>2, <1>0 DEF MovesTo
    <2>2. \A l, i : i \in Inode \cup {0} /\ Notes(c, l, i) => OK
      BY <1>0, <1>2, NewLocals DEF Notes
    <2>3. \A l, n : n \in Offsets /\ NotesAt(c, l, n) => OK
      BY <1>0, <1>2, NewLocals DEF NotesAt
    <2>4. \A r : r \in {Failed, 0, 1, 2} /\ Ended(c, r) => OK
      BY <1>0, <1>2, NewLocals DEF Ended
    <2>5. \A buf, out : buf \in Seq(Units) /\ out \in SUBSET (Inode \cup {0}) /\ Scanned(c, buf, out) => OK
      BY <1>0, <1>2, NewLocals DEF Scanned
    <2> QED BY <2>1, <2>2, <2>3, <2>4, <2>5
  <1>4. Failed \in {Failed, 0, 1, 2} /\ 0 \in {Failed, 0, 1, 2} /\ 1 \in {Failed, 0, 1, 2}
        /\ 2 \in {Failed, 0, 1, 2} /\ 1 + me[c].dir \in {Failed, 0, 1, 2}
    BY <1>1, Here
  <1>5. pc[c] \in LookupLabels => v \in Inode \cup {0}
    BY Found DEF v
  <1>6. pc[c] \in LenLabels => v \in Offsets
    BY Measured DEF v
  <1>7. CASE pc[c] \in {"other", "otherLen", "mine", "mineLen", "revive", "parent"}
    BY <1>1, <1>3, <1>4, <1>5, <1>7, MakeMoves DEF LookupLabels
  <1>8. CASE pc[c] = "create"
    <2>1. v \in Inode
      BY <1>8, CreateIs, Values DEF v
    <2> QED BY <1>0, <1>1, <1>2, <1>8, <2>1, MakeMoves, NewLocals
  <1>9. CASE pc[c] \in Appending
    BY <1>1, <1>3, <1>4, <1>6, <1>9, MakeMoves DEF Appending, LenLabels
  <1>10. CASE pc[c] \in {"first", "firstLen", "lastLen", "remove", "cut", "writePut", "readGet",
                         "mountRoot", "trunc", "linkFrom", "linkTo"}
    BY <1>1, <1>3, <1>4, <1>5, <1>10, FindMoves DEF LookupLabels
  <1>11. CASE pc[c] = "second"
    BY <1>0, <1>1, <1>2, <1>3, <1>4, <1>5, <1>11, FindMoves, NewLocals DEF LookupLabels
  <1>12. CASE pc[c] \in {"open", "dirLookup"}
    BY <1>1, <1>3, <1>4, <1>5, <1>12, ContentMoves DEF LookupLabels
  <1>13. CASE pc[c] = "dirLen"
    BY <1>1, <1>3, <1>4, <1>6, <1>13, ContentMoves DEF LenLabels
  <1>14. CASE pc[c] = "openLen"
    <2>1. v \in Offsets /\ me[c].ino \in Inode
      BY <1>6, <1>14, Measured DEF LenLabels
    <2>2. v # -1 => v \in 0 .. MaxUnits
      BY <2>1, Sizes DEF Offsets
    <2>3. job[c].path \in Path
      BY <1>1, JobTypes
    <2>4. v # -1 => [ino |-> me[c].ino, length |-> v, path |-> job[c].path] \in Handles
      BY <2>1, <2>2, <2>3 DEF Handles
    <2> QED BY <1>0, <1>1, <1>2, <1>3, <1>4, <1>14, <2>4, ContentMoves
  <1>15. CASE pc[c] = "extend"
    <2>1. job[c].off \in 0 .. MaxUnits - 1
      BY <1>1, <1>15, JobTypes, Kinds
      DEF Base
    <2>2. job[c].off + 1 \in 0 .. MaxUnits
      BY <2>1, Sizes
    <2>3. [handle[c] EXCEPT !.length = job[c].off + 1] \in Handles
      BY <1>2, <2>2 DEF Handles
    <2> QED BY <1>0, <1>1, <1>2, <1>15, <2>3, ContentMoves
  <1>16. CASE pc[c] = "dirGet"
    <2>1. me[c].ino \in Inode /\ me[c].at \in Offsets
      BY <1>1, <1>16, LocalIs, Here
    <2>2. v \in Seq(Units)
      BY <1>1, <1>16, <2>1, Values, UnitsGot DEF v
    <2>3. Scanned(c, v, {})
      BY <1>1, <1>16, ContentMoves
    <2> QED BY <1>3, <2>2, <2>3
  <1>17. CASE pc[c] = "scan"
    <2>1. me[c].buf \in Seq(Units) /\ me[c].buf # <<>> /\ me[c].out \in SUBSET (Inode \cup {0})
      BY <1>1, <1>17, Here DEF Base, Known, InodeAt
    <2>2. Shows(c, v) \in SUBSET (Inode \cup {0})
      BY <2>1, Rest DEF Shows
    <2> QED BY <1>1, <1>3, <1>17, <2>1, <2>2, Rest, ContentMoves
  <1> QED
    BY <1>1, <1>7, <1>8, <1>9, <1>10, <1>11, <1>12, <1>13, <1>14, <1>15, <1>16, <1>17
       DEF ReadLabels, LookupLabels, LenLabels, SetLabels, Appending

LEMMA HistoryTyped ==
  ASSUME Base, NEW c \in Client, Operate(c)
  PROVE  was' \in History
  <1>1. was \in History
    BY DEF Base, Types, ClientTypes
  <1>2. /\ was.removed \in SUBSET Inode /\ was.overlapped \in SUBSET Inode
        /\ was.raced \in SUBSET ({"made", "revived", "regrown"} \X Path)
        /\ was.changed \in SUBSET Client
        /\ was.must \in [Client -> SUBSET Inode] /\ was.may \in [Client -> SUBSET Inode]
    BY <1>1 DEF History
  <1>3. pc[c] \in {"remove", "appendSet"} => me[c].ino \in Inode
    BY LocalIs
  <1> DEFINE removed == IF pc[c] = "remove" THEN {me[c].ino} ELSE {}
             overlapped == IF pc[c] = "appendSet" /\ len[me[c].ino] # me[c].at THEN {me[c].ino} ELSE {}
             made == IF Raced(c) THEN {<<"made", job[c].path>>} ELSE {}
             revived == IF Revived(c) THEN {<<"revived", job[c].path>>} ELSE {}
             regrown == IF Regrown(c) THEN {<<"regrown", Parent[job[c].path]>>} ELSE {}
  <1>4. was'.removed \in SUBSET Inode
    <2>1. was'.removed = was.removed \cup removed
      BY Noted
    <2> QED BY <1>2, <1>3, <2>1
  <1>5. was'.overlapped \in SUBSET Inode
    <2>1. was'.overlapped = was.overlapped \cup overlapped
      BY Noted
    <2> QED BY <1>2, <1>3, <2>1
  <1>6. job[c].path \in Path /\ Parent[job[c].path] \in Path
    BY Operated, JobTypes, FileSystemAssumption DEF Base
  <1>7. was'.raced \in SUBSET ({"made", "revived", "regrown"} \X Path)
    <2>1. was'.raced = was.raced \cup made \cup revived \cup regrown
      BY Noted
    <2>2. made \cup revived \cup regrown \subseteq {"made", "revived", "regrown"} \X Path
      BY <1>6
    <2> HIDE DEF made, revived, regrown
    <2> QED BY <1>2, <2>1, <2>2
  <1>8. was'.changed \in SUBSET Client
    BY <1>2, Noted
  <1>9. \A d \in Client : Present(d)' \subseteq Inode
    BY DEF Present
  <1>10. was'.must \in [Client -> SUBSET Inode]
    <2>1. was'.must = [d \in Client |-> was.must[d] \cap Present(d)']
      BY Noted
    <2>2. \A d \in Client : was.must[d] \cap Present(d)' \in SUBSET Inode
      BY <1>2, <1>9
    <2> QED BY <2>1, <2>2
  <1>11. was'.may \in [Client -> SUBSET Inode]
    <2>1. was'.may = [d \in Client |-> was.may[d] \cup Present(d)']
      BY Noted
    <2>2. \A d \in Client : was.may[d] \cup Present(d)' \in SUBSET Inode
      BY <1>2, <1>9
    <2> QED BY <2>1, <2>2
  <1>12. was' = [removed |-> was'.removed, overlapped |-> was'.overlapped, raced |-> was'.raced,
                 changed |-> was'.changed, must |-> was'.must, may |-> was'.may]
    BY Noted
  <1> QED BY <1>4, <1>5, <1>7, <1>8, <1>10, <1>11, <1>12 DEF History

LEMMA TypesStep ==
  ASSUME Base, Counts, NEW c \in Client, Operate(c)
  PROVE  Types'
  <1>1. Types
    BY DEF Base
  <1> QED BY <1>1, FilesTyped, LocalsTyped, HistoryTyped, Operated DEF Base, Types, ClientTypes

-------------------------------------------------------------------------------
(* Each part of the invariant is kept.  What is known of inodes first.         *)
LEMMA Older ==
  ASSUME Base, Counts, NEW c \in Client, Operate(c)
  PROVE  /\ inodes \in Nat /\ inodes' \in Nat
         /\ pc[c] \in {"create", "mountRoot"} => inodes' = inodes + 1
         /\ pc[c] \notin {"create", "mountRoot"} =>
              inodes' = inodes /\ names' = names /\ key' = key /\ home' = home
         /\ \A i \in Inode : i <= inodes => key'[i] = key[i] /\ home'[i] = home[i]
         /\ \A i, k : Is(i, k) /\ i \in Inode => Is(i, k)'
         /\ \A i \in Inode : pc[c] \notin SetLabels => len'[i] = len[i]
  <1>1. inodes \in Inode /\ key \in [Inode -> Key \cup {NoKey}] /\ home \in [Inode -> Inode \cup {0}]
    BY DEF Base, Types, FileTypes
  <1>2. pc[c] \in ReadLabels \cup SetLabels \cup {"create", "appendPut", "writePut", "mountRoot"}
    BY Operated DEF Base
  <1>3. CASE pc[c] \in {"create", "mountRoot"}
    <2>1. /\ inodes + 1 \in Inode /\ inodes' = inodes + 1 /\ UNCHANGED <<len, data>>
          /\ key' = [key EXCEPT ![inodes + 1] = CreatedKey(c)]
          /\ home' = IF pc[c] = "create" THEN [home EXCEPT ![inodes + 1] = me[c].ino] ELSE home
      BY <1>3, CreateIs
    <2>2. \A i \in Inode : i <= inodes => i # inodes + 1
      BY <1>1, Sizes
    <2>3. \A i \in Inode : i <= inodes => key'[i] = key[i] /\ home'[i] = home[i]
      BY <1>1, <2>1, <2>2
    <2>4. \A i, k : Is(i, k) /\ i \in Inode => Is(i, k)'
      BY <1>1, <2>1, <2>3, Sizes DEF Is
    <2> QED BY <1>1, <1>3, <2>1, <2>3, <2>4, Sizes
  <1>4. CASE pc[c] \notin {"create", "mountRoot"}
    <2>1. inodes' = inodes /\ names' = names /\ key' = key /\ home' = home
      BY <1>2, <1>4, Effects DEF files, Sized, Written
    <2>2. pc[c] \notin SetLabels => len' = len
      BY <1>2, <1>4, Effects DEF files, Sized, Written
    <2> QED BY <1>1, <1>4, <2>1, <2>2, Sizes DEF Is
  <1> QED BY <1>3, <1>4

LEMMA NamesStep ==
  ASSUME Base, Counts, NEW c \in Client, Operate(c)
  PROVE  /\ \A k \in Key : names'[k] # 0 => Is(names[k], k)'
         /\ names'[<<"dir", Root>>] # 0
         /\ \A i \in Inode : i > inodes' => len'[i] = 0 /\ home'[i] = 0 /\ key'[i] = NoKey
         /\ \A i \in Inode : home'[i] # 0 => home'[i] <= inodes' /\ key'[home'[i]][1] = "dir"
  <1>1. /\ \A k \in Key : names[k] # 0 => Is(names[k], k)
        /\ names[<<"dir", Root>>] # 0
        /\ \A i \in Inode : i > inodes => len[i] = 0 /\ home[i] = 0 /\ key[i] = NoKey
        /\ \A i \in Inode : home[i] # 0 => home[i] <= inodes /\ key[home[i]][1] = "dir"
    BY DEF Base, Known
  <1>2. /\ inodes \in Inode /\ names \in [Key -> Inode \cup {0}] /\ <<"dir", Root>> \in Key
        /\ key \in [Inode -> Key \cup {NoKey}] /\ home \in [Inode -> Inode \cup {0}]
        /\ len \in [Inode -> Offsets]
    BY FileSystemAssumption DEF Base, Types, FileTypes, Key
  <1>3. CASE pc[c] \in {"create", "mountRoot"}
    <2>1. /\ CreatedKey(c) \in Key /\ inodes + 1 \in Inode /\ inodes' = inodes + 1
          /\ names' = [names EXCEPT ![CreatedKey(c)] = inodes + 1]
          /\ key' = [key EXCEPT ![inodes + 1] = CreatedKey(c)]
          /\ UNCHANGED <<len, data>>
          /\ home' = IF pc[c] = "create" THEN [home EXCEPT ![inodes + 1] = me[c].ino] ELSE home
      BY <1>3, CreateIs
    <2>2. \A k \in Key : names'[k] # 0 => Is(names[k], k)'
      <3> SUFFICES ASSUME NEW k \in Key, names'[k] # 0 PROVE names'[k] \in 1 .. inodes' /\ key'[names'[k]] = k
        BY DEF Is
      <3>1. CASE k = CreatedKey(c)
        BY <1>2, <2>1, <3>1, Sizes DEF Is
      <3>2. CASE k # CreatedKey(c)
        <4>1. names'[k] = names[k] /\ Is(names[k], k) /\ names[k] \in Inode
          BY <1>1, <1>2, <2>1, <3>2
        <4> QED BY <4>1, Older DEF Is
      <3> QED BY <3>1, <3>2
    <2>3. names'[<<"dir", Root>>] # 0
      BY <1>1, <1>2, <2>1, Sizes
    <2>4. \A i \in Inode : i > inodes' => len'[i] = 0 /\ home'[i] = 0 /\ key'[i] = NoKey
      <3> SUFFICES ASSUME NEW i \in Inode, i > inodes + 1
                   PROVE  len'[i] = 0 /\ home'[i] = 0 /\ key'[i] = NoKey
        BY <2>1
      <3>1. i > inodes /\ i # inodes + 1
        BY <1>2, Sizes
      <3> QED BY <1>1, <1>2, <2>1, <3>1
    <2>5. \A i \in Inode : home'[i] # 0 => home'[i] <= inodes' /\ key'[home'[i]][1] = "dir"
      <3> SUFFICES ASSUME NEW i \in Inode, home'[i] # 0
                   PROVE  home'[i] <= inodes' /\ key'[home'[i]][1] = "dir"
        OBVIOUS
      <3>1. CASE home'[i] = home[i]
        <4>1. home[i] \in Inode /\ home[i] <= inodes /\ key[home[i]][1] = "dir"
          BY <1>1, <1>2, <3>1
        <4>2. key'[home[i]] = key[home[i]]
          BY <4>1, Older
        <4> QED BY <1>2, <2>1, <3>1, <4>1, <4>2, Sizes
      <3>2. CASE home'[i] # home[i]
        <4>1. pc[c] = "create" /\ home'[i] = me[c].ino
          BY <1>2, <2>1, <3>2
        <4>2. me[c].ino \in Inode /\ Is(me[c].ino, DirKey(Parent[job[c].path]))
          BY <4>1, LocalIs DEF Base, Known, InodeAt
        <4>3. me[c].ino <= inodes /\ key[me[c].ino][1] = "dir"
          BY <1>2, <4>2, Sizes DEF Is, DirKey
        <4>4. key'[me[c].ino] = key[me[c].ino]
          BY <4>2, <4>3, Older
        <4> QED BY <1>2, <2>1, <4>1, <4>2, <4>3, <4>4, Sizes
      <3> QED BY <3>1, <3>2
    <2> QED BY <2>2, <2>3, <2>4, <2>5
  <1>4. CASE pc[c] \notin {"create", "mountRoot"}
    <2>1. inodes' = inodes /\ names' = names /\ key' = key /\ home' = home
      BY <1>4, Older
    <2>2. \A i \in Inode : i > inodes => len'[i] = len[i]
      <3>1. CASE pc[c] \in SetLabels
        <4>1. len' = [len EXCEPT ![SetIno(c)] = SetTo(c)] /\ SetIno(c) \in Inode /\ SetIno(c) <= inodes
          BY <3>1, SizeIs, SetsOf
        <4>2. \A i \in Inode : i > inodes => i # SetIno(c)
          BY <1>2, <4>1, Sizes
        <4> QED BY <1>2, <4>1, <4>2
      <3>2. CASE pc[c] \notin SetLabels
        BY <3>2, Older
      <3> QED BY <3>1, <3>2
    <2> QED BY <1>1, <2>1, <2>2 DEF Is
  <1> QED BY <1>3, <1>4

(* What the others know stays true.                                            *)
LEMMA OthersKnow ==
  ASSUME Base, Counts, NEW c \in Client, Operate(c), NEW d \in Client, d # c
  PROVE  InodeAt(d)' /\ HandleAt(d)'
  <1>1. InodeAt(d) /\ HandleAt(d) /\ d \in Client
    BY DEF Base, Known
  <1>2. pc'[d] = pc[d] /\ me'[d] = me[d] /\ handle'[d] = handle[d] /\ job'[d] = job[d]
    BY Operated DEF Base
  <1>3. \A i, k : Is(i, k) /\ i \in Inode => Is(i, k)'
    BY Older
  <1>4. me[d].ino \in Inode \cup {0} /\ me[d].own \in Inode \cup {0} /\ handle[d].ino \in Inode \cup {0}
    BY Here DEF Base
  <1>5. OwnKey(d)' = OwnKey(d) /\ FirstKey(d)' = FirstKey(d) /\ NextKey(d)' = NextKey(d)
    BY <1>2 DEF OwnKey, FirstKey, NextKey
  <1>6. \A i : ~Is(0, i)
    BY DEF Is
  <1>7. \A k : Is(me[d].ino, k) => (me[d].ino \in 1 .. inodes /\ key[me[d].ino] = k)'
    BY <1>2, <1>3, <1>4, <1>6 DEF Is
  <1>8. \A k : Is(me[d].own, k) => (me[d].own \in 1 .. inodes /\ key[me[d].own] = k)'
    BY <1>2, <1>3, <1>4, <1>6 DEF Is
  <1>9. \A k : Is(handle[d].ino, k) => (handle[d].ino \in 1 .. inodes /\ key[handle[d].ino] = k)'
    BY <1>2, <1>3, <1>4, <1>6 DEF Is
  <1>10. pc[d] \in Appending => home'[me[d].own] = home[me[d].own]
    <2>1. pc[d] \in Appending => me[d].own \in Inode /\ me[d].own \in 1 .. inodes
      BY LocalIs
    <2>2. inodes \in Nat
      BY Older
    <2> QED BY <2>1, <2>2, Older
  <1>11. HandleAt(d)'
    BY <1>1, <1>2, <1>9 DEF HandleAt, Is
  <1>12. InodeAt(d)'
    BY <1>1, <1>2, <1>5, <1>7, <1>8, <1>10 DEF InodeAt, Is, OtherKind
  <1> QED BY <1>11, <1>12

(* What c learns is true.                                                      *)
LEMMA SelfHandle ==
  ASSUME Base, Counts, NEW c \in Client, Operate(c)
  PROVE  HandleAt(c)'
  <1>1. InodeAt(c) /\ HandleAt(c) /\ Types /\ job'[c] = job[c] /\ Parts(c, Value(OpOf(c)))
    BY Operated DEF Base, Known
  <1>2. \A i, k : Is(i, k) /\ i \in Inode => Is(i, k)'
    BY Older
  <1>3. handle[c].ino \in Inode \cup {0}
    BY Here DEF Base
  <1>4. CASE handle'[c].ino = handle[c].ino /\ handle'[c].path = handle[c].path
    <2>1. handle[c].ino # 0 => (Is(handle[c].ino, <<"file", handle[c].path>>))'
      BY <1>1, <1>2, <1>3, <1>4 DEF HandleAt, Is
    <2>2. pc'[c] \in {"extend", "writePut", "readGet"} => pc[c] = "extend"
      BY Operated DEF Base, GoesTo, LookupLabels, LenLabels, ReadLabels, SetLabels
    <2> QED BY <1>1, <1>4, <2>1, <2>2 DEF HandleAt
  <1>5. CASE pc[c] = "openLen"
    <2>1. CASE Ended(c, Failed)
      BY <1>4, <2>1, <1>1, MovedIs DEF Ended
    <2>2. CASE Moved(c, "return", me[c], [ino |-> me[c].ino, length |-> Value(OpOf(c)), path |-> job[c].path])
      <3>1. pc'[c] = "return" /\ handle'[c].ino = me[c].ino /\ handle'[c].path = job[c].path
        BY <1>1, <2>2, MovedIs
      <3>2. Is(me[c].ino, <<"file", job[c].path>>) /\ me[c].ino \in Inode
        BY <1>1, <1>5, LocalIs DEF InodeAt
      <3> QED BY <1>2, <3>1, <3>2 DEF HandleAt, Is
    <2> QED BY <1>1, <1>5, <2>1, <2>2, ContentMoves
  <1>6. CASE pc[c] = "extend"
    <2>1. Moved(c, "writePut", me[c], [handle[c] EXCEPT !.length = job[c].off + 1])
      BY <1>1, <1>6, ContentMoves
    <2>2. handle[c] \in Handles
      BY <1>1, Here
    <2>3. handle'[c].ino = handle[c].ino /\ handle'[c].path = handle[c].path
      BY <1>1, <2>1, <2>2, MovedIs DEF Handles
    <2> QED BY <1>4, <2>3
  <1>7. CASE pc[c] \notin {"openLen", "extend"}
    <2>1. \A l, m : Moved(c, l, m, handle[c]) => handle'[c] = handle[c]
      BY <1>1, MovedIs
    <2> USE DEF MovesTo, Notes, NotesAt, Ended, Scanned
    <2>2. CASE pc[c] \in MakeLabels
      <3>1. CASE pc[c] \in Entries0
        BY <1>1, <1>4, <2>1, <3>1, MakeMoves DEF Entries0
      <3>2. CASE pc[c] \in Appending
        BY <1>1, <1>4, <2>1, <3>2, MakeMoves DEF Appending
      <3> QED BY <2>2, <3>1, <3>2 DEF MakeLabels
    <2>3. CASE pc[c] \in {"first", "firstLen", "second", "lastLen", "remove", "cut", "writePut",
                          "readGet", "mountRoot", "trunc", "linkFrom", "linkTo"}
      BY <1>1, <1>4, <2>1, <2>3, FindMoves
    <2>4. CASE pc[c] \in {"open", "dirLookup", "dirLen", "dirGet", "scan"}
      BY <1>1, <1>4, <2>1, <2>4, ContentMoves
    <2> QED BY <1>7, <2>2, <2>3, <2>4, Operated
            DEF Base, ReadLabels, LookupLabels, LenLabels, SetLabels, MakeLabels, Entries0, Appending
  <1> QED BY <1>5, <1>6, <1>7

LEMMA SelfKnows ==
  ASSUME Base, Counts, NEW c \in Client, Operate(c)
  PROVE  InodeAt(c)'
  <1> DEFINE v == Value(OpOf(c))
  <1>1. InodeAt(c) /\ Types /\ job'[c] = job[c] /\ Parts(c, v) /\ job[c] \in Jobs
    BY Operated DEF Base, Known
  <1>2. \A i, k : Is(i, k) /\ i \in Inode => i \in 1 .. inodes' /\ key'[i] = k
    BY Older DEF Is
  <1>3. me[c] \in Locals /\ me[c].ino \in Inode \cup {0}
    BY Here DEF Base
  <1>4. OwnKey(c)' = OwnKey(c) /\ FirstKey(c)' = FirstKey(c) /\ NextKey(c)' = NextKey(c)
    BY <1>1 DEF OwnKey, FirstKey, NextKey
  <1>5. pc[c] \in LookupLabels /\ v # 0 => v \in 1 .. inodes' /\ key'[v] = LookedUp(c)
    BY <1>2, Found
  <1>6. \A k : me[c].ino \in Inode /\ Is(me[c].ino, k) => me[c].ino \in 1 .. inodes' /\ key'[me[c].ino] = k
    BY <1>2
  <1> HIDE DEF v
  <1>7. /\ \A l : MovesTo(c, l) => pc'[c] = l /\ me'[c] = me[c]
        /\ \A l, i : Notes(c, l, i) => pc'[c] = l /\ me'[c].ino = i
        /\ \A l, n : NotesAt(c, l, n) => /\ pc'[c] = l /\ me'[c].ino = me[c].ino /\ me'[c].at = n
                                         /\ me'[c].own = me[c].own
        /\ \A r : Ended(c, r) => pc'[c] = "return" /\ me'[c].ino = me[c].ino /\ me'[c].result = r
    BY <1>1, <1>3, MovedIs DEF MovesTo, Notes, NotesAt, Ended, Locals
  <1>8. ASSUME pc'[c] = "return", job[c].kind # "getdir" PROVE InodeAt(c)'
    BY <1>1, <1>8 DEF InodeAt, Appending
  <1>9. ASSUME pc'[c] = "return", me'[c].result = Failed PROVE InodeAt(c)'
    BY <1>1, <1>9 DEF InodeAt, Appending
  <1>10. ASSUME pc'[c] \in {"mine", "parent", "second", "linkTo", "writePut"} PROVE InodeAt(c)'
    BY <1>1, <1>10 DEF InodeAt, Appending
  <1>11. CASE pc[c] \in {"other", "otherLen", "mine", "mineLen", "revive", "parent"}
    <2>1. pc[c] = "other" => LookedUp(c) = OtherKind(OwnKey(c))
      BY DEF LookedUp
    <2>2. pc[c] = "mine" => LookedUp(c) = OwnKey(c)
      BY DEF LookedUp
    <2>3. pc[c] = "parent" => LookedUp(c) = DirKey(Parent[job[c].path])
      BY DEF LookedUp
    <2>4. CASE pc[c] = "other"
      <3>1. CASE v # 0
        <4>1. pc'[c] = "otherLen" /\ me'[c].ino = v
          BY <1>1, <1>7, <2>4, <3>1, MakeMoves
        <4>2. v \in 1 .. inodes' /\ key'[v] = OtherKind(OwnKey(c))
          BY <1>5, <2>4, <2>1, <3>1 DEF LookupLabels
        <4> QED BY <1>1, <1>4, <4>1, <4>2 DEF InodeAt, Is, Appending, OtherKind
      <3>2. CASE v = 0
        BY <1>1, <1>7, <1>10, <2>4, <3>2, MakeMoves
      <3> QED BY <3>1, <3>2
    <2>5. CASE pc[c] = "mine"
      <3>1. CASE v # 0
        <4>1. pc'[c] = "mineLen" /\ me'[c].ino = v
          BY <1>1, <1>7, <2>5, <3>1, MakeMoves
        <4>2. v \in 1 .. inodes' /\ key'[v] = OwnKey(c)
          BY <1>5, <2>5, <2>2, <3>1 DEF LookupLabels
        <4> QED BY <1>1, <1>4, <4>1, <4>2 DEF InodeAt, Is, Appending
      <3>2. CASE v = 0
        BY <1>1, <1>7, <1>10, <2>5, <3>2, MakeMoves
      <3> QED BY <3>1, <3>2
    <2>6. CASE pc[c] = "parent"
      <3>1. CASE v # 0
        <4>1. pc'[c] = "create" /\ me'[c].ino = v
          BY <1>1, <1>7, <2>6, <3>1, MakeMoves
        <4>2. v \in 1 .. inodes' /\ key'[v] = DirKey(Parent[job[c].path])
          BY <1>5, <2>6, <2>3, <3>1 DEF LookupLabels
        <4> QED BY <1>1, <1>4, <4>1, <4>2 DEF InodeAt, Is, Appending
      <3>2. CASE v = 0
        BY <1>1, <1>7, <1>9, <2>6, <3>2, MakeMoves
      <3> QED BY <3>1, <3>2
    <2>7. CASE pc[c] = "mineLen"
      <3>1. Is(me[c].ino, OwnKey(c)) /\ me[c].ino \in Inode
        BY <1>1, <2>7, LocalIs DEF InodeAt
      <3>2. CASE Ended(c, Failed)
        BY <1>7, <1>9, <3>2
      <3>3. CASE MovesTo(c, "revive")
        BY <1>1, <1>4, <1>6, <1>7, <3>1, <3>3 DEF InodeAt, Is, Appending
      <3> QED BY <1>1, <2>7, <3>2, <3>3, MakeMoves
    <2>8. CASE pc[c] \in {"otherLen", "revive"}
      <3>1. job[c].kind # "getdir"
        BY <2>8, Kinds DEF Base, MakeLabels, Entries0
      <3> QED BY <1>1, <1>7, <1>8, <1>9, <1>10, <2>8, <3>1, MakeMoves
    <2> QED BY <1>11, <2>4, <2>5, <2>6, <2>7, <2>8
  <1>12. CASE pc[c] = "create"
    <2>1. Is(me[c].ino, DirKey(Parent[job[c].path])) /\ me[c].ino \in Inode
      BY <1>1, <1>12, LocalIs DEF InodeAt
    <2>2. pc'[c] = "appendLen" /\ me'[c].own = v /\ me'[c].ino = me[c].ino
      <3>1. Moved(c, "appendLen", [me[c] EXCEPT !.own = v], handle[c])
        BY <1>1, <1>12, MakeMoves
      <3>2. pc'[c] = "appendLen" /\ me'[c] = [me[c] EXCEPT !.own = v]
        BY <1>1, <3>1, MovedIs
      <3> QED BY <1>3, <3>2 DEF Locals
    <2>3. /\ inodes + 1 \in Inode /\ inodes' = inodes + 1 /\ v = inodes + 1
          /\ key' = [key EXCEPT ![inodes + 1] = OwnKey(c)]
          /\ home' = [home EXCEPT ![inodes + 1] = me[c].ino]
      BY <1>12, CreateIs, Values DEF CreatedKey, v
    <2>4. key'[v] = OwnKey(c) /\ home'[v] = me[c].ino
      BY <2>3 DEF Base, Types, FileTypes
    <2>5. v \in 1 .. inodes'
      BY <2>3, Sizes
    <2> QED BY <1>1, <1>4, <1>6, <2>1, <2>2, <2>4, <2>5 DEF InodeAt, Is, Appending
  <1>13. CASE pc[c] \in Appending
    <2>1. /\ Is(me[c].ino, DirKey(Parent[job[c].path])) /\ me[c].ino \in Inode
          /\ Is(me[c].own, OwnKey(c)) /\ me[c].own \in Inode /\ home[me[c].own] = me[c].ino
      BY <1>1, <1>13, LocalIs DEF InodeAt, Appending
    <2>2. me[c].own \in 1 .. inodes' /\ key'[me[c].own] = OwnKey(c) /\ home'[me[c].own] = home[me[c].own]
      <3>1. me[c].own <= inodes
        BY <2>1, Older DEF Is
      <3> QED BY <1>2, <2>1, <3>1, Older
    <2>3. (me'[c].ino = me[c].ino /\ me'[c].own = me[c].own) \/ pc'[c] = "return"
      BY <1>1, <1>7, <1>13, MakeMoves DEF Appending
    <2>4. pc'[c] \in Appending \cup {"return"}
      BY <1>13, Operated DEF Base, GoesTo, Appending
    <2>5. job[c].kind # "getdir"
      BY <1>13, Kinds DEF Base, MakeLabels, Appending
    <2>6. CASE pc'[c] \in Appending
      <3>1. pc'[c] \notin {"otherLen", "mineLen", "revive", "create", "firstLen", "lastLen", "remove",
                           "cut", "openLen", "dirLen", "dirGet", "scan", "return"}
        BY <2>6 DEF Appending
      <3> QED BY <1>1, <1>4, <1>6, <2>1, <2>2, <2>3, <2>6, <3>1 DEF InodeAt, Is
    <2> QED BY <1>8, <2>4, <2>5, <2>6
  <1>14. CASE pc[c] \in {"first", "firstLen", "second", "lastLen", "remove"}
    <2>1. job[c].kind # "getdir"
      BY <1>14, Kinds DEF Base
    <2>2. pc[c] = "first" => LookedUp(c) = FirstKey(c)
      BY DEF LookedUp
    <2>3. pc[c] = "second" => LookedUp(c) = NextKey(c)
      BY DEF LookedUp
    <2>4. CASE pc[c] = "first"
      <3>1. CASE v # 0
        <4>1. pc'[c] = "firstLen" /\ me'[c].ino = v
          BY <1>1, <1>7, <2>4, <3>1, FindMoves
        <4>2. v \in 1 .. inodes' /\ key'[v] = FirstKey(c)
          BY <1>5, <2>4, <2>2, <3>1 DEF LookupLabels
        <4> QED BY <1>1, <1>4, <4>1, <4>2 DEF InodeAt, Is, Appending
      <3>2. CASE v = 0
        BY <1>1, <1>7, <1>10, <2>4, <3>2, FindMoves
      <3> QED BY <3>1, <3>2
    <2>5. CASE pc[c] = "firstLen"
      <3>1. Is(me[c].ino, FirstKey(c)) /\ me[c].ino \in Inode
        BY <1>1, <2>5, LocalIs DEF InodeAt
      <3>2. pc'[c] = "second" \/ (pc'[c] = "lastLen" /\ me'[c] = me[c])
        BY <1>1, <1>7, <2>5, FindMoves
      <3> QED BY <1>1, <1>4, <1>6, <1>10, <3>1, <3>2 DEF InodeAt, Is, Appending
    <2>6. CASE pc[c] = "second"
      <3>1. CASE v = 0
        BY <1>1, <1>7, <1>8, <2>1, <2>6, <3>1, FindMoves
      <3>2. CASE v # 0
        <4>1. pc'[c] = "lastLen" /\ me'[c].ino = v
          <5>1. Moved(c, "lastLen", [me[c] EXCEPT !.ino = v, !.dir = 1], handle[c])
            BY <1>1, <2>6, <3>2, FindMoves
          <5>2. pc'[c] = "lastLen" /\ me'[c] = [me[c] EXCEPT !.ino = v, !.dir = 1]
            BY <1>1, <5>1, MovedIs
          <5> QED BY <1>3, <5>2 DEF Locals
        <4> QED BY <1>1, <1>4, <1>5, <2>3, <2>6, <3>2, <4>1 DEF InodeAt, Is, Appending, LookupLabels
      <3> QED BY <3>1, <3>2
    <2>7. CASE pc[c] = "lastLen"
      <3>1. Is(me[c].ino, FirstKey(c)) \/ Is(me[c].ino, NextKey(c))
        BY <1>1, <2>7 DEF InodeAt
      <3>2. me[c].ino \in Inode
        BY <2>7, LocalIs
      <3>3. pc'[c] = "return" \/ (pc'[c] = "remove" /\ me'[c] = me[c])
        BY <1>1, <1>7, <2>7, FindMoves
      <3> QED BY <1>1, <1>4, <1>6, <1>8, <2>1, <3>1, <3>2, <3>3 DEF InodeAt, Is, Appending
    <2>8. CASE pc[c] = "remove"
      BY <1>1, <1>7, <1>8, <2>1, <2>8, FindMoves
    <2> QED BY <1>14, <2>4, <2>5, <2>6, <2>7, <2>8
  <1>15. CASE pc[c] \in {"cut", "writePut", "readGet", "mountRoot", "linkFrom", "linkTo"}
    <2>1. job[c].kind # "getdir"
      BY <1>15, Kinds DEF Base
    <2> QED BY <1>1, <1>7, <1>8, <1>10, <1>15, <2>1, FindMoves
  <1>16. CASE pc[c] = "trunc"
    <2>1. LookedUp(c) = <<"file", job[c].path>>
      BY <1>16 DEF LookedUp
    <2>2. CASE v # 0
      <3>1. pc'[c] = "cut" /\ me'[c].ino = v
        BY <1>1, <1>7, <1>16, <2>2, FindMoves
      <3>2. v \in 1 .. inodes' /\ key'[v] = <<"file", job[c].path>>
        BY <1>5, <1>16, <2>1, <2>2 DEF LookupLabels
      <3> QED BY <1>1, <1>4, <3>1, <3>2 DEF InodeAt, Is, Appending
    <2>3. CASE v = 0
      BY <1>1, <1>7, <1>9, <1>16, <2>3, FindMoves
    <2> QED BY <2>2, <2>3
  <1>17. CASE pc[c] = "open"
    <2>1. LookedUp(c) = <<"file", job[c].path>>
      BY <1>17 DEF LookedUp
    <2>2. CASE v # 0
      <3>1. pc'[c] = "openLen" /\ me'[c].ino = v
        BY <1>1, <1>7, <1>17, <2>2, ContentMoves
      <3>2. v \in 1 .. inodes' /\ key'[v] = <<"file", job[c].path>>
        BY <1>5, <1>17, <2>1, <2>2 DEF LookupLabels
      <3> QED BY <1>1, <1>4, <3>1, <3>2 DEF InodeAt, Is, Appending
    <2>3. CASE v = 0
      BY <1>1, <1>7, <1>9, <1>17, <2>3, ContentMoves
    <2> QED BY <2>2, <2>3
  <1>18. CASE pc[c] \in {"openLen", "extend"}
    <2>1. job[c].kind # "getdir"
      BY <1>18, Kinds DEF Base
    <2>2. pc'[c] \in {"return", "writePut"}
      BY <1>18, Operated DEF Base, GoesTo
    <2> QED BY <1>8, <1>10, <2>1, <2>2
  <1>19. CASE pc[c] = "dirLookup"
    <2>1. LookedUp(c) = DirKey(job[c].path)
      BY <1>19 DEF LookedUp
    <2>2. CASE v # 0
      <3>1. pc'[c] = "dirLen" /\ me'[c].ino = v
        BY <1>1, <1>7, <1>19, <2>2, ContentMoves
      <3>2. v \in 1 .. inodes' /\ key'[v] = DirKey(job[c].path)
        BY <1>5, <1>19, <2>1, <2>2 DEF LookupLabels
      <3> QED BY <1>1, <1>4, <3>1, <3>2 DEF InodeAt, Is, Appending
    <2>3. CASE v = 0
      BY <1>1, <1>7, <1>9, <1>19, <2>3, ContentMoves
    <2> QED BY <2>2, <2>3
  <1>20. CASE pc[c] \in {"dirLen", "dirGet", "scan"}
    <2>1. Is(me[c].ino, DirKey(job[c].path)) /\ me[c].ino \in Inode
      BY <1>1, <1>20, LocalIs DEF InodeAt
    <2>2. CASE pc[c] = "dirLen"
      <3>1. v \in Offsets
        BY <2>2, Measured DEF v, LenLabels
      <3>2. v # -1 => v >= 0
        BY <3>1, InOffsets
      <3>3. CASE v = -1
        BY <1>1, <1>7, <1>9, <2>2, <3>3, ContentMoves
      <3>4. CASE v # -1
        <4>1. pc'[c] = "dirGet" /\ me'[c].ino = me[c].ino /\ me'[c].at = v
          BY <1>1, <1>7, <2>2, <3>4, ContentMoves
        <4> QED BY <1>1, <1>6, <2>1, <3>2, <3>4, <4>1 DEF InodeAt, Is, Appending
      <3> QED BY <3>3, <3>4
    <2>3. ASSUME NEW buf, NEW out, Scanned(c, buf, out) PROVE InodeAt(c)'
      <3>1. pc'[c] \in {"return", "scan"} /\ me'[c] = Begins(buf, out, me[c])
        BY <1>1, <2>3, MovedIs DEF Scanned
      <3>2. me'[c].ino = me[c].ino /\ me'[c].buf = buf
        BY <1>3, <3>1 DEF Begins, Locals
      <3>3. pc'[c] = "scan" => buf # <<>>
        BY <1>1, <2>3, MovedIs DEF Scanned
      <3> QED BY <1>1, <1>6, <2>1, <3>1, <3>2, <3>3 DEF InodeAt, Is, Appending
    <2> QED BY <1>1, <1>20, <2>2, <2>3, ContentMoves
  <1> QED BY <1>1, <1>11, <1>12, <1>13, <1>14, <1>15, <1>16, <1>17, <1>18, <1>19, <1>20, Operated
          DEF Base, ReadLabels, LookupLabels, LenLabels, SetLabels, Appending

-------------------------------------------------------------------------------
(* Types, labels, inodes and counts together.                                  *)
Core == Base /\ Counts

LEMMA CoreOperate ==
  ASSUME Core, NEW c \in Client, Operate(c)
  PROVE  Core'
  <1>1. Base /\ Counts
    BY DEF Core
  <1>2. Types'
    BY <1>1, TypesStep
  <1>3. Flow'
    <2>1. \A d \in Client : d # c => FlowAt(d)'
      <3> SUFFICES ASSUME NEW d \in Client, d # c PROVE FlowAt(d)'
        OBVIOUS
      <3>1. pc'[d] = pc[d] /\ job' = job /\ jobs' = jobs
        BY <1>1, Operated DEF Base
      <3> QED BY <1>1, <3>1 DEF Base, Flow, FlowAt
    <2>2. FlowAt(c)'
      BY <1>1, Operated DEF Base
    <2> QED BY <2>1, <2>2 DEF Flow
  <1>4. Known'
    <2>1. \A d \in Client : InodeAt(d)' /\ HandleAt(d)'
      BY <1>1, OthersKnow, SelfHandle, SelfKnows
    <2> QED BY <1>1, <2>1, NamesStep DEF Known
  <1>5. Counts'
    <2>1. /\ jobs \in [Client -> 0 .. MaxJobs] /\ jobs' \in [Client -> 0 .. MaxJobs]
          /\ jobs' = jobs /\ jobs[c] >= 1 /\ Types
          /\ \A d \in Client : d # c => pc'[d] = pc[d] /\ me'[d] = me[d]
      BY <1>1, <1>2, Operated DEF Base, Types, ClientTypes
    <2>2. pc'[c] \in BeforeCreate => pc[c] \in BeforeCreate
      BY <1>1, Operated DEF Base, GoesTo, BeforeCreate, Entries0
    <2>3. pc'[c] \in BeforeAppend => pc[c] \in BeforeAppend
      BY <1>1, Operated DEF Base, GoesTo, BeforeAppend, BeforeCreate, Entries0
    <2> DEFINE m == Cardinality(Past(BeforeCreate)) n == Cardinality(Past(BeforeAppend))
               m1 == Cardinality(Past(BeforeCreate)') n1 == Cardinality(Past(BeforeAppend)')
    <2>4. m \in Nat /\ m1 \in Nat /\ m <= m1 /\ (pc[c] \in BeforeCreate /\ pc'[c] \notin BeforeCreate => m + 1 <= m1)
      BY <2>1, <2>2, PastGrows
    <2>5. n \in Nat /\ n1 \in Nat /\ n <= n1 /\ (pc[c] \in BeforeAppend /\ pc'[c] \notin BeforeAppend => n + 1 <= n1)
      BY <2>1, <2>3, PastGrows
    <2>6. /\ inodes <= 1 + m
          /\ \A i \in Inode : key[i][1] = "dir" => len[i] <= 2 * n
          /\ \A d \in Client : pc[d] = "appendSet" => me[d].at <= 2 * n
      BY <1>1 DEF Counts
    <2> HIDE DEF m, n, m1, n1
    <2>7. inodes' <= 1 + m1
      <3>1. CASE pc[c] \in {"create", "mountRoot"}
        <4>1. pc[c] \in BeforeCreate /\ pc'[c] \notin BeforeCreate
          BY <1>1, <3>1, Operated DEF Base, GoesTo, BeforeCreate, Entries0
        <4> QED BY <1>1, <2>4, <2>6, <3>1, <4>1, Older
      <3>2. CASE pc[c] \notin {"create", "mountRoot"}
        BY <1>1, <2>4, <2>6, <3>2, Older
      <3> QED BY <3>1, <3>2
    <2>8. \A x \in Int : x <= 2 * n => x <= 2 * n1
      BY <2>5
    <2>9. \A i \in Inode : key'[i][1] = "dir" => len'[i] <= 2 * n1
      <3> SUFFICES ASSUME NEW i \in Inode, key'[i][1] = "dir" PROVE len'[i] <= 2 * n1
        OBVIOUS
      <3>1. inodes \in Inode /\ len[i] \in Int
        BY <1>1, Sizes DEF Base, Types, FileTypes, Offsets
      <3>2. CASE pc[c] \in {"create", "mountRoot"}
        <4>1. len'[i] = len[i]
          BY <1>1, <3>2, Older DEF SetLabels
        <4>2. CASE i <= inodes
          BY <1>1, <2>6, <2>8, <3>1, <4>1, <4>2, Older
        <4>3. CASE i > inodes
          BY <1>1, <2>5, <3>1, <4>1, <4>3, Sizes DEF Base, Known
        <4> QED BY <3>1, <4>2, <4>3, Sizes
      <3>3. CASE pc[c] \notin {"create", "mountRoot"} /\ pc[c] \notin SetLabels
        BY <1>1, <2>6, <2>8, <3>1, <3>3, Older
      <3>4. CASE pc[c] \in SetLabels
        <4>1. /\ len' = [len EXCEPT ![SetIno(c)] = SetTo(c)] /\ key' = key
          BY <1>1, <3>4, SizeIs
        <4>2. CASE i # SetIno(c)
          BY <1>1, <2>6, <2>8, <3>1, <4>1, <4>2 DEF Base, Types, FileTypes
        <4>3. CASE i = SetIno(c)
          <5>1. len'[i] = SetTo(c)
            BY <1>1, <4>1, <4>3 DEF Base, Types, FileTypes
          <5>2. CASE pc[c] \in {"cut", "extend"}
            BY <1>1, <4>1, <4>3, <5>2, SetsOf DEF SetLabels
          <5>3. CASE pc[c] \in {"revive", "remove"}
            BY <2>5, <5>1, <5>3 DEF SetTo
          <5>4. CASE pc[c] = "appendSet"
            <6>1. n + 1 <= n1
              <7>1. pc[c] \in BeforeAppend /\ pc'[c] \notin BeforeAppend
                BY <1>1, <5>4, Operated DEF Base, GoesTo, BeforeAppend, BeforeCreate, Entries0
              <7> QED BY <2>5, <7>1
            <6>2. me[c].at <= 2 * n /\ me[c].at \in Int
              BY <1>1, <2>6, <5>4, Here, Sizes DEF Base, Offsets
            <6>3. SetTo(c) = me[c].at + 2
              BY <5>4 DEF SetTo, Entry
            <6> QED BY <2>5, <5>1, <6>1, <6>2, <6>3
          <5> QED BY <3>4, <5>2, <5>3, <5>4 DEF SetLabels
        <4> QED BY <4>2, <4>3
      <3> QED BY <3>2, <3>3, <3>4
    <2>10. \A d \in Client : pc'[d] = "appendSet" => me'[d].at <= 2 * n1
      <3> SUFFICES ASSUME NEW d \in Client, pc'[d] = "appendSet" PROVE me'[d].at <= 2 * n1
        OBVIOUS
      <3>1. CASE d # c
        <4>1. me[d].at \in Int
          BY <2>1, Here, InOffsets
        <4> QED BY <2>1, <2>6, <2>8, <3>1, <4>1
      <3>2. CASE d = c
        <4>1. pc[c] = "appendLen"
          BY <1>1, <3>2, Operated DEF Base, GoesTo
        <4>2. /\ me[c].ino \in Inode /\ Value(OpOf(c)) = len[me[c].ino] /\ Value(OpOf(c)) \in Int
          BY <1>1, <4>1, Measured, Sizes DEF LenLabels, Offsets
        <4>3. key[me[c].ino][1] = "dir"
          BY <1>1, <4>1 DEF Base, Known, InodeAt, Appending, Is, DirKey
        <4>4. NotesAt(c, "appendSet", Value(OpOf(c)))
          BY <1>1, <4>1, Operated, MakeMoves DEF Base
        <4>5. me'[c] = [me[c] EXCEPT !.at = Value(OpOf(c))] /\ me[c] \in Locals
          BY <2>1, <4>4, MovedIs, Here DEF NotesAt
        <4>6. me'[c].at = Value(OpOf(c))
          BY <4>5 DEF Locals
        <4> QED BY <2>6, <2>8, <3>2, <4>2, <4>3, <4>6
      <3> QED BY <3>1, <3>2
    <2> QED BY <2>7, <2>9, <2>10 DEF Counts, m1, n1
  <1> QED BY <1>2, <1>3, <1>4, <1>5 DEF Core, Base

LEMMA CoreQuiet ==
  ASSUME Core, NEW c \in Client, Quiet(c)
  PROVE  Core'
  <1>1. Types /\ Flow /\ Known /\ Counts
    BY DEF Core, Base
  <1>2. /\ Types' /\ UNCHANGED files /\ UNCHANGED handle
        /\ \A d \in Client : d # c => pc'[d] = pc[d] /\ me'[d] = me[d] /\ job'[d] = job[d] /\ jobs'[d] = jobs[d]
        /\ pc'[c] \in Starts \cup {"ready"} /\ FlowAt(c)'
    BY <1>1, QuietIs
  <1>3. Flow'
    BY <1>1, <1>2 DEF Flow, FlowAt
  <1>4. Known'
    <2>1. \A d \in Client : d # c => InodeAt(d)' /\ HandleAt(d)'
      <3> SUFFICES ASSUME NEW d \in Client, d # c PROVE InodeAt(d)' /\ HandleAt(d)'
        OBVIOUS
      <3>1. OwnKey(d)' = OwnKey(d) /\ FirstKey(d)' = FirstKey(d) /\ NextKey(d)' = NextKey(d)
        BY <1>2 DEF OwnKey, FirstKey, NextKey
      <3>2. InodeAt(d) /\ HandleAt(d)
        BY <1>1 DEF Known
      <3>3. InodeAt(d)'
        BY <1>2, <3>1, <3>2 DEF InodeAt, Is, OtherKind, files
      <3> QED BY <1>2, <3>2, <3>3 DEF HandleAt, Is, files
    <2>2. HandleAt(c)'
      BY <1>1, <1>2, QuietIs DEF Known, HandleAt, Is, files
    <2>3. InodeAt(c)'
      <3>1. pc'[c] = "return" => job'[c].kind = "read"
        BY <1>1, QuietIs
      <3> QED BY <1>2, <3>1 DEF InodeAt, Starts, Appending
    <2> QED BY <1>1, <1>2, <2>1, <2>2, <2>3 DEF Known, Is, files
  <1>5. Counts'
    <2>1. /\ jobs \in [Client -> 0 .. MaxJobs] /\ jobs' \in [Client -> 0 .. MaxJobs]
      BY <1>1, <1>2 DEF Types, ClientTypes
    <2>2. \/ jobs'[c] = jobs[c] + 1
          \/ jobs'[c] = jobs[c] /\ pc[c] \in {"queued", "return"}
      BY <1>1, QuietIs
    <2>3. pc[c] = "return" => pc'[c] = "ready" \/ jobs'[c] = jobs[c] + 1
      BY DEF Quiet, Call, Run, Return, Types, ClientTypes, Core, Base
    <2> DEFINE n == Cardinality(Past(BeforeAppend)) n1 == Cardinality(Past(BeforeAppend)')
    <2>4. /\ Cardinality(Past(BeforeCreate)) \in Nat /\ Cardinality(Past(BeforeCreate)') \in Nat
          /\ Cardinality(Past(BeforeCreate)) <= Cardinality(Past(BeforeCreate)')
      BY <1>2, <2>1, <2>2, <2>3, PastGrows DEF BeforeCreate, Entries0
    <2>5. n \in Nat /\ n1 \in Nat /\ n <= n1
      BY <1>2, <2>1, <2>2, <2>3, PastGrows DEF BeforeAppend, BeforeCreate, Entries0
    <2>6. /\ inodes <= 1 + Cardinality(Past(BeforeCreate))
          /\ \A i \in Inode : key[i][1] = "dir" => len[i] <= 2 * n
          /\ \A d \in Client : pc[d] = "appendSet" => me[d].at <= 2 * n
      BY <1>1 DEF Counts
    <2> HIDE DEF n, n1
    <2>7. \A x \in Int : x <= 2 * n => x <= 2 * n1
      BY <2>5
    <2>8. inodes' <= 1 + Cardinality(Past(BeforeCreate)')
      BY <1>1, <1>2, <2>4, <2>6, Sizes DEF files, Types, FileTypes
    <2>9. \A i \in Inode : key'[i][1] = "dir" => len'[i] <= 2 * n1
      <3>1. key' = key /\ len' = len
        BY <1>2 DEF files
      <3>2. \A i \in Inode : len[i] \in Int
        BY <1>1, Sizes, FileIs
      <3> QED BY <2>6, <2>7, <3>1, <3>2
    <2>10. \A d \in Client : pc'[d] = "appendSet" => me'[d].at <= 2 * n1
      <3> SUFFICES ASSUME NEW d \in Client, pc'[d] = "appendSet" PROVE me'[d].at <= 2 * n1
        OBVIOUS
      <3>1. d # c
        BY <1>2 DEF Starts
      <3>2. me[d].at \in Int
        BY <1>1, Here, InOffsets
      <3> QED BY <1>2, <2>6, <2>7, <3>1, <3>2
    <2> QED BY <2>8, <2>9, <2>10 DEF Counts, n1
  <1> QED BY <1>2, <1>3, <1>4, <1>5 DEF Core, Base

LEMMA CoreInit ==
  ASSUME Init
  PROVE  Core
  <1> USE DEF Init
  <1>1. 1 \in Inode /\ inodes = 1 /\ Root \in Path /\ -1 .. MaxUnits = Offsets /\ MaxUnits \in Nat
    BY Sizes, FileSystemAssumption DEF Offsets
  <1>2. FileTypes
    <2>1. names \in [Key -> Inode \cup {0}] /\ len \in [Inode -> Offsets]
      BY <1>1 DEF Offsets
    <2>2. Blank \in Units
      BY DEF Units
    <2>3. data \in [Inode -> [Offsets -> Units]]
      BY <1>1, <2>2
    <2>4. key \in [Inode -> Key \cup {NoKey}]
      BY <1>1 DEF Key
    <2> QED BY <1>1, <2>1, <2>3, <2>4 DEF FileTypes
  <1>3. ClientTypes
    <2>1. NoLocals \in Locals
      BY Sizes DEF NoLocals, Locals, Failed, Offsets
    <2>2. NoHandle \in Handles
      BY <1>1 DEF NoHandle, Handles
    <2>3. was \in History
      BY DEF History
    <2> QED BY <2>1, <2>2, <2>3, Sizes DEF ClientTypes, Labels
  <1>4. Flow
    BY DEF Flow, FlowAt
  <1>5. Known
    <2>1. \A k \in Key : names[k] # 0 => Is(names[k], k)
      BY <1>1 DEF Is
    <2>2. names[<<"dir", Root>>] # 0
      BY <1>1 DEF Key
    <2>3. \A i \in Inode : i > inodes => len[i] = 0 /\ home[i] = 0 /\ key[i] = NoKey
      BY <1>1, Sizes
    <2>4. \A i \in Inode : home[i] # 0 => home[i] <= inodes /\ key[home[i]][1] = "dir"
      OBVIOUS
    <2>5. \A c \in Client : InodeAt(c) /\ HandleAt(c)
      BY DEF InodeAt, HandleAt, Appending, NoHandle
    <2> QED BY <2>1, <2>2, <2>3, <2>4, <2>5 DEF Known
  <1>6. Counts
    <2>1. jobs \in [Client -> 0 .. MaxJobs]
      BY <1>3 DEF ClientTypes
    <2>2. Cardinality(Past(BeforeCreate)) \in Nat /\ Cardinality(Past(BeforeAppend)) \in Nat
      BY <2>1, PastCounts
    <2> QED BY <1>1, <2>2 DEF Counts
  <1> QED BY <1>2, <1>3, <1>4, <1>5, <1>6 DEF Core, Base, Types

(* Nothing else changes anything.                                              *)
LEMMA NextIs ==
  ASSUME Next
  PROVE  (\E c \in Client : Quiet(c) \/ Operate(c)) \/ UNCHANGED vars
  BY DEF Next, Quiet, Finished

LEMMA CoreStays ==
  ASSUME Core, UNCHANGED vars
  PROVE  Core'
  <1> USE DEF vars, files
  <1>1. Types' /\ Flow'
    BY DEF Core, Base, Types, FileTypes, ClientTypes, Flow, FlowAt
  <1>2. Known'
    <2>1. \A i : (OwnKey(i)' = OwnKey(i) /\ FirstKey(i)' = FirstKey(i) /\ NextKey(i)' = NextKey(i))
      BY DEF OwnKey, FirstKey, NextKey
    <2>2. ASSUME NEW c \in Client PROVE InodeAt(c)' /\ HandleAt(c)'
      <3>1. InodeAt(c) /\ HandleAt(c)
        BY DEF Core, Base, Known
      <3>2. \A i, k : Is(i, k)' <=> Is(i, k)
        BY DEF Is
      <3>3. InodeAt(c)'
        BY <2>1, <3>1, <3>2 DEF InodeAt, OtherKind
      <3>4. HandleAt(c)'
        BY <3>1, <3>2 DEF HandleAt
      <3> QED BY <3>3, <3>4
    <2> QED BY <2>2 DEF Core, Base, Known, Is
  <1>3. Counts'
    <2>1. \A s : Past(s)' = Past(s)
      BY DEF Past
    <2> QED BY <2>1 DEF Core, Counts
  <1> QED BY <1>1, <1>2, <1>3 DEF Core, Base

(* TypeOK: the table holds inodes, lengths stay within MaxUnits however many    *)
(* entries are appended, and locals and handles hold what the code puts there. *)
THEOREM FilesTypeOK == Spec => []TypeOK
  <1>1. Core => TypeOK
    <2> SUFFICES ASSUME Core PROVE TypeOK
      OBVIOUS
    <2>1. Types
      BY DEF Core, Base
    <2>2. \A c \in Client : /\ me[c].ino \in Inode \cup {0} /\ me[c].at \in -1 .. MaxUnits
                            /\ me[c].out \subseteq Inode \cup {0} /\ handle[c].length \in 0 .. MaxUnits
      BY <2>1, Here DEF Offsets
    <2> QED BY <2>1, <2>2 DEF TypeOK, Types, FileTypes, ClientTypes, Offsets
  <1>2. Core /\ [Next]_vars => Core'
    BY CoreOperate, CoreQuiet, CoreStays, NextIs
  <1> QED BY <1>1, <1>2, CoreInit, PTL DEF Spec

-------------------------------------------------------------------------------
(* Handles: the length that a client keeps is the file's, unless the history   *)
(* says that it was changed.                                                   *)
LEMMA HandlesMove ==
  ASSUME Core, NEW c \in Client, Operate(c)
  PROVE  /\ \A d \in Client : d # c => handle'[d] = handle[d]
         /\ pc[c] \notin {"openLen", "extend"} => handle'[c] = handle[c]
         /\ pc[c] = "extend" => /\ handle'[c].ino = handle[c].ino /\ handle'[c].path = handle[c].path
                                /\ handle'[c].length = job[c].off + 1
         /\ pc[c] = "openLen" =>
              IF Value(OpOf(c)) = -1 THEN handle'[c] = handle[c]
              ELSE handle'[c] = [ino |-> me[c].ino, length |-> Value(OpOf(c)), path |-> job[c].path]
  <1>1. Types /\ Flow /\ Base /\ Parts(c, Value(OpOf(c)))
    BY Operated DEF Core, Base
  <1>2. CASE pc[c] = "extend"
    <2>1. Moved(c, "writePut", me[c], [handle[c] EXCEPT !.length = job[c].off + 1])
      BY <1>1, <1>2, ContentMoves
    <2>2. handle[c] \in Handles
      BY <1>1, Here
    <2>3. handle'[c] = [handle[c] EXCEPT !.length = job[c].off + 1]
      BY <1>1, <2>1, MovedIs
    <2>4. /\ handle'[c].ino = handle[c].ino /\ handle'[c].path = handle[c].path
          /\ handle'[c].length = job[c].off + 1
      BY <2>2, <2>3 DEF Handles
    <2> QED BY <1>1, <1>2, <2>4, Operated
  <1>3. CASE pc[c] = "openLen"
    <2>1. IF Value(OpOf(c)) = -1 THEN Ended(c, Failed)
          ELSE Moved(c, "return", me[c],
                     [ino |-> me[c].ino, length |-> Value(OpOf(c)), path |-> job[c].path])
      BY <1>1, <1>3, ContentMoves
    <2>2. \A l, m, h : Moved(c, l, m, h) => handle'[c] = h
      BY <1>1, MovedIs
    <2>3. IF Value(OpOf(c)) = -1 THEN handle'[c] = handle[c]
          ELSE handle'[c] = [ino |-> me[c].ino, length |-> Value(OpOf(c)), path |-> job[c].path]
      BY <2>1, <2>2 DEF Ended
    <2> QED BY <1>1, <1>3, <2>3, Operated
  <1>4. CASE pc[c] \notin {"openLen", "extend"}
    <2>1. \A l, m : Moved(c, l, m, handle[c]) => handle'[c] = handle[c]
      BY <1>1, MovedIs
    <2> USE DEF MovesTo, Notes, NotesAt, Ended, Scanned
    <2>2. CASE pc[c] \in MakeLabels
      <3>1. CASE pc[c] \in Entries0
        BY <1>1, <1>4, <2>1, <3>1, MakeMoves, Operated DEF Entries0
      <3>2. CASE pc[c] \in Appending
        BY <1>1, <1>4, <2>1, <3>2, MakeMoves, Operated DEF Appending
      <3> QED BY <2>2, <3>1, <3>2 DEF MakeLabels
    <2>3. CASE pc[c] \in {"first", "firstLen", "second", "lastLen", "remove", "cut", "writePut",
                          "readGet", "mountRoot", "trunc", "linkFrom", "linkTo"}
      BY <1>1, <1>4, <2>1, <2>3, FindMoves, Operated
    <2>4. CASE pc[c] \in {"open", "dirLookup", "dirLen", "dirGet", "scan"}
      BY <1>1, <1>4, <2>1, <2>4, ContentMoves, Operated
    <2> QED BY <1>1, <1>4, <2>2, <2>3, <2>4, Operated
            DEF ReadLabels, LookupLabels, LenLabels, SetLabels, MakeLabels, Entries0, Appending
  <1> QED BY <1>2, <1>3, <1>4

LEMMA HandleStep ==
  ASSUME Core, HandleOK, NEW c \in Client, Operate(c)
  PROVE  HandleOK'
  <1>1. Base /\ Counts /\ Types /\ Flow
    BY DEF Core, Base
  <1>2. was'.changed = (was.changed \cup {d \in Client : pc[c] \in SetLabels /\ handle[d].ino = SetIno(c)})
                         \ (IF pc[c] = "extend" \/ (pc[c] = "openLen" /\ Value(OpOf(c)) # -1)
                            THEN {c} ELSE {})
    BY <1>1, Noted
  <1>3. \A d \in Client : d # c => pc'[d] = pc[d] /\ job'[d] = job[d]
    BY <1>1, Operated
  <1>4. \A d \in Client : pc'[d] = "writePut" => job'[d].off < handle'[d].length
    <2> SUFFICES ASSUME NEW d \in Client, pc'[d] = "writePut" PROVE job'[d].off < handle'[d].length
      OBVIOUS
    <2>1. CASE d # c
      BY <1>3, <2>1, HandlesMove DEF HandleOK
    <2>2. CASE d = c
      <3>1. pc[c] = "extend" /\ job' = job
        BY <1>1, <2>2, Operated DEF GoesTo
      <3>2. job[c].off \in 0 .. MaxUnits - 1
        BY <1>1, <3>1, Kinds, JobTypes
      <3>3. job[c].off < job[c].off + 1
        BY <3>2, Sizes
      <3> QED BY <2>2, <3>1, <3>3, HandlesMove
    <2> QED BY <2>1, <2>2
  <1>5. ASSUME NEW d \in Client, handle'[d].ino # 0
        PROVE  d \in was'.changed \/ len'[handle'[d].ino] = handle'[d].length
    <2>1. CASE d = c /\ pc[c] = "openLen" /\ Value(OpOf(c)) # -1
      <3>1. /\ me[c].ino \in Inode /\ Value(OpOf(c)) = len[me[c].ino]
        BY <1>1, <2>1, Measured DEF LenLabels
      <3>2. len'[me[c].ino] = len[me[c].ino]
        BY <1>1, <2>1, <3>1, Older DEF SetLabels
      <3>3. handle'[c] = [ino |-> me[c].ino, length |-> Value(OpOf(c)), path |-> job[c].path]
        BY <2>1, HandlesMove
      <3>4. handle'[c].ino = me[c].ino /\ handle'[c].length = Value(OpOf(c))
        BY <3>3
      <3> QED BY <2>1, <3>1, <3>2, <3>4
    <2>2. CASE d = c /\ pc[c] = "extend"
      <3>1. /\ SetIno(c) = handle[c].ino /\ SetTo(c) = job[c].off + 1 /\ SetIno(c) \in Inode
            /\ len' = [len EXCEPT ![SetIno(c)] = SetTo(c)] /\ len \in [Inode -> Offsets]
        <4>1. SetIno(c) = handle[c].ino /\ SetTo(c) = job[c].off + 1 /\ pc[c] \in SetLabels
          BY <2>2 DEF SetIno, SetTo, SetLabels
        <4> QED BY <1>1, <4>1, SizeIs DEF Types, FileTypes
      <3>2. len'[handle[c].ino] = job[c].off + 1
        BY <3>1
      <3>3. handle'[c].ino = handle[c].ino /\ handle'[c].length = job[c].off + 1
        BY <2>2, HandlesMove
      <3> QED BY <2>2, <3>2, <3>3
    <2>3. CASE ~(d = c /\ (pc[c] = "extend" \/ (pc[c] = "openLen" /\ Value(OpOf(c)) # -1)))
      <3>1. handle'[d] = handle[d]
        BY <2>3, HandlesMove
      <3>2. d \in was.changed => d \in was'.changed
        BY <1>2, <2>3
      <3>3. d \in was.changed \/ len[handle[d].ino] = handle[d].length
        BY <1>5, <3>1 DEF HandleOK
      <3>4. handle[d].ino \in Inode
        BY <1>1, <1>5, <3>1, Here
      <3>5. CASE pc[c] \in SetLabels /\ handle[d].ino = SetIno(c)
        BY <1>2, <2>3, <3>5
      <3>6. CASE pc[c] \in SetLabels /\ handle[d].ino # SetIno(c)
        <4>1. len' = [len EXCEPT ![SetIno(c)] = SetTo(c)] /\ len \in [Inode -> Offsets]
          BY <1>1, <3>6, SizeIs DEF Types, FileTypes
        <4>2. len'[handle[d].ino] = len[handle[d].ino]
          BY <3>4, <3>6, <4>1
        <4> QED BY <3>1, <3>2, <3>3, <4>2
      <3>7. CASE pc[c] \notin SetLabels
        <4>1. len'[handle[d].ino] = len[handle[d].ino]
          BY <1>1, <3>4, <3>7, Older
        <4> QED BY <3>1, <3>2, <3>3, <4>1
      <3> QED BY <3>5, <3>6, <3>7
    <2> QED BY <2>1, <2>2, <2>3
  <1> QED BY <1>4, <1>5 DEF HandleOK

LEMMA HandleQuiet ==
  ASSUME Core, HandleOK, NEW c \in Client, Quiet(c)
  PROVE  HandleOK'
  <1>1. Types /\ Flow
    BY DEF Core, Base
  <1>2. /\ UNCHANGED files /\ UNCHANGED handle /\ was'.changed = was.changed
        /\ \A d \in Client : d # c => pc'[d] = pc[d] /\ job'[d] = job[d]
        /\ pc'[c] = "writePut" => ~(job'[c].off + 1 > handle[c].length)
        /\ pc'[c] # "ready" => job'[c] \in Jobs /\ FlowAt(c)'
        /\ Types' /\ FlowAt(c)'
    BY <1>1, QuietIs
  <1>3. pc'[c] = "writePut" => job'[c].off < handle'[c].length
    <2> SUFFICES ASSUME pc'[c] = "writePut" PROVE job'[c].off < handle'[c].length
      OBVIOUS
    <2>1. job'[c] \in Jobs /\ pc'[c] \in LabelsOf(job'[c].kind)
      BY <1>2 DEF FlowAt
    <2>2. job'[c].kind = "write"
      BY <2>1, JobTypes DEF LabelsOf, MakeLabels, Entries0, Appending
    <2>3. job'[c].off \in 0 .. MaxUnits - 1
      BY <2>1, <2>2, JobTypes
    <2>4. handle[c].length \in 0 .. MaxUnits
      BY <1>1, Here
    <2>5. \A x \in 0 .. MaxUnits - 1, y \in 0 .. MaxUnits : ~(x + 1 > y) => x < y
      BY Sizes
    <2>6. handle'[c].length = handle[c].length
      BY <1>2
    <2> QED BY <1>2, <2>3, <2>4, <2>5, <2>6
  <1> QED BY <1>2, <1>3 DEF HandleOK, files

(* The invariant of a client's writes.                                         *)
Held == Core /\ HandleOK
LEMMA HeldAlways == Spec => []Held
  <1>1. Init => Held
    <2> SUFFICES ASSUME Init PROVE HandleOK
      BY CoreInit DEF Held
    <2> QED BY DEF Init, HandleOK, NoHandle
  <1>2. Held /\ [Next]_vars => Held'
    <2> SUFFICES ASSUME Held, [Next]_vars PROVE Held'
      OBVIOUS
    <2>1. CASE UNCHANGED vars
      BY <2>1, CoreStays DEF Held, HandleOK, vars, files
    <2>2. CASE \E c \in Client : Quiet(c) \/ Operate(c)
      BY <2>2, CoreOperate, CoreQuiet, HandleStep, HandleQuiet DEF Held
    <2> QED BY <2>1, <2>2, NextIs
  <1> QED BY <1>1, <1>2, PTL DEF Spec

(* WriteStored: a write's unit is in the file when the write returns, unless    *)
(* the file was given another length since its handle took or set the length.  *)
THEOREM FilesWriteStored == Spec => WriteStored
  <1>1. ASSUME Held, [Next]_vars, NEW c \in Client, pc[c] = "writePut", pc'[c] = "return"
        PROVE  \/ job[c].off < len'[handle[c].ino] /\ data'[handle[c].ino][job[c].off] = Content(job[c].val)
               \/ c \in was.changed
    <2>1. Core /\ HandleOK /\ Base /\ Types /\ Flow
      BY <1>1 DEF Held, Core, Base
    <2>2. Operate(c)
      <3>1. UNCHANGED vars \/ \E d \in Client : Quiet(d) \/ Operate(d)
        BY <1>1, NextIs
      <3>2. ~UNCHANGED vars
        BY <1>1 DEF vars
      <3>3. PICK d \in Client : Quiet(d) \/ Operate(d)
        BY <3>1, <3>2
      <3>4. d = c
        BY <1>1, <2>1, <3>3, QuietIs, Operated
      <3>5. ~Quiet(c)
        BY <1>1, <2>1, QuietIs
      <3> QED BY <3>3, <3>4, <3>5
    <2>3. handle[c].ino \in Inode /\ handle[c].ino # 0
      BY <1>1, <2>1, LocalIs
    <2>4. c \in was.changed \/ (len[handle[c].ino] = handle[c].length /\ job[c].off < handle[c].length)
      BY <1>1, <2>1, <2>3 DEF HandleOK
    <2>5. /\ len' = len /\ job[c].off \in Offsets
          /\ \A j \in Inode, x \in Offsets :
               data'[j][x] = IF j = handle[c].ino /\ job[c].off < len[j] /\ x = job[c].off
                             THEN Content(job[c].val) ELSE data[j][x]
      <3>1. job[c].off \in Offsets
        BY <1>1, <2>1, <2>2, WriteIs, Sizes DEF Offsets
      <3> QED BY <1>1, <2>1, <2>2, <3>1, WriteIs
    <2> QED BY <2>3, <2>4, <2>5
  <1>2. Held /\ [Next]_vars => [\A c \in Client : pc[c] = "writePut" /\ pc'[c] = "return" =>
                                  LET i == handle[c].ino IN
                                  \/ job[c].off < len'[i] /\ data'[i][job[c].off] = Content(job[c].val)
                                  \/ c \in was.changed]_vars
    BY <1>1
  <1> QED BY <1>2, HeldAlways, PTL DEF Spec, WriteStored

-------------------------------------------------------------------------------
(* The locals after a step, field by field.                                    *)
Keeps(c) == me'[c].own = me[c].own /\ me'[c].dir = me[c].dir /\ me'[c].buf = me[c].buf
            /\ me'[c].out = me[c].out

LEMMA Fields ==
  ASSUME Types, NEW c \in Client
  PROVE  /\ \A l : MovesTo(c, l) => pc'[c] = l /\ me'[c] = me[c]
         /\ \A l, i : Notes(c, l, i) => /\ pc'[c] = l /\ me'[c].ino = i /\ me'[c].at = me[c].at
                                        /\ me'[c].result = me[c].result /\ Keeps(c)
         /\ \A l, n : NotesAt(c, l, n) => /\ pc'[c] = l /\ me'[c].ino = me[c].ino /\ me'[c].at = n
                                          /\ me'[c].result = me[c].result /\ Keeps(c)
         /\ \A r : Ended(c, r) => /\ pc'[c] = "return" /\ me'[c].ino = me[c].ino /\ me'[c].at = me[c].at
                                  /\ me'[c].result = r /\ Keeps(c)
         /\ \A l, n, h : Moved(c, l, [me[c] EXCEPT !.own = n], h) =>
              /\ pc'[c] = l /\ me'[c].own = n /\ me'[c].ino = me[c].ino /\ me'[c].at = me[c].at
              /\ me'[c].dir = me[c].dir /\ me'[c].result = me[c].result
         /\ \A l, n, h : Moved(c, l, [me[c] EXCEPT !.ino = n, !.dir = 1], h) =>
              /\ pc'[c] = l /\ me'[c].ino = n /\ me'[c].dir = 1 /\ me'[c].result = me[c].result
              /\ me'[c].own = me[c].own
         /\ \A l, h : Moved(c, l, me[c], h) => pc'[c] = l /\ me'[c] = me[c]
  <1>1. me[c] \in Locals
    BY Here
  <1>2. \A l, m, h : Moved(c, l, m, h) => pc'[c] = l /\ me'[c] = m
    BY MovedIs
  <1>3. \A i : LET m == [me[c] EXCEPT !.ino = i] IN
               /\ m.ino = i /\ m.at = me[c].at /\ m.result = me[c].result /\ m.own = me[c].own
               /\ m.dir = me[c].dir /\ m.buf = me[c].buf /\ m.out = me[c].out
    BY <1>1 DEF Locals
  <1>4. \A i : LET m == [me[c] EXCEPT !.at = i] IN
               /\ m.ino = me[c].ino /\ m.at = i /\ m.result = me[c].result /\ m.own = me[c].own
               /\ m.dir = me[c].dir /\ m.buf = me[c].buf /\ m.out = me[c].out
    BY <1>1 DEF Locals
  <1>5. \A i : LET m == [me[c] EXCEPT !.result = i] IN
               /\ m.ino = me[c].ino /\ m.at = me[c].at /\ m.result = i /\ m.own = me[c].own
               /\ m.dir = me[c].dir /\ m.buf = me[c].buf /\ m.out = me[c].out
    BY <1>1 DEF Locals
  <1>6. \A i : LET m == [me[c] EXCEPT !.own = i] IN
               /\ m.ino = me[c].ino /\ m.at = me[c].at /\ m.result = me[c].result /\ m.own = i
               /\ m.dir = me[c].dir
    BY <1>1 DEF Locals
  <1>7. \A i : LET m == [me[c] EXCEPT !.ino = i, !.dir = 1] IN
               m.ino = i /\ m.result = me[c].result /\ m.own = me[c].own /\ m.dir = 1
    BY <1>1 DEF Locals
  <1>9. \A l : MovesTo(c, l) => pc'[c] = l /\ me'[c] = me[c]
    BY <1>2 DEF MovesTo
  <1>10. \A l, i : Notes(c, l, i) => /\ pc'[c] = l /\ me'[c].ino = i /\ me'[c].at = me[c].at
                                     /\ me'[c].result = me[c].result /\ Keeps(c)
    <2> SUFFICES ASSUME NEW l, NEW i, Notes(c, l, i)
                 PROVE  /\ pc'[c] = l /\ me'[c].ino = i /\ me'[c].at = me[c].at
                     /\ me'[c].result = me[c].result /\ Keeps(c)
      OBVIOUS
    <2>1. pc'[c] = l /\ me'[c] = [me[c] EXCEPT !.ino = i]
      BY <1>2 DEF Notes
    <2> QED BY <1>1, <2>1 DEF Keeps, Locals
  <1>11. \A l, n : NotesAt(c, l, n) => /\ pc'[c] = l /\ me'[c].ino = me[c].ino /\ me'[c].at = n
                                       /\ me'[c].result = me[c].result /\ Keeps(c)
    <2> SUFFICES ASSUME NEW l, NEW n, NotesAt(c, l, n)
                 PROVE  /\ pc'[c] = l /\ me'[c].ino = me[c].ino /\ me'[c].at = n
                     /\ me'[c].result = me[c].result /\ Keeps(c)
      OBVIOUS
    <2>1. pc'[c] = l /\ me'[c] = [me[c] EXCEPT !.at = n]
      BY <1>2 DEF NotesAt
    <2> QED BY <1>1, <2>1 DEF Keeps, Locals
  <1>12. \A r : Ended(c, r) => /\ pc'[c] = "return" /\ me'[c].ino = me[c].ino /\ me'[c].at = me[c].at
                               /\ me'[c].result = r /\ Keeps(c)
    <2> SUFFICES ASSUME NEW r, Ended(c, r)
                 PROVE  /\ pc'[c] = "return" /\ me'[c].ino = me[c].ino /\ me'[c].at = me[c].at
                     /\ me'[c].result = r /\ Keeps(c)
      OBVIOUS
    <2>1. pc'[c] = "return" /\ me'[c] = [me[c] EXCEPT !.result = r]
      BY <1>2 DEF Ended
    <2> QED BY <1>1, <2>1 DEF Keeps, Locals
  <1>13. \A l, n, h : Moved(c, l, [me[c] EXCEPT !.own = n], h) =>
              /\ pc'[c] = l /\ me'[c].own = n /\ me'[c].ino = me[c].ino /\ me'[c].at = me[c].at
              /\ me'[c].dir = me[c].dir /\ me'[c].result = me[c].result
    <2> SUFFICES ASSUME NEW l, NEW n, NEW h, Moved(c, l, [me[c] EXCEPT !.own = n], h)
                 PROVE  /\ pc'[c] = l /\ me'[c].own = n /\ me'[c].ino = me[c].ino /\ me'[c].at = me[c].at
                     /\ me'[c].dir = me[c].dir /\ me'[c].result = me[c].result
      OBVIOUS
    <2>1. pc'[c] = l /\ me'[c] = [me[c] EXCEPT !.own = n]
      BY <1>2
    <2> QED BY <1>6, <2>1
  <1>14. \A l, n, h : Moved(c, l, [me[c] EXCEPT !.ino = n, !.dir = 1], h) =>
              /\ pc'[c] = l /\ me'[c].ino = n /\ me'[c].dir = 1 /\ me'[c].result = me[c].result
              /\ me'[c].own = me[c].own
    BY <1>2, <1>7
  <1> QED BY <1>2, <1>9, <1>10, <1>11, <1>12, <1>13, <1>14

(* The same, one at a time.                                                    *)
LEMMA FieldsOwn ==
  ASSUME Types, NEW c \in Client, NEW l, NEW n, NEW h, Moved(c, l, [me[c] EXCEPT !.own = n], h)
  PROVE  /\ pc'[c] = l /\ me'[c].own = n /\ me'[c].ino = me[c].ino /\ me'[c].at = me[c].at
         /\ me'[c].dir = me[c].dir /\ me'[c].result = me[c].result
  BY Fields
LEMMA FieldsDir ==
  ASSUME Types, NEW c \in Client, NEW l, NEW n, NEW h,
         Moved(c, l, [me[c] EXCEPT !.ino = n, !.dir = 1], h)
  PROVE  /\ pc'[c] = l /\ me'[c].ino = n /\ me'[c].dir = 1 /\ me'[c].result = me[c].result
         /\ me'[c].own = me[c].own
  BY Fields
LEMMA FieldsScanned ==
  ASSUME Types, NEW c \in Client, NEW buf, NEW out, Scanned(c, buf, out)
  PROVE  /\ pc'[c] = IF buf = <<>> \/ buf[1][1] = "name" THEN "return" ELSE "scan"
         /\ me'[c].ino = me[c].ino /\ me'[c].at = me[c].at /\ me'[c].own = me[c].own
         /\ me'[c].dir = me[c].dir /\ me'[c].buf = buf /\ me'[c].out = out
         /\ me'[c].result = IF buf # <<>> /\ buf[1][1] = "name" THEN Failed ELSE 0
  <1>1. me[c] \in Locals
    BY Here
  <1>2. me'[c] = Begins(buf, out, me[c])
    BY MovedIs DEF Scanned
  <1>3. pc'[c] = IF buf = <<>> \/ buf[1][1] = "name" THEN "return" ELSE "scan"
    BY MovedIs DEF Scanned
  <1> QED BY <1>1, <1>2, <1>3 DEF Locals, Begins
LEMMA FieldsNotes ==
  ASSUME Types, NEW c \in Client, NEW l, NEW i, Notes(c, l, i)
  PROVE  /\ pc'[c] = l /\ me'[c].ino = i /\ me'[c].at = me[c].at
         /\ me'[c].result = me[c].result /\ Keeps(c)
  BY Fields
LEMMA FieldsAt ==
  ASSUME Types, NEW c \in Client, NEW l, NEW n, NotesAt(c, l, n)
  PROVE  /\ pc'[c] = l /\ me'[c].ino = me[c].ino /\ me'[c].at = n
         /\ me'[c].result = me[c].result /\ Keeps(c)
  BY Fields
LEMMA FieldsEnded ==
  ASSUME Types, NEW c \in Client, NEW r, Ended(c, r)
  PROVE  /\ pc'[c] = "return" /\ me'[c].ino = me[c].ino /\ me'[c].at = me[c].at
         /\ me'[c].result = r /\ Keeps(c)
  BY Fields
LEMMA FieldsMoves ==
  ASSUME Types, NEW c \in Client, NEW l, MovesTo(c, l)
  PROVE  pc'[c] = l /\ me'[c] = me[c]
  BY Fields
LEMMA FieldsSame ==
  ASSUME Types, NEW c \in Client, NEW l, NEW h, Moved(c, l, me[c], h)
  PROVE  pc'[c] = l /\ me'[c] = me[c]
  BY Fields

-------------------------------------------------------------------------------
(* Mounts that are all active: what an operation on names has seen stays true  *)
(* until it returns, as the server serves nobody else.                         *)
Working(c) == job[c].kind \in OneRequest /\ pc[c] \notin {"ready", "queued", "return"}
Alone == \A c \in Client : Working(c) => holder = c

SoloAt(c) ==
  LET i == me[c].ino IN
  /\ pc[c] = "otherLen" => i = names[OtherKind(OwnKey(c))]
  /\ pc[c] \in {"mine", "mineLen", "revive", "parent", "create"} => ~Live(OtherKind(OwnKey(c)))
  /\ pc[c] \in {"mineLen", "revive"} => i = names[OwnKey(c)]
  /\ pc[c] = "revive" => len[i] = -1
  /\ pc[c] \in {"parent", "create"} => names[OwnKey(c)] = 0
  /\ pc[c] \in {"create"} \cup Appending => i = names[DirKey(Parent[job[c].path])]
  /\ pc[c] = "appendSet" => me[c].at = len[i]
  /\ pc[c] = "firstLen" => i = names[FirstKey(c)]
  /\ pc[c] = "second" => ~Live(FirstKey(c))
  /\ pc[c] \in {"lastLen", "remove"} =>
       \/ me[c].dir = 0 /\ i = names[FirstKey(c)] /\ len[i] # -1
       \/ me[c].dir = 1 /\ i = names[NextKey(c)] /\ NextKey(c) # NoKey /\ ~Live(FirstKey(c))
  /\ pc[c] = "remove" => len[i] # -1
  /\ pc[c] = "cut" => i = names[<<"file", job[c].path>>]
OpenAt(c) ==
  /\ pc[c] = "openLen" => me[c].ino = names[<<"file", job[c].path>>]
  /\ handle[c].ino # 0 => handle[c].ino = names[<<"file", handle[c].path>>]
FreshAt(c) == /\ pc[c] # "return" => me[c].result = 0
              /\ pc[c] \notin {"lastLen", "remove", "return"} => me[c].dir = 0
Solo == /\ Core /\ Alone /\ ActiveNeverRaces
        /\ \A c \in Client : SoloAt(c) /\ OpenAt(c) /\ FreshAt(c)

(* Nobody else calls the inode store while an operation on names works.        *)
LEMMA AloneIs ==
  ASSUME Alone, NEW c \in Client, NEW d \in Client, Working(d), Operate(c)
  PROVE  c = d
  BY FileSystemAssumption DEF Alone, Operate, Nobody

LEMMA AloneStep ==
  ASSUME Core, Active = Client, Alone, NEW c \in Client, Quiet(c) \/ Operate(c)
  PROVE  Alone'
  <1>1. Types /\ Flow /\ Base
    BY DEF Core, Base
  <1>2. CASE Operate(c)
    <2>1. /\ job' = job /\ \A d \in Client : d # c => pc'[d] = pc[d]
          /\ pc'[c] \notin {"ready", "queued"} /\ pc[c] \notin {"ready", "queued", "return"}
      BY <1>1, <1>2, Operated DEF GoesTo, ReadLabels, LookupLabels, LenLabels, SetLabels
    <2>2. holder' = IF pc'[c] = "return" THEN Nobody ELSE holder
      BY <1>2 DEF Operate
    <2>3. \A d \in Client : d # c => ~Working(d)
      BY <1>2, AloneIs
    <2> QED BY <2>1, <2>2, <2>3 DEF Alone, Working
  <1>3. CASE Run(c)
    <2>1. \A d \in Client : ~Working(d)
      BY <1>3, FileSystemAssumption DEF Run, Alone, Nobody
    <2>2. holder' = c /\ job' = job /\ \A d \in Client : d # c => pc'[d] = pc[d]
      BY <1>1, <1>3 DEF Run, Types, ClientTypes
    <2> QED BY <2>1, <2>2 DEF Alone, Working
  <1>4. CASE Call(c) \/ Return(c)
    <2>1. holder' = holder
      BY <1>4 DEF Call, Return
    <2>2. \A d \in Client : d # c => pc'[d] = pc[d] /\ job'[d] = job[d]
      BY <1>1, <1>4, QuietIs DEF Quiet
    <2>3. ~Working(c)'
      <3>1. CASE Return(c)
        BY <1>1, <3>1 DEF Return, Working, Types, ClientTypes
      <3>2. CASE Call(c)
        <4>1. PICK j \in Jobs :
                /\ job' = [job EXCEPT ![c] = j]
                /\ pc' = [pc EXCEPT ![c] = IF c \in Active /\ j.kind \in OneRequest THEN "queued"
                                           ELSE FirstLabel(c, j)]
          BY <3>2 DEF Call
        <4> QED BY <1>1, <4>1 DEF Working, Types, ClientTypes
      <3> QED BY <1>4, <3>1, <3>2
    <2> QED BY <2>1, <2>2, <2>3 DEF Alone, Working
  <1> QED BY <1>2, <1>3, <1>4 DEF Quiet

(* The keys of the locals.                                                     *)
LEMMA Keys ==
  ASSUME Core, NEW c \in Client, pc[c] # "ready"
  PROVE  /\ job[c].path \in Path /\ Parent[job[c].path] \in Path
         /\ OwnKey(c) \in Key /\ FirstKey(c) \in Key /\ OtherKind(OwnKey(c)) \in Key
         /\ DirKey(Parent[job[c].path]) \in Key /\ DirKey(job[c].path) \in Key
         /\ <<"file", job[c].path>> \in Key /\ NoKey \notin Key
         /\ NextKey(c) \in Key \cup {NoKey}
         /\ NextKey(c) = NoKey <=> job[c].kind = "rmdir"
         /\ OwnKey(c)[2] = job[c].path /\ OtherKind(OwnKey(c))[2] = job[c].path
         /\ OtherKind(OwnKey(c)) # OwnKey(c)
         /\ \A k \in Key : k[2] = job[c].path => k = OwnKey(c) \/ k = OtherKind(OwnKey(c))
  <1>1. job[c] \in Jobs
    BY Kinds DEF Core, Base
  <1>2. job[c].path \in Path /\ Parent[job[c].path] \in Path
    BY <1>1, JobTypes, FileSystemAssumption
  <1>3. NoKey \notin Key
    BY DEF NoKey, Key
  <1>4. NextKey(c) \in Key \cup {NoKey} /\ (NextKey(c) = NoKey <=> job[c].kind = "rmdir")
    BY <1>2 DEF NextKey, NoKey, Key
  <1>5. /\ OwnKey(c) \in Key /\ FirstKey(c) \in Key /\ OtherKind(OwnKey(c)) \in Key
        /\ DirKey(Parent[job[c].path]) \in Key /\ DirKey(job[c].path) \in Key
        /\ <<"file", job[c].path>> \in Key
    BY <1>2 DEF OwnKey, FirstKey, OtherKind, DirKey, Key
  <1>6. /\ OwnKey(c)[2] = job[c].path /\ OtherKind(OwnKey(c))[2] = job[c].path
        /\ OtherKind(OwnKey(c)) # OwnKey(c)
    BY DEF OwnKey, OtherKind
  <1>7. \A k \in Key : k[2] = job[c].path => k = OwnKey(c) \/ k = OtherKind(OwnKey(c))
    BY DEF OwnKey, OtherKind, Key
  <1> QED BY <1>2, <1>3, <1>4, <1>5, <1>6, <1>7

(* A file's name keeps its inode.                                              *)
LEMMA FileNamed ==
  ASSUME Solo, NEW c \in Client, Operate(c), NEW k \in Key, k[1] = "file", names[k] # 0
  PROVE  names'[k] = names[k]
  <1>1. Core /\ Base /\ Counts /\ Types /\ Flow /\ SoloAt(c)
    BY DEF Solo, Core, Base
  <1>2. CASE pc[c] \in {"create", "mountRoot"}
    <2>1. names' = [names EXCEPT ![CreatedKey(c)] = inodes + 1] /\ names \in [Key -> Inode \cup {0}]
      BY <1>1, <1>2, CreateIs DEF Types, FileTypes
    <2>2. CreatedKey(c) # k
      BY <1>1, <1>2 DEF CreatedKey, SoloAt, DirKey
    <2> QED BY <2>1, <2>2
  <1>3. CASE pc[c] \notin {"create", "mountRoot"}
    BY <1>1, <1>3, Older
  <1> QED BY <1>2, <1>3

LEMMA SoloOthers ==
  ASSUME Solo, NEW c \in Client, Operate(c), NEW d \in Client, d # c
  PROVE  SoloAt(d)' /\ OpenAt(d)' /\ FreshAt(d)'
  <1>1. Core /\ Base /\ Types /\ Flow /\ Alone /\ SoloAt(d) /\ OpenAt(d) /\ FreshAt(d)
    BY DEF Solo, Core, Base
  <1>2. pc'[d] = pc[d] /\ me'[d] = me[d] /\ job'[d] = job[d] /\ handle'[d] = handle[d]
    BY <1>1, Operated
  <1>3. ~Working(d)
    BY <1>1, AloneIs
  <1>4. SoloAt(d)'
    <2>1. pc[d] \notin MakeLabels \cup {"first", "firstLen", "second", "lastLen", "remove", "trunc", "cut"}
      BY <1>1, <1>3, Kinds DEF Working, OneRequest, MakeLabels, Entries0, Appending
    <2> QED BY <1>2, <2>1 DEF SoloAt, MakeLabels, Entries0, Appending
  <1>5. OpenAt(d)'
    <2>1. pc[d] = "openLen" => <<"file", job[d].path>> \in Key /\ me[d].ino # 0
      BY <1>1, Keys, LocalIs
    <2>2. <<"file", handle[d].path>> \in Key
      BY <1>1, Here DEF Key
    <2>3. \A p \in Path : names[<<"file", p>>] # 0 => names'[<<"file", p>>] = names[<<"file", p>>]
      BY FileNamed DEF Key
    <2>4. handle[d].path \in Path /\ (pc[d] = "openLen" => job[d].path \in Path)
      BY <1>1, Here, Keys
    <2> QED BY <1>1, <1>2, <2>1, <2>3, <2>4 DEF OpenAt
  <1>6. FreshAt(d)'
    BY <1>1, <1>2 DEF FreshAt
  <1> QED BY <1>4, <1>5, <1>6

LEMMA NoRace ==
  ASSUME Solo, NEW c \in Client, Operate(c)
  PROVE  ActiveNeverRaces'
  <1>1. Core /\ Base /\ Types /\ Flow /\ Alone /\ SoloAt(c) /\ ActiveNeverRaces
    BY DEF Solo, Core, Base
  <1>2. ~Raced(c)
    <2> SUFFICES ASSUME Making(c), NEW d \in Client \ {c}, Making(d) PROVE FALSE
      BY DEF Raced
    <2>1. Working(d)
      BY <1>1 DEF Making, Working, OneRequest, Flow, FlowAt, NoJob
    <2> QED BY <1>1, <2>1, AloneIs
  <1>3. pc[c] = "appendSet" => len[me[c].ino] = me[c].at
    BY <1>1 DEF SoloAt
  <1>4. was'.overlapped = was.overlapped
    BY <1>1, <1>3, Noted
  <1>5. was'.raced = was.raced \cup (IF Revived(c) THEN {<<"revived", job[c].path>>} ELSE {})
                        \cup (IF Regrown(c) THEN {<<"regrown", Parent[job[c].path]>>} ELSE {})
    BY <1>1, <1>2, Noted
  <1> QED BY <1>1, <1>4, <1>5 DEF ActiveNeverRaces

(* At a read the names and the lengths stay as they are.                       *)
LEMMA ReadIs ==
  ASSUME Core, NEW c \in Client, Operate(c), pc[c] \in ReadLabels \cup {"appendPut", "writePut"}
  PROVE  names' = names /\ len' = len /\ key' = key /\ inodes' = inodes /\ home' = home
  BY Effects DEF files, Written

LEMMA FreshSelf ==
  ASSUME Core, NEW c \in Client, FreshAt(c), Operate(c)
  PROVE  FreshAt(c)'
  <1>1. Types /\ Parts(c, Value(OpOf(c))) /\ pc'[c] \in GoesTo(c)
    BY Operated DEF Core, Base
  <1>2. pc[c] \in ReadLabels \cup SetLabels \cup {"create", "appendPut", "writePut", "mountRoot"}
    BY Operated DEF Core, Base
  <1>3. ASSUME me'[c].result = me[c].result, me'[c].dir = me[c].dir PROVE FreshAt(c)'
    <2>1. pc[c] # "return"
      BY <1>2 DEF ReadLabels, LookupLabels, LenLabels, SetLabels
    <2>2. pc[c] = "lastLen" => pc'[c] \in {"remove", "return"}
      BY <1>1 DEF GoesTo
    <2>3. pc[c] = "remove" => pc'[c] = "return"
      BY <1>1 DEF GoesTo
    <2> QED BY <1>3, <2>1, <2>2, <2>3 DEF FreshAt
  <1>4. ASSUME pc'[c] = "return" PROVE FreshAt(c)'
    BY <1>4 DEF FreshAt
  <1>5. /\ \A l : MovesTo(c, l) => FreshAt(c)'
        /\ \A l, i : Notes(c, l, i) => FreshAt(c)'
        /\ \A l, i : NotesAt(c, l, i) => FreshAt(c)'
        /\ \A i : Ended(c, i) => FreshAt(c)'
    BY <1>1, <1>3, <1>4, Fields DEF Keeps
  <1>6. CASE pc[c] \in {"other", "otherLen", "mine", "mineLen", "revive", "parent"}
    BY <1>1, <1>5, <1>6, MakeMoves
  <1>7. CASE pc[c] = "create"
    <2>1. Moved(c, "appendLen", [me[c] EXCEPT !.own = Value(OpOf(c))], handle[c])
      BY <1>1, <1>7, MakeMoves
    <2> QED BY <1>1, <1>3, <2>1, FieldsOwn
  <1>8. CASE pc[c] \in Appending
    BY <1>1, <1>5, <1>8, MakeMoves DEF Appending
  <1>9. CASE pc[c] \in {"first", "firstLen", "lastLen", "remove", "cut", "writePut", "readGet",
                        "mountRoot", "trunc", "linkFrom", "linkTo"}
    BY <1>1, <1>5, <1>9, FindMoves
  <1>10. CASE pc[c] = "second"
    <2>1. CASE Value(OpOf(c)) = 0
      BY <1>1, <1>5, <1>10, <2>1, FindMoves
    <2>2. CASE Value(OpOf(c)) # 0
      <3>1. pc'[c] = "lastLen" /\ me'[c].result = me[c].result
        <4>1. Moved(c, "lastLen", [me[c] EXCEPT !.ino = Value(OpOf(c)), !.dir = 1], handle[c])
          BY <1>1, <1>10, <2>2, FindMoves
        <4> QED BY <1>1, <4>1, FieldsDir
      <3> QED BY <1>10, <3>1 DEF FreshAt
    <2> QED BY <2>1, <2>2
  <1>11. CASE pc[c] \in {"open", "dirLookup", "dirLen"}
    BY <1>1, <1>5, <1>11, ContentMoves
  <1>12. CASE pc[c] = "openLen"
    BY <1>1, <1>4, <1>12 DEF GoesTo
  <1>13. CASE pc[c] = "extend"
    <2>1. Moved(c, "writePut", me[c], [handle[c] EXCEPT !.length = job[c].off + 1])
      BY <1>1, <1>13, ContentMoves
    <2> QED BY <1>1, <1>3, <2>1, FieldsSame
  <1>14. CASE pc[c] \in {"dirGet", "scan"}
    <2>1. ASSUME NEW buf, NEW out, Scanned(c, buf, out) PROVE FreshAt(c)'
      <3>1. /\ pc'[c] = IF buf = <<>> \/ buf[1][1] = "name" THEN "return" ELSE "scan"
            /\ me'[c].result = (IF buf # <<>> /\ buf[1][1] = "name" THEN Failed ELSE 0)
            /\ me'[c].dir = me[c].dir
        BY <1>1, <2>1, FieldsScanned
      <3> QED BY <1>14, <3>1 DEF FreshAt
    <2> QED BY <1>1, <1>14, <2>1, ContentMoves
  <1> QED BY <1>2, <1>6, <1>7, <1>8, <1>9, <1>10, <1>11, <1>12, <1>13, <1>14
          DEF ReadLabels, LookupLabels, LenLabels, SetLabels, Appending

LEMMA OpenSelf ==
  ASSUME Solo, NEW c \in Client, Operate(c)
  PROVE  OpenAt(c)'
  <1>1. Core /\ Base /\ Types /\ Flow /\ OpenAt(c) /\ Parts(c, Value(OpOf(c))) /\ job'[c] = job[c]
    BY Operated DEF Solo, Core, Base
  <1>2. pc[c] # "ready" /\ <<"file", job[c].path>> \in Key
    <2>1. pc[c] # "ready"
      BY DEF Operate
    <2> QED BY <1>1, <2>1, Keys
  <1>3. \A p \in Path : names[<<"file", p>>] # 0 => names'[<<"file", p>>] = names[<<"file", p>>]
    BY FileNamed DEF Key
  <1>4. pc'[c] = "openLen" => me'[c].ino = names'[<<"file", job'[c].path>>]
    <2> SUFFICES ASSUME pc'[c] = "openLen" PROVE me'[c].ino = names'[<<"file", job[c].path>>]
      BY <1>1
    <2>1. pc[c] = "open"
      BY <1>1, Operated DEF GoesTo
    <2>2. LookedUp(c) = <<"file", job[c].path>> /\ pc[c] \in LookupLabels
      BY <2>1 DEF LookedUp, LookupLabels
    <2>3. Value(OpOf(c)) = names[<<"file", job[c].path>>]
      <3>1. <<"file", job[c].path>> # NoKey
        BY DEF NoKey
      <3> QED BY <2>2, <3>1, Values
    <2>4. Value(OpOf(c)) # 0
      <3> SUFFICES ASSUME Value(OpOf(c)) = 0 PROVE FALSE
        OBVIOUS
      <3>1. Ended(c, Failed)
        BY <1>1, <2>1, ContentMoves
      <3> QED BY <1>1, <3>1, FieldsEnded
    <2>5. me'[c].ino = Value(OpOf(c))
      <3>1. Notes(c, "openLen", Value(OpOf(c)))
        BY <1>1, <2>1, <2>4, ContentMoves
      <3> QED BY <1>1, <3>1, FieldsNotes
    <2>6. names' = names
      BY <1>1, <2>1, ReadIs DEF ReadLabels, LookupLabels
    <2> QED BY <2>3, <2>5, <2>6
  <1>5. handle'[c].ino # 0 => handle'[c].ino = names'[<<"file", handle'[c].path>>]
    <2>1. CASE pc[c] = "openLen" /\ Value(OpOf(c)) # -1
      <3>1. handle'[c] = [ino |-> me[c].ino, length |-> Value(OpOf(c)), path |-> job[c].path]
        BY <1>1, <2>1, HandlesMove
      <3>2. handle'[c].ino = me[c].ino /\ handle'[c].path = job[c].path
        BY <3>1
      <3>3. names' = names
        BY <1>1, <2>1, ReadIs DEF ReadLabels, LenLabels
      <3> QED BY <1>1, <2>1, <3>2, <3>3 DEF OpenAt
    <2>2. CASE ~(pc[c] = "openLen" /\ Value(OpOf(c)) # -1)
      <3>1. handle'[c].ino = handle[c].ino /\ handle'[c].path = handle[c].path
        BY <1>1, <2>2, HandlesMove
      <3>2. handle[c].path \in Path
        BY <1>1, Here
      <3> QED BY <1>1, <1>3, <3>1, <3>2 DEF OpenAt
    <2> QED BY <2>1, <2>2
  <1> QED BY <1>4, <1>5 DEF OpenAt

(* What a lookup answers, where there is a key.                                *)
LEMMA LookupIs ==
  ASSUME Core, NEW c \in Client, pc[c] \in LookupLabels, LookedUp(c) \in Key
  PROVE  Value(OpOf(c)) = names[LookedUp(c)]
  BY Values DEF NoKey, Key

LEMMA SoloSelf ==
  ASSUME Solo, NEW c \in Client, Operate(c)
  PROVE  SoloAt(c)'
  <1> DEFINE v == Value(OpOf(c))
  <1>1. /\ Core /\ Base /\ Types /\ Flow /\ Counts /\ SoloAt(c) /\ FreshAt(c)
        /\ Parts(c, v) /\ job'[c] = job[c]
    BY Operated DEF Solo, Core, Base
  <1>26. /\ pc[c] = "otherLen" => IF v # -1 THEN Ended(c, Failed) ELSE MovesTo(c, "mine")
         /\ pc[c] = "mineLen" => IF v # -1 THEN Ended(c, Failed) ELSE MovesTo(c, "revive")
         /\ pc[c] = "lastLen" =>
              IF v = -1 THEN Ended(c, Failed)
              ELSE IF job[c].kind = "getattr" THEN Ended(c, 1 + me[c].dir) ELSE MovesTo(c, "remove")
    <2>1. Types /\ Parts(c, v)
      BY <1>1
    <2> HIDE DEF v
    <2> QED BY <2>1, MakeMoves, FindMoves
  <1>2. pc[c] \in ReadLabels \cup SetLabels \cup {"create", "appendPut", "writePut", "mountRoot"}
    BY <1>1, Operated
  <1>3. /\ OwnKey(c)' = OwnKey(c) /\ FirstKey(c)' = FirstKey(c) /\ NextKey(c)' = NextKey(c)
        /\ OtherKind(OwnKey(c))' = OtherKind(OwnKey(c))
    BY <1>1 DEF OwnKey, FirstKey, NextKey, OtherKind
  <1>4. /\ OwnKey(c) \in Key /\ FirstKey(c) \in Key /\ OtherKind(OwnKey(c)) \in Key
        /\ DirKey(Parent[job[c].path]) \in Key /\ <<"file", job[c].path>> \in Key
        /\ NextKey(c) \in Key \cup {NoKey} /\ NoKey \notin Key
    <2>1. pc[c] # "ready"
      BY DEF Operate
    <2> QED BY <1>1, <2>1, Keys
  <1>5. pc[c] \in ReadLabels => names' = names /\ len' = len /\ \A k : Live(k)' = Live(k)
    BY <1>1, ReadIs DEF Live
  <1>6. pc[c] \in LenLabels => v = len[me[c].ino]
    BY <1>1, Measured
  <1>7. /\ pc[c] = "other" => v = names[OtherKind(OwnKey(c))]
        /\ pc[c] = "mine" => v = names[OwnKey(c)]
        /\ pc[c] = "parent" => v = names[DirKey(Parent[job[c].path])]
        /\ pc[c] = "first" => v = names[FirstKey(c)]
        /\ pc[c] = "trunc" => v = names[<<"file", job[c].path>>]
        /\ pc[c] = "second" /\ NextKey(c) # NoKey => v = names[NextKey(c)]
        /\ pc[c] = "second" /\ NextKey(c) = NoKey => v = 0
    BY <1>1, <1>4, Values, LookupIs DEF LookedUp, LookupLabels
  <1> HIDE DEF v
  <1>8. ASSUME pc'[c] \in {"return", "linkTo", "openLen", "writePut", "dirLen", "dirGet", "scan"}
        PROVE  SoloAt(c)'
    BY <1>8 DEF SoloAt, Appending
  <1>9. \A r : Ended(c, r) => SoloAt(c)'
    BY <1>1, <1>8, FieldsEnded
  <1>10. CASE pc[c] = "other"
    <2>1. pc'[c] = (IF v = 0 THEN "mine" ELSE "otherLen") /\ me'[c].ino = v
      <3>1. Notes(c, IF v = 0 THEN "mine" ELSE "otherLen", v)
        BY <1>1, <1>10, MakeMoves
      <3> QED BY <1>1, <3>1, FieldsNotes
    <2>2. names' = names /\ len' = len /\ \A k : Live(k)' = Live(k)
      BY <1>5, <1>10 DEF ReadLabels, LookupLabels
    <2>3. v = 0 => ~Live(OtherKind(OwnKey(c)))
      BY <1>7, <1>10 DEF Live
    <2>4. v = names'[OtherKind(OwnKey(c))]
      BY <1>7, <1>10, <2>2
    <2>5. v = 0 => ~Live(OtherKind(OwnKey(c)))'
      BY <1>3, <2>2, <2>3 DEF Live
    <2> QED BY <1>3, <2>1, <2>4, <2>5 DEF SoloAt, Appending
  <1>11. CASE pc[c] = "otherLen"
    <2>1. CASE v # -1
      <3>1. Ended(c, Failed)
        BY <1>11, <1>26, <2>1
      <3> QED BY <1>9, <3>1
    <2>2. CASE v = -1
      <3>1. pc'[c] = "mine"
        <4>1. MovesTo(c, "mine")
          BY <1>1, <1>11, <2>2, MakeMoves
        <4> QED BY <1>1, <4>1, FieldsMoves
      <3>2. ~Live(OtherKind(OwnKey(c)))
        BY <1>1, <1>6, <1>11, <2>2 DEF SoloAt, Live, LenLabels
      <3>3. ~Live(OtherKind(OwnKey(c)))'
        BY <1>3, <1>5, <1>11, <3>2 DEF ReadLabels, LenLabels, Live
      <3> QED BY <3>1, <3>3 DEF SoloAt, Appending
    <2> QED BY <2>1, <2>2
  <1>12. CASE pc[c] = "mine"
    <2>1. pc'[c] = (IF v = 0 THEN "parent" ELSE "mineLen") /\ me'[c].ino = v
      <3>1. Notes(c, IF v = 0 THEN "parent" ELSE "mineLen", v)
        BY <1>1, <1>12, MakeMoves
      <3> QED BY <1>1, <3>1, FieldsNotes
    <2>2. names' = names /\ len' = len
      BY <1>5, <1>12 DEF ReadLabels, LookupLabels
    <2>3. ~Live(OtherKind(OwnKey(c)))'
      BY <1>1, <1>3, <1>12, <2>2 DEF SoloAt, Live
    <2>4. v = names'[OwnKey(c)]
      BY <1>7, <1>12, <2>2
    <2> QED BY <1>3, <2>1, <2>3, <2>4 DEF SoloAt, Appending
  <1>13. CASE pc[c] = "mineLen"
    <2>1. CASE v # -1
      <3>1. Ended(c, Failed)
        BY <1>13, <1>26, <2>1
      <3> QED BY <1>9, <3>1
    <2>2. CASE v = -1
      <3>1. pc'[c] = "revive" /\ me'[c] = me[c]
        <4>1. MovesTo(c, "revive")
          BY <1>1, <1>13, <2>2, MakeMoves
        <4> QED BY <1>1, <4>1, FieldsMoves
      <3>2. names' = names /\ len' = len
        BY <1>5, <1>13 DEF ReadLabels, LenLabels
      <3>3. ~Live(OtherKind(OwnKey(c)))'
        BY <1>1, <1>3, <1>13, <3>2 DEF SoloAt, Live
      <3>4. len'[me[c].ino] = -1 /\ me[c].ino = names'[OwnKey(c)]
        BY <1>1, <1>6, <1>13, <2>2, <3>2 DEF SoloAt, LenLabels
      <3> QED BY <1>3, <3>1, <3>3, <3>4 DEF SoloAt, Appending
    <2> QED BY <2>1, <2>2
  <1>14. CASE pc[c] \in {"revive", "appendPut"}
    BY <1>1, <1>9, <1>14, MakeMoves
  <1>15. CASE pc[c] = "parent"
    <2>1. CASE v = 0
      <3>1. Ended(c, Failed)
        BY <1>1, <1>15, <2>1, MakeMoves
      <3> QED BY <1>9, <3>1
    <2>2. CASE v # 0
      <3>1. pc'[c] = "create" /\ me'[c].ino = v
        <4>1. Notes(c, "create", v)
          BY <1>1, <1>15, <2>2, MakeMoves
        <4> QED BY <1>1, <4>1, FieldsNotes
      <3>2. names' = names /\ len' = len
        BY <1>5, <1>15 DEF ReadLabels, LookupLabels
      <3>3. ~Live(OtherKind(OwnKey(c)))' /\ names'[OwnKey(c)] = 0
        BY <1>1, <1>3, <1>15, <3>2 DEF SoloAt, Live
      <3>4. v = names'[DirKey(Parent[job[c].path])]
        BY <1>7, <1>15, <3>2
      <3> QED BY <1>1, <1>3, <3>1, <3>3, <3>4 DEF SoloAt, Appending
    <2> QED BY <2>1, <2>2
  <1>16. CASE pc[c] = "create"
    <2>1. Moved(c, "appendLen", [me[c] EXCEPT !.own = v], handle[c])
      BY <1>1, <1>16, MakeMoves
    <2>2. pc'[c] = "appendLen" /\ me'[c].ino = me[c].ino
      BY <1>1, <2>1, FieldsOwn
    <2>3. me[c].ino = names[DirKey(Parent[job[c].path])] /\ names[OwnKey(c)] = 0 /\ me[c].ino # 0
      BY <1>1, <1>16, LocalIs DEF SoloAt
    <2>4. names' = [names EXCEPT ![OwnKey(c)] = inodes + 1] /\ names \in [Key -> Inode \cup {0}]
      BY <1>1, <1>16, CreateIs DEF CreatedKey, Types, FileTypes
    <2>5. me[c].ino = names'[DirKey(Parent[job[c].path])]
      BY <1>4, <2>3, <2>4
    <2> QED BY <1>1, <2>2, <2>5 DEF SoloAt, Appending
  <1>17. CASE pc[c] = "appendLen"
    <2>1. pc'[c] = "appendSet" /\ me'[c].ino = me[c].ino /\ me'[c].at = v
      <3>1. NotesAt(c, "appendSet", v)
        BY <1>1, <1>17, MakeMoves
      <3> QED BY <1>1, <3>1, FieldsAt
    <2>2. names' = names /\ len' = len
      BY <1>5, <1>17 DEF ReadLabels, LenLabels
    <2>3. me[c].ino = names[DirKey(Parent[job[c].path])] /\ v = len[me[c].ino]
      BY <1>1, <1>6, <1>17 DEF SoloAt, Appending, LenLabels
    <2> QED BY <1>1, <2>1, <2>2, <2>3 DEF SoloAt, Appending
  <1>18. CASE pc[c] = "appendSet"
    <2>1. pc'[c] = "appendPut" /\ me'[c] = me[c]
      <3>1. MovesTo(c, "appendPut")
        BY <1>1, <1>18, MakeMoves
      <3> QED BY <1>1, <3>1, FieldsMoves
    <2>2. names' = names
      BY <1>1, <1>18, SizeIs DEF SetLabels
    <2>3. me[c].ino = names[DirKey(Parent[job[c].path])]
      BY <1>1, <1>18 DEF SoloAt, Appending
    <2> QED BY <1>1, <2>1, <2>2, <2>3 DEF SoloAt, Appending
  <1>19. CASE pc[c] = "first"
    <2>1. pc'[c] = (IF v = 0 THEN "second" ELSE "firstLen") /\ me'[c].ino = v
      <3>1. Notes(c, IF v = 0 THEN "second" ELSE "firstLen", v)
        BY <1>1, <1>19, FindMoves
      <3> QED BY <1>1, <3>1, FieldsNotes
    <2>2. names' = names /\ len' = len
      BY <1>5, <1>19 DEF ReadLabels, LookupLabels
    <2>3. v = names'[FirstKey(c)]
      BY <1>7, <1>19, <2>2
    <2>4. v = 0 => ~Live(FirstKey(c))'
      BY <1>3, <2>3 DEF Live
    <2> QED BY <1>3, <2>1, <2>3, <2>4 DEF SoloAt, Appending
  <1>20. CASE pc[c] = "firstLen"
    <2>1. pc'[c] = (IF v = -1 THEN "second" ELSE "lastLen") /\ me'[c] = me[c]
      <3>1. MovesTo(c, IF v = -1 THEN "second" ELSE "lastLen")
        BY <1>1, <1>20, FindMoves
      <3> QED BY <1>1, <3>1, FieldsMoves
    <2>2. names' = names /\ len' = len
      BY <1>5, <1>20 DEF ReadLabels, LenLabels
    <2>3. me[c].ino = names'[FirstKey(c)] /\ me[c].dir = 0 /\ v = len'[me[c].ino]
      BY <1>1, <1>6, <1>20, <2>2 DEF SoloAt, FreshAt, LenLabels
    <2>4. v = -1 => ~Live(FirstKey(c))'
      BY <1>3, <2>3 DEF Live
    <2> QED BY <1>3, <2>1, <2>3, <2>4 DEF SoloAt, Appending
  <1>21. CASE pc[c] = "second"
    <2>1. CASE v = 0
      <3>1. Ended(c, Failed)
        BY <1>1, <1>21, <2>1, FindMoves
      <3> QED BY <1>9, <3>1
    <2>2. CASE v # 0
      <3>1. Moved(c, "lastLen", [me[c] EXCEPT !.ino = v, !.dir = 1], handle[c])
        BY <1>1, <1>21, <2>2, FindMoves
      <3>2. pc'[c] = "lastLen" /\ me'[c] = [me[c] EXCEPT !.ino = v, !.dir = 1] /\ me[c] \in Locals
        BY <1>1, <3>1, MovedIs, Here
      <3>6. me'[c].ino = v /\ me'[c].dir = 1
        BY <3>2 DEF Locals
      <3>3. names' = names /\ len' = len
        BY <1>5, <1>21 DEF ReadLabels, LookupLabels
      <3>4. NextKey(c) # NoKey /\ v = names'[NextKey(c)]
        BY <1>7, <1>21, <2>2, <3>3
      <3>5. ~Live(FirstKey(c))'
        BY <1>1, <1>3, <1>21, <3>3 DEF SoloAt, Live
      <3> QED BY <1>3, <3>2, <3>4, <3>5, <3>6 DEF SoloAt, Appending
    <2> QED BY <2>1, <2>2
  <1>22. CASE pc[c] = "lastLen"
    <2>1. CASE v = -1 \/ job[c].kind = "getattr"
      <3>1. Ended(c, Failed) \/ Ended(c, 1 + me[c].dir)
        BY <1>22, <1>26, <2>1
      <3> QED BY <1>9, <3>1
    <2>2. CASE v # -1 /\ job[c].kind # "getattr"
      <3>1. pc'[c] = "remove" /\ me'[c] = me[c]
        <4>1. MovesTo(c, "remove")
          BY <1>22, <1>26, <2>2
        <4> QED BY <1>1, <4>1, FieldsMoves
      <3>2. names' = names /\ len' = len
        BY <1>5, <1>22 DEF ReadLabels, LenLabels
      <3>3. len'[me[c].ino] # -1
        BY <1>6, <1>22, <2>2, <3>2 DEF LenLabels
      <3>4. \/ me[c].dir = 0 /\ me[c].ino = names[FirstKey(c)] /\ len[me[c].ino] # -1
            \/ me[c].dir = 1 /\ me[c].ino = names[NextKey(c)] /\ NextKey(c) # NoKey /\ ~Live(FirstKey(c))
        BY <1>1, <1>22 DEF SoloAt
      <3>5. ~Live(FirstKey(c)) => ~Live(FirstKey(c))'
        BY <1>3, <3>2 DEF Live
      <3> QED BY <1>3, <3>1, <3>2, <3>3, <3>4, <3>5 DEF SoloAt, Appending
    <2> QED BY <2>1, <2>2
  <1>23. CASE pc[c] \in {"remove", "cut", "writePut", "readGet", "mountRoot", "linkTo"}
    BY <1>1, <1>9, <1>23, FindMoves
  <1>24. CASE pc[c] = "trunc"
    <2>1. CASE v = 0
      <3>1. Ended(c, Failed)
        BY <1>1, <1>24, <2>1, FindMoves
      <3> QED BY <1>9, <3>1
    <2>2. CASE v # 0
      <3>1. pc'[c] = "cut" /\ me'[c].ino = v
        <4>1. Notes(c, "cut", v)
          BY <1>1, <1>24, <2>2, FindMoves
        <4> QED BY <1>1, <4>1, FieldsNotes
      <3>2. v = names'[<<"file", job[c].path>>]
        BY <1>5, <1>7, <1>24 DEF ReadLabels, LookupLabels
      <3> QED BY <1>1, <3>1, <3>2 DEF SoloAt, Appending
    <2> QED BY <2>1, <2>2
  <1>25. CASE pc[c] \in {"linkFrom", "open", "openLen", "extend", "dirLookup", "dirLen", "dirGet", "scan"}
    <2>1. pc'[c] \in {"return", "linkTo", "openLen", "writePut", "dirLen", "dirGet", "scan"}
      BY <1>1, <1>25, Operated DEF GoesTo
    <2> QED BY <1>8, <2>1
  <1> QED BY <1>2, <1>10, <1>11, <1>12, <1>13, <1>14, <1>15, <1>16, <1>17, <1>18, <1>19, <1>20, <1>21,
             <1>22, <1>23, <1>24, <1>25 DEF ReadLabels, LookupLabels, LenLabels, SetLabels

LEMMA SoloQuiet ==
  ASSUME Solo, Active = Client, NEW c \in Client, Quiet(c)
  PROVE  Solo'
  <1>1. /\ Core /\ Types /\ Flow /\ Alone /\ ActiveNeverRaces
        /\ \A d \in Client : SoloAt(d) /\ OpenAt(d) /\ FreshAt(d)
    BY DEF Solo, Core, Base
  <1>2. /\ UNCHANGED files /\ UNCHANGED handle
        /\ \A d \in Client : d # c => pc'[d] = pc[d] /\ me'[d] = me[d] /\ job'[d] = job[d]
        /\ was'.overlapped = was.overlapped /\ was'.raced = was.raced
        /\ pc'[c] \in Starts \cup {"ready"}
        /\ pc'[c] = "ready" => me'[c] = NoLocals
        /\ pc'[c] # "ready" => me'[c] = me[c]
    BY <1>1, QuietIs
  <1>3. ASSUME NEW d \in Client, d # c PROVE SoloAt(d)' /\ OpenAt(d)' /\ FreshAt(d)'
    <2>1. /\ OwnKey(d)' = OwnKey(d) /\ FirstKey(d)' = FirstKey(d) /\ NextKey(d)' = NextKey(d)
          /\ \A k : Live(k)' = Live(k) /\ OtherKind(k)' = OtherKind(k)
          /\ UNCHANGED <<names, len>>
      BY <1>2, <1>3 DEF OwnKey, FirstKey, NextKey, OtherKind, Live, files
    <2>2. SoloAt(d)'
      BY <1>1, <1>2, <1>3, <2>1 DEF SoloAt, OtherKind
    <2> QED BY <1>1, <1>2, <1>3, <2>1, <2>2 DEF OpenAt, FreshAt
  <1>4. SoloAt(c)' /\ OpenAt(c)'
    BY <1>1, <1>2 DEF SoloAt, OpenAt, Starts, Appending, files
  <1>5. FreshAt(c)'
    <2>1. CASE pc'[c] = "ready"
      BY <1>2, <2>1 DEF FreshAt, NoLocals
    <2>2. CASE pc'[c] # "ready"
      <3>1. pc[c] \in {"ready", "queued"}
        BY <1>1, <2>2 DEF Quiet, Call, Run, Return, Types, ClientTypes
      <3> QED BY <1>1, <1>2, <2>2, <3>1 DEF FreshAt
    <2> QED BY <2>1, <2>2
  <1> QED BY <1>1, <1>2, <1>3, <1>4, <1>5, CoreQuiet, AloneStep DEF Solo, ActiveNeverRaces

LEMMA SoloAlways ==
  ASSUME Active = Client
  PROVE  Spec => []Solo
  <1>1. Init => Solo
    <2> SUFFICES ASSUME Init PROVE Solo
      OBVIOUS
    <2>1. Alone /\ ActiveNeverRaces
      BY DEF Init, Alone, Working, ActiveNeverRaces
    <2>2. \A c \in Client : SoloAt(c) /\ OpenAt(c) /\ FreshAt(c)
      BY DEF Init, SoloAt, OpenAt, FreshAt, Appending, NoHandle, NoLocals
    <2> QED BY <2>1, <2>2, CoreInit DEF Solo
  <1>2. Solo /\ [Next]_vars => Solo'
    <2> SUFFICES ASSUME Solo, [Next]_vars PROVE Solo'
      OBVIOUS
    <2>1. CASE UNCHANGED vars
      <3>1. \A c : OwnKey(c)' = OwnKey(c) /\ FirstKey(c)' = FirstKey(c) /\ NextKey(c)' = NextKey(c)
        BY <2>1 DEF vars, OwnKey, FirstKey, NextKey
      <3>2. \A c \in Client : SoloAt(c)' /\ OpenAt(c)' /\ FreshAt(c)'
        BY <2>1, <3>1 DEF Solo, SoloAt, OpenAt, FreshAt, vars, files, Live, OtherKind
      <3>3. Alone' /\ ActiveNeverRaces'
        BY <2>1 DEF Solo, Alone, Working, ActiveNeverRaces, vars
      <3> QED BY <2>1, <3>2, <3>3, CoreStays DEF Solo
    <2>2. CASE \E c \in Client : Quiet(c)
      BY <2>2, SoloQuiet
    <2>3. CASE \E c \in Client : Operate(c)
      <3>1. PICK c \in Client : Operate(c)
        BY <2>3
      <3>2. \A d \in Client : SoloAt(d)' /\ OpenAt(d)' /\ FreshAt(d)'
        BY <3>1, SoloOthers, SoloSelf, OpenSelf, FreshSelf DEF Solo
      <3> QED BY <3>1, <3>2, CoreOperate, AloneStep, NoRace DEF Solo
    <2> QED BY <2>1, <2>2, <2>3, NextIs
  <1> QED BY <1>1, <1>2, PTL DEF Spec

(* ActiveNeverRaces: where all mounts are active no append to a directory is   *)
(* overtaken and no two makings of a path are under way at once, as the server *)
(* runs the mobile code of one request to its end before it takes another.     *)
THEOREM FilesActiveNeverRaces ==
  ASSUME Active = Client
  PROVE  Spec => []ActiveNeverRaces
  <1>1. Solo => ActiveNeverRaces
    BY DEF Solo
  <1> QED BY <1>1, SoloAlways, PTL

-------------------------------------------------------------------------------
(* The names of active mounts implement NameTree.                              *)
KnownNames == {k \in Key : names[k] # 0}
LiveNames  == {k \in Key : Live(k)}
Phase == [c \in Client |-> IF job[c] = NoJob THEN "idle"
                           ELSE IF pc[c] \in Entered THEN "done" ELSE "called"]
Reply == [c \in Client |-> IF job[c] # NoJob /\ pc[c] = "return" THEN me[c].result ELSE 0]
TreeVars == <<KnownNames, LiveNames, Phase, job, Reply>>

(* What the tree sees of the client that goes on.                              *)
LEMMA PhaseIs ==
  ASSUME Types, Flow, NEW c \in Client, Operate(c)
  PROVE  /\ Phase[c] = IF pc[c] \in Appending THEN "done" ELSE "called"
         /\ Reply[c] = 0 /\ UNCHANGED job /\ job[c] \in Jobs
         /\ Phase' = [Phase EXCEPT ![c] = IF pc'[c] \in Entered THEN "done" ELSE "called"]
         /\ Reply' = [Reply EXCEPT ![c] = IF pc'[c] = "return" THEN me'[c].result ELSE 0]
  <1>1. /\ job' = job /\ job[c] \in Jobs /\ job[c] # NoJob /\ pc[c] # "return"
        /\ \A d \in Client : d # c => pc'[d] = pc[d] /\ me'[d] = me[d]
    BY Operated, JobTypes DEF Operate
  <1> QED BY <1>1 DEF Phase, Reply, Entered, Appending

LEMMA Silent ==
  ASSUME Types, Flow, NEW c \in Client, Operate(c), KnownNames' = KnownNames, LiveNames' = LiveNames,
         pc[c] \in Appending <=> pc'[c] \in Entered, pc'[c] = "return" => me'[c].result = 0
  PROVE  UNCHANGED TreeVars
  <1>1. Phase = [Phase EXCEPT ![c] = Phase[c]] /\ Reply = [Reply EXCEPT ![c] = Reply[c]]
    BY DEF Phase, Reply
  <1> QED BY <1>1, PhaseIs DEF TreeVars

(* The call is answered: Done, for the tree.                                   *)
Answer(c, v) == /\ Phase[c] = "called" /\ Phase' = [Phase EXCEPT ![c] = "done"]
                /\ Reply' = [Reply EXCEPT ![c] = v]
                /\ UNCHANGED job
LEMMA Answered ==
  ASSUME Types, Flow, NEW c \in Client, Operate(c), pc[c] \notin Appending, pc'[c] \in Entered
  PROVE  Answer(c, IF pc'[c] = "return" THEN me'[c].result ELSE 0)
  BY PhaseIs DEF Answer

(* What becomes of the names.                                                  *)
LEMMA NamesRead ==
  ASSUME Core, NEW c \in Client, Operate(c), pc[c] \in ReadLabels \cup {"appendPut", "writePut"}
  PROVE  KnownNames' = KnownNames /\ LiveNames' = LiveNames
  BY ReadIs DEF KnownNames, LiveNames, Live

LEMMA NamesSet ==
  ASSUME Core, NEW c \in Client, Operate(c), pc[c] \in SetLabels
  PROVE  /\ KnownNames' = KnownNames
         /\ \A k \in Key : names[k] = SetIno(c) =>
              /\ k \in KnownNames
              /\ LiveNames' = IF SetTo(c) = -1 THEN LiveNames \ {k} ELSE LiveNames \cup {k}
  <1>1. /\ len' = [len EXCEPT ![SetIno(c)] = SetTo(c)] /\ SetIno(c) \in Inode /\ names' = names
        /\ SetIno(c) # 0 /\ len \in [Inode -> Offsets] /\ names \in [Key -> Inode \cup {0}]
    BY SizeIs, SetsOf DEF Core, Base, Types, FileTypes
  <1>2. ASSUME NEW k \in Key, names[k] = SetIno(c)
        PROVE  /\ k \in KnownNames
               /\ LiveNames' = IF SetTo(c) = -1 THEN LiveNames \ {k} ELSE LiveNames \cup {k}
    <2>1. \A l \in Key : names[l] = SetIno(c) => l = k
      BY <1>1, <1>2 DEF Core, Base, Known, Is
    <2>2. \A l \in Key : Live(l)' <=> IF l = k THEN SetTo(c) # -1 ELSE Live(l)
      BY <1>1, <1>2, <2>1 DEF Live
    <2> QED BY <1>1, <1>2, <2>2 DEF KnownNames, LiveNames
  <1> QED BY <1>1, <1>2 DEF KnownNames

LEMMA NamesCreated ==
  ASSUME Core, NEW c \in Client, Operate(c), pc[c] \in {"create", "mountRoot"}
  PROVE  /\ KnownNames' = KnownNames \cup {CreatedKey(c)}
         /\ LiveNames' = LiveNames \cup {CreatedKey(c)}
  <1>1. /\ CreatedKey(c) \in Key /\ inodes + 1 \in Inode /\ len' = len
        /\ names' = [names EXCEPT ![CreatedKey(c)] = inodes + 1] /\ names \in [Key -> Inode \cup {0}]
    BY CreateIs DEF Core, Base, Types, FileTypes
  <1>2. len[inodes + 1] = 0 /\ inodes + 1 # 0
    BY <1>1, Sizes DEF Core, Base, Known, Types, FileTypes
  <1>3. \A k \in Key : Live(k)' <=> k = CreatedKey(c) \/ Live(k)
    BY <1>1, <1>2 DEF Live
  <1> QED BY <1>1, <1>2, <1>3 DEF KnownNames, LiveNames

(* Calls begin and end for the tree as they do in the program.                 *)
LEMMA QuietTree ==
  ASSUME Solo, Active = Client, NEW c \in Client, Quiet(c)
  PROVE  Tree!Next \/ UNCHANGED TreeVars
  <1>1. Core /\ Types /\ Flow /\ FreshAt(c) /\ FlowAt(c)
    BY DEF Solo, Core, Base, Flow
  <1>2. /\ names' = names /\ len' = len
        /\ \A d \in Client : d # c => pc'[d] = pc[d] /\ me'[d] = me[d] /\ job'[d] = job[d]
        /\ pc'[c] \in Starts \cup {"ready"}
        /\ pc'[c] = "ready" => job'[c] = NoJob
        /\ pc'[c] # "ready" => job'[c] \in Jobs /\ me'[c] = me[c]
        /\ pc'[c] = "return" => job'[c].kind = "read"
    BY <1>1, QuietIs DEF files
  <1>3. KnownNames' = KnownNames /\ LiveNames' = LiveNames
    BY <1>2 DEF KnownNames, LiveNames, Live
  <1>4. Phase = [Phase EXCEPT ![c] = Phase[c]] /\ Reply = [Reply EXCEPT ![c] = Reply[c]]
    BY DEF Phase, Reply
  <1>5. Phase' = [Phase EXCEPT ![c] = Phase'[c]] /\ Reply' = [Reply EXCEPT ![c] = Reply'[c]]
    BY <1>2 DEF Phase, Reply
  <1>6. /\ Phase[c] = IF job[c] = NoJob THEN "idle" ELSE IF pc[c] \in Entered THEN "done" ELSE "called"
        /\ Phase'[c] = IF job'[c] = NoJob THEN "idle" ELSE IF pc'[c] \in Entered THEN "done" ELSE "called"
        /\ Reply[c] = IF job[c] # NoJob /\ pc[c] = "return" THEN me[c].result ELSE 0
        /\ Reply'[c] = IF job'[c] # NoJob /\ pc'[c] = "return" THEN me'[c].result ELSE 0
    BY DEF Phase, Reply
  <1>7. CASE Run(c)
    <2>1. job' = job /\ pc[c] = "queued" /\ pc'[c] # "ready" /\ job[c] \in Jobs /\ job[c].kind # "read"
      <3>1. job' = job /\ pc[c] = "queued" /\ pc'[c] = FirstLabel(c, job[c])
        BY <1>1, <1>7 DEF Run, Types, ClientTypes
      <3>2. job[c] \in Jobs /\ job[c].kind \in OneRequest
        BY <1>1, <3>1, Kinds
      <3> QED BY <3>1, <3>2, FirstIs DEF OneRequest
    <2>2. pc'[c] \notin Entered /\ job[c] # NoJob
      BY <1>2, <2>1, JobTypes DEF Starts, Entered
    <2>3. Phase'[c] = Phase[c] /\ Reply'[c] = Reply[c]
      BY <1>6, <2>1, <2>2 DEF Entered
    <2> QED BY <1>3, <1>4, <1>5, <2>1, <2>3 DEF TreeVars
  <1>8. CASE Return(c)
    <2>1. /\ pc[c] = "return" /\ pc'[c] = "ready" /\ job' = [job EXCEPT ![c] = NoJob] /\ job'[c] = NoJob
          /\ job[c] # NoJob
      BY <1>1, <1>8, JobTypes DEF Return, Types, ClientTypes, FlowAt
    <2>2. Phase[c] = "done" /\ Phase'[c] = "idle" /\ Reply'[c] = 0
      BY <1>6, <2>1 DEF Entered
    <2>3. Phase' = [Phase EXCEPT ![c] = "idle"] /\ Reply' = [Reply EXCEPT ![c] = 0]
      BY <1>5, <2>2
    <2>4. Tree!NoJob = NoJob
      BY DEF Tree!NoJob, NoJob
    <2>5. Tree!Return(c)
      BY <1>3, <2>1, <2>2, <2>3, <2>4 DEF Tree!Return, KnownNames, LiveNames, Phase, Reply
    <2> QED BY <2>5 DEF Tree!Next
  <1>9. CASE Call(c)
    <2>1. PICK j \in Jobs : job' = [job EXCEPT ![c] = j] /\ pc[c] = "ready"
      BY <1>9 DEF Call
    <2>2. job[c] = NoJob /\ job'[c] = j /\ j # NoJob
      BY <1>1, <2>1, JobTypes DEF FlowAt, Types, ClientTypes
    <2>3. pc'[c] # "ready"
      BY <1>1, <1>9, <2>2, QuietIs
    <2>4. Phase[c] = "idle" /\ Reply[c] = 0 /\ me'[c].result = 0
      BY <1>1, <1>2, <1>6, <2>1, <2>2, <2>3 DEF FreshAt
    <2>5. Reply'[c] = 0 /\ (Phase'[c] = "called" \/ (j.kind = "read" /\ Phase'[c] = "done"))
      BY <1>2, <1>6, <2>2, <2>3, <2>4 DEF Starts, Entered
    <2>6. Reply' = Reply
      BY <1>4, <1>5, <2>4, <2>5
    <2>7. \/ Phase' = [Phase EXCEPT ![c] = "called"]
          \/ j.kind = "read" /\ Phase' = [Phase EXCEPT ![c] = "done"]
      BY <1>5, <2>5
    <2>8. Tree!Call(c)
      BY <1>3, <2>1, <2>4, <2>6, <2>7 DEF Tree!Call, KnownNames, LiveNames, Phase, Reply
    <2> QED BY <2>8 DEF Tree!Next
  <1> QED BY <1>7, <1>8, <1>9 DEF Quiet

(* A step at which nothing is answered, and the names stay.                    *)
LEMMA ReadSilent ==
  ASSUME Core, NEW c \in Client, Operate(c), pc[c] \in ReadLabels \cup {"appendPut", "writePut"},
         pc[c] \in Appending <=> pc'[c] \in Entered, pc'[c] = "return" => me'[c].result = 0
  PROVE  UNCHANGED TreeVars
  BY NamesRead, Silent DEF Core, Base
(* One that ends the call, and the names stay.                                 *)
LEMMA ReadAnswered ==
  ASSUME Core, NEW c \in Client, Operate(c), pc[c] \in ReadLabels \cup {"writePut"}, pc'[c] = "return"
  PROVE  Answer(c, me'[c].result) /\ KnownNames' = KnownNames /\ LiveNames' = LiveNames
  <1>1. pc[c] \notin Appending \/ pc[c] = "appendLen"
    BY DEF ReadLabels, LookupLabels, LenLabels, Appending
  <1>2. pc[c] # "appendLen"
    <2>1. pc[c] = "appendLen" => pc'[c] = "appendSet"
      BY Operated DEF GoesTo, Core, Base
    <2> QED BY <2>1
  <1>3. Answer(c, IF pc'[c] = "return" THEN me'[c].result ELSE 0)
    BY <1>1, <1>2, Answered DEF Entered, Core, Base
  <1> QED BY <1>3, NamesRead DEF Answer

LEMMA EndedTree ==
  ASSUME Core, NEW c \in Client, Operate(c), pc[c] \in ReadLabels \cup {"writePut"}, NEW r, Ended(c, r)
  PROVE  Answer(c, r) /\ KnownNames' = KnownNames /\ LiveNames' = LiveNames
  <1>1. pc'[c] = "return" /\ me'[c].result = r
    BY FieldsEnded DEF Core, Base
  <1> QED BY <1>1, ReadAnswered DEF Answer

(* mkdir and mknod.                                                            *)
LEMMA MakeTree ==
  ASSUME Solo, NEW c \in Client, Operate(c), pc[c] \in MakeLabels
  PROVE  Tree!Make(c) \/ Tree!Regrow(c) \/ UNCHANGED TreeVars
  <1> DEFINE v == Value(OpOf(c))
             p == job[c].path
             there == {n \in LiveNames : n[2] = p}
  <1>1. /\ Core /\ Base /\ Types /\ Flow /\ SoloAt(c) /\ Parts(c, v) /\ job' = job
        /\ pc[c] # "ready"
    BY Operated DEF Solo, Core, Base, Operate
  <1>2. job[c].kind \in {"mkdir", "mknod"}
    BY <1>1, Kinds DEF MakeLabels, Entries0, Appending
  <1>3. /\ p \in Path /\ OwnKey(c) \in Key /\ OtherKind(OwnKey(c)) \in Key
        /\ DirKey(Parent[p]) \in Key /\ OwnKey(c)[2] = p /\ OtherKind(OwnKey(c))[2] = p
        /\ \A k \in Key : k[2] = p => k = OwnKey(c) \/ k = OtherKind(OwnKey(c))
    BY <1>1, Keys
  <1>4. /\ OwnKey(c) = <<IF job[c].kind = "mkdir" THEN "dir" ELSE "file", p>>
        /\ DirKey(Parent[p]) = <<"dir", Parent[p]>>
    BY DEF OwnKey, DirKey
  <1>5. /\ pc[c] = "mine" => v = names[OwnKey(c)]
        /\ pc[c] = "parent" => v = names[DirKey(Parent[p])]
        /\ pc[c] \in LenLabels => v = len[me[c].ino] /\ me[c].ino # 0
    BY <1>1, <1>3, LookupIs, Measured DEF LookedUp, LookupLabels
  <1>6. ASSUME Live(OwnKey(c)) \/ Live(OtherKind(OwnKey(c))) PROVE there # {}
    BY <1>3, <1>6 DEF LiveNames
  <1>7. ASSUME ~Live(OwnKey(c)), ~Live(OtherKind(OwnKey(c))) PROVE there = {}
    BY <1>3, <1>7 DEF LiveNames
  <1> HIDE DEF v
  <1>8. ASSUME Ended(c, Failed), pc[c] \in ReadLabels,
               there # {} \/ (OwnKey(c) \notin KnownNames /\ DirKey(Parent[p]) \notin KnownNames)
        PROVE  Tree!Make(c)
    <2>1. Answer(c, Failed) /\ KnownNames' = KnownNames /\ LiveNames' = LiveNames
      BY <1>1, <1>8, EndedTree
    <2>2. Tree!Failed = Failed
      BY DEF Tree!Failed, Failed
    <2> QED BY <1>2, <1>4, <1>8, <2>1, <2>2
            DEF Tree!Make, Tree!Done, Answer, Tree!There, KnownNames, LiveNames, Phase, Reply
  <1>9. ASSUME Answer(c, 0), there = {}, OwnKey(c) \in KnownNames \/ DirKey(Parent[p]) \in KnownNames,
               KnownNames' = KnownNames \cup {OwnKey(c)}, LiveNames' = LiveNames \cup {OwnKey(c)}
        PROVE  Tree!Make(c)
    BY <1>2, <1>4, <1>9 DEF Tree!Make, Tree!Done, Answer, Tree!There, KnownNames, LiveNames, Phase, Reply
  <1>10. ASSUME pc[c] \in {"other", "otherLen", "mine", "mineLen", "parent"},
                pc'[c] \notin Entered
         PROVE  UNCHANGED TreeVars
    BY <1>1, <1>10, ReadSilent DEF ReadLabels, LookupLabels, LenLabels, Appending, Entered
  <1>11. CASE pc[c] \in {"other", "mine"}
    <2>1. pc'[c] \in {"otherLen", "mine", "mineLen", "parent"}
      BY <1>1, <1>11, Operated DEF GoesTo
    <2> QED BY <1>10, <1>11, <2>1 DEF Entered
  <1>12. CASE pc[c] = "otherLen"
    <2>1. IF v # -1 THEN Ended(c, Failed) ELSE MovesTo(c, "mine")
      BY <1>1, <1>12, MakeMoves
    <2>2. CASE v # -1
      <3>1. Live(OtherKind(OwnKey(c)))
        BY <1>1, <1>5, <1>12, <2>2 DEF SoloAt, Live, LenLabels
      <3> QED BY <1>6, <1>8, <1>12, <2>1, <2>2, <3>1 DEF ReadLabels, LenLabels
    <2>3. CASE v = -1
      <3>1. MovesTo(c, "mine")
        BY <2>1, <2>3
      <3>2. pc'[c] = "mine"
        BY <1>1, <3>1, FieldsMoves
      <3> QED BY <1>10, <1>12, <3>2 DEF Entered
    <2> QED BY <2>2, <2>3
  <1>13. CASE pc[c] = "mineLen"
    <2>1. IF v # -1 THEN Ended(c, Failed) ELSE MovesTo(c, "revive")
      BY <1>1, <1>13, MakeMoves
    <2>2. CASE v # -1
      <3>1. Live(OwnKey(c))
        BY <1>1, <1>5, <1>13, <2>2 DEF SoloAt, Live, LenLabels
      <3> QED BY <1>6, <1>8, <1>13, <2>1, <2>2, <3>1 DEF ReadLabels, LenLabels
    <2>3. CASE v = -1
      <3>1. MovesTo(c, "revive")
        BY <2>1, <2>3
      <3>2. pc'[c] = "revive"
        BY <1>1, <3>1, FieldsMoves
      <3> QED BY <1>10, <1>13, <3>2 DEF Entered
    <2> QED BY <2>2, <2>3
  <1>14. CASE pc[c] = "revive"
    <2>1. Ended(c, 0)
      BY <1>1, <1>14, MakeMoves
    <2>2. pc'[c] = "return" /\ me'[c].result = 0
      BY <1>1, <2>1, FieldsEnded
    <2>3. Answer(c, IF pc'[c] = "return" THEN me'[c].result ELSE 0)
      BY <1>1, <1>14, <2>2, Answered DEF Appending, Entered
    <2>4. names[OwnKey(c)] = SetIno(c) /\ SetTo(c) = 0
      BY <1>1, <1>14 DEF SoloAt, SetIno, SetTo
    <2>5. /\ OwnKey(c) \in KnownNames /\ KnownNames' = KnownNames
          /\ LiveNames' = LiveNames \cup {OwnKey(c)}
      BY <1>1, <1>3, <1>14, <2>4, NamesSet DEF SetLabels
    <2>6. ~Live(OwnKey(c)) /\ ~Live(OtherKind(OwnKey(c)))
      BY <1>1, <1>14 DEF SoloAt, Live
    <2> QED BY <1>7, <1>9, <2>2, <2>3, <2>5, <2>6 DEF Answer
  <1>15. CASE pc[c] = "parent"
    <2>1. IF v = 0 THEN Ended(c, Failed) ELSE Notes(c, "create", v)
      BY <1>1, <1>15, MakeMoves
    <2>2. CASE v = 0
      <3>1. OwnKey(c) \notin KnownNames /\ DirKey(Parent[p]) \notin KnownNames
        BY <1>1, <1>5, <1>15, <2>2 DEF SoloAt, KnownNames
      <3> QED BY <1>8, <1>15, <2>1, <2>2, <3>1 DEF ReadLabels, LookupLabels
    <2>3. CASE v # 0
      <3>1. pc'[c] = "create"
        BY <1>1, <2>1, <2>3, FieldsNotes
      <3> QED BY <1>10, <1>15, <3>1 DEF Entered
    <2> QED BY <2>2, <2>3
  <1>16. CASE pc[c] = "create"
    <2>1. pc'[c] = "appendLen"
      BY <1>1, <1>16, Operated DEF GoesTo
    <2>2. Answer(c, IF pc'[c] = "return" THEN me'[c].result ELSE 0)
      BY <1>1, <1>16, <2>1, Answered DEF Appending, Entered
    <2>3. /\ KnownNames' = KnownNames \cup {OwnKey(c)} /\ LiveNames' = LiveNames \cup {OwnKey(c)}
      BY <1>1, <1>16, NamesCreated DEF CreatedKey
    <2>4. ~Live(OwnKey(c)) /\ ~Live(OtherKind(OwnKey(c)))
      BY <1>1, <1>16 DEF SoloAt, Live
    <2>5. DirKey(Parent[p]) \in KnownNames
      BY <1>1, <1>3, <1>16, LocalIs DEF SoloAt, KnownNames
    <2> QED BY <1>7, <1>9, <2>1, <2>2, <2>3, <2>4, <2>5 DEF Answer
  <1>17. CASE pc[c] \in {"appendLen", "appendPut"}
    <2>1. pc'[c] = "appendSet" \/ (pc'[c] = "return" /\ me'[c].result = 0)
      <3>1. CASE pc[c] = "appendLen"
        BY <1>1, <3>1, Operated DEF GoesTo
      <3>2. CASE pc[c] = "appendPut"
        <4>1. Ended(c, 0)
          BY <1>1, <3>2, MakeMoves
        <4> QED BY <1>1, <4>1, FieldsEnded
      <3> QED BY <1>17, <3>1, <3>2
    <2> QED BY <1>1, <1>17, <2>1, ReadSilent DEF ReadLabels, LenLabels, Appending, Entered
  <1>18. CASE pc[c] = "appendSet"
    <2>1. pc'[c] = "appendPut"
      BY <1>1, <1>18, Operated DEF GoesTo
    <2>2. SetIno(c) = names[DirKey(Parent[p])] /\ SetTo(c) # -1
      <3>1. SetTo(c) >= 0 /\ SetTo(c) \in Int
        BY <1>1, <1>18, SetsOf DEF SetLabels
      <3> QED BY <1>1, <1>18, <3>1 DEF SoloAt, SetIno, Appending
    <2>3. /\ KnownNames' = KnownNames /\ DirKey(Parent[p]) \in KnownNames
          /\ LiveNames' = LiveNames \cup {DirKey(Parent[p])}
      BY <1>1, <1>3, <1>18, <2>2, NamesSet DEF SetLabels
    <2>4. Phase[c] = "done" /\ Reply[c] = 0
      BY <1>1, <1>18, PhaseIs DEF Appending
    <2>5. Phase' = Phase /\ Reply' = Reply
      <3>1. /\ Phase' = [Phase EXCEPT ![c] = "done"]
            /\ Reply' = [Reply EXCEPT ![c] = 0]
        BY <1>1, <2>1, PhaseIs DEF Entered
      <3>2. Phase = [d \in Client |-> Phase[d]] /\ Reply = [d \in Client |-> Reply[d]]
        BY DEF Phase, Reply
      <3> QED BY <2>4, <3>1, <3>2
    <2>6. Tree!Regrow(c)
      BY <1>1, <1>2, <1>4, <2>3, <2>4, <2>5 DEF Tree!Regrow, KnownNames, LiveNames, Phase, Reply
    <2> QED BY <2>6
  <1> QED BY <1>11, <1>12, <1>13, <1>14, <1>15, <1>16, <1>17, <1>18 DEF MakeLabels, Entries0, Appending

(* getattr, unlink and rmdir.                                                  *)
LEMMA FindTree ==
  ASSUME Solo, NEW c \in Client, Operate(c), pc[c] \in {"first", "firstLen", "second", "lastLen", "remove"}
  PROVE  Tree!Getattr(c) \/ Tree!Remove(c) \/ UNCHANGED TreeVars
  <1> DEFINE v == Value(OpOf(c))
             p == job[c].path
             n == IF job[c].kind = "unlink" /\ <<"file", p>> \in LiveNames
                  THEN <<"file", p>> ELSE <<"dir", p>>
  <1>1. /\ Core /\ Base /\ Types /\ Flow /\ SoloAt(c) /\ FreshAt(c) /\ Parts(c, v) /\ job' = job
        /\ pc[c] # "ready"
    BY Operated DEF Solo, Core, Base, Operate
  <1>2. /\ job[c].kind \in {"getattr", "unlink", "rmdir"}
        /\ pc[c] = "remove" => job[c].kind \in {"unlink", "rmdir"}
    BY <1>1, Kinds
  <1>3. /\ p \in Path /\ FirstKey(c) \in Key /\ NextKey(c) \in Key \cup {NoKey} /\ NoKey \notin Key
        /\ <<"file", p>> \in Key /\ <<"dir", p>> \in Key
        /\ NextKey(c) = NoKey <=> job[c].kind = "rmdir"
    BY <1>1, Keys DEF DirKey
  <1>4. /\ job[c].kind # "rmdir" => FirstKey(c) = <<"file", p>> /\ NextKey(c) = <<"dir", p>>
        /\ job[c].kind = "rmdir" => FirstKey(c) = <<"dir", p>>
    BY DEF FirstKey, NextKey
  <1>5. /\ pc[c] \in LenLabels => v = len[me[c].ino] /\ me[c].ino # 0
        /\ pc[c] = "second" /\ NextKey(c) # NoKey => v = names[NextKey(c)]
        /\ pc[c] = "second" /\ NextKey(c) = NoKey => v = 0
    BY <1>1, <1>3, LookupIs, Measured, Values DEF LookedUp, LookupLabels
  <1>6. \A k \in Key : k \in LiveNames <=> Live(k)
    BY DEF LiveNames
  <1>7. /\ pc[c] = "second" => (v = 0 => Ended(c, Failed))
        /\ pc[c] = "lastLen" =>
              IF v = -1 THEN Ended(c, Failed)
              ELSE IF job[c].kind = "getattr" THEN Ended(c, 1 + me[c].dir) ELSE MovesTo(c, "remove")
    BY <1>1, FindMoves
  <1> HIDE DEF v
  <1>8. Tree!Failed = Failed
    BY DEF Tree!Failed, Failed
  <1>9. ASSUME NEW r, Answer(c, r), KnownNames' = KnownNames, LiveNames' = LiveNames \ {n},
               job[c].kind \in {"unlink", "rmdir"}, r = IF n \in LiveNames THEN 0 ELSE Failed
        PROVE  Tree!Remove(c)
    BY <1>8, <1>9 DEF Tree!Remove, Tree!Done, Answer, KnownNames, LiveNames, Phase, Reply
  <1>10. ASSUME NEW r, Answer(c, r), KnownNames' = KnownNames, LiveNames' = LiveNames,
                job[c].kind = "getattr",
                r = IF <<"file", p>> \in LiveNames THEN 1
                    ELSE IF <<"dir", p>> \in LiveNames THEN 2 ELSE Failed
         PROVE  Tree!Getattr(c)
    BY <1>8, <1>10 DEF Tree!Getattr, Tree!Done, Answer, KnownNames, LiveNames, Phase, Reply
  <1>11. ASSUME Ended(c, Failed), pc[c] \in ReadLabels,
                n \notin LiveNames, job[c].kind = "getattr" => <<"file", p>> \notin LiveNames
         PROVE  Tree!Getattr(c) \/ Tree!Remove(c)
    <2>1. Answer(c, Failed) /\ KnownNames' = KnownNames /\ LiveNames' = LiveNames
      BY <1>1, <1>11, EndedTree
    <2>2. LiveNames' = LiveNames \ {n}
      BY <1>11, <2>1
    <2>3. CASE job[c].kind = "getattr"
      BY <1>10, <1>11, <2>1, <2>3
    <2>4. CASE job[c].kind # "getattr"
      BY <1>2, <1>9, <1>11, <2>1, <2>2, <2>4
    <2> QED BY <2>3, <2>4
  <1>12. ASSUME pc[c] # "remove", pc'[c] \notin Entered PROVE UNCHANGED TreeVars
    BY <1>1, <1>12, ReadSilent DEF ReadLabels, LookupLabels, LenLabels, Appending, Entered
  <1>13. CASE pc[c] \in {"first", "firstLen"}
    <2>1. pc'[c] \in {"firstLen", "second", "lastLen"}
      BY <1>1, <1>13, Operated DEF GoesTo
    <2> QED BY <1>12, <1>13, <2>1 DEF Entered
  <1>14. CASE pc[c] = "second"
    <2>1. CASE v = 0
      <3>1. ~Live(FirstKey(c)) /\ (NextKey(c) # NoKey => ~Live(NextKey(c)))
        BY <1>1, <1>5, <1>14, <2>1 DEF SoloAt, Live
      <3>2. n \notin LiveNames /\ (job[c].kind = "getattr" => <<"file", p>> \notin LiveNames)
        BY <1>2, <1>3, <1>4, <1>6, <3>1
      <3> QED BY <1>7, <1>11, <1>14, <2>1, <3>2 DEF ReadLabels, LookupLabels
    <2>2. CASE v # 0
      <3>1. pc'[c] = "lastLen"
        <4>1. Moved(c, "lastLen", [me[c] EXCEPT !.ino = v, !.dir = 1], handle[c])
          BY <1>1, <1>14, <2>2, FindMoves
        <4> QED BY <1>1, <4>1, MovedIs
      <3> QED BY <1>12, <1>14, <3>1 DEF Entered
    <2> QED BY <2>1, <2>2
  <1>15. ASSUME pc[c] \in {"lastLen", "remove"}
         PROVE  \/ me[c].dir = 0 /\ me[c].ino = names[FirstKey(c)] /\ Live(FirstKey(c))
                \/ /\ me[c].dir = 1 /\ me[c].ino = names[NextKey(c)] /\ NextKey(c) # NoKey
                   /\ ~Live(FirstKey(c)) /\ (Live(NextKey(c)) <=> len[me[c].ino] # -1)
    BY <1>1, <1>15, LocalIs DEF SoloAt, Live
  <1>16. CASE pc[c] = "lastLen"
    <2>0. v = len[me[c].ino]
      BY <1>5, <1>16 DEF LenLabels
    <2>1. CASE v = -1
      <3>1. /\ ~Live(FirstKey(c)) /\ NextKey(c) # NoKey /\ ~Live(NextKey(c))
        BY <1>1, <1>15, <1>16, <2>0, <2>1 DEF SoloAt
      <3>2. n \notin LiveNames /\ <<"file", p>> \notin LiveNames
        BY <1>2, <1>3, <1>4, <1>6, <3>1
      <3>3. pc[c] \in ReadLabels
        BY <1>16 DEF ReadLabels, LenLabels
      <3> QED BY <1>7, <1>11, <1>16, <2>1, <3>2, <3>3
    <2>2. CASE v # -1 /\ job[c].kind = "getattr"
      <3>1. Answer(c, 1 + me[c].dir) /\ KnownNames' = KnownNames /\ LiveNames' = LiveNames
        BY <1>1, <1>7, <1>16, <2>2, EndedTree DEF ReadLabels, LenLabels
      <3>2. 1 + me[c].dir = IF <<"file", p>> \in LiveNames THEN 1
                            ELSE IF <<"dir", p>> \in LiveNames THEN 2 ELSE Failed
        BY <1>3, <1>4, <1>6, <1>15, <1>16, <2>0, <2>2
      <3> QED BY <1>10, <2>2, <3>1, <3>2
    <2>3. CASE v # -1 /\ job[c].kind # "getattr"
      <3>1. pc'[c] = "remove"
        <4>1. MovesTo(c, "remove")
          BY <1>7, <1>16, <2>3
        <4> QED BY <1>1, <4>1, FieldsMoves
      <3> QED BY <1>12, <1>16, <3>1 DEF Entered
    <2> QED BY <2>1, <2>2, <2>3
  <1>17. CASE pc[c] = "remove"
    <2>1. Answer(c, 0)
      <3>1. Ended(c, 0)
        BY <1>1, <1>17, FindMoves
      <3>2. pc'[c] = "return" /\ me'[c].result = 0
        BY <1>1, <3>1, FieldsEnded
      <3>3. Answer(c, IF pc'[c] = "return" THEN me'[c].result ELSE 0)
        BY <1>1, <1>17, <3>2, Answered DEF Appending, Entered
      <3> QED BY <3>2, <3>3 DEF Answer
    <2>2. SetIno(c) = me[c].ino /\ SetTo(c) = -1 /\ len[me[c].ino] # -1
      BY <1>1, <1>17 DEF SetIno, SetTo, SoloAt
    <2>3. n \in Key /\ names[n] = me[c].ino /\ n \in LiveNames
      BY <1>2, <1>3, <1>4, <1>6, <1>15, <1>17, <2>2
    <2>4. KnownNames' = KnownNames /\ LiveNames' = LiveNames \ {n}
      BY <1>1, <1>17, <2>2, <2>3, NamesSet DEF SetLabels
    <2> QED BY <1>2, <1>9, <1>17, <2>1, <2>3, <2>4
  <1> QED BY <1>13, <1>14, <1>16, <1>17

(* truncate and the half of rename that runs.                                  *)
LEMMA TruncateTree ==
  ASSUME Solo, NEW c \in Client, Operate(c), pc[c] \in {"trunc", "cut", "linkFrom", "linkTo"}
  PROVE  Tree!Truncate(c) \/ Tree!Rename(c) \/ UNCHANGED TreeVars
  <1> DEFINE v == Value(OpOf(c))
             n == <<"file", job[c].path>>
  <1>1. /\ Core /\ Base /\ Types /\ Flow /\ SoloAt(c) /\ Parts(c, v) /\ job' = job /\ pc[c] # "ready"
    BY Operated DEF Solo, Core, Base, Operate
  <1>2. /\ pc[c] \in {"trunc", "cut"} => job[c].kind = "truncate"
        /\ pc[c] \in {"linkFrom", "linkTo"} => job[c].kind = "rename"
    BY <1>1, Kinds
  <1>3. n \in Key
    BY <1>1, Keys
  <1>4. Tree!Failed = Failed
    BY DEF Tree!Failed, Failed
  <1>5. pc[c] = "trunc" => v = names[n]
    BY <1>1, <1>3, LookupIs DEF LookedUp, LookupLabels
  <1>6. /\ pc[c] = "trunc" => IF v = 0 THEN Ended(c, Failed) ELSE Notes(c, "cut", v)
        /\ pc[c] = "cut" => Ended(c, 0)
        /\ pc[c] = "linkFrom" => IF v = 0 THEN Ended(c, Failed) ELSE MovesTo(c, "linkTo")
        /\ pc[c] = "linkTo" => Ended(c, Failed)
    BY <1>1, FindMoves
  <1> HIDE DEF v
  <1>7. ASSUME pc[c] # "cut", pc'[c] \notin Entered PROVE UNCHANGED TreeVars
    BY <1>1, <1>7, ReadSilent DEF ReadLabels, LookupLabels, Appending, Entered
  <1>8. CASE pc[c] = "trunc"
    <2>1. CASE v = 0
      <3>1. Answer(c, Failed) /\ KnownNames' = KnownNames /\ LiveNames' = LiveNames
        BY <1>1, <1>6, <1>8, <2>1, EndedTree DEF ReadLabels, LookupLabels
      <3>2. n \notin KnownNames
        BY <1>5, <1>8, <2>1 DEF KnownNames
      <3>3. Tree!Truncate(c)
        BY <1>2, <1>4, <1>8, <3>1, <3>2
           DEF Tree!Truncate, Tree!Done, Answer, KnownNames, LiveNames, Phase, Reply
      <3> QED BY <3>3
    <2>2. CASE v # 0
      <3>1. pc'[c] = "cut"
        BY <1>1, <1>6, <1>8, <2>2, FieldsNotes
      <3> QED BY <1>7, <1>8, <3>1 DEF Entered
    <2> QED BY <2>1, <2>2
  <1>9. CASE pc[c] = "cut"
    <2>1. pc'[c] = "return" /\ me'[c].result = 0
      BY <1>1, <1>6, <1>9, FieldsEnded
    <2>2. Answer(c, IF pc'[c] = "return" THEN me'[c].result ELSE 0)
      BY <1>1, <1>9, <2>1, Answered DEF Appending, Entered
    <2>3. SetIno(c) = names[n] /\ SetTo(c) # -1
      <3>1. SetTo(c) >= 0 /\ SetTo(c) \in Int
        BY <1>1, <1>9, SetsOf DEF SetLabels
      <3> QED BY <1>1, <1>9, <3>1 DEF SoloAt, SetIno
    <2>4. n \in KnownNames /\ KnownNames' = KnownNames /\ LiveNames' = LiveNames \cup {n}
      BY <1>1, <1>3, <1>9, <2>3, NamesSet DEF SetLabels
    <2>5. Tree!Truncate(c)
      BY <1>2, <1>9, <2>1, <2>2, <2>4
         DEF Tree!Truncate, Tree!Done, Answer, KnownNames, LiveNames, Phase, Reply
    <2> QED BY <2>5
  <1>10. ASSUME Ended(c, Failed), pc[c] \in {"linkFrom", "linkTo"} PROVE Tree!Rename(c)
    <2>1. Answer(c, Failed) /\ KnownNames' = KnownNames /\ LiveNames' = LiveNames
      BY <1>1, <1>10, EndedTree DEF ReadLabels, LookupLabels
    <2> QED BY <1>2, <1>4, <1>10, <2>1
            DEF Tree!Rename, Tree!Done, Answer, KnownNames, LiveNames, Phase, Reply
  <1>11. CASE pc[c] = "linkFrom"
    <2>1. CASE v = 0
      BY <1>6, <1>10, <1>11, <2>1
    <2>2. CASE v # 0
      <3>1. MovesTo(c, "linkTo")
        BY <1>6, <1>11, <2>2
      <3>2. pc'[c] = "linkTo"
        BY <1>1, <3>1, FieldsMoves
      <3> QED BY <1>7, <1>11, <3>2 DEF Entered
    <2> QED BY <2>1, <2>2
  <1>12. CASE pc[c] = "linkTo"
    BY <1>6, <1>10, <1>12
  <1> QED BY <1>8, <1>9, <1>11, <1>12

(* open, write, read and getdir, and another mount.                            *)
LEMMA ContentTree ==
  ASSUME Solo, NEW c \in Client, Operate(c),
         pc[c] \in {"open", "openLen", "extend", "writePut", "readGet", "mountRoot",
                    "dirLookup", "dirLen", "dirGet", "scan"}
  PROVE  Tree!Open(c) \/ Tree!Revive(c) \/ Tree!Content(c) \/ Tree!Mount(c) \/ UNCHANGED TreeVars
  <1> DEFINE v == Value(OpOf(c))
             n == <<"file", job[c].path>>
  <1>1. /\ Core /\ Base /\ Types /\ Flow /\ SoloAt(c) /\ OpenAt(c) /\ FreshAt(c) /\ Parts(c, v)
        /\ job' = job /\ pc[c] # "ready"
    BY Operated DEF Solo, Core, Base, Operate
  <1>2. /\ pc[c] \in {"open", "openLen"} => job[c].kind = "open"
        /\ pc[c] \in {"extend", "writePut"} => job[c].kind = "write"
        /\ pc[c] = "readGet" => job[c].kind = "read"
        /\ pc[c] \in {"dirLookup", "dirLen", "dirGet", "scan"} => job[c].kind = "getdir"
        /\ pc[c] = "mountRoot" => job[c].kind = "mount"
    BY <1>1, Kinds
  <1>3. n \in Key
    BY <1>1, Keys
  <1>4. Tree!Failed = Failed
    BY DEF Tree!Failed, Failed
  <1>5. /\ pc[c] = "open" => v = names[n]
        /\ pc[c] = "openLen" => v = len[me[c].ino] /\ me[c].ino # 0
    BY <1>1, <1>3, LookupIs, Measured DEF LookedUp, LookupLabels, LenLabels
  <1> HIDE DEF v
  <1>6. ASSUME pc[c] \in ReadLabels, pc'[c] \notin Entered PROVE UNCHANGED TreeVars
    <2>1. pc[c] \notin Appending
      BY DEF Appending
    <2> QED BY <1>1, <1>6, <2>1, ReadSilent DEF Entered
  <1>7. ASSUME pc[c] \in ReadLabels \cup {"writePut"}, pc'[c] = "return", me'[c].result \in {0, Failed},
               job[c].kind \in {"read", "write", "getdir"}
        PROVE  Tree!Content(c)
    <2>1. Answer(c, me'[c].result) /\ KnownNames' = KnownNames /\ LiveNames' = LiveNames
      BY <1>1, <1>7, ReadAnswered
    <2> QED BY <1>4, <1>7, <2>1 DEF Tree!Content, Tree!Done, Answer, KnownNames, LiveNames, Phase, Reply
  <1>8. ASSUME NEW r, Answer(c, r), KnownNames' = KnownNames, LiveNames' = LiveNames,
               job[c].kind = "open", r = IF n \in LiveNames THEN 0 ELSE Failed
        PROVE  Tree!Open(c)
    BY <1>4, <1>8 DEF Tree!Open, Tree!Done, Answer, KnownNames, LiveNames, Phase, Reply
  <1>9. CASE pc[c] = "open"
    <2>1. IF v = 0 THEN Ended(c, Failed) ELSE Notes(c, "openLen", v)
      BY <1>1, <1>9, ContentMoves
    <2>2. CASE v = 0
      <3>1. Answer(c, Failed) /\ KnownNames' = KnownNames /\ LiveNames' = LiveNames
        BY <1>1, <1>9, <2>1, <2>2, EndedTree DEF ReadLabels, LookupLabels
      <3>2. n \notin LiveNames
        BY <1>5, <1>9, <2>2 DEF LiveNames, Live
      <3> QED BY <1>2, <1>8, <1>9, <3>1, <3>2
    <2>3. CASE v # 0
      <3>1. pc'[c] = "openLen"
        BY <1>1, <2>1, <2>3, FieldsNotes
      <3> QED BY <1>6, <1>9, <3>1 DEF Entered, ReadLabels, LookupLabels
    <2> QED BY <2>2, <2>3
  <1>10. CASE pc[c] = "openLen"
    <2>1. n \in LiveNames <=> v # -1
      BY <1>1, <1>3, <1>5, <1>10 DEF OpenAt, LiveNames, Live
    <2>2. /\ v = -1 => Ended(c, Failed)
          /\ v # -1 => Moved(c, "return", me[c],
                             [ino |-> me[c].ino, length |-> v, path |-> job[c].path])
      BY <1>1, <1>10, ContentMoves
    <2>3. pc'[c] = "return" /\ me'[c].result = IF v = -1 THEN Failed ELSE 0
      <3>1. CASE v = -1
        BY <1>1, <2>2, <3>1, FieldsEnded
      <3>2. CASE v # -1
        <4>1. pc'[c] = "return" /\ me'[c] = me[c]
          BY <1>1, <2>2, <3>2, MovedIs
        <4> QED BY <1>1, <1>10, <3>2, <4>1 DEF FreshAt
      <3> QED BY <3>1, <3>2
    <2>4. Answer(c, me'[c].result) /\ KnownNames' = KnownNames /\ LiveNames' = LiveNames
      BY <1>1, <1>10, <2>3, ReadAnswered DEF ReadLabels, LenLabels
    <2> QED BY <1>2, <1>8, <1>10, <2>1, <2>3, <2>4
  <1>11. CASE pc[c] = "extend"
    <2>1. pc'[c] = "writePut"
      BY <1>1, <1>11, Operated DEF GoesTo
    <2>2. names[n] = SetIno(c) /\ SetTo(c) # -1
      <3>1. SetTo(c) >= 0 /\ SetTo(c) \in Int
        BY <1>1, <1>11, SetsOf DEF SetLabels
      <3>2. handle[c].ino # 0 /\ handle[c].path = job[c].path
        BY <1>1, <1>11 DEF Base, Known, HandleAt
      <3> QED BY <1>1, <1>11, <3>1, <3>2 DEF OpenAt, SetIno
    <2>3. n \in KnownNames /\ KnownNames' = KnownNames /\ LiveNames' = LiveNames \cup {n}
      BY <1>1, <1>3, <1>11, <2>2, NamesSet DEF SetLabels
    <2>4. Phase[c] = "called" /\ Phase' = Phase /\ Reply' = Reply
      <3>1. /\ Phase[c] = "called" /\ Reply[c] = 0
            /\ Phase' = [Phase EXCEPT ![c] = "called"] /\ Reply' = [Reply EXCEPT ![c] = 0]
        BY <1>1, <1>11, <2>1, PhaseIs DEF Entered, Appending
      <3>2. Phase = [d \in Client |-> Phase[d]] /\ Reply = [d \in Client |-> Reply[d]]
        BY DEF Phase, Reply
      <3> QED BY <3>1, <3>2
    <2>5. n[1] = "file"
      OBVIOUS
    <2>6. Tree!Revive(c)
      BY <1>1, <1>2, <1>11, <2>3, <2>4, <2>5 DEF Tree!Revive, KnownNames, LiveNames, Phase, Reply
    <2> QED BY <2>6
  <1>12. CASE pc[c] \in {"writePut", "readGet"}
    <2>1. Ended(c, 0)
      BY <1>1, <1>12, FindMoves
    <2>2. pc'[c] = "return" /\ me'[c].result = 0
      BY <1>1, <2>1, FieldsEnded
    <2> QED BY <1>2, <1>7, <1>12, <2>2 DEF ReadLabels
  <1>13. CASE pc[c] = "mountRoot"
    <2>1. Ended(c, 0)
      BY <1>1, <1>13, FindMoves
    <2>2. pc'[c] = "return" /\ me'[c].result = 0
      BY <1>1, <2>1, FieldsEnded
    <2>3. Answer(c, IF pc'[c] = "return" THEN me'[c].result ELSE 0)
      BY <1>1, <1>13, <2>2, Answered DEF Appending, Entered
    <2>4. KnownNames' = KnownNames \cup {<<"dir", Root>>} /\ LiveNames' = LiveNames \cup {<<"dir", Root>>}
      BY <1>1, <1>13, NamesCreated DEF CreatedKey, DirKey
    <2>5. <<"dir", Root>> \in KnownNames
      <3>1. <<"dir", Root>> \in Key
        BY FileSystemAssumption DEF Key
      <3> QED BY <1>1, <3>1 DEF Base, Known, KnownNames
    <2>6. KnownNames' = KnownNames
      BY <2>4, <2>5
    <2>7. Tree!Mount(c)
      BY <1>2, <1>13, <2>2, <2>3, <2>4, <2>6
         DEF Tree!Mount, Tree!Done, Answer, KnownNames, LiveNames, Phase, Reply
    <2> QED BY <2>7
  <1>14. CASE pc[c] \in {"dirLookup", "dirLen"}
    <2>1. Ended(c, Failed) \/ pc'[c] \in {"dirLen", "dirGet"}
      <3>1. Ended(c, Failed) \/ Notes(c, "dirLen", v) \/ NotesAt(c, "dirGet", v)
        BY <1>1, <1>14, ContentMoves
      <3> QED BY <1>1, <3>1, FieldsNotes, FieldsAt
    <2>2. pc[c] \in ReadLabels
      BY <1>14 DEF ReadLabels, LookupLabels, LenLabels
    <2>3. CASE Ended(c, Failed)
      <3>1. pc'[c] = "return" /\ me'[c].result = Failed
        BY <1>1, <2>3, FieldsEnded
      <3> QED BY <1>2, <1>7, <1>14, <2>2, <3>1
    <2>4. CASE pc'[c] \in {"dirLen", "dirGet"}
      BY <1>6, <2>2, <2>4 DEF Entered
    <2> QED BY <2>1, <2>3, <2>4
  <1>15. CASE pc[c] \in {"dirGet", "scan"}
    <2>1. PICK buf, out : Scanned(c, buf, out)
      BY <1>1, <1>15, ContentMoves
    <2>2. /\ pc'[c] \in {"return", "scan"}
          /\ me'[c].result \in {0, Failed}
      BY <1>1, <2>1, FieldsScanned
    <2>3. pc[c] \in ReadLabels
      BY <1>15 DEF ReadLabels
    <2> QED BY <1>2, <1>6, <1>7, <1>15, <2>2, <2>3 DEF Entered
  <1> QED BY <1>9, <1>10, <1>11, <1>12, <1>13, <1>14, <1>15

LEMMA OperateTree ==
  ASSUME Solo, NEW c \in Client, Operate(c)
  PROVE  Tree!Next \/ UNCHANGED TreeVars
  <1>1. pc[c] \in ReadLabels \cup SetLabels \cup {"create", "appendPut", "writePut", "mountRoot"}
    BY Operated DEF Solo, Core, Base
  <1>2. \/ pc[c] \in MakeLabels \cup {"first", "firstLen", "second", "lastLen", "remove"}
        \/ pc[c] \in {"trunc", "cut", "linkFrom", "linkTo"}
        \/ pc[c] \in {"open", "openLen", "extend", "writePut", "readGet", "mountRoot",
                      "dirLookup", "dirLen", "dirGet", "scan"}
    BY <1>1 DEF ReadLabels, LookupLabels, LenLabels, SetLabels, MakeLabels, Entries0, Appending
  <1> QED BY <1>2, MakeTree, FindTree, TruncateTree, ContentTree DEF Tree!Next

(* IsTree: where all mounts are active each operation on names takes effect at *)
(* one moment between its call and its return, as if it were alone, whatever   *)
(* the reads, writes and getdirs of the others do between its steps.           *)
THEOREM FilesAreTree ==
  ASSUME Active = Client
  PROVE  Spec => IsTree
  <1>1. Init => Tree!Init
    <2> SUFFICES ASSUME Init PROVE Tree!Init
      OBVIOUS
    <2>1. Core
      BY CoreInit
    <2>2. \A k \in Key : names[k] # 0 <=> k = <<"dir", Root>>
      BY Sizes DEF Init
    <2>3. \A k \in Key : Live(k) <=> k = <<"dir", Root>>
      BY <2>2, Sizes DEF Init, Live
    <2>4. <<"dir", Root>> \in Key
      BY FileSystemAssumption DEF Key
    <2>5. KnownNames = {<<"dir", Root>>} /\ LiveNames = KnownNames
      BY <2>2, <2>3, <2>4 DEF KnownNames, LiveNames
    <2>6. Tree!NoJob = NoJob
      BY DEF Tree!NoJob, NoJob
    <2>7. /\ Phase = [c \in Client |-> "idle"] /\ Reply = [c \in Client |-> 0]
          /\ job = [c \in Client |-> NoJob]
      BY DEF Init, Phase, Reply
    <2> QED BY <2>5, <2>6, <2>7 DEF Tree!Init, KnownNames, LiveNames, Phase, Reply
  <1>2. Solo /\ [Next]_vars => [Tree!Next]_TreeVars
    <2> SUFFICES ASSUME Solo, [Next]_vars PROVE Tree!Next \/ UNCHANGED TreeVars
      OBVIOUS
    <2>1. CASE UNCHANGED vars
      BY <2>1 DEF vars, files, TreeVars, KnownNames, LiveNames, Live, Phase, Reply
    <2>2. CASE \E c \in Client : Quiet(c) \/ Operate(c)
      BY <2>2, QuietTree, OperateTree
    <2> QED BY <2>1, <2>2, NextIs
  <1>3. Spec => [][Tree!Next]_TreeVars
    BY <1>2, SoloAlways, PTL DEF Spec
  <1> QED BY <1>1, <1>3, PTL DEF Spec, IsTree, Tree!Spec, Tree!vars, TreeVars, KnownNames, LiveNames, Phase, Reply

-------------------------------------------------------------------------------
(* Directories that were never removed: how a making moves.                    *)
LEMMA MakingMoves ==
  ASSUME Core, NEW c \in Client, Operate(c)
  PROVE  /\ pc[c] = "create" => /\ pc'[c] = "appendLen" /\ me'[c].own = inodes + 1
                                /\ me'[c].ino = me[c].ino
         /\ pc[c] = "appendLen" => /\ pc'[c] = "appendSet" /\ me'[c].own = me[c].own
                                   /\ me'[c].ino = me[c].ino /\ me'[c].at = len[me[c].ino]
         /\ pc[c] = "appendSet" => pc'[c] = "appendPut" /\ me'[c] = me[c]
         /\ pc[c] = "mineLen" /\ pc'[c] = "revive" => me'[c] = me[c] /\ len[me[c].ino] = -1
         /\ pc'[c] \in Appending => pc[c] \in {"create", "appendLen", "appendSet"}
         /\ pc'[c] = "appendLen" => pc[c] = "create"
         /\ pc'[c] = "appendSet" => pc[c] = "appendLen"
         /\ pc'[c] = "appendPut" => pc[c] = "appendSet"
         /\ pc'[c] = "revive" => pc[c] = "mineLen"
         /\ \A d \in Client : d # c => pc'[d] = pc[d] /\ me'[d] = me[d]
         /\ job' = job
  <1>1. Types /\ Base /\ Flow
    BY DEF Core, Base
  <1>2. Types /\ Parts(c, Value(OpOf(c)))
    BY <1>1, Operated
  <1>3. CASE pc[c] = "create"
    <2>1. Moved(c, "appendLen", [me[c] EXCEPT !.own = Value(OpOf(c))], handle[c])
      BY <1>2, <1>3, MakeMoves
    <2>2. Value(OpOf(c)) = inodes + 1
      BY <1>3, Values
    <2>3. pc'[c] = "appendLen" /\ me'[c].own = Value(OpOf(c)) /\ me'[c].ino = me[c].ino
      <3>1. pc'[c] = "appendLen" /\ me'[c] = [me[c] EXCEPT !.own = Value(OpOf(c))]
        BY <1>2, <2>1, MovedIs
      <3>2. me[c] \in Locals
        BY <1>2, Here
      <3> QED BY <3>1, <3>2 DEF Locals
    <2> QED BY <1>1, <1>3, <2>2, <2>3, Operated DEF Appending
  <1>4. CASE pc[c] = "appendLen"
    <2>1. NotesAt(c, "appendSet", Value(OpOf(c)))
      BY <1>2, <1>4, MakeMoves
    <2>2. Value(OpOf(c)) = len[me[c].ino]
      BY <1>1, <1>4, Measured DEF LenLabels
    <2>3. /\ pc'[c] = "appendSet" /\ me'[c].ino = me[c].ino /\ me'[c].at = len[me[c].ino]
          /\ me'[c].own = me[c].own
      BY <1>1, <2>1, <2>2, FieldsAt DEF Keeps
    <2> QED BY <1>1, <1>4, <2>3, Operated DEF Appending
  <1>5. CASE pc[c] = "appendSet"
    <2>1. MovesTo(c, "appendPut")
      BY <1>2, <1>5, MakeMoves
    <2>2. pc'[c] = "appendPut" /\ me'[c] = me[c]
      BY <1>1, <2>1, FieldsSame DEF MovesTo
    <2> QED BY <1>1, <1>5, <2>2, Operated DEF Appending
  <1>6. CASE pc[c] = "mineLen"
    <2>1. IF Value(OpOf(c)) # -1 THEN Ended(c, Failed) ELSE MovesTo(c, "revive")
      BY <1>2, <1>6, MakeMoves
    <2>2. Value(OpOf(c)) = len[me[c].ino]
      BY <1>1, <1>6, Measured DEF LenLabels
    <2>3. pc'[c] = "revive" => MovesTo(c, "revive") /\ len[me[c].ino] = -1
      <3>1. Ended(c, Failed) => pc'[c] = "return"
        BY <1>1, FieldsEnded
      <3> QED BY <2>1, <2>2, <3>1
    <2>4. pc'[c] = "revive" => me'[c] = me[c]
      BY <1>1, <2>3, FieldsSame DEF MovesTo
    <2>5. pc'[c] \in {"revive", "return"}
      BY <1>1, <1>6, Operated DEF GoesTo
    <2> QED BY <1>1, <1>6, <2>3, <2>4, <2>5, Operated DEF Appending
  <1>7. CASE pc[c] \notin {"create", "appendLen", "appendSet", "mineLen"}
    <2>1. pc'[c] \notin Appending \cup {"revive"}
      BY <1>1, <1>7, Operated DEF GoesTo, Appending
    <2> QED BY <1>1, <1>7, <2>1, Operated DEF Appending
  <1> QED BY <1>3, <1>4, <1>5, <1>6, <1>7

(* An inode stays one that is being entered, but for the one whose entry the   *)
(* step has put.                                                               *)
LEMMA EnteringStays ==
  ASSUME Core, NEW c \in Client, Operate(c), NEW n
  PROVE  /\ Entering(n) => Entering(n)' \/ (pc[c] = "appendPut" /\ n = me[c].own)
         /\ pc[c] = "create" /\ n = inodes + 1 => Entering(n)'
  <1>1. ASSUME NEW d \in Client, me[d].own = n, pc[d] \in Appending
        PROVE  Entering(n)' \/ (pc[c] = "appendPut" /\ n = me[c].own)
    <2>1. CASE d # c
      BY <1>1, <2>1, MakingMoves DEF Entering, Appending
    <2>2. CASE d = c /\ pc[c] = "appendLen"
      BY <1>1, <2>2, MakingMoves DEF Entering, Appending
    <2>3. CASE d = c /\ pc[c] = "appendSet"
      BY <1>1, <2>3, MakingMoves DEF Entering, Appending
    <2> QED BY <1>1, <2>1, <2>2, <2>3 DEF Appending
  <1>2. ASSUME pc[c] = "create", n = inodes + 1 PROVE Entering(n)'
    <2>1. pc'[c] = "appendLen" /\ me'[c].own = n
      BY <1>2, MakingMoves
    <2> QED BY <2>1 DEF Entering
  <1> QED BY <1>1, <1>2 DEF Entering, Appending

(* A directory whose length and content a step leaves alone.                   *)
LEMMA CleanSame ==
  ASSUME Core, DirsOK, NEW c \in Client, Operate(c), NEW i \in Inode, Clean(i), i <= inodes,
         len'[i] = len[i], data'[i] = data[i],
         pc[c] \notin {"appendSet", "appendPut"} \/ me[c].ino # i
  PROVE  CleanOK(i)'
  <1>1. CleanOK(i) /\ Base /\ Types /\ Counts /\ len[i] # -1
    BY DEF DirsOK, Core, Base, Clean
  <1>2. len[i] \in Offsets
    BY <1>1 DEF Types, FileTypes
  <1>3. ASSUME NEW n \in Inode, home'[n] = i, ~Entering(n)'
        PROVE  \E o \in 0 .. len'[i] - 1 : data'[i][o] = Header(n)
    <2>1. home[n] = i
      <3>1. CASE pc[c] = "create"
        <4>1. home' = [home EXCEPT ![inodes + 1] = me[c].ino] /\ home \in [Inode -> Inode \cup {0}]
          BY <1>1, <3>1, CreateIs DEF Types, FileTypes
        <4>2. n # inodes + 1
          BY <1>3, <3>1, EnteringStays
        <4> QED BY <1>3, <4>1, <4>2
      <3>2. CASE pc[c] = "mountRoot"
        BY <1>1, <1>3, <3>2, CreateIs
      <3>3. CASE pc[c] \notin {"create", "mountRoot"}
        BY <1>1, <1>3, <3>3, Older
      <3> QED BY <3>1, <3>2, <3>3
    <2>2. ~(pc[c] = "appendPut" /\ n = me[c].own)
      BY <1>1, <2>1 DEF Base, Known, InodeAt, Appending
    <2>3. ~Entering(n)
      BY <1>3, <2>2, EnteringStays
    <2> QED BY <1>1, <2>1, <2>3 DEF CleanOK
  <1>4. \A o \in Offsets : data'[i][o] \in Headers => 0 <= o /\ o < len'[i]
    BY <1>1 DEF CleanOK
  <1>5. ASSUME NEW d \in Client, pc'[d] = "appendSet", me'[d].ino = i
        PROVE  me'[d].at >= 0
    <2>1. CASE d = c
      BY <1>1, <1>2, <1>5, <2>1, MakingMoves, InOffsets
    <2>2. CASE d # c
      BY <1>1, <1>5, <2>2, MakingMoves DEF CleanOK
    <2> QED BY <2>1, <2>2
  <1>6. ASSUME NEW d \in Client, Putting(d, i)'
        PROVE  Putting(d, i) /\ me'[d] = me[d]
    BY <1>6, MakingMoves DEF Putting
  <1>7. \A d \in Client : Putting(d, i)' =>
          /\ me'[d].at >= 0 /\ me'[d].at + Entry <= len'[i]
          /\ data'[i][me'[d].at] \notin Headers /\ data'[i][me'[d].at + 1] \notin Headers
          /\ \A e \in Client : d # e /\ Putting(e, i)' => \/ me'[d].at + Entry <= me'[e].at
                                                          \/ me'[e].at + Entry <= me'[d].at
    BY <1>1, <1>6 DEF CleanOK
  <1> QED BY <1>3, <1>4, <1>5, <1>7 DEF CleanOK

(* A directory that an append makes longer.                                    *)
LEMMA CleanSet ==
  ASSUME Core, DirsOK, NEW c \in Client, Operate(c), NEW i \in Inode, Clean(i),
         pc[c] = "appendSet", me[c].ino = i, i \notin was'.overlapped
  PROVE  CleanOK(i)'
  <1>1. CleanOK(i) /\ Base /\ Types /\ Counts
    BY DEF DirsOK, Core, Base
  <1>2. len[i] \in Offsets /\ len[i] \in Int /\ MaxUnits \in Nat
    <2>1. len[i] \in Offsets
      BY <1>1 DEF Types, FileTypes
    <2> QED BY <2>1, InOffsets, Sizes
  <1>3. me[c].at = len[i] /\ me[c].at >= 0
    BY <1>1, Noted DEF CleanOK
  <1>4. len' = [len EXCEPT ![i] = me[c].at + Entry] /\ data' = data /\ home' = home
    BY <1>1, SizeIs DEF SetLabels, SetIno, SetTo
  <1>5. len'[i] = len[i] + 2
    <2>1. len \in [Inode -> Offsets]
      BY <1>1 DEF Types, FileTypes
    <2> QED BY <1>3, <1>4, <2>1 DEF Entry
  <1>6. pc'[c] = "appendPut" /\ \A d \in Client : me'[d] = me[d] /\ (d # c => pc'[d] = pc[d])
    BY <1>1, MakingMoves
  <1>7. ASSUME NEW n \in Inode, home'[n] = i, ~Entering(n)'
        PROVE  \E o \in 0 .. len'[i] - 1 : data'[i][o] = Header(n)
    <2>1. ~Entering(n)
      BY <1>7, EnteringStays
    <2>2. PICK o \in 0 .. len[i] - 1 : data[i][o] = Header(n)
      BY <1>1, <1>4, <1>7, <2>1 DEF CleanOK
    <2>3. o \in 0 .. len'[i] - 1
      BY <1>2, <1>5
    <2> QED BY <1>4, <2>2, <2>3
  <1>8. \A o \in Offsets : data'[i][o] \in Headers => 0 <= o /\ o < len'[i]
    BY <1>1, <1>2, <1>4, <1>5 DEF CleanOK, Offsets
  <1>9. \A d \in Client : pc'[d] = "appendSet" /\ me'[d].ino = i => me'[d].at >= 0
    BY <1>1, <1>6 DEF CleanOK
  <1>10. \A d \in Client : me[d].at \in Int
    BY <1>1, Here, InOffsets
  <1>11. ASSUME NEW d \in Client, Putting(d, i)'
         PROVE  \/ d = c
                \/ Putting(d, i) /\ me[d].at >= 0 /\ me[d].at + 2 <= len[i]
    BY <1>1, <1>6, <1>11 DEF CleanOK, Putting, Entry
  <1>12. /\ me[c].at + 2 <= len'[i]
         /\ data[i][me[c].at] \notin Headers /\ data[i][me[c].at + 1] \notin Headers
    <2>1. me[c].at \in Offsets /\ me[c].at + 1 \in Offsets
      <3>1. me[c].at + Entry \in 0 .. MaxUnits
        BY <1>1, Room
      <3> QED BY <1>2, <1>3, <3>1 DEF Entry, Offsets
    <2>2. ~(me[c].at < len[i]) /\ ~(me[c].at + 1 < len[i]) /\ me[c].at + 2 <= len'[i]
      BY <1>2, <1>3, <1>5
    <2>3. \A o \in Offsets : data[i][o] \in Headers => o < len[i]
      BY <1>1 DEF CleanOK
    <2> QED BY <2>1, <2>2, <2>3
  <1>13. \A d \in Client : Putting(d, i)' =>
          /\ me'[d].at >= 0 /\ me'[d].at + Entry <= len'[i]
          /\ data'[i][me'[d].at] \notin Headers /\ data'[i][me'[d].at + 1] \notin Headers
          /\ \A e \in Client : d # e /\ Putting(e, i)' => \/ me'[d].at + Entry <= me'[e].at
                                                          \/ me'[e].at + Entry <= me'[d].at
    <2> SUFFICES ASSUME NEW d \in Client, Putting(d, i)'
                 PROVE  /\ me[d].at >= 0 /\ me[d].at + Entry <= len'[i]
                        /\ data[i][me[d].at] \notin Headers /\ data[i][me[d].at + 1] \notin Headers
                        /\ \A e \in Client : d # e /\ Putting(e, i)' => \/ me[d].at + Entry <= me[e].at
                                                                        \/ me[e].at + Entry <= me[d].at
      BY <1>4, <1>6
    <2>1. CASE d = c
      BY <1>2, <1>3, <1>10, <1>11, <1>12, <2>1 DEF Entry
    <2>2. CASE d # c
      <3>1. Putting(d, i) /\ me[d].at >= 0 /\ me[d].at + 2 <= len[i]
        BY <1>11, <2>2
      <3>2. me[d].at + 2 <= me[c].at /\ me[d].at + 2 <= len'[i]
        BY <1>2, <1>3, <1>5, <1>10, <3>1
      <3>3. data[i][me[d].at] \notin Headers /\ data[i][me[d].at + 1] \notin Headers
        BY <1>1, <3>1 DEF CleanOK
      <3>4. \A e \in Client : e # c /\ d # e /\ Putting(e, i)' =>
              me[d].at + Entry <= me[e].at \/ me[e].at + Entry <= me[d].at
        BY <1>1, <1>11, <3>1 DEF CleanOK
      <3> QED BY <3>1, <3>2, <3>3, <3>4 DEF Entry
    <2> QED BY <2>1, <2>2
  <1> QED BY <1>7, <1>8, <1>9, <1>13 DEF CleanOK

(* A directory into which an entry is put.                                     *)
LEMMA CleanPut ==
  ASSUME Core, DirsOK, NEW c \in Client, Operate(c), NEW i \in Inode, Clean(i),
         pc[c] = "appendPut", me[c].ino = i
  PROVE  CleanOK(i)'
  <1>1. CleanOK(i) /\ Base /\ Types /\ Counts
    BY DEF DirsOK, Core, Base
  <1>2. len[i] \in Offsets /\ len[i] \in Int /\ MaxUnits \in Nat /\ \A d \in Client : me[d].at \in Int
    <2>1. len[i] \in Offsets /\ \A d \in Client : me[d].at \in Offsets
      BY <1>1, Here DEF Types, FileTypes
    <2> QED BY <2>1, InOffsets, Sizes
  <1>3. /\ me[c].at >= 0 /\ me[c].at + 2 <= len[i]
        /\ data[i][me[c].at] \notin Headers /\ data[i][me[c].at + 1] \notin Headers
        /\ \A d \in Client : c # d /\ Putting(d, i) => \/ me[c].at + 2 <= me[d].at
                                                       \/ me[d].at + 2 <= me[c].at
    BY <1>1 DEF CleanOK, Putting, Entry
  <1>4. /\ len' = len /\ home' = home
        /\ \A x \in Offsets : data'[i][x] = IF x = me[c].at THEN Header(me[c].own)
                                            ELSE IF x = me[c].at + 1 THEN NameOf(job[c].path)
                                            ELSE data[i][x]
    BY <1>1, <1>3, PutIs DEF Entry
  <1>5. /\ \A d \in Client : pc'[d] # "appendPut" \/ d # c
        /\ \A d \in Client : d # c => pc'[d] = pc[d] /\ me'[d] = me[d]
        /\ pc'[c] \notin Appending
    BY MakingMoves DEF Appending
  <1>6. \A x \in Offsets : data[i][x] \in Headers => data'[i][x] = data[i][x]
    BY <1>3, <1>4
  <1>7. \A o : o \in 0 .. len[i] - 1 => o \in Offsets
    BY <1>2 DEF Offsets
  <1>8. ASSUME NEW n \in Inode, home'[n] = i, ~Entering(n)'
        PROVE  \E o \in 0 .. len'[i] - 1 : data'[i][o] = Header(n)
    <2>1. CASE n = me[c].own
      <3>1. me[c].at \in 0 .. len[i] - 1
        BY <1>2, <1>3
      <3> QED BY <1>4, <1>7, <2>1, <3>1
    <2>2. CASE n # me[c].own
      <3>1. ~Entering(n)
        BY <1>8, <2>2, EnteringStays
      <3>2. PICK o \in 0 .. len[i] - 1 : data[i][o] = Header(n)
        BY <1>1, <1>4, <1>8, <3>1 DEF CleanOK
      <3>3. Header(n) \in Headers
        BY DEF Headers
      <3> QED BY <1>4, <1>6, <1>7, <3>2, <3>3
    <2> QED BY <2>1, <2>2
  <1>9. ASSUME NEW o \in Offsets, data'[i][o] \in Headers
        PROVE  0 <= o /\ o < len'[i]
    <2>1. CASE o = me[c].at
      BY <1>2, <1>3, <1>4, <2>1
    <2>2. CASE o = me[c].at + 1
      BY <1>2, <1>3, <1>4, <2>2
    <2>3. CASE o # me[c].at /\ o # me[c].at + 1
      BY <1>1, <1>4, <1>9, <2>3 DEF CleanOK
    <2> QED BY <2>1, <2>2, <2>3
  <1>10. \A d \in Client : pc'[d] = "appendSet" /\ me'[d].ino = i => me'[d].at >= 0
    BY <1>1, <1>5 DEF CleanOK, Appending
  <1>11. ASSUME NEW d \in Client, Putting(d, i)'
         PROVE  /\ d # c /\ Putting(d, i) /\ me'[d] = me[d]
                /\ me[d].at >= 0 /\ me[d].at + 2 <= len[i]
                /\ data'[i][me[d].at] \notin Headers /\ data'[i][me[d].at + 1] \notin Headers
    <2>1. d # c /\ Putting(d, i) /\ me'[d] = me[d]
      BY <1>5, <1>11 DEF Putting
    <2>2. /\ me[d].at >= 0 /\ me[d].at + 2 <= len[i]
          /\ data[i][me[d].at] \notin Headers /\ data[i][me[d].at + 1] \notin Headers
      BY <1>1, <2>1 DEF CleanOK, Entry
    <2>3. /\ me[d].at # me[c].at /\ me[d].at + 1 # me[c].at
          /\ me[d].at # me[c].at + 1 /\ me[d].at + 1 # me[c].at + 1
      BY <1>2, <1>3, <2>1
    <2>4. me[d].at \in Offsets /\ me[d].at + 1 \in Offsets
      BY <1>2, <2>2 DEF Offsets
    <2> QED BY <1>4, <2>1, <2>2, <2>3, <2>4
  <1>12. \A d \in Client : Putting(d, i)' =>
          /\ me'[d].at >= 0 /\ me'[d].at + Entry <= len'[i]
          /\ data'[i][me'[d].at] \notin Headers /\ data'[i][me'[d].at + 1] \notin Headers
          /\ \A e \in Client : d # e /\ Putting(e, i)' => \/ me'[d].at + Entry <= me'[e].at
                                                          \/ me'[e].at + Entry <= me'[d].at
    <2>1. \A d, e \in Client : d # e /\ Putting(d, i) /\ Putting(e, i) =>
            me[d].at + Entry <= me[e].at \/ me[e].at + Entry <= me[d].at
      BY <1>1 DEF CleanOK
    <2> QED BY <1>4, <1>11, <2>1 DEF Entry
  <1> QED BY <1>8, <1>9, <1>10, <1>12 DEF CleanOK

(* A directory that the step makes.                                            *)
LEMMA CleanNew ==
  ASSUME Core, DirsOK, NEW c \in Client, Operate(c), pc[c] \in {"create", "mountRoot"},
         NEW i \in Inode, i = inodes + 1
  PROVE  CleanOK(i)'
  <1>1. Base /\ Types /\ Counts /\ inodes \in Nat
    BY Sizes DEF Core, Base, Types, FileTypes
  <1>2. /\ len' = len /\ data' = data /\ home \in [Inode -> Inode \cup {0}]
        /\ home' = IF pc[c] = "create" THEN [home EXCEPT ![inodes + 1] = me[c].ino] ELSE home
    BY <1>1, CreateIs DEF Types, FileTypes
  <1>3. i > inodes
    BY <1>1
  <1>4. \A n \in Inode : home'[n] # i
    <2>1. \A n \in Inode : home[n] # i
      BY <1>1, <1>3, Sizes DEF Base, Known
    <2>2. pc[c] = "create" => me[c].ino # i
      BY <1>1, LocalIs
    <2> QED BY <1>2, <2>1, <2>2
  <1>5. \A o \in Offsets : data'[i][o] \notin Headers
    BY <1>2, <1>3, UnitsApart DEF DirsOK, Headers
  <1>6. \A d \in Client : pc'[d] \in {"appendSet", "appendPut"} => me'[d].ino # i
    <2> SUFFICES ASSUME NEW d \in Client, pc'[d] \in {"appendSet", "appendPut"}
                 PROVE  me'[d].ino # i
      OBVIOUS
    <2>1. pc[d] \in {"appendLen", "appendSet", "appendPut"} /\ me'[d].ino = me[d].ino
      BY MakingMoves DEF Appending
    <2> QED BY <1>1, <2>1, LocalIs
  <1> QED BY <1>4, <1>5, <1>6 DEF CleanOK, Putting

LEMMA DirsStep ==
  ASSUME Core, DirsOK, NEW c \in Client, Operate(c)
  PROVE  DirsOK'
  <1>1. Base /\ Types /\ Counts /\ Flow /\ inodes \in Nat
    BY Sizes DEF Core, Base, Types, FileTypes
  <1>2. /\ was'.removed = was.removed \cup (IF pc[c] = "remove" THEN {me[c].ino} ELSE {})
        /\ was.overlapped \subseteq was'.overlapped
    BY <1>1, Noted
  <1>3. len \in [Inode -> Offsets] /\ key \in [Inode -> Key \cup {NoKey}]
    BY <1>1 DEF Types, FileTypes
  <1>4. pc[c] \in ReadLabels \cup SetLabels \cup {"create", "appendPut", "writePut", "mountRoot"}
    BY <1>1, Operated
  <1>5. \A i \in Inode : len'[i] = -1 => i \in was'.removed
    <2>1. CASE pc[c] \in SetLabels
      <3>1. /\ len' = [len EXCEPT ![SetIno(c)] = SetTo(c)]
            /\ pc[c] # "remove" => SetTo(c) >= 0
            /\ pc[c] = "remove" => SetIno(c) = me[c].ino
        BY <1>1, <2>1, SizeIs, SetsOf DEF SetIno
      <3> QED BY <1>2, <1>3, <3>1 DEF DirsOK
    <2>2. CASE pc[c] \notin SetLabels
      BY <1>1, <1>2, <2>2, Older DEF DirsOK
    <2> QED BY <2>1, <2>2
  <1>6. ASSUME NEW d \in Client, pc'[d] = "revive" PROVE me'[d].ino \in was'.removed
    <2>1. CASE d # c
      BY <1>2, <1>6, <2>1, MakingMoves DEF DirsOK
    <2>2. CASE d = c
      <3>1. pc[c] = "mineLen" /\ me'[c] = me[c] /\ len[me[c].ino] = -1
        BY <1>6, <2>2, MakingMoves
      <3>2. me[c].ino \in Inode
        BY <1>1, <3>1, LocalIs
      <3> QED BY <1>2, <2>2, <3>1, <3>2 DEF DirsOK
    <2> QED BY <2>1, <2>2
  <1>7. ASSUME NEW i \in Inode, i > inodes' PROVE \A o \in Offsets : data'[i][o] = Blank
    <2>1. i > inodes /\ ~(i \in 1 .. inodes)
      <3>1. /\ inodes \in Nat /\ inodes' \in Nat /\ i \in Nat
            /\ inodes' = inodes + 1 \/ inodes' = inodes
        BY <1>1, Older, Sizes
      <3> QED BY <1>7, <3>1
    <2>2. CASE pc[c] = "appendPut"
      <3>1. me[c].ino # i
        BY <1>1, <2>1, <2>2, LocalIs
      <3>2. \A o \in Offsets : data'[i][o] = data[i][o]
        BY <1>1, <2>2, <3>1, PutIs
      <3> QED BY <2>1, <3>2 DEF DirsOK
    <2>3. CASE pc[c] = "writePut"
      <3>1. handle[c].ino # i
        BY <1>1, <2>1, <2>3, LocalIs
      <3>2. \A o \in Offsets : data'[i][o] = data[i][o]
        BY <1>1, <2>3, <3>1, WriteIs
      <3> QED BY <2>1, <3>2 DEF DirsOK
    <2>4. CASE pc[c] \notin {"appendPut", "writePut"}
      <3>1. data' = data
        BY <1>1, <1>4, <2>4, Effects DEF files, Sized, Created
      <3> QED BY <2>1, <3>1 DEF DirsOK
    <2> QED BY <2>2, <2>3, <2>4
  <1>8. ASSUME NEW i \in Inode, Clean(i)' PROVE CleanOK(i)'
    <2>1. i \notin was.removed /\ i \notin was.overlapped /\ i \notin was'.overlapped
          /\ ~(pc[c] = "remove" /\ me[c].ino = i)
      BY <1>2, <1>8 DEF Clean
    <2>2. CASE pc[c] \in {"create", "mountRoot"} /\ i = inodes + 1
      BY <2>2, CleanNew
    <2>3. CASE ~(pc[c] \in {"create", "mountRoot"} /\ i = inodes + 1)
      <3>1. key'[i] = key[i]
        <4>1. CASE pc[c] \in {"create", "mountRoot"}
          BY <1>1, <1>3, <2>3, <4>1, CreateIs
        <4>2. CASE pc[c] \notin {"create", "mountRoot"}
          BY <1>1, <4>2, Older
        <4> QED BY <4>1, <4>2
      <3>2. Clean(i) /\ key[i][1] = "dir"
        BY <1>8, <2>1, <3>1 DEF Clean
      <3>3. i <= inodes
        <4>1. ~(i > inodes)
          BY <1>1, <3>2 DEF Base, Known, NoKey
        <4> QED BY <1>1, <4>1, Sizes
      <3>4. CASE pc[c] = "appendSet" /\ me[c].ino = i
        BY <2>1, <3>2, <3>4, CleanSet
      <3>5. CASE pc[c] = "appendPut" /\ me[c].ino = i
        BY <3>2, <3>5, CleanPut
      <3>6. CASE pc[c] \notin {"appendSet", "appendPut"} \/ me[c].ino # i
        <4>1. len'[i] = len[i]
          <5>1. CASE pc[c] \in SetLabels
            <6>1. SetIno(c) # i
              <7>1. CASE pc[c] \in {"cut", "extend"}
                BY <1>1, <3>2, <5>1, <7>1, SetsOf
              <7>2. CASE pc[c] = "revive"
                BY <2>1, <7>2 DEF DirsOK, SetIno
              <7>3. CASE pc[c] \in {"remove", "appendSet"}
                BY <2>1, <3>6, <7>3 DEF SetIno
              <7> QED BY <5>1, <7>1, <7>2, <7>3 DEF SetLabels
            <6> QED BY <1>1, <1>3, <5>1, <6>1, SizeIs
          <5>2. CASE pc[c] \notin SetLabels
            BY <1>1, <5>2, Older
          <5> QED BY <5>1, <5>2
        <4>2. data'[i] = data[i]
          <5>1. data \in [Inode -> [Offsets -> Units]]
            BY <1>1 DEF Types, FileTypes
          <5>2. CASE pc[c] = "appendPut"
            <6>1. me[c].ino # i /\ data' \in [Inode -> [Offsets -> Units]]
              BY <1>1, <3>6, <5>2, PutIs
            <6>2. \A x \in Offsets : data'[i][x] = data[i][x]
              BY <1>1, <5>2, <6>1, PutIs
            <6> QED BY <5>1, <6>1, <6>2
          <5>3. CASE pc[c] = "writePut"
            <6>1. handle[c].ino # i
              BY <1>1, <3>2, <5>3 DEF Base, Known, HandleAt, Is
            <6>2. data' \in [Inode -> [Offsets -> Units]] /\ \A x \in Offsets : data'[i][x] = data[i][x]
              BY <1>1, <5>3, <6>1, WriteIs
            <6> QED BY <5>1, <6>2
          <5>4. CASE pc[c] \notin {"appendPut", "writePut"}
            BY <1>1, <1>4, <5>4, Effects DEF files, Sized, Created
          <5> QED BY <5>2, <5>3, <5>4
        <4> QED BY <3>2, <3>3, <3>6, <4>1, <4>2, CleanSame
      <3> QED BY <3>4, <3>5, <3>6
    <2> QED BY <2>2, <2>3
  <1> QED BY <1>5, <1>6, <1>7, <1>8 DEF DirsOK

(* The steps that do not call the inode store.                                 *)
LEMMA DirsKept ==
  ASSUME Core, DirsOK, UNCHANGED files, was'.removed = was.removed, was'.overlapped = was.overlapped,
         \A d \in Client : pc'[d] \in Appending \cup {"revive"} => pc'[d] = pc[d] /\ me'[d] = me[d],
         \A d \in Client : pc[d] \in Appending => pc'[d] = pc[d] /\ me'[d] = me[d]
  PROVE  DirsOK'
  <1>1. \A n : Entering(n)' <=> Entering(n)
    BY DEF Entering, Appending
  <1>2. \A i : Clean(i)' <=> Clean(i)
    BY DEF Clean, files
  <1>3. \A i : \A d \in Client : Putting(d, i)' => Putting(d, i) /\ me'[d] = me[d]
    BY DEF Putting, Appending
  <1>4. \A d \in Client : pc'[d] = "appendSet" => pc[d] = "appendSet" /\ me'[d] = me[d]
    BY DEF Appending
  <1>5. \A d \in Client : pc'[d] = "revive" => pc[d] = "revive" /\ me'[d] = me[d]
    OBVIOUS
  <1>6. ASSUME NEW i \in Inode, CleanOK(i) PROVE CleanOK(i)'
    <2>1. len' = len /\ data' = data /\ home' = home
      BY DEF files
    <2> QED BY <1>1, <1>3, <1>4, <1>6, <2>1 DEF CleanOK
  <1> QED BY <1>2, <1>5, <1>6 DEF DirsOK, files

LEMMA DirsQuiet ==
  ASSUME Core, DirsOK, NEW c \in Client, Quiet(c)
  PROVE  DirsOK'
  <1>1. Types /\ Flow
    BY DEF Core, Base
  <1>2. /\ UNCHANGED files /\ was'.removed = was.removed /\ was'.overlapped = was.overlapped
        /\ \A d \in Client : d # c => pc'[d] = pc[d] /\ me'[d] = me[d]
        /\ pc'[c] \in Starts \cup {"ready"} /\ pc[c] \in {"ready", "queued", "return"}
    BY <1>1, QuietIs
  <1>3. pc'[c] \notin Appending \cup {"revive"} /\ pc[c] \notin Appending
    BY <1>2 DEF Starts, Appending
  <1> QED BY <1>2, <1>3, DirsKept

LEMMA DirsStays ==
  ASSUME Core, DirsOK, UNCHANGED vars
  PROVE  DirsOK'
  <1>1. UNCHANGED <<files, pc, me, was>>
    BY DEF vars
  <1> QED BY <1>1, DirsKept

LEMMA DirsInit ==
  ASSUME Init
  PROVE  DirsOK
  <1>1. \A i \in Inode : len[i] = 0 /\ home[i] = 0 /\ \A o \in Offsets : data[i][o] = Blank
    BY DEF Init, Offsets
  <1>2. \A c \in Client : pc[c] = "ready"
    BY DEF Init
  <1>3. \A i \in Inode : CleanOK(i)
    BY <1>1, <1>2, Sizes, UnitsApart DEF CleanOK, Putting, Headers
  <1> QED BY <1>1, <1>2, <1>3 DEF DirsOK

(* LiveIsListed: what is there is listed in its parent's content, whoever made *)
(* and removed what meanwhile, but for the races that the property names.      *)
THEOREM FilesLiveAreListed == Spec => []LiveIsListed
  <1>1. ASSUME Core, DirsOK PROVE LiveIsListed
    <2> SUFFICES ASSUME NEW k \in Key, names[k] # 0, k[2] # Root, Live(DirKey(Parent[k[2]])),
                        ~Entering(names[k]), home[names[k]] = names[DirKey(Parent[k[2]])],
                        names[DirKey(Parent[k[2]])] \notin was.removed,
                        names[DirKey(Parent[k[2]])] \notin was.overlapped
                 PROVE  names[k] \in Listed(names[DirKey(Parent[k[2]])])
      BY DEF LiveIsListed, Live
    <2> DEFINE n == names[k] i == names[DirKey(Parent[k[2]])]
    <2>1. Types /\ Known
      BY <1>1 DEF Core, Base
    <2>2. k[2] \in Path /\ Parent[k[2]] \in Path
      BY FileSystemAssumption DEF Key
    <2>3. DirKey(Parent[k[2]]) \in Key
      BY <2>2 DEF Key, DirKey
    <2>4. n \in Inode /\ i \in Inode
      BY <2>1, <2>3 DEF Types, FileTypes, Live
    <2>5. key[i][1] = "dir"
      BY <2>1, <2>3, <2>4 DEF Known, Is, Live, DirKey
    <2>6. Clean(i)
      BY <2>5 DEF Clean
    <2>7. PICK o \in 0 .. len[i] - 1 : data[i][o] = Header(n)
      BY <1>1, <2>4, <2>6 DEF DirsOK, CleanOK
    <2>8. data[i][o][1] = "inode" /\ data[i][o][2] = n
      BY <2>7, UnitsApart
    <2>9. <<o, n>> \in Entries(i)
      BY <2>7, <2>8 DEF Entries
    <2> QED BY <2>9 DEF Listed
  <1>2. Init => Core /\ DirsOK
    BY CoreInit, DirsInit
  <1>3. Core /\ DirsOK /\ [Next]_vars => (Core /\ DirsOK)'
    BY CoreOperate, CoreQuiet, CoreStays, DirsStep, DirsQuiet, DirsStays, NextIs
  <1> QED BY <1>1, <1>2, <1>3, PTL DEF Spec

-------------------------------------------------------------------------------
(* The content of directories.                                                 *)
LEMMA OwnStep ==
  ASSUME Core, OwnOK, NEW c \in Client, Operate(c)
  PROVE  OwnOK'
  <1>1. Base /\ inodes \in Nat
    BY Sizes DEF Core, Base, Types, FileTypes
  <1>2. \A d \in Client : pc'[d] \in Appending =>
          \/ pc[d] \in Appending /\ me'[d].own = me[d].own
          \/ d = c /\ pc[c] = "create" /\ me'[c].own = inodes + 1
    BY MakingMoves DEF Appending
  <1>3. \A d \in Client : pc[d] \in Appending => me[d].own # inodes + 1
    BY <1>1, LocalIs
  <1> QED BY <1>2, <1>3 DEF OwnOK

(* A step that puts no entry.                                                  *)
LEMMA ContentKept ==
  ASSUME Core, ContentOK, NEW c \in Client, Operate(c),
         \A i \in Inode, o \in Offsets : data'[i][o] \in Headers \cup Names => data'[i][o] = data[i][o],
         \A i \in Inode : key[i][1] = "dir" => data'[i] = data[i]
  PROVE  ContentOK'
  <1>1. Base /\ Counts /\ Types /\ inodes \in Nat /\ MaxUnits \in Nat
    BY Sizes DEF Core, Base, Types, FileTypes
  <1>2. \A i \in Inode : i <= inodes => key'[i] = key[i] /\ home'[i] = home[i]
    BY <1>1, Older
  <1>3. inodes' >= inodes /\ inodes' \in Nat
    BY <1>1, Older
  <1>4. \A d \in Client : pc'[d] \in Appending =>
          \/ pc[d] \in Appending /\ me'[d].own = me[d].own
          \/ d = c /\ pc[c] = "create" /\ me'[c].own = inodes + 1
    BY MakingMoves DEF Appending
  <1>5. ASSUME NEW i \in Inode, NEW o \in Offsets PROVE ContentAt(i, o)'
    <2>1. ContentAt(i, o)
      BY DEF ContentOK
    <2>2. CASE data'[i][o] \notin Headers \cup Names
      BY <2>2 DEF ContentAt, Headers
    <2>3. CASE data'[i][o] \in Headers \cup Names
      <3>1. data'[i][o] = data[i][o] /\ key[i][1] = "dir"
        BY <2>1, <2>3 DEF ContentAt
      <3>2. ~(i > inodes)
        BY <1>1, <3>1 DEF Base, Known, NoKey
      <3>3. key'[i] = key[i] /\ data'[i] = data[i]
        BY <1>1, <1>2, <3>1, <3>2, Sizes
      <3>4. ASSUME NEW n \in Inode, data[i][o] = Header(n)
            PROVE  /\ home'[n] = i /\ n <= inodes'
                   /\ o < MaxUnits /\ data'[i][o + 1] \in Headers \cup Names
                   /\ \A p \in Path : data'[i][o + 1] = NameOf(p) => key'[n][2] = p
                   /\ \A j \in Inode, q \in Offsets : data'[j][q] = data[i][o] => i = j /\ o = q
                   /\ \A d \in Client : pc'[d] \in Appending => me'[d].own # n
        <4>1. /\ home[n] = i /\ n <= inodes
              /\ o < MaxUnits /\ data[i][o + 1] \in Headers \cup Names
              /\ \A p \in Path : data[i][o + 1] = NameOf(p) => key[n][2] = p
              /\ \A j \in Inode, q \in Offsets : data[j][q] = data[i][o] => i = j /\ o = q
              /\ \A d \in Client : pc[d] \in Appending => me[d].own # n
          BY <2>1, <3>4 DEF ContentAt
        <4>2. n <= inodes' /\ n # inodes + 1
          BY <1>1, <1>3, <4>1, Sizes
        <4>3. \A j \in Inode, q \in Offsets : data'[j][q] = data[i][o] => data[j][q] = data[i][o]
          BY <3>4 DEF Headers
        <4>4. \A d \in Client : pc'[d] \in Appending => me'[d].own # n
          BY <1>4, <4>1, <4>2
        <4>5. data'[i][o + 1] \in Headers \cup Names
              /\ \A p \in Path : data'[i][o + 1] = NameOf(p) => key'[n][2] = p
          BY <1>2, <3>3, <4>1
        <4> QED BY <1>2, <4>1, <4>2, <4>3, <4>4, <4>5
      <3> QED BY <3>1, <3>3, <3>4 DEF ContentAt
    <2> QED BY <2>2, <2>3
  <1> QED BY <1>5 DEF ContentOK

(* An entry is put.                                                            *)
LEMMA ContentPut ==
  ASSUME Core, ContentOK, OwnOK, NEW c \in Client, Operate(c), pc[c] = "appendPut",
         me[c].at + Entry <= len[me[c].ino]
  PROVE  ContentOK'
  <1> DEFINE f == me[c].ino a == me[c].at own == me[c].own
  <1>1. Base /\ Counts /\ Types /\ inodes \in Nat /\ MaxUnits \in Nat
    BY Sizes DEF Core, Base, Types, FileTypes
  <1>2. /\ f \in Inode /\ own \in Inode /\ own <= inodes /\ a \in Offsets /\ a \in Int /\ len[f] \in Offsets
        /\ Is(own, OwnKey(c)) /\ home[own] = f /\ Is(f, DirKey(Parent[job[c].path]))
    <2>1. f \in Inode /\ own \in Inode /\ own <= inodes
      BY <1>1, LocalIs DEF Appending
    <2>2. a \in Offsets /\ a \in Int
      BY <1>1, Here, Sizes DEF Offsets
    <2> QED BY <1>1, <2>1, <2>2 DEF Base, Known, InodeAt, Appending, Types, FileTypes
  <1>3. a + 2 <= MaxUnits /\ a >= -1 /\ a + 1 \in Offsets /\ a < MaxUnits
    BY <1>1, <1>2 DEF Offsets, Entry
  <1>4. key[f][1] = "dir" /\ key[own][2] = job[c].path
    BY <1>2 DEF Is, DirKey, OwnKey
  <1>5. /\ UNCHANGED <<names, inodes, len, key, home>>
        /\ \A j \in Inode, x \in Offsets :
             data'[j][x] = IF j = f /\ x = a THEN Header(own)
                           ELSE IF j = f /\ x = a + 1 THEN NameOf(job[c].path)
                           ELSE data[j][x]
    BY <1>1, PutIs
  <1>6. \A d \in Client : pc'[d] \in Appending => d # c /\ pc[d] \in Appending /\ me'[d].own = me[d].own
    BY MakingMoves DEF Appending
  <1>7. \A d \in Client : pc'[d] \in Appending => me'[d].own # own
    BY <1>6 DEF OwnOK, Appending
  <1>8. \A j \in Inode, q \in Offsets : data[j][q] # Header(own)
    BY <1>2 DEF ContentOK, ContentAt, Appending
  <1>9. job[c].path \in Path
    BY <1>1, Kinds, JobTypes DEF Base
  <1> HIDE DEF f, a, own
  <1>10. ASSUME NEW i \in Inode, NEW o \in Offsets PROVE ContentAt(i, o)'
    <2>1. ContentAt(i, o)
      BY DEF ContentOK
    <2>2. CASE i = f /\ o = a
      <3>1. data'[i][o] = Header(own) /\ data'[i][o + 1] = NameOf(job[c].path)
        BY <1>2, <1>3, <1>5, <2>2
      <3>2. \A j \in Inode, q \in Offsets : data'[j][q] = Header(own) => i = j /\ o = q
        BY <1>5, <1>8, <2>2, UnitsApart
      <3>3. \A n : Header(n) = Header(own) => n = own
        BY UnitsApart
      <3>4. \A p : NameOf(job[c].path) = NameOf(p) => p = job[c].path
        BY UnitsApart
      <3>5. NameOf(job[c].path) \in Names
        BY <1>9 DEF Names
      <3> QED BY <1>2, <1>3, <1>4, <1>5, <1>7, <2>2, <3>1, <3>2, <3>3, <3>4, <3>5 DEF ContentAt
    <2>3. CASE i = f /\ o = a + 1
      <3>1. data'[i][o] = NameOf(job[c].path)
        BY <1>2, <1>3, <1>5, <2>3
      <3>2. \A n : Header(n) # data'[i][o]
        BY <3>1, UnitsApart
      <3> QED BY <1>4, <1>5, <2>3, <3>2 DEF ContentAt
    <2>4. CASE ~(i = f /\ (o = a \/ o = a + 1))
      <3>1. data'[i][o] = data[i][o]
        BY <1>5, <2>4
      <3>2. ASSUME NEW n \in Inode, data[i][o] = Header(n)
            PROVE  /\ home'[n] = i /\ n <= inodes'
                   /\ o < MaxUnits /\ data'[i][o + 1] \in Headers \cup Names
                   /\ \A p \in Path : data'[i][o + 1] = NameOf(p) => key'[n][2] = p
                   /\ \A j \in Inode, q \in Offsets : data'[j][q] = data[i][o] => i = j /\ o = q
                   /\ \A d \in Client : pc'[d] \in Appending => me'[d].own # n
        <4>1. /\ home[n] = i /\ n <= inodes
              /\ o < MaxUnits /\ data[i][o + 1] \in Headers \cup Names
              /\ \A p \in Path : data[i][o + 1] = NameOf(p) => key[n][2] = p
              /\ \A j \in Inode, q \in Offsets : data[j][q] = data[i][o] => i = j /\ o = q
              /\ \A d \in Client : pc[d] \in Appending => me[d].own # n
          BY <2>1, <3>2 DEF ContentAt
        <4>2. o + 1 \in Offsets /\ o \in Int
          BY <1>1, <4>1 DEF Offsets
        <4>3. \/ data'[i][o + 1] = data[i][o + 1]
              \/ data'[i][o + 1] = Header(own)
          <5>1. ~(i = f /\ o + 1 = a + 1)
            BY <1>2, <2>4, <4>2
          <5> QED BY <1>5, <4>2, <5>1
        <4>4. Header(own) \in Headers /\ \A p : Header(own) # NameOf(p)
          BY <1>2, UnitsApart DEF Headers
        <4>5. n # own
          BY <1>8, <3>2
        <4>6. \A j \in Inode, q \in Offsets : data'[j][q] = data[i][o] => data[j][q] = data[i][o]
          BY <1>5, <3>2, <4>5, UnitsApart
        <4>7. \A d \in Client : pc'[d] \in Appending => me'[d].own # n
          BY <1>6, <4>1
        <4>8. data'[i][o + 1] \in Headers \cup Names
              /\ \A p \in Path : data'[i][o + 1] = NameOf(p) => key'[n][2] = p
          BY <1>5, <4>1, <4>3, <4>4
        <4> QED BY <1>5, <4>1, <4>6, <4>7, <4>8
      <3>3. data[i][o] \in Headers \cup Names => key'[i][1] = "dir"
        BY <1>5, <2>1 DEF ContentAt
      <3> QED BY <3>1, <3>2, <3>3 DEF ContentAt
    <2> QED BY <2>2, <2>3, <2>4
  <1> QED BY <1>10 DEF ContentOK

LEMMA ContentStep ==
  ASSUME Core, ContentOK, OwnOK, NEW c \in Client, Operate(c)
  PROVE  ContentOK'
  <1>1. Base /\ Counts /\ Types /\ Flow
    BY DEF Core, Base
  <1>2. data \in [Inode -> [Offsets -> Units]]
    BY <1>1 DEF Types, FileTypes
  <1>3. CASE pc[c] = "appendPut" /\ me[c].at + Entry <= len[me[c].ino]
    BY <1>3, ContentPut
  <1>4. CASE pc[c] = "appendPut" /\ ~(me[c].at + Entry <= len[me[c].ino])
    <2>1. \A j \in Inode, x \in Offsets : data'[j][x] = data[j][x]
      BY <1>1, <1>4, PutIs
    <2>2. data' \in [Inode -> [Offsets -> Units]]
      BY <1>1, <1>4, PutIs
    <2>3. data' = data
      BY <1>2, <2>1, <2>2
    <2> QED BY <2>3, ContentKept
  <1>5. CASE pc[c] = "writePut"
    <2>1. /\ data' \in [Inode -> [Offsets -> Units]]
          /\ \A j \in Inode, x \in Offsets :
               data'[j][x] = IF j = handle[c].ino /\ job[c].off < len[j] /\ x = job[c].off
                             THEN Content(job[c].val) ELSE data[j][x]
      BY <1>1, <1>5, WriteIs
    <2>2. key[handle[c].ino][1] = "file"
      BY <1>1, <1>5 DEF Base, Known, HandleAt, Is
    <2>3. \A i \in Inode, o \in Offsets : data'[i][o] \in Headers \cup Names => data'[i][o] = data[i][o]
      BY <2>1, UnitsApart DEF Headers, Names
    <2>4. ASSUME NEW i \in Inode, key[i][1] = "dir" PROVE data'[i] = data[i]
      <3>1. \A x \in Offsets : data'[i][x] = data[i][x]
        BY <2>1, <2>2, <2>4
      <3> QED BY <1>2, <2>1, <3>1
    <2> QED BY <2>3, <2>4, ContentKept
  <1>6. CASE pc[c] \notin {"appendPut", "writePut"}
    <2>1. data' = data
      BY <1>1, <1>6, Operated, Effects DEF files, Sized, Created
    <2> QED BY <2>1, ContentKept
  <1> QED BY <1>3, <1>4, <1>5, <1>6

-------------------------------------------------------------------------------
(* Makings of a path.                                                          *)
LEMMA MakingLooks ==
  ASSUME Core, NEW c \in Client, Operate(c)
  PROVE  /\ pc[c] = "other" =>
              \/ pc'[c] = "mine" /\ names[OtherKind(OwnKey(c))] = 0
              \/ pc'[c] = "otherLen" /\ me'[c].ino = names[OtherKind(OwnKey(c))]
         /\ pc[c] = "otherLen" => pc'[c] = "return" \/ (pc'[c] = "mine" /\ len[me[c].ino] = -1)
         /\ pc[c] = "mine" => pc'[c] = "mineLen" \/ (pc'[c] = "parent" /\ names[OwnKey(c)] = 0)
         /\ pc[c] = "mineLen" => pc'[c] \in {"revive", "return"}
         /\ pc[c] = "parent" => pc'[c] \in {"create", "return"}
         /\ pc[c] \in {"revive", "appendPut"} => pc'[c] = "return"
         /\ pc[c] \in {"create", "appendLen", "appendSet"} => pc'[c] \in Appending
  <1>1. Types /\ Base /\ Flow /\ pc[c] \notin {"ready"}
    BY DEF Core, Base, Operate
  <1>2. Types /\ Parts(c, Value(OpOf(c)))
    BY <1>1, Operated
  <1>3. pc'[c] \in GoesTo(c)
    BY <1>1, Operated
  <1>4. OtherKind(OwnKey(c)) # NoKey /\ OwnKey(c) # NoKey
    BY <1>1, Keys
  <1>5. CASE pc[c] = "other"
    <2>1. Value(OpOf(c)) = names[OtherKind(OwnKey(c))]
      BY <1>4, <1>5, Values DEF LookupLabels, LookedUp
    <2>2. Notes(c, IF Value(OpOf(c)) = 0 THEN "mine" ELSE "otherLen", Value(OpOf(c)))
      BY <1>2, <1>5, MakeMoves
    <2>3. /\ pc'[c] = IF Value(OpOf(c)) = 0 THEN "mine" ELSE "otherLen"
          /\ me'[c].ino = Value(OpOf(c))
      BY <1>1, <2>2, FieldsNotes
    <2> QED BY <1>5, <2>1, <2>3
  <1>6. CASE pc[c] = "otherLen"
    <2>1. Value(OpOf(c)) = len[me[c].ino]
      BY <1>1, <1>6, Measured DEF LenLabels
    <2>2. IF Value(OpOf(c)) # -1 THEN Ended(c, Failed) ELSE MovesTo(c, "mine")
      BY <1>2, <1>6, MakeMoves
    <2>3. Ended(c, Failed) => pc'[c] = "return"
      BY <1>1, FieldsEnded
    <2>4. MovesTo(c, "mine") => pc'[c] = "mine"
      BY <1>1, FieldsSame DEF MovesTo
    <2> QED BY <1>6, <2>1, <2>2, <2>3, <2>4
  <1>7. CASE pc[c] = "mine"
    <2>1. Value(OpOf(c)) = names[OwnKey(c)]
      BY <1>4, <1>7, Values DEF LookupLabels, LookedUp
    <2>2. Notes(c, IF Value(OpOf(c)) = 0 THEN "parent" ELSE "mineLen", Value(OpOf(c)))
      BY <1>2, <1>7, MakeMoves
    <2>3. pc'[c] = IF Value(OpOf(c)) = 0 THEN "parent" ELSE "mineLen"
      BY <1>1, <2>2, FieldsNotes
    <2> QED BY <1>7, <2>1, <2>3
  <1>8. CASE pc[c] \notin {"other", "otherLen", "mine"}
    BY <1>3, <1>8 DEF GoesTo, Appending
  <1> QED BY <1>5, <1>6, <1>7, <1>8

(* What a step does to the inodes of a path that no race touches.              *)
LEMMA PathMoves ==
  ASSUME Core, NEW c \in Client, Operate(c), NEW p \in Path, ~HasRaced(p)'
  PROVE  /\ ~HasRaced(p)
         /\ Makes(c, p) => \A d \in Client : d # c => ~Makes(d, p)
         /\ \A d \in Client : Makes(d, p)' => Makes(d, p)
         /\ \A n \in Inode : At(n, p) => n <= inodes /\ At(n, p)' /\ key'[n] = key[n]
         /\ \A n \in Inode : At(n, p)' =>
              \/ At(n, p)
              \/ pc[c] = "create" /\ n = inodes + 1 /\ Makes(c, p) /\ key'[n] = OwnKey(c)
         /\ \A n \in Inode : At(n, p) /\ len[n] = -1 /\ len'[n] # -1 =>
              pc[c] = "revive" /\ n = me[c].ino /\ key[n] = OwnKey(c) /\ Makes(c, p)
         /\ \A k \in Key : names'[k] = names[k] \/ (pc[c] = "mountRoot" /\ k = DirKey(Root))
                                                \/ (pc[c] = "create" /\ k = OwnKey(c))
  <1>1. Types /\ Base /\ Flow /\ Counts /\ pc[c] \notin {"ready", "queued", "return"} /\ inodes \in Nat
    BY Sizes DEF Core, Base, Operate, Types, FileTypes
  <1>2. was'.raced = was.raced \cup (IF Raced(c) THEN {<<"made", job[c].path>>} ELSE {})
                       \cup (IF Revived(c) THEN {<<"revived", job[c].path>>} ELSE {})
                       \cup (IF Regrown(c) THEN {<<"regrown", Parent[job[c].path]>>} ELSE {})
    BY <1>1, Noted
  <1>3. /\ ~HasRaced(p) /\ ~(Raced(c) /\ job[c].path = p) /\ ~(Revived(c) /\ job[c].path = p)
        /\ ~(Regrown(c) /\ Parent[job[c].path] = p)
    <2>1. \A r \in was'.raced : r[2] # p
      BY DEF HasRaced
    <2>2. was.raced \subseteq was'.raced
      BY <1>2
    <2>3. Raced(c) => <<"made", job[c].path>> \in was'.raced
      BY <1>2
    <2>4. Revived(c) => <<"revived", job[c].path>> \in was'.raced
      BY <1>2
    <2>5. Regrown(c) => <<"regrown", Parent[job[c].path]>> \in was'.raced
      BY <1>2
    <2> QED BY <2>1, <2>2, <2>3, <2>4, <2>5 DEF HasRaced
  <1>4. Makes(c, p) => \A d \in Client : d # c => ~Makes(d, p)
    BY <1>3 DEF Makes, Raced
  <1>5. \A d \in Client : Makes(d, p)' => Makes(d, p)
    BY <1>1, MakingMoves DEF Makes, Making
  <1>6. \A n \in Inode : At(n, p) => n <= inodes /\ At(n, p)' /\ key'[n] = key[n]
    <2>1. ASSUME NEW n \in Inode, At(n, p) PROVE n <= inodes
      <3>1. ~(n > inodes)
        BY <1>1, <2>1 DEF Base, Known, At
      <3> QED BY <1>1, <3>1, Sizes
    <2> QED BY <1>1, <2>1, Older DEF At
  <1>7. pc[c] = "create" => Making(c)
    BY <1>1, Kinds DEF Making, MakeLabels, Entries0
  <1>8. ASSUME NEW n \in Inode, At(n, p)', ~At(n, p)
        PROVE  pc[c] = "create" /\ n = inodes + 1 /\ Makes(c, p) /\ key'[n] = OwnKey(c)
    <2>1. pc[c] \in {"create", "mountRoot"}
      BY <1>1, <1>8, Older DEF At
    <2>2. /\ inodes + 1 \in Inode /\ key' = [key EXCEPT ![inodes + 1] = CreatedKey(c)]
          /\ home' = IF pc[c] = "create" THEN [home EXCEPT ![inodes + 1] = me[c].ino] ELSE home
      BY <1>1, <2>1, CreateIs
    <2>3. home[inodes + 1] = 0
      BY <1>1, <2>2 DEF Base, Known
    <2>4. key \in [Inode -> Key \cup {NoKey}] /\ home \in [Inode -> Inode \cup {0}]
      BY <1>1 DEF Types, FileTypes
    <2>5. n = inodes + 1
      BY <1>8, <2>2, <2>4 DEF At
    <2>6. pc[c] = "create"
      BY <1>8, <2>1, <2>2, <2>3, <2>5 DEF At
    <2>7. key'[n] = OwnKey(c)
      BY <2>2, <2>4, <2>5, <2>6 DEF CreatedKey
    <2>8. job[c].path = p
      BY <1>8, <2>7 DEF At, OwnKey
    <2> QED BY <1>7, <2>5, <2>6, <2>7, <2>8 DEF Makes
  <1>9. ASSUME NEW n \in Inode, At(n, p), len[n] = -1, len'[n] # -1
        PROVE  pc[c] = "revive" /\ n = me[c].ino /\ key[n] = OwnKey(c) /\ Makes(c, p)
    <2>1. pc[c] \in SetLabels
      BY <1>1, <1>9, Older
    <2>2. len' = [len EXCEPT ![SetIno(c)] = SetTo(c)] /\ len \in [Inode -> Offsets]
      BY <1>1, <2>1, SizeIs DEF Types, FileTypes
    <2>3. n = SetIno(c)
      BY <1>9, <2>2
    <2>4. CASE pc[c] \in {"cut", "extend"}
      <3>1. key[n] = <<"file", job[c].path>> /\ Revived(c)
        BY <1>1, <1>9, <2>1, <2>3, <2>4, SetsOf DEF Revived, SetIno
      <3> QED BY <1>3, <1>9, <3>1 DEF At
    <2>5. CASE pc[c] = "appendSet"
      <3>1. key[n] = DirKey(Parent[job[c].path]) /\ Regrown(c)
        BY <1>1, <1>9, <2>1, <2>3, <2>5, SetsOf DEF Regrown, SetIno
      <3> QED BY <1>3, <1>9, <3>1 DEF At, DirKey
    <2>6. CASE pc[c] = "remove"
      <3>1. SetTo(c) = -1
        BY <2>6 DEF SetTo
      <3> QED BY <1>9, <2>2, <2>3, <3>1
    <2>7. CASE pc[c] = "revive"
      <3>1. key[n] = OwnKey(c) /\ n = me[c].ino
        BY <1>1, <2>1, <2>3, <2>7, SetsOf DEF SetIno
      <3>2. Making(c)
        BY <1>1, <2>7, Kinds DEF Making, MakeLabels, Entries0
      <3>3. job[c].path = p
        BY <1>9, <3>1 DEF At, OwnKey
      <3> QED BY <2>7, <3>1, <3>2, <3>3 DEF Makes
    <2> QED BY <2>1, <2>4, <2>5, <2>6, <2>7 DEF SetLabels
  <1>10. \A k \in Key : names'[k] = names[k] \/ (pc[c] = "mountRoot" /\ k = DirKey(Root))
                                             \/ (pc[c] = "create" /\ k = OwnKey(c))
    <2>1. CASE pc[c] \in {"create", "mountRoot"}
      <3>1. names' = [names EXCEPT ![CreatedKey(c)] = inodes + 1] /\ names \in [Key -> Inode \cup {0}]
        BY <1>1, <2>1, CreateIs DEF Types, FileTypes
      <3> QED BY <2>1, <3>1 DEF CreatedKey
    <2>2. CASE pc[c] \notin {"create", "mountRoot"}
      BY <1>1, <2>2, Older
    <2> QED BY <2>1, <2>2
  <1> QED BY <1>3, <1>4, <1>5, <1>6, <1>8, <1>9, <1>10

LEMMA NamedStep ==
  ASSUME Core, NEW c \in Client, Operate(c), NEW p \in Path, ~HasRaced(p)', PathOK(p)
  PROVE  NamedOK(p)'
  <1>1. Base /\ Counts /\ Types /\ Known /\ pc[c] # "ready"
    BY DEF Core, Base, Operate
  <1>2. /\ \A n \in Inode : At(n, p) => n <= inodes /\ At(n, p)' /\ key'[n] = key[n]
        /\ \A n \in Inode : At(n, p)' =>
              \/ At(n, p)
              \/ pc[c] = "create" /\ n = inodes + 1 /\ Makes(c, p) /\ key'[n] = OwnKey(c)
        /\ \A k \in Key : names'[k] = names[k] \/ (pc[c] = "mountRoot" /\ k = DirKey(Root))
                                               \/ (pc[c] = "create" /\ k = OwnKey(c))
    BY PathMoves
  <1>3. pc[c] = "create" /\ OwnKey(c)[2] = p => Makes(c, p)
    <2>1. OwnKey(c)[2] = job[c].path
      BY DEF OwnKey
    <2>2. pc[c] = "create" => job[c].kind \in {"mkdir", "mknod"}
      BY <1>1, Kinds DEF Base, MakeLabels, Entries0
    <2> QED BY <2>1, <2>2 DEF Makes, Making
  <1>4. pc[c] = "create" /\ Makes(c, p) => names[OwnKey(c)] = 0
    BY DEF PathOK, MakingOK
  <1>5. ASSUME NEW n \in Inode, At(n, p)
        PROVE  key'[n] \in Key \ {DirKey(Root)} /\ names'[key'[n]] = n
    <2>1. key[n] \in Key \ {DirKey(Root)} /\ names[key[n]] = n /\ key'[n] = key[n] /\ n # 0
      BY <1>2, <1>5, Sizes DEF PathOK, NamedOK
    <2>2. ~(pc[c] = "create" /\ key[n] = OwnKey(c))
      BY <1>3, <1>4, <1>5, <2>1 DEF At
    <2> QED BY <1>2, <2>1, <2>2
  <1>6. ASSUME NEW n \in Inode, At(n, p)', ~At(n, p)
        PROVE  key'[n] \in Key \ {DirKey(Root)} /\ names'[key'[n]] = n
    <2>1. pc[c] = "create" /\ n = inodes + 1 /\ Makes(c, p) /\ key'[n] = OwnKey(c)
      BY <1>2, <1>6
    <2>2. OwnKey(c) \in Key /\ names[OwnKey(c)] = 0
      BY <1>1, <1>4, <2>1, Keys
    <2>3. OwnKey(c) # DirKey(Root)
      BY <1>1, <2>2 DEF Known, DirKey
    <2>4. names' = [names EXCEPT ![OwnKey(c)] = inodes + 1] /\ names \in [Key -> Inode \cup {0}]
      BY <1>1, <2>1, CreateIs DEF CreatedKey, Types, FileTypes
    <2> QED BY <2>1, <2>2, <2>3, <2>4
  <1> QED BY <1>5, <1>6 DEF NamedOK

LEMMA LiveStep ==
  ASSUME Core, NEW c \in Client, Operate(c), NEW p \in Path, ~HasRaced(p)', PathOK(p)
  PROVE  OneLive(p)'
  <1>1. Base /\ Counts /\ Types /\ pc[c] # "ready"
    BY DEF Core, Base, Operate
  <1>2. /\ \A n \in Inode : At(n, p) => n <= inodes /\ At(n, p)' /\ key'[n] = key[n]
        /\ \A n \in Inode : At(n, p)' =>
              \/ At(n, p)
              \/ pc[c] = "create" /\ n = inodes + 1 /\ Makes(c, p) /\ key'[n] = OwnKey(c)
        /\ \A n \in Inode : At(n, p) /\ len[n] = -1 /\ len'[n] # -1 =>
              pc[c] = "revive" /\ n = me[c].ino /\ key[n] = OwnKey(c) /\ Makes(c, p)
    BY PathMoves
  <1>3. ASSUME Makes(c, p), pc[c] \in {"create", "revive"}, NEW m \in Inode, At(m, p)
        PROVE  \/ key[m] = OwnKey(c) /\ names[OwnKey(c)] = m
               \/ key[m] = OtherKind(OwnKey(c)) /\ len[m] = -1
    <2>1. key[m] \in Key /\ key[m][2] = job[c].path /\ names[key[m]] = m
      BY <1>3 DEF PathOK, NamedOK, At, Makes
    <2>2. key[m] = OwnKey(c) \/ key[m] = OtherKind(OwnKey(c))
      BY <1>1, <2>1, Keys
    <2>3. key[m] = OtherKind(OwnKey(c)) => len[m] = -1
      BY <1>3 DEF PathOK, MakingOK, At
    <2> QED BY <2>1, <2>2, <2>3
  <1>4. pc[c] = "create" /\ Makes(c, p) => names[OwnKey(c)] = 0 /\ len' = len
    BY <1>1, CreateIs DEF PathOK, MakingOK
  <1>5. ASSUME NEW n \in Inode, NEW m \in Inode, At(n, p)', At(m, p)', len'[n] # -1, len'[m] # -1,
               ~At(n, p) \/ len[n] = -1
        PROVE  n = m
    <2>1. CASE ~At(n, p)
      <3>1. pc[c] = "create" /\ n = inodes + 1 /\ Makes(c, p)
        BY <1>2, <1>5, <2>1
      <3>2. CASE At(m, p)
        BY <1>3, <1>4, <1>5, <3>1, <3>2, Sizes
      <3>3. CASE ~At(m, p)
        BY <1>2, <1>5, <3>1, <3>3
      <3> QED BY <3>2, <3>3
    <2>2. CASE At(n, p)
      <3>1. pc[c] = "revive" /\ n = me[c].ino /\ key[n] = OwnKey(c) /\ Makes(c, p)
        BY <1>2, <1>5, <2>2
      <3>2. At(m, p)
        BY <1>2, <1>5, <3>1
      <3>3. names[OwnKey(c)] = n
        BY <2>2, <3>1 DEF PathOK, NamedOK
      <3> QED BY <1>2, <1>3, <1>5, <3>1, <3>2, <3>3
    <2> QED BY <2>1, <2>2
  <1>6. ASSUME NEW n \in Inode, NEW m \in Inode, At(n, p), At(m, p), len[n] # -1, len[m] # -1
        PROVE  n = m
    BY <1>6 DEF PathOK, OneLive
  <1> QED BY <1>5, <1>6 DEF OneLive

LEMMA OthersMake ==
  ASSUME Core, NEW c \in Client, Operate(c), NEW p \in Path, ~HasRaced(p)', PathOK(p),
         NEW d \in Client, d # c, Makes(d, p)'
  PROVE  MakingOK(d)'
  <1>1. Base /\ Counts /\ Types /\ Known /\ pc[c] # "ready"
    BY DEF Core, Base, Operate
  <1>2. Makes(d, p) /\ ~Makes(c, p)
    BY PathMoves
  <1>3. /\ \A n \in Inode : At(n, p) => key'[n] = key[n]
        /\ \A n \in Inode : At(n, p)' => At(n, p)
        /\ \A n \in Inode : At(n, p) /\ len[n] = -1 => len'[n] = -1
        /\ \A k \in Key : names'[k] = names[k] \/ (pc[c] = "mountRoot" /\ k = DirKey(Root))
                                               \/ (pc[c] = "create" /\ k = OwnKey(c))
    BY <1>2, PathMoves
  <1>4. pc[c] = "create" => OwnKey(c)[2] # p
    <2>1. OwnKey(c)[2] = job[c].path
      BY DEF OwnKey
    <2>2. pc[c] = "create" => job[c].kind \in {"mkdir", "mknod"}
      BY <1>1, Kinds DEF Base, MakeLabels, Entries0
    <2> QED BY <1>2, <2>1, <2>2 DEF Makes, Making
  <1>5. pc'[d] = pc[d] /\ me'[d] = me[d] /\ job' = job
    BY MakingMoves
  <1>6. OwnKey(d)' = OwnKey(d) /\ OtherKind(OwnKey(d))' = OtherKind(OwnKey(d))
    BY <1>5 DEF OwnKey, OtherKind
  <1>7. pc[d] # "ready" /\ job[d].path = p
    BY <1>1, <1>2 DEF Makes, Making, Base, Flow, FlowAt, NoJob
  <1>8. /\ OwnKey(d) \in Key /\ OtherKind(OwnKey(d)) \in Key
        /\ OwnKey(d)[2] = p /\ OtherKind(OwnKey(d))[2] = p
    BY <1>7, Keys
  <1>9. MakingOK(d)
    BY <1>2 DEF PathOK
  <1> DEFINE other == OtherKind(OwnKey(d))
  <1>10. pc'[d] = "otherLen" => other = DirKey(Root) \/ me'[d].ino = names'[other]
    BY <1>3, <1>4, <1>5, <1>8, <1>9 DEF MakingOK
  <1>11. ASSUME pc'[d] \in {"mine", "mineLen", "revive", "parent", "create"},
                NEW n \in Inode, home'[n] # 0, key'[n] = other
         PROVE  len'[n] = -1
    <2>1. At(n, p)'
      BY <1>8, <1>11 DEF At
    <2>2. At(n, p) /\ key[n] = other
      BY <1>3, <1>11, <2>1
    <2>3. len[n] = -1
      BY <1>5, <1>9, <1>11, <2>2 DEF MakingOK, At
    <2> QED BY <1>3, <2>2, <2>3
  <1>12. pc'[d] \in {"parent", "create"} => names'[OwnKey(d)] = 0
    <2>1. pc[d] \in {"parent", "create"} => names[OwnKey(d)] = 0
      BY <1>9 DEF MakingOK
    <2>2. pc[d] \in {"parent", "create"} => OwnKey(d) # DirKey(Root)
      BY <1>1, <2>1 DEF Known, DirKey
    <2> QED BY <1>3, <1>4, <1>5, <1>8, <2>1, <2>2
  <1> HIDE DEF other
  <1>13. /\ pc'[d] = "otherLen" => other = DirKey(Root) \/ me'[d].ino = names'[other]
         /\ pc'[d] \in {"mine", "mineLen", "revive", "parent", "create"} =>
              \A n \in Inode : home'[n] # 0 /\ key'[n] = other => len'[n] = -1
         /\ pc'[d] \in {"parent", "create"} => names'[OwnKey(d)] = 0
    BY <1>10, <1>11, <1>12
  <1> QED BY <1>6, <1>13 DEF MakingOK, other

LEMMA SelfMakes ==
  ASSUME Core, NEW c \in Client, Operate(c), NEW p \in Path, ~HasRaced(p)', PathOK(p), Makes(c, p)'
  PROVE  MakingOK(c)'
  <1>1. Base /\ Counts /\ Types /\ Flow /\ Known /\ pc[c] # "ready"
    BY DEF Core, Base, Operate
  <1>2. Makes(c, p)
    BY PathMoves
  <1>3. pc[c] \in MakeLabels /\ job[c].path = p /\ job' = job
    BY <1>1, <1>2, MakingMoves DEF Makes, Making, Flow, FlowAt, LabelsOf
  <1>4. /\ OwnKey(c) \in Key /\ OtherKind(OwnKey(c)) \in Key
        /\ OwnKey(c)[2] = p /\ OtherKind(OwnKey(c))[2] = p
    BY <1>1, <1>3, Keys
  <1>5. OwnKey(c)' = OwnKey(c) /\ OtherKind(OwnKey(c))' = OtherKind(OwnKey(c))
    BY <1>3 DEF OwnKey, OtherKind
  <1>6. MakingOK(c)
    BY <1>2 DEF PathOK
  <1> DEFINE other == OtherKind(OwnKey(c))
  <1>7. CASE pc'[c] \notin {"otherLen", "mine", "mineLen", "revive", "parent", "create"}
    BY <1>7 DEF MakingOK
  <1>8. CASE pc'[c] \in {"otherLen", "mine", "mineLen", "revive", "parent", "create"}
    <2>1. /\ pc[c] \in {"other", "otherLen", "mine", "mineLen", "parent"}
          /\ pc'[c] = "otherLen" => pc[c] = "other" /\ me'[c].ino = names[other]
          /\ pc'[c] = "mine" => \/ pc[c] = "other" /\ names[other] = 0
                                \/ pc[c] = "otherLen" /\ len[me[c].ino] = -1
          /\ pc'[c] = "parent" => pc[c] = "mine" /\ names[OwnKey(c)] = 0
          /\ pc'[c] = "create" => pc[c] = "parent"
          /\ pc'[c] \in {"mineLen", "revive"} => pc[c] \in {"mine", "mineLen"}
      BY <1>3, <1>8, MakingLooks DEF MakeLabels, Entries0, Appending
    <2>2. names' = names /\ len' = len /\ key' = key /\ home' = home
      BY <2>1, ReadIs DEF ReadLabels, LookupLabels, LenLabels
    <2>3. ASSUME NEW n \in Inode, home[n] # 0, key[n] = other
          PROVE  names[other] = n /\ other # DirKey(Root) /\ n # 0
      <3>1. At(n, p)
        BY <1>4, <2>3 DEF At
      <3> QED BY <2>3, <3>1, Sizes DEF PathOK, NamedOK
    <2>4. ASSUME pc'[c] \in {"mine", "mineLen", "revive", "parent", "create"},
                 NEW n \in Inode, home[n] # 0, key[n] = other
          PROVE  len[n] = -1
      <3>1. names[other] = n /\ other # DirKey(Root) /\ n # 0
        BY <2>3, <2>4
      <3>2. CASE pc[c] = "other"
        BY <2>1, <2>4, <3>1, <3>2
      <3>3. CASE pc[c] = "otherLen"
        BY <1>6, <2>1, <2>4, <3>1, <3>3 DEF MakingOK
      <3>4. CASE pc[c] \in {"mine", "mineLen", "parent"}
        BY <1>6, <2>4, <3>4 DEF MakingOK
      <3> QED BY <2>1, <3>2, <3>3, <3>4
    <2>5. pc'[c] \in {"parent", "create"} => names[OwnKey(c)] = 0
      BY <1>6, <2>1 DEF MakingOK
    <2> HIDE DEF other
    <2>6. /\ pc'[c] = "otherLen" => other = DirKey(Root) \/ me'[c].ino = names'[other]
          /\ pc'[c] \in {"mine", "mineLen", "revive", "parent", "create"} =>
               \A n \in Inode : home'[n] # 0 /\ key'[n] = other => len'[n] = -1
          /\ pc'[c] \in {"parent", "create"} => names'[OwnKey(c)] = 0
      BY <2>1, <2>2, <2>4, <2>5
    <2> QED BY <1>5, <2>6 DEF MakingOK, other
  <1> QED BY <1>7, <1>8

LEMMA RacesStep ==
  ASSUME Core, RacesOK, NEW c \in Client, Operate(c)
  PROVE  RacesOK'
  <1> SUFFICES ASSUME NEW p \in Path, ~HasRaced(p)' PROVE PathOK(p)'
    BY DEF RacesOK
  <1>1. PathOK(p)
    BY PathMoves DEF RacesOK
  <1>2. NamedOK(p)' /\ OneLive(p)'
    BY <1>1, NamedStep, LiveStep
  <1>3. OneMaking(p)'
    <2> SUFFICES ASSUME NEW d \in Client, NEW e \in Client, d # e, Makes(d, p)', Makes(e, p)'
                 PROVE  pc'[d] = "other" \/ pc'[e] = "other"
      BY DEF OneMaking
    <2>1. Makes(d, p) /\ Makes(e, p) /\ d # c /\ e # c
      BY PathMoves
    <2> QED BY <1>1, <2>1, MakingMoves DEF PathOK, OneMaking
  <1>4. \A d \in Client : Makes(d, p)' => MakingOK(d)'
    BY <1>1, OthersMake, SelfMakes
  <1> QED BY <1>2, <1>3, <1>4 DEF PathOK

(* The steps that do not call the inode store.                                 *)
LEMMA NamesKept ==
  ASSUME RacesOK, ContentOK, OwnOK, UNCHANGED files, was'.raced = was.raced,
         \A d \in Client : pc'[d] \in MakeLabels \ {"other"} =>
           pc'[d] = pc[d] /\ me'[d] = me[d] /\ job'[d] = job[d],
         \A d \in Client : Making(d)' => pc'[d] = "other" \/ (pc'[d] = pc[d] /\ job'[d] = job[d])
  PROVE  RacesOK' /\ ContentOK' /\ OwnOK'
  <1>1. \A d \in Client : pc'[d] \in Appending => pc[d] \in Appending /\ me'[d] = me[d]
    BY DEF MakeLabels, Appending
  <1>2. ContentOK'
    BY <1>1 DEF ContentOK, ContentAt, files
  <1>3. OwnOK'
    BY <1>1 DEF OwnOK
  <1>4. ASSUME NEW p \in Path, PathOK(p) PROVE PathOK(p)'
    <2>1. NamedOK(p)' /\ OneLive(p)'
      BY <1>4 DEF PathOK, NamedOK, OneLive, At, files
    <2>2. \A d \in Client : Makes(d, p)' => pc'[d] = "other" \/ (Makes(d, p) /\ pc'[d] = pc[d])
      BY DEF Makes, Making
    <2>3. OneMaking(p)'
      BY <1>4, <2>2 DEF PathOK, OneMaking
    <2>4. ASSUME NEW d \in Client, Makes(d, p)' PROVE MakingOK(d)'
      <3>1. CASE pc'[d] \notin MakeLabels \ {"other"}
        BY <3>1 DEF MakingOK, MakeLabels, Entries0
      <3>2. CASE pc'[d] \in MakeLabels \ {"other"}
        <4>1. MakingOK(d)
          BY <1>4, <2>2, <2>4, <3>2 DEF PathOK
        <4>2. OwnKey(d)' = OwnKey(d) /\ OtherKind(OwnKey(d))' = OtherKind(OwnKey(d))
          BY <3>2 DEF OwnKey, OtherKind
        <4>3. pc'[d] = pc[d] /\ me'[d] = me[d]
          BY <3>2
        <4> QED BY <4>1, <4>2, <4>3 DEF MakingOK, files
      <3> QED BY <3>1, <3>2
    <2> QED BY <2>1, <2>3, <2>4 DEF PathOK
  <1>5. \A p : HasRaced(p)' <=> HasRaced(p)
    BY DEF HasRaced
  <1> QED BY <1>2, <1>3, <1>4, <1>5 DEF RacesOK

LEMMA NamesQuiet ==
  ASSUME Core, RacesOK, ContentOK, OwnOK, NEW c \in Client, Quiet(c)
  PROVE  RacesOK' /\ ContentOK' /\ OwnOK'
  <1>1. Types /\ Flow
    BY DEF Core, Base
  <1>2. /\ UNCHANGED files /\ was'.raced = was.raced
        /\ \A d \in Client : d # c => pc'[d] = pc[d] /\ me'[d] = me[d] /\ job'[d] = job[d]
        /\ pc'[c] \in Starts \cup {"ready"} /\ FlowAt(c)'
    BY <1>1, QuietIs
  <1>3. pc'[c] \notin MakeLabels \ {"other"}
    BY <1>2 DEF Starts, MakeLabels, Entries0, Appending
  <1>4. Making(c)' => pc'[c] = "other"
    <2>1. Making(c)' => pc'[c] \in MakeLabels
      BY <1>2 DEF Making, FlowAt, LabelsOf, NoJob
    <2> QED BY <1>3, <2>1
  <1> QED BY <1>2, <1>3, <1>4, NamesKept

LEMMA NamesStay ==
  ASSUME RacesOK, ContentOK, OwnOK, UNCHANGED vars
  PROVE  RacesOK' /\ ContentOK' /\ OwnOK'
  <1>1. UNCHANGED <<files, pc, me, job, was>>
    BY DEF vars
  <1> QED BY <1>1, NamesKept

LEMMA NamesInit ==
  ASSUME Init
  PROVE  RacesOK /\ ContentOK /\ OwnOK
  <1>1. \A i \in Inode : home[i] = 0 /\ \A o \in Offsets : data[i][o] = Blank
    BY DEF Init, Offsets
  <1>2. \A c \in Client : pc[c] = "ready" /\ job[c] = NoJob
    BY DEF Init
  <1>3. \A c \in Client : ~Making(c)
    BY <1>2 DEF Making, NoJob
  <1>4. RacesOK
    BY <1>1, <1>3 DEF RacesOK, PathOK, NamedOK, OneLive, OneMaking, At, Makes
  <1>5. ContentOK
    BY <1>1, UnitsApart DEF ContentOK, ContentAt, Headers, Names
  <1>6. OwnOK
    BY <1>2 DEF OwnOK, Appending
  <1> QED BY <1>4, <1>5, <1>6

(* UniqueNames: two entries of a directory that are there have different       *)
(* names, whoever makes and removes what meanwhile, but for paths that the     *)
(* races the property names have touched.                                      *)
THEOREM FilesNamesUnique == Spec => []UniqueNames
  <1>1. ASSUME Core, ContentOK, RacesOK PROVE UniqueNames
    <2> SUFFICES ASSUME NEW i \in Inode, NEW d \in Entries(i), NEW e \in Entries(i), d # e,
                        len[d[2]] # -1, len[e[2]] # -1, data[i][d[1] + 1] = data[i][e[1] + 1]
                 PROVE  \E r \in was.raced : data[i][d[1] + 1] = NameOf(r[2])
      BY DEF UniqueNames
    <2>1. Types /\ MaxUnits \in Nat /\ len[i] \in Offsets
      BY <1>1, FileIs, Sizes DEF Core, Base
    <2>2. ASSUME NEW x \in Entries(i)
          PROVE  /\ x[1] \in Offsets /\ x[2] \in Inode /\ data[i][x[1]] = Header(x[2])
                 /\ x = <<x[1], x[2]>> /\ x[1] \in Int
      <3>1. PICK o \in 0 .. len[i] - 1 : x = <<o, data[i][o][2]>> /\ data[i][o][1] = "inode"
        BY <2>2 DEF Entries
      <3>2. o \in Offsets
        BY <2>1 DEF Offsets
      <3>3. data[i][o] \in Units
        BY <2>1, <3>2, FileIs
      <3>4. data[i][o] = Header(data[i][o][2]) /\ data[i][o][2] \in Inode
        BY <3>1, <3>3, UnitKinds
      <3>5. x[1] = o /\ x[2] = data[i][o][2] /\ o \in Int
        BY <3>1
      <3> QED BY <3>1, <3>2, <3>4, <3>5
    <2> DEFINE o == d[1] n == d[2] q == e[1] m == e[2]
    <2>3. o # q
      <3>1. d = <<o, n>> /\ e = <<q, m>> /\ data[i][o] = Header(n) /\ data[i][q] = Header(m)
        BY <2>2
      <3>2. o = q => n = m
        BY <3>1, UnitsApart
      <3> QED BY <3>1, <3>2
    <2>4. ContentAt(i, o) /\ ContentAt(i, q)
      BY <1>1, <2>2 DEF ContentOK
    <2>5. /\ home[n] = i /\ o < MaxUnits /\ data[i][o + 1] \in Headers \cup Names
          /\ home[m] = i /\ q < MaxUnits
          /\ \A p \in Path : data[i][o + 1] = NameOf(p) => key[n][2] = p /\ key[m][2] = p
          /\ \A j \in Inode, x \in Offsets : data[j][x] = data[i][o] => x = o
      BY <2>2, <2>4 DEF ContentAt
    <2>6. o + 1 \in Offsets /\ q + 1 \in Offsets /\ o + 1 # q + 1
      BY <2>1, <2>2, <2>3, <2>5 DEF Offsets
    <2>7. CASE data[i][o + 1] \in Headers
      <3>1. PICK x \in Inode : data[i][o + 1] = Header(x)
        BY <2>7 DEF Headers
      <3>2. ContentAt(i, o + 1)
        BY <1>1, <2>6 DEF ContentOK
      <3> QED BY <2>6, <3>1, <3>2 DEF ContentAt
    <2>8. CASE data[i][o + 1] \in Names
      <3>1. PICK p \in Path : data[i][o + 1] = NameOf(p)
        BY <2>8 DEF Names
      <3>2. At(n, p) /\ At(m, p)
        BY <2>5, <3>1, Sizes DEF At
      <3>3. n # m
        BY <2>2, <2>3, <2>5
      <3>4. ~OneLive(p)
        BY <2>2, <3>2, <3>3 DEF OneLive
      <3>5. HasRaced(p)
        BY <1>1, <3>4 DEF RacesOK, PathOK
      <3> QED BY <3>1, <3>5 DEF HasRaced
    <2> QED BY <2>5, <2>7, <2>8
  <1> DEFINE I == Core /\ RacesOK /\ ContentOK /\ OwnOK
  <1>2. Init => I
    BY CoreInit, NamesInit
  <1>3. I /\ [Next]_vars => I'
    BY CoreOperate, CoreQuiet, CoreStays, RacesStep, ContentStep, OwnStep, NamesQuiet, NamesStay, NextIs
  <1> QED BY <1>1, <1>2, <1>3, PTL DEF Spec

-------------------------------------------------------------------------------
(* Directories in which nothing was made while they were removed.              *)
LEMMA Parity ==
  /\ \A n \in Nat : n % 2 = 0 => (n + 2) % 2 = 0 /\ (n + 1) % 2 = 1
  /\ \A n \in Nat : n % 2 = 0 \/ n % 2 = 1
  /\ \A n, m \in Nat : n % 2 = 0 /\ m % 2 = 0 => n # m + 1
  /\ 0 % 2 = 0
  OBVIOUS

(* How a getdir moves.                                                         *)
LEMMA GetdirMoves ==
  ASSUME Core, NEW c \in Client, Operate(c)
  PROVE  /\ pc'[c] = "dirGet" => /\ pc[c] = "dirLen" /\ me'[c].ino = me[c].ino
                                 /\ me'[c].at = len[me[c].ino] /\ len[me[c].ino] # -1
         /\ pc[c] = "dirGet" => Scanned(c, Got(me[c].ino, 0, me[c].at), {})
         /\ pc[c] = "scan" => Scanned(c, SubSeq(me[c].buf, Step(me[c].buf) + 1, Len(me[c].buf)),
                                      Shows(c, Value(OpOf(c))))
         /\ pc'[c] = "scan" => pc[c] \in {"dirGet", "scan"}
         /\ pc'[c] = "return" /\ job[c].kind = "getdir" /\ me'[c].result # Failed =>
              pc[c] \in {"dirGet", "scan"}
  <1>1. Types /\ Base /\ Flow /\ pc[c] # "ready"
    BY DEF Core, Base, Operate
  <1>2. Types /\ Parts(c, Value(OpOf(c)))
    BY <1>1, Operated
  <1>3. pc'[c] \in GoesTo(c)
    BY <1>1, Operated
  <1>4. CASE pc[c] = "dirLen"
    <2>1. Value(OpOf(c)) = len[me[c].ino]
      BY <1>1, <1>4, Measured DEF LenLabels
    <2>2. IF Value(OpOf(c)) = -1 THEN Ended(c, Failed) ELSE NotesAt(c, "dirGet", Value(OpOf(c)))
      BY <1>2, <1>4, ContentMoves
    <2>3. Ended(c, Failed) => pc'[c] = "return" /\ me'[c].result = Failed
      BY <1>1, FieldsEnded
    <2>4. NotesAt(c, "dirGet", Value(OpOf(c))) =>
            pc'[c] = "dirGet" /\ me'[c].ino = me[c].ino /\ me'[c].at = Value(OpOf(c))
      BY <1>1, FieldsAt
    <2> QED BY <1>4, <2>1, <2>2, <2>3, <2>4
  <1>5. CASE pc[c] = "dirLookup"
    <2>1. IF Value(OpOf(c)) = 0 THEN Ended(c, Failed) ELSE Notes(c, "dirLen", Value(OpOf(c)))
      BY <1>2, <1>5, ContentMoves
    <2>2. Ended(c, Failed) => pc'[c] = "return" /\ me'[c].result = Failed
      BY <1>1, FieldsEnded
    <2>3. Notes(c, "dirLen", Value(OpOf(c))) => pc'[c] = "dirLen"
      BY <1>1, FieldsNotes
    <2> QED BY <1>5, <2>1, <2>2, <2>3
  <1>6. CASE pc[c] = "dirGet"
    <2>1. Value(OpOf(c)) = Got(me[c].ino, 0, me[c].at)
      BY <1>6, Values
    <2>2. Scanned(c, Got(me[c].ino, 0, me[c].at), {})
      BY <1>2, <1>6, <2>1, ContentMoves
    <2> QED BY <1>3, <1>6, <2>2 DEF GoesTo
  <1>7. CASE pc[c] = "scan"
    <2>1. Scanned(c, SubSeq(me[c].buf, Step(me[c].buf) + 1, Len(me[c].buf)), Shows(c, Value(OpOf(c))))
      BY <1>2, <1>7, ContentMoves
    <2> QED BY <1>3, <1>7, <2>1 DEF GoesTo
  <1>8. CASE pc[c] \notin {"dirLookup", "dirLen", "dirGet", "scan"}
    <2>1. job[c].kind # "getdir"
      <3>1. pc[c] # "return"
        BY DEF Operate
      <3> QED BY <1>1, <1>8, <3>1, Kinds
    <2>2. pc'[c] \notin {"dirGet", "scan"}
      BY <1>3, <1>8 DEF GoesTo
    <2> QED BY <1>8, <2>1, <2>2
  <1> QED BY <1>4, <1>5, <1>6, <1>7, <1>8

LEMMA RegularBefore ==
  ASSUME Core, NEW c \in Client, Operate(c), NEW i \in Inode, i <= inodes, Regular(i)'
  PROVE  /\ Regular(i) /\ key'[i] = key[i]
         /\ pc[c] = "appendSet" /\ me[c].ino = i => me[c].at # -1
  <1>1. Types /\ Base /\ Counts
    BY DEF Core, Base
  <1>2. key'[i] = key[i]
    BY <1>1, Older
  <1>3. was'.raced = was.raced \cup (IF Raced(c) THEN {<<"made", job[c].path>>} ELSE {})
                       \cup (IF Revived(c) THEN {<<"revived", job[c].path>>} ELSE {})
                       \cup (IF Regrown(c) THEN {<<"regrown", Parent[job[c].path]>>} ELSE {})
    BY <1>1, Noted
  <1>4. Regular(i)
    BY <1>2, <1>3 DEF Regular
  <1>5. ASSUME pc[c] = "appendSet", me[c].ino = i, me[c].at = -1 PROVE FALSE
    <2>1. Regrown(c)
      BY <1>5 DEF Regrown
    <2>2. key[i] = DirKey(Parent[job[c].path])
      BY <1>1, <1>5, SetsOf DEF SetIno, SetLabels
    <2>3. key[i][2] = Parent[job[c].path]
      BY <2>2 DEF DirKey
    <2>4. <<"regrown", key'[i][2]>> \in was'.raced
      BY <1>2, <1>3, <2>1, <2>3
    <2> QED BY <2>4 DEF Regular
  <1> QED BY <1>2, <1>4, <1>5

LEMMA RegularStep ==
  ASSUME Core, DirsOK, RegularsOK, NEW c \in Client, Operate(c)
  PROVE  RegularsOK'
  <1>1. Types /\ Base /\ Counts /\ Known /\ inodes \in Nat /\ MaxUnits \in Nat
    BY Sizes DEF Core, Base, Types, FileTypes
  <1> SUFFICES ASSUME NEW i \in Inode, Regular(i)' PROVE RegularOK(i)'
    BY DEF RegularsOK
  <1>2. \A d \in Client : d # c => pc'[d] = pc[d] /\ me'[d] = me[d]
    BY MakingMoves
  <1>3. CASE i > inodes
    <2>1. pc[c] \in {"create", "mountRoot"}
      <3>1. key[i] = NoKey
        BY <1>1, <1>3 DEF Known
      <3>2. key'[i] # NoKey
        BY DEF Regular, NoKey
      <3> QED BY <1>1, <3>1, <3>2, Older
    <2>2. len'[i] = 0 /\ data' = data
      BY <1>1, <1>3, <2>1, CreateIs DEF Known
    <2>3. \A o \in Offsets : data[i][o] = Blank
      BY <1>3 DEF DirsOK
    <2>4. \A o \in 0 .. MaxUnits - 1 : Pair(data'[i][o], data'[i][o + 1])
      <3>1. \A o \in 0 .. MaxUnits - 1 : o \in Offsets /\ o + 1 \in Offsets
        BY <1>1 DEF Offsets
      <3> SUFFICES ASSUME NEW o \in 0 .. MaxUnits - 1 PROVE Pair(data'[i][o], data'[i][o + 1])
        OBVIOUS
      <3>2. data'[i][o] = Blank /\ data'[i][o + 1] = Blank
        <4>1. o \in Offsets /\ o + 1 \in Offsets
          BY <3>1
        <4> QED BY <2>2, <2>3, <4>1
      <3> QED BY <3>2 DEF Pair
    <2>5. ASSUME NEW d \in Client, pc'[d] \in {"appendSet", "appendPut", "dirGet"}
          PROVE  me'[d].ino # i
      <3>1. CASE d = c
        BY <1>1, <2>1, <2>5, <3>1, Operated DEF GoesTo, Base
      <3>2. CASE d # c
        BY <1>1, <1>2, <1>3, <2>5, <3>2, LocalIs
      <3> QED BY <3>1, <3>2
    <2> QED BY <2>2, <2>4, <2>5, Parity DEF RegularOK
  <1>4. CASE ~(i > inodes)
    <2>1. i <= inodes /\ i \in Int
      BY <1>1, <1>4, Sizes
    <2>2. Regular(i) /\ key'[i] = key[i] /\ (pc[c] = "appendSet" /\ me[c].ino = i => me[c].at # -1)
      BY <2>1, RegularBefore
    <2>3. RegularOK(i) /\ key[i][1] = "dir"
      BY <2>2 DEF RegularsOK, Regular
    <2>4. len[i] \in Offsets /\ me[c].at \in Offsets
      BY <1>1, FileIs, Here
    <2>5. len'[i] = -1 \/ len'[i] % 2 = 0
      <3>1. CASE pc[c] \in SetLabels
        <4>1. len' = [len EXCEPT ![SetIno(c)] = SetTo(c)] /\ len \in [Inode -> Offsets]
          BY <1>1, <3>1, SizeIs DEF Types, FileTypes
        <4>2. CASE SetIno(c) # i
          BY <2>3, <4>1, <4>2 DEF RegularOK
        <4>3. CASE SetIno(c) = i
          <5>1. pc[c] \notin {"cut", "extend"}
            BY <1>1, <2>3, <3>1, <4>3, SetsOf
          <5>2. len'[i] = SetTo(c)
            BY <4>1, <4>3
          <5>3. pc[c] = "appendSet" => me[c].at \in Nat /\ me[c].at % 2 = 0
            BY <2>2, <2>3, <2>4, <4>3 DEF RegularOK, SetIno, Offsets
          <5>4. pc[c] = "appendSet" => SetTo(c) % 2 = 0
            BY <5>3, Parity DEF SetTo, Entry
          <5>5. pc[c] = "remove" => SetTo(c) = -1
            BY DEF SetTo
          <5>6. pc[c] = "revive" => SetTo(c) % 2 = 0
            BY Parity DEF SetTo
          <5> QED BY <3>1, <5>1, <5>2, <5>4, <5>5, <5>6 DEF SetLabels
        <4> QED BY <4>2, <4>3
      <3>2. CASE pc[c] \notin SetLabels
        BY <1>1, <2>3, <3>2, Older DEF RegularOK
      <3> QED BY <3>1, <3>2
    <2>6. ASSUME NEW o \in 0 .. MaxUnits - 1, o % 2 = 0
          PROVE  Pair(data'[i][o], data'[i][o + 1])
      <3>1. Pair(data[i][o], data[i][o + 1]) /\ o \in Offsets /\ o + 1 \in Offsets /\ o \in Nat
        BY <1>1, <2>3, <2>6 DEF RegularOK, Offsets
      <3>2. CASE pc[c] = "appendPut"
        <4>1. \A x \in Offsets :
                data'[i][x] = IF i = me[c].ino /\ me[c].at + Entry <= len[i] /\ x = me[c].at
                              THEN Header(me[c].own)
                              ELSE IF i = me[c].ino /\ me[c].at + Entry <= len[i] /\ x = me[c].at + 1
                              THEN NameOf(job[c].path) ELSE data[i][x]
          BY <1>1, <3>2, PutIs
        <4>2. CASE ~(i = me[c].ino /\ me[c].at + Entry <= len[i])
          BY <3>1, <4>1, <4>2
        <4>3. CASE i = me[c].ino /\ me[c].at + Entry <= len[i]
          <5>1. me[c].at \in Nat /\ me[c].at % 2 = 0
            BY <2>3, <2>4, <3>2, <4>3 DEF RegularOK, Offsets
          <5>2. o # me[c].at + 1 /\ (o # me[c].at => o + 1 # me[c].at /\ o + 1 # me[c].at + 1)
            <6>1. o # me[c].at + 1 /\ me[c].at # o + 1
              BY <2>6, <3>1, <5>1, Parity
            <6> QED BY <3>1, <5>1, <6>1
          <5>3. CASE o # me[c].at
            BY <3>1, <4>1, <5>2, <5>3
          <5>4. CASE o = me[c].at
            <6>1. data'[i][o] = Header(me[c].own) /\ data'[i][o + 1] = NameOf(job[c].path)
              <7>1. o + 1 # me[c].at
                BY <3>1, <5>4
              <7> QED BY <3>1, <4>1, <4>3, <5>4, <7>1
            <6>2. me[c].own \in Inode /\ job[c].path \in Path
              BY <1>1, <3>2, LocalIs, Kinds, JobTypes DEF Appending, Base
            <6> QED BY <6>1, <6>2 DEF Pair, Headers, Names
          <5> QED BY <5>3, <5>4
        <4> QED BY <4>2, <4>3
      <3>3. CASE pc[c] = "writePut"
        <4>1. key[handle[c].ino][1] = "file"
          BY <1>1, <3>3 DEF Base, Known, HandleAt, Is
        <4>2. \A x \in Offsets : data'[i][x] = data[i][x]
          BY <1>1, <2>3, <3>3, <4>1, WriteIs
        <4> QED BY <3>1, <4>2
      <3>4. CASE pc[c] \notin {"appendPut", "writePut"}
        <4>1. data' = data
          BY <1>1, <3>4, Operated, Effects DEF files, Sized, Created, Base
        <4> QED BY <3>1, <4>1
      <3> QED BY <3>2, <3>3, <3>4
    <2>7. ASSUME NEW d \in Client, me'[d].ino = i
          PROVE  /\ pc'[d] = "appendSet" => me'[d].at = -1 \/ me'[d].at % 2 = 0
                 /\ pc'[d] = "appendPut" => me'[d].at >= 0 /\ me'[d].at % 2 = 0
                 /\ pc'[d] = "dirGet" => me'[d].at % 2 = 0
      <3>1. CASE d # c
        BY <1>2, <2>3, <2>7, <3>1 DEF RegularOK
      <3>2. CASE d = c /\ pc'[c] = "appendSet"
        <4>1. me'[c].ino = me[c].ino /\ me'[c].at = len[me[c].ino]
          BY <3>2, MakingMoves
        <4> QED BY <2>3, <2>7, <3>2, <4>1 DEF RegularOK
      <3>3. CASE d = c /\ pc'[c] = "appendPut"
        <4>1. pc[c] = "appendSet" /\ me'[c] = me[c]
          BY <3>3, MakingMoves
        <4>2. me[c].at # -1 /\ me[c].at % 2 = 0
          BY <2>2, <2>3, <2>7, <3>3, <4>1 DEF RegularOK
        <4> QED BY <2>4, <3>3, <4>1, <4>2 DEF Offsets
      <3>4. CASE d = c /\ pc'[c] = "dirGet"
        <4>1. me'[c].ino = me[c].ino /\ me'[c].at = len[me[c].ino] /\ len[me[c].ino] # -1
          BY <3>4, GetdirMoves
        <4> QED BY <2>3, <2>7, <3>4, <4>1 DEF RegularOK
      <3> QED BY <3>1, <3>2, <3>3, <3>4
    <2> QED BY <2>5, <2>6, <2>7 DEF RegularOK
  <1> QED BY <1>3, <1>4

(* The steps that do not call the inode store.                                 *)
LEMMA RegularKept ==
  ASSUME RegularsOK, UNCHANGED files, was'.raced = was.raced,
         \A d \in Client : pc'[d] \in {"appendSet", "appendPut", "dirGet"} =>
           pc'[d] = pc[d] /\ me'[d] = me[d]
  PROVE  RegularsOK'
  <1>1. \A i : Regular(i)' <=> Regular(i)
    BY DEF Regular, files
  <1>2. ASSUME NEW i \in Inode, RegularOK(i) PROVE RegularOK(i)'
    BY <1>2 DEF RegularOK, files
  <1> QED BY <1>1, <1>2 DEF RegularsOK

LEMMA RegularInit ==
  ASSUME Init
  PROVE  RegularsOK
  <1>1. MaxUnits \in Nat
    BY Sizes
  <1>2. \A i \in Inode : len[i] = 0 /\ \A o \in 0 .. MaxUnits : data[i][o] = Blank
    BY <1>1 DEF Init
  <1>3. \A o \in 0 .. MaxUnits - 1 : o \in 0 .. MaxUnits /\ o + 1 \in 0 .. MaxUnits
    BY <1>1
  <1>4. \A c \in Client : pc[c] = "ready"
    BY DEF Init
  <1> QED BY <1>2, <1>3, <1>4, Parity DEF RegularsOK, RegularOK, Pair

-------------------------------------------------------------------------------
(* What a getdir has seen.                                                     *)
(* Content that is read in pairs stays in pairs as it is passed over.          *)
LEMMA GotPaired ==
  ASSUME Types, NEW i \in Inode, RegularOK(i), NEW n \in Nat, n <= MaxUnits, n % 2 = 0
  PROVE  Len(Got(i, 0, n)) = n /\ Paired(Got(i, 0, n))
  <1>1. Len(Got(i, 0, n)) = n
    BY DEF Got
  <1>2. ASSUME NEW k \in 1 .. n, (n - k) % 2 = 1
        PROVE  Pair(Got(i, 0, n)[k], Got(i, 0, n)[k + 1])
    <2>1. k + 1 \in 1 .. n /\ (k - 1) % 2 = 0 /\ k - 1 \in 0 .. MaxUnits - 1
      BY <1>2, Sizes
    <2>2. Pair(data[i][k - 1], data[i][k - 1 + 1])
      BY <2>1 DEF RegularOK
    <2>3. k - 1 + 1 = k /\ 0 + k - 1 = k - 1 /\ 0 + (k + 1) - 1 = k
      OBVIOUS
    <2>4. /\ Got(i, 0, n)[k] = IF Within(i, 0, n) THEN data[i][0 + k - 1] ELSE Blank
          /\ Got(i, 0, n)[k + 1] = IF Within(i, 0, n) THEN data[i][0 + (k + 1) - 1] ELSE Blank
      BY <2>1 DEF Got
    <2>5. CASE Within(i, 0, n)
      BY <2>2, <2>3, <2>4, <2>5
    <2>6. CASE ~Within(i, 0, n)
      BY <2>4, <2>6 DEF Pair
    <2> QED BY <2>5, <2>6
  <1>3. ~(Len(Got(i, 0, n)) % 2 = 1)
    BY <1>1
  <1> QED BY <1>1, <1>2, <1>3 DEF Paired

LEMMA PairedRest ==
  ASSUME NEW buf \in Seq(Units), buf # <<>>, Paired(buf)
  PROVE  /\ Paired(SubSeq(buf, Step(buf) + 1, Len(buf)))
         /\ \A n \in Heads(buf) : \/ n \in Heads(SubSeq(buf, Step(buf) + 1, Len(buf)))
                                  \/ n = HeadInode(buf)
  <1> DEFINE rest == SubSeq(buf, Step(buf) + 1, Len(buf)) L == Len(buf) s == Step(buf)
  <1>1. /\ rest \in Seq(Units) /\ s \in {1, 2} /\ buf[1] \in Units
        /\ Len(rest) = IF s < L THEN L - s ELSE 0
        /\ \A k \in 1 .. L - s : rest[k] = buf[k + s]
    BY Rest
  <1>2. L \in Nat /\ L >= 1
    BY EmptySeq, LenProperties
  <1>3. L % 2 = 1 \/ (L >= 2 /\ (L - 1) % 2 = 1 /\ L % 2 = 0)
    BY <1>2
  <1>4. /\ \A k \in 1 .. L : (L - k) % 2 = 1 => Pair(buf[k], buf[k + 1])
        /\ L % 2 = 1 => buf[1] = Blank
    BY DEF Paired
  <1>5. L % 2 = 0 => L >= 2 /\ Pair(buf[1], buf[2])
    <2>1. 1 \in 1 .. L /\ 1 + 1 = 2
      BY <1>2
    <2> QED BY <1>3, <1>4, <2>1
  <1>6. s = IF buf[1] = Blank THEN 1 ELSE 2
    BY DEF Step, Entry
  <1> HIDE DEF s, rest, L
  <1>7. ASSUME NEW k \in 1 .. Len(rest), (Len(rest) - k) % 2 = 1
        PROVE  Pair(rest[k], rest[k + 1])
    <2>1. s < L /\ Len(rest) = L - s
      BY <1>1, <1>2, <1>7
    <2>2. k + s \in 1 .. L /\ (L - (k + s)) % 2 = 1 /\ k \in 1 .. L - s /\ k + 1 \in 1 .. L - s
          /\ k + 1 + s = (k + s) + 1
      <3>1. k \in Nat /\ k >= 1 /\ k <= L - s /\ s \in 1 .. 2 /\ s \in Nat /\ L - s \in Nat
        BY <1>1, <1>2, <1>7, <2>1
      <3>2. ((L - s) - k) % 2 = 1
        BY <1>7, <2>1
      <3>3. k # L - s
        BY <3>1, <3>2
      <3>4. L - (k + s) = (L - s) - k
        BY <1>2, <3>1
      <3>5. (L - (k + s)) % 2 = 1
        BY <3>2, <3>4
      <3> QED BY <1>2, <3>1, <3>3, <3>5
    <2>3. Pair(buf[k + s], buf[(k + s) + 1])
      BY <1>4, <2>2
    <2> QED BY <1>1, <2>2, <2>3
  <1>8. ASSUME Len(rest) % 2 = 1 PROVE rest[1] = Blank
    <2>1. s < L /\ Len(rest) = L - s
      BY <1>1, <1>2, <1>8
    <2>2. s = 1
      <3>1. CASE s = 2
        <4>1. L % 2 = 1
          BY <1>2, <1>8, <2>1, <3>1
        <4> QED BY <1>4, <1>6, <3>1, <4>1
      <3> QED BY <1>1, <3>1
    <2>3. L % 2 = 0
      BY <1>2, <1>8, <2>1, <2>2
    <2>4. buf[1] = Blank /\ Pair(buf[1], buf[2])
      BY <1>5, <1>6, <2>2, <2>3
    <2>5. buf[2] = Blank
      BY <2>4, UnitsApart DEF Pair, Headers
    <2>6. 1 \in 1 .. L - s /\ 1 + s = 2
      BY <1>2, <2>1, <2>2
    <2> QED BY <1>1, <2>5, <2>6
  <1>9. ASSUME NEW n \in Heads(buf) PROVE n \in Heads(rest) \/ n = HeadInode(buf)
    <2>1. PICK k \in 1 .. L : n \in Inode /\ buf[k] = Header(n)
      BY DEF Heads, L
    <2>2. CASE k = 1
      BY <2>1, <2>2, UnitsApart DEF HeadInode
    <2>3. CASE k > s
      <3>1. k - s \in 1 .. L - s /\ k - s + s = k /\ Len(rest) = L - s
        BY <1>1, <1>2, <2>1, <2>3
      <3>2. rest[k - s] = Header(n)
        BY <1>1, <2>1, <3>1
      <3> QED BY <2>1, <3>1, <3>2 DEF Heads
    <2>4. CASE k # 1 /\ ~(k > s)
      <3>1. k = 2 /\ s = 2
        BY <1>1, <1>2, <2>1, <2>4
      <3>2. buf[1] # Blank
        BY <1>6, <3>1
      <3>3. buf[2] \in Names
        BY <1>3, <1>4, <1>5, <3>2 DEF Pair
      <3> QED BY <2>1, <3>1, <3>3, UnitsApart DEF Names
    <2> QED BY <2>2, <2>3, <2>4
  <1> QED BY <1>7, <1>8, <1>9 DEF Paired, rest

LEMMA HeadsRest ==
  ASSUME NEW buf \in Seq(Units), buf # <<>>
  PROVE  /\ Heads(SubSeq(buf, Step(buf) + 1, Len(buf))) \subseteq Heads(buf)
         /\ HeadInode(buf) # 0 => HeadInode(buf) \in Heads(buf)
  <1> DEFINE rest == SubSeq(buf, Step(buf) + 1, Len(buf)) L == Len(buf) s == Step(buf)
  <1>1. /\ s \in {1, 2} /\ buf[1] \in Units
        /\ Len(rest) = IF s < L THEN L - s ELSE 0
        /\ \A k \in 1 .. L - s : rest[k] = buf[k + s]
    BY Rest
  <1>2. L \in Nat /\ L >= 1
    BY EmptySeq, LenProperties
  <1> HIDE DEF s, rest, L
  <1>3. ASSUME NEW n \in Heads(rest) PROVE n \in Heads(buf)
    <2>1. PICK k \in 1 .. Len(rest) : n \in Inode /\ rest[k] = Header(n)
      BY DEF Heads
    <2>2. k \in 1 .. L - s /\ k + s \in 1 .. L
      BY <1>1, <1>2, <2>1
    <2>3. buf[k + s] = Header(n)
      BY <1>1, <2>1, <2>2
    <2> QED BY <2>1, <2>2, <2>3 DEF Heads, L
  <1>4. HeadInode(buf) # 0 => HeadInode(buf) \in Heads(buf)
    <2>1. HeadInode(buf) # 0 =>
            HeadInode(buf) \in Inode /\ buf[1] = Header(HeadInode(buf))
      BY <1>1, UnitKinds DEF HeadInode
    <2>2. 1 \in 1 .. Len(buf)
      BY <1>2 DEF L
    <2> QED BY <2>1, <2>2 DEF Heads
  <1> QED BY <1>3, <1>4 DEF rest

(* What the step notes of a getdir.                                            *)
LEMMA ListingNoted ==
  ASSUME Core, NEW c \in Client, Operate(c), NEW d \in Client
  PROVE  /\ was'.must[d] = was.must[d] \cap Present(d)'
         /\ was'.may[d] = was.may[d] \cup Present(d)'
         /\ was.removed \subseteq was'.removed /\ was.overlapped \subseteq was'.overlapped
         /\ pc[c] = "appendSet" /\ len[me[c].ino] # me[c].at => me[c].ino \in was'.overlapped
  BY Noted DEF Core

LEMMA CleanBefore ==
  ASSUME Core, NEW c \in Client, Operate(c), NEW i \in Inode, i <= inodes, Clean(i)'
  PROVE  Clean(i)
  <1>1. key'[i] = key[i]
    BY Older DEF Core
  <1>2. was.removed \subseteq was'.removed /\ was.overlapped \subseteq was'.overlapped
    BY ListingNoted
  <1> QED BY <1>1, <1>2 DEF Clean

(* A header that is still there after a step is where it was.                  *)
LEMMA HeaderStays ==
  ASSUME Core, ContentOK, NEW c \in Client, Operate(c), NEW i \in Inode, NEW n \in Inode,
         NEW o \in Offsets, data[i][o] = Header(n), NEW q \in Offsets, data'[i][q] = Header(n)
  PROVE  o = q
  <1>1. Types /\ Base /\ Flow
    BY DEF Core, Base
  <1>2. ContentAt(i, o)
    BY DEF ContentOK
  <1>3. /\ \A x \in Offsets : data[i][x] = Header(n) => o = x
        /\ pc[c] \in Appending => me[c].own # n
    BY <1>2 DEF ContentAt
  <1>4. data'[i][q] = data[i][q]
    <2>1. CASE pc[c] = "appendPut"
      <3>1. \/ data'[i][q] = data[i][q] \/ data'[i][q] = Header(me[c].own)
            \/ data'[i][q] = NameOf(job[c].path)
        BY <1>1, <2>1, PutIs
      <3>2. me[c].own # n
        BY <1>3, <2>1 DEF Appending
      <3> QED BY <3>1, <3>2, UnitsApart
    <2>2. CASE pc[c] = "writePut"
      <3>1. data'[i][q] = data[i][q] \/ data'[i][q] = Content(job[c].val)
        BY <1>1, <2>2, WriteIs
      <3> QED BY <3>1, UnitsApart
    <2>3. CASE pc[c] \notin {"appendPut", "writePut"}
      BY <1>1, <2>3, Operated, Effects DEF files, Sized, Created
    <2> QED BY <2>1, <2>2, <2>3
  <1> QED BY <1>3, <1>4

(* A directory that is Clean keeps what it lists.                              *)
LEMMA HoldsStays ==
  ASSUME Core, ContentOK, DirsOK, NEW c \in Client, Operate(c), NEW i \in Inode, i <= inodes,
         Clean(i)', NEW n \in Inode, Holds(i, n)
  PROVE  Holds(i, n)'
  <1>1. Types /\ Base /\ Counts /\ inodes \in Nat
    BY Sizes DEF Core, Base, Types, FileTypes
  <1>2. CleanOK(i)'
    BY DirsStep DEF DirsOK
  <1>3. PICK o \in 0 .. len[i] - 1 : data[i][o] = Header(n)
    BY DEF Holds
  <1>4. o \in Offsets
    <2>1. len[i] \in Offsets
      BY <1>1 DEF Types, FileTypes
    <2> QED BY <2>1, InOffsets
  <1>5. ContentAt(i, o)
    BY <1>4 DEF ContentOK
  <1>6. home[n] = i /\ n <= inodes /\ \A d \in Client : pc[d] \in Appending => me[d].own # n
    BY <1>3, <1>5 DEF ContentAt
  <1>7. home'[n] = i
    BY <1>1, <1>6, Older
  <1>8. n # inodes + 1
    BY <1>1, <1>6, Sizes
  <1>9. ~Entering(n)'
    <2> SUFFICES ASSUME NEW d \in Client, me'[d].own = n, pc'[d] \in Appending PROVE FALSE
      BY DEF Entering, Appending
    <2>1. CASE d # c
      BY <1>6, <2>1, MakingMoves
    <2>2. CASE d = c /\ pc[c] = "create"
      BY <1>8, <2>2, MakingMoves
    <2>3. CASE d = c /\ pc[c] \in {"appendLen", "appendSet"}
      BY <1>6, <2>3, MakingMoves DEF Appending
    <2> QED BY <2>1, <2>2, <2>3, MakingMoves
  <1> QED BY <1>2, <1>7, <1>9 DEF CleanOK, Holds

(* The directory of a getdir, at the labels past the lookup.                   *)
LEMMA ListingDir ==
  ASSUME Core, NEW d \in Client, job[d].kind = "getdir",
         \/ pc[d] \in {"dirLen", "dirGet", "scan"}
         \/ pc[d] = "return" /\ me[d].result # Failed
  PROVE  /\ me[d].ino \in Inode /\ me[d].ino <= inodes /\ me[d].ino # 0
         /\ key[me[d].ino] = DirKey(job[d].path) /\ key[me[d].ino][1] = "dir"
         /\ DirOf(d) = me[d].ino
  <1>1. Types /\ Base /\ Known /\ inodes \in Nat
    BY Sizes DEF Core, Base, Types, FileTypes
  <1>2. Is(me[d].ino, DirKey(job[d].path))
    BY <1>1 DEF Known, InodeAt
  <1>3. me[d].ino \in 1 .. inodes /\ key[me[d].ino] = DirKey(job[d].path)
    BY <1>2 DEF Is
  <1>4. me[d].ino \in Inode /\ me[d].ino # 0
    <2>1. me[d].ino # 0
      BY <1>1, <1>3
    <2> QED BY <1>1, <2>1, Here
  <1>5. DirOf(d) = me[d].ino
    BY DEF DirOf
  <1> QED BY <1>1, <1>3, <1>4, <1>5 DEF DirKey

LEMMA PresentIs ==
  ASSUME NEW d \in Client, job[d].kind = "getdir", DirOf(d) # 0
  PROVE  Present(d) = {n \in Inode : len[n] # -1 /\ Holds(DirOf(d), n)}
  BY DEF Present

(* What another's step does to a getdir that is about to read the content.     *)
LEMMA GetOthers ==
  ASSUME Core, ContentOK, NEW c \in Client, Operate(c), NEW d \in Client, d # c,
         job[d].kind = "getdir", ListingAt(d), pc[d] = "dirGet"
  PROVE  \/ me[d].ino \in was'.overlapped
         \/ was'.must[d] = {}
         \/ /\ me[d].at <= len'[me[d].ino]
            /\ \A n \in was'.must[d] : \E o \in 0 .. me[d].at - 1 : data'[me[d].ino][o] = Header(n)
  <1>0. PICK i \in Inode : i = me[d].ino
    BY ListingDir
  <1>1. Types /\ Base /\ Counts /\ Flow
    BY DEF Core, Base
  <1>2. /\ i \in Inode /\ i <= inodes /\ i # 0 /\ key[i] = DirKey(job[d].path) /\ key[i][1] = "dir"
        /\ len[i] \in Int /\ me[d].at \in Int
    <2>1. me[d].at \in Int
      BY <1>1, Here, InOffsets
    <2> QED BY <1>0, <1>1, <2>1, ListingDir, FileIs, Sizes
  <1>3. pc'[d] = pc[d] /\ me'[d] = me[d] /\ job' = job
    BY MakingMoves
  <1>4. /\ was'.must[d] = was.must[d] \cap Present(d)' /\ was.overlapped \subseteq was'.overlapped
        /\ pc[c] = "appendSet" /\ len[me[c].ino] # me[c].at => me[c].ino \in was'.overlapped
    BY ListingNoted
  <1>5. Present(d)' = {n \in Inode : len'[n] # -1 /\ Holds(i, n)'}
    <2>1. DirOf(d)' = i
      BY <1>0, <1>3 DEF DirOf
    <2> QED BY <1>2, <1>3, <2>1 DEF Present, Holds
  <1> SUFFICES ASSUME i \notin was'.overlapped, was'.must[d] # {}
               PROVE  /\ me[d].at <= len'[i]
                      /\ \A n \in was'.must[d] : \E o \in 0 .. me[d].at - 1 : data'[i][o] = Header(n)
    BY <1>0
  <1>6. me[d].at <= len[i] /\ \A n \in was.must[d] : \E o \in 0 .. me[d].at - 1 : data[i][o] = Header(n)
    BY <1>0, <1>4 DEF ListingAt
  <1>7. me[d].at <= len'[i]
    <2>1. CASE pc[c] \in SetLabels
      <3>1. len' = [len EXCEPT ![SetIno(c)] = SetTo(c)] /\ len \in [Inode -> Offsets]
        BY <1>1, <2>1, SizeIs DEF Types, FileTypes
      <3>2. CASE SetIno(c) # i
        BY <1>6, <3>1, <3>2
      <3>3. CASE SetIno(c) = i
        <4>1. pc[c] \notin {"cut", "extend"}
          BY <1>1, <1>2, <2>1, <3>3, SetsOf
        <4>2. len'[i] = SetTo(c)
          BY <1>2, <3>1, <3>3
        <4>3. PICK n \in Inode : Holds(i, n)'
          BY <1>4, <1>5
        <4>4. SetTo(c) \in Int /\ SetTo(c) > 0
          <5>1. SetTo(c) \in Int
            BY <1>1, <2>1, SetsOf
          <5>2. PICK o \in 0 .. len'[i] - 1 : data'[i][o] = Header(n)
            BY <4>3 DEF Holds
          <5> QED BY <4>2, <5>1, <5>2
        <4>5. pc[c] = "appendSet"
          <5>1. pc[c] = "remove" => SetTo(c) = -1
            BY <1>1, <2>1, SetsOf
          <5>2. pc[c] = "revive" => SetTo(c) = 0
            BY DEF SetTo
          <5> QED BY <2>1, <4>1, <4>4, <5>1, <5>2 DEF SetLabels
        <4>6. me[c].ino = i /\ len[i] = me[c].at
          BY <1>4, <3>3, <4>5 DEF SetIno
        <4>7. SetTo(c) = len[i] + 2
          BY <4>5, <4>6 DEF SetTo, Entry
        <4> QED BY <1>2, <1>6, <4>2, <4>7
      <3> QED BY <3>2, <3>3
    <2>2. CASE pc[c] \notin SetLabels
      BY <1>1, <1>2, <1>6, <2>2, Older
    <2> QED BY <2>1, <2>2
  <1>8. ASSUME NEW n \in was'.must[d] PROVE \E o \in 0 .. me[d].at - 1 : data'[i][o] = Header(n)
    <2>1. n \in Inode /\ n \in was.must[d] /\ Holds(i, n)'
      BY <1>4, <1>5
    <2>2. PICK o \in 0 .. me[d].at - 1 : data[i][o] = Header(n)
      BY <1>6, <2>1
    <2>3. PICK q \in 0 .. len'[i] - 1 : data'[i][q] = Header(n)
      BY <2>1 DEF Holds
    <2>4. o \in Offsets
      <3>1. me[d].at \in Offsets
        BY <1>1, <1>2, Here
      <3> QED BY <3>1, InOffsets
    <2>5. q \in Offsets
      <3>1. len'[i] \in Offsets
        BY <1>1, <1>2, TypesStep DEF Types, FileTypes
      <3> QED BY <2>3, <3>1, InOffsets
    <2>6. o = q
      BY <1>2, <2>1, <2>2, <2>3, <2>4, <2>5, HeaderStays
    <2> QED BY <2>2, <2>3, <2>6
  <1> QED BY <1>7, <1>8

LEMMA ListingOthers ==
  ASSUME Core, ContentOK, DirsOK, NEW c \in Client, Operate(c), NEW d \in Client, d # c,
         job[d].kind = "getdir", ListingAt(d)
  PROVE  ListingAt(d)'
  <1>1. pc'[d] = pc[d] /\ me'[d] = me[d] /\ job' = job
    BY MakingMoves
  <1>2. /\ was'.must[d] = was.must[d] \cap Present(d)' /\ was'.may[d] = was.may[d] \cup Present(d)'
        /\ was.overlapped \subseteq was'.overlapped
    BY ListingNoted
  <1>3. was'.must[d] \subseteq was.must[d] /\ was.may[d] \subseteq was'.may[d]
    BY <1>2
  <1>4. CASE pc[d] = "dirGet"
    <2>1. \/ me[d].ino \in was'.overlapped
          \/ was'.must[d] = {}
          \/ /\ me[d].at <= len'[me[d].ino]
             /\ \A n \in was'.must[d] : \E o \in 0 .. me[d].at - 1 : data'[me[d].ino][o] = Header(n)
      BY <1>4, GetOthers
    <2> QED BY <1>1, <1>2, <1>4, <2>1 DEF ListingAt
  <1>5. CASE pc[d] = "scan"
    <2>1. PICK i \in Inode : i = me[d].ino /\ i <= inodes
      BY <1>5, ListingDir
    <2>2. Regular(i)' => Regular(i)
      BY <2>1, RegularBefore
    <2>3. Clean(i)' => Clean(i)
      BY <2>1, CleanBefore
    <2>4. \/ i \in was'.overlapped
          \/ ~Regular(i)'
          \/ Paired(me[d].buf) /\ was'.must[d] \subseteq me[d].out \cup Heads(me[d].buf)
      BY <1>2, <1>3, <1>5, <2>1, <2>2 DEF ListingAt
    <2>5. Clean(i)' => me[d].out \ {0} \subseteq was'.may[d]
      BY <1>3, <1>5, <2>1, <2>3 DEF ListingAt
    <2>6. ASSUME Clean(i)', NEW n \in Heads(me[d].buf) PROVE Holds(i, n)'
      <3>1. Holds(i, n) /\ n \in Inode
        BY <1>5, <2>1, <2>3, <2>6 DEF ListingAt, Heads
      <3> QED BY <2>1, <2>6, <3>1, HoldsStays
    <2>7. /\ pc'[d] = "scan"
          /\ was'.must[d] \subseteq Present(d)' /\ Present(d)' \subseteq was'.may[d]
      BY <1>1, <1>2, <1>5
    <2>8. ListingAt(d)' <=>
            /\ was'.must[d] \subseteq Present(d)' /\ Present(d)' \subseteq was'.may[d]
            /\ \/ i \in was'.overlapped
               \/ ~Regular(i)'
               \/ Paired(me[d].buf) /\ was'.must[d] \subseteq me[d].out \cup Heads(me[d].buf)
            /\ Clean(i)' => me[d].out \ {0} \subseteq was'.may[d]
                            /\ \A n \in Heads(me[d].buf) : Holds(i, n)'
      BY <1>1, <2>1, <2>7 DEF ListingAt
    <2> QED BY <2>4, <2>5, <2>6, <2>7, <2>8
  <1>6. CASE pc[d] = "return" /\ me[d].result # Failed
    <2>1. PICK i \in Inode : i = me[d].ino /\ i <= inodes
      BY <1>6, ListingDir
    <2>2. Regular(i)' => Regular(i)
      BY <2>1, RegularBefore
    <2>3. Clean(i)' => Clean(i)
      BY <2>1, CleanBefore
    <2>4. i \in was'.overlapped \/ ~Regular(i)' \/ was'.must[d] \subseteq me[d].out
      BY <1>2, <1>3, <1>6, <2>1, <2>2 DEF ListingAt
    <2>5. Clean(i)' => me[d].out \ {0} \subseteq was'.may[d]
      BY <1>3, <1>6, <2>1, <2>3 DEF ListingAt
    <2>6. ListingAt(d)' <=>
            /\ was'.must[d] \subseteq Present(d)' /\ Present(d)' \subseteq was'.may[d]
            /\ i \in was'.overlapped \/ ~Regular(i)' \/ was'.must[d] \subseteq me[d].out
            /\ Clean(i)' => me[d].out \ {0} \subseteq was'.may[d]
      BY <1>1, <1>6, <2>1 DEF ListingAt
    <2> QED BY <1>2, <2>4, <2>5, <2>6
  <1>7. CASE pc[d] \notin {"dirGet", "scan"} /\ ~(pc[d] = "return" /\ me[d].result # Failed)
    BY <1>1, <1>2, <1>7 DEF ListingAt
  <1> QED BY <1>4, <1>5, <1>6, <1>7

(* The client's own step: the content as it is read, and past one entry.       *)
Seen(c, i, buf, out) ==
  /\ \/ i \in was.overlapped
     \/ ~Regular(i)
     \/ Paired(buf) /\ was.must[c] \subseteq out \cup Heads(buf)
  /\ Clean(i) => out \ {0} \subseteq was.may[c] /\ \A n \in Heads(buf) : Holds(i, n)

LEMMA GetSeen ==
  ASSUME Core, RegularsOK, NEW c \in Client, Operate(c), job[c].kind = "getdir", ListingAt(c),
         pc[c] = "dirGet", NEW i \in Inode, i = me[c].ino,
         NEW buf, buf = Got(i, 0, me[c].at)
  PROVE  Seen(c, i, buf, {})'
  <1>1. Types /\ Base /\ Counts /\ Flow /\ Known
    BY DEF Core, Base
  <1>2. i <= inodes /\ i # 0
    BY ListingDir
  <1>3. me[c].at \in Nat /\ me[c].at <= MaxUnits
    <2>1. me[c].at >= 0
      BY <1>1 DEF Known, InodeAt
    <2> QED BY <1>1, <2>1, Here, Sizes DEF Offsets
  <1>4. len' = len /\ data' = data
    BY <1>1, Effects DEF files, ReadLabels
  <1>5. /\ was'.must[c] \subseteq was.must[c] /\ was.overlapped \subseteq was'.overlapped
    BY ListingNoted
  <1>6. Len(buf) = me[c].at /\ \A k \in 1 .. me[c].at :
          buf[k] = IF Within(i, 0, me[c].at) THEN data[i][0 + k - 1] ELSE Blank
    BY <1>3 DEF Got
  <1>7. ASSUME i \notin was'.overlapped, Regular(i)'
        PROVE  Paired(buf) /\ was'.must[c] \subseteq Heads(buf)
    <2>1. Regular(i) /\ i \notin was.overlapped
      BY <1>2, <1>5, <1>7, RegularBefore
    <2>2. RegularOK(i)
      BY <2>1 DEF RegularsOK
    <2>3. Paired(buf)
      BY <1>1, <1>3, <2>2, GotPaired DEF RegularOK
    <2>4. ASSUME NEW n \in was.must[c] PROVE n \in Heads(buf)
      <3>1. /\ me[c].at <= len[i]
            /\ \E o \in 0 .. me[c].at - 1 : data[i][o] = Header(n)
        BY <2>1, <2>4 DEF ListingAt
      <3>2. PICK o \in 0 .. me[c].at - 1 : data[i][o] = Header(n)
        BY <3>1
      <3>3. n \in Inode
        BY <1>1, <2>4 DEF Types, ClientTypes, History
      <3>4. o + 1 \in 1 .. me[c].at /\ 0 + (o + 1) - 1 = o
        BY <1>3, <3>2
      <3>5. Within(i, 0, me[c].at)
        BY <1>3, <3>1 DEF Within
      <3>6. buf[o + 1] = Header(n)
        BY <1>6, <3>2, <3>4, <3>5
      <3> QED BY <1>6, <3>3, <3>4, <3>6 DEF Heads
    <2> QED BY <1>5, <2>3, <2>4
  <1>8. ASSUME NEW n \in Heads(buf) PROVE Holds(i, n)'
    <2>1. PICK k \in 1 .. me[c].at : buf[k] = Header(n)
      BY <1>6, <1>8 DEF Heads
    <2>2. Within(i, 0, me[c].at) /\ data[i][0 + k - 1] = Header(n)
      BY <1>6, <2>1, UnitsApart
    <2>3. len[i] \in Int
      BY <1>1, FileIs, Sizes
    <2>4. k - 1 \in 0 .. len[i] - 1 /\ 0 + k - 1 = k - 1
      BY <1>3, <2>1, <2>2, <2>3 DEF Within
    <2> QED BY <1>4, <2>2, <2>4 DEF Holds
  <1>9. /\ \/ i \in was'.overlapped
           \/ ~Regular(i)'
           \/ Paired(buf)' /\ was'.must[c] \subseteq {} \cup Heads(buf)'
        /\ Clean(i)' => {} \ {0} \subseteq was'.may[c] /\ \A n \in Heads(buf)' : Holds(i, n)'
    BY <1>7, <1>8 DEF Paired, Heads
  <1> QED BY <1>9 DEF Seen

LEMMA ScanSeen ==
  ASSUME Core, ContentOK, DirsOK, NEW c \in Client, Operate(c), job[c].kind = "getdir", ListingAt(c),
         pc[c] = "scan", NEW i \in Inode, i = me[c].ino, me'[c].ino = i, pc'[c] \in {"scan", "return"},
         NEW rest, rest = SubSeq(me[c].buf, Step(me[c].buf) + 1, Len(me[c].buf)),
         NEW out, out = Shows(c, Value(OpOf(c)))
  PROVE  Seen(c, i, rest, out)'
  <1> DEFINE b == me[c].buf n0 == HeadInode(b)
  <1>1. Types /\ Base /\ Counts /\ Flow /\ Known
    BY DEF Core, Base
  <1>2. i <= inodes /\ i # 0
    BY ListingDir
  <1>3. b \in Seq(Units) /\ b # <<>>
    BY <1>1, Here DEF Known, InodeAt
  <1>4. len' = len /\ data' = data /\ job' = job
    BY <1>1, Effects, MakingMoves DEF files, ReadLabels
  <1>5. /\ was'.must[c] = was.must[c] \cap Present(c)' /\ was'.may[c] = was.may[c] \cup Present(c)'
        /\ was.overlapped \subseteq was'.overlapped
    BY ListingNoted
  <1>6. Present(c)' = {n \in Inode : len[n] # -1 /\ Holds(i, n)'}
    <2>1. DirOf(c)' = i
      BY DEF DirOf
    <2> QED BY <1>2, <1>4, <2>1 DEF Present, Holds
  <1>7. Value(OpOf(c)) = IF n0 = 0 THEN inodes ELSE len[n0]
    BY Values
  <1>8. /\ \A n \in me[c].out : n \in out
        /\ n0 # 0 /\ len[n0] # -1 => n0 \in out
        /\ \A n \in out : n \in me[c].out \/ n = n0
        /\ \A n \in out : n # 0 => n \in me[c].out \/ (n = n0 /\ len[n0] # -1)
    BY <1>7 DEF Shows
  <1>9. /\ Heads(rest) \subseteq Heads(b)
        /\ n0 # 0 => n0 \in Heads(b)
    BY <1>3, HeadsRest
  <1>10. Heads(b) \subseteq Inode
    BY DEF Heads
  <1> HIDE DEF n0, b
  <1>11. ASSUME i \notin was'.overlapped, Regular(i)'
         PROVE  Paired(rest) /\ was'.must[c] \subseteq out \cup Heads(rest)
    <2>1. Regular(i) /\ i \notin was.overlapped
      BY <1>2, <1>5, <1>11, RegularBefore
    <2>2. Paired(b) /\ was.must[c] \subseteq me[c].out \cup Heads(b)
      BY <2>1 DEF ListingAt, b
    <2>3. Paired(rest) /\ \A n \in Heads(b) : n \in Heads(rest) \/ n = n0
      BY <1>3, <2>2, PairedRest DEF n0, b
    <2>4. ASSUME NEW n \in was'.must[c] PROVE n \in out \cup Heads(rest)
      <3>1. n \in was.must[c] /\ n \in Inode /\ len[n] # -1
        BY <1>5, <1>6, <2>4
      <3>2. n # 0
        BY <3>1, Sizes
      <3> QED BY <1>8, <2>2, <2>3, <3>1, <3>2
    <2> QED BY <2>3, <2>4
  <1>12. ASSUME Clean(i)'
         PROVE  out \ {0} \subseteq was'.may[c] /\ \A n \in Heads(rest) : Holds(i, n)'
    <2>1. Clean(i)
      BY <1>2, <1>12, CleanBefore
    <2>2. me[c].out \ {0} \subseteq was.may[c] /\ \A n \in Heads(b) : Holds(i, n)
      BY <2>1 DEF ListingAt, b
    <2>3. \A n \in Heads(b) : Holds(i, n)'
      BY <1>4, <2>2 DEF Holds
    <2>4. n0 # 0 /\ len[n0] # -1 => n0 \in was'.may[c]
      BY <1>5, <1>6, <1>9, <1>10, <2>3
    <2> QED BY <1>5, <1>8, <1>9, <2>2, <2>3, <2>4
  <1>13. /\ \/ i \in was'.overlapped
            \/ ~Regular(i)'
            \/ Paired(rest)' /\ was'.must[c] \subseteq out \cup Heads(rest)'
         /\ Clean(i)' => out \ {0} \subseteq was'.may[c] /\ \A n \in Heads(rest)' : Holds(i, n)'
    BY <1>11, <1>12 DEF Paired, Heads
  <1> QED BY <1>13 DEF Seen

(* What was seen is what the listing says at the label that follows.           *)
LEMMA SeenListing ==
  ASSUME NEW c \in Client, NEW i, me'[c].ino = i, NEW buf, NEW out, Seen(c, i, buf, out)',
         me'[c].buf = buf, me'[c].out = out,
         was'.must[c] \subseteq Present(c)', Present(c)' \subseteq was'.may[c],
         pc'[c] = IF buf = <<>> \/ buf[1][1] = "name" THEN "return" ELSE "scan",
         me'[c].result = IF buf # <<>> /\ buf[1][1] = "name" THEN Failed ELSE 0
  PROVE  ListingAt(c)'
  <1>1. Seen(c, me[c].ino, me[c].buf, me[c].out)'
    BY DEF Seen, Paired, Heads
  <1>2. pc'[c] = "return" /\ me'[c].result # Failed => Heads(me[c].buf)' = {}
    <2>1. pc'[c] = "return" /\ me'[c].result # Failed => me'[c].buf = <<>>
      BY DEF Failed
    <2> QED BY <2>1 DEF Heads
  <1>3. pc'[c] \in {"scan", "return"}
    OBVIOUS
  <1> QED BY <1>1, <1>2, <1>3 DEF ListingAt, Seen

LEMMA ListingSelf ==
  ASSUME Core, ContentOK, DirsOK, RegularsOK, NEW c \in Client, Operate(c),
         job[c].kind = "getdir", ListingAt(c)
  PROVE  ListingAt(c)'
  <1>1. Types /\ Base /\ Counts /\ Flow /\ Known /\ Types'
    BY TypesStep DEF Core, Base
  <1>2. /\ was'.must[c] = was.must[c] \cap Present(c)' /\ was'.may[c] = was.may[c] \cup Present(c)'
    BY ListingNoted
  <1>3. was'.must[c] \subseteq Present(c)' /\ Present(c)' \subseteq was'.may[c]
        /\ was'.must[c] \subseteq was.must[c]
    BY <1>2
  <1>4. CASE pc[c] = "dirLen" /\ pc'[c] = "dirGet"
    <2>1. PICK i \in Inode : i = me[c].ino /\ i # 0 /\ DirOf(c) = i
      BY <1>4, ListingDir
    <2>2. me'[c].ino = i /\ me'[c].at = len[i]
      BY <1>4, <2>1, GetdirMoves
    <2>3. len' = len /\ data' = data
      BY <1>1, <1>4, Effects DEF files, ReadLabels, LenLabels
    <2>4. \A n \in was.must[c] : Holds(i, n)
      BY <2>1 DEF ListingAt, Present
    <2>5. \A n \in was'.must[c] : \E o \in 0 .. me'[c].at - 1 : data'[i][o] = Header(n)
      BY <1>3, <2>2, <2>3, <2>4 DEF Holds
    <2>6. me'[c].at <= len'[i]
      BY <1>1, <2>2, <2>3, FileIs, Sizes
    <2> QED BY <1>3, <1>4, <2>2, <2>5, <2>6 DEF ListingAt
  <1>5. CASE pc[c] = "dirGet"
    <2>1. PICK i \in Inode : i = me[c].ino
      BY <1>5, ListingDir
    <2>2. PICK buf : buf = Got(i, 0, me[c].at)
      OBVIOUS
    <2>3. Seen(c, i, buf, {})'
      BY <1>5, <2>1, <2>2, GetSeen
    <2>4. Scanned(c, buf, {})
      BY <1>5, <2>1, <2>2, GetdirMoves
    <2>5. /\ pc'[c] = IF buf = <<>> \/ buf[1][1] = "name" THEN "return" ELSE "scan"
          /\ me'[c].ino = i /\ me'[c].buf = buf /\ me'[c].out = {}
          /\ me'[c].result = IF buf # <<>> /\ buf[1][1] = "name" THEN Failed ELSE 0
      BY <1>1, <2>1, <2>4, FieldsScanned
    <2> QED BY <1>3, <2>3, <2>5, SeenListing
  <1>6. CASE pc[c] = "scan"
    <2>1. PICK i \in Inode : i = me[c].ino
      BY <1>6, ListingDir
    <2>2. PICK rest : rest = SubSeq(me[c].buf, Step(me[c].buf) + 1, Len(me[c].buf))
      OBVIOUS
    <2>3. PICK out : out = Shows(c, Value(OpOf(c)))
      OBVIOUS
    <2>4. Scanned(c, rest, out)
      BY <1>6, <2>2, <2>3, GetdirMoves
    <2>5. /\ pc'[c] = IF rest = <<>> \/ rest[1][1] = "name" THEN "return" ELSE "scan"
          /\ me'[c].ino = i /\ me'[c].buf = rest /\ me'[c].out = out
          /\ me'[c].result = IF rest # <<>> /\ rest[1][1] = "name" THEN Failed ELSE 0
      BY <1>1, <2>1, <2>4, FieldsScanned
    <2>6. Seen(c, i, rest, out)'
      BY <1>6, <2>1, <2>2, <2>3, <2>5, ScanSeen
    <2> QED BY <1>3, <2>5, <2>6, SeenListing
  <1>7. CASE pc[c] \notin {"dirGet", "scan"} /\ pc'[c] # "dirGet"
    <2>1. pc'[c] # "scan" /\ ~(pc'[c] = "return" /\ me'[c].result # Failed)
      BY <1>7, GetdirMoves
    <2> QED BY <1>3, <1>7, <2>1 DEF ListingAt
  <1>8. pc'[c] = "dirGet" => pc[c] = "dirLen"
    BY GetdirMoves
  <1> QED BY <1>4, <1>5, <1>6, <1>7, <1>8

LEMMA ListingStep ==
  ASSUME Core, ContentOK, DirsOK, RegularsOK, ListingsOK, NEW c \in Client, Operate(c)
  PROVE  ListingsOK'
  <1>1. job' = job
    BY MakingMoves
  <1> QED BY <1>1, ListingOthers, ListingSelf DEF ListingsOK

(* The steps that do not call the inode store.                                 *)
LEMMA ListingQuiet ==
  ASSUME Core, ListingsOK, NEW c \in Client, Quiet(c)
  PROVE  ListingsOK'
  <1>1. Types /\ Flow /\ Known
    BY DEF Core, Base
  <1>2. /\ UNCHANGED files
        /\ \A d \in Client : d # c => /\ pc'[d] = pc[d] /\ me'[d] = me[d] /\ job'[d] = job[d]
                                      /\ was'.must[d] = was.must[d] /\ was'.may[d] = was.may[d]
        /\ was'.removed = was.removed /\ was'.overlapped = was.overlapped /\ was'.raced = was.raced
    BY <1>1, QuietIs
  <1>3. ASSUME NEW d \in Client, d # c, job'[d].kind = "getdir" PROVE ListingAt(d)'
    <2>1. ListingAt(d)
      BY <1>2, <1>3 DEF ListingsOK
    <2>2. /\ pc'[d] = pc[d] /\ me'[d] = me[d] /\ job'[d] = job[d]
          /\ was'.must[d] = was.must[d] /\ was'.may[d] = was.may[d]
          /\ len' = len /\ data' = data /\ names' = names /\ key' = key
      BY <1>2, <1>3 DEF files
    <2>3. Present(d)' = Present(d)
      BY <2>2 DEF Present, DirOf, Holds
    <2>4. \A i : (Regular(i)' <=> Regular(i)) /\ (Clean(i)' <=> Clean(i))
      BY <1>2, <2>2 DEF Regular, Clean
    <2>5. \A i, n : Holds(i, n)' <=> Holds(i, n)
      BY <2>2 DEF Holds
    <2>6. \A b : (Heads(b)' = Heads(b)) /\ (Paired(b)' <=> Paired(b))
      BY DEF Heads, Paired
    <2> QED BY <1>2, <2>1, <2>2, <2>3, <2>4, <2>5, <2>6 DEF ListingAt
  <1>4. ASSUME job'[c].kind = "getdir" PROVE ListingAt(c)'
    <2>1. /\ pc'[c] = "dirLookup" /\ was'.must[c] = was'.may[c]
          /\ LET i == names[DirKey(job'[c].path)]
             IN was'.must[c] = IF i = 0 THEN {} ELSE Shown(i)
      BY <1>1, <1>4, QuietIs
    <2>2. DirOf(c)' = names[DirKey(job'[c].path)] /\ len' = len /\ data' = data
      BY <1>2, <2>1 DEF DirOf, files, DirKey
    <2>3. job'[c] \in Jobs
      <3>1. pc'[c] # "ready"
        BY <2>1
      <3> QED BY <1>1, <3>1, QuietIs
    <2>4. names[DirKey(job'[c].path)] \in Inode \cup {0}
      <3>1. DirKey(job'[c].path) \in Key
        BY <2>3, JobTypes DEF DirKey, Key
      <3> QED BY <1>1, <3>1 DEF Types, FileTypes
    <2>5. ASSUME NEW i \in Inode PROVE Shown(i) = {n \in Inode : len[n] # -1 /\ Holds(i, n)}
      <3>1. len[i] \in Offsets /\ MaxUnits \in Nat
        BY <1>1, FileIs, Sizes
      <3>2. ASSUME NEW o \in 0 .. len[i] - 1
            PROVE  /\ data[i][o][1] = "inode" => /\ data[i][o][2] \in Inode
                                                 /\ data[i][o] = Header(data[i][o][2])
                   /\ \A n \in Inode : data[i][o] = Header(n) =>
                                          data[i][o][1] = "inode" /\ data[i][o][2] = n
        <4>1. o \in Offsets
          BY <3>1 DEF Offsets
        <4>2. data[i][o] \in Units
          BY <1>1, <3>1, <4>1, FileIs
        <4> QED BY <4>2, UnitKinds, UnitsApart
      <3>3. \A n \in Inode : n \in Listed(i) <=> Holds(i, n)
        <4>1. \A n \in Inode : n \in Listed(i) <=>
                \E o \in 0 .. len[i] - 1 : data[i][o][1] = "inode" /\ data[i][o][2] = n
          <5>1. ASSUME NEW n \in Listed(i)
                PROVE  \E o \in 0 .. len[i] - 1 : data[i][o][1] = "inode" /\ data[i][o][2] = n
            <6>1. PICK o \in 0 .. len[i] - 1 : data[i][o][1] = "inode" /\ n = <<o, data[i][o][2]>>[2]
              BY <5>1 DEF Listed, Entries
            <6> QED BY <6>1
          <5>2. ASSUME NEW o \in 0 .. len[i] - 1, data[i][o][1] = "inode"
                PROVE  data[i][o][2] \in Listed(i)
            <6>1. <<o, data[i][o][2]>> \in Entries(i)
              BY <5>2 DEF Entries
            <6>2. <<o, data[i][o][2]>>[2] \in Listed(i)
              BY <6>1 DEF Listed
            <6> QED BY <6>2
          <5> QED BY <5>1, <5>2
        <4> QED BY <3>2, <4>1 DEF Holds
      <3>4. Listed(i) \subseteq Inode
        BY <3>2 DEF Listed, Entries
      <3> QED BY <3>3, <3>4 DEF Shown
    <2>6. Present(c)' = was'.must[c]
      <3>1. CASE names[DirKey(job'[c].path)] = 0
        BY <1>4, <2>1, <2>2, <3>1 DEF Present
      <3>2. CASE names[DirKey(job'[c].path)] # 0
        <4>1. PICK i \in Inode : i = names[DirKey(job'[c].path)]
          BY <2>4, <3>2
        <4>2. Present(c)' = {n \in Inode : len'[n] # -1 /\ Holds(i, n)'}
          BY <1>4, <2>2, <3>2, <4>1 DEF Present, Holds
        <4>3. \A n : Holds(i, n)' <=> Holds(i, n)
          BY <2>2 DEF Holds
        <4> QED BY <2>1, <2>2, <2>5, <3>2, <4>1, <4>2, <4>3
      <3> QED BY <3>1, <3>2
    <2> QED BY <2>1, <2>6 DEF ListingAt
  <1> QED BY <1>3, <1>4 DEF ListingsOK

(* An answer that is as it is noted is one that ListingTrue allows.            *)
LEMMA ListingIs ==
  ASSUME Core, ListingsOK
  PROVE  ListingTrue
  <1> SUFFICES ASSUME NEW c \in Client, pc[c] = "return", job[c].kind = "getdir",
                      me[c].result # Failed, me[c].ino \notin was.overlapped
               PROVE  /\ <<"regrown", job[c].path>> \notin was.raced => was.must[c] \subseteq me[c].out
                      /\ me[c].ino \notin was.removed => me[c].out \ {0} \subseteq was.may[c]
    BY DEF ListingTrue
  <1>1. ListingAt(c)
    BY DEF ListingsOK
  <1>2. key[me[c].ino] = DirKey(job[c].path) /\ key[me[c].ino][1] = "dir"
    BY ListingDir
  <1>3. key[me[c].ino][2] = job[c].path
    BY <1>2 DEF DirKey
  <1>4. <<"regrown", job[c].path>> \notin was.raced => Regular(me[c].ino)
    BY <1>2, <1>3 DEF Regular
  <1>5. me[c].ino \notin was.removed => Clean(me[c].ino)
    BY <1>2 DEF Clean
  <1> QED BY <1>1, <1>4, <1>5 DEF ListingAt

LEMMA RegularQuiet ==
  ASSUME Core, RegularsOK, NEW c \in Client, Quiet(c)
  PROVE  RegularsOK'
  <1>1. Types /\ Flow
    BY DEF Core, Base
  <1>2. /\ UNCHANGED files /\ was'.raced = was.raced /\ pc'[c] \in Starts \cup {"ready"}
        /\ \A d \in Client : d # c => pc'[d] = pc[d] /\ me'[d] = me[d]
    BY <1>1, QuietIs
  <1>3. pc'[c] \notin {"appendSet", "appendPut", "dirGet"}
    BY <1>2 DEF Starts
  <1> QED BY <1>2, <1>3, RegularKept

LEMMA ListingStays ==
  ASSUME RegularsOK, ListingsOK, UNCHANGED vars
  PROVE  RegularsOK' /\ ListingsOK'
  <1>1. /\ UNCHANGED <<names, len, data, inodes, key, home>>
        /\ UNCHANGED <<pc, me, job, was>>
    BY DEF vars, files
  <1>2. RegularsOK'
    BY <1>1, RegularKept DEF files
  <1>3. ASSUME NEW d \in Client, ListingAt(d) PROVE ListingAt(d)'
    <2>1. Present(d)' = Present(d)
      BY <1>1 DEF Present, DirOf, Holds
    <2>2. \A i : (Regular(i)' <=> Regular(i)) /\ (Clean(i)' <=> Clean(i))
      BY <1>1 DEF Regular, Clean
    <2>3. \A i, n : Holds(i, n)' <=> Holds(i, n)
      BY <1>1 DEF Holds
    <2>4. \A b : (Heads(b)' = Heads(b)) /\ (Paired(b)' <=> Paired(b))
      BY DEF Heads, Paired
    <2> QED BY <1>1, <1>3, <2>1, <2>2, <2>3, <2>4 DEF ListingAt
  <1>4. ListingsOK'
    BY <1>1, <1>3 DEF ListingsOK
  <1> QED BY <1>2, <1>4

(* IInv is an invariant of the file system (ActiveFSCtrl.java,                 *)
(* PassiveFSCtrl.java), whatever mixture of mounts works on it.                *)
THEOREM FilesInvariance == Spec => []IInv
  <1> DEFINE I == Core /\ ContentOK /\ OwnOK /\ RacesOK /\ DirsOK /\ RegularsOK /\ ListingsOK
  <1>1. Init => I
    <2>1. Init => ListingsOK
      BY DEF Init, ListingsOK, NoJob
    <2> QED BY <2>1, CoreInit, NamesInit, DirsInit, RegularInit
  <1>2. I /\ [Next]_vars => I'
    <2>1. ASSUME I, NEW c \in Client, Operate(c) PROVE I'
      BY <2>1, CoreOperate, ContentStep, OwnStep, RacesStep, DirsStep, RegularStep, ListingStep
    <2>2. ASSUME I, NEW c \in Client, Quiet(c) PROVE I'
      BY <2>2, CoreQuiet, NamesQuiet, DirsQuiet, RegularQuiet, ListingQuiet
    <2>3. ASSUME I, UNCHANGED vars PROVE I'
      BY <2>3, CoreStays, NamesStay, DirsStays, ListingStays
    <2> QED BY <2>1, <2>2, <2>3, NextIs
  <1>3. I /\ Held => IInv
    BY DEF Held, Core, Base, IInv
  <1> QED BY <1>1, <1>2, <1>3, HeldAlways, PTL DEF Spec

(* ListingTrue: a getdir answers with every entry that was there throughout    *)
(* and with none that never was, whatever is made and removed while it reads   *)
(* the length, the content and the entries' lengths in turn, but for the       *)
(* directories that the property names.                                        *)
THEOREM FilesListingTrue == Spec => []ListingTrue
  <1>1. IInv => ListingTrue
    <2> SUFFICES ASSUME IInv PROVE ListingTrue
      OBVIOUS
    <2>1. Core /\ DirsOK /\ RegularsOK /\ ListingsOK
      BY DEF IInv, Core, Base
    <2> QED BY <2>1, ListingIs
  <1> QED BY <1>1, FilesInvariance, PTL
===============================================================================
