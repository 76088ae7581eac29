# ActiveRDMA: a verification development

ActiveRDMA lets clients read, write and compare-and-swap the words of a
server's memory over UDP, and ship Java classes ("mobile code") that the server
runs on that memory itself.  An allocator, a hash table, a list, a lock, an
inode store and a FUSE file system are built on these operations only.  Nothing
but compare-and-swap, and the fact that the server does one thing at a time,
keeps the clients apart.  The server also exists as an emulated network card,
which answers the requests before the machine it sits in sees them.

This directory has TLA+ models of the protocol, of the programs above it and of
the card, configurations that model-check them with TLC, and proofs that TLAPS
checks.

## 1. Inventory

Paths are under `src/src/` unless they begin with `sim/`, which is `src/sim/`.

| Component | Code | State | Operations |
|---|---|---|---|
| Memory operations | `server/SimpleServer.java`, `common/messages/` | the byte array | READ, WRITE, CAS, READBYTES, WRITEBYTES, LOAD, RUN |
| Exchange | `client/Client.java`, `SimpleServer.serveSocket/serve` | a socket and a retry counter per call; packets in flight | send, receive, time out, send again, give up; receive, serve, send |
| Allocator | `common/ActiveRDMA.java` (`Alloc`) | word 0 of memory | `init`, `execute`, `alloc` |
| Hash table | `examples/dht/` | heads of bins, chained records | constructors, `init`, `put`, `get`, `has`, `match` |
| List | `examples/list/` | root node, chained nodes | constructors, `add`, `get` |
| Queue lock | `examples/lock/` | tail word per lock, one node per holder or waiter | `create`, `lock`, `release` |
| Inode store | `dfs/` | inodes (length, direct and indirect block pointers), names in the hash table | `create`, `lookup`, `setLen`, `getLen`, `getBlock`, `setBlock`, `get`, `put`, `find` |
| Name search | `dfs/DFSIter.java`, `fsutils/` | iterator position carried between requests | `next`, `findNext`, paging |
| File system | `fuse/arfs/` | directories as files, open handles | `getattr`, `link`, `mkdir`, `mknod`, `unlink`, `rmdir`, `rename`, `truncate`, `getdir`, `open`, `read`, `write` |
| Network card | `sim/bochs/iodev/ne2k.cc`, `ActiveRDMA.cc`, `pic.cc` | registers, receive ring, interrupt line, timer | registers of the card, `rx_frame`, `tx_timer`, `handle_packet` |
| Code cache | `ActiveRDMA.java`, `SimpleServer._load/_run` | classes by MD5 and back | `load`, `run` |
| Argument packing | `ActiveRDMA.java` | none | `pack`, `unpack`, strings |

How they interact.  Every call of a client is one *exchange*: a fresh UDP
socket, one request packet, one response packet.  The server is one thread:
receive, serve, respond.  What is above the exchange keeps no state of its own
at the server: all of it is in memory, changed by the operations of many
clients.  A class comes in two forms, remote (each memory access is an
exchange, and anything may happen between two of them) and active (the whole
method is one RUN exchange, and nothing happens in between).  Some are mixed:
an active file system mount still opens, reads, writes and lists call by call.
The card serves a request in the thread of the machine it is emulated for, as
the frame arrives, and passes on only what is not for it.

What is hard: there is no identifier in a packet, so an answer is recognised by
its port only; a request that is not answered in time is sent again although it
may have been served, and once more as the call is given up; copies are served
in any order, arbitrarily late; remote clients' programs interleave at every
word; mobile code keeps the server from serving anybody else; memory is never
given back and its end is noticed only by the access that crosses it; nobody
cleans up after a client that died; iterators and open handles keep what they
once read; the card shares its ring and its interrupt with a driver that runs
between any two frames.

What makes each part correct:

* exchange: it ends; its answer is the answer to this call; without time-outs
  each call is performed exactly once;
* allocator: blocks are disjoint, the counter never falls, a block stays its
  owner's, an allocation ends;
* hash table: chains stay whole, a search sees the newest put, a call returns;
* list: the elements are appended once, in some order, and stay; the living do
  not wait for the dead;
* queue lock: one holder, a release lets the next in;
* inode store: what was stored stays where it was stored, pages are apart;
* name search: each name is listed once, and a search ends;
* file system: a path names one inode, a directory lists what was made in it,
  a removed name is gone, a write is stored;
* network card: no frame is overwritten or mixed with another, no event stays
  without its interrupt.

## 2. Modules

| Module | Models | Lines of code it follows |
|---|---|---|
| `Memory` | memory, READ/WRITE/CAS and their results | `SimpleServer.java` 109-292, `MessageFactory.java` |
| `Exchange` | one exchange, the server's loop, the network | `Client.java` 65-118, `SimpleServer.java` 43-95 |
| `AnyClient` | `Exchange` under arbitrary callers | `Client.java` 31-57 |
| `AnyClientProof` | theorems about `AnyClient` | |
| `AtomicMemory` | the promise: what takes effect, when, how often | interface of `ActiveRDMA` |
| `Allocator` | `Alloc`, remote and mobile, over `Exchange` | `ActiveRDMA.java` 83-194, `DFS_Active.java` 118-164 |
| `AllocatorProof` | theorems about `Allocator` | |
| `DHTProgram` | the hash table's code as a program of labels | `DHT_RDMA.java`, `DHT_Active.java` |
| `DHT` | `DHTProgram` on a memory that serves each operation once | `SimpleServer._run` 225-246 for mobile code |
| `DHTMap` | the promise: a map whose calls are atomic | interface `DHT` |
| `DHTProof` | theorems about `DHT`, `DHTOverUDP` and `NameSearch` | |
| `DHTOverUDP` | `DHTProgram` over an instance of `Exchange` | both |
| `List` | the list's code, remote and active, with threads that die | `List_RDMA.java`, `List_Active.java` |
| `AppendList` | the promise: sequences that grow at their end | interface `List` |
| `ListProof` | theorems about `List` | |
| `QueueLock` | the lock's mobile code in the server's thread | `Lock_Active.java` 11-130 |
| `QueueLockProof` | theorems about `QueueLock` | |
| `InodeStore` | inodes, block pointers, requests and chunks | `DFS_RDMA.java`, `DFS_Active.java` |
| `InodeStoreProof` | theorems about `InodeStore` | |
| `FileSystem` | the file system on calls of an inode store | `ARFS.java`, `ARFS_Active.java`, `ARFilesystem.java` |
| `NameTree` | the promise: names that change one operation at a time | interface `Filesystem3` as `ARFilesystem` answers it |
| `FileSystemProof` | theorems about `FileSystem` | |
| `NameSearch` | the iterator and the paging of Find | `DFSIter.java`, `Find.java` |
| `Nic` | the card, its hook for ActiveRDMA, and a driver | `ne2k.cc`, `ActiveRDMA.cc`, `pic.cc` |
| `NicProof` | theorems about `Nic` | |
| `MC*` | constants for TLC | |

Layers.  `AnyClient`, `Allocator` and `DHTOverUDP` are three callers of the
same exchange: the first two extend `Exchange`, the third instantiates it.
`DHT` and `DHTOverUDP` run the same program, once over the abstract memory that
`AnyClient` is shown to implement as long as nothing times out, and once over
the exchange with all its faults.  `List`, `InodeStore` and `QueueLock` run on
the abstract memory as well.  `InodeStore` and `NameSearch` take the table of
names for the map that `DHT` is shown to implement, and `FileSystem` takes the
calls of `InodeStore` for single steps, which the latter's properties justify
for files below 1022 blocks and writers that do not race for a fresh block.

In the comments *a slip* is a variant of the definition after it, with a
mistake such as a change to the code could make.  No specification uses one:
they are there to see that the properties would notice.

### Correspondence

*Memory.*  A cell is a 4-byte word; byte address 4a is cell a, and addresses
stored in memory are divided by four in the same way.  The programs modelled
access aligned words only (keys, which are byte strings, occupy whole words of
their record; the content of files is counted in words).  `Effect` and
`Outcome` are the handlers `_w`, `_r`, `_cas`; a WRITE that crosses the end of
memory leaves its first words stored (`SimpleServer.java:253-260`).

*Exchange.*  `call[c]` is the activation of `exchange` in thread `c`, with the
operation, the port of its socket, and how many copies it has sent.  `Resend`
is a receive timeout with tries left; `GiveUp` is the last timeout, which sends
one more copy and reports TIME_OUT (`Client.java:92-107`).  `Serve` is one turn
of the server's loop: the response goes to the port the request came from and
is dropped if no socket is bound to it.  `Return` closes the socket and with it
whatever was queued.  (On TIME_OUT the code leaves the socket open; its port is
then in use, and what arrives there is never read.)  The network may lose any
packet, and packets overtake each other since both directions are sets; it
does not itself duplicate packets: copies come from resends.

`AtomicMemory` is what callers may rely on.  As long as no exchange has timed
out (`exact`) each call takes effect exactly once between its invocation and
its return.  From the first time-out on an operation may be performed again,
and after its call is over, but always in one piece, only while it is still
`due` (a copy travels), and an answer with OK was computed while the call was
open.

*Allocator.*  Labels `read` and `cas` are the lines of `Alloc.execute` (and of
the copies of the loop in `DHT_RDMA.put` and `DFS_RDMA.alloc`); `run` is a RUN
that executes the loop at the server and returns the block, as
`DFS_Active.alloc` does; `fill` is the first use of the block.  Every Result
that is not OK makes `unwrap` throw, which ends the allocation (`Throw`).
`granted` records all blocks ever returned.

*Hash table.*  `OpOf(c)` is the memory operation at label `pc[c]` and the
`After` operators are what the code does with its Result, so a label stands for
one line of `DHT_RDMA`.  In `DHT`, mobile code takes `holder` at `Run` and
gives it back when its call returns; in between no other operation is served.
`chain` and `seen` are bookkeeping: the records a bin holds, and what the map
said when a search read its bin's head.  `init()` clears a table that others
may already use: with `AttachAlone` a client whose constructor would initialise
the table does so while nobody else initialises or works.  With `AttachAlone` =
FALSE the property `IsMap` fails: two clients attach to a blank server, and the
second one clears what the first has put.

*List.*  Labels as in the hash table.  A list object is made once, by a thread
that then shares it; `Die` ends a client's process between any two of its
operations, but not mobile code that it sent for.

*Queue lock.*  Each label of `OpOf` is one line of `Lock_Lock.execute` or
`Lock_Release.execute`; `running` is the client whose RUN request the server is
in.  `alloc` is one step, as nothing interleaves with it.  `Lock_Create` is the
initial state, the three bytes it writes beyond its table included.

*Inode store.*  A page is `Page` words instead of 1024; an inode is a page: its
length, and pointers of which the last leads to the second level.  Offsets and
lengths are in words.  `Span` is the request of `access()`, cut at the end of
the block and at `Req` words (1 KB in the code); `NextChunk` is the piece of
one RUN of a `DFS_Active` (1200 bytes), whose result the code does not look at.
`was` is bookkeeping: the blocks accessed, the words offered to put, the last
one stored at each place, and those among them that no pointer leads to, as one
was replaced after the store, or between the look for the block and the store.

*Name search.*  Only the chains of the table matter; a put makes its record
appear at once, which `IsMap` allows.  Word N + h of the table is the bin of
hash h, and hashes may be negative, so the words below the table are bins too.
The search starts at "record" 0, which is none: it is the allocation counter
and what follows, with the head of bin 2 - N for the length of its key.  Once
that bin is in use (`Junk`) what is read there is arbitrary.  A page is a
request in mode `active`; in mode `rdma` the searcher runs the same code, and
`unpack` wipes the pattern in the arguments that the next page uses again
(`blank`).

*File system.*  A step is one call of the inode store; content is counted in
units (a directory entry is a header and a name, one unit each; a write is one
unit).  `me[c]` are the locals of the operation, `handle[c]` the
`OpenFileHandle` that FUSE hands back to `read` and `write`.  `link` always
fails, as it tests the inode that it already has, and `rename`, which is a link
and an unlink, with it.  `revive`, `cut` and `extend` give a removed inode a
length again, as the code does.  An entry that is appended to a removed directory
is written at offset -1, which the model keeps in a cell of its own where the
code writes the byte before the directory's page.  A read or a write goes through the handle of
its own path; without one the operation is not modelled.  `key[i]` and `home[i]`
are bookkeeping: what inode `i` was made for, and in which directory; so is
`was`, which records the races that the properties name and, of each getdir, what
was there throughout and what was there at some time.  An active mount makes another root (`mount`);
an rdma mount clears the tables and is the initial state only.

*Network card.*  A page of the ring is 256 bytes; `dma` is the address of
remote DMA, `left` its count, in pages.  `SetIrq` is the line as `pic.cc` sees
it: a request is set by a rising edge and withdrawn with the line.  `Served` is
`ActiveRDMA_c::handle_packet`; what it does to memory is `Exchange`'s subject.
A software reset clears ISR and nothing else (`ne2k.cc:142`).  The driver is
the guest's and not in the repository: `Reset` to `Free` are modelled from what
the card expects of a driver (datasheet order: stop, set up, unmask, start;
acknowledge before looking; BNRY one behind), and mapped to the registers of
`ne2k.cc` they write; `Interrupt` is the controller's acknowledgement, `IAC` in
`pic.cc`.  The driver may give up the interrupt it is handling and reset the card,
as drivers do that find the ring in disorder: the line is then high without an
event and without a request, and only the acknowledgement in `Setup` lowers it.

## 3. Runs

| Run | Checks | Shows |
|---|---|---|
| `exchange` | `TypeOK`, `AnswerIsOfThisCall`, `ExchangeEnds`, `AtomicSpec` | answers are never mixed up between exchanges, every exchange ends, and the exchange implements `AtomicMemory` |
| `allocator_faults` | `IInv`, `Disjoint`, `CounterAhead`, `BlockIntact`, `NoLeak`, `CounterGrows` | a CAS that swapped and is answered 0 by its second copy costs a block, but blocks stay apart and intact |
| `dht_shared` | `TypeOK`, `ChainOK`, `RecordsApart`, `IsMap`, `CallsReturn` | racing remote, late and active clients see one map, up to the end of memory, and their calls return |
| `dht_faults` | `FoundWasPut` | whatever the network does, a value found was put under its key |
| `lock_shared` | `TypeOK`, `OneHolder` | a lock has at most one holder |
| `lock_released` | `ReleaseReturns` violated | the first release hangs the server |
| `list` | `ListOK`, `IsList`, `CallsReturn` | lists spell what was appended, gets are atomic, and nobody waits for a thread that died |
| `fs_active` | `ActiveNeverRaces`, `WriteStored`, `IsTree` | the names of active mounts change one operation at a time, though open, write and getdir go call by call |
| `fs_mixed` | `TypeOK`, `LiveIsListed`, `UniqueNames`, `ListingTrue` | an rdma mount loses or doubles entries only in the races that the properties name |
| `inode_store` | `PagesApart`, `StoredStays`, `GetWasPut`, `ActiveKeeps` | pages stay apart and content in place; only a `DFS_RDMA` that races for a fresh block loses what was stored |
| `name_search` | `ListedOnce`, `ListedAll`, `SearchEnds` | a search lists no record twice, all that were there in the bins it visits, and ends |
| `nic` | `RingOK`, `WholeFrames`, `Interrupted`, `FramesRead`, `TxTold` | the ring keeps what it has taken, no event lacks its interrupt, every frame is read |

`IInv` of the allocator, `FoundWasPut`, `ListOK`, `PagesApart`, `ListedOnce` and
`RingOK` begin with the type invariant of their module.

The violation is a finding: `Lock_Release` compares and swaps the first word of
a lock while `Lock_Lock` queues at the second, so the swap fails and the poll
that follows runs in the server's only thread for ever (`Lock_Active.java:44`,
`:94`); the lock test expects the release to return.

### What the properties excuse

A property excuses what the code does in a race only where it can say in which
one, so that anything else is still an error:

* `LiveIsListed`: directories in which two appends overlapped (`overlapped`),
  that were removed, or that are not the one the entry was made in.
* `UniqueNames`: paths that are in `raced`, as two makings overlapped
  ("made"), a removed file was given a length again ("revived"), or an entry
  was made in a removed directory, which brings it back ("regrown").
* `ListingTrue`: directories in which two appends overlapped.  Besides, an answer
  may lack entries of a directory that has regrown, as its entries then begin
  at an odd offset and are read out of step, and may have too many of one that
  was removed, whose old content is there again when it is made anew.
* `ActiveNeverRaces` says that active mounts need neither `overlapped` nor "made".
* `WriteStored`: handles whose inode got another length since (`changed`).
* `StoredStays`: words behind a pointer that was replaced (`lost`): two stores
  found it empty and each set it.  By `ActiveKeeps` the loss is always by a step
  of a `DFS_RDMA`.
* All properties of the inode store except a file of which block 1022 and a
  later one were accessed (`Overlaid`): the word of that block is the pointer to
  the second level.
* `ListedAll`: bin 0, the bins of negative hashes, what a search over the
  network does not get into its first page, and a search that met junk.
* `TxTold`: transmissions whose end was masked (`hidden`): the card forgets it.

### Bounds

*Exchange.*  Two clients with two calls and one, a read of both cells and a CAS
that succeeds once; a try and one resend (`Tries` = 2; 3 in the code), and
three time-outs: one call can use up all its tries while its successor, or the
other client, is sent again.  Clients do not share sockets, so an answer can
only be confused with one of the same client, which has two ports.

*Allocator.*  One remote and one mobile client, two allocations of two words
each, three words of memory for blocks: the second block already crosses the
end.  Two tries and two time-outs let one call be sent again, given up, and
served after its client has gone on.

*Hash table.*  Two bins; two keys that share a bin and a length, and one that
is longer and whose hash is negative.  Three clients (remote and initialising,
attaching late, active) with one call each is the smallest race with a
bystander; memory has room for two of three records, so a put fails half-way.
Over the exchange: two clients, one call each, two time-outs, two records.

*List.*  Two threads with three calls each on a remote and an active list, one
of which may die; memory for three nodes besides the counter: two roots and one
element, or one root and two elements that race for a link, and the next add
fails.

*Queue lock.*  Three clients, two locks, node memory for two: one waiter stands
beside a holder, and a third client fails for lack of memory or uses the other
lock.  The violation needs one client only.

*Inode store.*  Pages of three words: blocks 0 and 1 are direct, blocks 2 and 3
share a page of pointers and 4 has another; block 1 is also the overlaid word.
Requests of two words and chunks of three make puts that cross a block, a
request and a chunk at different places.  Two remote stores with one call each
write and read block 3, whose pointers they make one after the other or both at
once; an active store has two calls that cross from block 3 into 4.  Memory
holds seven pages but for the last word, so that an allocation fails, and a put
that crosses the end stores its first word before it fails.  No call of the run touches
block 1, so `Overlaid` excuses nothing in it.

*File system.*  A root, a directory, a file in it and a file beside it.  Two
active mounts with three calls each, from twelve, reach a removal and a revival
between open and write, and makings of one path as a file and as a directory; an
rdma mount beside an active one with two calls each, from seventeen, has every
pair of operations overlap at every step.  `MaxUnits` is room for an entry by
every call, which no directory can outgrow.

*Name search.*  One searcher in either mode (searchers change nothing that
another reads), three bins and the words of two more, four records, pages of
three words, so that a page ends with a name that does not fit.

*Network card.*  A ring of five pages, five frames of one or two pages, two
sends and two setups: the ring fills, wraps and wraps within a frame, a frame
arrives at every step of the driver, a transmission ends behind a mask, and the
second setup may begin at every step of an interrupt.

`CHECK_DEADLOCK FALSE` is set where the bound on time-outs, on calls or on
records stops the model in a state where the program would go on, and where
threads may all have died.

### Fairness

`LiveSpec` of `AnyClient`: only that `receive` returns, with a packet or
because its timer has run out; nothing is assumed of server or network.
(`ExchangeEnds` ends its promise when the model's bound on time-outs is used
up, as no timer runs out then.)  `LiveSpec` of `DHT` and of `List`: weak
fairness of each client's next step, which a running thread and a server that
answers give; in `List` a thread that has died has none.  `LiveSpec` of
`QueueLock`: the server's thread takes requests and runs its mobile code, and a
holder calls release.  `NameSearch`: the searcher runs.  `Nic`: the guest runs
its driver, and the emulator's timer fires; nobody owes frames.  All are weak;
no result needs a step that is enabled only now and then to be taken.  That
every one of racing clients gets on (`CallsReturn`) is owed to the bounded
number of calls: each failed CAS is another client's success.

## 4. Proofs

Each theorem holds for every value of the constants that the named assumptions
of the modules admit; TLC evaluates the assumptions on every run.  The
properties are those of section 3, so each run shows on a small instance what
its theorem says of all.

| Module | Theorem | States |
|---|---|---|
| `AnyClientProof` | `ExchangeInvariance` | `FreshPorts => (Spec => []IInv)` |
| | `ExchangeTypes` | `FreshPorts => (Spec => []TypeOK)` |
| | `AnswersBelong` | `FreshPorts => (Spec => AnswerIsOfThisCall)` |
| | `ExchangeIsAtomic` | `FreshPorts => (Spec => AtomicSpec)` |
| `AllocatorProof` | `Invariance` | `FreshPorts => (Spec => []IInv)` |
| | `TypeCorrect` | `FreshPorts => (Spec => []TypeOK)` |
| | `BlocksDisjoint` | `FreshPorts => (Spec => []Disjoint)` |
| | `CounterStaysAhead` | `FreshPorts => (Spec => []CounterAhead)` |
| | `BlocksIntact` | `FreshPorts => (Spec => []BlockIntact)` |
| | `CounterMonotone` | `FreshPorts => (Spec => CounterGrows)` |
| | `NothingLeaks` | `FreshPorts => (Spec => []NoLeak)` |
| `DHTProof` | `TableInvariance` | `AttachAlone => (Spec => []IInv)` |
| | `TableTypes` | `AttachAlone => (Spec => []TypeOK)` |
| | `ChainsWhole` | `AttachAlone => (Spec => []ChainOK)` |
| | `RecordsNeverShare` | `AttachAlone => (Spec => []RecordsApart)` |
| | `TableIsMap` | `AttachAlone => (Spec => IsMap)` |
| | `FoundIsPut` | of `DHTOverUDP`: `FreshPorts => (UDPSpec => []FoundWasPut)` |
| | `SearchListsOnce` | of `NameSearch`: `SearchSpec => []ListedOnce` |
| | `SearchListsAll` | of `NameSearch`: `SearchSpec => []ListedAll` |
| `ListProof` | `ListInvariance` | `Spec => []IInv` |
| | `ListsCorrect` | `Spec => []ListOK` |
| | `ListsAreAtomic` | `Spec => IsList` |
| `QueueLockProof` | `LockInvariance` | `Spec => []IInv` |
| | `LockTypes` | `Spec => []TypeOK` |
| | `OneHoldsALock` | `Spec => []OneHolder` |
| `InodeStoreProof` | `StoreInvariance` | `Spec => []IInv` |
| | `PagesStayApart` | `Spec => []PagesApart` |
| | `GetsWhatWasPut` | `Spec => []GetWasPut` |
| | `StoredWordsStay` | `Spec => []StoredStays` |
| | `ActiveLosesNone` | `Spec => ActiveKeeps` |
| `FileSystemProof` | `FilesInvariance` | `Spec => []IInv` |
| | `FilesTypeOK` | `Spec => []TypeOK` |
| | `FilesWriteStored` | `Spec => WriteStored` |
| | `FilesLiveAreListed` | `Spec => []LiveIsListed` |
| | `FilesNamesUnique` | `Spec => []UniqueNames` |
| | `FilesListingTrue` | `Spec => []ListingTrue` |
| | `FilesActiveNeverRaces` | `Active = Client => (Spec => []ActiveNeverRaces)` |
| | `FilesAreTree` | `Active = Client => (Spec => IsTree)` |
| `NicProof` | `NicInvariance` | `Spec => []IInv` |
| | `RingKeepsFrames` | `Spec => []RingOK` |
| | `FramesWhole` | `Spec => []WholeFrames` |
| | `NeverUntold` | `Spec => []Interrupted` |

`DHTProof` extends three modules with a next-state relation each, so two of them
use names of their own: `UDPSpec`, `UDPNext` and so on in `DHTOverUDP`, and in
`NameSearch` `SearchSpec` and so on, with `at`, `spot` and `serving` where other
modules have `pc`, `ptr` and `holder`.

Two of the hypotheses are not ensured by the code.  `FreshPorts` says that the
system does not give a socket a port while a packet to or from an earlier socket
at it still travels.  For requests this is the guard of `Request`.  Responses
need none: `Return` drops those still on their way when it closes the socket, and
`Serve` those for a socket that is closed already, as under the assumption nobody
could receive them (the code discards only what is queued, `Client.java:112`).
With `FreshPorts = FALSE` in `AnyClient.cfg`, where only responses to late
requests can reach a later socket, `AnswerIsOfThisCall` fails.  `AttachAlone` says that nobody uses a hash table
while a constructor clears it; without it `IsMap` fails.  A third one,
`Active = Client`, chooses a configuration: all mounts are of the class
`ARFS_Active`.  The two theorems that need it are about that configuration, and
in `FileSystemMixed.cfg` what they state fails.  The other assumptions
say what kind of values the constants are: `ExchangeAssumption` (of `DHTOverUDP`,
`UDPAssumption`),
`AnyClientAssumption` (operations are READ, WRITE or CAS of integers),
`AllocatorAssumption`, `DHTAssumption` (keys of the same length have as many
words; the hash lies strictly between -N and N, as `%` gives it; calls are put,
get or has of a key) and `TableAssumption` (the heads of the bins fit into
memory; `FoundIsPut` does without it), `NameSearchAssumption` (there is a name,
bins lie strictly between -N and N, and N is 3 at least, so that there are bins
to visit; an entry fits into a response), `ListAssumption`, `QueueLockAssumption` (no thread is called
"nobody"), `InodeStoreAssumption` (a page has three words at least, a request
and a chunk are not longer than a page, and calls stay below the offsets that
two levels of pointers reach), `FileSystemAssumption` (no client is called
"nobody", the root is its own parent, a directory has room for an entry by each
call), `NicAssumption` (the ring has two pages at
least).

Each invariant is proved by one lemma for each action, or for each label of a
program, with one step for each clause the action can disturb.

### The exchange

Two calls of one client can only be told apart by their ports.  `Matching` says
that a request from the port of a client's open call is a copy of that call's, and
`Computed` that a response in flight is one of the `outcomes` that were
computed for the open call of its client, at whose port it will arrive.
`FreshPorts` is what makes this inductive at `Invoke`, and it is needed nowhere
else.  `AnswersBelong` follows.

`ExchangeIsAtomic` maps the exchange to `AtomicMemory`: an operation is `due`
as long as one of its copies travels.  While nothing has timed out, an
operation must be performed once only; `OneCopy` says that until then a request
that travels is the only copy, of an open call of which nothing was computed.
Losing a packet maps to losing what is due only if no other copy is left
(`DueShrinks`), and losing a response is a stutter.

### The allocator

`Disjoint` is not inductive.  A block is decided upon when the
server performs the CAS (or the RUN), but granted only when the answer is read;
in between the answer is a *claim* on the block.  `ClaimsSafe` says of claims
what `Disjoint` and `CounterAhead` say of blocks.  That a claim is unique per
block holds because a successful CAS moves the counter forward (`Sent`: a CAS
in flight always has test < value) and the counter never returns to an earlier
value.  That the reader of a claim takes it for its own is `Matching`, as for
the exchange.  `Blank` (words
that are unclaimed, or only claimed, are still 0) and `Locals`, `Sent` (a write
in flight is its owner's and covers a granted block) carry `BlockIntact`
through late copies of writes.  `allocator_faults` checks `IInv` as an invariant.

`NoLeak` needs more than `IInv`: `Accounted` says that every word below the
counter is granted or claimed, as long as nothing has timed out and every open
call has a packet that travels (`Waits`).  If a packet is lost, so is the claim;
but by `OneCopy` it was the only one of an open call, which cannot end any more
without a time-out.

### The hash table

The chains are whole because a record is written before anybody else can see
it.  A put owns the block it has allocated (`OwnAt`) until the CAS publishes it;
`FilledAt` says what it has written into it by then, label by label; `PutsApart`
and `Published` that no two blocks under construction or published share a
word; `Linked` that memory spells the chains.  A step of one client is `Careful`:
it changes the counter, upwards, its own block, and the head of a bin by the
CAS that publishes; and from this alone everything that is said of the others'
records is kept.  `Started` is where `AttachAlone` comes in.

`TableIsMap` maps the chains to a map by `Lookup`, the newest record of a key,
a put to its CAS and a search to the moment it read the head (`seen`).  `Walks`
carries the search: the part of the chain behind the walk has the answer that
the map had then, since chains grow in front only.  That there is a first hit
in a chain is `FirstHit`, an instance of "a set of naturals that is not empty
has a smallest member" (`SmallestMember`).

### The hash table over the network

`TableInvariance` fails over a network that repeats requests: a late copy of a
`link` may turn a chain into a loop, and a late copy of a CAS may publish a
record twice.  What is left is `FarIInv`.  It says that there is a set S of
records to which all heads and links lead, now and when whatever is still `Due`
has been served (`Linking`), and that each of them holds a pair that was put, in
words that no copy on its way would change (`Holds`, `Fixed`).  S grows at the
answer to `writeKey` (`FarGrows`), when the last word of a record is known to be
in memory.  `Mine` is why the words stay: a copy on its way that writes into the
block of a put is the put's own and writes what the put has written, since the
block is new (`ServeGains`) and only its owner sends writes to it (`FarOpOf`).
A put whose CAS was answered owns the block before it reads the answer (`Owns`),
and if that answer is lost, nobody does.  `Answered` says label by label what an answer on its way tells the
thread that waits, and it is that thread's by `Exchanges`, which needs
`FreshPorts` when a request is issued and nowhere else.  A search then compares
the words of one record, whose pair was put (`KeyFound`).

### The search

`SearchesOK` says that the chains of a table that only grows in front are
ordered, and of each search which records are behind it: those of the bins
passed, and in its own bin those from its record on are still to come.
`ListedOnce` follows as what is listed is behind, and `ListedAll` as what was
there at the beginning and matches is listed once it is behind.

### The list

`ListOK` speaks of nodes that are linked, and a step that links
one needs to know what was written into it before.  A node belongs to a thread
from the CAS that allocates it to the CAS that links it: `NodeOK` says what the
thread has written into it by then, `PairOK` that no two threads own the same
one, and `Chain` and `Apart` that linked nodes are blocks of memory and no two
of them the same.  `Block` is how all of this survives the writes of others:
the counter is odd and moves by two, so nodes start at odd addresses and a
write into one cannot touch another, nor the counter.  `WalkOK` is what makes
the CAS of an append hit the end of the list only: the walk is always at a node
of its list, so a link that is NULL is the last one, even if other appends
moved the end since the walk began.  A thread that dies owns nothing, and what
it owned is nobody's for ever: no clause needs it.

`ListsAreAtomic` maps an append to the CAS of the last link and a get to the
read of its value, and adds `Gets`: a get that has walked is as many nodes into
its list as it has counted, and a value read is the element's.

### The queue lock

`OneHolder` is about clients that returned from `lock`; what makes it inductive
is who *owns* the lock before: from the swap that finds no predecessor
(`Owner`).  `OneOwner` says that owners of one lock are equal and `Queued` that
its tail is not empty while there is one, so nobody else finds it empty.
`NodeOK`, `PredOK` and `Tails` say that nodes, predecessors and tails lead to
nodes, which are odd addresses behind the table, so a write to a node touches
no tail: this is where the one word that `Lock_Release` should swap, and does
not, is kept out.

### The inode store

Neither `PagesApart` nor `GetWasPut` says what a page is for, and both depend
on it: a get that reads through a pointer returns another file's words if the
page has two uses.  `IInv` gives each page one: there is a function R from
pages to roles (`Role`), and a page is an inode, a page of pointers or a block
at one place of one file, a store's own, or free.  `Tree` says that memory is
what the roles say: a word of an inode or of a page of pointers that is not 0
leads to the page whose role names that word, a word of a block was put at that
place, free pages and pages of one store are blank, and pages from the counter
on are free.  `Holds` says what each store may believe at its label: the page
it allocated is its own until it is installed, the pages it has found are those
of the path to its block, although another store may have replaced them since.
R is not a variable of the program, so the invariant says that there is one, and
a step gives a role to one page at most, which was free (the CAS on the counter)
or the store's own (the installing write): `Near`.  That is why what other
stores hold is kept (`NearHolds`) and why no two pointers lead to one page:
each page knows its word.  `Flow` says which call a store is in at which label
and how far its buffer has come.  A lemma for each label proves that an
operation leads to where `IInv` wants it (`Good`), and `OperateInv` puts them
together.  All of it is said only while no file is overlaid: then the last word
of an inode is a block and the second level at once.

`StoredStays` says more than the roles do: not only that a word in a block was
put there, but that the word stored last still is.  `Kept` says that of every
memory: the block of a stored word exists at its offset, and unless it was
recorded as lost, the pointers of the inode lead to the page that holds it.
`Route` names the words on that way.  A pointer changes only when a page is
installed, and a word of a block only when one is stored (`Alters`,
`Follows`), so a step either leaves the way alone or is the install that
replaces it, which is what the model records as a loss.

`ActiveKeeps` says that such a loss is never the mobile code's doing.  Two
invariants make it so: `Alone`, that a store that works as mobile code is the
one the server runs, and `Knows`, that what it has read on its way (`Current`:
the word it is about to set is still 0, the pages it found are still those of
the path) is what memory holds, because nobody else has moved since.  A store of
`DFS_RDMA` believes the same and may be wrong.

R ranges over functions on all numbers, so TLC cannot evaluate `IInv`; it
checked `Types`, `Flow`, `Kept`, `Alone` and `Knows` on the instance, and the
properties that follow.

### The file system

*What everybody knows.*  A name is never given another inode, and an inode never
another use, so what a client has once looked up stays right in this sense:
`Known` says at each label for which key the inode in `me[c].ino` was made, and
the same of handles.  `Counts` bounds the inodes and the lengths of directories
by the calls that have come so far (`Past`), so that `TypeOK` holds although a
directory grows with every append: a call appends one entry at most, also when
several appends overlap.  With `Types` and `Flow` (the labels of each operation)
this is `Core`, on which all else is built.

*Writes.*  `HandleOK` says that the length a handle keeps is the file's unless
`changed` tells otherwise, and that a write which has passed its test lies below
it.  `WriteStored` follows at the put.

*Whole directories.*  `CleanOK` speaks of directories that were never removed
and in which no appends overlapped: all of their entries lie below the length,
and the room that an append has taken for itself (`appendPut`) is neither used
nor taken twice.  An append that finds another length than it has read is the
overlap that the history records.  Hence `LiveIsListed`.

*Names.*  `ContentOK` says that an inode's header is at one place only, followed
by its name, in the directory it was made in, and `OwnOK` that no two calls put
the same one.  So a name shown twice is two inodes of one path: its file and its
directory, since `NamedOK` says that the table of names still leads to each.
`OneLive` says that at most one of them has a length; it is inductive with
`MakingOK`, what a making has found out about the other kind at each label, as
long as no other making of the path is past its first step (`OneMaking`).  All
of it is said of paths that no race has touched; whatever breaks it is one of
the three things that `raced` records, hence `UniqueNames`.

*Listings.*  A getdir reads a length, then so many units, then the length of
each inode in them, while others append, remove and make anew.  `RegularOK` says
that the units of a directory are pairs of a header and a name, or blanks, in
which an append always begins at an even offset (unless the directory regrew
while it was removed, from -1 on: the history calls it `regrown`); `Paired` that what is
left in the buffer is read in step with them.  `ListingAt` then says label by
label that an entry that was there throughout (`must`) is below the length read,
in the buffer, or already in the answer, and that what is in the answer was
there at some time (`may`).  Hence `ListingTrue`.

*Active mounts.*  If all mounts are active, an operation on names is alone with
the table (`Alone`) and what it has seen is what is there (`SoloAt`), which no
other step may claim: reads, writes, opens and listings still run call by call,
and an extending write changes lengths beside it.  That is `FilesActiveNeverRaces`,
and why `FilesAreTree` can map each operation on names to one step of `NameTree`,
the one at which the last word of it becomes visible or its answer is decided, with all others
stutters.  `OpenAt` does the same for open, which decides at its reading of the
length.

### The network card

`RingOK` counts the pages of the frames before the n-th; `RingAt` gives each
frame its offset instead, and `Counts` and `PlaceIs` show once that the two are
the same.  That a frame taken overwrites none is arithmetic modulo the ring
(`PastAdds`, `PastDiffers`) and the room the card leaves: offsets stay
below the size of the ring less one.  `Reading` ties what was copied, the
address and the count of remote DMA to the oldest frame, and `Line` the
interrupt line to the unmasked events; `WholeFrames` and `Interrupted` are
their consequences.

### Model-checked only

Liveness (`ExchangeEnds`, `CallsReturn`, `SearchEnds`, `FramesRead`, `TxTold`)
is beyond this prover.  So is induction over data in its general form, as the
library's induction theorems take an operator; where one such fact is needed,
it is proved by a smallest counterexample (`SmallestMember`).  Every invariant of
the runs and every action property has a theorem, and so have the refinements.
The one run that expects a violation shows a liveness property to fail.

## 5. Not modelled

* *Code cache.*  Two maps that LOAD fills and RUN reads; every program loads
  its classes when it starts.
* *Argument packing.*  Pure functions; the one effect that another component
  sees, `unpack` wiping its argument, is in `NameSearch`.
* *`match` of the hash table and `find` of the inode store.*  They read bytes
  of a key as packed words, and the active one always ends with an exception:
  there is no behaviour to state a property of.
* *Serialised messages*, and with them a response too large for the card's
  frame and a READBYTES of a negative size, at which the server's loop ends
  with an exception.
* *Grep*, which reads one file and keeps no state between requests.
* *The rest of the card*: loop-back, promiscuous mode, the multicast filter,
  the PCI variant, interrupts of remote DMA, the bytes of headers, statistics.
* *File system calls that do nothing* (`chmod`, `utime`, `flush`, `statfs` and
  others), names of more than 255 bytes, and an rdma mount of a server that is
  in use: it clears the tables, and nothing can be promised of what was there.
* *A hash table made on memory that a list or a lock uses*: `init()` sets the
  allocation counter back; the models start each program on a memory of its own.
* *The reset tool, the command line entry points, the tests, the FUSE binding,
  the code generator, the playground, the Bochs emulator apart from its card,
  and the Andrew benchmark*: start-up code, third-party code or no part of the
  system's logic.  `ARFilesystem_Active.java` is commented out entirely.

Most of the repository's lines are the emulator and the benchmark.  What is
mapped is the system itself, and the emulator's lines it touches.

## 6. What is left

Every safety property of the runs has a theorem.  What would say more about the
system is a wider model: LOAD and RUN with the code cache, the serialised
messages and the limit the card's frame sets to them, and the packed comparison
of keys that keeps the hash table's `match` from a model.  The liveness
properties hold for the bounded numbers of calls of the runs only; to promise
them for unbounded retries, the code would have to give way between clients.
