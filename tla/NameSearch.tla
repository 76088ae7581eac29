------------------------------- MODULE NameSearch -----------------------------
(* Find: DFSIter and Active_Finder, which walk the bins of the table of names  *)
(* page by page while names are put, run by the searcher over the network or   *)
(* as one request a page.  Of the hash table (see DHT.tla) only the chains     *)
(* matter here: a put makes a record, which IsMap lets appear at one moment,   *)
(* at the head of its bin, and nothing is ever unlinked.                       *)
(*                                                                             *)
(* hash() gives half of the keys a negative bin: in a table of N bins, bin h   *)
(* is word N + h, and the words 1 .. N - 1 are those of the bins 1 - N .. -1.  *)
(* A search begins at "record" 0, whose key is read at words 2 (its length)    *)
(* and 3 onwards.                                                              *)
EXTENDS Integers, FiniteSets, FiniteSetsExt

CONSTANTS Searcher,      \* the runs of Find
          Name,          \* names that are put, over and over
          Bin,           \* Bin[n]: hash of name n
          Size,          \* Size[n]: words n takes in a page
          Matching,      \* the names that match the pattern
          EmptyMatches,  \* so does the empty string
          TableSize,     \* bins of the table
          MaxRet,        \* words of a page (MAX_RET, less two)
          MaxRecs        \* bound on the records put

ASSUME NameSearchAssumption ==
  /\ Name # {} /\ Matching \subseteq Name
  /\ TableSize \in Nat /\ TableSize > 2 /\ MaxRet \in Nat /\ MaxRecs \in Nat
  /\ Bin \in [Name -> 1 - TableSize .. TableSize - 1] /\ Size \in [Name -> 1 .. MaxRet]
  /\ EmptyMatches \in BOOLEAN

VARIABLES recs,          \* the records put
          name, next,    \* name[r], next[r]: key and link of record r
          head,          \* head[b]: first record of bin b, 0 for none
          mode,          \* mode[s]: "active" or "rdma", from the command line
          serving,       \* the searcher whose page the server computes, or none
          at,            \* at[s]: the label s is at
          bin, spot,     \* bin[s], spot[s]: the iterator's position
          page,          \* page[s]: the records in the page so far
          blank,         \* blank[s]: unpack has wiped the pattern in the arguments
          listed,        \* listed[s]: what s has printed
          before,        \* before[s]: the records there when s began
          went           \* went[s]: how the search went: "full", "twice", "junk"

table      == <<recs, name, next, head>>
searchVars == <<table, mode, serving, at, bin, spot, page, blank, listed, before, went>>

NoSearcher == "nobody"
EOF        == -1                  \* EOF_bin
NameRecord == 1 .. MaxRecs
NameBin    == 1 - TableSize .. TableSize - 1
Nameless   == 0

SearchInit == /\ recs = {}
              /\ name = [r \in NameRecord |-> CHOOSE n \in Name : TRUE]
              /\ next = [r \in NameRecord |-> 0]
              /\ head = [b \in NameBin |-> 0]
              /\ mode \in [Searcher -> {"active", "rdma"}]
              /\ serving = NoSearcher
              /\ at = [s \in Searcher |-> "start"]
              /\ bin = [s \in Searcher |-> 0] /\ spot = [s \in Searcher |-> 0]
              /\ page = [s \in Searcher |-> {}]
              /\ blank = [s \in Searcher |-> FALSE]
              /\ listed = [s \in Searcher |-> {}]
              /\ before = [s \in Searcher |-> {}]
              /\ went = [s \in Searcher |-> {}]

MoveTo(s, label) == at' = [at EXCEPT ![s] = label]
May(s)           == serving \in {NoSearcher, s}

(* A put publishes its record.                                                 *)
PutName(n) ==
  /\ serving = NoSearcher
  /\ \E r \in NameRecord \ recs :
       /\ \A q \in NameRecord \ recs : r <= q
       /\ recs' = recs \cup {r}
       /\ name' = [name EXCEPT ![r] = n]
       /\ next' = [next EXCEPT ![r] = head[Bin[n]]]
       /\ head' = [head EXCEPT ![Bin[n]] = r]
  /\ UNCHANGED <<mode, serving, at, bin, spot, page, blank, listed, before, went>>

(* Find.main asks for the first page, from bin 0 and record 0.                 *)
Start(s) ==
  /\ at[s] = "start"
  /\ MoveTo(s, "page")
  /\ before' = [before EXCEPT ![s] = recs]
  /\ UNCHANGED <<table, mode, serving, bin, spot, page, blank, listed, went>>

(* Active_Finder.execute is called, at the server or by the searcher itself.   *)
Begin(s) ==
  /\ at[s] = "page" /\ serving = NoSearcher
  /\ serving' = IF mode[s] = "active" THEN s ELSE NoSearcher
  /\ MoveTo(s, IF bin[s] = EOF THEN "end" ELSE "key")
  /\ UNCHANGED <<table, mode, bin, spot, page, blank, listed, before, went>>

(* Words of the page; a nameless record takes the one of its length.           *)
Words(r)  == IF r = Nameless THEN 1 ELSE Size[name[r]]
Taken(s)  == MapThenSumSet(Words, page[s])
Fits(s)   == Taken(s) + Words(spot[s]) <= MaxRet

(* The word that record 0 has for the length of its key holds a record.        *)
Junk(s) == spot[s] = Nameless /\ head[2 - TableSize] # 0

Matches(s) == ~blank[s] /\ IF spot[s] = Nameless THEN EmptyMatches ELSE name[spot[s]] \in Matching

(* findNext looks at a key.                                                    *)
Look(s) ==
  /\ at[s] = "key" /\ May(s) /\ ~Junk(s)
  /\ MoveTo(s, IF Matches(s) THEN "pack" ELSE "next")
  /\ UNCHANGED <<table, mode, serving, bin, spot, page, blank, listed, before, went>>

\* A slip: a name that does not fit is passed over.
PackSkips(s) ==
  /\ at[s] = "pack" /\ May(s) /\ ~Junk(s)
  /\ page' = [page EXCEPT ![s] = IF Fits(s) THEN @ \cup {spot[s]} ELSE @]
  /\ MoveTo(s, "next")
  /\ UNCHANGED <<table, mode, serving, bin, spot, blank, listed, before, went>>

\* A slip: the page is ended by the name that was put in it last.
PackEnds(s) ==
  /\ at[s] = "pack" /\ May(s) /\ ~Junk(s)
  /\ page' = [page EXCEPT ![s] = @ \cup {spot[s]}]
  /\ MoveTo(s, IF Taken(s) + Words(spot[s]) >= MaxRet THEN "end" ELSE "next")
  /\ UNCHANGED <<table, mode, serving, bin, spot, blank, listed, before, went>>

(* One that matches is read again and goes into the page, or ends it if it     *)
(* does not fit; the next page goes on from there.                             *)
Pack(s) ==
  /\ at[s] = "pack" /\ May(s) /\ ~Junk(s)
  /\ page' = [page EXCEPT ![s] = IF Fits(s) THEN @ \cup {spot[s]} ELSE @]
  /\ MoveTo(s, IF Fits(s) THEN "next" ELSE "end")
  /\ went' = [went EXCEPT ![s] = IF Fits(s) THEN @ ELSE @ \cup {"full"}]
  /\ UNCHANGED <<table, mode, serving, bin, spot, blank, listed, before>>

(* With a record's address for its length the key of record 0 is longer than a *)
(* page, or than memory: whether it matches, and whether it can be read, is    *)
(* anybody's guess.                                                            *)
JunkKey(s) ==
  /\ at[s] \in {"key", "pack"} /\ May(s) /\ Junk(s)
  /\ \E label \in {"end", "failed"} \cup (IF at[s] = "key" THEN {"next"} ELSE {}) : MoveTo(s, label)
  /\ went' = [went EXCEPT ![s] = @ \cup {"junk"}]
  /\ serving' = IF at'[s] = "failed" THEN NoSearcher ELSE serving
  /\ UNCHANGED <<table, mode, bin, spot, page, blank, listed, before>>

(* DFSIter.next follows the link of a record, and at the end of a bin takes    *)
(* the heads of those that follow.                                             *)
Follow(s) ==
  /\ at[s] = "next" /\ May(s)
  /\ LET r == IF spot[s] = 0 THEN 0 ELSE next[spot[s]] IN
       /\ spot' = [spot EXCEPT ![s] = r]
       /\ MoveTo(s, IF r = 0 THEN "head" ELSE "key")
  /\ UNCHANGED <<table, mode, serving, bin, page, blank, listed, before, went>>

NextBin(s) ==
  /\ at[s] = "head" /\ May(s)
  /\ IF bin[s] + 1 = TableSize
     THEN bin' = [bin EXCEPT ![s] = EOF] /\ MoveTo(s, "end") /\ UNCHANGED spot
     ELSE /\ bin' = [bin EXCEPT ![s] = @ + 1]
          /\ spot' = [spot EXCEPT ![s] = head[bin[s] + 1]]
          /\ MoveTo(s, IF head[bin[s] + 1] = 0 THEN "head" ELSE "key")
  /\ UNCHANGED <<table, mode, serving, page, blank, listed, before, went>>

\* A slip: the next page is asked for with the arguments of the first.
EndRepeats(s) ==
  /\ at[s] = "end"
  /\ serving' = IF mode[s] = "active" THEN NoSearcher ELSE serving
  /\ MoveTo(s, IF page[s] = {} THEN "done" ELSE "page")
  /\ listed' = [listed EXCEPT ![s] = @ \cup page[s]]
  /\ went' = [went EXCEPT ![s] = IF page[s] \cap listed[s] # {} THEN @ \cup {"twice"} ELSE @]
  /\ page' = [page EXCEPT ![s] = {}]
  /\ bin' = [bin EXCEPT ![s] = 0] /\ spot' = [spot EXCEPT ![s] = 0]
  /\ UNCHANGED <<table, mode, blank, before>>

(* The page is printed and the next one asked for, until one is empty.  A page *)
(* computed by the searcher has wiped the pattern in the very arguments that   *)
(* are used again.                                                             *)
End(s) ==
  /\ at[s] = "end"
  /\ serving' = IF mode[s] = "active" THEN NoSearcher ELSE serving
  /\ MoveTo(s, IF page[s] = {} THEN "done" ELSE "page")
  /\ listed' = [listed EXCEPT ![s] = @ \cup page[s]]
  /\ went' = [went EXCEPT ![s] = IF page[s] \cap listed[s] # {} THEN @ \cup {"twice"} ELSE @]
  /\ page' = [page EXCEPT ![s] = {}]
  /\ blank' = [blank EXCEPT ![s] = (mode[s] = "rdma")]
  /\ UNCHANGED <<table, mode, bin, spot, before>>

Search(s) == \/ Start(s) \/ Begin(s) \/ Look(s) \/ Pack(s)
             \/ JunkKey(s) \/ Follow(s) \/ NextBin(s) \/ End(s)

SearchNext == (\E s \in Searcher : Search(s)) \/ (\E n \in Name : PutName(n))

SearchSpec == /\ SearchInit /\ [][SearchNext]_searchVars
              /\ \A s \in Searcher : WF_searchVars(Search(s))

-------------------------------------------------------------------------------
(* The variables hold what their declarations say.                             *)
SearchTypeOK == /\ recs \subseteq NameRecord
                /\ name \in [NameRecord -> Name] /\ next \in [NameRecord -> NameRecord \cup {0}]
                /\ head \in [NameBin -> NameRecord \cup {0}]
                /\ mode \in [Searcher -> {"active", "rdma"}] /\ serving \in Searcher \cup {NoSearcher}
                /\ bin \in [Searcher -> EOF .. TableSize - 1]
                /\ spot \in [Searcher -> NameRecord \cup {0}]
                /\ \A s \in Searcher : /\ page[s] \subseteq recs \cup {Nameless}
                                       /\ Taken(s) <= MaxRet

(* No page outgrows its response, and the pages of a search never overlap,     *)
(* though the position that one hands to the next is a record's address and    *)
(* records come in front of it meanwhile.  The nameless record is listed if    *)
(* the empty string matches, and no other that does not match.                 *)
ListedOnce == /\ SearchTypeOK
              /\ \A s \in Searcher :
                   /\ "twice" \notin went[s]
                   /\ \A r \in listed[s] : r = Nameless \/ name[r] \in Matching

(* A search that has ended has listed every name that matches and was there    *)
(* when it began, except those in bin 0 and in the bins below the table, which *)
(* no page visits.  A search over the network loses all that does not fit into *)
(* its first page, and one that met junk for its first key may end at once.    *)
ListedAll ==
  \A s \in Searcher :
    (/\ at[s] = "done" /\ "junk" \notin went[s]
     /\ mode[s] = "active" \/ "full" \notin went[s]) =>
      {r \in before[s] : name[r] \in Matching /\ Bin[name[r]] >= 1} \subseteq listed[s]

(* Every search ends, however many names are put while it is under way.        *)
SearchEnds == \A s \in Searcher : at[s] # "start" ~> at[s] \in {"done", "failed"}
===============================================================================
