---------------------------------- MODULE Nic ---------------------------------
(* The emulated network card: Bochs' NE2000 with the hook through which the    *)
(* card itself serves ActiveRDMA.  A frame that arrives is first offered to    *)
(* ActiveRDMA_c, which answers requests to the RDMA port, requests to the      *)
(* statistics port and ARP questions, and keeps them from the guest; all other *)
(* frames go to the receive ring, from which the guest's driver takes them.    *)
(*                                                                             *)
(* The ring is made of the pages PageStart .. PageStop - 1.  The card stores   *)
(* at CURR, the driver's BNRY is the page before the next frame it will read.  *)
(* A frame's first page has a header with the place of the next frame.  The    *)
(* interrupt line is high while an unmasked bit of ISR is set, and the         *)
(* interrupt controller sees its rising edges only.                            *)
(*                                                                             *)
(* The driver is the guest's.  It is modelled from what the card expects of    *)
(* it: it masks interrupts while it loads a frame, may load one while another  *)
(* is being sent, acknowledges before it looks, and looks until ISR is clear.  *)
EXTENDS Integers, Sequences, FiniteSets

CONSTANTS Kinds,         \* Kinds[k]: what arrives, as [for, to, pages]
          PageStart, PageStop,
          MaxFrames,     \* bound on the frames that arrive
          MaxSends,      \* bound on the frames the guest sends
          MaxSetups      \* bound on the times the driver sets the card up

ASSUME NicAssumption ==
  /\ PageStart \in Nat \ {0} /\ PageStop \in Nat /\ PageStop > PageStart + 1
  /\ MaxFrames \in Nat /\ MaxSends \in Nat /\ MaxSetups \in Nat
  /\ Kinds \subseteq [for : {"rdma", "stat", "arp", "guest"}, to : {"peer", "all", "other"},
                      pages : 1 .. PageStop]

VARIABLES stop,          \* the stop bit of CR
          isr, imr,      \* ISR and IMR: subsets of {"rx", "tx"}
          first,         \* page_start, 0 before the driver has set it
          bound, curr,   \* BNRY and CURR
          dma, left,     \* remote DMA: address, and pages that are to be read
          mem,           \* mem[p]: what is in page p
          addr,          \* the driver has set the card's address
          line, irr,     \* the interrupt line; the controller's request bit
          timer,         \* tx_timer_active, and tx_packet of CR
          learned,       \* the card's address as a peer learned it: "none", "blank", "card"
          frames,        \* frames that have arrived
          driver         \* the driver's own variables, see NoDriver

card == <<stop, isr, imr, first, bound, curr, dma, left, mem, addr, line, irr, timer>>
vars == <<card, learned, frames, driver>>

Blank    == [frame |-> 0, part |-> 0, next |-> 0, pages |-> 0]
Page     == PageStart .. PageStop - 1
NoDriver == [pc |-> "down", next |-> 0, after |-> 0, seen |-> {}, got |-> <<>>,
             busy |-> FALSE,       \* a frame has been given to the card
             loaded |-> FALSE,     \* another one waits for it
             queue |-> <<>>,       \* frames in the ring, as <<number, pages>>
             hidden |-> FALSE,     \* a transmission ended while masked
             sends |-> 0, setups |-> 0]

Init == /\ stop = TRUE
        /\ isr = {} /\ imr = {}
        /\ first = 0 /\ bound = 0 /\ curr = 0
        /\ dma = 0 /\ left = 0
        /\ mem = [p \in Page |-> Blank]
        /\ addr = FALSE
        /\ line = FALSE /\ irr = FALSE
        /\ timer = FALSE
        /\ learned = "none"
        /\ frames = 0
        /\ driver = NoDriver

-------------------------------------------------------------------------------
(* The interrupt line, and what the controller makes of it.                    *)
SetIrq(high) == /\ line' = high
                /\ irr' = IF high THEN irr \/ ~line ELSE irr /\ ~line

\* A slip: acknowledging one interrupt lowers the line for all.
AckedLowers(bits) == isr' = isr \ bits /\ SetIrq(FALSE)

\* A slip: the line stays high, and the controller never sees another edge.
AckedStaysHigh(bits) == isr' = isr \ bits /\ UNCHANGED <<line, irr>>

(* Writing bits to ISR clears them; the line falls when no unmasked one stays. *)
Acked(bits) ==
  /\ isr' = isr \ bits
  /\ IF isr' \cap imr = {} THEN SetIrq(FALSE) ELSE UNCHANGED <<line, irr>>

Mask(bits) == imr' = bits /\ SetIrq(isr \cap bits # {})

-------------------------------------------------------------------------------
(* Frames that arrive.                                                         *)

(* Pages that may be stored, and the page n further on.                        *)
Avail == IF curr < bound THEN bound - curr
         ELSE (PageStop - first) - (curr - bound)

Past(p, n) == IF p + n >= PageStop THEN p + n - (PageStop - first) ELSE p + n

\* A slip: the ring may be filled to the last page.
RoomToTheLast(f) == Avail >= f.pages

(* The ring is never filled completely.                                        *)
Room(f) == Avail > f.pages

(* rx_frame takes a frame if the card runs, has room and is the one addressed. *)
Taken(f) == /\ ~stop /\ first # 0
            /\ Room(f)
            /\ f.to = "all" \/ (f.to = "peer" /\ learned = "card")

RxFrame(f) ==
  /\ Taken(f)
  /\ mem' = [p \in Page |->
               IF \E n \in 0 .. f.pages - 1 : p = Past(curr, n)
               THEN LET n == CHOOSE k \in 0 .. f.pages - 1 : p = Past(curr, k) IN
                    [frame |-> frames', part |-> n, next |-> Past(curr, f.pages),
                     pages |-> f.pages]
               ELSE mem[p]]
  /\ curr' = Past(curr, f.pages)
  /\ isr' = isr \cup {"rx"}
  /\ IF "rx" \in imr THEN SetIrq(TRUE) ELSE UNCHANGED <<line, irr>>
  /\ driver' = [driver EXCEPT !.queue = Append(@, <<frames', f.pages>>)]
  /\ UNCHANGED <<stop, imr, first, bound, dma, left, addr, timer, learned>>

(* ActiveRDMA_c::handle_packet: served at once, whatever the guest does, and   *)
(* kept from it.  (What serving does to memory is Exchange's.)  The answer to  *)
(* ARP tells the address the driver has set, or zeros before it has.           *)
Served(f) ==
  /\ f.for # "guest"
  /\ learned' = IF f.for # "arp" THEN learned ELSE IF addr THEN "card" ELSE "blank"
  /\ UNCHANGED <<card, driver>>

Arrive == /\ frames < MaxFrames
          /\ frames' = frames + 1
          /\ \E f \in Kinds :
               \/ Served(f)
               \/ f.for = "guest" /\ RxFrame(f)
               \/ f.for = "guest" /\ ~Taken(f) /\ UNCHANGED <<card, learned, driver>>

-------------------------------------------------------------------------------
\* A slip: no second interrupt while any is in progress.
TxTimerOneAtATime ==
  /\ timer
  /\ timer' = FALSE
  /\ IF "tx" \in imr /\ isr = {}
     THEN isr' = isr \cup {"tx"} /\ SetIrq(TRUE)
     ELSE UNCHANGED <<isr, line, irr>>
  /\ driver' = [driver EXCEPT !.hidden = @ \/ (driver.busy /\ "tx" \notin imr)]
  /\ UNCHANGED <<stop, imr, first, bound, curr, dma, left, mem, addr, learned, frames>>

(* Transmission: the card has sent the frame at once, and says so after a time *)
(* if the interrupt is unmasked then.                                          *)
TxTimer ==
  /\ timer
  /\ timer' = FALSE
  /\ IF "tx" \in imr /\ "tx" \notin isr
     THEN isr' = isr \cup {"tx"} /\ SetIrq(TRUE)
     ELSE UNCHANGED <<isr, line, irr>>
  /\ driver' = [driver EXCEPT !.hidden = @ \/ (driver.busy /\ "tx" \notin imr)]
  /\ UNCHANGED <<stop, imr, first, bound, curr, dma, left, mem, addr, learned, frames>>

-------------------------------------------------------------------------------
(* The driver.                                                                 *)
At(label)     == driver.pc = label
Drive(d)      == driver' = d
Goto(label)   == driver' = [driver EXCEPT !.pc = label]
UnlessIrq     == <<stop, imr, first, bound, curr, dma, left, mem, addr, timer>>

(* Writing CR with the transmit bit.                                           *)
Transmit == timer' = TRUE

(* The driver is handling an interrupt.                                        *)
Handling == driver.pc \in {"look", "ack", "sent", "drain", "copy", "free"}

(* The card is reset by reading its reset port, stopped, given its ring and    *)
(* its address, unmasked and started.  The driver may give up an interrupt for *)
(* it, whose line then stays high.                                             *)
Reset ==
  /\ At("down") \/ At("idle") \/ Handling
  /\ driver.setups < MaxSetups
  /\ isr' = {}
  /\ Drive([driver EXCEPT !.pc = "stop", !.setups = @ + 1])
  /\ UNCHANGED <<stop, imr, first, bound, curr, dma, left, mem, addr, line, irr, timer,
                 learned, frames>>

Stop == /\ At("stop")
        /\ stop' = TRUE
        /\ Goto("setup")
        /\ UNCHANGED <<isr, imr, first, bound, curr, dma, left, mem, addr, line, irr, timer,
                       learned, frames>>

Setup ==
  /\ At("setup")
  /\ first' = PageStart /\ bound' = PageStart /\ curr' = PageStart + 1
  /\ addr' = TRUE
  /\ Acked({"rx", "tx"})
  /\ Drive([driver EXCEPT !.pc = "unmask", !.next = PageStart + 1, !.queue = <<>>,
                          !.busy = FALSE, !.loaded = FALSE, !.hidden = FALSE])
  /\ UNCHANGED <<stop, imr, dma, left, mem, timer, learned, frames>>

Unmask == /\ At("unmask")
          /\ Mask({"rx", "tx"})
          /\ Goto(IF stop THEN "start" ELSE "idle")
          /\ UNCHANGED <<stop, isr, first, bound, curr, dma, left, mem, addr, timer,
                         learned, frames>>

Start == /\ At("start")
         /\ stop' = FALSE
         /\ Goto("idle")
         /\ UNCHANGED <<isr, imr, first, bound, curr, dma, left, mem, addr, line, irr, timer,
                        learned, frames>>

(* The guest sends: the frame is loaded while interrupts are masked, and given *)
(* to the card if that is not sending another.                                 *)
Send == /\ At("idle") /\ ~driver.loaded /\ driver.sends < MaxSends
        /\ Mask({})
        /\ Drive([driver EXCEPT !.pc = "load", !.sends = @ + 1])
        /\ UNCHANGED <<stop, isr, first, bound, curr, dma, left, mem, addr, timer,
                       learned, frames>>

Load == /\ At("load")
        /\ Drive([driver EXCEPT !.pc = "unmask", !.loaded = driver.busy, !.busy = TRUE])
        /\ IF driver.busy THEN UNCHANGED timer ELSE Transmit
        /\ UNCHANGED <<stop, isr, imr, first, bound, curr, dma, left, mem, addr, line, irr,
                       learned, frames>>

Interrupt == /\ At("idle") /\ irr
             /\ irr' = FALSE
             /\ Goto("look")
             /\ UNCHANGED <<stop, isr, imr, first, bound, curr, dma, left, mem, addr, line,
                            timer, learned, frames>>

Look == /\ At("look")
        /\ Drive([driver EXCEPT !.seen = isr, !.pc = IF isr = {} THEN "idle" ELSE "ack"])
        /\ UNCHANGED <<card, learned, frames>>

Ack == /\ At("ack")
       /\ Acked(driver.seen)
       /\ Goto("sent")
       /\ UNCHANGED <<UnlessIrq, learned, frames>>

(* A transmission is over: the frame that waits goes next.                     *)
Sent == /\ At("sent")
        /\ LET over == "tx" \in driver.seen /\ driver.busy IN
           /\ Drive([driver EXCEPT !.pc = IF "rx" \in driver.seen THEN "drain" ELSE "look",
                                   !.busy = IF over THEN driver.loaded ELSE @,
                                   !.loaded = IF over THEN FALSE ELSE @])
           /\ IF over /\ driver.loaded THEN Transmit ELSE UNCHANGED timer
        /\ UNCHANGED <<stop, isr, imr, first, bound, curr, dma, left, mem, addr, line, irr,
                       learned, frames>>

(* The header says how many pages to read and where the next frame is.         *)
Drain ==
  /\ At("drain")
  /\ IF driver.next = curr
     THEN Goto("look") /\ UNCHANGED <<dma, left>>
     ELSE /\ Drive([driver EXCEPT !.pc = "copy", !.got = <<>>, !.after = mem[driver.next].next])
          /\ dma' = driver.next /\ left' = mem[driver.next].pages
  /\ UNCHANGED <<stop, isr, imr, first, bound, curr, mem, addr, line, irr, timer,
                 learned, frames>>

(* asic_read: the address wraps at the end of the ring.                        *)
Copy ==
  /\ At("copy")
  /\ dma' = IF dma + 1 = PageStop THEN first ELSE dma + 1
  /\ left' = left - 1
  /\ Drive([driver EXCEPT !.got = Append(@, <<mem[dma].frame, mem[dma].part>>),
                          !.pc = IF left = 1 THEN "free" ELSE "copy"])
  /\ UNCHANGED <<stop, isr, imr, first, bound, curr, mem, addr, line, irr, timer,
                 learned, frames>>

Free ==
  /\ At("free")
  /\ bound' = IF driver.after = first THEN PageStop - 1 ELSE driver.after - 1
  /\ Drive([driver EXCEPT !.pc = "drain", !.next = driver.after, !.queue = Tail(@)])
  /\ UNCHANGED <<stop, isr, imr, first, curr, dma, left, mem, addr, line, irr, timer,
                 learned, frames>>

Driver == \/ Stop \/ Setup \/ Unmask \/ Start \/ Load \/ Interrupt \/ Look \/ Ack \/ Sent
          \/ Drain \/ Copy \/ Free

(* The guest has nothing to do.                                                *)
Quiet == At("idle") /\ ~irr /\ ~timer /\ UNCHANGED vars

Next == Arrive \/ TxTimer \/ Reset \/ Send \/ Driver \/ Quiet

(* The guest's processor runs its driver, and the emulator's timers fire.      *)
Spec == Init /\ [][Next]_vars /\ WF_vars(Driver) /\ WF_vars(TxTimer)

-------------------------------------------------------------------------------
(* The variables hold what their declarations say.                             *)
TypeOK == /\ isr \subseteq {"rx", "tx"} /\ imr \subseteq {"rx", "tx"}
          /\ first \in {0, PageStart}
          /\ first # 0 => bound \in Page /\ curr \in Page
          /\ mem \in [Page -> [frame : 0 .. MaxFrames, part : Nat, next : {0} \cup Page, pages : Nat]]
          /\ {stop, addr, line, irr, timer} \subseteq BOOLEAN
          /\ frames \in 0 .. MaxFrames /\ driver.queue \in Seq(Nat \X Nat)

(* The frames that the driver has not read yet lie one behind the other from   *)
(* where it will look to CURR, whole, each header leading to the next: nothing *)
(* that arrives overwrites one, and BNRY and CURR, which are moved by one side *)
(* each, never let a full ring look empty.                                     *)
Before(n) == {w \in (1 .. n - 1) \X (1 .. PageStop) : w[2] <= driver.queue[w[1]][2]}
Place(n)  == Past(driver.next, Cardinality(Before(n)))
RingOK ==
  /\ TypeOK
  /\ first # 0 =>
       /\ Place(Len(driver.queue) + 1) = curr
       /\ \A n \in 1 .. Len(driver.queue) :
            /\ mem[Place(n)].next = Place(n + 1) /\ mem[Place(n)].pages = driver.queue[n][2]
            /\ \A k \in 0 .. driver.queue[n][2] - 1 :
                 LET m == mem[Past(Place(n), k)] IN m.frame = driver.queue[n][1] /\ m.part = k

(* What the driver copies over several reads of the data port is the oldest    *)
(* frame from its first page to its last, whatever arrives in between.         *)
WholeFrames ==
  At("free") => driver.got = [k \in 1 .. Head(driver.queue)[2] |-> <<Head(driver.queue)[1], k - 1>>]

(* An unmasked event is never without its interrupt: the line is high, and the *)
(* controller has the request, or the driver is still to look at ISR, or to    *)
(* acknowledge everything as it sets up the card after a reset.                *)
Interrupted ==
  isr \cap imr # {} => line /\ (irr \/ Handling \/ At("stop") \/ At("setup"))

(* Every frame in the ring is read, or thrown away by a new setup.             *)
FramesRead == driver.queue # <<>> ~> driver.queue = <<>>

(* A driver that waits for the end of a transmission is told of it, unless it  *)
(* had masked the interrupt when the transmission ended: the card then forgets *)
(* it, and only another setup helps.                                           *)
TxTold == driver.busy ~> (~driver.busy \/ driver.hidden)
===============================================================================
