-------------------------------- MODULE NicProof -------------------------------
(* Proofs about Nic for any ring, any frames and any number of them: the ring  *)
(* keeps every frame until the driver has copied it, whole, and no unmasked    *)
(* event is without its interrupt.                                             *)
EXTENDS Nic, TLAPS, FiniteSetTheorems, NaturalsInduction, WellFoundedInduction

Events == {"rx", "tx"}
Labels == {"down", "stop", "setup", "unmask", "start", "idle", "load",
           "look", "ack", "sent", "drain", "copy", "free"}
Header == [frame : 0 .. MaxFrames, part : Nat, next : {0} \cup Page, pages : Nat]
Frames == Seq((0 .. MaxFrames) \X (1 .. PageStop))

DriverType ==
  [pc : Labels, next : {0} \cup Page, after : {0} \cup Page, seen : SUBSET Events,
   got : Seq((0 .. MaxFrames) \X Nat), busy : BOOLEAN, loaded : BOOLEAN,
   queue : Frames, hidden : BOOLEAN, sends : Nat, setups : Nat]

Types ==
  /\ stop \in BOOLEAN /\ addr \in BOOLEAN /\ line \in BOOLEAN /\ irr \in BOOLEAN
  /\ timer \in BOOLEAN
  /\ isr \in SUBSET Events /\ imr \in SUBSET Events
  /\ first \in {0, PageStart} /\ frames \in 0 .. MaxFrames
  /\ mem \in [Page -> Header] /\ driver \in DriverType

(* Only a card that was set up is used.                                        *)
SetUp == driver.pc \notin {"down", "stop", "setup"} => first = PageStart

(* The n-th frame in the ring is off[n] pages behind the place where the       *)
(* driver reads; each of its pages knows the frame and where the next one is.  *)
Size == PageStop - PageStart
RingAt(off) ==
  LET q == driver.queue IN
  /\ off \in [1 .. Len(q) + 1 -> 0 .. Size - 2]
  /\ off[1] = 0
  /\ \A n \in 1 .. Len(q) : off[n + 1] = off[n] + q[n][2]
  /\ curr = Past(driver.next, off[Len(q) + 1])
  /\ \A n \in 1 .. Len(q) : \A k \in 0 .. q[n][2] - 1 :
       mem[Past(driver.next, off[n] + k)] =
         [frame |-> q[n][1], part |-> k, next |-> Past(driver.next, off[n + 1]),
          pages |-> q[n][2]]

Ring == first # 0 => /\ bound \in Page /\ curr \in Page /\ driver.next \in Page
                     /\ driver.next = Past(bound, 1)
                     /\ \E off : RingAt(off)

(* What the driver has copied of the oldest frame.                             *)
Copied(n) == [k \in 1 .. n |-> <<driver.queue[1][1], k - 1>>]
Reading ==
  driver.pc \in {"copy", "free"} =>
    /\ driver.queue # <<>>
    /\ driver.after = Past(driver.next, driver.queue[1][2])
    /\ driver.pc = "copy" =>
         /\ left \in 1 .. driver.queue[1][2]
         /\ dma = Past(driver.next, driver.queue[1][2] - left)
         /\ driver.got = Copied(driver.queue[1][2] - left)
    /\ driver.pc = "free" => driver.got = Copied(driver.queue[1][2])

(* The line is high for an unmasked event, and between a reset and the setup   *)
(* perhaps without one; the controller or the driver knows that it is high.    *)
Looking == Handling \/ driver.pc \in {"stop", "setup"}
Line == /\ irr => line
        /\ line => irr \/ Looking
        /\ isr \cap imr # {} => line
        /\ line => isr \cap imr # {} \/ driver.pc \in {"stop", "setup"}

IInv == Types /\ SetUp /\ Ring /\ Reading /\ Line

-------------------------------------------------------------------------------
(* The arithmetic of the ring: going on stays in it, adds up, and comes back   *)
(* to a page only after all the others.                                        *)
LEMMA Sizes ==
  /\ PageStart \in Nat /\ PageStop \in Nat /\ PageStart > 0 /\ Size \in Nat /\ Size >= 2
  /\ PageStart + 1 \in Page /\ MaxFrames \in Nat
  /\ \A p \in Page : p \in Nat /\ PageStart <= p /\ p < PageStop
  /\ \A p \in Nat : PageStart <= p /\ p < PageStop => p \in Page
  BY NicAssumption DEF Size, Page

(* Pages past a page of the ring are pages of the ring.                        *)
LEMMA PastInRing ==
  ASSUME first = PageStart, NEW p \in Page, NEW x \in 0 .. Size - 1
  PROVE  Past(p, x) \in Page
  BY Sizes DEF Past, Size

(* No page past a page is the page itself.                                     *)
LEMMA PastZero == ASSUME NEW p \in Page PROVE Past(p, 0) = p
  BY Sizes DEF Past

(* The next page is the first one at the end of the ring.                      *)
LEMMA PastOne ==
  ASSUME first = PageStart, NEW p \in Page
  PROVE  Past(p, 1) = IF p + 1 = PageStop THEN PageStart ELSE p + 1
  BY Sizes DEF Past, Size

(* Steps along the ring add up.                                                *)
LEMMA PastAdds ==
  ASSUME first = PageStart, NEW p \in Page, NEW x \in Nat, NEW y \in Nat, x + y < Size
  PROVE  Past(Past(p, x), y) = Past(p, x + y)
  BY Sizes DEF Past, Size

(* Less than a round of steps never meets itself.                              *)
LEMMA PastDiffers ==
  ASSUME first = PageStart, NEW p \in Page, NEW x \in 0 .. Size - 1, NEW y \in 0 .. Size - 1, x # y
  PROVE  Past(p, x) # Past(p, y)
  BY Sizes DEF Past, Size

(* What RingAt says of one frame.                                              *)
LEMMA FrameTypes ==
  ASSUME Types, NEW n \in 1 .. Len(driver.queue)
  PROVE  /\ driver.queue[n][1] \in 0 .. MaxFrames /\ driver.queue[n][2] \in 1 .. PageStop
         /\ driver.queue[n] = <<driver.queue[n][1], driver.queue[n][2]>>
  <1>1. driver.queue \in Frames
    BY DEF Types, DriverType
  <1> QED BY <1>1 DEF Frames

(* Steps that touch neither the ring nor the place where the driver reads.     *)
LEMMA RingSame ==
  ASSUME Ring, UNCHANGED <<first, bound, curr, mem>>,
         driver'.queue = driver.queue, driver'.next = driver.next
  PROVE  Ring'
  <1> SUFFICES ASSUME first # 0 PROVE Ring'
    BY DEF Ring
  <1>1. PICK off : RingAt(off)
    BY DEF Ring
  <1>2. RingAt(off)'
    BY <1>1 DEF RingAt, Past
  <1> QED BY <1>2 DEF Ring, Past

(* A driver that does not move has copied what it had copied.                  *)
LEMMA ReadingSame ==
  ASSUME Reading, UNCHANGED first, driver'.pc \in {"copy", "free"} => driver' = driver /\ UNCHANGED <<dma, left>>
  PROVE  Reading'
  BY DEF Reading, Copied, Past

(* The card that was reset holds no frame.                                     *)
LEMMA InitOK == Init => IInv
  <1> SUFFICES ASSUME Init PROVE IInv
    OBVIOUS
  <1> USE DEF Init, NoDriver
  <1>1. driver \in DriverType
    BY DEF DriverType, Labels, Events, Frames
  <1>2. mem \in [Page -> Header]
    BY Sizes DEF Header, Blank
  <1>3. 0 \in 0 .. MaxFrames /\ {} \in SUBSET Events
    BY Sizes
  <1>4. Types
    BY <1>1, <1>2, <1>3 DEF Types
  <1> QED BY <1>4 DEF IInv, SetUp, Ring, Reading, Line

-------------------------------------------------------------------------------
(* Steps that leave the ring alone.  A step of the driver changes its own      *)
(* variables, of which these conditions say what the invariant needs.          *)
LEMMA IrqKeeps ==
  ASSUME Types, Line, NEW high \in BOOLEAN, SetIrq(high),
         high <=> isr' \cap imr' # {}, high /\ Looking => Looking'
  PROVE  Line' /\ line' \in BOOLEAN /\ irr' \in BOOLEAN
  BY DEF Types, Line, SetIrq

(* Acknowledging events lowers the line when no unmasked event is left.        *)
LEMMA AckedKeeps ==
  ASSUME Types, Line, NEW bits, Acked(bits), imr' = imr, Looking => Looking' \/ bits = Events,
         driver.pc \in {"stop", "setup"} => bits = Events \/ driver'.pc \in {"stop", "setup"}
  PROVE  Line' /\ line' \in BOOLEAN /\ irr' \in BOOLEAN /\ isr' \in SUBSET Events
  <1>1. isr' = isr \ bits /\ isr' \in SUBSET Events
    BY DEF Acked, Types
  <1>2. CASE isr' \cap imr = {}
    <2>1. SetIrq(FALSE)
      BY <1>2 DEF Acked
    <2> QED BY <1>1, <1>2, <2>1, IrqKeeps
  <1>3. CASE isr' \cap imr # {}
    <2>1. UNCHANGED <<line, irr>>
      BY <1>3 DEF Acked
    <2>2. bits # Events
      BY <1>1, <1>3 DEF Types
    <2> QED BY <1>1, <1>3, <2>1, <2>2 DEF Line, Types
  <1> QED BY <1>2, <1>3

(* The end of a transmission raises the line, or is hidden by the mask.        *)
LEMMA TxTimerKeeps == ASSUME IInv, TxTimer PROVE IInv'
  <1>1. /\ timer' = FALSE
        /\ UNCHANGED <<stop, imr, first, bound, curr, dma, left, mem, addr, learned, frames>>
        /\ driver' = [driver EXCEPT !.hidden = @ \/ (driver.busy /\ "tx" \notin imr)]
    BY DEF TxTimer
  <1>2. driver \in DriverType
    BY DEF IInv, Types
  <1>3. /\ driver' \in DriverType
        /\ driver'.pc = driver.pc /\ driver'.next = driver.next /\ driver'.queue = driver.queue
        /\ driver'.after = driver.after /\ driver'.got = driver.got
    BY <1>1, <1>2 DEF DriverType
  <1>4. Line' /\ line' \in BOOLEAN /\ irr' \in BOOLEAN /\ isr' \in SUBSET Events
    <2>1. CASE "tx" \in imr /\ "tx" \notin isr
      <3>1. SetIrq(TRUE) /\ isr' = isr \cup {"tx"}
        BY <2>1 DEF TxTimer
      <3> QED BY <1>1, <1>3, <2>1, <3>1, IrqKeeps DEF IInv, Types, Events, Looking, Handling
    <2>2. CASE ~("tx" \in imr /\ "tx" \notin isr)
      <3>1. UNCHANGED <<isr, line, irr>>
        BY <2>2 DEF TxTimer
      <3> QED BY <1>1, <1>3, <3>1 DEF IInv, Types, Line, Looking, Handling
    <2> QED BY <2>1, <2>2
  <1>5. Types' /\ SetUp'
    BY <1>1, <1>3, <1>4 DEF IInv, Types, SetUp
  <1>6. Ring'
    BY <1>1, <1>3, RingSame DEF IInv
  <1>7. Reading'
    BY <1>1, <1>3 DEF IInv, Reading, Copied, Past
  <1> QED BY <1>4, <1>5, <1>6, <1>7 DEF IInv

(* The driver resets the card, stops it, unmasks and starts it, sends.         *)
LEMMA ControlKeeps ==
  ASSUME IInv, Reset \/ Stop \/ Unmask \/ Start \/ Send \/ Load
  PROVE  IInv'
  <1>1. /\ UNCHANGED <<first, bound, curr, dma, left, mem, addr, learned, frames>>
        /\ driver.pc \in {"down", "idle", "stop", "unmask", "start", "load"} \/ Handling
        /\ driver.pc \in {"down", "idle"} \/ Handling => driver'.pc \in {"stop", "load"}
        /\ driver.pc = "down" \/ Handling => driver'.pc = "stop"
    BY DEF Reset, Stop, Unmask, Start, Send, Load, At, Drive, Goto, Handling, IInv, Types, DriverType
  <1>2. driver \in DriverType
    BY DEF IInv, Types
  <1>3. /\ driver' \in DriverType /\ driver'.pc \in {"stop", "setup", "start", "idle", "load", "unmask"}
        /\ driver'.next = driver.next /\ driver'.queue = driver.queue
        /\ driver.pc = "stop" => driver'.pc = "setup"
    <2>1. CASE Reset
      <3>1. PICK n \in Nat : n = driver.setups + 1
        BY <1>2 DEF DriverType
      <3>2. driver' = [driver EXCEPT !.pc = "stop", !.setups = n] /\ driver.pc # "stop"
        BY <2>1, <3>1 DEF Reset, At, Drive, Handling
      <3> QED BY <1>2, <3>2 DEF DriverType, Labels
    <2>2. CASE Stop \/ Unmask \/ Start
      BY <1>2, <2>2 DEF Stop, Unmask, Start, At, Goto, DriverType, Labels
    <2>3. CASE Send
      <3>1. PICK n \in Nat : n = driver.sends + 1
        BY <1>2 DEF DriverType
      <3>2. driver' = [driver EXCEPT !.pc = "load", !.sends = n] /\ driver.pc # "stop"
        BY <2>3, <3>1 DEF Send, At, Drive
      <3> QED BY <1>2, <3>2 DEF DriverType, Labels
    <2>4. CASE Load
      BY <1>2, <2>4 DEF Load, At, Drive, DriverType, Labels
    <2> QED BY <2>1, <2>2, <2>3, <2>4
  <1>4. /\ stop' \in BOOLEAN /\ timer' \in BOOLEAN /\ imr' \in SUBSET Events /\ isr' \in SUBSET Events
    BY DEF Reset, Stop, Unmask, Start, Send, Load, Mask, Transmit, IInv, Types, Events
  <1>5. Line' /\ line' \in BOOLEAN /\ irr' \in BOOLEAN
    <2>1. CASE Unmask \/ Send
      <3>1. PICK bits \in {{"rx", "tx"}, {}} : Mask(bits)
        BY <2>1 DEF Unmask, Send
      <3>2. imr' = bits /\ SetIrq(isr \cap bits # {}) /\ isr' = isr /\ ~Looking
        BY <2>1, <3>1 DEF Mask, Unmask, Send, At, Looking, Handling
      <3> QED BY <3>2, IrqKeeps DEF IInv
    <2>2. CASE Reset
      BY <1>1, <1>3, <2>2 DEF Reset, At, Drive, IInv, Types, DriverType, Line, Looking, Handling
    <2>3. CASE Stop \/ Start \/ Load
      BY <1>1, <1>3, <2>3 DEF Stop, Start, Load, At, IInv, Types, Line, Looking, Handling
    <2> QED BY <2>1, <2>2, <2>3
  <1>6. Types'
    BY <1>1, <1>3, <1>4, <1>5 DEF IInv, Types
  <1>7. SetUp'
    BY <1>1, <1>3 DEF IInv, SetUp, Handling
  <1>8. Ring'
    BY <1>1, <1>3, RingSame DEF IInv
  <1>9. Reading'
    BY <1>3 DEF Reading
  <1> QED BY <1>5, <1>6, <1>7, <1>8, <1>9 DEF IInv

(* The driver takes an interrupt, looks, acknowledges.                         *)
LEMMA LookKeeps ==
  ASSUME IInv, Interrupt \/ Look \/ Ack \/ Sent
  PROVE  IInv'
  <1>1. /\ UNCHANGED <<stop, imr, first, bound, curr, dma, left, mem, addr, learned, frames>>
        /\ driver.pc \in {"idle", "look", "ack", "sent"}
    BY DEF Interrupt, Look, Ack, Sent, At, UnlessIrq, card
  <1>2. driver \in DriverType /\ isr \in SUBSET Events
    BY DEF IInv, Types
  <1>3. /\ driver' \in DriverType
        /\ driver'.next = driver.next /\ driver'.queue = driver.queue
        /\ driver'.pc \in {"look", "idle", "ack", "sent", "drain"}
        /\ driver'.pc = "idle" => driver.pc = "look" /\ isr = {}
    BY <1>2 DEF Interrupt, Look, Ack, Sent, At, Drive, Goto, DriverType, Labels
  <1>4. timer' \in BOOLEAN
    BY DEF Interrupt, Look, Ack, Sent, Transmit, UnlessIrq, card, IInv, Types
  <1>5. Line' /\ line' \in BOOLEAN /\ irr' \in BOOLEAN /\ isr' \in SUBSET Events
    <2>1. CASE Ack
      BY <1>1, <1>3, <2>1, AckedKeeps DEF Ack, At, IInv, Looking, Handling, Goto, Types, DriverType
    <2>2. CASE Interrupt
      BY <1>1, <1>2, <2>2 DEF Interrupt, At, Goto, IInv, Types, DriverType, Line, Looking, Handling
    <2>3. CASE Look \/ Sent
      <3>1. UNCHANGED <<isr, imr, line, irr>> /\ Looking /\ driver.pc \notin {"stop", "setup"}
        BY <2>3 DEF Look, Sent, card, At, Looking, Handling
      <3>2. Looking' \/ isr = {}
        BY <1>3 DEF Looking, Handling
      <3> QED BY <3>1, <3>2 DEF IInv, Types, Line
    <2> QED BY <2>1, <2>2, <2>3
  <1>6. Types'
    BY <1>1, <1>3, <1>4, <1>5 DEF IInv, Types
  <1>7. SetUp'
    BY <1>1, <1>3 DEF IInv, SetUp
  <1>8. Ring'
    BY <1>1, <1>3, RingSame DEF IInv
  <1>9. Reading'
    BY <1>3 DEF Reading
  <1> QED BY <1>5, <1>6, <1>7, <1>8, <1>9 DEF IInv

(* The card gets its ring, which is empty.                                     *)
LEMMA SetupKeeps == ASSUME IInv, Setup PROVE IInv'
  <1>1. /\ first' = PageStart /\ bound' = PageStart /\ curr' = PageStart + 1 /\ addr' = TRUE
        /\ Acked({"rx", "tx"}) /\ driver.pc = "setup"
        /\ driver' = [driver EXCEPT !.pc = "unmask", !.next = PageStart + 1, !.queue = <<>>,
                                    !.busy = FALSE, !.loaded = FALSE, !.hidden = FALSE]
        /\ UNCHANGED <<stop, imr, dma, left, mem, timer, learned, frames>>
    BY DEF Setup, At, Drive
  <1>2. driver \in DriverType
    BY DEF IInv, Types
  <1>3. /\ driver' \in DriverType /\ driver'.pc = "unmask" /\ driver'.next = PageStart + 1
        /\ driver'.queue = <<>>
    <2>1. PageStart + 1 \in {0} \cup Page /\ "unmask" \in Labels /\ <<>> \in Frames
      BY Sizes DEF Labels, Frames
    <2> QED BY <1>1, <1>2, <2>1 DEF DriverType
  <1>4. Line' /\ line' \in BOOLEAN /\ irr' \in BOOLEAN /\ isr' \in SUBSET Events
    BY <1>1, AckedKeeps DEF IInv, Looking, Handling, Events
  <1>5. Types' /\ SetUp' /\ Reading'
    BY <1>1, <1>3, <1>4 DEF IInv, Types, SetUp, Reading
  <1>6. Ring'
    <2> DEFINE off == [n \in 1 .. 1 |-> 0]
    <2>1. PageStart \in Page /\ PageStart + 1 \in Page /\ Size \in Nat /\ Size >= 2
      BY Sizes
    <2>2. Past(PageStart, 1)' = PageStart + 1 /\ Past(PageStart + 1, 0)' = PageStart + 1
      BY <1>1, Sizes DEF Past, Size
    <2>3. RingAt(off)'
      BY <1>1, <1>3, <2>1, <2>2 DEF RingAt
    <2> QED BY <1>1, <1>3, <2>1, <2>2, <2>3 DEF Ring
  <1> QED BY <1>4, <1>5, <1>6 DEF IInv

-------------------------------------------------------------------------------
(* A set of numbers that is not empty has a smallest member.                   *)
LEMMA SmallestMember ==
  ASSUME NEW T, T \subseteq Nat, T # {}
  PROVE  \E n \in T : \A m \in T : n <= m
  <1> DEFINE R == OpToRel(<, Nat)
  <1>1. IsWellFoundedOn(R, Nat)
    BY NatLessThanWellFounded
  <1>2. \A x, y \in Nat : <<x, y>> \in R <=> x < y
    BY DEF OpToRel
  <1> HIDE DEF R
  <1>3. PICK n \in T : \A m \in T : ~(<<m, n>> \in R)
    BY <1>1, WFMin
  <1>4. ASSUME NEW m \in T PROVE n <= m
    <2>1. m \in Nat /\ n \in Nat
      OBVIOUS
    <2>2. ~(m < n)
      BY <1>2, <1>3, <2>1
    <2> QED BY <2>1, <2>2
  <1> QED BY <1>4

(* Frames lie one behind the other, so each lies before those after it.        *)
LEMMA OffMonotone ==
  ASSUME NEW N \in Nat, NEW off \in [1 .. N -> Nat],
         \A n \in 1 .. N : n + 1 <= N => off[n] <= off[n + 1]
  PROVE  \A i, j \in 1 .. N : i <= j => off[i] <= off[j]
  <1> SUFFICES ASSUME NEW i \in 1 .. N PROVE \A j \in 1 .. N : i <= j => off[i] <= off[j]
    OBVIOUS
  <1> DEFINE T == {j \in 1 .. N : i <= j /\ ~(off[i] <= off[j])}
  <1>1. ASSUME T # {} PROVE FALSE
    <2>1. T \subseteq Nat
      OBVIOUS
    <2>2. PICK j \in T : \A m \in T : j <= m
      BY <1>1, <2>1, SmallestMember
    <2>3. j # i /\ j \in 1 .. N /\ i <= j /\ ~(off[i] <= off[j])
      OBVIOUS
    <2>4. j - 1 \in 1 .. N /\ i <= j - 1 /\ ~(j <= j - 1) /\ (j - 1) + 1 = j
      BY <2>3
    <2>5. off[i] <= off[j - 1]
      BY <2>2, <2>4
    <2>6. off[j - 1] <= off[(j - 1) + 1]
      BY <2>3, <2>4
    <2>7. off[i] \in Nat /\ off[j - 1] \in Nat /\ off[j] \in Nat
      BY <2>3, <2>4
    <2> QED BY <2>3, <2>4, <2>5, <2>6, <2>7
  <1> QED BY <1>1

(* The pages that may be stored are those that no frame lies in, but one.      *)
LEMMA AvailIs ==
  ASSUME first = PageStart, NEW p \in Page, NEW b \in Page, NEW e \in 0 .. Size - 2,
         p = Past(b, 1), bound = b, curr = Past(p, e)
  PROVE  Avail = Size - 1 - e
  <1>1. curr = Past(b, 1 + e)
    BY PastAdds, Sizes
  <1>2. /\ b \in Nat /\ PageStart <= b /\ b < PageStop /\ e \in Nat /\ e <= Size - 2
        /\ Size = PageStop - PageStart /\ PageStart \in Nat /\ PageStop \in Nat
    BY Sizes DEF Size
  <1>3. CASE b + (1 + e) >= PageStop
    BY <1>1, <1>2, <1>3 DEF Past, Avail
  <1>4. CASE ~(b + (1 + e) >= PageStop)
    BY <1>1, <1>2, <1>4 DEF Past, Avail
  <1> QED BY <1>3, <1>4

(* What the card stores: the pages of the frame, each as a part of it, and no  *)
(* other page.                                                                 *)
LEMMA Stored ==
  ASSUME Types, first = PageStart, curr \in Page, NEW g \in 0 .. MaxFrames, NEW s \in 1 .. Size - 1,
         mem' = [p \in Page |->
                   IF \E n \in 0 .. s - 1 : p = Past(curr, n)
                   THEN LET n == CHOOSE k \in 0 .. s - 1 : p = Past(curr, k) IN
                        [frame |-> g, part |-> n, next |-> Past(curr, s), pages |-> s]
                   ELSE mem[p]]
  PROVE  /\ \A n \in 0 .. s - 1 : /\ Past(curr, n) \in Page
                                  /\ mem'[Past(curr, n)] = [frame |-> g, part |-> n,
                                                            next |-> Past(curr, s), pages |-> s]
         /\ \A p \in Page : (\A n \in 0 .. s - 1 : p # Past(curr, n)) => mem'[p] = mem[p]
         /\ mem' \in [Page -> Header]
  <1>1. Size \in Nat /\ s \in Nat /\ \A n \in 0 .. s - 1 : n \in 0 .. Size - 1
    BY Sizes
  <1>2. Past(curr, s) \in Page
    BY PastInRing
  <1>3. ASSUME NEW n \in 0 .. s - 1
        PROVE  /\ Past(curr, n) \in Page
               /\ mem'[Past(curr, n)] = [frame |-> g, part |-> n, next |-> Past(curr, s), pages |-> s]
    <2>1. n \in 0 .. Size - 1
      BY <1>1
    <2>2. Past(curr, n) \in Page
      BY <2>1, PastInRing
    <2>3. (CHOOSE k \in 0 .. s - 1 : Past(curr, n) = Past(curr, k)) = n
      <3>1. \A k \in 0 .. s - 1 : Past(curr, n) = Past(curr, k) => k = n
        BY <1>1, <2>1, PastDiffers
      <3> QED BY <3>1
    <2> QED BY <2>2, <2>3
  <1>4. ASSUME NEW p \in Page PROVE mem'[p] \in Header
    <2>1. CASE \E n \in 0 .. s - 1 : p = Past(curr, n)
      <3>1. PICK n \in 0 .. s - 1 : p = Past(curr, n)
        BY <2>1
      <3>2. mem'[p] = [frame |-> g, part |-> n, next |-> Past(curr, s), pages |-> s]
        BY <1>3, <3>1
      <3> QED BY <1>1, <1>2, <3>2 DEF Header
    <2>2. CASE ~ \E n \in 0 .. s - 1 : p = Past(curr, n)
      BY <2>2 DEF Types
    <2> QED BY <2>1, <2>2
  <1>5. mem' = [p \in Page |-> mem'[p]]
    OBVIOUS
  <1>6. mem' \in [Page -> Header]
    BY <1>4, <1>5
  <1>7. \A p \in Page : (\A n \in 0 .. s - 1 : p # Past(curr, n)) => mem'[p] = mem[p]
    OBVIOUS
  <1> QED BY <1>3, <1>6, <1>7

(* A frame that is taken is stored behind the others and overwrites none.      *)
LEMMA RxRing ==
  ASSUME IInv, NEW f \in Kinds, RxFrame(f), frames' \in 0 .. MaxFrames
  PROVE  Ring' /\ mem' \in [Page -> Header] /\ curr' \in Page
  <1> DEFINE q == driver.queue
             s == f.pages
             g == frames'
  <1>1. /\ Room(f) /\ first = PageStart /\ s \in 1 .. PageStop
        /\ curr' = Past(curr, s) /\ UNCHANGED <<first, bound>>
        /\ driver' = [driver EXCEPT !.queue = Append(@, <<g, s>>)]
    BY NicAssumption DEF RxFrame, Taken, IInv, Types
  <1>2. driver \in DriverType /\ Types
    BY DEF IInv, Types
  <1>3. driver'.queue = Append(q, <<g, s>>) /\ driver'.next = driver.next
    BY <1>1, <1>2 DEF DriverType
  <1>4. q \in Frames /\ Len(q) \in Nat /\ Len(driver'.queue) = Len(q) + 1
    BY <1>2, <1>3 DEF DriverType, Frames
  <1>5. /\ \A n \in 1 .. Len(q) : driver'.queue[n] = q[n]
        /\ driver'.queue[Len(q) + 1] = <<g, s>>
    BY <1>3, <1>4 DEF Frames
  <1>6. PICK off : RingAt(off)
    BY <1>1, Sizes DEF IInv, Ring
  <1>7. PICK e \in 0 .. Size - 2 : e = off[Len(q) + 1]
    BY <1>4, <1>6 DEF RingAt
  <1>8. PICK p \in Page : p = driver.next
    BY <1>1, Sizes DEF IInv, Ring
  <1>9. /\ bound \in Page /\ curr \in Page /\ p = Past(bound, 1) /\ curr = Past(p, e)
    BY <1>1, <1>6, <1>7, <1>8, Sizes DEF IInv, Ring, RingAt
  <1>10. Avail = Size - 1 - e
    BY <1>1, <1>9, AvailIs
  <1>11. /\ e + s <= Size - 2 /\ e \in Nat /\ s \in Nat /\ Size \in Nat /\ s \in 1 .. Size - 1
    BY <1>1, <1>10, Sizes DEF Room
  <1>12. /\ \A n \in 0 .. s - 1 : /\ Past(curr, n) \in Page
                                  /\ mem'[Past(curr, n)] = [frame |-> g, part |-> n,
                                                            next |-> Past(curr, s), pages |-> s]
         /\ \A r \in Page : (\A n \in 0 .. s - 1 : r # Past(curr, n)) => mem'[r] = mem[r]
         /\ mem' \in [Page -> Header]
    BY <1>1, <1>2, <1>9, <1>11, Stored DEF RxFrame
  <1>13. /\ curr' = Past(p, e + s) /\ curr' \in Page
         /\ \A n \in 0 .. s - 1 : Past(curr, n) = Past(p, e + n)
    BY <1>1, <1>9, <1>11, PastAdds, PastInRing
  <1>14. \A x \in 0 .. e - 1 : Past(p, x) \in Page /\ mem'[Past(p, x)] = mem[Past(p, x)]
    <2> SUFFICES ASSUME NEW x \in 0 .. e - 1
                 PROVE  Past(p, x) \in Page /\ mem'[Past(p, x)] = mem[Past(p, x)]
      OBVIOUS
    <2>1. x \in 0 .. Size - 1 /\ x \in Nat
      BY <1>11
    <2>2. ASSUME NEW n \in 0 .. s - 1 PROVE Past(p, x) # Past(curr, n)
      <3>1. e + n \in 0 .. Size - 1 /\ x # e + n
        BY <1>11
      <3> QED BY <1>1, <1>13, <2>1, <3>1, PastDiffers
    <2> QED BY <1>1, <1>12, <2>1, <2>2, PastInRing
  <1>15. PICK ofn \in [1 .. Len(q) + 2 -> 0 .. Size - 2] :
              /\ \A n \in 1 .. Len(q) + 1 : ofn[n] = off[n]
              /\ ofn[Len(q) + 2] = e + s
    <2> DEFINE all == [n \in 1 .. Len(q) + 2 |-> IF n <= Len(q) + 1 THEN off[n] ELSE e + s]
    <2>1. /\ all \in [1 .. Len(q) + 2 -> 0 .. Size - 2]
          /\ \A n \in 1 .. Len(q) + 1 : all[n] = off[n]
          /\ all[Len(q) + 2] = e + s
      BY <1>4, <1>6, <1>11 DEF RingAt
    <2> QED BY <2>1
  <1>16. \A n \in 1 .. Len(q) : /\ off[n] \in Nat /\ q[n][2] \in Nat
                                /\ off[n] + q[n][2] = off[n + 1] /\ off[n + 1] \in Nat
    <2> SUFFICES ASSUME NEW n \in 1 .. Len(q)
                 PROVE  /\ off[n] \in Nat /\ q[n][2] \in Nat
                        /\ off[n] + q[n][2] = off[n + 1] /\ off[n + 1] \in Nat
      OBVIOUS
    <2>1. n \in 1 .. Len(q) + 1 /\ n + 1 \in 1 .. Len(q) + 1
      BY <1>4
    <2>2. off[n] \in 0 .. Size - 2 /\ off[n + 1] \in 0 .. Size - 2
      BY <1>6, <2>1 DEF RingAt
    <2>3. q[n][2] \in Nat
      BY <1>2, FrameTypes, Sizes
    <2>4. \A m \in 1 .. Len(q) : off[m + 1] = off[m] + q[m][2]
      BY <1>6 DEF RingAt
    <2>5. off[n + 1] = off[n] + q[n][2]
      BY <2>4
    <2>6. off[n] \in Nat /\ off[n + 1] \in Nat
      BY <1>11, <2>2
    <2> QED BY <2>3, <2>5, <2>6
  <1>17. \A n \in 1 .. Len(q) : off[n + 1] <= e
    <2>1. off \in [1 .. Len(q) + 1 -> Nat]
      BY <1>6, <1>11 DEF RingAt
    <2>2. \A n \in 1 .. Len(q) : off[n] <= off[n + 1]
      <3> TAKE n \in 1 .. Len(q)
      <3>1. /\ off[n] \in Nat /\ q[n][2] \in Nat
            /\ off[n] + q[n][2] = off[n + 1]
        BY <1>16
      <3> QED BY <3>1
    <2>3. PICK N \in Nat : N = Len(q) + 1
      BY <1>4
    <2>4. off \in [1 .. N -> Nat] /\ \A n \in 1 .. N : n + 1 <= N => off[n] <= off[n + 1]
      BY <1>4, <2>1, <2>2, <2>3
    <2>5. \A i, j \in 1 .. N : i <= j => off[i] <= off[j]
      BY <2>4, OffMonotone
    <2> QED BY <1>4, <1>7, <2>3, <2>5
  <1>18. RingAt(ofn)'
    <2>1. \A n \in 1 .. Len(q) + 1 : ofn[n + 1] = ofn[n] + driver'.queue[n][2]
      <3> SUFFICES ASSUME NEW n \in 1 .. Len(q) + 1
                   PROVE  ofn[n + 1] = ofn[n] + driver'.queue[n][2]
        OBVIOUS
      <3>1. CASE n = Len(q) + 1
        <4>1. n + 1 = Len(q) + 2 /\ n \in 1 .. Len(q) + 1
          BY <1>4, <3>1
        <4>2. ofn[n] = e /\ ofn[n + 1] = e + s /\ driver'.queue[n][2] = s
          BY <1>5, <1>7, <1>15, <3>1, <4>1
        <4> QED BY <4>2
      <3>2. CASE n \in 1 .. Len(q)
        <4>1. n \in 1 .. Len(q) + 1 /\ n + 1 \in 1 .. Len(q) + 1
          BY <1>4, <3>2
        <4> QED BY <1>5, <1>15, <1>16, <3>2, <4>1
      <3> QED BY <1>4, <3>1, <3>2
    <2>2. \A n \in 1 .. Len(q) + 1 : \A k \in 0 .. driver'.queue[n][2] - 1 :
             mem'[Past(p, ofn[n] + k)] =
               [frame |-> driver'.queue[n][1], part |-> k, next |-> Past(p, ofn[n + 1]),
                pages |-> driver'.queue[n][2]]
      <3> SUFFICES ASSUME NEW n \in 1 .. Len(q) + 1, NEW k \in 0 .. driver'.queue[n][2] - 1
                   PROVE  mem'[Past(p, ofn[n] + k)] =
                            [frame |-> driver'.queue[n][1], part |-> k,
                             next |-> Past(p, ofn[n + 1]), pages |-> driver'.queue[n][2]]
        OBVIOUS
      <3>1. CASE n = Len(q) + 1
        <4>1. driver'.queue[n] = <<g, s>> /\ ofn[n] = e /\ ofn[n + 1] = e + s
          BY <1>4, <1>5, <1>7, <1>15, <3>1
        <4>2. k \in 0 .. s - 1 /\ Past(p, e + k) = Past(curr, k) /\ Past(curr, s) = Past(p, e + s)
          BY <1>1, <1>13, <4>1
        <4> QED BY <1>12, <4>1, <4>2
      <3>2. CASE n \in 1 .. Len(q)
        <4>1. /\ driver'.queue[n] = q[n] /\ ofn[n] = off[n] /\ ofn[n + 1] = off[n + 1]
          <5>1. n \in 1 .. Len(q) + 1 /\ n + 1 \in 1 .. Len(q) + 1
            BY <1>4, <3>2
          <5> QED BY <1>5, <1>15, <3>2, <5>1
        <4>2. off[n] + k \in 0 .. e - 1
          <5>1. /\ off[n] \in Nat /\ q[n][2] \in Nat /\ off[n] + q[n][2] <= e
                /\ k \in 0 .. q[n][2] - 1
            BY <1>16, <1>17, <3>2, <4>1
          <5>2. \A x, y, z \in Nat : x + y <= e /\ z \in 0 .. y - 1 => x + z \in 0 .. e - 1
            BY <1>11
          <5>3. k \in Nat
            BY <5>1
          <5> QED BY <5>1, <5>2, <5>3
        <4>3. mem[Past(p, off[n] + k)] =
                [frame |-> q[n][1], part |-> k, next |-> Past(p, off[n + 1]), pages |-> q[n][2]]
          BY <1>6, <1>8, <3>2, <4>1 DEF RingAt
        <4> QED BY <1>14, <4>1, <4>2, <4>3
      <3> QED BY <1>4, <3>1, <3>2
    <2>3. ofn[1] = 0
      BY <1>4, <1>6, <1>15 DEF RingAt
    <2>4. \A x : Past(p, x)' = Past(p, x)
      BY <1>1 DEF Past
    <2>5. Len(driver'.queue) + 1 = Len(q) + 2 /\ curr' = Past(p, ofn[Len(q) + 2])
      BY <1>4, <1>13, <1>15
    <2>6. Len(driver'.queue) = Len(q) + 1
      BY <1>4
    <2> QED BY <1>3, <1>4, <1>8, <1>15, <2>1, <2>2, <2>3, <2>4, <2>5, <2>6 DEF RingAt
  <1>19. Past(bound, 1)' = Past(bound, 1)
    BY <1>1 DEF Past
  <1> QED BY <1>1, <1>3, <1>8, <1>9, <1>12, <1>13, <1>18, <1>19 DEF Ring

(* A frame arrives.  What the driver copies is not touched by it.              *)
LEMMA ArriveKeeps == ASSUME IInv, Arrive PROVE IInv'
  <1>1. frames' \in 0 .. MaxFrames
    BY Sizes DEF Arrive, IInv, Types
  <1>2. CASE \E f \in Kinds : RxFrame(f)
    <2>1. PICK f \in Kinds : RxFrame(f)
      BY <1>2
    <2> DEFINE new == <<frames', f.pages>>
    <2>2. /\ isr' = isr \cup {"rx"}
          /\ IF "rx" \in imr THEN SetIrq(TRUE) ELSE UNCHANGED <<line, irr>>
          /\ driver' = [driver EXCEPT !.queue = Append(@, new)]
          /\ UNCHANGED <<stop, imr, first, bound, dma, left, addr, timer, learned>>
      BY <2>1 DEF RxFrame
    <2>3. driver \in DriverType /\ driver.queue \in Frames
      BY DEF IInv, Types, DriverType
    <2>4. new \in (0 .. MaxFrames) \X (1 .. PageStop)
      BY <1>1, NicAssumption
    <2>5. Append(driver.queue, new) \in Frames
      BY <2>3, <2>4 DEF Frames
    <2>6. /\ driver' \in DriverType /\ driver'.pc = driver.pc
          /\ driver'.next = driver.next /\ driver'.after = driver.after /\ driver'.got = driver.got
          /\ driver'.queue = Append(driver.queue, new)
      BY <2>2, <2>3, <2>5 DEF DriverType
    <2>7. Ring' /\ mem' \in [Page -> Header]
      BY <1>1, <2>1, RxRing
    <2>8. Line' /\ line' \in BOOLEAN /\ irr' \in BOOLEAN /\ isr' \in SUBSET Events
      <3>1. isr' \in SUBSET Events
        BY <2>2 DEF IInv, Types, Events
      <3>2. CASE "rx" \in imr
        BY <2>2, <2>6, <3>1, <3>2, IrqKeeps DEF IInv, Looking, Handling
      <3>3. CASE "rx" \notin imr
        BY <2>2, <2>6, <3>1, <3>3 DEF IInv, Types, Line, Looking, Handling
      <3> QED BY <3>2, <3>3
    <2>9. Types' /\ SetUp'
      BY <1>1, <2>2, <2>6, <2>7, <2>8 DEF IInv, Types, SetUp
    <2>10. Reading'
      <3> SUFFICES ASSUME driver.pc \in {"copy", "free"} PROVE Reading'
        BY <2>6 DEF Reading
      <3>1. driver.queue # <<>> /\ driver'.queue[1] = driver.queue[1] /\ driver'.queue # <<>>
        BY <2>3, <2>6 DEF IInv, Reading, Frames
      <3> QED BY <2>2, <2>6, <3>1 DEF IInv, Reading, Copied, Past
    <2> QED BY <2>7, <2>8, <2>9, <2>10 DEF IInv
  <1>3. CASE UNCHANGED <<card, driver>>
    <2>1. Types' /\ SetUp' /\ Line'
      BY <1>1, <1>3 DEF IInv, Types, SetUp, Line, Looking, Handling, card
    <2>2. Ring'
      BY <1>3, RingSame DEF IInv, card
    <2>3. Reading'
      BY <1>3 DEF IInv, Reading, Copied, Past, card
    <2> QED BY <2>1, <2>2, <2>3 DEF IInv
  <1> QED BY <1>2, <1>3 DEF Arrive, Served

(* What the driver finds where it reads: the oldest frame, if there is one.    *)
LEMMA Oldest ==
  ASSUME IInv, first = PageStart
  PROVE  /\ driver.next \in Page
         /\ driver.queue = <<>> <=> driver.next = curr
         /\ driver.queue # <<>> =>
              /\ driver.queue[1][2] \in 1 .. Size - 2 /\ 1 \in 1 .. Len(driver.queue)
              /\ \A k \in 0 .. driver.queue[1][2] - 1 :
                   /\ Past(driver.next, k) \in Page
                   /\ mem[Past(driver.next, k)] =
                        [frame |-> driver.queue[1][1], part |-> k,
                         next |-> Past(driver.next, driver.queue[1][2]),
                         pages |-> driver.queue[1][2]]
  <1>1. PICK off : RingAt(off)
    BY Sizes DEF IInv, Ring
  <1>2. PICK p \in Page : p = driver.next
    BY Sizes DEF IInv, Ring
  <1>3. PICK q \in Frames : q = driver.queue
    BY DEF IInv, Types, DriverType
  <1>4. Len(q) \in Nat /\ (q = <<>> <=> Len(q) = 0)
    BY DEF Frames
  <1>5. Past(p, 0) = p
    BY PastZero
  <1>6. CASE q = <<>>
    BY <1>1, <1>2, <1>3, <1>4, <1>5, <1>6 DEF RingAt
  <1>7. CASE q # <<>>
    <2>1. 1 \in 1 .. Len(q) /\ 2 \in 1 .. Len(q) + 1 /\ Len(q) + 1 \in 1 .. Len(q) + 1
      BY <1>4, <1>7
    <2>2. PICK s \in Nat : s = q[1][2] /\ s >= 1
      BY <1>3, <2>1, FrameTypes, Sizes DEF IInv
    <2>3. /\ off[1] = 0 /\ off[2] = off[1] + s /\ off[2] \in 0 .. Size - 2
          /\ off[Len(q) + 1] \in 0 .. Size - 2
          /\ off \in [1 .. Len(q) + 1 -> 0 .. Size - 2]
      BY <1>1, <1>3, <2>1, <2>2 DEF RingAt
    <2>4. off[2] = s /\ s \in 1 .. Size - 2 /\ Size \in Nat
      BY <2>2, <2>3, Sizes
    <2>5. off[2] <= off[Len(q) + 1]
      <3>1. off \in [1 .. Len(q) + 1 -> Nat]
        BY <2>3, Sizes
      <3>2. ASSUME NEW n \in 1 .. Len(q) PROVE off[n] <= off[n + 1]
        <4>1. /\ off[n] \in Nat /\ q[n][2] \in Nat /\ off[n + 1] = off[n] + q[n][2]
          BY <1>1, <1>3, <1>4, <3>1, FrameTypes, Sizes DEF RingAt, IInv
        <4> QED BY <4>1
      <3>3. PICK N \in Nat : N = Len(q) + 1
        BY <1>4
      <3>4. off \in [1 .. N -> Nat] /\ \A n \in 1 .. N : n + 1 <= N => off[n] <= off[n + 1]
        BY <1>4, <3>1, <3>2, <3>3
      <3>5. \A i, j \in 1 .. N : i <= j => off[i] <= off[j]
        BY <3>4, OffMonotone
      <3>6. 2 \in 1 .. N /\ N \in 1 .. N /\ 2 <= N
        BY <2>1, <3>3
      <3> QED BY <3>3, <3>5, <3>6
    <2>6. p # curr
      <3>1. curr = Past(p, off[Len(q) + 1])
        BY <1>1, <1>2, <1>3 DEF RingAt
      <3>2. off[Len(q) + 1] \in 0 .. Size - 1 /\ 0 \in 0 .. Size - 1 /\ off[Len(q) + 1] # 0
        BY <2>3, <2>4, <2>5
      <3> QED BY <1>5, <3>1, <3>2, PastDiffers
    <2>7. ASSUME NEW k \in 0 .. s - 1
          PROVE  /\ Past(p, k) \in Page
                 /\ mem[Past(p, k)] = [frame |-> q[1][1], part |-> k, next |-> Past(p, s), pages |-> s]
      <3>1. k \in 0 .. Size - 1 /\ off[1] + k = k
        BY <2>3, <2>4
      <3>2. mem[Past(p, off[1] + k)] =
              [frame |-> q[1][1], part |-> k, next |-> Past(p, off[1 + 1]), pages |-> q[1][2]]
        BY <1>1, <1>2, <1>3, <2>1, <2>2 DEF RingAt
      <3> QED BY <2>2, <2>4, <3>1, <3>2, PastInRing
    <2> QED BY <1>2, <1>3, <1>7, <2>1, <2>2, <2>4, <2>6, <2>7
  <1> QED BY <1>6, <1>7

(* The driver reads a header.                                                  *)
LEMMA DrainKeeps == ASSUME IInv, Drain PROVE IInv'
  <1>1. /\ driver.pc = "drain" /\ first = PageStart
        /\ UNCHANGED <<stop, isr, imr, first, bound, curr, mem, addr, line, irr, timer,
                       learned, frames>>
    BY DEF Drain, At, IInv, SetUp
  <1>2. driver \in DriverType
    BY DEF IInv, Types
  <1>3. CASE driver.next = curr
    <2>1. /\ driver' = [driver EXCEPT !.pc = "look"] /\ driver' \in DriverType
          /\ driver'.pc = "look" /\ driver'.next = driver.next /\ driver'.queue = driver.queue
      BY <1>2, <1>3 DEF Drain, Goto, DriverType, Labels
    <2>2. Types' /\ SetUp' /\ Line' /\ Reading'
      BY <1>1, <2>1 DEF IInv, Types, SetUp, Line, Looking, Handling, Reading
    <2>3. Ring'
      BY <1>1, <2>1, RingSame DEF IInv
    <2> QED BY <2>2, <2>3 DEF IInv
  <1>4. CASE driver.next # curr
    <2>1. PICK p \in Page, s \in Nat :
            /\ p = driver.next /\ s = driver.queue[1][2] /\ s >= 1 /\ s <= Size - 2
            /\ driver.queue # <<>>
      BY <1>1, <1>4, Oldest, Sizes
    <2>2. mem[p].next = Past(p, s) /\ mem[p].pages = s /\ Past(p, s) \in Page /\ Past(p, 0) = p
      <3>1. Past(p, 0) = p
        BY PastZero
      <3>2. 0 \in 0 .. s - 1 /\ s \in 0 .. Size - 1
        BY <2>1, Sizes
      <3>3. \A k \in 0 .. s - 1 :
              mem[Past(p, k)] = [frame |-> driver.queue[1][1], part |-> k,
                                 next |-> Past(p, s), pages |-> s]
        BY <1>1, <2>1, Oldest
      <3>4. mem[p] = [frame |-> driver.queue[1][1], part |-> 0, next |-> Past(p, s), pages |-> s]
        BY <3>1, <3>2, <3>3
      <3>5. Past(p, s) \in Page
        BY <1>1, <3>2, PastInRing
      <3> QED BY <3>1, <3>4, <3>5
    <2>3. /\ driver' = [driver EXCEPT !.pc = "copy", !.got = <<>>, !.after = Past(p, s)]
          /\ dma' = p /\ left' = s
      BY <1>4, <2>1, <2>2 DEF Drain, Drive
    <2>4. /\ driver' \in DriverType /\ driver'.pc = "copy" /\ driver'.next = p
          /\ driver'.queue = driver.queue /\ driver'.got = <<>> /\ driver'.after = Past(p, s)
      <3>1. PICK a \in {0} \cup Page : a = Past(p, s)
        BY <2>2
      <3>2. <<>> \in Seq((0 .. MaxFrames) \X Nat) /\ "copy" \in Labels
        BY DEF Labels
      <3>3. driver' = [driver EXCEPT !.pc = "copy", !.got = <<>>, !.after = a]
        BY <2>3, <3>1
      <3> QED BY <1>2, <2>1, <3>1, <3>2, <3>3 DEF DriverType
    <2>5. Types' /\ SetUp' /\ Line'
      BY <1>1, <2>4 DEF IInv, Types, SetUp, Line, Looking, Handling
    <2>6. Ring'
      BY <1>1, <2>1, <2>4, RingSame DEF IInv
    <2>7. Reading'
      <3>1. Copied(0)' = <<>> /\ s - s = 0 /\ s \in 1 .. s
        BY <2>1 DEF Copied
      <3>2. Past(p, s)' = Past(p, s) /\ Past(p, 0)' = Past(p, 0)
        BY <1>1 DEF Past
      <3>3. driver'.queue[1][2] - left' = 0 /\ driver'.queue[1][2] = s
        BY <2>1, <2>3, <2>4
      <3> QED BY <2>1, <2>2, <2>3, <2>4, <3>1, <3>2, <3>3 DEF Reading
    <2> QED BY <2>5, <2>6, <2>7 DEF IInv
  <1> QED BY <1>3, <1>4

(* The driver reads one page: the next part of the oldest frame.               *)
LEMMA CopyKeeps == ASSUME IInv, Copy PROVE IInv'
  <1>1. /\ driver.pc = "copy" /\ first = PageStart
        /\ dma' = IF dma + 1 = PageStop THEN first ELSE dma + 1
        /\ left' = left - 1
        /\ driver' = [driver EXCEPT !.got = Append(@, <<mem[dma].frame, mem[dma].part>>),
                                    !.pc = IF left = 1 THEN "free" ELSE "copy"]
        /\ UNCHANGED <<stop, isr, imr, first, bound, curr, mem, addr, line, irr, timer,
                       learned, frames>>
    BY DEF Copy, At, Drive, IInv, SetUp
  <1>2. driver \in DriverType
    BY DEF IInv, Types
  <1>3. PICK p \in Page, s \in Nat, g \in 0 .. MaxFrames :
          /\ p = driver.next /\ s = driver.queue[1][2] /\ g = driver.queue[1][1]
          /\ driver.queue # <<>> /\ s >= 1 /\ s <= Size - 2
    <2>1. driver.queue # <<>>
      BY <1>1 DEF IInv, Reading
    <2>2. driver.queue[1][1] \in 0 .. MaxFrames
      BY <1>1, <2>1, Oldest, FrameTypes DEF IInv
    <2> QED BY <1>1, <2>1, <2>2, Oldest, Sizes
  <1>4. PICK n \in Nat : /\ n = s - left /\ n < s /\ left = s - n
                         /\ dma = Past(p, n) /\ driver.got = Copied(n)
                         /\ driver.after = Past(p, s)
    <2>1. left \in 1 .. s
      BY <1>1, <1>3 DEF IInv, Reading
    <2>2. s - left \in Nat /\ s - left < s /\ left = s - (s - left)
      BY <2>1
    <2>3. /\ dma = Past(p, s - left) /\ driver.got = Copied(s - left)
          /\ driver.after = Past(p, s)
      BY <1>1, <1>3 DEF IInv, Reading
    <2>4. PICK n \in Nat : n = s - left
      BY <2>2
    <2>5. /\ n = s - left /\ n < s /\ left = s - n
          /\ dma = Past(p, n) /\ driver.got = Copied(n) /\ driver.after = Past(p, s)
      BY <2>1, <2>2, <2>3, <2>4
    <2> QED BY <2>5
  <1>5. /\ n \in 0 .. s - 1 /\ n \in 0 .. Size - 1 /\ Size \in Nat
    <2>1. n < s /\ s <= Size - 2 /\ Size \in Nat
      BY <1>3, <1>4, Sizes
    <2> QED BY <2>1
  <1>6. mem[dma].frame = g /\ mem[dma].part = n /\ dma \in Page
    <2>1. /\ Past(p, n) \in Page
          /\ mem[Past(p, n)] = [frame |-> g, part |-> n, next |-> Past(p, s), pages |-> s]
      BY <1>1, <1>3, <1>5, Oldest
    <2> QED BY <1>4, <2>1
  <1>7. /\ Append(driver.got, <<g, n>>) = Copied(n + 1)
        /\ Append(driver.got, <<g, n>>) \in Seq((0 .. MaxFrames) \X Nat)
    <2> DEFINE old == [k \in 1 .. n |-> <<g, k - 1>>]
               new == [k \in 1 .. n + 1 |-> <<g, k - 1>>]
    <2>1. driver.got = old /\ Copied(n + 1) = new
      BY <1>3, <1>4 DEF Copied
    <2>2. old \in Seq((0 .. MaxFrames) \X Nat) /\ Len(old) = n
      OBVIOUS
    <2>3. new \in Seq((0 .. MaxFrames) \X Nat) /\ Len(new) = n + 1
      OBVIOUS
    <2>4. Append(old, <<g, n>>) = new
      <3>1. Append(old, <<g, n>>) \in Seq((0 .. MaxFrames) \X Nat) /\ Len(Append(old, <<g, n>>)) = n + 1
        BY <2>2
      <3>2. \A k \in 1 .. n + 1 : Append(old, <<g, n>>)[k] = new[k]
        BY <2>2
      <3> HIDE DEF old, new
      <3> QED BY <2>3, <3>1, <3>2
    <2> QED BY <2>1, <2>3, <2>4
  <1>8. /\ driver' = [driver EXCEPT !.got = Copied(n + 1), !.pc = IF n + 1 = s THEN "free" ELSE "copy"]
        /\ driver' \in DriverType
        /\ driver'.pc = (IF n + 1 = s THEN "free" ELSE "copy") /\ driver'.got = Copied(n + 1)
        /\ driver'.next = p /\ driver'.queue = driver.queue /\ driver'.after = Past(p, s)
    <2>1. left = 1 <=> n + 1 = s
      <3>1. left = s - n
        BY <1>4
      <3> QED BY <3>1
    <2>2. PICK got \in Seq((0 .. MaxFrames) \X Nat) :
            got = Append(driver.got, <<mem[dma].frame, mem[dma].part>>) /\ got = Copied(n + 1)
      BY <1>6, <1>7
    <2>3. driver' = [driver EXCEPT !.got = got, !.pc = IF n + 1 = s THEN "free" ELSE "copy"]
      BY <1>1, <2>1, <2>2
    <2>4. (IF n + 1 = s THEN "free" ELSE "copy") \in Labels
      BY DEF Labels
    <2> QED BY <1>2, <1>3, <1>4, <2>2, <2>3, <2>4 DEF DriverType
  <1>9. Types' /\ SetUp' /\ Line'
    BY <1>1, <1>8 DEF IInv, Types, SetUp, Line, Looking, Handling
  <1>10. Ring'
    BY <1>1, <1>3, <1>8, RingSame DEF IInv
  <1>11. Reading'
    <2>1. \A x : Past(p, x)' = Past(p, x)
      BY <1>1 DEF Past
    <2>2. Copied(n + 1)' = Copied(n + 1)
      BY <1>8 DEF Copied
    <2>3. CASE n + 1 = s
      BY <1>3, <1>8, <2>1, <2>2, <2>3 DEF Reading
    <2>4. CASE n + 1 # s
      <3>1. left' = s - (n + 1) /\ left' \in 1 .. s /\ s - left' = n + 1
        <4>1. left = s - n /\ n < s /\ left' = left - 1
          BY <1>1, <1>4
        <4> QED BY <2>4, <4>1
      <3>2. dma' = Past(p, n + 1)
        <4>1. n + 1 < Size /\ n \in Nat /\ 1 \in Nat
          <5>1. n \in Nat /\ s \in Nat /\ n + 1 <= s
            BY <1>3, <1>4
          <5>2. s < Size /\ Size \in Nat
            BY <1>3, Sizes
          <5> QED BY <5>1, <5>2
        <4>2. Past(Past(p, n), 1) = Past(p, n + 1)
          BY <1>1, <4>1, PastAdds
        <4>3. Past(p, n) \in Page
          BY <1>1, <1>5, PastInRing
        <4>4. dma' = Past(Past(p, n), 1)
          BY <1>1, <1>4, <4>3, PastOne
        <4> QED BY <4>2, <4>4
      <3> QED BY <1>3, <1>8, <2>1, <2>2, <2>4, <3>1, <3>2 DEF Reading
    <2> QED BY <2>3, <2>4
  <1> QED BY <1>9, <1>10, <1>11 DEF IInv

(* The driver gives the pages of the oldest frame back.                        *)
LEMMA FreeKeeps == ASSUME IInv, Free PROVE IInv'
  <1>1. /\ driver.pc = "free" /\ first = PageStart
        /\ bound' = IF driver.after = first THEN PageStop - 1 ELSE driver.after - 1
        /\ driver' = [driver EXCEPT !.pc = "drain", !.next = driver.after, !.queue = Tail(@)]
        /\ UNCHANGED <<stop, isr, imr, first, curr, dma, left, mem, addr, line, irr, timer,
                       learned, frames>>
    BY DEF Free, At, Drive, IInv, SetUp
  <1>2. driver \in DriverType
    BY DEF IInv, Types
  <1>3. PICK p \in Page, s \in Nat, q \in Frames :
          /\ p = driver.next /\ q = driver.queue /\ s = q[1][2] /\ q # <<>>
          /\ s >= 1 /\ s <= Size - 2 /\ driver.after = Past(p, s)
    <2>1. driver.queue # <<>> /\ driver.after = Past(driver.next, driver.queue[1][2])
      BY <1>1 DEF IInv, Reading
    <2>2. /\ driver.next \in Page /\ driver.queue \in Frames
          /\ driver.queue[1][2] \in 1 .. Size - 2
      BY <1>1, <1>2, <2>1, Oldest DEF DriverType
    <2>3. PICK s \in Nat : s = driver.queue[1][2] /\ s >= 1 /\ s <= Size - 2
      BY <2>2, Sizes
    <2>4. PICK p \in Page, q \in Frames : p = driver.next /\ q = driver.queue
      BY <2>2
    <2> QED BY <2>1, <2>3, <2>4
  <1>4. PICK m \in Nat : Len(q) = m + 1
    <2>1. Len(q) \in Nat /\ Len(q) # 0
      BY <1>3 DEF Frames
    <2>2. Len(q) - 1 \in Nat /\ Len(q) = (Len(q) - 1) + 1
      BY <2>1
    <2> QED BY <2>2
  <1>5. /\ Tail(q) \in Frames /\ Len(Tail(q)) = m
        /\ \A n \in 1 .. m : Tail(q)[n] = q[n + 1]
    BY <1>3, <1>4 DEF Frames
  <1>6. PICK r \in Page : r = Past(p, s)
    BY <1>1, <1>3, PastInRing, Sizes
  <1>7. /\ driver' \in DriverType /\ driver'.pc = "drain" /\ driver'.next = r
        /\ driver'.queue = Tail(q)
    <2>1. driver' = [driver EXCEPT !.pc = "drain", !.next = r, !.queue = Tail(q)]
      BY <1>1, <1>3, <1>6
    <2> QED BY <1>2, <1>5, <2>1 DEF DriverType, Labels
  <1>8. Types' /\ SetUp' /\ Line' /\ Reading'
    BY <1>1, <1>7 DEF IInv, Types, SetUp, Line, Looking, Handling, Reading
  <1>9. PICK off : RingAt(off)
    BY <1>1, Sizes DEF IInv, Ring
  <1>10. /\ off \in [1 .. m + 2 -> 0 .. Size - 2] /\ off[1] = 0 /\ off[2] = s
         /\ \A n \in 1 .. m + 1 : off[n + 1] = off[n] + q[n][2] /\ q[n][2] \in Nat
         /\ curr = Past(p, off[m + 2])
    <2>1. (m + 1) + 1 = m + 2 /\ 1 \in 1 .. m + 1
      BY <1>4
    <2>2. \A n \in 1 .. m + 1 : q[n][2] \in Nat
      BY <1>3, <1>4, FrameTypes, Sizes DEF IInv
    <2>3. /\ off \in [1 .. m + 2 -> 0 .. Size - 2] /\ off[1] = 0
          /\ \A n \in 1 .. m + 1 : off[n + 1] = off[n] + q[n][2]
          /\ curr = Past(p, off[m + 2])
      BY <1>3, <1>4, <1>9, <2>1 DEF RingAt
    <2>4. off[1 + 1] = off[1] + q[1][2]
      BY <2>1, <2>3
    <2> QED BY <1>3, <2>2, <2>3, <2>4
  <1>11. \A n \in 2 .. m + 2 : off[n] \in Nat /\ s <= off[n] /\ off[n] <= Size - 2
    <2> SUFFICES ASSUME NEW n \in 2 .. m + 2 PROVE off[n] \in Nat /\ s <= off[n] /\ off[n] <= Size - 2
      OBVIOUS
    <2>1. off[n] \in Nat /\ off[n] <= Size - 2
      BY <1>10, Sizes
    <2>2. s <= off[n]
      <3>1. off \in [1 .. m + 2 -> Nat]
        BY <1>10, Sizes
      <3>2. ASSUME NEW k \in 1 .. m + 2, k + 1 <= m + 2 PROVE off[k] <= off[k + 1]
        <4>1. k \in 1 .. m + 1
          BY <3>2
        <4>2. off[k + 1] = off[k] + q[k][2] /\ q[k][2] \in Nat /\ off[k] \in Nat
          BY <1>10, <3>1, <4>1
        <4> QED BY <4>2
      <3>3. PICK N \in Nat : N = m + 2
        OBVIOUS
      <3>4. off \in [1 .. N -> Nat] /\ \A k \in 1 .. N : k + 1 <= N => off[k] <= off[k + 1]
        BY <3>1, <3>2, <3>3
      <3>5. \A i, j \in 1 .. N : i <= j => off[i] <= off[j]
        BY <3>4, OffMonotone
      <3>6. 2 \in 1 .. N /\ n \in 1 .. N /\ 2 <= n
        BY <3>3
      <3> QED BY <1>10, <3>5, <3>6
    <2> QED BY <2>1, <2>2
  <1>12. PICK ofn \in [1 .. m + 1 -> 0 .. Size - 2] : \A n \in 1 .. m + 1 : ofn[n] = off[n + 1] - s
    <2> DEFINE all == [n \in 1 .. m + 1 |-> off[n + 1] - s]
    <2>1. \A n \in 1 .. m + 1 : off[n + 1] - s \in 0 .. Size - 2
      BY <1>11, Sizes
    <2>2. all \in [1 .. m + 1 -> 0 .. Size - 2] /\ \A n \in 1 .. m + 1 : all[n] = off[n + 1] - s
      BY <2>1
    <2> QED BY <2>2
  <1>13. \A x \in Nat : s <= x /\ x <= Size - 2 => Past(r, x - s) = Past(p, x)
    <2> SUFFICES ASSUME NEW x \in Nat, s <= x, x <= Size - 2 PROVE Past(r, x - s) = Past(p, x)
      OBVIOUS
    <2>1. x - s \in Nat /\ s + (x - s) = x /\ s + (x - s) < Size
      BY Sizes
    <2> QED BY <1>1, <1>6, <2>1, PastAdds
  <1>14. \A x : Past(r, x)' = Past(r, x)
    BY <1>1 DEF Past
  <1>15. RingAt(ofn)'
    <2>1. ofn[1] = 0
      BY <1>10, <1>12
    <2>2. \A n \in 1 .. m : ofn[n + 1] = ofn[n] + Tail(q)[n][2]
      <3> TAKE n \in 1 .. m
      <3>1. n \in 1 .. m + 1 /\ n + 1 \in 1 .. m + 1 /\ n + 1 \in 2 .. m + 2
        OBVIOUS
      <3>2. /\ off[(n + 1) + 1] = off[n + 1] + q[n + 1][2] /\ q[n + 1][2] \in Nat
            /\ off[n + 1] \in Nat
        BY <1>10, <1>11, <3>1
      <3>3. ofn[n + 1] = off[(n + 1) + 1] - s /\ ofn[n] = off[n + 1] - s
        BY <1>12, <3>1
      <3>4. \A x, y \in Nat : (x + y) - s = (x - s) + y
        BY <1>3
      <3>5. Tail(q)[n][2] = q[n + 1][2]
        BY <1>5
      <3> QED BY <3>2, <3>3, <3>4, <3>5
    <2>3. curr' = Past(r, ofn[m + 1])'
      <3>1. ofn[m + 1] = off[m + 2] - s /\ m + 2 \in 2 .. m + 2
        BY <1>12
      <3>2. Past(r, ofn[m + 1]) = Past(p, off[m + 2])
        BY <1>11, <1>13, <3>1
      <3> QED BY <1>1, <1>10, <1>14, <3>2
    <2>4. \A n \in 1 .. m : \A k \in 0 .. Tail(q)[n][2] - 1 :
             mem'[Past(r, ofn[n] + k)] =
               [frame |-> Tail(q)[n][1], part |-> k, next |-> Past(r, ofn[n + 1]),
                pages |-> Tail(q)[n][2]]
      <3> SUFFICES ASSUME NEW n \in 1 .. m, NEW k \in 0 .. Tail(q)[n][2] - 1
                   PROVE  mem[Past(r, ofn[n] + k)] =
                            [frame |-> Tail(q)[n][1], part |-> k, next |-> Past(r, ofn[n + 1]),
                             pages |-> Tail(q)[n][2]]
        BY <1>1
      <3>1. n + 1 \in 1 .. m + 1 /\ n \in 1 .. m + 1 /\ n + 1 \in 2 .. m + 2
            /\ (n + 1) + 1 \in 2 .. m + 2 /\ Tail(q)[n] = q[n + 1]
        BY <1>5
      <3>2. mem[Past(p, off[n + 1] + k)] =
              [frame |-> q[n + 1][1], part |-> k, next |-> Past(p, off[(n + 1) + 1]),
               pages |-> q[n + 1][2]]
        BY <1>3, <1>4, <1>9, <3>1 DEF RingAt
      <3>3. /\ off[(n + 1) + 1] = off[n + 1] + q[n + 1][2] /\ q[n + 1][2] \in Nat
            /\ off[n + 1] \in Nat /\ s <= off[n + 1]
            /\ off[(n + 1) + 1] \in Nat /\ off[(n + 1) + 1] <= Size - 2
            /\ k \in Nat /\ k < q[n + 1][2]
        <4>1. k \in 0 .. q[n + 1][2] - 1 /\ q[n + 1][2] \in Nat
          BY <1>10, <3>1
        <4>2. k \in Nat /\ k < q[n + 1][2]
          BY <4>1
        <4> QED BY <1>10, <1>11, <3>1, <4>1, <4>2
      <3>4. ofn[n] = off[n + 1] - s /\ ofn[n + 1] = off[(n + 1) + 1] - s
        BY <1>12, <3>1
      <3>5. ofn[n] + k = (off[n + 1] + k) - s /\ off[n + 1] + k \in Nat
            /\ s <= off[n + 1] + k /\ off[n + 1] + k <= Size - 2 /\ s <= off[(n + 1) + 1]
        <4>1. PICK x \in Nat, y \in Nat, z \in Nat :
                x = off[n + 1] /\ y = q[n + 1][2] /\ z = off[(n + 1) + 1]
          BY <3>3
        <4>2. z = x + y /\ s <= x /\ z <= Size - 2 /\ k < y /\ ofn[n] = x - s /\ k \in Nat
          BY <3>3, <3>4, <4>1
        <4>3. /\ (x - s) + k = (x + k) - s /\ x + k \in Nat
              /\ s <= x + k /\ x + k <= Size - 2 /\ s <= z
          BY <4>2, Sizes
        <4> QED BY <4>1, <4>2, <4>3
      <3>6. Past(r, ofn[n] + k) = Past(p, off[n + 1] + k)
        BY <1>13, <3>5
      <3>7. Past(r, ofn[n + 1]) = Past(p, off[(n + 1) + 1])
        BY <1>13, <3>3, <3>4, <3>5
      <3> QED BY <3>1, <3>2, <3>6, <3>7
    <2> QED BY <1>5, <1>7, <1>12, <1>14, <2>1, <2>2, <2>3, <2>4 DEF RingAt
  <1>16. bound' \in Page /\ Past(bound, 1)' = r
    <2>1. r \in Nat /\ PageStart <= r /\ r < PageStop /\ driver.after = r
      BY <1>3, <1>6, Sizes
    <2>2. PICK b \in Page : b = bound' /\ r = IF b + 1 = PageStop THEN PageStart ELSE b + 1
      <3>1. PageStart \in Nat /\ PageStop \in Nat /\ PageStart < PageStop
        BY Sizes DEF Size
      <3>2. CASE r = PageStart
        <4>1. bound' = PageStop - 1 /\ (PageStop - 1) + 1 = PageStop /\ PageStop - 1 \in Page
          BY <1>1, <2>1, <3>1, <3>2, Sizes
        <4> QED BY <3>2, <4>1
      <3>3. CASE r # PageStart
        <4>1. bound' = r - 1 /\ (r - 1) + 1 = r /\ r - 1 \in Page /\ r # PageStop
          BY <1>1, <2>1, <3>1, <3>3, Sizes
        <4> QED BY <4>1
      <3> QED BY <3>2, <3>3
    <2>3. Past(b, 1) = r
      BY <1>1, <2>2, PastOne
    <2>4. Past(bound, 1)' = Past(b, 1)
      BY <1>1, <2>2 DEF Past
    <2> QED BY <2>2, <2>3, <2>4
  <1>17. Ring'
    BY <1>1, <1>7, <1>15, <1>16, Sizes DEF Ring, IInv
  <1> QED BY <1>8, <1>17 DEF IInv

-------------------------------------------------------------------------------
(* Every step keeps the invariant.                                             *)
LEMMA StepKeeps == IInv /\ [Next]_vars => IInv'
  <1> SUFFICES ASSUME IInv, [Next]_vars PROVE IInv'
    OBVIOUS
  <1>1. CASE UNCHANGED vars
    <2>1. Types' /\ SetUp' /\ Line'
      BY <1>1 DEF IInv, Types, SetUp, Line, Looking, Handling, vars, card
    <2>2. Ring'
      BY <1>1, RingSame DEF IInv, vars, card
    <2>3. Reading'
      BY <1>1 DEF IInv, Reading, Copied, Past, vars, card
    <2> QED BY <2>1, <2>2, <2>3 DEF IInv
  <1>2. CASE Driver
    BY <1>2, ControlKeeps, LookKeeps, SetupKeeps, DrainKeeps, CopyKeeps, FreeKeeps DEF Driver
  <1>3. CASE Arrive \/ TxTimer \/ Reset \/ Send
    BY <1>3, ArriveKeeps, TxTimerKeeps, ControlKeeps
  <1> QED BY <1>1, <1>2, <1>3 DEF Next, Quiet

(* The inductive invariant holds in every state.                               *)
THEOREM NicInvariance == Spec => []IInv
  BY InitOK, StepKeeps, PTL DEF Spec

(* RingOK counts the pages before the n-th frame, frame by frame.              *)
LEMMA Counts ==
  ASSUME Types, NEW n \in 1 .. Len(driver.queue)
  PROVE  Cardinality(Before(n + 1)) = Cardinality(Before(n)) + driver.queue[n][2]
  <1>1. PICK s \in Nat : s = driver.queue[n][2] /\ s >= 1 /\ s <= PageStop
    BY FrameTypes, Sizes
  <1>2. n \in Nat /\ n >= 1
    BY DEF Types, DriverType, Frames
  <1> DEFINE new == {n} \X (1 .. s)
  <1>3. Before(n + 1) = Before(n) \cup new
    <2>1. (n + 1) - 1 = n /\ \A k \in 1 .. n : k = n \/ k \in 1 .. n - 1
      BY <1>2
    <2>2. \A p : p \in 1 .. PageStop /\ p <= s <=> p \in 1 .. s
      BY <1>1, Sizes
    <2>3. ASSUME NEW w \in Before(n + 1) PROVE w \in Before(n) \cup new
      <3>1. /\ w \in (1 .. n) \X (1 .. PageStop) /\ w[2] <= driver.queue[w[1]][2]
            /\ w = <<w[1], w[2]>> /\ w[1] \in 1 .. n /\ w[2] \in 1 .. PageStop
        BY <2>1 DEF Before
      <3>2. CASE w[1] = n
        <4>1. w[2] \in 1 .. s
          BY <1>1, <2>2, <3>1, <3>2
        <4> QED BY <3>1, <3>2, <4>1
      <3>3. CASE w[1] # n
        <4>1. w[1] \in 1 .. n - 1
          BY <2>1, <3>1, <3>3
        <4> QED BY <3>1, <4>1 DEF Before
      <3> QED BY <3>2, <3>3
    <2>4. Before(n) \subseteq Before(n + 1)
      BY <1>2, <2>1 DEF Before
    <2>5. ASSUME NEW w \in new PROVE w \in Before(n + 1)
      <3>1. w = <<n, w[2]>> /\ w[2] \in 1 .. PageStop /\ w[2] <= s /\ w[1] = n
        BY <2>2
      <3>2. n \in 1 .. (n + 1) - 1
        BY <1>2
      <3>3. w \in (1 .. (n + 1) - 1) \X (1 .. PageStop)
        BY <3>1, <3>2
      <3> QED BY <1>1, <3>1, <3>3 DEF Before
    <2> QED BY <2>3, <2>4, <2>5
  <1>4. Before(n) \cap new = {}
    <2>1. n \notin 1 .. n - 1
      BY <1>2
    <2> QED BY <2>1 DEF Before
  <1>5. IsFiniteSet(Before(n)) /\ Cardinality(Before(n)) \in Nat
    <2>1. IsFiniteSet((1 .. n - 1) \X (1 .. PageStop))
      <3>1. IsFiniteSet(1 .. n - 1) /\ IsFiniteSet(1 .. PageStop)
        BY <1>2, FS_Interval, Sizes
      <3> QED BY <3>1, FS_Product
    <2>2. IsFiniteSet(Before(n))
      BY <2>1, FS_Subset DEF Before
    <2> QED BY <2>2, FS_CardinalityType
  <1>6. IsFiniteSet(new) /\ Cardinality(new) = s
    <2>1. IsFiniteSet(1 .. s) /\ Cardinality(1 .. s) = s
      <3>1. 1 \in Int /\ s \in Int /\ ~(1 > s) /\ s - 1 + 1 = s
        BY <1>1
      <3>2. IsFiniteSet(1 .. s)
        BY <3>1, FS_Interval
      <3>3. Cardinality(1 .. s) = IF 1 > s THEN 0 ELSE s - 1 + 1
        BY <3>1, FS_Interval
      <3> QED BY <3>1, <3>2, <3>3
    <2>2. IsFiniteSet({n}) /\ Cardinality({n}) = 1
      BY FS_Singleton
    <2>3. IsFiniteSet(new) /\ Cardinality(new) = Cardinality({n}) * Cardinality(1 .. s)
      BY <2>1, <2>2, FS_Product
    <2>4. Cardinality(new) = 1 * s
      BY <2>1, <2>2, <2>3
    <2> QED BY <1>1, <2>3, <2>4
  <1> HIDE DEF new
  <1>7. Cardinality(Before(n) \cap new) = 0
    BY <1>4, FS_EmptySet
  <1>8. Cardinality(Before(n) \cup new) = Cardinality(Before(n)) + Cardinality(new) - 0
    BY <1>5, <1>6, <1>7, FS_Union
  <1>9. PICK c \in Nat : c = Cardinality(Before(n))
    BY <1>5
  <1>10. Cardinality(Before(n + 1)) = c + s - 0
    BY <1>3, <1>6, <1>8, <1>9
  <1>11. c + s - 0 = c + s
    BY <1>1, <1>9
  <1> QED BY <1>1, <1>9, <1>10, <1>11

(* The page of the n-th frame is as far along the ring as the frames before it *)
(* are long.                                                                   *)
LEMMA PlaceIs ==
  ASSUME Types, NEW off, RingAt(off)
  PROVE  \A n \in 1 .. Len(driver.queue) + 1 : Place(n) = Past(driver.next, off[n])
  <1>1. PICK N \in Nat : N = Len(driver.queue)
    BY DEF Types, DriverType, Frames
  <1> DEFINE T == {n \in 1 .. N + 1 : Cardinality(Before(n)) # off[n]}
  <1>2. ASSUME T # {} PROVE FALSE
    <2>1. T \subseteq Nat
      OBVIOUS
    <2>2. PICK n \in T : \A m \in T : n <= m
      BY <1>2, <2>1, SmallestMember
    <2>3. n \in 1 .. N + 1 /\ Cardinality(Before(n)) # off[n]
      OBVIOUS
    <2>4. CASE n = 1
      <3>1. 1 .. n - 1 = {}
        BY <2>4
      <3>2. Before(n) = {}
        BY <3>1 DEF Before
      <3> QED BY <2>3, <2>4, <3>2, FS_EmptySet DEF RingAt
    <2>5. CASE n # 1
      <3>1. n - 1 \in 1 .. N + 1 /\ n - 1 \in 1 .. N /\ (n - 1) + 1 = n /\ ~(n <= n - 1)
        BY <2>3, <2>5
      <3>2. Cardinality(Before(n - 1)) = off[n - 1]
        BY <2>2, <3>1
      <3>3. Cardinality(Before((n - 1) + 1)) = Cardinality(Before(n - 1)) + driver.queue[n - 1][2]
        BY <1>1, <3>1, Counts
      <3>4. off[(n - 1) + 1] = off[n - 1] + driver.queue[n - 1][2]
        BY <1>1, <3>1 DEF RingAt
      <3> QED BY <2>3, <3>1, <3>2, <3>3, <3>4
    <2> QED BY <2>4, <2>5
  <1> QED BY <1>1, <1>2 DEF Place

(* The ring keeps what it has taken: whatever arrives, however the ring wraps  *)
(* and whatever the driver does, the frames not read yet lie one behind the    *)
(* other, whole, and each header leads to the next (ne2k.cc:1302-1423).        *)
THEOREM RingKeepsFrames == Spec => []RingOK
  <1>1. IInv => RingOK
    <2> SUFFICES ASSUME IInv PROVE RingOK
      OBVIOUS
    <2>1. Types
      BY DEF IInv
    <2>2. TypeOK
      <3>1. driver.queue \in Seq(Nat \X Nat)
        <4>1. driver.queue \in Frames
          BY <2>1 DEF Types, DriverType
        <4>2. (0 .. MaxFrames) \X (1 .. PageStop) \subseteq Nat \X Nat
          BY Sizes
        <4> QED BY <4>1, <4>2 DEF Frames
      <3> QED BY <2>1, <3>1 DEF TypeOK, Types, Events, Header, IInv, Ring
    <2> SUFFICES ASSUME first # 0
                 PROVE  /\ Place(Len(driver.queue) + 1) = curr
                        /\ \A n \in 1 .. Len(driver.queue) :
                             /\ mem[Place(n)].next = Place(n + 1)
                             /\ mem[Place(n)].pages = driver.queue[n][2]
                             /\ \A k \in 0 .. driver.queue[n][2] - 1 :
                                  /\ mem[Past(Place(n), k)].frame = driver.queue[n][1]
                                  /\ mem[Past(Place(n), k)].part = k
      BY <2>2 DEF RingOK
    <2>3. PICK off : RingAt(off)
      BY DEF IInv, Ring
    <2>4. PICK N \in Nat : N = Len(driver.queue)
      BY <2>1 DEF Types, DriverType, Frames
    <2>5. PICK p \in Page : p = driver.next /\ first = PageStart
      BY <2>1 DEF IInv, Ring, Types
    <2>6. \A n \in 1 .. N + 1 : Place(n) = Past(p, off[n])
      BY <2>1, <2>3, <2>4, <2>5, PlaceIs
    <2>7. /\ off \in [1 .. N + 1 -> 0 .. Size - 2] /\ curr = Past(p, off[N + 1])
          /\ \A n \in 1 .. N : off[n + 1] = off[n] + driver.queue[n][2]
          /\ \A n \in 1 .. N : \A k \in 0 .. driver.queue[n][2] - 1 :
               mem[Past(p, off[n] + k)] =
                 [frame |-> driver.queue[n][1], part |-> k, next |-> Past(p, off[n + 1]),
                  pages |-> driver.queue[n][2]]
      BY <2>3, <2>4, <2>5 DEF RingAt
    <2>8. ASSUME NEW n \in 1 .. N
          PROVE  /\ mem[Place(n)].next = Place(n + 1)
                 /\ mem[Place(n)].pages = driver.queue[n][2]
                 /\ \A k \in 0 .. driver.queue[n][2] - 1 :
                      /\ mem[Past(Place(n), k)].frame = driver.queue[n][1]
                      /\ mem[Past(Place(n), k)].part = k
      <3>1. PICK a \in Nat, s \in Nat :
              a = off[n] /\ s = driver.queue[n][2] /\ s >= 1 /\ a + s = off[n + 1]
              /\ a + s <= Size - 2
        <4>1. n \in 1 .. N + 1 /\ n + 1 \in 1 .. N + 1
          OBVIOUS
        <4>2. off[n] \in 0 .. Size - 2 /\ off[n + 1] \in 0 .. Size - 2
          BY <2>7, <4>1
        <4>3. driver.queue[n][2] \in 1 .. PageStop
          BY <2>1, <2>4, FrameTypes
        <4>4. PICK a \in Nat, s \in Nat : a = off[n] /\ s = driver.queue[n][2] /\ s >= 1
          BY <4>2, <4>3, Sizes
        <4>5. a + s = off[n + 1] /\ a + s <= Size - 2
          BY <2>7, <4>2, <4>4
        <4> QED BY <4>4, <4>5
      <3>2. Place(n) = Past(p, a) /\ Place(n + 1) = Past(p, a + s)
        BY <2>6, <3>1
      <3>3. \A k \in 0 .. s - 1 :
              mem[Past(p, a + k)] = [frame |-> driver.queue[n][1], part |-> k,
                                     next |-> Past(p, a + s), pages |-> s]
        BY <2>7, <3>1
      <3>4. \A k \in 0 .. s - 1 : Past(Past(p, a), k) = Past(p, a + k)
        <4> TAKE k \in 0 .. s - 1
        <4>1. k \in Nat /\ a + k < Size
          BY <3>1, Sizes
        <4> QED BY <2>5, <4>1, PastAdds
      <3>5. 0 \in 0 .. s - 1 /\ a + 0 = a
        BY <3>1
      <3>6. PICK z \in 0 .. s - 1 : z = 0 /\ a + z = a
        BY <3>5
      <3>7. mem[Past(p, a + z)] = [frame |-> driver.queue[n][1], part |-> z,
                                   next |-> Past(p, a + s), pages |-> s]
        BY <3>3
      <3>8. mem[Place(n)].next = Place(n + 1)
        BY <3>2, <3>6, <3>7
      <3>9. mem[Place(n)].pages = driver.queue[n][2]
        BY <3>1, <3>2, <3>6, <3>7
      <3>10. ASSUME NEW k \in 0 .. driver.queue[n][2] - 1
             PROVE  /\ mem[Past(Place(n), k)].frame = driver.queue[n][1]
                    /\ mem[Past(Place(n), k)].part = k
        <4>1. k \in 0 .. s - 1
          BY <3>1
        <4>2. Past(Place(n), k) = Past(p, a + k)
          BY <3>2, <3>4, <4>1
        <4>3. mem[Past(p, a + k)] = [frame |-> driver.queue[n][1], part |-> k,
                                     next |-> Past(p, a + s), pages |-> s]
          BY <3>3, <4>1
        <4> QED BY <4>2, <4>3
      <3> QED BY <3>8, <3>9, <3>10
    <2> QED BY <2>4, <2>6, <2>7, <2>8
  <1> QED BY <1>1, NicInvariance, PTL

(* What the driver copies page by page is the oldest frame from its first page *)
(* to its last, whatever arrives in between (ne2k.cc:444-492).                 *)
THEOREM FramesWhole == Spec => []WholeFrames
  <1>1. IInv => WholeFrames
    BY DEF IInv, Reading, Copied, WholeFrames, At
  <1> QED BY <1>1, NicInvariance, PTL

(* An unmasked event never stays without its interrupt, at a controller that   *)
(* sees edges only (ne2k.cc:718-744, 836-861, pic.cc:620-664).                 *)
THEOREM NeverUntold == Spec => []Interrupted
  <1>1. IInv => Interrupted
    BY DEF IInv, Line, Looking, Handling, At, Interrupted
  <1> QED BY <1>1, NicInvariance, PTL
===============================================================================
