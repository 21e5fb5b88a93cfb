--------------------------- MODULE UsbSerialProofs ---------------------------
(***************************************************************************)
(* The USB serial port, proved for buffers and packets of any size that    *)
(* the assumption allows and for any number of bytes.                      *)
(***************************************************************************)
EXTENDS UsbSerial, SequenceTheorems, WellFoundedInduction, TLAPS

---------------------------------------------------------------------------
(* The inductive invariant *)

Buffer(n, Byte) == [write : 0 .. n - 1, read : 0 .. n, size : {n}, buf : [0 .. n -> Byte]]

\* Where usbisr is, in either context, and where the thread is
UsbPlace == {"idle", "ep0", "ack", "count", "test", "end", "read", "copy",
             "dequeue", "step", "wrap", "sent", "disable", "disabled"}
IsrPlace == {"idle", "ep0", "ack", "test", "end"}
ThPlace  == {"idle", "ensure", "poll", "queue", "flush", "wait", "dequeue", "store",
             "copy", "mod", "wrap", "room", "long", "skip", "enable", "line", "count"}

Flags   == [attached : BOOLEAN, flush_to_nl : BOOLEAN]
Context == [at : UsbPlace, ep : Ends, fe : {0, 1, 255}, load : Nat,
            en : SUBSET Ends, n : Nat, b : Seq(Nat)]
ThState == [at : ThPlace, n : Nat, load : Nat \cup Flags, c : RxByte]

isr == usb["isr"]

Types ==
    /\ tx \in Buffer(TxSize, 0 .. MaxTx) /\ rx \in Buffer(RxSize, RxByte)
    /\ nl_in_rx \in Nat /\ flags \in Flags
    /\ intSt \in SUBSET Ends /\ intEn \in SUBSET Ends
    /\ slow \in BOOLEAN /\ irqOn \in BOOLEAN
    /\ can_transfer \in [out : 0 .. 2, in : 0 .. 2]
    /\ fifo \in [out : Seq(Seq(RxByte)), in : Seq(Seq(Nat))]
    /\ Len(fifo.out) <= 2 /\ Len(fifo.in) <= 2
    /\ usb \in [Ctx -> Context] /\ isr.at \in IsrPlace
    /\ th \in ThState
    /\ host \in Seq(Nat) /\ accepted \in 0 .. MaxTx /\ arrived \in 0 .. MaxRx
    /\ got \in Nat
    /\ reentered \in BOOLEAN /\ torn \in BOOLEAN /\ dropped \in BOOLEAN

\* The thread's usbisr runs while it waits for room, and nothing interrupts it
\* as long as reentered does not say so
Control ==
    /\ me.at # "idle" => th.at = "ensure"
    /\ me.at # "idle" /\ ~ reentered => isr.at = "idle"
    /\ me.at \in {"read", "copy"} => me.ep = "out"
    /\ me.at \in {"dequeue", "step", "wrap", "sent"} => me.ep = "in"
    /\ \A c \in Ctx : usb[c].at = "ack" => usb[c].fe = 255

---------------------------------------------------------------------------
(* To the host *)

\* A writer has found room for what it is about to queue
WriterHasRoom ==
    /\ th.at \in {"ensure", "poll"} => th.n = 1
    /\ th.at \in {"ensure", "poll", "queue"} => accepted + th.n <= MaxTx
    /\ th.at = "queue" => th.n <= free(tx)
    /\ dropped => reentered

\* The thread's own handler takes bytes that are there
InHand ==
    /\ tx.read = TxSize => me.at = "wrap"
    /\ me.at = "step" => me.n > 0 /\ me.load \in 0 .. TxSize - 1
    /\ me.at = "wrap" => me.n > 0
    /\ me.b # << >> => me.at \in {"dequeue", "step", "wrap"}
    /\ me.at \in {"dequeue", "step"} => Len(me.b) + me.n < Packet
    /\ me.at = "wrap" => Len(me.b) + me.n <= Packet
    /\ ~ reentered =>
          /\ me.at = "dequeue" => me.n <= available(tx)
          /\ me.at = "step" => me.n <= available(tx) /\ me.load = tx.read
          /\ me.at = "wrap" => me.n <= available(tx) + 1

\* A handler that has found room in the controller still finds it
RoomInController ==
    /\ isr.at = "test" /\ isr.ep = "in" /\ isr.fe = 0 => Len(fifo.in) < 2
    /\ ~ reentered =>
          /\ me.at \in {"count", "test"} /\ me.ep = "in" /\ me.fe = 0 => Len(fifo.in) < 2
          /\ me.at \in {"dequeue", "step", "wrap"} => Len(fifo.in) < 2

\* There is a credit to send with, or there will be
Credit ==
    /\ me.at = "count" => me.load \in 1 .. 2
    /\ isr.at = "test" /\ isr.ep = "in" /\ isr.fe = 1 => fifo.in # << >> \/ "in" \in intSt
    /\ ~ reentered =>
          \/ can_transfer.in > 0 \/ fifo.in # << >> \/ "in" \in intSt
          \/ me.at = "count" /\ me.ep = "in"

\* TxNotStranded without EP_SLOW and irqOn, while the handler runs as well
NotStranded ==
    ~ reentered /\ ~ isEmpty(tx) /\ th.at \notin {"queue", "poll", "ensure"} =>
        /\ "in" \in intEn
        /\ "in" \in intSt \/ fifo.in # << >> \/ (isr.at = "test" /\ isr.ep = "in")

TxInv == WriterHasRoom /\ InHand /\ RoomInController /\ Credit /\ NotStranded /\ TxExact

---------------------------------------------------------------------------
(* From the host *)

\* How many bytes of the host's the controller still has, and how many it had
\* before
Pending(f) == IF f = << >> THEN 0
              ELSE IF Len(f) = 1 THEN Len(f[1]) ELSE Len(f[1]) + Len(f[2])
Taken == arrived - Pending(fifo.out)

Numbered(p, n) == Len(p) \in 1 .. Packet /\ \A i \in 1 .. Len(p) : p[i].id = n + i

Arriving ==
    /\ Pending(fifo.out) <= arrived
    /\ fifo.out # << >> => Numbered(fifo.out[1], Taken)
    /\ Len(fifo.out) = 2 => Numbered(fifo.out[2], Taken + Len(fifo.out[1]))
    /\ isr.at = "test" /\ isr.ep = "out" /\ isr.fe = 1 => fifo.out # << >>

\* No more lines than bytes
Lines ==
    /\ nl_in_rx <= Taken
    /\ th.at = "count" => th.load \in Nat \ {0} /\ th.load <= Taken

\* The reader's index
ReadIndex ==
    /\ rx.read = RxSize => th.at \in {"copy", "mod", "wrap"}
    /\ th.at \in {"store", "copy"} => th.load \in 0 .. RxSize - 1
    /\ th.at = "wrap" => th.load \in 0 .. RxSize
    /\ th.at = "skip" => th.load \in Flags
    /\ ~ torn => /\ th.at = "store" => ~ isEmpty(rx)
                 /\ th.at \in {"store", "wrap"} => th.load = rx.read
                 /\ th.at = "copy" => th.load = rx.read - 1

\* The bytes of rxbuf are numbered upwards, between lo and hi
Cell(c, i) == c.buf[(c.read + i) % c.size]
Ascending(c, lo, hi) ==
    /\ \A i \in 0 .. available(c) - 1 : lo < Cell(c, i).id /\ Cell(c, i).id <= hi
    /\ \A i, j \in 0 .. available(c) - 1 : i < j => Cell(c, i).id < Cell(c, j).id

\* The last byte out of rxbuf
LastOut == IF th.at = "copy" THEN rx.buf[th.load].id ELSE got

Order == ~ torn => /\ got <= Taken /\ LastOut <= Taken /\ Ascending(rx, LastOut, Taken)
                   /\ th.at = "copy" => got < LastOut

\* While the OUT handler is off
OutOff ==
    /\ RxReenabled
    /\ ~ torn /\ "out" \notin intEn /\ th.at \in {"copy", "mod", "wrap", "room"}
          => free(rx) <= Packet
    /\ me.at \in {"disable", "disabled"} /\ me.ep = "out" => free(rx) < Packet
    /\ me.at = "disabled" /\ "out" \in intEn => "out" \in me.en
    /\ ~ reentered /\ me.at \in {"read", "copy"} => free(rx) >= Packet

RxInv == Arriving /\ Lines /\ ReadIndex /\ Order /\ OutOff

IInv == Types /\ Control /\ TxInv /\ RxInv

---------------------------------------------------------------------------
(* CircBuffer *)

\* Quotient and remainder are unique
LEMMA Remainder ==
    ASSUME NEW n \in Nat \ {0}, NEW q \in Int, NEW r \in 0 .. n - 1,
           NEW a \in Int, a = n * q + r
    PROVE  a % n = r
OBVIOUS

\* A remainder leaves a small number as it is
LEMMA Small ==
    ASSUME NEW n \in Nat \ {0}, NEW a \in 0 .. n - 1
    PROVE  a % n = a
<1>1. a = n * 0 + a
  OBVIOUS
<1> QED
  BY <1>1, Remainder

\* One turn of an index
LEMMA Turn ==
    ASSUME NEW n \in Nat, n > 1, NEW a \in 0 .. 2 * n - 1
    PROVE  a % n = IF a < n THEN a ELSE a - n
<1>1. CASE a < n
  <2>1. a \in 0 .. n - 1 /\ a = n * 0 + a
    BY <1>1
  <2> QED
    BY <1>1, <2>1, Remainder
<1>2. CASE a >= n
  <2>1. a - n \in 0 .. n - 1 /\ a = n * 1 + (a - n)
    BY <1>2
  <2> QED
    BY <1>2, <2>1, Remainder
<1> QED
  BY <1>1, <1>2

\* One before a multiple
LEMMA BeforeMultiple ==
    ASSUME NEW n \in Nat \ {0}, NEW q \in Nat, NEW m, m = n * q
    PROVE  (m - 1) % n = n - 1
<1>1. n * (q - 1) = n * q - n
  OBVIOUS
<1>2. m - 1 = n * (q - 1) + (n - 1)
  <2> DEFINE x == n * q  y == n * (q - 1)
  <2>1. x \in Int /\ y = x - n /\ m = x
    BY <1>1
  <2> HIDE DEF x, y
  <2>2. m - 1 = y + (n - 1)
    BY ONLY <2>1, n \in Nat
  <2> QED
    BY <2>2 DEF y
<1> DEFINE k == q - 1  r == n - 1  a == m - 1
<1>3. k \in Int /\ r \in 0 .. n - 1 /\ a \in Int /\ a = n * k + r
  BY <1>2
<1> HIDE DEF k, r, a
<1>4. a % n = r
  BY ONLY <1>3, n \in Nat \ {0}, Remainder
<1> QED
  BY <1>4 DEF r, a

\* A step back over the wrap of a range the size divides
LEMMA StepBack ==
    ASSUME NEW n \in Nat, n > 1, NEW m \in Nat \ {0}, m % n = 0, NEW w \in 0 .. n - 1
    PROVE  ((w + m - 1) % m) % n = IF w = 0 THEN n - 1 ELSE w - 1
<1>1. PICK q \in Nat : m = n * q
  <2>1. m \div n \in Nat /\ m = n * (m \div n) + (m % n)
    OBVIOUS
  <2> QED
    BY <2>1
<1>2. n <= m
  <2>1. CASE n > m
    <3>1. m \in 0 .. n - 1 /\ m = n * 0 + m
      BY <2>1
    <3>2. m % n = m
      BY <3>1, Remainder
    <3> QED
      BY <3>2
  <2> QED
    BY <2>1
<1>3. CASE w = 0
  <2>1. w + m - 1 = m - 1 /\ m - 1 \in 0 .. m - 1
    BY <1>3
  <2>2. (m - 1) % m = m - 1
    BY <2>1, Small
  <2>3. (m - 1) % n = n - 1
    BY <1>1, BeforeMultiple
  <2> QED
    BY <1>3, <2>1, <2>2, <2>3
<1>4. CASE w > 0
  <2>1. w - 1 \in 0 .. m - 1 /\ w - 1 \in 0 .. n - 1 /\ w + m - 1 \in Int
    BY <1>2, <1>4
  <2>2. (w + m - 1) % m = w - 1
    <3>1. w + m - 1 = m * 1 + (w - 1)
      OBVIOUS
    <3> QED
      BY <2>1, <3>1, Remainder
  <2>3. (w - 1) % n = w - 1
    BY <2>1, Small
  <2> QED
    BY <1>4, <2>2, <2>3
<1> QED
  BY <1>3, <1>4

\* What a buffer is, field by field
LEMMA BufferIs ==
    ASSUME NEW n \in Nat, n > 1, NEW Byte, NEW c \in Buffer(n, Byte)
    PROVE  /\ c = [write |-> c.write, read |-> c.read, size |-> c.size, buf |-> c.buf]
           /\ c.size = n /\ c.write \in 0 .. n - 1 /\ c.read \in 0 .. n
           /\ c.buf \in [0 .. n -> Byte]
BY DEF Buffer

\* ... and of which fields it is made
LEMMA BufferOf ==
    ASSUME NEW n \in Nat, n > 1, NEW Byte, NEW w \in 0 .. n - 1, NEW r \in 0 .. n,
           NEW b \in [0 .. n -> Byte], NEW c,
           c = [write |-> w, read |-> r, size |-> n, buf |-> b]
    PROVE  /\ c \in Buffer(n, Byte)
           /\ c.write = w /\ c.read = r /\ c.size = n /\ c.buf = b
BY DEF Buffer

\* How many bytes there are, and how much room; with an index past the end
\* only what has been written since the wrap counts
LEMMA Counts ==
    ASSUME NEW n \in Nat, n > 1, NEW Byte, NEW c \in Buffer(n, Byte)
    PROVE  /\ available(c) \in 0 .. n - 1
           /\ free(c) = n - 1 - available(c)
           /\ free(c) \in 0 .. n - 1
           /\ available(c) = IF c.read = n THEN c.write
                             ELSE IF c.write >= c.read THEN c.write - c.read
                             ELSE (n - c.read) + c.write
           /\ isEmpty(c) \in BOOLEAN /\ isFull(c) \in BOOLEAN
           /\ c.read < n => /\ isEmpty(c) <=> available(c) = 0
                            /\ isFull(c) <=> free(c) = 0
           /\ c.read = n => ~ isEmpty(c) /\ ~ isFull(c)
<1>0. c.size = n /\ c.write \in 0 .. n - 1 /\ c.read \in 0 .. n
  BY BufferIs
<1> DEFINE w == c.write  r == c.read
<1>1. available(c) = IF w >= r THEN w - r ELSE (n - r) + w
  BY <1>0 DEF available
<1>2. free(c) = n - available(c) - 1
  BY <1>0 DEF free
<1>3. isEmpty(c) <=> r = w
  BY DEF isEmpty
<1>4. isFull(c) <=> (IF w + 1 < n THEN w + 1 ELSE w + 1 - n) = r
  <2> DEFINE x == w + 1
  <2>1. x \in 0 .. 2 * n - 1
    BY <1>0
  <2>2. isFull(c) <=> x % n = r
    BY <1>0 DEF isFull
  <2> HIDE DEF x
  <2>3. x % n = IF x < n THEN x ELSE x - n
    BY <2>1, Turn
  <2>4. x = w + 1
    BY DEF x
  <2> QED
    BY <1>0, <2>1, <2>2, <2>3, <2>4
<1>5. isEmpty(c) \in BOOLEAN /\ isFull(c) \in BOOLEAN
  BY DEF isEmpty, isFull
<1>6. w \in 0 .. n - 1 /\ r \in 0 .. n
  BY <1>0
<1> HIDE DEF w, r
<1>7. available(c) \in 0 .. n - 1
  BY ONLY <1>1, <1>6, n \in Nat
<1>8. free(c) = n - 1 - available(c) /\ free(c) \in 0 .. n - 1
  BY ONLY <1>2, <1>7, n \in Nat
<1>9. available(c) = IF r = n THEN w ELSE IF w >= r THEN w - r ELSE (n - r) + w
  BY ONLY <1>1, <1>6, n \in Nat
<1>10. r < n => /\ isEmpty(c) <=> available(c) = 0
                /\ isFull(c) <=> free(c) = 0
  BY ONLY <1>1, <1>2, <1>3, <1>4, <1>6, n \in Nat, n > 1
<1>11. r = n => ~ isEmpty(c) /\ ~ isFull(c)
  BY ONLY <1>3, <1>4, <1>6, n \in Nat, n > 1
<1> QED
  BY <1>5, <1>7, <1>8, <1>9, <1>10, <1>11 DEF w, r

\* The slot of the byte i places behind the first
LEMMA Slots ==
    ASSUME NEW n \in Nat, n > 1, NEW Byte, NEW c \in Buffer(n, Byte), NEW i \in 0 .. n - 1
    PROVE  /\ (c.read + i) % c.size = IF c.read + i < n THEN c.read + i ELSE c.read + i - n
           /\ (c.read + i) % c.size \in 0 .. n - 1
           /\ Cell(c, i) \in Byte
<1>0. c.size = n /\ c.read \in 0 .. n /\ c.buf \in [0 .. n -> Byte]
  BY BufferIs
<1> DEFINE s == c.read + i
<1>1. s \in 0 .. 2 * n - 1 /\ s % c.size = s % n
  BY <1>0
<1> HIDE DEF s
<1>2. s % n = IF s < n THEN s ELSE s - n
  BY <1>1, Turn
<1>3. s % n \in 0 .. n - 1
  BY <1>1, <1>2
<1>4. Cell(c, i) = c.buf[s % n]
  BY <1>1 DEF Cell, s
<1>5. Cell(c, i) \in Byte
  BY <1>0, <1>3, <1>4
<1>6. /\ (c.read + i) % c.size = s % n
      /\ s = c.read + i
  BY <1>1 DEF s
<1> QED
  BY <1>0, <1>1, <1>2, <1>3, <1>5, <1>6

\* Where the next byte goes: behind the last, and into the slot of none
LEMMA NextSlot ==
    ASSUME NEW n \in Nat, n > 1, NEW Byte, NEW c \in Buffer(n, Byte)
    PROVE  /\ (c.read + available(c)) % c.size = c.write
           /\ \A i \in 0 .. n - 1 : i # available(c) => (c.read + i) % c.size # c.write
<1>0. /\ c.read \in 0 .. n /\ c.write \in 0 .. n - 1 /\ available(c) \in 0 .. n - 1
      /\ available(c) = IF c.read = n THEN c.write
                        ELSE IF c.write >= c.read THEN c.write - c.read
                        ELSE (n - c.read) + c.write
  BY BufferIs, Counts
<1> DEFINE w == c.write  r == c.read  a == available(c)
    Idx(i) == IF r + i < n THEN r + i ELSE r + i - n
<1>1. \A i \in 0 .. n - 1 : (c.read + i) % c.size = Idx(i)
  BY Slots
<1>2. r \in 0 .. n /\ w \in 0 .. n - 1 /\ a \in 0 .. n - 1
      /\ a = IF r = n THEN w ELSE IF w >= r THEN w - r ELSE (n - r) + w
  BY <1>0
<1> HIDE DEF w, r, a
<1>3. Idx(a) = w
  BY ONLY <1>2, n \in Nat, n > 1
<1>4. \A i \in 0 .. n - 1 : i # a => Idx(i) # w
  BY ONLY <1>2, n \in Nat, n > 1
<1> HIDE DEF Idx
<1> QED
  BY <1>0, <1>1, <1>3, <1>4 DEF a, w

\* queue: a byte more behind the others, or, in a full buffer, in the place of
\* the first
LEMMA QueueIs ==
    ASSUME NEW n \in Nat, n > 1, NEW Byte, NEW c \in Buffer(n, Byte), NEW k \in Byte,
           NEW d, d = queue(c, k)
    PROVE  /\ d \in Buffer(n, Byte) /\ (d.read = n <=> c.read = n)
           /\ d.buf = [c.buf EXCEPT ![c.write] = k]
           /\ ~ isFull(c) => d.read = c.read
           /\ d.write = IF c.write + 1 < n THEN c.write + 1 ELSE 0
           /\ isFull(c) => d.read = IF c.read + 1 < n THEN c.read + 1 ELSE 0
<1>0. /\ c = [write |-> c.write, read |-> c.read, size |-> c.size, buf |-> c.buf]
      /\ c.size = n /\ c.write \in 0 .. n - 1 /\ c.read \in 0 .. n
      /\ c.buf \in [0 .. n -> Byte]
  BY BufferIs
<1>1. isFull(c) => c.read < n
  BY <1>0, Counts
<1> DEFINE w == (c.write + 1) % c.size
    r == IF isFull(c) THEN (c.read + 1) % c.size ELSE c.read
    b == [c.buf EXCEPT ![c.write] = k]
    x == c.write + 1  y == c.read + 1
<1>2. d = [write |-> w, read |-> r, size |-> n, buf |-> b]
  BY <1>0 DEF queue
<1>3. w = IF x < n THEN x ELSE x - n
  <2>1. x \in 0 .. 2 * n - 1 /\ w = x % n
    BY <1>0
  <2> HIDE DEF x, w
  <2> QED
    BY <2>1, Turn
<1>4. isFull(c) => r = IF y < n THEN y ELSE y - n
  <2>1. y \in 0 .. 2 * n - 1 /\ (isFull(c) => r = y % n)
    BY <1>0
  <2> HIDE DEF y, r
  <2> QED
    BY <2>1, Turn
<1>5. w \in 0 .. n - 1 /\ w = IF c.write + 1 < n THEN c.write + 1 ELSE 0
  <2>1. x = c.write + 1
    BY DEF x
  <2> HIDE DEF x, w
  <2> QED
    BY <1>0, <1>3, <2>1
<1>6. ~ isFull(c) => r = c.read
  OBVIOUS
<1>7. isFull(c) => r \in 0 .. n - 1 /\ r = IF c.read + 1 < n THEN c.read + 1 ELSE 0
  <2>1. y = c.read + 1
    BY DEF y
  <2> HIDE DEF y, r
  <2> QED
    BY <1>0, <1>1, <1>4, <2>1
<1>8. b \in [0 .. n -> Byte] /\ r \in 0 .. n
  <2>1. b \in [0 .. n -> Byte]
    BY <1>0
  <2> HIDE DEF r
  <2> QED
    BY <1>0, <1>6, <1>7, <2>1
<1> HIDE DEF w, r, b
<1>9. d \in Buffer(n, Byte) /\ d.write = w /\ d.read = r /\ d.buf = b
  BY <1>2, <1>5, <1>8, BufferOf
<1> QED
  BY <1>0, <1>1, <1>5, <1>6, <1>7, <1>9 DEF b

\* queue() with room: one byte more at the end
LEMMA QueueAppends ==
    ASSUME NEW n \in Nat, n > 1, NEW Byte, NEW c \in Buffer(n, Byte), NEW k \in Byte,
           free(c) > 0, NEW d, d = queue(c, k)
    PROVE  /\ d \in Buffer(n, Byte) /\ d.read = c.read
           /\ available(d) = available(c) + 1 /\ free(d) = free(c) - 1
           /\ \A i \in 0 .. available(c) - 1 : Cell(d, i) = Cell(c, i)
           /\ Cell(d, available(c)) = k
           /\ \A i \in 0 .. n - 1 : i # c.write => d.buf[i] = c.buf[i]
<1>0. c.read \in 0 .. n /\ c.write \in 0 .. n - 1 /\ c.buf \in [0 .. n -> Byte] /\ c.size = n
  BY BufferIs
<1>1. /\ available(c) \in 0 .. n - 1 /\ free(c) = n - 1 - available(c)
      /\ available(c) = IF c.read = n THEN c.write
                        ELSE IF c.write >= c.read THEN c.write - c.read
                        ELSE (n - c.read) + c.write
      /\ ~ isFull(c)
  BY <1>0, Counts
<1>2. /\ d \in Buffer(n, Byte) /\ d.read = c.read
      /\ d.buf = [c.buf EXCEPT ![c.write] = k]
      /\ d.write = IF c.write + 1 < n THEN c.write + 1 ELSE 0
  BY <1>1, QueueIs
<1>3. /\ available(d) = IF d.read = n THEN d.write
                        ELSE IF d.write >= d.read THEN d.write - d.read
                        ELSE (n - d.read) + d.write
      /\ free(d) = n - 1 - available(d) /\ d.size = n
  BY <1>2, Counts, BufferIs
<1>4. available(d) = available(c) + 1
  <2> DEFINE a == available(c)  r == c.read  w == c.write  v == d.write
      x == available(d)  f == free(c)
  <2>1. /\ r \in 0 .. n /\ w \in 0 .. n - 1 /\ a \in 0 .. n - 1 /\ f = n - 1 - a /\ f > 0
        /\ a = IF r = n THEN w ELSE IF w >= r THEN w - r ELSE (n - r) + w
        /\ v = IF w + 1 < n THEN w + 1 ELSE 0
        /\ x = IF r = n THEN v ELSE IF v >= r THEN v - r ELSE (n - r) + v
    BY <1>0, <1>1, <1>2, <1>3
  <2> HIDE DEF a, r, w, v, x, f
  <2>2. x = a + 1
    BY ONLY <2>1, n \in Nat, n > 1
  <2> QED
    BY <2>2 DEF x, a
<1>5. free(d) = free(c) - 1
  BY ONLY <1>1, <1>3, <1>4, n \in Nat
<1>6. \A i \in 0 .. n - 1 : /\ (c.read + i) % c.size \in 0 .. n - 1
                            /\ Cell(c, i) = c.buf[(c.read + i) % c.size]
                            /\ Cell(d, i) = d.buf[(c.read + i) % c.size]
  BY <1>0, <1>2, <1>3, Slots DEF Cell
<1>7. \A i \in 0 .. n - 1 : i # c.write => d.buf[i] = c.buf[i]
  BY <1>0, <1>2
<1>8. d.buf[c.write] = k
  BY <1>0, <1>2
<1>9. \A i \in 0 .. available(c) - 1 : i \in 0 .. n - 1 /\ i # available(c)
  BY <1>1
<1>10. \A i \in 0 .. available(c) - 1 : Cell(d, i) = Cell(c, i)
  BY <1>6, <1>7, <1>9, NextSlot
<1>11. Cell(d, available(c)) = k
  BY <1>1, <1>6, <1>8, NextSlot
<1> QED
  BY <1>2, <1>4, <1>5, <1>7, <1>10, <1>11

\* queue() without: the oldest byte goes
LEMMA QueueReplaces ==
    ASSUME NEW n \in Nat, n > 1, NEW Byte, NEW c \in Buffer(n, Byte), NEW k \in Byte,
           isFull(c), NEW d, d = queue(c, k)
    PROVE  /\ available(d) = available(c) /\ available(c) = n - 1
           /\ \A i \in 0 .. n - 3 : Cell(d, i) = Cell(c, i + 1)
           /\ Cell(d, n - 2) = k
<1>0. c.read \in 0 .. n /\ c.write \in 0 .. n - 1 /\ c.buf \in [0 .. n -> Byte] /\ c.size = n
  BY BufferIs
<1>1. /\ c.read < n /\ available(c) = n - 1
      /\ available(c) = IF c.read = n THEN c.write
                        ELSE IF c.write >= c.read THEN c.write - c.read
                        ELSE (n - c.read) + c.write
  <2>1. c.read < n
    BY <1>0, Counts
  <2>2. free(c) = 0 /\ free(c) = n - 1 - available(c) /\ available(c) \in 0 .. n - 1
    BY <2>1, Counts
  <2>3. available(c) = n - 1
    BY <2>2
  <2> QED
    BY <2>1, <2>3, Counts
<1>2. /\ d \in Buffer(n, Byte) /\ d.read = IF c.read + 1 < n THEN c.read + 1 ELSE 0
      /\ d.buf = [c.buf EXCEPT ![c.write] = k]
      /\ d.write = IF c.write + 1 < n THEN c.write + 1 ELSE 0
  BY QueueIs
<1>3. available(d) = IF d.read = n THEN d.write
                     ELSE IF d.write >= d.read THEN d.write - d.read
                     ELSE (n - d.read) + d.write
  BY <1>2, Counts
<1>4. available(d) = n - 1
  <2> DEFINE r == c.read  w == c.write  v == d.write  q == d.read  x == available(d)
  <2>1. /\ r \in 0 .. n /\ w \in 0 .. n - 1 /\ r < n
        /\ n - 1 = IF r = n THEN w ELSE IF w >= r THEN w - r ELSE (n - r) + w
        /\ v = IF w + 1 < n THEN w + 1 ELSE 0
        /\ q = IF r + 1 < n THEN r + 1 ELSE 0
        /\ x = IF q = n THEN v ELSE IF v >= q THEN v - q ELSE (n - q) + v
    BY <1>0, <1>1, <1>2, <1>3
  <2> HIDE DEF r, w, v, q, x
  <2>2. x = n - 1
    BY ONLY <2>1, n \in Nat, n > 1
  <2> QED
    BY <2>2 DEF x
<1> DEFINE Idx(i) == (c.read + i) % c.size
<1>5. \A i \in 0 .. n - 1 : /\ Idx(i) = IF c.read + i < n THEN c.read + i ELSE c.read + i - n
                            /\ Idx(i) \in 0 .. n - 1
                            /\ Cell(c, i) = c.buf[Idx(i)]
  BY Slots DEF Cell
<1>6. \A i \in 0 .. n - 1 : (d.read + i) % d.size
                              = IF d.read + i < n THEN d.read + i ELSE d.read + i - n
  BY <1>2, Slots
<1> HIDE DEF Idx
<1>7. \A i \in 0 .. n - 2 : Cell(d, i) = d.buf[Idx(i + 1)]
  <2> SUFFICES ASSUME NEW i \in 0 .. n - 2
               PROVE  (d.read + i) % d.size = Idx(i + 1)
    BY DEF Cell
  <2>1. i \in 0 .. n - 1 /\ i + 1 \in 0 .. n - 1
    OBVIOUS
  <2>2. /\ (d.read + i) % d.size = IF d.read + i < n THEN d.read + i ELSE d.read + i - n
        /\ Idx(i + 1) = IF c.read + (i + 1) < n THEN c.read + (i + 1)
                       ELSE c.read + (i + 1) - n
    BY <2>1, <1>5, <1>6
  <2> DEFINE r == c.read  q == d.read  x == (d.read + i) % d.size  y == Idx(i + 1)
  <2>3. /\ r \in 0 .. n - 1 /\ q = IF r + 1 < n THEN r + 1 ELSE 0
        /\ x = IF q + i < n THEN q + i ELSE q + i - n
        /\ y = IF r + (i + 1) < n THEN r + (i + 1) ELSE r + (i + 1) - n
    BY <1>0, <1>1, <1>2, <2>2
  <2> HIDE DEF r, q, x, y
  <2>4. x = y
    BY ONLY <2>3, n \in Nat, n > 1, i \in 0 .. n - 2
  <2> QED
    BY <2>4 DEF x, y
<1>8. Idx(n - 1) = c.write /\ \A i \in 0 .. n - 2 : Idx(i) # c.write
  <2>1. \A i \in 0 .. n - 2 : i \in 0 .. n - 1 /\ i # n - 1
    OBVIOUS
  <2> QED
    BY <2>1, <1>1, NextSlot DEF Idx
<1>9. ASSUME NEW i \in 0 .. n - 3
      PROVE  Cell(d, i) = Cell(c, i + 1)
  <2>1. i \in 0 .. n - 2 /\ i + 1 \in 0 .. n - 2 /\ i + 1 \in 0 .. n - 1
    OBVIOUS
  <2>2. Cell(d, i) = d.buf[Idx(i + 1)] /\ Idx(i + 1) # c.write
    BY <2>1, <1>7, <1>8
  <2>3. Cell(c, i + 1) = c.buf[Idx(i + 1)] /\ Idx(i + 1) \in 0 .. n - 1
    BY <2>1, <1>5
  <2> QED
    BY <2>2, <2>3, <1>0, <1>2
<1>10. Cell(d, n - 2) = k
  <2>1. n - 2 \in 0 .. n - 2 /\ (n - 2) + 1 = n - 1
    OBVIOUS
  <2>2. Cell(d, n - 2) = d.buf[Idx(n - 1)]
    BY <2>1, <1>7
  <2> QED
    BY <2>2, <1>0, <1>2, <1>8
<1> QED
  BY <1>1, <1>4, <1>9, <1>10

\* pop: the last byte goes
LEMMA PopIs ==
    ASSUME NEW n \in Nat, n > 1, WordMod % n = 0, NEW Byte, NEW c \in Buffer(n, Byte),
           NEW d, d = pop(c)
    PROVE  /\ d \in Buffer(n, Byte) /\ d.read = c.read /\ d.buf = c.buf
           /\ isEmpty(c) => d = c
           /\ c.read < n /\ ~ isEmpty(c) =>
                 available(d) = available(c) - 1 /\ free(d) = free(c) + 1
           /\ \A i : Cell(d, i) = Cell(c, i)
<1>0. /\ c = [write |-> c.write, read |-> c.read, size |-> c.size, buf |-> c.buf]
      /\ c.size = n /\ c.write \in 0 .. n - 1 /\ c.read \in 0 .. n
      /\ c.buf \in [0 .. n -> Byte]
  BY BufferIs
<1> DEFINE v == ((c.write + WordMod - 1) % WordMod) % c.size
<1>1. v = IF c.write = 0 THEN n - 1 ELSE c.write - 1
  <2>1. WordMod \in Nat \ {0}
    BY DEF WordMod
  <2> QED
    BY <1>0, <2>1, StepBack
<1>2. v \in 0 .. n - 1
  <2> HIDE DEF v
  <2> QED
    BY <1>0, <1>1
<1>3. ~ isEmpty(c) => d = [write |-> v, read |-> c.read, size |-> n, buf |-> c.buf]
  BY <1>0 DEF pop
<1> HIDE DEF v
<1>4. isEmpty(c) => d = c
  BY DEF pop
<1>5. ~ isEmpty(c) => d \in Buffer(n, Byte) /\ d.write = v /\ d.read = c.read /\ d.buf = c.buf
  BY <1>0, <1>2, <1>3, BufferOf
<1>6. d \in Buffer(n, Byte) /\ d.read = c.read /\ d.buf = c.buf
  BY <1>4, <1>5
<1>7. d.size = c.size
  BY <1>0, <1>6, BufferIs
<1>8. ASSUME c.read < n, ~ isEmpty(c)
      PROVE  available(d) = available(c) - 1 /\ free(d) = free(c) + 1
  <2> DEFINE a == available(c)  r == c.read  w == c.write  x == available(d)
  <2>1. /\ r \in 0 .. n - 1 /\ w \in 0 .. n - 1 /\ a \in 0 .. n - 1 /\ a # 0
        /\ a = IF r = n THEN w ELSE IF w >= r THEN w - r ELSE (n - r) + w
        /\ v = IF w = 0 THEN n - 1 ELSE w - 1
    BY <1>0, <1>1, <1>8, Counts
  <2>2. x = IF r = n THEN v ELSE IF v >= r THEN v - r ELSE (n - r) + v
    <3>1. available(d) = IF d.read = n THEN d.write
                         ELSE IF d.write >= d.read THEN d.write - d.read
                         ELSE (n - d.read) + d.write
      BY <1>6, Counts
    <3> QED
      BY <1>5, <1>8, <3>1
  <2>3. free(d) = n - 1 - x /\ free(c) = n - 1 - a
    BY <1>6, Counts
  <2> HIDE DEF a, r, w, x
  <2>4. x = a - 1
    BY ONLY <2>1, <2>2, n \in Nat, n > 1
  <2>5. free(d) = free(c) + 1
    BY ONLY <2>1, <2>3, <2>4, n \in Nat
  <2> QED
    BY <2>4, <2>5 DEF x, a
<1>9. \A i : Cell(d, i) = Cell(c, i)
  BY <1>6, <1>7 DEF Cell
<1> QED
  BY <1>4, <1>6, <1>8, <1>9

\* flush: all of them go
LEMMA FlushIs ==
    ASSUME NEW n \in Nat, n > 1, NEW Byte, NEW c \in Buffer(n, Byte), NEW d, d = flush(c)
    PROVE  /\ d \in Buffer(n, Byte) /\ d.buf = c.buf /\ d.read < n
           /\ available(d) = 0 /\ free(d) = n - 1 /\ isEmpty(d)
<1>0. /\ c = [write |-> c.write, read |-> c.read, size |-> c.size, buf |-> c.buf]
      /\ c.size = n /\ c.write \in 0 .. n - 1 /\ c.read \in 0 .. n
      /\ c.buf \in [0 .. n -> Byte]
  BY BufferIs
<1>1. d = [write |-> c.write, read |-> c.write, size |-> n, buf |-> c.buf]
  BY <1>0 DEF flush
<1>2. c.write \in 0 .. n
  BY <1>0
<1>3. d \in Buffer(n, Byte) /\ d.write = c.write /\ d.read = c.write /\ d.buf = c.buf
  BY <1>0, <1>1, <1>2, BufferOf
<1>4. d.read < n /\ isEmpty(d)
  BY <1>0, <1>3 DEF isEmpty
<1>5. available(d) = 0
  BY <1>3, <1>4, Counts
<1> QED
  BY <1>3, <1>4, <1>5, Counts

\* read++: the first byte goes, the index may be past the end
LEMMA StepIs ==
    ASSUME NEW n \in Nat, n > 1, NEW Byte, NEW c \in Buffer(n, Byte),
           c.read < n, NEW d, d = [c EXCEPT !.read = c.read + 1]
    PROVE  /\ d \in Buffer(n, Byte) /\ d.read = c.read + 1 /\ d.buf = c.buf
           /\ d.write = c.write
           /\ ~ isEmpty(c) => available(d) = available(c) - 1 /\ free(d) = free(c) + 1
           /\ \A i \in 0 .. n - 2 : Cell(d, i) = Cell(c, i + 1)
<1>0. /\ c = [write |-> c.write, read |-> c.read, size |-> c.size, buf |-> c.buf]
      /\ c.size = n /\ c.write \in 0 .. n - 1 /\ c.read \in 0 .. n - 1
      /\ c.buf \in [0 .. n -> Byte]
  BY BufferIs
<1> DEFINE q == c.read + 1
<1>1. q \in 0 .. n
  BY <1>0
<1>2. d = [write |-> c.write, read |-> q, size |-> n, buf |-> c.buf]
  BY <1>0
<1> HIDE DEF q
<1>3. d \in Buffer(n, Byte) /\ d.write = c.write /\ d.read = q /\ d.buf = c.buf /\ d.size = n
  BY <1>0, <1>1, <1>2, BufferOf
<1>4. q = c.read + 1
  BY DEF q
<1>5. ASSUME ~ isEmpty(c)
      PROVE  available(d) = available(c) - 1 /\ free(d) = free(c) + 1
  <2> DEFINE a == available(c)  r == c.read  w == c.write  x == available(d)
  <2>1. /\ r \in 0 .. n - 1 /\ w \in 0 .. n - 1 /\ a \in 0 .. n - 1 /\ a # 0
        /\ a = IF r = n THEN w ELSE IF w >= r THEN w - r ELSE (n - r) + w
        /\ q = r + 1
    BY <1>0, <1>4, <1>5, Counts
  <2>2. x = IF q = n THEN w ELSE IF w >= q THEN w - q ELSE (n - q) + w
    <3>1. available(d) = IF d.read = n THEN d.write
                         ELSE IF d.write >= d.read THEN d.write - d.read
                         ELSE (n - d.read) + d.write
      BY <1>3, Counts, ZenonT(40)
    <3> QED
      BY <1>3, <3>1
  <2>3. free(d) = n - 1 - x /\ free(c) = n - 1 - a
    BY <1>3, Counts
  <2> HIDE DEF a, r, w, x
  <2>4. x = a - 1
    BY ONLY <2>1, <2>2, n \in Nat, n > 1
  <2>5. free(d) = free(c) + 1
    BY ONLY <2>1, <2>3, <2>4, n \in Nat
  <2> QED
    BY <2>4, <2>5 DEF x, a
<1>6. ASSUME NEW i \in 0 .. n - 2
      PROVE  Cell(d, i) = Cell(c, i + 1)
  <2>1. i \in 0 .. n - 1 /\ i + 1 \in 0 .. n - 1
    OBVIOUS
  <2> DEFINE r == c.read  x == (d.read + i) % d.size  y == (c.read + (i + 1)) % c.size
  <2>0. d \in Buffer(n, Byte)
    BY <1>3
  <2>5. x = IF d.read + i < n THEN d.read + i ELSE d.read + i - n
    BY ONLY <2>0, <2>1, n \in Nat, n > 1, Slots DEF x
  <2>6. y = IF r + (i + 1) < n THEN r + (i + 1) ELSE r + (i + 1) - n
    BY <2>1, Slots
  <2>2. /\ x = IF d.read + i < n THEN d.read + i ELSE d.read + i - n
        /\ y = IF r + (i + 1) < n THEN r + (i + 1) ELSE r + (i + 1) - n
    BY <2>5, <2>6
  <2>3. d.read = r + 1 /\ r \in 0 .. n - 1
    BY <1>0, <1>3, <1>4
  <2> HIDE DEF x, y, r
  <2>4. x = y
    BY ONLY <2>2, <2>3, n \in Nat, n > 1, i \in 0 .. n - 2
  <2> QED
    BY <1>3, <2>4 DEF Cell, x, y
<1> QED
  BY <1>3, <1>4, <1>5, <1>6

\* read %= size takes the index back from the end
LEMMA WrapIndex ==
    ASSUME NEW n \in Nat, n > 1, NEW r \in 0 .. n
    PROVE  r % n = IF r = n THEN 0 ELSE r
<1>1. r \in 0 .. 2 * n - 1
  OBVIOUS
<1>2. r % n = IF r < n THEN r ELSE r - n
  BY <1>1, Turn
<1> QED
  BY <1>2

\* ... so read %= size moves no byte
LEMMA WrapIs ==
    ASSUME NEW n \in Nat, n > 1, NEW Byte, NEW c \in Buffer(n, Byte),
           NEW q, q = IF c.read = n THEN 0 ELSE c.read,
           NEW d, d = [c EXCEPT !.read = q]
    PROVE  /\ d \in Buffer(n, Byte) /\ d.read < n /\ d.buf = c.buf
           /\ d.read = q
           /\ available(d) = available(c) /\ free(d) = free(c)
           /\ \A i \in 0 .. n - 1 : Cell(d, i) = Cell(c, i)
<1>0. /\ c = [write |-> c.write, read |-> c.read, size |-> c.size, buf |-> c.buf]
      /\ c.size = n /\ c.write \in 0 .. n - 1 /\ c.read \in 0 .. n
      /\ c.buf \in [0 .. n -> Byte]
  BY BufferIs
<1>1. q = IF c.read = n THEN 0 ELSE c.read
  OBVIOUS
<1>2. d = [write |-> c.write, read |-> q, size |-> n, buf |-> c.buf]
  BY <1>0
<1>3. q \in 0 .. n /\ q < n
  BY <1>0, <1>1
<1>4. d \in Buffer(n, Byte) /\ d.write = c.write /\ d.read = q /\ d.buf = c.buf /\ d.size = n
  BY <1>0, <1>2, <1>3, BufferOf
<1>5. available(d) = available(c)
  <2> DEFINE r == c.read  w == c.write  a == available(c)  x == available(d)
  <2>1. /\ r \in 0 .. n /\ w \in 0 .. n - 1 /\ q = IF r = n THEN 0 ELSE r
        /\ a = IF r = n THEN w ELSE IF w >= r THEN w - r ELSE (n - r) + w
    BY <1>0, <1>1, Counts
  <2>2. x = IF q = n THEN w ELSE IF w >= q THEN w - q ELSE (n - q) + w
    <3>1. available(d) = IF d.read = n THEN d.write
                         ELSE IF d.write >= d.read THEN d.write - d.read
                         ELSE (n - d.read) + d.write
      BY <1>4, Counts, ZenonT(40)
    <3> QED
      BY <1>4, <3>1
  <2> HIDE DEF r, w, a, x
  <2>3. x = a
    BY ONLY <2>1, <2>2, n \in Nat, n > 1
  <2> QED
    BY <2>3 DEF x, a
<1>6. free(d) = free(c)
  BY <1>4, <1>5, Counts
<1>7. ASSUME NEW i \in 0 .. n - 1
      PROVE  Cell(d, i) = Cell(c, i)
  <2> DEFINE r == c.read  x == (d.read + i) % d.size  y == (c.read + i) % c.size
  <2>0. d \in Buffer(n, Byte)
    BY <1>4
  <2>4. x = IF d.read + i < n THEN d.read + i ELSE d.read + i - n
    BY ONLY <2>0, i \in 0 .. n - 1, n \in Nat, n > 1, Slots DEF x
  <2>5. y = IF r + i < n THEN r + i ELSE r + i - n
    BY Slots
  <2>1. /\ x = IF d.read + i < n THEN d.read + i ELSE d.read + i - n
        /\ y = IF r + i < n THEN r + i ELSE r + i - n
        /\ d.read = q
    BY <1>4, <2>4, <2>5
  <2>2. r \in 0 .. n /\ q = IF r = n THEN 0 ELSE r
    BY <1>0, <1>1
  <2> HIDE DEF x, y, r
  <2>3. x = y
    BY ONLY <2>1, <2>2, n \in Nat, n > 1, i \in 0 .. n - 1
  <2> QED
    BY <1>4, <2>3 DEF Cell, x, y
<1> QED
  BY <1>1, <1>3, <1>4, <1>5, <1>6, <1>7

\* dequeue as one step: the first bytes go
LEMMA DequeueIs ==
    ASSUME NEW n \in Nat, n > 1, NEW Byte, NEW c \in Buffer(n, Byte), c.read < n,
           NEW k \in 0 .. available(c), NEW d, d = dequeue(c, k)
    PROVE  /\ d \in Buffer(n, Byte) /\ d.read < n
           /\ available(d) = available(c) - k /\ free(d) = free(c) + k
           /\ \A i \in 0 .. available(d) - 1 : Cell(d, i) = Cell(c, i + k)
           /\ Dequeued(c, k) = [i \in 1 .. k |-> Cell(c, i - 1)]
<1>0. /\ c = [write |-> c.write, read |-> c.read, size |-> c.size, buf |-> c.buf]
      /\ c.size = n /\ c.write \in 0 .. n - 1 /\ c.read \in 0 .. n - 1
      /\ c.buf \in [0 .. n -> Byte]
  BY BufferIs
<1>1. available(c) \in 0 .. n - 1 /\ free(c) = n - 1 - available(c)
      /\ available(c) = IF c.read = n THEN c.write
                        ELSE IF c.write >= c.read THEN c.write - c.read
                        ELSE (n - c.read) + c.write
  BY Counts
<1>2. k \in 0 .. n - 1
  BY <1>1
<1> DEFINE q == (c.read + k) % n
<1>3. q = (IF c.read + k < n THEN c.read + k ELSE c.read + k - n) /\ q \in 0 .. n - 1
  BY <1>0, <1>2, Slots
<1>4. d = [write |-> c.write, read |-> q, size |-> n, buf |-> c.buf]
  BY <1>0 DEF dequeue
<1> HIDE DEF q
<1>5. q \in 0 .. n
  BY <1>3
<1>6. d \in Buffer(n, Byte) /\ d.write = c.write /\ d.read = q /\ d.buf = c.buf /\ d.size = n
  BY <1>0, <1>4, <1>5, BufferOf
<1>7. available(d) = available(c) - k
  <2> DEFINE r == c.read  w == c.write  a == available(c)  x == available(d)
  <2>1. /\ r \in 0 .. n - 1 /\ w \in 0 .. n - 1 /\ k \in 0 .. a
        /\ q = IF r + k < n THEN r + k ELSE r + k - n
        /\ a = IF r = n THEN w ELSE IF w >= r THEN w - r ELSE (n - r) + w
    BY <1>0, <1>1, <1>3
  <2>2. x = IF q = n THEN w ELSE IF w >= q THEN w - q ELSE (n - q) + w
    <3>1. available(d) = IF d.read = n THEN d.write
                         ELSE IF d.write >= d.read THEN d.write - d.read
                         ELSE (n - d.read) + d.write
      BY <1>6, Counts
    <3> QED
      BY <1>6, <3>1
  <2> HIDE DEF r, w, a, x
  <2>3. x = a - k
    BY ONLY <2>1, <2>2, n \in Nat, n > 1
  <2> QED
    BY <2>3 DEF x, a
<1>8. free(d) = free(c) + k
  <2>1. free(d) = n - 1 - available(d)
    BY <1>6, Counts
  <2> QED
    BY <1>1, <1>7, <2>1
<1>9. ASSUME NEW i \in 0 .. available(d) - 1
      PROVE  Cell(d, i) = Cell(c, i + k)
  <2>1. i \in 0 .. n - 1 /\ i + k \in 0 .. n - 1
    BY <1>1, <1>7
  <2> DEFINE r == c.read  x == (d.read + i) % d.size  y == (c.read + (i + k)) % c.size
  <2>2. /\ x = IF d.read + i < n THEN d.read + i ELSE d.read + i - n
        /\ y = IF r + (i + k) < n THEN r + (i + k) ELSE r + (i + k) - n
        /\ d.read = q
    BY <1>6, <2>1, Slots
  <2>3. r \in 0 .. n - 1 /\ q = IF r + k < n THEN r + k ELSE r + k - n
    BY <1>0, <1>3
  <2> HIDE DEF x, y, r
  <2>4. x = y
    BY ONLY <2>1, <2>2, <2>3, n \in Nat, n > 1, i \in Int, k \in 0 .. n - 1, <1>2
  <2> QED
    BY <1>6, <2>4 DEF Cell, x, y
<1>10. ASSUME NEW i \in 1 .. k
       PROVE  c.buf[IF i = 1 THEN c.read ELSE (c.read + i - 1) % c.size] = Cell(c, i - 1)
  <2>1. i - 1 \in 0 .. n - 1 /\ c.read + (i - 1) = c.read + i - 1
    BY <1>0, <1>2
  <2>2. i = 1 => (c.read + 0) % c.size = c.read
    <3>1. 0 \in 0 .. n - 1 /\ c.read + 0 = c.read /\ c.read < n
      BY <1>0
    <3>2. (c.read + 0) % c.size = IF c.read + 0 < n THEN c.read + 0 ELSE c.read + 0 - n
      BY <3>1, Slots
    <3> QED
      BY <3>1, <3>2
  <2>3. i = 1 => i - 1 = 0
    OBVIOUS
  <2> QED
    BY <2>1, <2>2, <2>3 DEF Cell
<1>11. Dequeued(c, k) = [i \in 1 .. k |-> Cell(c, i - 1)]
  BY <1>10 DEF Dequeued
<1> QED
  BY <1>3, <1>6, <1>7, <1>8, <1>9, <1>11

---------------------------------------------------------------------------
(* Bytes in order *)

\* What the assumption says of each size
LEMMA Sizes ==
    /\ TxSize \in Nat /\ TxSize > 1 /\ RxSize \in Nat /\ RxSize > 1
    /\ Packet \in Nat /\ Packet > 1 /\ RxSize > Packet
    /\ WordMod % RxSize = 0 /\ WordMod % TxSize = 0
    /\ MaxTx \in Nat /\ MaxRx \in Nat
BY SizesAssumption

RxBuffer == Buffer(RxSize, RxByte)

\* What the cells and the counts of rxbuf are made of
LEMMA RxCells ==
    ASSUME NEW c \in RxBuffer
    PROVE  /\ available(c) \in 0 .. RxSize - 1
           /\ \A i \in 0 .. available(c) - 1 : i \in 0 .. RxSize - 1
           /\ \A i \in 0 .. RxSize - 1 : Cell(c, i) \in RxByte /\ Cell(c, i).id \in Nat
<1>1. \A b \in RxByte : b.id \in Nat
  BY Sizes DEF RxByte
<1>2. available(c) \in 0 .. RxSize - 1
  BY Sizes, Counts DEF RxBuffer
<1>3. \A i \in 0 .. RxSize - 1 : Cell(c, i) \in RxByte
  BY Sizes, Slots DEF RxBuffer
<1>4. \A i \in 0 .. available(c) - 1 : i \in 0 .. RxSize - 1
  BY <1>2, Sizes
<1> QED
  BY <1>1, <1>2, <1>3, <1>4

\* Fewer bytes are in order, too, and so they are between wider limits
LEMMA FewerAscend ==
    ASSUME NEW c \in RxBuffer, NEW lo \in Nat, NEW hi \in Nat, Ascending(c, lo, hi),
           NEW d \in RxBuffer, available(d) <= available(c),
           \A i \in 0 .. available(d) - 1 : Cell(d, i) = Cell(c, i),
           NEW up \in Nat, hi <= up
    PROVE  Ascending(d, lo, up)
<1>1. \A i \in 0 .. available(d) - 1 : i \in 0 .. available(c) - 1
  BY RxCells
<1>2. \A i \in 0 .. available(c) - 1 : Cell(c, i).id \in Nat
  BY RxCells
<1>3. \A i \in 0 .. available(d) - 1 : lo < Cell(d, i).id /\ Cell(d, i).id <= up
  BY <1>1, <1>2 DEF Ascending
<1>4. \A i, j \in 0 .. available(d) - 1 : i < j => Cell(d, i).id < Cell(d, j).id
  BY <1>1 DEF Ascending
<1> QED
  BY <1>3, <1>4 DEF Ascending

\* No bytes are in order
LEMMA NoneAscend ==
    ASSUME NEW d \in RxBuffer, available(d) = 0, NEW lo, NEW hi
    PROVE  Ascending(d, lo, hi)
BY DEF Ascending

\* A higher one goes behind the others
LEMMA QueueAscends ==
    ASSUME NEW c \in RxBuffer, NEW lo \in Nat, NEW hi \in Nat, lo <= hi,
           Ascending(c, lo, hi), NEW b \in RxByte, b.id = hi + 1,
           free(c) > 0 \/ isFull(c), NEW d, d = queue(c, b)
    PROVE  Ascending(d, lo, hi + 1)
<1> DEFINE n == RxSize
<1>0. n \in Nat /\ n > 1 /\ c \in Buffer(n, RxByte) /\ d \in Buffer(n, RxByte)
  <2>1. n \in Nat /\ n > 1 /\ c \in Buffer(n, RxByte)
    BY Sizes DEF RxBuffer
  <2> QED
    BY <2>1, QueueIs
<1>1. CASE free(c) > 0
  <2>1. /\ available(d) = available(c) + 1
        /\ \A i \in 0 .. available(c) - 1 : Cell(d, i) = Cell(c, i)
        /\ Cell(d, available(c)) = b
    BY <1>0, <1>1, QueueAppends
  <2>2. available(c) \in Nat /\ \A i \in 0 .. available(c) - 1 : Cell(c, i).id \in Nat
    BY RxCells
  <2>3. \A i \in 0 .. available(d) - 1 : i \in 0 .. available(c) - 1 \/ i = available(c)
    BY <2>1, <2>2
  <2>4. \A i \in 0 .. available(c) - 1 : lo < Cell(d, i).id /\ Cell(d, i).id < hi + 1
    BY <2>1, <2>2 DEF Ascending
  <2>5. lo < Cell(d, available(c)).id /\ Cell(d, available(c)).id = hi + 1
    BY <2>1
  <2>6. \A i \in 0 .. available(d) - 1 : lo < Cell(d, i).id /\ Cell(d, i).id <= hi + 1
    BY <2>2, <2>3, <2>4, <2>5, <2>1
  <2>7. ASSUME NEW i \in 0 .. available(d) - 1, NEW j \in 0 .. available(d) - 1, i < j
        PROVE  Cell(d, i).id < Cell(d, j).id
    <3>1. i \in 0 .. available(c) - 1
      BY <2>1, <2>2, <2>7
    <3>2. CASE j = available(c)
      BY <3>1, <3>2, <2>4, <2>5
    <3>3. CASE j \in 0 .. available(c) - 1
      BY <3>1, <3>3, <2>1, <2>7 DEF Ascending
    <3> QED
      BY <2>3, <3>2, <3>3
  <2> QED
    BY <2>6, <2>7 DEF Ascending
<1>2. CASE isFull(c)
  <2>1. /\ available(d) = available(c) /\ available(c) = n - 1
        /\ \A i \in 0 .. n - 3 : Cell(d, i) = Cell(c, i + 1)
        /\ Cell(d, n - 2) = b
    BY <1>0, <1>2, QueueReplaces
  <2>2. \A i \in 0 .. available(c) - 1 : Cell(c, i).id \in Nat
    BY RxCells
  <2>3. \A i \in 0 .. n - 2 : i \in 0 .. n - 3 \/ i = n - 2
    BY <1>0
  <2>4. \A i \in 0 .. n - 3 : i + 1 \in 0 .. available(c) - 1
    BY <1>0, <2>1
  <2>5. \A i \in 0 .. n - 3 : lo < Cell(d, i).id /\ Cell(d, i).id < hi + 1
    BY <2>1, <2>2, <2>4 DEF Ascending
  <2>6. lo < Cell(d, n - 2).id /\ Cell(d, n - 2).id = hi + 1
    BY <2>1
  <2>7. 0 .. available(d) - 1 = 0 .. n - 2
    BY <1>0, <2>1
  <2>8. \A i \in 0 .. n - 2 : lo < Cell(d, i).id /\ Cell(d, i).id <= hi + 1
    BY <2>1, <2>2, <2>3, <2>4, <2>5, <2>6
  <2>9. ASSUME NEW i \in 0 .. n - 2, NEW j \in 0 .. n - 2, i < j
        PROVE  Cell(d, i).id < Cell(d, j).id
    <3>1. i \in 0 .. n - 3
      BY <1>0, <2>9
    <3>2. CASE j = n - 2
      BY <3>1, <3>2, <2>5, <2>6
    <3>3. CASE j \in 0 .. n - 3
      <4>1. Cell(d, i) = Cell(c, i + 1) /\ Cell(d, j) = Cell(c, j + 1) /\ i + 1 < j + 1
        BY <3>1, <3>3, <2>1, <2>9
      <4> QED
        BY <3>1, <3>3, <4>1, <2>4 DEF Ascending
    <3> QED
      BY <2>3, <3>2, <3>3
  <2> QED
    BY <2>7, <2>8, <2>9 DEF Ascending
<1> QED
  BY <1>1, <1>2

---------------------------------------------------------------------------
(* A packet goes into rxbuf *)

Work == [rx : RxBuffer, nl : Nat, skip : BOOLEAN, full : BOOLEAN, back : BOOLEAN,
         stop : BOOLEAN]

\* The parts of what the handler of OUT packets works on
LEMMA WorkIs ==
    ASSUME NEW s \in Work
    PROVE  /\ s.rx \in RxBuffer /\ s.nl \in Nat /\ s.skip \in BOOLEAN
           /\ s.full \in BOOLEAN /\ s.back \in BOOLEAN /\ s.stop \in BOOLEAN
BY DEF Work

\* rxbuf and the flags may be replaced
LEMMA WorkWith ==
    ASSUME NEW s \in Work, NEW c \in RxBuffer, NEW n \in Nat, NEW skip \in BOOLEAN,
           NEW full \in BOOLEAN, NEW back \in BOOLEAN, NEW stop \in BOOLEAN
    PROVE  [s EXCEPT !.rx = c, !.nl = n, !.skip = skip, !.full = full, !.back = back,
                     !.stop = stop] \in Work
BY DEF Work

\* What the handler does to rxbuf leaves a buffer of its size
LEMMA RxOperations ==
    ASSUME NEW c \in RxBuffer, NEW b \in RxByte
    PROVE  pop(c) \in RxBuffer /\ flush(c) \in RxBuffer /\ queue(c, b) \in RxBuffer
<1>1. pop(c) \in RxBuffer
  BY Sizes, PopIs DEF RxBuffer
<1>2. flush(c) \in RxBuffer
  BY Sizes, FlushIs DEF RxBuffer
<1>3. queue(c, b) \in RxBuffer
  BY Sizes, QueueIs DEF RxBuffer
<1> QED
  BY <1>1, <1>2, <1>3

\* What one byte may do: it takes the last one back, it goes nowhere, it is
\* queued, or it makes the line too long
Erased(s, r)  == r.rx = pop(s.rx) /\ r.full = s.full /\ r.back = (s.back \/ ~ isEmpty(s.rx))
Skipped(s, r) == r.rx = s.rx /\ r.full = s.full /\ r.back = s.back
Kept(s, r, b) == /\ r.rx = queue(s.rx, b) /\ r.back = s.back
                 /\ r.full = (s.full \/ isFull(s.rx))
TooLong(s, r) == /\ \E c \in RxBuffer : r.rx = flush(c)
                 /\ r.back /\ (r.full => s.full \/ isFull(s.rx))

\* A line that does not fit is discarded
LEMMA DiscardIs ==
    ASSUME NEW s \in Work, NEW r, r = Discard(s)
    PROVE  /\ r \in Work /\ r.rx = flush(s.rx) /\ r.full = s.full /\ r.back
           /\ r.nl = s.nl /\ r.stop = s.stop
<1> DEFINE c == flush(s.rx)
<1>1. c \in RxBuffer
  BY Sizes, FlushIs, WorkIs DEF RxBuffer
<1>2. r = [s EXCEPT !.rx = c, !.skip = TRUE, !.back = TRUE]
  BY DEF Discard
<1> HIDE DEF c
<1>3. r \in Work /\ r.rx = c /\ r.full = s.full /\ r.back /\ r.nl = s.nl /\ r.stop = s.stop
  BY <1>1, <1>2 DEF Work
<1> QED
  BY <1>3 DEF c

\* One byte of a packet: erased, skipped, kept, or the end of a line that is too long
LEMMA ReceiveIs ==
    ASSUME NEW s \in Work, NEW b \in RxByte, NEW r, r = Receive(s, b)
    PROVE  /\ r \in Work /\ r.stop = s.stop /\ r.nl \in {s.nl, s.nl + 1}
           /\ Erased(s, r) \/ Skipped(s, r) \/ Kept(s, r, b) \/ TooLong(s, r)
<1>0. /\ s.rx \in RxBuffer /\ s.nl \in Nat /\ s.skip \in BOOLEAN
      /\ s.full \in BOOLEAN /\ s.back \in BOOLEAN /\ s.stop \in BOOLEAN
  BY WorkIs
<1>1. b.kind \in {"char", "nl", "erase"}
  BY DEF RxByte, Kinds
<1>2. CASE b.kind = "erase"
  <2> DEFINE c == pop(s.rx)  k == (s.back \/ ~ isEmpty(s.rx))
  <2>1. c \in RxBuffer /\ k \in BOOLEAN
    BY <1>0, RxOperations
  <2>2. r = [s EXCEPT !.rx = c, !.back = k]
    BY <1>2 DEF Receive
  <2> HIDE DEF c, k
  <2>3. /\ r \in Work /\ r.stop = s.stop /\ r.nl = s.nl
        /\ r.rx = c /\ r.full = s.full /\ r.back = k
    BY <2>1, <2>2 DEF Work
  <2> QED
    BY <2>3 DEF c, k, Erased
<1>3. CASE b.kind # "erase"
  <2> DEFINE c == queue(s.rx, b)  f == (s.full \/ isFull(s.rx))
      q == IF s.skip THEN s ELSE [s EXCEPT !.rx = queue(@, b), !.full = @ \/ isFull(s.rx)]
  <2>1. c \in RxBuffer /\ f \in BOOLEAN
    BY <1>0, RxOperations
  <2>2. /\ q \in Work /\ q.stop = s.stop /\ q.nl = s.nl /\ (q.full => f)
        /\ Skipped(s, q) \/ Kept(s, q, b)
    <3>1. CASE s.skip
      BY <3>1, <1>0 DEF Skipped
    <3>2. CASE ~ s.skip
      <4>1. q = [s EXCEPT !.rx = c, !.full = f]
        BY <3>2
      <4>2. Kept(s, q, b) <=> q.rx = c /\ q.back = s.back /\ q.full = f
        BY DEF Kept
      <4> HIDE DEF q, c, f
      <4>3. /\ q \in Work /\ q.stop = s.stop /\ q.nl = s.nl
            /\ q.rx = c /\ q.back = s.back /\ q.full = f
        BY <4>1, <2>1 DEF Work
      <4> QED
        BY <4>2, <4>3
    <3> QED
      BY <3>1, <3>2
  <2>3. \/ r = q
        \/ r = [q EXCEPT !.skip = FALSE]
        \/ r = [q EXCEPT !.nl = @ + 1]
        \/ r = Discard(q)
    <3>1. r = CASE b.kind = "nl" /\ q.skip -> [q EXCEPT !.skip = FALSE]
                [] b.kind = "nl" /\ ~ q.skip -> [q EXCEPT !.nl = @ + 1]
                [] b.kind = "char" -> IF isFull(q.rx) /\ q.nl = 0 THEN Discard(q) ELSE q
      BY <1>3 DEF Receive
    <3> HIDE DEF q
    <3>2. b.kind = "nl" \/ b.kind = "char"
      BY <1>1, <1>3
    <3>3. CASE b.kind = "nl" /\ q.skip
      BY <3>1, <3>3
    <3>4. CASE b.kind = "nl" /\ ~ q.skip
      BY <3>1, <3>4
    <3>5. CASE b.kind = "char"
      BY <3>1, <3>5
    <3> QED
      BY <3>2, <3>3, <3>4, <3>5
  <2>4. f => s.full \/ isFull(s.rx)
    OBVIOUS
  <2> HIDE DEF q, c, f
  <2>5. CASE r = q \/ r = [q EXCEPT !.skip = FALSE] \/ r = [q EXCEPT !.nl = @ + 1]
    <3>1. q.nl \in Nat /\ q.nl + 1 \in Nat
      BY <2>2, <1>0
    <3>2. /\ r \in Work /\ r.stop = q.stop /\ r.nl \in {q.nl, q.nl + 1}
          /\ r.rx = q.rx /\ r.full = q.full /\ r.back = q.back
      <4> DEFINE n == q.nl + 1  no == FALSE
      <4>1. n \in Nat /\ no \in BOOLEAN
        BY <3>1
      <4>2. r = q \/ r = [q EXCEPT !.skip = no] \/ r = [q EXCEPT !.nl = n]
        BY <2>5
      <4>3. q.nl + 1 = n
        OBVIOUS
      <4> HIDE DEF n, no
      <4>4. /\ r \in Work /\ r.stop = q.stop /\ r.nl \in {q.nl, n}
            /\ r.rx = q.rx /\ r.full = q.full /\ r.back = q.back
        BY <4>1, <4>2, <2>2 DEF Work
      <4> QED
        BY <4>3, <4>4
    <3>3. Skipped(s, r) \/ Kept(s, r, b)
      BY <2>2, <3>2 DEF Skipped, Kept
    <3> QED
      BY <2>2, <3>2, <3>3
  <2>6. CASE r = Discard(q)
    <3>1. /\ r \in Work /\ r.rx = flush(q.rx) /\ r.full = q.full /\ r.back
          /\ r.nl = q.nl /\ r.stop = q.stop
      BY <2>2, <2>6, DiscardIs
    <3>2. q.rx \in RxBuffer
      BY <2>2, WorkIs
    <3>3. TooLong(s, r)
      BY <2>2, <2>4, <3>1, <3>2 DEF TooLong
    <3> QED
      BY <2>2, <3>1, <3>3
  <2> QED
    BY <2>3, <2>5, <2>6
<1> QED
  BY <1>2, <1>3

\* After i bytes of a packet that was numbered from hi on, when rxbuf was c
During(s, i, c, n, lo, hi) ==
    /\ s \in Work /\ ~ s.stop /\ s.nl <= n + i
    /\ s.rx.read = RxSize => c.read = RxSize
    /\ free(c) >= Packet =>
          /\ ~ s.full
          /\ free(s.rx) >= Packet - i \/ (s.rx.read = RxSize /\ s.back)
          /\ ~ s.back => /\ s.rx.read = c.read /\ available(c) <= available(s.rx)
                         /\ c.read > 0 => s.rx.buf[c.read - 1] = c.buf[c.read - 1]
    /\ Ascending(c, lo, hi) /\ (c.read < RxSize \/ (free(c) >= Packet /\ ~ s.back))
          => Ascending(s.rx, lo, hi + i)

\* The byte that was read last is not overwritten
LEMMA BehindRead ==
    ASSUME NEW c \in RxBuffer, free(c) > 0, c.read > 0
    PROVE  c.read - 1 \in 0 .. RxSize - 1 /\ c.read - 1 # c.write
<1> DEFINE n == RxSize  r == c.read  w == c.write  a == available(c)  f == free(c)
<1>1. /\ n \in Nat /\ n > 1 /\ r \in 0 .. n /\ r > 0 /\ w \in 0 .. n - 1 /\ a \in 0 .. n - 1
      /\ f = n - 1 - a /\ f > 0
      /\ a = IF r = n THEN w ELSE IF w >= r THEN w - r ELSE (n - r) + w
  BY Sizes, BufferIs, Counts DEF RxBuffer
<1> HIDE DEF n, r, w, a, f
<1>2. r - 1 \in 0 .. n - 1 /\ r - 1 # w
  BY ONLY <1>1
<1> QED
  BY <1>2 DEF n, r, w

\* The counts of rxbuf
LEMMA RxCounts ==
    ASSUME NEW c \in RxBuffer
    PROVE  /\ c.read \in 0 .. RxSize /\ c.write \in 0 .. RxSize - 1
           /\ available(c) \in 0 .. RxSize - 1
           /\ free(c) = RxSize - 1 - available(c) /\ free(c) \in 0 .. RxSize - 1
           /\ isFull(c) <=> free(c) = 0 /\ c.read < RxSize
           /\ c.read < RxSize => (isEmpty(c) <=> available(c) = 0)
           /\ c.read = RxSize => ~ isEmpty(c)
<1>1. RxSize \in Nat /\ RxSize > 1 /\ c \in Buffer(RxSize, RxByte)
  BY Sizes DEF RxBuffer
<1>2. c.read \in 0 .. RxSize /\ c.write \in 0 .. RxSize - 1
  BY <1>1, BufferIs
<1>3. c.read = RxSize \/ c.read < RxSize
  BY <1>1, <1>2
<1> QED
  BY <1>1, <1>2, <1>3, Counts

\* ... and what that does to the order of the bytes in rxbuf
LEMMA ByteReceived ==
    ASSUME NEW c \in RxBuffer, NEW n \in Nat, NEW lo \in Nat, NEW hi \in Nat, lo <= hi,
           NEW i \in Nat, i < Packet, NEW s, During(s, i, c, n, lo, hi),
           NEW b \in RxByte, b.id = hi + (i + 1), NEW r, r = Receive(s, b)
    PROVE  During(r, i + 1, c, n, lo, hi)
<1>0. /\ s \in Work /\ s.rx \in RxBuffer /\ s.nl \in Nat /\ s.full \in BOOLEAN
      /\ s.back \in BOOLEAN /\ RxSize \in Nat /\ Packet \in Nat /\ RxSize > Packet
      /\ RxSize > 1
  BY WorkIs, Sizes DEF During
<1>1. /\ r \in Work /\ r.stop = s.stop /\ r.nl \in {s.nl, s.nl + 1}
      /\ Erased(s, r) \/ Skipped(s, r) \/ Kept(s, r, b) \/ TooLong(s, r)
  BY <1>0, ReceiveIs
<1>2. /\ ~ s.stop /\ s.nl <= n + i
      /\ s.rx.read = RxSize => c.read = RxSize
      /\ free(c) >= Packet =>
            /\ ~ s.full
            /\ free(s.rx) >= Packet - i \/ (s.rx.read = RxSize /\ s.back)
            /\ ~ s.back => /\ s.rx.read = c.read /\ available(c) <= available(s.rx)
                           /\ c.read > 0 => s.rx.buf[c.read - 1] = c.buf[c.read - 1]
      /\ Ascending(c, lo, hi) /\ (c.read < RxSize \/ (free(c) >= Packet /\ ~ s.back))
            => Ascending(s.rx, lo, hi + i)
  BY DEF During
<1>3. ~ r.stop /\ r.nl <= n + (i + 1)
  BY <1>0, <1>1, <1>2
<1> DEFINE x == s.rx  y == r.rx
<1>4. /\ x \in RxBuffer /\ y \in RxBuffer
      /\ x.read \in 0 .. RxSize /\ y.read \in 0 .. RxSize /\ c.read \in 0 .. RxSize
      /\ free(x) \in Nat /\ free(y) \in Nat /\ free(c) \in Nat
      /\ available(x) \in Nat /\ available(y) \in Nat /\ available(c) \in Nat
      /\ isFull(x) <=> free(x) = 0 /\ x.read < RxSize
  BY <1>0, <1>1, WorkIs, RxCounts
<1>5. free(c) >= Packet => ~ isFull(x)
  BY <1>0, <1>2, <1>4
<1>6. hi + i \in Nat /\ hi + (i + 1) = (hi + i) + 1 /\ lo <= hi + i
      /\ hi + i <= hi + (i + 1) /\ hi + (i + 1) \in Nat
  OBVIOUS
<1> DEFINE Rest ==
        /\ y.read = RxSize => c.read = RxSize
        /\ free(c) >= Packet =>
              /\ ~ r.full
              /\ free(y) >= Packet - (i + 1) \/ (y.read = RxSize /\ r.back)
              /\ ~ r.back => /\ y.read = c.read /\ available(c) <= available(y)
                             /\ c.read > 0 => y.buf[c.read - 1] = c.buf[c.read - 1]
        /\ Ascending(c, lo, hi) /\ (c.read < RxSize \/ (free(c) >= Packet /\ ~ r.back))
              => Ascending(y, lo, hi + (i + 1))
<1>7. ASSUME y = x, r.full = s.full, r.back = s.back \/ r.back
      PROVE  Rest
  <2>1. Ascending(x, lo, hi + i) => Ascending(y, lo, hi + (i + 1))
    BY <1>4, <1>6, <1>7, FewerAscend
  <2> HIDE DEF x, y
  <2> QED
    BY <1>0, <1>2, <1>4, <1>7, <2>1 DEF x
<1>8. CASE Skipped(s, r)
  BY <1>7, <1>8, <1>1, <1>3 DEF Skipped, During
<1>9. CASE Erased(s, r)
  <2>1. /\ y = pop(x) /\ r.full = s.full /\ r.back = (s.back \/ ~ isEmpty(x))
    BY <1>9 DEF Erased
  <2>2. /\ y.read = x.read /\ (isEmpty(x) => y = x)
        /\ x.read < RxSize /\ ~ isEmpty(x) =>
              available(y) = available(x) - 1 /\ free(y) = free(x) + 1
        /\ \A j : Cell(y, j) = Cell(x, j)
    <3>1. RxSize \in Nat /\ RxSize > 1 /\ WordMod % RxSize = 0 /\ x \in Buffer(RxSize, RxByte)
      BY Sizes, <1>4 DEF RxBuffer
    <3> QED
      BY <2>1, <3>1, PopIs
  <2>3. CASE isEmpty(x)
    <3>1. y = x /\ r.full = s.full /\ r.back = s.back
      BY <2>1, <2>2, <2>3, <1>0
    <3> QED
      BY <3>1, <1>7, <1>1, <1>3 DEF During
  <2>4. CASE ~ isEmpty(x)
    <3>1. r.back
      BY <2>1, <2>4
    <3>2. x.read < RxSize => available(y) <= available(x)
      BY <1>4, <2>2, <2>4
    <3>3. x.read < RxSize /\ Ascending(x, lo, hi + i) => Ascending(y, lo, hi + (i + 1))
      BY <1>4, <1>6, <2>2, <3>2, FewerAscend
    <3>4. free(c) >= Packet => free(y) >= Packet - (i + 1) \/ y.read = RxSize
      BY <1>0, <1>2, <1>4, <2>2, <2>4
    <3>5. x.read = RxSize => c.read = RxSize
      BY <1>2
    <3>6. ASSUME Ascending(c, lo, hi), c.read < RxSize
          PROVE  Ascending(y, lo, hi + (i + 1))
      <4>1. Ascending(x, lo, hi + i)
        BY <1>2, <3>6
      <4>2. x.read < RxSize
        <5> HIDE DEF x, y
        <5> QED
          BY <1>0, <1>4, <3>5, <3>6
      <4> QED
        BY <3>3, <4>1, <4>2
    <3>7. free(c) >= Packet => ~ r.full
      BY <1>2, <2>1
    <3> HIDE DEF x, y
    <3>8. Rest
      BY <2>2, <3>1, <3>4, <3>5, <3>6, <3>7
    <3> QED
      BY <3>8, <1>1, <1>3 DEF During, x, y
  <2> QED
    BY <2>3, <2>4
<1>10. CASE Kept(s, r, b)
  <2>1. y = queue(x, b) /\ r.back = s.back /\ r.full = (s.full \/ isFull(x))
    BY <1>10 DEF Kept
  <2>2. RxSize \in Nat /\ RxSize > 1 /\ x \in Buffer(RxSize, RxByte)
    BY Sizes, <1>4 DEF RxBuffer
  <2>3. /\ y.read = RxSize <=> x.read = RxSize
        /\ ~ isFull(x) => y.read = x.read
        /\ y.buf = [x.buf EXCEPT ![x.write] = b]
    BY <2>1, <2>2, QueueIs
  <2>4. free(x) > 0 =>
            /\ y.read = x.read /\ available(y) = available(x) + 1 /\ free(y) = free(x) - 1
            /\ \A j \in 0 .. RxSize - 1 : j # x.write => y.buf[j] = x.buf[j]
    BY <2>1, <2>2, QueueAppends
  <2>5. ASSUME Ascending(x, lo, hi + i), free(x) > 0 \/ isFull(x)
        PROVE  Ascending(y, lo, hi + (i + 1))
    <3>1. b.id = (hi + i) + 1
      BY <1>6
    <3>2. Ascending(y, lo, (hi + i) + 1)
      <4> HIDE DEF x, y
      <4> QED
        BY <1>4, <1>6, <2>1, <2>5, <3>1, QueueAscends
    <3> QED
      BY <3>2, <1>6
  <2>6. ASSUME free(c) >= Packet
        PROVE  /\ ~ r.full
               /\ free(y) >= Packet - (i + 1) \/ (y.read = RxSize /\ r.back)
               /\ ~ r.back => /\ y.read = c.read /\ available(c) <= available(y)
                              /\ c.read > 0 => y.buf[c.read - 1] = c.buf[c.read - 1]
    <3>1. ~ r.full
      BY <1>2, <1>5, <2>1, <2>6
    <3>2. free(x) > 0 \/ (x.read = RxSize /\ s.back)
      BY <1>0, <1>2, <1>4, <2>6
    <3>3. free(y) >= Packet - (i + 1) \/ (y.read = RxSize /\ r.back)
      BY <1>0, <1>2, <1>4, <2>1, <2>3, <2>4, <2>6
    <3>4. ASSUME ~ r.back
          PROVE  /\ y.read = c.read /\ available(c) <= available(y)
                 /\ c.read > 0 => y.buf[c.read - 1] = c.buf[c.read - 1]
      <4>1. free(x) > 0 /\ x.read = c.read /\ available(c) <= available(x)
            /\ (c.read > 0 => x.buf[c.read - 1] = c.buf[c.read - 1])
        BY <1>2, <2>1, <2>6, <3>2, <3>4
      <4>2. c.read > 0 => c.read - 1 \in 0 .. RxSize - 1 /\ c.read - 1 # x.write
        BY <1>4, <4>1, BehindRead
      <4> HIDE DEF x, y
      <4> QED
        BY <1>4, <2>4, <4>1, <4>2
    <3> QED
      BY <3>1, <3>3, <3>4
  <2>7. ASSUME Ascending(c, lo, hi), c.read < RxSize \/ (free(c) >= Packet /\ ~ r.back)
        PROVE  Ascending(y, lo, hi + (i + 1))
    <3>1. Ascending(x, lo, hi + i)
      BY <1>2, <2>1, <2>7
    <3>2. free(x) > 0 \/ isFull(x)
      BY <1>0, <1>2, <1>4, <2>1, <2>7
    <3> QED
      BY <2>5, <3>1, <3>2
  <2>8. y.read = RxSize => c.read = RxSize
    BY <1>2, <2>3
  <2> QED
    BY <2>6, <2>7, <2>8, <1>1, <1>3 DEF During
<1>11. CASE TooLong(s, r)
  <2>1. PICK d \in RxBuffer : y = flush(d)
    BY <1>11 DEF TooLong
  <2>2. r.back /\ (r.full => s.full \/ isFull(x))
    BY <1>11 DEF TooLong
  <2>3. y.read < RxSize /\ available(y) = 0 /\ free(y) = RxSize - 1
    BY <2>1, Sizes, FlushIs DEF RxBuffer
  <2>4. Ascending(y, lo, hi + (i + 1))
    BY <1>4, <2>3, NoneAscend
  <2>5. free(c) >= Packet => ~ r.full
    BY <1>2, <1>5, <2>2
  <2>6. y.read # RxSize /\ free(y) >= Packet - (i + 1)
    BY <1>0, <1>4, <2>3
  <2> QED
    BY <2>2, <2>4, <2>5, <2>6, <1>1, <1>3 DEF During
<1> QED
  BY <1>1, <1>8, <1>9, <1>10, <1>11

---------------------------------------------------------------------------
(* Induction over the numbers, and what a packet does *)

\* < on the numbers is well-founded
LEMMA NatWF == IsWellFoundedOn(OpToRel(<, Nat), Nat)
BY NatLessThanWellFounded

\* A nonempty set of numbers has a least one
LEMMA Least ==
    ASSUME NEW S, S \subseteq Nat, S # {}
    PROVE  \E m \in S : \A n \in S : m <= n
<1>1. PICK m \in S : \A n \in S : ~ (<<n, m>> \in OpToRel(<, Nat))
  BY ONLY S \subseteq Nat, S # {}, NatWF, WFMin
<1>2. \A n \in S : ~ (n < m)
  BY <1>1 DEF OpToRel
<1> QED
  BY <1>2

\* Induction, over a set in the place of a predicate
LEMMA Induction ==
    ASSUME NEW S, 0 \in S, \A n \in Nat : n \in S => n + 1 \in S
    PROVE  Nat \subseteq S
<1> SUFFICES ASSUME Nat \ S # {}
             PROVE  FALSE
  OBVIOUS
<1>1. PICK m \in Nat \ S : \A n \in Nat \ S : m <= n
  <2> DEFINE U == Nat \ S
  <2>1. U \subseteq Nat /\ U # {}
    OBVIOUS
  <2>2. \E m \in U : \A n \in U : m <= n
    <3> HIDE DEF U
    <3> QED
      BY ONLY <2>1, Least
  <2> QED
    BY <2>2
<1>2. m \in Nat /\ m # 0 /\ m - 1 \in Nat
  BY <1>1
<1>3. m - 1 \in S
  BY <1>1, <1>2
<1> QED
  BY <1>1, <1>2, <1>3

\* The loop starts with this, and is a recursive function
Unpacked == [rx |-> rx, nl |-> nl_in_rx, skip |-> flags.flush_to_nl,
             full |-> FALSE, back |-> FALSE, stop |-> FALSE]
AfterBytes(p, f) ==
    f = [i \in 0 .. Len(p) |-> IF i = 0 THEN Unpacked ELSE Receive(f[i - 1], p[i])]

\* which there is,
LEMMA AfterBytesExists ==
    ASSUME NEW p, Len(p) \in Nat
    PROVE  \E f : AfterBytes(p, f)
<1> DEFINE Next1(u, i) == Receive(u, p[i])
           To(n, f) == f = [i \in 0 .. n |-> IF i = 0 THEN Unpacked ELSE Next1(f[i - 1], i)]
           Reached == {n \in Nat : \E f : To(n, f)}
<1>1. 0 \in Reached
  <2>1. To(0, [i \in 0 .. 0 |-> Unpacked])
    OBVIOUS
  <2> QED
    BY <2>1
<1>2. ASSUME NEW n \in Nat, n \in Reached
      PROVE  n + 1 \in Reached
  <2>1. PICK f : To(n, f)
    BY <1>2
  <2> HIDE DEF Next1
  <2> DEFINE g == [i \in 0 .. n + 1 |-> IF i = n + 1 THEN Next1(f[n], n + 1) ELSE f[i]]
             G(i) == IF i = 0 THEN Unpacked ELSE Next1(g[i - 1], i)
  <2>2. \A i \in 0 .. n + 1 : i # 0 => i - 1 \in 0 .. n /\ g[i - 1] = f[i - 1]
    OBVIOUS
  <2>3. \A i \in 0 .. n : f[i] = IF i = 0 THEN Unpacked ELSE Next1(f[i - 1], i)
    BY <2>1
  <2>4. ASSUME NEW i \in 0 .. n + 1
        PROVE  g[i] = G(i)
    <3>1. CASE i = n + 1
      <4>1. g[i] = Next1(f[n], i) /\ g[i - 1] = f[n] /\ i # 0
        BY <3>1, <2>2
      <4> QED
        BY <4>1
    <3>2. CASE i # n + 1
      <4>1. i \in 0 .. n /\ g[i] = f[i]
        BY <3>2
      <4> HIDE DEF g
      <4> QED
        BY <4>1, <2>2, <2>3
    <3> QED
      BY <3>1, <3>2
  <2>5. g = [i \in 0 .. n + 1 |-> G(i)]
    <3>1. g = [i \in 0 .. n + 1 |-> g[i]]
      OBVIOUS
    <3> HIDE DEF g, G
    <3> QED
      BY <2>4, <3>1
  <2>6. To(n + 1, g)
    BY <2>5
  <2> HIDE DEF To
  <2> QED
    BY <2>6
<1>3. Nat \subseteq Reached
  <2> HIDE DEF Reached
  <2> QED
    BY ONLY <1>1, <1>2, Induction
<1>4. \E f : To(Len(p), f)
  BY <1>3
<1> QED
  BY <1>4 DEF AfterBytes

\* and of which the handler takes the last value
LEMMA PackedDef ==
    ASSUME NEW p
    PROVE  Packed(p) = LET s == (CHOOSE f : AfterBytes(p, f))[Len(p)]
                       IN  IF free(s.rx) >= Packet THEN s
                           ELSE IF s.nl = 0 THEN Discard(s) ELSE [s EXCEPT !.stop = TRUE]
BY DEF Packed, AfterBytes, Unpacked

\* What the bytes of a packet, numbered from hi on, may do to rxbuf
Packs(s, len, lo, hi) ==
    /\ s \in Work /\ s.nl <= nl_in_rx + len
    /\ s.rx.read = RxSize => rx.read = RxSize
    /\ s.stop <=> free(s.rx) < Packet
    /\ free(rx) >= Packet =>
          /\ ~ s.full
          /\ ~ s.back => /\ s.rx.read = rx.read /\ available(rx) <= available(s.rx)
                         /\ rx.read > 0 => s.rx.buf[rx.read - 1] = rx.buf[rx.read - 1]
    /\ Ascending(rx, lo, hi) /\ (rx.read < RxSize \/ (free(rx) >= Packet /\ ~ s.back))
          => Ascending(s.rx, lo, hi + len)

Fits(p, lo, hi) ==
    /\ rx \in RxBuffer /\ nl_in_rx \in Nat /\ flags \in Flags
    /\ p \in Seq(RxByte) /\ Numbered(p, hi) /\ lo \in Nat /\ hi \in Nat /\ lo <= hi

\* The loop
LEMMA LoopPacks ==
    ASSUME NEW p, NEW lo, NEW hi, Fits(p, lo, hi), NEW f, AfterBytes(p, f)
    PROVE  During(f[Len(p)], Len(p), rx, nl_in_rx, lo, hi)
<1>0. /\ rx \in RxBuffer /\ nl_in_rx \in Nat /\ flags \in Flags /\ lo \in Nat /\ hi \in Nat
      /\ lo <= hi /\ Len(p) \in Nat /\ Len(p) <= Packet /\ Packet \in Nat
      /\ RxSize \in Nat /\ available(rx) \in Nat /\ free(rx) \in Nat
      /\ \A i \in 1 .. Len(p) : p[i] \in RxByte /\ p[i].id = hi + i
  BY Sizes, RxCounts DEF Fits, Numbered
<1> DEFINE Good(n) == During(f[n], n, rx, nl_in_rx, lo, hi)
           Reached == {n \in Nat : n <= Len(p) => Good(n)}
<1>1. f[0] = Unpacked
  BY <1>0 DEF AfterBytes
<1>2. 0 \in Reached
  <2> DEFINE u == f[0]
  <2>1. /\ u \in Work /\ u.rx = rx /\ u.nl = nl_in_rx /\ ~ u.full /\ ~ u.back /\ ~ u.stop
    <3> DEFINE no == FALSE  fl == flags.flush_to_nl
    <3>1. no \in BOOLEAN /\ fl \in BOOLEAN
      BY <1>0 DEF Flags
    <3>2. u = [rx |-> rx, nl |-> nl_in_rx, skip |-> fl, full |-> no, back |-> no, stop |-> no]
      BY <1>1 DEF Unpacked
    <3>3. ~ no
      OBVIOUS
    <3> HIDE DEF no, fl, u
    <3> QED
      BY <1>0, <3>1, <3>2, <3>3 DEF Work
  <2> HIDE DEF u
  <2>2. During(u, 0, rx, nl_in_rx, lo, hi)
    BY <1>0, <2>1 DEF During
  <2> QED
    BY <2>2 DEF u
<1>3. ASSUME NEW n \in Nat, n \in Reached
      PROVE  n + 1 \in Reached
  <2> SUFFICES ASSUME n + 1 <= Len(p)
               PROVE  Good(n + 1)
    OBVIOUS
  <2>1. Good(n) /\ n < Packet /\ p[n + 1] \in RxByte /\ p[n + 1].id = hi + (n + 1)
    BY <1>0, <1>3
  <2>2. f[n + 1] = Receive(f[n], p[n + 1])
    <3>1. n + 1 \in 0 .. Len(p) /\ n + 1 # 0 /\ (n + 1) - 1 = n
      BY <1>0
    <3> QED
      BY <3>1 DEF AfterBytes
  <2> DEFINE u == f[n]  b == p[n + 1]  v == f[n + 1]
  <2>3. During(u, n, rx, nl_in_rx, lo, hi) /\ b \in RxByte /\ b.id = hi + (n + 1)
        /\ v = Receive(u, b)
    BY <2>1, <2>2
  <2> HIDE DEF u, b, v
  <2>4. During(v, n + 1, rx, nl_in_rx, lo, hi)
    BY ONLY <1>0, <2>1, <2>3, n \in Nat, ByteReceived
  <2> QED
    BY <2>4 DEF v
<1>4. Nat \subseteq Reached
  <2> HIDE DEF Reached
  <2> QED
    BY ONLY <1>2, <1>3, Induction
<1> QED
  BY <1>0, <1>4

\* The whole handler
LEMMA PackedIs ==
    ASSUME NEW p, NEW lo, NEW hi, Fits(p, lo, hi)
    PROVE  Packs(Packed(p), Len(p), lo, hi)
<1> DEFINE f == CHOOSE g : AfterBytes(p, g)
           s == f[Len(p)]
           r == Packed(p)
           len == Len(p)
<1>0. /\ rx \in RxBuffer /\ nl_in_rx \in Nat /\ len \in Nat /\ len <= Packet /\ Packet \in Nat
      /\ RxSize \in Nat /\ RxSize > Packet /\ available(rx) \in Nat /\ free(rx) \in Nat
      /\ lo \in Nat /\ hi \in Nat
  BY Sizes, RxCounts DEF Fits, Numbered
<1>1. AfterBytes(p, f)
  BY <1>0, AfterBytesExists
<1>2. During(s, len, rx, nl_in_rx, lo, hi)
  <2> HIDE DEF f
  <2> QED
    BY <1>1, LoopPacks
<1>3. r = IF free(s.rx) >= Packet THEN s
          ELSE IF s.nl = 0 THEN Discard(s) ELSE [s EXCEPT !.stop = TRUE]
  BY PackedDef
<1> SUFFICES Packs(r, len, lo, hi)
  OBVIOUS
<1> HIDE DEF f, s, r, len
<1>4. /\ s \in Work /\ s.rx \in RxBuffer /\ s.nl \in Nat /\ ~ s.stop /\ s.nl <= nl_in_rx + len
      /\ free(s.rx) \in Nat
  BY <1>2, WorkIs, RxCounts DEF During
<1> DEFINE Does(u) ==
        /\ u.rx.read = RxSize => rx.read = RxSize
        /\ free(rx) >= Packet =>
              /\ ~ u.full
              /\ ~ u.back => /\ u.rx.read = rx.read /\ available(rx) <= available(u.rx)
                             /\ rx.read > 0 => u.rx.buf[rx.read - 1] = rx.buf[rx.read - 1]
        /\ Ascending(rx, lo, hi) /\ (rx.read < RxSize \/ (free(rx) >= Packet /\ ~ u.back))
              => Ascending(u.rx, lo, hi + len)
<1>5. Does(s)
  BY <1>2 DEF During
<1>6. ASSUME r \in Work, r.nl <= nl_in_rx + len, r.stop <=> free(r.rx) < Packet, Does(r)
      PROVE  Packs(r, len, lo, hi)
  BY <1>6 DEF Packs
<1>7. CASE free(s.rx) >= Packet
  <2>1. r = s
    BY <1>3, <1>7
  <2>2. r \in Work /\ r.nl <= nl_in_rx + len /\ ~ r.stop
    BY <1>4, <2>1
  <2>3. ~ (free(r.rx) < Packet)
    BY <1>0, <1>4, <1>7, <2>1
  <2>4. Does(r)
    BY <1>5, <2>1
  <2> HIDE DEF Does
  <2> QED
    BY <1>6, <2>2, <2>3, <2>4
<1>8. CASE ~ free(s.rx) >= Packet /\ s.nl = 0
  <2>1. /\ r \in Work /\ r.rx = flush(s.rx) /\ r.full = s.full /\ r.back
        /\ r.nl = s.nl /\ r.stop = s.stop
    BY <1>3, <1>4, <1>8, DiscardIs
  <2>2. r.rx \in RxBuffer /\ r.rx.read < RxSize /\ available(r.rx) = 0 /\ free(r.rx) = RxSize - 1
    BY <1>4, <2>1, Sizes, FlushIs DEF RxBuffer
  <2>3. Ascending(r.rx, lo, hi + len)
    BY <2>2, NoneAscend
  <2>4. free(r.rx) >= Packet /\ ~ (free(r.rx) < Packet) /\ r.rx.read # RxSize
    BY <1>0, <2>2
  <2>5. free(rx) >= Packet => ~ r.full
    BY <1>2, <2>1 DEF During
  <2>6. r.nl <= nl_in_rx + len /\ ~ r.stop
    BY <1>4, <2>1
  <2>7. Does(r)
    BY <2>1, <2>3, <2>4, <2>5
  <2> HIDE DEF Does
  <2> QED
    BY <1>6, <2>1, <2>4, <2>6, <2>7
<1>9. CASE ~ free(s.rx) >= Packet /\ s.nl # 0
  <2> DEFINE yes == TRUE
  <2>1. r = [s EXCEPT !.stop = yes] /\ yes \in BOOLEAN /\ yes
    BY <1>3, <1>9
  <2> HIDE DEF yes
  <2>2. /\ r \in Work /\ r.rx = s.rx /\ r.full = s.full /\ r.back = s.back
        /\ r.nl = s.nl /\ r.stop
    BY <1>4, <2>1 DEF Work
  <2>3. free(r.rx) < Packet
    BY <1>0, <1>4, <1>9, <2>2
  <2>4. r.nl <= nl_in_rx + len
    BY <1>4, <2>2
  <2>5. Does(r)
    BY <1>5, <2>2
  <2> HIDE DEF Does
  <2> QED
    BY <1>6, <2>2, <2>3, <2>4, <2>5
<1> QED
  BY <1>7, <1>8, <1>9
---------------------------------------------------------------------------
(* The bytes under way, in a row *)

\* Concatenation, cell by cell
LEMMA Concat ==
    ASSUME NEW S, NEW s \in Seq(S), NEW t \in Seq(S)
    PROVE  /\ s \o t \in Seq(S) /\ Len(s \o t) = Len(s) + Len(t)
           /\ \A i \in 1 .. Len(s) : (s \o t)[i] = s[i]
           /\ \A i \in 1 .. Len(t) : (s \o t)[Len(s) + i] = t[i]
BY ConcatProperties

\* Concatenation is associative
LEMMA Associative ==
    ASSUME NEW S, NEW s \in Seq(S), NEW t \in Seq(S), NEW u \in Seq(S)
    PROVE  (s \o t) \o u = s \o (t \o u)
BY ConcatAssociative

\* ... for bytes to the host
LEMMA Regroup ==
    ASSUME NEW s \in Seq(Nat), NEW t \in Seq(Nat), NEW u \in Seq(Nat)
    PROVE  (s \o t) \o u = s \o (t \o u)
BY Associative

\* ... of bytes to the host
LEMMA Joins ==
    /\ \A s, t \in Seq(Nat) :
          /\ s \o t \in Seq(Nat) /\ Len(s \o t) = Len(s) + Len(t)
          /\ \A i \in 1 .. Len(s) : (s \o t)[i] = s[i]
          /\ \A i \in 1 .. Len(t) : (s \o t)[Len(s) + i] = t[i]
    /\ \A s, t, u \in Seq(Nat) : (s \o t) \o u = s \o (t \o u)
<1>1. ASSUME NEW s \in Seq(Nat), NEW t \in Seq(Nat)
      PROVE  /\ s \o t \in Seq(Nat) /\ Len(s \o t) = Len(s) + Len(t)
             /\ \A i \in 1 .. Len(s) : (s \o t)[i] = s[i]
             /\ \A i \in 1 .. Len(t) : (s \o t)[Len(s) + i] = t[i]
  BY Concat
<1>2. ASSUME NEW s \in Seq(Nat), NEW t \in Seq(Nat), NEW u \in Seq(Nat)
      PROVE  (s \o t) \o u = s \o (t \o u)
  BY Associative
<1> QED
  BY <1>1, <1>2

\* The empty sequence is neutral
LEMMA EmptyConcat ==
    ASSUME NEW S, NEW s \in Seq(S)
    PROVE  s \o << >> = s /\ << >> \o s = s
BY ConcatEmptySeq

\* The first, the others, and one more
LEMMA Row ==
    ASSUME NEW T, NEW f \in Seq(T)
    PROVE  /\ Len(f) \in Nat /\ (f = << >> <=> Len(f) = 0)
           /\ \A i \in 1 .. Len(f) : f[i] \in T
           /\ f # << >> => /\ Head(f) = f[1] /\ Head(f) \in T /\ Tail(f) \in Seq(T)
                           /\ Len(Tail(f)) = Len(f) - 1
                           /\ \A i \in 1 .. Len(Tail(f)) : Tail(f)[i] = f[i + 1]
           /\ \A e \in T : /\ Append(f, e) \in Seq(T) /\ Len(Append(f, e)) = Len(f) + 1
                            /\ Append(f, e)[Len(f) + 1] = e
                            /\ \A i \in 1 .. Len(f) : Append(f, e)[i] = f[i]
<1>1. Len(f) \in Nat /\ (f = << >> <=> Len(f) = 0)
  BY EmptySeq, LenProperties
<1>2. \A i \in 1 .. Len(f) : f[i] \in T
  BY ElementOfSeq
<1>3. f # << >> => /\ Head(f) = f[1] /\ Head(f) \in T /\ Tail(f) \in Seq(T)
                   /\ Len(Tail(f)) = Len(f) - 1
                   /\ \A i \in 1 .. Len(Tail(f)) : Tail(f)[i] = f[i + 1]
  BY HeadTailProperties
<1>4. \A e \in T : /\ Append(f, e) \in Seq(T) /\ Len(Append(f, e)) = Len(f) + 1
                   /\ Append(f, e)[Len(f) + 1] = e
                   /\ \A i \in 1 .. Len(f) : Append(f, e)[i] = f[i]
  BY AppendProperties
<1> QED
  BY <1>1, <1>2, <1>3, <1>4

\* FlattenSeq of as many packets as the controller holds
Joined(s, t) == s \o t
FlattenFn(f, g) == g = [i \in 1 .. Len(f) |-> IF i = 1 THEN f[i] ELSE Joined(g[i - 1], f[i])]

\* FlattenSeq with the function it chooses named
LEMMA FlattenDef ==
    ASSUME NEW f
    PROVE  FlattenSeq(f) = IF Len(f) = 0 THEN f ELSE (CHOOSE g : FlattenFn(f, g))[Len(f)]
BY DEF FlattenSeq, FlattenFn, Joined

\* FlattenSeq of the at most two packets the controller holds
LEMMA Flattened ==
    ASSUME NEW f, Len(f) = 0 => f = << >>
    PROVE  /\ Len(f) = 0 => FlattenSeq(f) = << >>
           /\ Len(f) = 1 => FlattenSeq(f) = f[1]
           /\ Len(f) = 2 => FlattenSeq(f) = f[1] \o f[2]
<1> DEFINE g == CHOOSE k : FlattenFn(f, k)
           x == f[1]
           y == Joined(f[1], f[2])
           h == [i \in 1 .. 2 |-> IF i = 1 THEN x ELSE y]
<1>1. Len(f) = 0 => FlattenSeq(f) = << >>
  BY FlattenDef
<1>2. ASSUME Len(f) = 1
      PROVE  FlattenSeq(f) = f[1]
  <2>1. FlattenFn(f, [i \in 1 .. 1 |-> f[1]])
    BY <1>2 DEF FlattenFn
  <2>2. FlattenFn(f, g)
    BY <2>1
  <2>3. FlattenSeq(f) = g[1]
    <3>1. FlattenSeq(f) = IF Len(f) = 0 THEN f ELSE g[Len(f)]
      BY FlattenDef
    <3> HIDE DEF g
    <3> QED
      BY <1>2, <3>1
  <2> HIDE DEF g
  <2>4. g[1] = f[1]
    BY <1>2, <2>2 DEF FlattenFn
  <2> QED
    BY <2>3, <2>4
<1>3. ASSUME Len(f) = 2
      PROVE  FlattenSeq(f) = f[1] \o f[2]
  <2>1. FlattenFn(f, h)
    <3>1. h[1] = x /\ h[2] = y
      <4> HIDE DEF x, y
      <4> QED
        OBVIOUS
    <3>2. \A i \in 1 .. 2 : i = 1 \/ (i = 2 /\ i # 1 /\ i - 1 = 1)
      OBVIOUS
    <3>3. h = [i \in 1 .. 2 |-> h[i]]
      OBVIOUS
    <3> HIDE DEF h
    <3>4. \A i \in 1 .. 2 : h[i] = IF i = 1 THEN f[i] ELSE Joined(h[i - 1], f[i])
      BY <3>1, <3>2
    <3>5. h = [i \in 1 .. 2 |-> IF i = 1 THEN f[i] ELSE Joined(h[i - 1], f[i])]
      BY <3>3, <3>4
    <3> QED
      BY <1>3, <3>5 DEF FlattenFn
  <2>2. FlattenFn(f, g)
    <3> HIDE DEF h
    <3> QED
      BY <2>1
  <2>3. FlattenSeq(f) = g[2]
    <3>1. Len(f) # 0 /\ FlattenSeq(f) = IF Len(f) = 0 THEN f ELSE g[Len(f)]
      BY <1>3, FlattenDef
    <3> HIDE DEF g
    <3> QED
      BY <1>3, <3>1
  <2> HIDE DEF g, h
  <2>4. \A i \in 1 .. 2 : g[i] = IF i = 1 THEN f[i] ELSE Joined(g[i - 1], f[i])
    BY <1>3, <2>2 DEF FlattenFn
  <2>5. g[1] = f[1]
    BY <2>4
  <2>6. g[2] = Joined(g[2 - 1], f[2]) /\ 2 - 1 = 1
    BY <2>4
  <2>7. g[2] = Joined(f[1], f[2])
    BY <2>5, <2>6
  <2> QED
    BY <2>3, <2>7 DEF Joined
<1> QED
  BY <1>1, <1>2, <1>3

\* A packet that leaves at the front, and one that joins at the end
LEMMA FlattenTail ==
    ASSUME NEW S, NEW f \in Seq(Seq(S)), Len(f) <= 2, f # << >>
    PROVE  /\ FlattenSeq(f) \in Seq(S) /\ FlattenSeq(Tail(f)) \in Seq(S)
           /\ Head(f) \in Seq(S) /\ Tail(f) \in Seq(Seq(S)) /\ Len(Tail(f)) = Len(f) - 1
           /\ FlattenSeq(f) = Head(f) \o FlattenSeq(Tail(f))
<1> DEFINE T == Seq(S)  t == Tail(f)
<1>1. /\ Len(f) \in {1, 2} /\ t \in Seq(T) /\ Head(f) = f[1] /\ Head(f) \in T
      /\ Len(t) = Len(f) - 1 /\ \A i \in 1 .. Len(t) : t[i] = f[i + 1]
      /\ \A i \in 1 .. Len(f) : f[i] \in T
      /\ Len(f) = 0 => f = << >>
      /\ Len(t) = 0 => t = << >>
  <2>1. f \in Seq(T)
    OBVIOUS
  <2> HIDE DEF T
  <2>2. /\ Len(f) \in Nat /\ Len(f) # 0 /\ t \in Seq(T) /\ Head(f) = f[1] /\ Head(f) \in T
        /\ Len(t) = Len(f) - 1 /\ \A i \in 1 .. Len(t) : t[i] = f[i + 1]
        /\ \A i \in 1 .. Len(f) : f[i] \in T
    BY ONLY <2>1, f # << >>, Row DEF t
  <2> HIDE DEF t
  <2>3. Len(t) = 0 => t = << >>
    BY ONLY <2>2, Row
  <2>4. Len(f) \in {1, 2}
    BY <2>2
  <2>5. Len(f) # 0
    BY <2>2
  <2> QED
    BY ONLY <2>2, <2>3, <2>4, <2>5
<1>2. CASE Len(f) = 1
  <2>1. Len(t) = 0
    <3> HIDE DEF t, T
    <3> QED
      BY ONLY <1>1, <1>2
  <2>2. FlattenSeq(f) = f[1]
    BY ONLY <1>1, <1>2, Flattened
  <2>3. FlattenSeq(t) = << >>
    <3> HIDE DEF t
    <3> QED
      BY ONLY <1>1, <2>1, Flattened
  <2>4. << >> \in Seq(S) /\ Head(f) \o << >> = Head(f)
    BY <1>1, EmptyConcat, EmptySeq
  <2> HIDE DEF t
  <2> QED
    BY <1>1, <2>2, <2>3, <2>4 DEF t
<1>3. CASE Len(f) = 2
  <2>1. Len(t) = 1 /\ Len(t) <= 2 /\ t[1] = f[2] /\ f[1] \in T /\ f[2] \in T
    <3> HIDE DEF t, T
    <3>1. Len(t) = 1 /\ Len(t) <= 2
      BY <1>1, <1>3
    <3>2. t[1] = f[1 + 1] /\ 1 + 1 = 2
      BY <1>1, <3>1
    <3> QED
      BY <1>1, <1>3, <3>1, <3>2
  <2>2. FlattenSeq(f) = f[1] \o f[2]
    BY ONLY <1>1, <1>3, Flattened
  <2>3. FlattenSeq(t) = t[1]
    <3> HIDE DEF t
    <3> QED
      BY ONLY <1>1, <2>1, Flattened
  <2>4. f[1] \o f[2] \in Seq(S)
    BY <2>1, ConcatProperties
  <2> HIDE DEF t
  <2>5. FlattenSeq(f) \in Seq(S) /\ FlattenSeq(t) \in Seq(S)
        /\ FlattenSeq(f) = Head(f) \o FlattenSeq(t)
    BY <1>1, <2>1, <2>2, <2>3, <2>4
  <2> QED
    BY <1>1, <2>5 DEF t
<1> QED
  BY <1>1, <1>2, <1>3

\* ... with one packet more
LEMMA FlattenAppend ==
    ASSUME NEW S, NEW f \in Seq(Seq(S)), Len(f) < 2, NEW b \in Seq(S)
    PROVE  /\ FlattenSeq(f) \in Seq(S) /\ Append(f, b) \in Seq(Seq(S))
           /\ Len(Append(f, b)) = Len(f) + 1
           /\ FlattenSeq(Append(f, b)) = FlattenSeq(f) \o b
<1> DEFINE T == Seq(S)  t == Append(f, b)
<1>1. /\ Len(f) \in {0, 1} /\ t \in Seq(T) /\ Len(t) = Len(f) + 1
      /\ t[Len(f) + 1] = b /\ \A i \in 1 .. Len(f) : t[i] = f[i]
      /\ \A i \in 1 .. Len(f) : f[i] \in T
      /\ Len(f) = 0 => f = << >>
      /\ Len(t) = 0 => t = << >>
  <2>1. f \in Seq(T) /\ b \in T
    OBVIOUS
  <2> HIDE DEF T
  <2>2. /\ Len(f) \in Nat /\ t \in Seq(T) /\ Len(t) = Len(f) + 1
        /\ t[Len(f) + 1] = b /\ \A i \in 1 .. Len(f) : t[i] = f[i]
        /\ \A i \in 1 .. Len(f) : f[i] \in T
        /\ Len(f) = 0 => f = << >>
    BY ONLY <2>1, Row DEF t
  <2> HIDE DEF t
  <2>3. Len(f) \in {0, 1}
    <3> DEFINE l == Len(f)
    <3>1. l \in Nat /\ l < 2
      BY <2>2
    <3> HIDE DEF l
    <3>2. l \in {0, 1}
      BY ONLY <3>1
    <3> QED
      BY <3>2 DEF l
  <2>4. Len(t) # 0
    BY ONLY <2>2
  <2> QED
    BY ONLY <2>2, <2>3, <2>4
<1>2. CASE Len(f) = 0
  <2>1. Len(t) = 1 /\ Len(t) <= 2 /\ t[1] = b
    <3> HIDE DEF t, T
    <3> QED
      BY <1>1, <1>2
  <2>2. FlattenSeq(f) = << >>
    BY ONLY <1>1, <1>2, Flattened
  <2>3. FlattenSeq(t) = t[1]
    <3> HIDE DEF t
    <3> QED
      BY ONLY <1>1, <2>1, Flattened
  <2>4. << >> \in Seq(S) /\ << >> \o b = b
    BY EmptyConcat, EmptySeq
  <2> HIDE DEF t
  <2> QED
    BY <1>1, <2>1, <2>2, <2>3, <2>4 DEF t
<1>3. CASE Len(f) = 1
  <2>1. Len(t) = 2 /\ Len(t) <= 2 /\ t[1] = f[1] /\ t[2] = b /\ f[1] \in T
    <3> HIDE DEF t, T
    <3>1. Len(t) = 2 /\ Len(t) <= 2
      BY <1>1, <1>3
    <3>2. t[1 + 1] = b /\ 1 + 1 = 2
      BY <1>1, <1>3
    <3> QED
      BY <1>1, <1>3, <3>1, <3>2
  <2>2. FlattenSeq(f) = f[1]
    BY ONLY <1>1, <1>3, Flattened
  <2>3. FlattenSeq(t) = t[1] \o t[2]
    <3> HIDE DEF t
    <3> QED
      BY ONLY <1>1, <2>1, Flattened
  <2> HIDE DEF t
  <2> QED
    BY <1>1, <2>1, <2>2, <2>3 DEF t
<1> QED
  BY <1>1, <1>2, <1>3

\* The bytes in a queue
LEMMA ContentsIs ==
    ASSUME NEW n \in Nat, n > 1, NEW Byte, NEW c \in Buffer(n, Byte)
    PROVE  /\ Contents(c) \in Seq(Byte) /\ Len(Contents(c)) = available(c)
           /\ \A i \in 1 .. available(c) : Contents(c)[i] = Cell(c, i - 1)
<1>1. available(c) \in 0 .. n - 1 /\ c.size = n /\ c.read \in 0 .. n
  BY Counts, BufferIs
<1>2. \A i \in 1 .. available(c) : /\ i - 1 \in 0 .. n - 1
                                   /\ c.buf[(c.read + i - 1) % c.size] = Cell(c, i - 1)
  <2>1. \A i \in 1 .. available(c) : i - 1 \in 0 .. n - 1 /\ c.read + i - 1 = c.read + (i - 1)
    BY <1>1
  <2> QED
    BY <2>1 DEF Cell
<1>3. \A i \in 1 .. available(c) : Cell(c, i - 1) \in Byte
  BY <1>2, Slots
<1>4. Contents(c) = [i \in 1 .. available(c) |-> Cell(c, i - 1)]
  BY <1>2 DEF Contents
<1> HIDE DEF Contents
<1> QED
  BY <1>1, <1>3, <1>4

TxBuffer == Buffer(TxSize, 0 .. MaxTx)

\* Contents is the cells of txbuf from the first on
LEMMA TxContents ==
    ASSUME NEW c \in TxBuffer
    PROVE  /\ Contents(c) \in Seq(Nat) /\ Len(Contents(c)) = available(c)
           /\ available(c) \in Nat
           /\ \A i \in 1 .. available(c) : Contents(c)[i] = Cell(c, i - 1)
<1> DEFINE Byte == 0 .. MaxTx
<1>1. c \in Buffer(TxSize, Byte) /\ TxSize \in Nat /\ TxSize > 1 /\ Byte \subseteq Nat
  BY Sizes DEF TxBuffer
<1> HIDE DEF Byte
<1>2. /\ Contents(c) \in Seq(Byte) /\ Len(Contents(c)) = available(c)
      /\ \A i \in 1 .. available(c) : Contents(c)[i] = Cell(c, i - 1)
  BY ONLY <1>1, ContentsIs
<1>3. Contents(c) \in Seq(Nat)
  BY ONLY <1>1, <1>2, SeqMonotonic
<1>4. available(c) \in Nat
  BY <1>2, LenProperties
<1> QED
  BY <1>2, <1>3, <1>4

\* What the host has, the packets in the controller, a packet half built, txbuf
Stream(h, f, b, c) == h \o ((FlattenSeq(f) \o b) \o Contents(c))

\* TxExact in terms of the stream of bytes
LEMMA ExactIs ==
    TxExact <=> reentered \/ Stream(host, fifo.in, me.b, tx) = [i \in 1 .. accepted |-> i]
BY DEF TxExact, InFlight, Stream, me

\* The host takes a packet: the stream is the same
LEMMA StreamTaken ==
    ASSUME NEW h \in Seq(Nat), NEW f \in Seq(Seq(Nat)), Len(f) <= 2, f # << >>,
           NEW b \in Seq(Nat), NEW c \in TxBuffer
    PROVE  Stream(h \o Head(f), Tail(f), b, c) = Stream(h, f, b, c)
<1> DEFINE x == Head(f)  F == FlattenSeq(Tail(f))  C == Contents(c)  G == FlattenSeq(f)
<1>1. x \in Seq(Nat) /\ F \in Seq(Nat) /\ G = x \o F
  BY FlattenTail
<1>2. C \in Seq(Nat)
  BY TxContents
<1>3. Stream(h, f, b, c) = h \o ((G \o b) \o C)
  BY DEF Stream
<1>4. Stream(h \o x, Tail(f), b, c) = (h \o x) \o ((F \o b) \o C)
  BY DEF Stream
<1> HIDE DEF x, F, C, G
<1>5. F \o b \in Seq(Nat) /\ (F \o b) \o C \in Seq(Nat)
  BY <1>1, <1>2, Concat
<1>6. x \in Seq(Nat) /\ F \in Seq(Nat)
  BY <1>1
<1>7. (h \o x) \o ((F \o b) \o C) = h \o (x \o ((F \o b) \o C))
  <2> DEFINE Y == (F \o b) \o C
  <2>1. Y \in Seq(Nat)
    BY <1>5
  <2> HIDE DEF Y
  <2>2. (h \o x) \o Y = h \o (x \o Y)
    BY ONLY h \in Seq(Nat), <1>6, <2>1, Joins
  <2> QED
    BY <2>2 DEF Y
<1>8. x \o ((F \o b) \o C) = (x \o (F \o b)) \o C
  BY ONLY <1>2, <1>5, <1>6, Joins
<1>9. x \o (F \o b) = (x \o F) \o b
  BY ONLY b \in Seq(Nat), <1>6, Joins
<1>10. Stream(h \o x, Tail(f), b, c) = Stream(h, f, b, c)
  BY ONLY <1>1, <1>3, <1>4, <1>7, <1>8, <1>9
<1> QED
  BY <1>10 DEF x

\* The thread sends what it has in hand: the stream is the same
LEMMA StreamSent ==
    ASSUME NEW h \in Seq(Nat), NEW f \in Seq(Seq(Nat)), Len(f) < 2,
           NEW b \in Seq(Nat), NEW c
    PROVE  Stream(h, Append(f, b), << >>, c) = Stream(h, f, b, c)
<1> DEFINE F == FlattenSeq(f)  G == FlattenSeq(Append(f, b))
<1>1. F \in Seq(Nat) /\ G = F \o b
  BY FlattenAppend
<1> HIDE DEF F, G
<1>2. F \o b \in Seq(Nat)
  BY <1>1, Concat
<1>3. G \o << >> = F \o b
  BY <1>1, <1>2, EmptyConcat
<1> QED
  BY <1>3 DEF Stream, F, G

\* The first byte of a queue moves to the end of the packet
LEMMA StreamStep ==
    ASSUME NEW h, NEW f \in Seq(Seq(Nat)), Len(f) < 2,
           NEW b \in Seq(Nat), NEW c \in TxBuffer, NEW d \in TxBuffer, NEW x \in Nat,
           available(c) = available(d) + 1, x = Cell(c, 0),
           \A i \in 0 .. available(d) - 1 : Cell(d, i) = Cell(c, i + 1)
    PROVE  Stream(h, f, Append(b, x), d) = Stream(h, f, b, c)
<1> DEFINE F == FlattenSeq(f)  C == Contents(c)  D == Contents(d)  X == << x >>
<1>1. F \in Seq(Nat)
  BY FlattenAppend
<1>2. /\ C \in Seq(Nat) /\ D \in Seq(Nat) /\ Len(C) = available(c) /\ Len(D) = available(d)
      /\ available(c) \in Nat /\ available(d) \in Nat
      /\ \A i \in 1 .. available(c) : C[i] = Cell(c, i - 1)
      /\ \A i \in 1 .. available(d) : D[i] = Cell(d, i - 1)
  BY TxContents
<1>3. X \in Seq(Nat) /\ Len(X) = 1 /\ X[1] = x
  OBVIOUS
<1>4. Append(b, x) = b \o X
  BY AppendIsConcat
<1> HIDE DEF F, C, D, X
<1>0. X \in Seq(Nat) /\ C \in Seq(Nat) /\ D \in Seq(Nat)
  BY <1>2, <1>3
<1>5. /\ X \o D \in Seq(Nat) /\ Len(X \o D) = Len(X) + Len(D)
      /\ \A i \in 1 .. Len(X) : (X \o D)[i] = X[i]
      /\ \A i \in 1 .. Len(D) : (X \o D)[Len(X) + i] = D[i]
  BY ONLY <1>0, Joins
<1>6. X \o D = C
  <2> DEFINE E == X \o D
  <2>1. /\ E \in Seq(Nat) /\ Len(E) = 1 + Len(D) /\ E[1] = x
        /\ \A i \in 1 .. Len(D) : E[1 + i] = D[i]
    BY <1>3, <1>5
  <2> HIDE DEF E
  <2>2. Len(E) = Len(C)
    BY <1>2, <2>1
  <2>3. ASSUME NEW i \in 1 .. Len(E)
        PROVE  E[i] = C[i]
    <3>1. CASE i = 1
      <4>1. 1 \in 1 .. available(c) /\ 1 - 1 = 0
        BY <1>2
      <4>2. C[1] = Cell(c, 1 - 1)
        BY <1>2, <4>1
      <4> QED
        BY <2>1, <3>1, <4>1, <4>2
    <3>2. CASE i # 1
      <4> DEFINE j == i - 1
      <4>1. /\ j \in 1 .. available(d) /\ i = 1 + j /\ i \in 1 .. available(c)
            /\ j - 1 \in 0 .. available(d) - 1 /\ (j - 1) + 1 = i - 1
        <5> DEFINE k == available(d)  l == available(c)  m == Len(E)
        <5>1. k \in Nat /\ l = k + 1 /\ m = 1 + k /\ i \in 1 .. m /\ i # 1
          BY <1>2, <2>1, <3>2
        <5> HIDE DEF k, l, m
        <5>2. /\ j \in 1 .. k /\ i = 1 + j /\ i \in 1 .. l
              /\ j - 1 \in 0 .. k - 1 /\ (j - 1) + 1 = i - 1
          BY ONLY <5>1 DEF j
        <5> QED
          BY <5>2 DEF k, l
      <4>2. E[i] = D[j]
        BY <1>2, <2>1, <4>1
      <4>3. D[j] = Cell(d, j - 1) /\ C[i] = Cell(c, i - 1)
        BY <1>2, <4>1
      <4>4. Cell(d, j - 1) = Cell(c, (j - 1) + 1)
        BY <4>1
      <4> QED
        BY <4>1, <4>2, <4>3, <4>4
    <3> QED
      BY <3>1, <3>2
  <2>4. E = C
    BY <1>2, <2>1, <2>2, <2>3, SeqEqual
  <2> QED
    BY <2>4 DEF E
<1>7. F \o b \in Seq(Nat)
  BY <1>1, Concat
<1>8. F \o (b \o X) = (F \o b) \o X
  BY ONLY b \in Seq(Nat), <1>0, <1>1, Joins
<1>9. ((F \o b) \o X) \o D = (F \o b) \o (X \o D)
  BY ONLY <1>0, <1>7, Joins
<1>10. (F \o Append(b, x)) \o D = (F \o b) \o C
  BY ONLY <1>4, <1>6, <1>8, <1>9
<1> QED
  BY <1>10 DEF Stream, F, C, D

\* The first bytes of a queue go as a packet
LEMMA StreamPacket ==
    ASSUME NEW h, NEW f \in Seq(Seq(Nat)), Len(f) < 2,
           NEW c \in TxBuffer, NEW d \in TxBuffer, NEW k \in Nat, NEW p,
           available(c) = available(d) + k, p = [i \in 1 .. k |-> Cell(c, i - 1)],
           \A i \in 0 .. available(d) - 1 : Cell(d, i) = Cell(c, i + k)
    PROVE  p \in Seq(Nat) /\ Stream(h, Append(f, p), << >>, d) = Stream(h, f, << >>, c)
<1> DEFINE F == FlattenSeq(f)  C == Contents(c)  D == Contents(d)
           G == FlattenSeq(Append(f, p))
<1>1. /\ C \in Seq(Nat) /\ D \in Seq(Nat) /\ Len(C) = available(c) /\ Len(D) = available(d)
      /\ available(c) \in Nat /\ available(d) \in Nat
      /\ \A i \in 1 .. available(c) : C[i] = Cell(c, i - 1)
      /\ \A i \in 1 .. available(d) : D[i] = Cell(d, i - 1)
  BY TxContents
<1>2. p \in Seq(Nat) /\ Len(p) = k /\ \A i \in 1 .. k : p[i] = C[i]
  <2> HIDE DEF C, D
  <2>1. \A i \in 1 .. k : i \in 1 .. available(c) /\ i \in 1 .. Len(C)
    BY <1>1
  <2>2. \A i \in 1 .. k : p[i] = C[i] /\ C[i] \in Nat
    BY <1>1, <2>1, ElementOfSeq
  <2>3. p = [i \in 1 .. k |-> p[i]]
    OBVIOUS
  <2>4. p \in [1 .. k -> Nat]
    BY <2>2, <2>3
  <2> QED
    BY <2>2, <2>4
<1>3. F \in Seq(Nat) /\ G = F \o p
  BY <1>2, FlattenAppend
<1> HIDE DEF F, C, D, G
<1>0. p \in Seq(Nat) /\ C \in Seq(Nat) /\ D \in Seq(Nat)
  BY <1>1, <1>2
<1>4. /\ p \o D \in Seq(Nat) /\ Len(p \o D) = Len(p) + Len(D)
      /\ \A i \in 1 .. Len(p) : (p \o D)[i] = p[i]
      /\ \A i \in 1 .. Len(D) : (p \o D)[Len(p) + i] = D[i]
  BY ONLY <1>0, Joins
<1>5. p \o D = C
  <2> DEFINE E == p \o D
  <2>1. /\ E \in Seq(Nat) /\ Len(E) = k + Len(D) /\ \A i \in 1 .. k : E[i] = C[i]
        /\ \A i \in 1 .. Len(D) : E[k + i] = D[i]
    BY <1>2, <1>4
  <2> HIDE DEF E
  <2>2. Len(E) = Len(C)
    BY <1>1, <2>1
  <2>3. ASSUME NEW i \in 1 .. Len(E)
        PROVE  E[i] = C[i]
    <3>1. CASE i <= k
      BY <2>1, <3>1, <1>1
    <3>2. CASE ~ (i <= k)
      <4> DEFINE j == i - k
      <4>1. /\ j \in 1 .. available(d) /\ i = k + j /\ i \in 1 .. available(c)
            /\ j - 1 \in 0 .. available(d) - 1 /\ (j - 1) + k = i - 1
        BY <1>1, <2>1, <3>2
      <4>2. E[i] = D[j]
        BY <1>1, <2>1, <4>1
      <4>3. D[j] = Cell(d, j - 1) /\ C[i] = Cell(c, i - 1)
        BY <1>1, <4>1
      <4>4. Cell(d, j - 1) = Cell(c, (j - 1) + k)
        BY <4>1
      <4> QED
        BY <4>1, <4>2, <4>3, <4>4
    <3> QED
      BY <3>1, <3>2
  <2>4. E = C
    BY <1>1, <2>1, <2>2, <2>3, SeqEqual
  <2> QED
    BY <2>4 DEF E
<1>6. F \o p \in Seq(Nat) /\ (F \o p) \o << >> = F \o p /\ F \o << >> = F
  BY <1>2, <1>3, Concat, EmptyConcat
<1>7. (F \o p) \o D = F \o (p \o D)
  BY ONLY <1>0, <1>3, Joins
<1>8. (G \o << >>) \o D = (F \o << >>) \o C
  BY ONLY <1>3, <1>5, <1>6, <1>7
<1> QED
  BY <1>2, <1>8 DEF Stream, F, C, D, G

\* The same bytes in the queue
LEMMA StreamWrap ==
    ASSUME NEW h, NEW f, NEW b, NEW c \in TxBuffer, NEW d \in TxBuffer,
           available(c) = available(d),
           \A i \in 0 .. available(d) - 1 : Cell(d, i) = Cell(c, i)
    PROVE  Stream(h, f, b, d) = Stream(h, f, b, c)
<1> DEFINE C == Contents(c)  D == Contents(d)
<1>1. /\ C \in Seq(Nat) /\ D \in Seq(Nat) /\ Len(C) = available(c) /\ Len(D) = available(d)
      /\ available(c) \in Nat
      /\ \A i \in 1 .. available(c) : C[i] = Cell(c, i - 1)
      /\ \A i \in 1 .. available(d) : D[i] = Cell(d, i - 1)
  BY TxContents
<1> HIDE DEF C, D
<1>2. \A i \in 1 .. Len(C) : C[i] = D[i]
  <2>1. \A i \in 1 .. Len(C) : i \in 1 .. available(d) /\ i - 1 \in 0 .. available(d) - 1
    BY <1>1
  <2> QED
    BY <1>1, <2>1
<1>3. C = D
  BY <1>1, <1>2, SeqEqual
<1> QED
  BY <1>3 DEF Stream, C, D

Upto(n) == [i \in 1 .. n |-> i]

UnderWay(h, f, b) == /\ h \in Seq(Nat) /\ b \in Seq(Nat)
                     /\ f \in Seq(Seq(Nat)) /\ Len(f) <= 2
Grows(c, d, x) ==
    /\ c \in TxBuffer /\ d \in TxBuffer /\ x \in Nat
    /\ available(d) = available(c) + 1 /\ x = Cell(d, available(c))
    /\ \A i \in 0 .. available(c) - 1 : Cell(d, i) = Cell(c, i)

\* A byte joins the queue
LEMMA StreamQueue ==
    ASSUME NEW h, NEW f, NEW b, NEW c, NEW d, NEW x, UnderWay(h, f, b), Grows(c, d, x),
           NEW n \in Nat, x = n + 1, Stream(h, f, b, c) = Upto(n)
    PROVE  Stream(h, f, b, d) = Upto(x)
<1>14. /\ h \in Seq(Nat) /\ f \in Seq(Seq(Nat)) /\ Len(f) <= 2 /\ b \in Seq(Nat)
        /\ c \in TxBuffer /\ d \in TxBuffer /\ x \in Nat
        /\ available(d) = available(c) + 1 /\ x = Cell(d, available(c))
        /\ \A i \in 0 .. available(c) - 1 : Cell(d, i) = Cell(c, i)
  BY DEF UnderWay, Grows
<1> USE <1>14
<1> DEFINE F == FlattenSeq(f)  C == Contents(c)  D == Contents(d)  X == << x >>
           s == Stream(h, f, b, c)  t == Stream(h, f, b, d)
<1>1. F \in Seq(Nat)
  <2>1. Len(f) = 0 => f = << >>
    BY Row
  <2>2. f = << >> \/ f # << >>
    OBVIOUS
  <2>3. CASE f = << >>
    <3>1. Len(f) = 0
      BY <2>3
    <3> QED
      BY <2>1, <3>1, Flattened, EmptySeq
  <2>4. CASE f # << >>
    BY <2>4, FlattenTail
  <2> QED
    BY <2>2, <2>3, <2>4
<1>2. /\ C \in Seq(Nat) /\ D \in Seq(Nat) /\ Len(C) = available(c) /\ Len(D) = available(d)
      /\ available(c) \in Nat /\ available(d) \in Nat
      /\ \A i \in 1 .. available(c) : C[i] = Cell(c, i - 1)
      /\ \A i \in 1 .. available(d) : D[i] = Cell(d, i - 1)
  BY TxContents
<1>3. X \in Seq(Nat) /\ Len(X) = 1 /\ X[1] = x
  OBVIOUS
<1>4. s = h \o ((F \o b) \o C) /\ t = h \o ((F \o b) \o D)
  BY DEF Stream
<1>5. s = [i \in 1 .. n |-> i]
  BY DEF Upto
<1> HIDE DEF F, C, D, X, s, t
<1>0. X \in Seq(Nat) /\ C \in Seq(Nat) /\ D \in Seq(Nat)
  BY <1>2, <1>3
<1>6. D = C \o X
  <2> DEFINE E == C \o X
  <2>1. /\ E \in Seq(Nat) /\ Len(E) = Len(C) + 1
        /\ \A i \in 1 .. Len(C) : E[i] = C[i]
        /\ \A i \in 1 .. 1 : E[Len(C) + i] = X[i]
    <3>1. /\ C \o X \in Seq(Nat) /\ Len(C \o X) = Len(C) + Len(X)
          /\ \A i \in 1 .. Len(C) : (C \o X)[i] = C[i]
          /\ \A i \in 1 .. Len(X) : (C \o X)[Len(C) + i] = X[i]
      BY ONLY <1>0, Joins
    <3> QED
      BY <1>3, <3>1
  <2>2. E[Len(C) + 1] = x
    BY <1>3, <2>1
  <2> HIDE DEF E
  <2>3. ASSUME NEW i \in 1 .. Len(D)
        PROVE  D[i] = E[i]
    <3>1. D[i] = Cell(d, i - 1)
      BY <1>2
    <3>2. CASE i = available(c) + 1
      <4>1. i - 1 = available(c) /\ i = Len(C) + 1
        BY <1>2, <3>2
      <4> QED
        BY <2>2, <3>1, <4>1
    <3>3. CASE i # available(c) + 1
      <4>1. i \in 1 .. available(c) /\ i \in 1 .. Len(C) /\ i - 1 \in 0 .. available(c) - 1
        BY <1>2, <3>3, SMTT(30)
      <4>2. E[i] = Cell(c, i - 1)
        BY <1>2, <2>1, <4>1
      <4> QED
        BY <3>1, <4>1, <4>2
    <3> QED
      BY <3>2, <3>3
  <2>4. Len(D) = Len(E)
    BY <1>2, <2>1
  <2>5. D = E
    BY <1>2, <2>1, <2>3, <2>4, SeqEqual
  <2> QED
    BY <2>5 DEF E
<1> DEFINE G == F \o b
<1>7. G \in Seq(Nat)
  BY <1>1, Concat
<1> HIDE DEF G
<1>8. G \o C \in Seq(Nat) /\ G \o (C \o X) = (G \o C) \o X
  BY ONLY <1>0, <1>7, Joins, SMTT(30)
<1>9. h \o ((G \o C) \o X) = (h \o (G \o C)) \o X /\ h \o (G \o C) \in Seq(Nat)
  <2> DEFINE Y == G \o C
  <2>1. Y \in Seq(Nat)
    BY <1>8
  <2> HIDE DEF Y
  <2>2. h \o Y \in Seq(Nat)
    BY ONLY <1>14, <2>1, Joins
  <2>3. h \o (Y \o X) = (h \o Y) \o X
    <3> HIDE DEF X
    <3>1. (h \o Y) \o X = h \o (Y \o X)
      BY ONLY <1>14, <1>0, <2>1, Regroup
    <3> QED
      BY <3>1
  <2> QED
    BY <2>2, <2>3 DEF Y
<1>10. t = s \o X /\ s \in Seq(Nat)
  <2>1. s = h \o (G \o C) /\ t = h \o (G \o D)
    BY <1>4 DEF G
  <2> QED
    BY ONLY <2>1, <1>6, <1>8, <1>9
<1>11. Len(s) = n /\ \A i \in 1 .. n : s[i] = i
  BY <1>5
<1>12. /\ t \in Seq(Nat) /\ Len(t) = n + 1
       /\ \A i \in 1 .. n : t[i] = i
       /\ t[n + 1] = n + 1
  <2>1. /\ s \o X \in Seq(Nat) /\ Len(s \o X) = Len(s) + Len(X)
        /\ \A i \in 1 .. Len(s) : (s \o X)[i] = s[i]
        /\ \A i \in 1 .. Len(X) : (s \o X)[Len(s) + i] = X[i]
    <3>1. s \in Seq(Nat)
      BY <1>10
    <3> QED
      BY ONLY <1>0, <3>1, Joins
  <2>2. t[n + 1] = X[1]
    <3>1. 1 \in 1 .. Len(X)
      BY <1>3
    <3> QED
      BY <1>10, <1>11, <2>1, <3>1
  <2> QED
    BY <1>3, <1>10, <1>11, <2>1, <2>2
<1>13. t = [i \in 1 .. n + 1 |-> i]
  <2>1. t \in [1 .. n + 1 -> Nat]
    BY <1>12, LenProperties
  <2>2. \A i \in 1 .. n + 1 : i \in 1 .. n \/ i = n + 1
    OBVIOUS
  <2>3. \A i \in 1 .. n + 1 : t[i] = i
    BY <1>12, <2>2
  <2> QED
    BY <2>1, <2>3
<1> QED
  BY <1>13 DEF t, Upto

---------------------------------------------------------------------------
(* The contexts of usbisr *)

\* One of them goes on, the other stays
LEMMA ContextSet ==
    ASSUME usb \in [Ctx -> Context], NEW c \in Ctx, NEW u \in Context,
           usb' = [usb EXCEPT ![c] = u]
    PROVE  /\ usb' \in [Ctx -> Context] /\ usb'[c] = u
           /\ \A d \in Ctx : d # c => usb'[d] = usb[d]
OBVIOUS

\* A context and its parts
LEMMA ContextIs ==
    ASSUME NEW u \in Context
    PROVE  /\ u = [at |-> u.at, ep |-> u.ep, fe |-> u.fe, load |-> u.load,
                   en |-> u.en, n |-> u.n, b |-> u.b]
           /\ u.at \in UsbPlace /\ u.ep \in Ends /\ u.fe \in {0, 1, 255} /\ u.load \in Nat
           /\ u.en \in SUBSET Ends /\ u.n \in Nat /\ u.b \in Seq(Nat)
BY DEF Context

\* ... built of them
LEMMA ContextOf ==
    ASSUME NEW at \in UsbPlace, NEW ep \in Ends, NEW fe \in {0, 1, 255}, NEW load \in Nat,
           NEW en \in SUBSET Ends, NEW n \in Nat, NEW b \in Seq(Nat), NEW u,
           u = [at |-> at, ep |-> ep, fe |-> fe, load |-> load, en |-> en, n |-> n, b |-> b]
    PROVE  /\ u \in Context
           /\ u.at = at /\ u.ep = ep /\ u.fe = fe /\ u.load = load
           /\ u.en = en /\ u.n = n /\ u.b = b
BY DEF Context

\* usbisr goes to another place
LEMMA GotoIs ==
    ASSUME usb \in [Ctx -> Context], NEW c \in Ctx, NEW x \in UsbPlace, Goto(c, x)
    PROVE  /\ usb' \in [Ctx -> Context]
           /\ \A d \in Ctx : d # c => usb'[d] = usb[d]
           /\ usb'[c].at = x /\ usb'[c].ep = usb[c].ep /\ usb'[c].fe = usb[c].fe
           /\ usb'[c].load = usb[c].load /\ usb'[c].en = usb[c].en
           /\ usb'[c].n = usb[c].n /\ usb'[c].b = usb[c].b
<1> DEFINE w == usb[c]  u == [w EXCEPT !.at = x]
<1>1. w \in Context /\ usb' = [usb EXCEPT ![c] = u]
  BY DEF Goto
<1> HIDE DEF w
<1>2. u = [at |-> x, ep |-> w.ep, fe |-> w.fe, load |-> w.load, en |-> w.en,
           n |-> w.n, b |-> w.b]
  BY <1>1, ContextIs
<1>3. /\ u \in Context /\ u.at = x /\ u.ep = w.ep /\ u.fe = w.fe /\ u.load = w.load
      /\ u.en = w.en /\ u.n = w.n /\ u.b = w.b
  <2>1. /\ w.ep \in Ends /\ w.fe \in {0, 1, 255} /\ w.load \in Nat
        /\ w.en \in SUBSET Ends /\ w.n \in Nat /\ w.b \in Seq(Nat)
    BY <1>1, ContextIs
  <2> HIDE DEF u
  <2> QED
    BY <1>2, <2>1 DEF Context
<1> HIDE DEF u
<1>4. /\ usb' \in [Ctx -> Context] /\ usb'[c] = u
      /\ \A d \in Ctx : d # c => usb'[d] = usb[d]
  BY <1>1, <1>3, ContextSet
<1> QED
  BY <1>3, <1>4 DEF w

\* A context that is at rest but for its place and its endpoint
Fresh(u) == u.fe = 255 /\ u.b = << >> /\ u.n = 0

\* The contexts at rest, at the start of an endpoint and at the end
LEMMA FreshIs ==
    /\ UsbIdle \in Context /\ UsbIdle.at = "idle" /\ Fresh(UsbIdle)
    /\ \A e \in Ends : /\ Start(e) \in Context /\ Start(e).at = "ack" /\ Start(e).ep = e
                       /\ Fresh(Start(e))
    /\ /\ [UsbIdle EXCEPT !.at = "end"] \in Context
       /\ [UsbIdle EXCEPT !.at = "end"].at = "end"
       /\ Fresh([UsbIdle EXCEPT !.at = "end"])
<1> DEFINE zero == 0  none == {}  nil == << >>  ff == 255  out == "out"
           Rest(at, ep) == [at |-> at, ep |-> ep, fe |-> ff, load |-> zero,
                            en |-> none, n |-> zero, b |-> nil]
<1>1. /\ zero \in Nat /\ none \in SUBSET Ends /\ nil \in Seq(Nat) /\ ff \in {0, 1, 255}
      /\ out \in Ends
  BY EmptySeq DEF Ends
<1>2. /\ UsbIdle = Rest("idle", out)
      /\ \A e \in Ends : Start(e) = Rest("ack", e)
      /\ [UsbIdle EXCEPT !.at = "end"] = Rest("end", out)
  <2>1. UsbIdle = Rest("idle", out)
    BY DEF UsbIdle
  <2>2. \A at, e : [UsbIdle EXCEPT !.at = at, !.ep = e] = Rest(at, e)
    <3> SUFFICES ASSUME NEW at, NEW e
                 PROVE  [UsbIdle EXCEPT !.at = at, !.ep = e] = Rest(at, e)
      OBVIOUS
    <3> DEFINE w == [UsbIdle EXCEPT !.at = at]
    <3>1. [UsbIdle EXCEPT !.at = at, !.ep = e] = [w EXCEPT !.ep = e]
      OBVIOUS
    <3> HIDE DEF zero, none, nil, ff, out
    <3>2. w = Rest(at, out)
      BY <2>1
    <3> HIDE DEF w
    <3>3. [w EXCEPT !.ep = e] = Rest(at, e)
      BY <3>2
    <3> QED
      BY <3>1, <3>3
  <2>3. \A at : [UsbIdle EXCEPT !.at = at] = Rest(at, out)
    <3> HIDE DEF zero, none, nil, ff, out
    <3> QED
      BY <2>1
  <2> HIDE DEF Rest
  <2> QED
    BY <2>1, <2>2, <2>3 DEF Start
<1>3. ff = 255 /\ nil = << >> /\ zero = 0
  OBVIOUS
<1>4. {"idle", "ack", "end"} \subseteq UsbPlace
  BY DEF UsbPlace
<1> HIDE DEF zero, none, nil, ff, out
<1>5. ASSUME NEW at \in {"idle", "ack", "end"}, NEW ep \in Ends
      PROVE  /\ Rest(at, ep) \in Context /\ Rest(at, ep).at = at /\ Rest(at, ep).ep = ep
             /\ Rest(at, ep).fe = ff /\ Rest(at, ep).b = nil /\ Rest(at, ep).n = zero
  <2> DEFINE u == Rest(at, ep)
  <2>1. u = [at |-> at, ep |-> ep, fe |-> ff, load |-> zero, en |-> none, n |-> zero, b |-> nil]
    OBVIOUS
  <2>2. at \in UsbPlace
    BY <1>4
  <2> HIDE DEF u
  <2>3. /\ u \in Context /\ u.at = at /\ u.ep = ep /\ u.fe = ff /\ u.b = nil /\ u.n = zero
    BY <1>1, <2>1, <2>2 DEF Context
  <2> QED
    BY <2>3 DEF u
<1> HIDE DEF Rest
<1> QED
  BY <1>1, <1>2, <1>3, <1>5 DEF Fresh

\* usbisr goes on to the next endpoint
LEMMA NextEpIs ==
    ASSUME usb \in [Ctx -> Context], NEW c \in Ctx, NextEp(c)
    PROVE  /\ usb' \in [Ctx -> Context]
           /\ \A d \in Ctx : d # c => usb'[d] = usb[d]
           /\ usb'[c].at \in {"ack", "end"} /\ Fresh(usb'[c])
<1>1. PICK u \in Context : /\ usb' = [usb EXCEPT ![c] = u]
                           /\ u.at \in {"ack", "end"} /\ Fresh(u)
  <2>1. CASE usb[c].ep = "out"
    BY <2>1, FreshIs DEF NextEp, Ends
  <2>2. CASE usb[c].ep # "out"
    BY <2>2, FreshIs DEF NextEp
  <2> QED
    BY <2>1, <2>2
<1>2. /\ usb' \in [Ctx -> Context] /\ usb'[c] = u
      /\ \A d \in Ctx : d # c => usb'[d] = usb[d]
  BY <1>1, ContextSet
<1> QED
  BY <1>1, <1>2

---------------------------------------------------------------------------
(* What a step must leave alone for one half of the invariant *)

Reading == {"store", "copy", "mod", "wrap", "room", "skip", "enable", "count"}
Writing == {"ensure", "poll", "queue"}

RxFrame ==
    /\ rx' = rx /\ nl_in_rx' = nl_in_rx /\ arrived' = arrived /\ got' = got /\ torn' = torn
    /\ fifo'.out = fifo.out /\ ("out" \in intEn' <=> "out" \in intEn)
    /\ \/ th'.at = th.at /\ th'.load = th.load
       \/ th.at \notin Reading /\ th'.at \notin Reading
    /\ reentered => reentered'
    /\ me'.at \in {"disable", "disabled"} /\ me'.ep = "out" =>
          me.at \in {"disable", "disabled"} /\ me.ep = "out"
    /\ \/ me' = me
       \/ me'.at = "disabled" /\ "out" \in intEn' => "out" \in me'.en
    /\ me'.at \in {"read", "copy"} => me.at \in {"read", "copy"}
    /\ \/ isr' = isr
       \/ ~ (isr'.at = "test" /\ isr'.ep = "out" /\ isr'.fe = 1)
       \/ fifo.out # << >>

\* A step within RxFrame keeps what is said about the bytes from the host
LEMMA RxKept ==
    ASSUME RxInv, RxFrame, reentered \in BOOLEAN, reentered' \in BOOLEAN
    PROVE  RxInv'
<1>1. Taken' = Taken
  BY DEF RxFrame, Taken
<1>2. Arriving'
  BY <1>1 DEF RxInv, RxFrame, Arriving
<1>3. Lines'
  BY <1>1 DEF RxInv, RxFrame, Lines, Reading
<1>4. ReadIndex'
  BY DEF RxInv, RxFrame, ReadIndex, Reading
<1>5. Order'
  <2>1. LastOut' = LastOut
    BY DEF RxFrame, LastOut, Reading
  <2> QED
    BY <1>1, <2>1 DEF RxInv, RxFrame, Order, Reading
<1>6. OutOff'
  BY DEF RxInv, RxFrame, OutOff, RxReenabled, Reading
<1> QED
  BY <1>2, <1>3, <1>4, <1>5, <1>6 DEF RxInv

TxFrame ==
    /\ tx' = tx /\ host' = host /\ accepted' = accepted /\ fifo'.in = fifo.in
    /\ can_transfer'.in = can_transfer.in
    /\ ("in" \in intEn => "in" \in intEn') /\ ("in" \in intSt => "in" \in intSt')
    /\ (reentered => reentered') /\ (dropped' => dropped \/ reentered)
    /\ \/ th'.at = th.at /\ th'.n = th.n
       \/ th.at \notin Writing /\ th'.at \notin Writing
    /\ \/ me' = me
       \/ /\ me.at \notin {"dequeue", "step", "wrap", "count"} /\ me'.b = << >>
          /\ me'.at \notin {"dequeue", "step", "wrap", "count", "test"}
    /\ \/ isr' = isr
       \/ /\ isr'.at # "test"
          /\ isr.at = "test" /\ isr.ep = "in" =>
                reentered \/ "in" \notin intEn \/ "in" \in intSt \/ fifo.in # << >>

\* A step within TxFrame keeps what is said about the bytes to the host
LEMMA TxKept ==
    ASSUME TxInv, TxFrame, reentered \in BOOLEAN, reentered' \in BOOLEAN
    PROVE  TxInv'
<1>1. WriterHasRoom'
  BY DEF TxInv, TxFrame, WriterHasRoom, Writing
<1>2. InHand'
  BY DEF TxInv, TxFrame, InHand
<1>3. RoomInController'
  BY DEF TxInv, TxFrame, RoomInController
<1>4. Credit'
  BY DEF TxInv, TxFrame, Credit
<1>5. NotStranded'
  BY DEF TxInv, TxFrame, NotStranded, Writing
<1>6. TxExact'
  <2>1. me'.b = me.b
    BY DEF TxInv, TxFrame, InHand
  <2>2. (TxExact <=> reentered \/ Stream(host, fifo.in, me.b, tx) = [i \in 1 .. accepted |-> i])'
    BY ExactIs, PTL
  <2> QED
    BY <2>1, <2>2, ExactIs DEF TxInv, TxFrame
<1> QED
  BY <1>1, <1>2, <1>3, <1>4, <1>5, <1>6 DEF TxInv

\* The types of what the steps look at
LEMMA Facts ==
    ASSUME Types
    PROVE  /\ tx \in TxBuffer /\ rx \in RxBuffer /\ nl_in_rx \in Nat /\ flags \in Flags
           /\ intSt \in SUBSET Ends /\ intEn \in SUBSET Ends
           /\ can_transfer \in [out : 0 .. 2, in : 0 .. 2]
           /\ can_transfer.out \in 0 .. 2 /\ can_transfer.in \in 0 .. 2
           /\ fifo \in [out : Seq(Seq(RxByte)), in : Seq(Seq(Nat))]
           /\ fifo.out \in Seq(Seq(RxByte)) /\ fifo.in \in Seq(Seq(Nat))
           /\ Len(fifo.out) <= 2 /\ Len(fifo.in) <= 2
           /\ usb \in [Ctx -> Context] /\ me \in Context /\ isr \in Context
           /\ usb["isr"] = isr /\ usb["thread"] = me
           /\ th \in ThState /\ th.at \in ThPlace /\ th.n \in Nat
           /\ th.load \in Nat \cup Flags /\ th.c \in RxByte
           /\ host \in Seq(Nat) /\ accepted \in Nat /\ arrived \in Nat /\ got \in Nat
           /\ reentered \in BOOLEAN /\ torn \in BOOLEAN /\ dropped \in BOOLEAN
           /\ "isr" \in Ctx /\ "thread" \in Ctx /\ "out" \in Ends /\ "in" \in Ends
BY Sizes DEF Types, TxBuffer, RxBuffer, ThState, Ctx, Ends, me, isr

\* The contexts, after the step
LEMMA Contexts ==
    /\ usb'["isr"] = isr' /\ usb'["thread"] = me'
    /\ \A c \in Ctx : c = "isr" \/ c = "thread"
    /\ "isr" # "thread"
BY DEF me, isr, Ctx

\* The invariant from its parts
LEMMA Parts ==
    ASSUME Types', Control', TxInv', RxInv'
    PROVE  IInv'
BY DEF IInv

\* The packets in the controller change at one end
LEMMA FifoIn ==
    ASSUME fifo \in [out : Seq(Seq(RxByte)), in : Seq(Seq(Nat))],
           NEW q \in Seq(Seq(Nat)), fifo' = [fifo EXCEPT !.in = q]
    PROVE  /\ fifo' \in [out : Seq(Seq(RxByte)), in : Seq(Seq(Nat))]
           /\ fifo'.in = q /\ fifo'.out = fifo.out
<1> DEFINE A == Seq(Seq(RxByte))  B == Seq(Seq(Nat))
<1>1. fifo \in [out : A, in : B] /\ q \in B
  OBVIOUS
<1> HIDE DEF A, B
<1>2. fifo' \in [out : A, in : B] /\ fifo'.in = q /\ fifo'.out = fifo.out
  BY <1>1
<1> QED
  BY <1>2 DEF A, B

\* ... the other end
LEMMA FifoOut ==
    ASSUME fifo \in [out : Seq(Seq(RxByte)), in : Seq(Seq(Nat))],
           NEW q \in Seq(Seq(RxByte)), fifo' = [fifo EXCEPT !.out = q]
    PROVE  /\ fifo' \in [out : Seq(Seq(RxByte)), in : Seq(Seq(Nat))]
           /\ fifo'.out = q /\ fifo'.in = fifo.in
<1> DEFINE A == Seq(Seq(RxByte))  B == Seq(Seq(Nat))
<1>1. fifo \in [out : A, in : B] /\ q \in A
  OBVIOUS
<1> HIDE DEF A, B
<1>2. fifo' \in [out : A, in : B] /\ fifo'.out = q /\ fifo'.in = fifo.in
  BY <1>1
<1> QED
  BY <1>2 DEF A, B

\* A credit more or less at one end
LEMMA CreditSet ==
    ASSUME can_transfer \in [out : 0 .. 2, in : 0 .. 2], NEW e \in Ends, NEW k \in 0 .. 2,
           can_transfer' = [can_transfer EXCEPT ![e] = k]
    PROVE  /\ can_transfer' \in [out : 0 .. 2, in : 0 .. 2]
           /\ e = "in" => can_transfer'.in = k /\ can_transfer'.out = can_transfer.out
           /\ e = "out" => can_transfer'.out = k /\ can_transfer'.in = can_transfer.in
BY DEF Ends

---------------------------------------------------------------------------
(* The host *)

\* The host takes a packet
LEMMA HostTakeKeeps ==
    ASSUME IInv, HostTake
    PROVE  IInv'
<1>0. Types /\ Control /\ TxInv /\ RxInv
  BY DEF IInv
<1> DEFINE f == fifo.in  q == Tail(fifo.in)  h == host \o Head(fifo.in)
<1>1. /\ f # << >> /\ host' = h /\ fifo' = [fifo EXCEPT !.in = q]
      /\ intSt' = intSt \cup {"in"} /\ slow' = TRUE
      /\ UNCHANGED <<tx, rx, nl_in_rx, flags, intEn, irqOn, can_transfer, usb, th,
                     accepted, arrived, got, reentered, torn, dropped>>
      /\ me' = me /\ isr' = isr
  BY DEF HostTake, bufVars, me, isr
<1>2. f \in Seq(Seq(Nat)) /\ Len(f) <= 2 /\ host \in Seq(Nat) /\ me.b \in Seq(Nat)
      /\ tx \in TxBuffer
  BY <1>0, Facts, ContextIs
<1>3. q \in Seq(Seq(Nat)) /\ Len(q) = Len(f) - 1 /\ Head(f) \in Seq(Nat)
  BY <1>1, <1>2, FlattenTail
<1>4. Len(f) \in Nat /\ Len(q) \in Nat
  BY <1>2, <1>3, LenProperties
<1>5. /\ fifo' \in [out : Seq(Seq(RxByte)), in : Seq(Seq(Nat))]
      /\ fifo'.in = q /\ fifo'.out = fifo.out
  <2> HIDE DEF q
  <2> QED
    BY <1>0, <1>1, <1>3, FifoIn, Facts
<1>6. h \in Seq(Nat)
  BY <1>2, <1>3, Joins
<1>7. Stream(h, q, me.b, tx) = Stream(host, f, me.b, tx)
  BY <1>1, <1>2, StreamTaken
<1> HIDE DEF f, q, h
<1>8. Types'
  <2>1. Len(q) <= 2
    BY <1>2, <1>3, <1>4
  <2> QED
    BY <1>0, <1>1, <1>5, <1>6, <2>1 DEF Types, Ends, isr
<1>9. Control'
  BY <1>0, <1>1 DEF Control, me, isr
<1>10. TxInv'
  <2>1. WriterHasRoom' /\ InHand'
    BY <1>0, <1>1 DEF TxInv, WriterHasRoom, InHand
  <2>2. RoomInController'
    BY <1>0, <1>1, <1>2, <1>3, <1>4, <1>5 DEF TxInv, RoomInController, f
  <2>3. Credit' /\ NotStranded'
    BY <1>0, <1>1 DEF TxInv, Credit, NotStranded
  <2>4. TxExact'
    <3>1. (TxExact <=> reentered \/ Stream(host, fifo.in, me.b, tx) = [i \in 1 .. accepted |-> i])'
      BY ExactIs, PTL
    <3> QED
      BY <1>0, <1>1, <1>5, <1>7, <3>1, ExactIs DEF TxInv, f
  <2> QED
    BY <2>1, <2>2, <2>3, <2>4 DEF TxInv
<1>11. RxInv'
  <2>1. RxFrame
    BY <1>1, <1>5 DEF RxFrame
  <2> QED
    BY <1>0, <1>1, <2>1, RxKept DEF Types
<1> QED
  BY <1>8, <1>9, <1>10, <1>11, Parts

\* A packet comes in
LEMMA HostSendKeeps ==
    ASSUME IInv, HostSend
    PROVE  IInv'
<1>0. Types /\ Control /\ TxInv /\ RxInv
  BY DEF IInv
<1> DEFINE f == fifo.out
           Bytes(len, kinds) == [i \in 1 .. len |-> [id |-> arrived + i, kind |-> kinds[i]]]
<1>1. /\ Len(f) < 2 /\ intSt' = intSt \cup {"out"} /\ slow' = TRUE
      /\ UNCHANGED <<tx, rx, nl_in_rx, flags, intEn, irqOn, can_transfer, usb, th,
                     host, accepted, got, reentered, torn, dropped>>
      /\ me' = me /\ isr' = isr
  BY DEF HostSend, bufVars, me, isr
<1>2. PICK len \in 1 .. Packet : \E kinds \in [1 .. len -> Kinds] :
          /\ arrived + len <= MaxRx
          /\ fifo' = [fifo EXCEPT !.out = Append(@, Bytes(len, kinds))]
          /\ arrived' = arrived + len
  BY DEF HostSend
<1>3. PICK kinds \in [1 .. len -> Kinds] :
          /\ arrived + len <= MaxRx
          /\ fifo' = [fifo EXCEPT !.out = Append(@, Bytes(len, kinds))]
          /\ arrived' = arrived + len
  BY <1>2
<1> DEFINE p == Bytes(len, kinds)  q == Append(f, p)
<1>4. /\ f \in Seq(Seq(RxByte)) /\ arrived \in Nat /\ len \in Nat /\ MaxRx \in Nat
      /\ Packet \in Nat /\ len > 0
  BY <1>0, Facts, Sizes
<1>5. p \in Seq(RxByte) /\ Len(p) = len /\ \A i \in 1 .. len : p[i].id = arrived + i
  <2>1. \A i \in 1 .. len : p[i] = [id |-> arrived + i, kind |-> kinds[i]]
    OBVIOUS
  <2>2. \A i \in 1 .. len : arrived + i \in 0 .. MaxRx /\ kinds[i] \in Kinds
    BY <1>3, <1>4
  <2>3. \A i \in 1 .. len : p[i] \in RxByte /\ p[i].id = arrived + i
    BY <2>1, <2>2 DEF RxByte
  <2>4. p = [i \in 1 .. len |-> p[i]]
    OBVIOUS
  <2> HIDE DEF p
  <2>5. p \in [1 .. len -> RxByte]
    BY <2>3, <2>4
  <2> QED
    BY <1>4, <2>3, <2>5
<1> HIDE DEF p, Bytes
<1>6. /\ q \in Seq(Seq(RxByte)) /\ Len(q) = Len(f) + 1 /\ Len(f) \in Nat
      /\ q[Len(f) + 1] = p /\ \A i \in 1 .. Len(f) : q[i] = f[i]
      /\ (f = << >> <=> Len(f) = 0) /\ (q = << >> <=> Len(q) = 0)
      /\ \A i \in 1 .. Len(f) : Len(f[i]) \in Nat
  <2> DEFINE T == Seq(RxByte)
  <2>1. f \in Seq(T) /\ p \in T /\ \A s \in T : Len(s) \in Nat
    BY <1>4, <1>5, LenProperties
  <2> HIDE DEF T
  <2>2. /\ q \in Seq(T) /\ Len(q) = Len(f) + 1 /\ Len(f) \in Nat
        /\ q[Len(f) + 1] = p /\ \A i \in 1 .. Len(f) : q[i] = f[i]
        /\ (f = << >> <=> Len(f) = 0) /\ \A i \in 1 .. Len(f) : f[i] \in T
    BY ONLY <2>1, Row DEF q
  <2> HIDE DEF q
  <2>3. q = << >> <=> Len(q) = 0
    BY ONLY <2>2, Row
  <2> QED
    BY <2>1, <2>2, <2>3 DEF T
<1>7. /\ fifo' \in [out : Seq(Seq(RxByte)), in : Seq(Seq(Nat))]
      /\ fifo'.out = q /\ fifo'.in = fifo.in
  <2>1. fifo' = [fifo EXCEPT !.out = q]
    BY <1>3 DEF p
  <2> HIDE DEF q
  <2> QED
    BY <1>0, <1>6, <2>1, FifoOut, Facts
<1> HIDE DEF f, q
<1>8. Types'
  <2>1. arrived' \in 0 .. MaxRx /\ Len(q) <= 2
    BY <1>1, <1>3, <1>4, <1>6
  <2> QED
    BY <1>0, <1>1, <1>6, <1>7, <2>1 DEF Types, Ends, isr
<1>9. Control'
  BY <1>0, <1>1 DEF Control, me, isr
<1>10. TxInv'
  <2>1. TxFrame
    BY <1>0, <1>1, <1>7 DEF TxFrame
  <2> QED
    BY <1>0, <1>1, <2>1, TxKept DEF Types
<1>11. RxInv'
  <2>0. Len(f) = 0 \/ Len(f) = 1
    <3> DEFINE l == Len(f)
    <3>1. l \in Nat /\ l < 2
      BY <1>1, <1>6
    <3> HIDE DEF l
    <3>2. l = 0 \/ l = 1
      BY ONLY <3>1
    <3> QED
      BY <3>2 DEF l
  <2>1. Pending(q) = Pending(f) + len /\ Pending(f) \in Nat
    <3>1. CASE Len(f) = 0
      <4>1. f = << >> /\ q # << >> /\ Len(q) = 1 /\ q[1] = p
        BY <1>6, <3>1
      <4> QED
        BY <1>4, <1>5, <4>1 DEF Pending
    <3>2. CASE Len(f) = 1
      <4>1. f # << >> /\ q # << >> /\ Len(q) = 2 /\ q[2] = p /\ q[1] = f[1] /\ Len(f[1]) \in Nat
        BY <1>6, <3>2
      <4>2. Pending(q) = Len(q[1]) + Len(q[2]) /\ Pending(f) = Len(f[1])
        BY <3>2, <4>1 DEF Pending
      <4> QED
        BY <1>4, <1>5, <4>1, <4>2
    <3> QED
      BY <2>0, <3>1, <3>2
  <2>2. Taken' = Taken /\ Taken = arrived - Pending(f) /\ Pending(fifo'.out) <= arrived'
    <3>1. Pending(fifo.out) <= arrived /\ fifo.out = f
      BY <1>0 DEF RxInv, Arriving, f
    <3>2. Taken = arrived - Pending(f) /\ Taken' = arrived' - Pending(q)
      BY <1>7, <3>1 DEF Taken
    <3> DEFINE a == arrived  a1 == arrived'  P == Pending(f)  Q == Pending(q)
    <3>3. /\ a \in Nat /\ len \in Nat /\ P \in Nat /\ P <= a /\ a1 = a + len /\ Q = P + len
          /\ Taken = a - P /\ Taken' = a1 - Q /\ Pending(fifo'.out) = Q
      BY <1>3, <1>4, <1>7, <2>1, <3>1, <3>2
    <3> HIDE DEF a, a1, P, Q
    <3>4. a1 - Q = a - P /\ Q <= a1
      BY ONLY <3>3
    <3>5. Taken' = Taken /\ Taken = a - P /\ Pending(fifo'.out) <= a1
      BY ONLY <3>3, <3>4
    <3> QED
      BY <3>5 DEF a, a1, P
  <2>3. Arriving'
    <3>1. CASE Len(f) = 0
      <4>1. f = << >> /\ q # << >> /\ Len(q) = 1 /\ q[1] = p /\ Taken = arrived
        BY <1>4, <1>6, <2>2, <3>1 DEF Pending
      <4>2. Numbered(p, Taken)
        BY <1>4, <1>5, <4>1 DEF Numbered
      <4> QED
        BY <1>7, <2>2, <4>1, <4>2 DEF Arriving
    <3>2. CASE Len(f) = 1
      <4>1. /\ f # << >> /\ q # << >> /\ Len(q) = 2 /\ q[2] = p /\ q[1] = f[1]
            /\ Len(f[1]) \in Nat /\ Taken + Len(f[1]) = arrived
        BY <1>4, <1>6, <2>2, <3>2 DEF Pending
      <4>2. Numbered(f[1], Taken)
        BY <1>0, <4>1 DEF RxInv, Arriving, f
      <4>3. Numbered(p, arrived)
        BY <1>4, <1>5 DEF Numbered
      <4> QED
        BY <1>7, <2>2, <4>1, <4>2, <4>3 DEF Arriving
    <3> QED
      BY <2>0, <3>1, <3>2
  <2>4. Lines' /\ ReadIndex'
    BY <1>0, <1>1, <2>2 DEF RxInv, Lines, ReadIndex
  <2>5. Order'
    <3>1. LastOut' = LastOut
      BY <1>1 DEF LastOut
    <3> QED
      BY <1>0, <1>1, <2>2, <3>1 DEF RxInv, Order
  <2>6. OutOff'
    BY <1>0, <1>1 DEF RxInv, OutOff, RxReenabled
  <2> QED
    BY <2>3, <2>4, <2>5, <2>6 DEF RxInv
<1> QED
  BY <1>8, <1>9, <1>10, <1>11, Parts

\* The host sets the line state
LEMMA HostLineKeeps ==
    ASSUME IInv, HostLine
    PROVE  IInv'
<1>0. Types /\ Control /\ TxInv /\ RxInv
  BY DEF IInv
<1>1. /\ slow' = TRUE
      /\ UNCHANGED <<tx, rx, nl_in_rx, flags, intSt, intEn, irqOn, can_transfer, fifo, usb,
                     th, host, accepted, arrived, got, reentered, torn, dropped>>
      /\ me' = me /\ isr' = isr
  BY DEF HostLine, bufVars, seenVars, me, isr
<1>2. Types'
  BY <1>0, <1>1 DEF Types, isr
<1>3. Control'
  BY <1>0, <1>1 DEF Control, me, isr
<1>4. TxInv'
  <2>1. TxFrame
    BY <1>1 DEF TxFrame
  <2> QED
    BY <1>0, <1>1, <2>1, TxKept DEF Types
<1>5. RxInv'
  <2>1. RxFrame
    BY <1>1 DEF RxFrame
  <2> QED
    BY <1>0, <1>1, <2>1, RxKept DEF Types
<1> QED
  BY <1>2, <1>3, <1>4, <1>5, Parts

---------------------------------------------------------------------------
(* usbisr, in either context *)

\* The interrupt comes
LEMMA IsrEnterKeeps ==
    ASSUME IInv, IsrEnter
    PROVE  IInv'
<1>0. Types /\ Control /\ TxInv /\ RxInv
  BY DEF IInv
<1>1. /\ isr.at = "idle" /\ reentered' = (reentered \/ me.at # "idle")
      /\ Goto("isr", "ep0")
      /\ UNCHANGED <<tx, rx, nl_in_rx, flags, intSt, intEn, slow, irqOn, can_transfer, fifo,
                     th, host, accepted, arrived, got, torn, dropped>>
  BY DEF IsrEnter, Goto, bufVars, regVars, me, isr
<1>2. /\ usb' \in [Ctx -> Context] /\ me' = me /\ isr'.at = "ep0"
      /\ usb'["isr"].at = "ep0" /\ \A d \in Ctx : d # "isr" => usb'[d] = usb[d]
  <2>1. "ep0" \in UsbPlace
    BY DEF UsbPlace
  <2> QED
    BY <1>0, <1>1, <2>1, GotoIs, Facts, Contexts
<1>3. reentered' \in BOOLEAN /\ (reentered => reentered')
  BY <1>0, <1>1 DEF Types
<1>4. Types'
  BY <1>0, <1>1, <1>2, <1>3 DEF Types, IsrPlace
<1>5. Control'
  <2>1. \A c \in Ctx : usb'[c].at = "ack" => usb'[c].fe = 255
    BY <1>0, <1>2, Contexts, Facts, SMTT(30) DEF Control
  <2> QED
    BY <1>0, <1>1, <1>2, <1>3, <2>1 DEF Control
<1>6. TxInv'
  <2>1. TxFrame
    BY <1>1, <1>2, <1>3 DEF TxFrame
  <2> QED
    BY <1>0, <1>3, <2>1, TxKept DEF Types
<1>7. RxInv'
  <2>1. RxFrame
    BY <1>1, <1>2, <1>3 DEF RxFrame
  <2> QED
    BY <1>0, <1>3, <2>1, RxKept DEF Types
<1> QED
  BY <1>4, <1>5, <1>6, <1>7, Parts

\* A context goes on at one of these places, whichever it is
Onward(c) ==
    /\ usb' \in [Ctx -> Context] /\ \A d \in Ctx : d # c => usb'[d] = usb[d]
    /\ usb'[c].at \in {"idle", "ack", "end"} /\ Fresh(usb'[c])

\* A step to the next endpoint, or to the end, leaves both halves alone
LEMMA OnwardIs ==
    ASSUME Types, Control, NEW c \in Ctx, Onward(c), Runs(c), reentered' = reentered,
           th'.at = th.at, usb[c].at # "idle"
    PROVE  /\ Control' /\ isr'.at \in IsrPlace /\ me' \in Context
           /\ c = "isr" => me' = me /\ isr'.at # "test"
           /\ c = "thread" => /\ isr' = isr /\ me'.at \in {"idle", "ack", "end"}
                              /\ me'.b = << >> /\ isr.at = "idle"
<1>1. /\ usb["isr"] = isr /\ usb["thread"] = me /\ "isr" \in Ctx /\ "thread" \in Ctx
      /\ usb'["isr"] = isr' /\ usb'["thread"] = me' /\ (c = "isr" \/ c = "thread")
      /\ "isr" # "thread"
  BY Facts, Contexts
<1>2. c = "isr" => me' = me /\ isr'.at \in {"idle", "ack", "end"} /\ isr'.fe = 255
                   /\ isr.at # "idle"
  BY <1>1 DEF Onward, Fresh
<1>3. c = "thread" => /\ isr' = isr /\ me'.at \in {"idle", "ack", "end"} /\ me'.fe = 255
                      /\ me'.b = << >> /\ isr.at = "idle" /\ me.at # "idle"
  BY <1>1 DEF Onward, Fresh, Runs
<1>4. isr'.at \in IsrPlace
  BY <1>1, <1>2, <1>3 DEF IsrPlace
<1>5. me' \in Context
  BY <1>1 DEF Onward
<1>6. \A d \in Ctx : usb'[d].at = "ack" => usb'[d].fe = 255
  BY <1>1 DEF Onward, Fresh, Control
<1>7. Control'
  BY <1>1, <1>2, <1>3, <1>6 DEF Control
<1> QED
  BY <1>1, <1>2, <1>3, <1>4, <1>5, <1>7

\* Both halves go by the frames
LEMMA Framed ==
    ASSUME IInv, Types', Control', TxFrame, RxFrame
    PROVE  IInv'
<1>1. reentered \in BOOLEAN /\ reentered' \in BOOLEAN /\ TxInv /\ RxInv
  BY DEF IInv, Types
<1> QED
  BY <1>1, TxKept, RxKept, Parts

\* usbisr looks at EP0,
LEMMA Ep0Keeps ==
    ASSUME IInv, NEW c \in Ctx, Ep0(c)
    PROVE  IInv'
<1>0. Types /\ Control
  BY DEF IInv
<1>1. /\ usb[c].at = "ep0" /\ Runs(c)
      /\ flags' = (IF ep0 = "none" THEN flags ELSE [flags EXCEPT !.attached = (ep0 = "attach")])
      /\ irqOn' = (IF ep0 = "none" THEN irqOn ELSE irqOn /\ c = "isr")
      /\ UNCHANGED <<tx, rx, nl_in_rx, intSt, intEn, slow, can_transfer, fifo,
                     th, host, accepted, arrived, got, reentered, torn, dropped>>
  BY DEF Ep0, At, seenVars
<1>2. Onward(c)
  <2>1. PICK u \in Context : /\ usb' = [usb EXCEPT ![c] = u]
                             /\ u.at \in {"ack", "end"} /\ Fresh(u)
    <3>1. CASE intEn = {}
      BY <3>1, FreshIs DEF Ep0
    <3>2. CASE intEn # {}
      BY <3>2, FreshIs DEF Ep0, Ends
    <3> QED
      BY <3>1, <3>2
  <2>2. /\ usb' \in [Ctx -> Context] /\ usb'[c] = u
        /\ \A d \in Ctx : d # c => usb'[d] = usb[d]
    BY <1>0, <2>1, ContextSet, Facts
  <2> QED
    BY <2>1, <2>2 DEF Onward
<1>3. /\ Control' /\ isr'.at \in IsrPlace
      /\ c = "isr" => me' = me /\ isr'.at # "test"
      /\ c = "thread" => isr' = isr /\ me'.at \in {"idle", "ack", "end"} /\ me'.b = << >>
  <2>1. usb[c].at # "idle"
    BY <1>1
  <2> QED
    BY <1>0, <1>1, <1>2, <2>1, OnwardIs
<1>4. Types'
  <2> DEFINE a == (ep0 = "attach")
  <2>1. flags \in Flags /\ irqOn \in BOOLEAN
    BY <1>0 DEF Types
  <2>2. [flags EXCEPT !.attached = a] \in Flags
    <3>1. a \in BOOLEAN
      OBVIOUS
    <3> HIDE DEF a
    <3> QED
      BY <2>1, <3>1 DEF Flags
  <2>3. flags' \in Flags
    BY <1>1, <2>1, <2>2
  <2>4. irqOn' \in BOOLEAN
    BY <1>1, <2>1
  <2> HIDE DEF a
  <2> QED
    BY <1>0, <1>1, <1>2, <1>3, <2>3, <2>4 DEF Types, Onward
<1>5. (c = "isr" \/ c = "thread") /\ (c = "isr" => isr.at = "ep0")
      /\ (c = "thread" => me.at = "ep0")
  BY <1>0, <1>1, Facts, Contexts
<1>6. TxFrame
  BY <1>1, <1>3, <1>5 DEF TxFrame
<1>7. RxFrame
  BY <1>1, <1>3, <1>5 DEF RxFrame
<1> QED
  BY <1>3, <1>4, <1>6, <1>7, Framed

\* clears EP_SLOW at its end,
LEMMA EndKeeps ==
    ASSUME IInv, NEW c \in Ctx, End(c)
    PROVE  IInv'
<1>0. Types /\ Control
  BY DEF IInv
<1>1. /\ usb[c].at = "end" /\ Runs(c) /\ usb' = [usb EXCEPT ![c] = UsbIdle]
      /\ slow' \in {FALSE, slow /\ (intSt # {} \/ ep0 # "none")}
      /\ UNCHANGED <<tx, rx, nl_in_rx, flags, intSt, intEn, irqOn, can_transfer, fifo,
                     th, host, accepted, arrived, got, reentered, torn, dropped>>
  BY DEF End, At, bufVars, seenVars
<1>2. Onward(c)
  BY <1>0, <1>1, ContextSet, Facts, FreshIs DEF Onward
<1>3. /\ Control' /\ isr'.at \in IsrPlace
      /\ c = "isr" => me' = me /\ isr'.at # "test"
      /\ c = "thread" => isr' = isr /\ me'.at \in {"idle", "ack", "end"} /\ me'.b = << >>
  <2>1. usb[c].at # "idle"
    BY <1>1
  <2> QED
    BY <1>0, <1>1, <1>2, <2>1, OnwardIs
<1>4. Types'
  <2>1. slow' \in BOOLEAN
    BY <1>0, <1>1 DEF Types
  <2> QED
    BY <1>0, <1>1, <1>2, <1>3, <2>1 DEF Types, Onward
<1>5. (c = "isr" \/ c = "thread") /\ (c = "isr" => isr.at = "end")
      /\ (c = "thread" => me.at = "end")
  BY <1>0, <1>1, Facts, Contexts
<1>6. TxFrame
  BY <1>1, <1>3, <1>5 DEF TxFrame
<1>7. RxFrame
  BY <1>1, <1>3, <1>5 DEF RxFrame
<1> QED
  BY <1>3, <1>4, <1>6, <1>7, Framed

\* A handler that is not called has no event, or no room, or nothing to do
LEMMA NotCalledKeeps ==
    ASSUME IInv, NEW c \in Ctx, NotCalled(c)
    PROVE  IInv'
<1>0. Types /\ Control /\ TxInv
  BY DEF IInv
<1>1. /\ usb[c].at = "test" /\ Runs(c) /\ NextEp(c) /\ ~ Called(c)
      /\ UNCHANGED <<tx, rx, nl_in_rx, flags, intSt, intEn, slow, irqOn, can_transfer, fifo,
                     th, host, accepted, arrived, got, reentered, torn, dropped>>
  BY DEF NotCalled, At, bufVars, regVars, seenVars
<1>2. Onward(c)
  BY <1>0, <1>1, NextEpIs, Facts DEF Onward
<1>3. /\ Control' /\ isr'.at \in IsrPlace
      /\ c = "isr" => me' = me /\ isr'.at # "test"
      /\ c = "thread" => isr' = isr /\ me'.at \in {"idle", "ack", "end"} /\ me'.b = << >>
  <2>1. usb[c].at # "idle"
    BY <1>1
  <2> QED
    BY <1>0, <1>1, <1>2, <2>1, OnwardIs
<1>4. Types'
  BY <1>0, <1>1, <1>2, <1>3 DEF Types, Onward
<1>5. /\ c = "isr" \/ c = "thread"
      /\ c = "isr" => isr.at = "test" /\ usb[c] = isr
      /\ c = "thread" => me.at = "test" /\ me'.at # "disabled"
  BY <1>0, <1>1, <1>3, Facts, Contexts
<1>6. ASSUME c = "isr", isr.ep = "in", ~ reentered, "in" \in intEn
      PROVE  "in" \in intSt \/ fifo.in # << >>
  <2>1. \/ ~ (can_transfer.in > 0)
        \/ (IF isr.fe = 255 THEN FE("in") ELSE isr.fe) # 0
    BY <1>1, <1>5, <1>6 DEF Called
  <2>2. CASE ~ (can_transfer.in > 0)
    <3>1. me.at # "count"
      BY <1>0, <1>5, <1>6 DEF Control
    <3> QED
      BY <1>0, <1>6, <2>2, <3>1 DEF TxInv, Credit
  <2>3. CASE isr.fe = 255 /\ FE("in") # 0
    <3>1. Len(fifo.in) = 2
      BY <2>3 DEF FE
    <3>2. Len(<< >>) = 0
      OBVIOUS
    <3> QED
      BY <3>1, <3>2
  <2>4. CASE isr.fe # 255 /\ isr.fe # 0
    <3>1. isr.fe = 1
      BY <1>0, <2>4, Facts, ContextIs
    <3> QED
      BY <1>0, <1>5, <1>6, <3>1 DEF TxInv, Credit
  <2> QED
    BY <2>1, <2>2, <2>3, <2>4
<1>7. TxFrame
  BY <1>1, <1>3, <1>5, <1>6 DEF TxFrame
<1>8. RxFrame
  BY <1>1, <1>3, <1>5 DEF RxFrame
<1> QED
  BY <1>3, <1>4, <1>7, <1>8, Framed

\* the full/empty bit is one of two,
LEMMA FEIs ==
    ASSUME NEW e \in Ends
    PROVE  /\ FE(e) \in {0, 1} /\ FE(e) \in {0, 1, 255}
           /\ e = "in" => (FE(e) = 1 <=> Len(fifo.in) = 2)
           /\ e = "out" => (FE(e) = 1 <=> fifo.out # << >>)
<1>1. "in" # "out"
  OBVIOUS
<1> QED
  BY <1>1 DEF FE, Ends

\* The acknowledgement, and the credit it brings
LEMMA AcknowledgeIs ==
    ASSUME Types, Control, NEW c \in Ctx, Acknowledge(c), NEW e, e = usb[c].ep
    PROVE  /\ usb[c].at = "ack" /\ e \in Ends
           /\ usb' \in [Ctx -> Context] /\ \A d \in Ctx : d # c => usb'[d] = usb[d]
           /\ usb'[c].ep = e /\ usb'[c].b = usb[c].b
           /\ e \in intSt => /\ usb'[c].at = (IF c = "isr" THEN "test" ELSE "count")
                             /\ usb'[c].fe = FE(e) /\ usb'[c].load \in 1 .. 2
           /\ e \notin intSt => usb'[c].at = "test" /\ usb'[c].fe = 255
           /\ can_transfer' \in [out : 0 .. 2, in : 0 .. 2]
           /\ e = "in" /\ "in" \in intSt /\ c = "isr" => can_transfer'.in > 0
           /\ e = "out" \/ "in" \notin intSt \/ c # "isr" => can_transfer'.in = can_transfer.in
           /\ e = "in" \/ "out" \notin intSt \/ c # "isr" => can_transfer'.out = can_transfer.out
<1> DEFINE w == usb[c]  more == OneMore(can_transfer[e])
           x == IF c = "isr" THEN "test" ELSE "count"
           f == FE(e)
           t == "test"
<1>1. w \in Context /\ w.at = "ack" /\ w.fe = 255 /\ e \in Ends /\ usb \in [Ctx -> Context]
  <2>1. usb \in [Ctx -> Context] /\ w \in Context
    BY Facts
  <2>2. w.at = "ack"
    BY DEF Acknowledge, At
  <2> HIDE DEF w
  <2>3. w.ep \in Ends
    BY <2>1, ContextIs
  <2> QED
    BY <2>1, <2>2, <2>3 DEF w, Control
<1>2. can_transfer[e] \in 0 .. 2 /\ can_transfer \in [out : 0 .. 2, in : 0 .. 2]
  BY <1>1, Facts DEF Ends
<1>3. more \in 1 .. 2 /\ more \in 0 .. 2 /\ more \in Nat
  BY <1>2 DEF OneMore
<1>4. f \in {0, 1, 255}
  BY <1>1, FEIs
<1>5. x \in UsbPlace /\ t \in UsbPlace
  BY DEF UsbPlace
<1>6. \E u \in Context :
          /\ usb' = [usb EXCEPT ![c] = u] /\ u.ep = w.ep /\ u.b = w.b
          /\ e \in intSt => u.at = x /\ u.fe = f /\ u.load = more
          /\ e \notin intSt => u.at = t /\ u.fe = w.fe
  <2>1. usb' = [usb EXCEPT ![c] =
                   IF e \in intSt THEN [w EXCEPT !.at = x, !.fe = f, !.load = more]
                                  ELSE [w EXCEPT !.at = t]]
    BY DEF Acknowledge
  <2> HIDE DEF w, x, f, more, t
  <2>2. CASE e \in intSt
    <3> DEFINE u == [w EXCEPT !.at = x, !.fe = f, !.load = more]
    <3>1. u = [at |-> x, ep |-> w.ep, fe |-> f, load |-> more, en |-> w.en,
               n |-> w.n, b |-> w.b]
      <4> DEFINE v == [w EXCEPT !.at = x]
      <4>1. v = [at |-> x, ep |-> w.ep, fe |-> w.fe, load |-> w.load, en |-> w.en,
                 n |-> w.n, b |-> w.b]
        BY <1>1, ContextIs, SMTT(30)
      <4>2. u = [v EXCEPT !.fe = f, !.load = more]
        OBVIOUS
      <4> HIDE DEF v, u
      <4> QED
        BY <4>1, <4>2
    <3>2. w.ep \in Ends /\ w.en \in SUBSET Ends /\ w.n \in Nat /\ w.b \in Seq(Nat)
      BY <1>1, ContextIs
    <3>3. usb' = [usb EXCEPT ![c] = u]
      BY <2>1, <2>2
    <3> HIDE DEF u
    <3>4. u \in Context /\ u.at = x /\ u.ep = w.ep /\ u.fe = f /\ u.load = more /\ u.b = w.b
      BY <1>3, <1>4, <1>5, <3>1, <3>2 DEF Context
    <3> QED
      BY <2>2, <3>3, <3>4
  <2>3. CASE e \notin intSt
    <3> DEFINE u == [w EXCEPT !.at = t]
    <3>1. u = [at |-> t, ep |-> w.ep, fe |-> w.fe, load |-> w.load, en |-> w.en,
               n |-> w.n, b |-> w.b]
      BY <1>1, ContextIs, SMTT(30)
    <3>2. /\ w.ep \in Ends /\ w.fe \in {0, 1, 255} /\ w.load \in Nat
          /\ w.en \in SUBSET Ends /\ w.n \in Nat /\ w.b \in Seq(Nat)
      BY <1>1, ContextIs
    <3>3. usb' = [usb EXCEPT ![c] = u]
      BY <2>1, <2>3
    <3> HIDE DEF u
    <3>4. u \in Context /\ u.at = t /\ u.ep = w.ep /\ u.fe = w.fe /\ u.b = w.b
      BY <1>5, <3>1, <3>2 DEF Context
    <3> QED
      BY <2>3, <3>3, <3>4
  <2> QED
    BY <2>2, <2>3
<1>7. PICK u \in Context :
          /\ usb' = [usb EXCEPT ![c] = u] /\ u.ep = w.ep /\ u.b = w.b
          /\ e \in intSt => u.at = x /\ u.fe = f /\ u.load = more
          /\ e \notin intSt => u.at = t /\ u.fe = w.fe
  BY <1>6
<1>8. /\ usb' \in [Ctx -> Context] /\ usb'[c] = u
      /\ \A d \in Ctx : d # c => usb'[d] = usb[d]
  BY <1>1, <1>7, ContextSet
<1>9. can_transfer' = IF e \in intSt /\ c = "isr"
                      THEN [can_transfer EXCEPT ![e] = more] ELSE can_transfer
  BY DEF Acknowledge
<1> HIDE DEF more, x, f, w
<1>10. /\ can_transfer' \in [out : 0 .. 2, in : 0 .. 2]
       /\ e = "in" /\ "in" \in intSt /\ c = "isr" => can_transfer'.in > 0
       /\ e = "out" \/ "in" \notin intSt \/ c # "isr" => can_transfer'.in = can_transfer.in
       /\ e = "in" \/ "out" \notin intSt \/ c # "isr" => can_transfer'.out = can_transfer.out
  <2>1. CASE e \in intSt /\ c = "isr"
    <3>1. /\ can_transfer' \in [out : 0 .. 2, in : 0 .. 2]
          /\ e = "in" => can_transfer'.in = more /\ can_transfer'.out = can_transfer.out
          /\ e = "out" => can_transfer'.out = more /\ can_transfer'.in = can_transfer.in
      BY <1>1, <1>2, <1>3, <1>9, <2>1, CreditSet
    <3>2. e = "in" \/ e = "out"
      BY <1>1 DEF Ends
    <3> QED
      BY <1>3, <2>1, <3>1, <3>2
  <2>2. CASE ~ (e \in intSt /\ c = "isr")
    BY <1>1, <1>2, <1>9, <2>2
  <2> QED
    BY <2>1, <2>2
<1> QED
  BY <1>1, <1>3, <1>7, <1>8, <1>10 DEF w, x, f, t

\* acknowledges the event of an endpoint
LEMMA AcknowledgeKeeps ==
    ASSUME IInv, NEW c \in Ctx, Acknowledge(c)
    PROVE  IInv'
<1> DEFINE e == usb[c].ep
<1>0. Types /\ Control /\ TxInv /\ RxInv
  BY DEF IInv
<1>1. /\ Runs(c) /\ intSt' = intSt \ {e}
      /\ UNCHANGED <<tx, rx, nl_in_rx, flags, intEn, slow, irqOn, fifo,
                     th, host, accepted, arrived, got, reentered, torn, dropped>>
  BY DEF Acknowledge, At, bufVars, seenVars
<1>2. /\ usb[c].at = "ack" /\ e \in Ends
      /\ usb' \in [Ctx -> Context] /\ \A d \in Ctx : d # c => usb'[d] = usb[d]
      /\ usb'[c].ep = e /\ usb'[c].b = usb[c].b
      /\ e \in intSt => /\ usb'[c].at = (IF c = "isr" THEN "test" ELSE "count")
                        /\ usb'[c].fe = FE(e) /\ usb'[c].load \in 1 .. 2
      /\ e \notin intSt => usb'[c].at = "test" /\ usb'[c].fe = 255
      /\ can_transfer' \in [out : 0 .. 2, in : 0 .. 2]
      /\ e = "in" /\ "in" \in intSt /\ c = "isr" => can_transfer'.in > 0
      /\ e = "out" \/ "in" \notin intSt \/ c # "isr" => can_transfer'.in = can_transfer.in
  BY <1>0, AcknowledgeIs
<1>3. /\ c = "isr" => isr.at = "ack" /\ isr' = usb'[c] /\ me' = me /\ isr.ep = e
      /\ c = "thread" => /\ me.at = "ack" /\ me' = usb'[c] /\ isr' = isr /\ isr.at = "idle"
                         /\ me.b = usb[c].b /\ me.ep = e
      /\ c = "isr" \/ c = "thread"
      /\ "isr" \in Ctx /\ "thread" \in Ctx /\ usb["isr"] = isr /\ usb["thread"] = me
      /\ usb'["isr"] = isr' /\ usb'["thread"] = me'
  BY <1>0, <1>1, <1>2, Facts, Contexts DEF Runs
<1>4. (e = "in" => FE(e) \in {0, 1} /\ (FE(e) = 1 <=> Len(fifo.in) = 2)) /\ FE(e) \in {0, 1}
  BY <1>2, FEIs
<1>10. e = "out" => (FE(e) = 1 <=> fifo.out # << >>)
  BY <1>2, FEIs
<1>5. Len(fifo.in) \in 0 .. 2 /\ (fifo.in = << >> => Len(fifo.in) = 0)
  <2>1. Len(fifo.in) \in Nat
    BY <1>0, Facts, LenProperties
  <2>2. Len(fifo.in) <= 2
    BY <1>0, Facts
  <2>3. fifo.in = << >> => Len(fifo.in) = 0
    BY EmptySeq
  <2> DEFINE l == Len(fifo.in)
  <2>4. l \in Nat /\ l <= 2
    BY <2>1, <2>2
  <2> HIDE DEF l
  <2>5. l \in 0 .. 2
    BY ONLY <2>4
  <2> QED
    BY <2>3, <2>5 DEF l
<1> HIDE DEF e
<1>6. Types'
  <2>1. isr'.at \in IsrPlace
    BY <1>0, <1>2, <1>3 DEF Types, IsrPlace
  <2> QED
    BY <1>0, <1>1, <1>2, <2>1 DEF Types
<1>7. Control'
  <2>1. \A d \in Ctx : usb'[d].at = "ack" => usb'[d].fe = 255
    BY <1>0, <1>2 DEF Control
  <2> QED
    BY <1>0, <1>1, <1>2, <1>3, <2>1 DEF Control
<1>8. TxInv'
  <2>1. WriterHasRoom'
    BY <1>0, <1>1 DEF TxInv, WriterHasRoom
  <2>2. InHand'
    BY <1>0, <1>1, <1>2, <1>3 DEF TxInv, InHand
  <2>3. RoomInController'
    <3>1. ASSUME e = "in", usb'[c].at \in {"test", "count"}, usb'[c].fe = 0
          PROVE  Len(fifo.in) < 2
      <4>1. FE(e) = 0
        BY <1>2, <3>1
      <4>2. Len(fifo.in) # 2
        BY <1>4, <3>1, <4>1
      <4> DEFINE l == Len(fifo.in)
      <4>3. l \in 0 .. 2 /\ l # 2
        BY <1>5, <4>2
      <4> HIDE DEF l
      <4>4. l < 2
        BY ONLY <4>3
      <4> QED
        BY <4>4 DEF l
    <3>2. CASE c = "isr"
      BY <1>0, <1>1, <1>2, <1>3, <3>1, <3>2 DEF TxInv, RoomInController
    <3>3. CASE c = "thread"
      BY <1>0, <1>1, <1>2, <1>3, <3>1, <3>3 DEF TxInv, RoomInController
    <3> QED
      BY <1>3, <3>2, <3>3
  <2>4. Credit'
    <3>1. me'.at = "count" => me'.load \in 1 .. 2
      BY <1>0, <1>2, <1>3 DEF TxInv, Credit
    <3>2. isr'.at = "test" /\ isr'.ep = "in" /\ isr'.fe = 1 => fifo.in # << >> \/ "in" \in intSt'
      <4>1. CASE c = "isr"
        BY <1>2, <1>3, <1>4, <1>5, <4>1, SMTT(30)
      <4>2. CASE c = "thread"
        BY <1>3, <4>2
      <4> QED
        BY <1>3, <4>1, <4>2
    <3>3. ~ reentered => \/ can_transfer'.in > 0 \/ fifo.in # << >> \/ "in" \in intSt'
                         \/ me'.at = "count" /\ me'.ep = "in"
      <4>1. CASE e = "in" /\ "in" \in intSt
        BY <1>2, <1>3, <4>1
      <4>2. CASE ~ (e = "in" /\ "in" \in intSt)
        <5>1. ("in" \in intSt' <=> "in" \in intSt) /\ can_transfer'.in = can_transfer.in
          BY <1>1, <1>2, <4>2 DEF Ends
        <5>2. me.at = "count" => me' = me
          BY <1>3
        <5> QED
          BY <1>0, <5>1, <5>2 DEF TxInv, Credit
      <4> QED
        BY <4>1, <4>2
    <3> QED
      BY <1>1, <3>1, <3>2, <3>3 DEF Credit
  <2>5. NotStranded'
    <3>1. CASE c = "isr"
      <4>1. "in" \in intSt => "in" \in intSt' \/ (isr'.at = "test" /\ isr'.ep = "in")
        BY <1>1, <1>2, <1>3, <3>1
      <4> QED
        BY <1>0, <1>1, <1>3, <3>1, <4>1 DEF TxInv, NotStranded
    <3>2. CASE c = "thread"
      <4>1. th.at = "ensure"
        BY <1>0, <1>3, <3>2 DEF Control
      <4> QED
        BY <1>1, <4>1 DEF NotStranded
    <3> QED
      BY <1>3, <3>1, <3>2
  <2>6. TxExact'
    <3>1. me'.b = me.b
      BY <1>2, <1>3
    <3>2. (TxExact <=> reentered \/ Stream(host, fifo.in, me.b, tx) = [i \in 1 .. accepted |-> i])'
      BY ExactIs, PTL
    <3> QED
      BY <1>0, <1>1, <3>1, <3>2, ExactIs DEF TxInv
  <2> QED
    BY <2>1, <2>2, <2>3, <2>4, <2>5, <2>6 DEF TxInv
<1>9. RxInv'
  <2>1. RxFrame
    <3>1. c = "isr" /\ isr'.at = "test" /\ isr'.ep = "out" /\ isr'.fe = 1 => fifo.out # << >>
      BY <1>2, <1>3, <1>10
    <3> QED
      BY <1>1, <1>2, <1>3, <3>1 DEF RxFrame
  <2> QED
    BY <1>0, <1>1, <2>1, RxKept DEF Types
<1> QED
  BY <1>6, <1>7, <1>8, <1>9, Parts

\* The credit, counted by the thread
LEMMA CountKeeps ==
    ASSUME IInv, Count
    PROVE  IInv'
<1>0. Types /\ Control /\ TxInv /\ RxInv
  BY DEF IInv
<1>1. /\ me.at = "count" /\ isr.at = "idle"
      /\ can_transfer' = [can_transfer EXCEPT ![me.ep] = me.load]
      /\ Goto("thread", "test")
      /\ UNCHANGED <<tx, rx, nl_in_rx, flags, intSt, intEn, slow, irqOn, fifo,
                     th, host, accepted, arrived, got, reentered, torn, dropped>>
  BY DEF Count, At, Runs, bufVars, seenVars, me, isr
<1>2. /\ usb' \in [Ctx -> Context] /\ isr' = isr
      /\ me'.at = "test" /\ me'.ep = me.ep /\ me'.fe = me.fe /\ me'.b = me.b
      /\ usb'["thread"].at = "test" /\ \A d \in Ctx : d # "thread" => usb'[d] = usb[d]
  <2>1. "test" \in UsbPlace
    BY DEF UsbPlace
  <2> QED
    BY <1>0, <1>1, <2>1, GotoIs, Facts, Contexts
<1>3. /\ can_transfer' \in [out : 0 .. 2, in : 0 .. 2]
      /\ me.ep = "in" => can_transfer'.in > 0
      /\ me.ep = "out" => can_transfer'.in = can_transfer.in
      /\ me.ep = "in" \/ me.ep = "out"
  <2>1. me.load \in 1 .. 2 /\ me.load \in 0 .. 2
    BY <1>0, <1>1 DEF TxInv, Credit
  <2>2. me.ep \in Ends
    BY <1>0, Facts, ContextIs
  <2>3. can_transfer \in [out : 0 .. 2, in : 0 .. 2]
    BY <1>0, Facts
  <2>4. /\ can_transfer' \in [out : 0 .. 2, in : 0 .. 2]
        /\ me.ep = "in" => can_transfer'.in = me.load
        /\ me.ep = "out" => can_transfer'.in = can_transfer.in
    BY <1>1, <2>1, <2>2, <2>3, CreditSet
  <2> QED
    BY <2>1, <2>2, <2>4 DEF Ends
<1>4. Types'
  BY <1>0, <1>1, <1>2, <1>3 DEF Types
<1>5. Control'
  <2>1. \A d \in Ctx : usb'[d].at = "ack" => usb'[d].fe = 255
    BY <1>0, <1>2 DEF Control
  <2> QED
    BY <1>0, <1>1, <1>2, <2>1 DEF Control
<1>6. TxInv'
  <2>1. WriterHasRoom'
    BY <1>0, <1>1 DEF TxInv, WriterHasRoom
  <2>2. InHand'
    BY <1>0, <1>1, <1>2 DEF TxInv, InHand
  <2>3. RoomInController'
    BY <1>0, <1>1, <1>2 DEF TxInv, RoomInController
  <2>4. Credit'
    BY <1>0, <1>1, <1>2, <1>3 DEF TxInv, Credit
  <2>5. NotStranded'
    BY <1>0, <1>1, <1>2 DEF TxInv, NotStranded
  <2>6. TxExact'
    <3>1. (TxExact <=> reentered \/ Stream(host, fifo.in, me.b, tx) = [i \in 1 .. accepted |-> i])'
      BY ExactIs, PTL
    <3> QED
      BY <1>0, <1>1, <1>2, <3>1, ExactIs DEF TxInv
  <2> QED
    BY <2>1, <2>2, <2>3, <2>4, <2>5, <2>6 DEF TxInv
<1>7. RxInv'
  <2>1. RxFrame
    BY <1>1, <1>2 DEF RxFrame
  <2> QED
    BY <1>0, <1>1, <2>1, RxKept DEF Types
<1> QED
  BY <1>4, <1>5, <1>6, <1>7, Parts

---------------------------------------------------------------------------
(* A packet from the host *)

\* What the handler finds when it takes one
LEMMA PacketFits ==
    ASSUME IInv, fifo.out # << >>
    PROVE  /\ Fits(Head(fifo.out), LastOut, Taken) \/ torn
           /\ Fits(Head(fifo.out), 0, Taken)
           /\ LastOut \in Nat /\ Taken \in Nat
<1> DEFINE p == Head(fifo.out)
<1>0. Types /\ RxInv
  BY DEF IInv
<1>1. /\ rx \in RxBuffer /\ nl_in_rx \in Nat /\ flags \in Flags /\ th.load \in Nat \cup Flags
      /\ fifo.out \in Seq(Seq(RxByte)) /\ arrived \in Nat /\ got \in Nat /\ torn \in BOOLEAN
  BY <1>0, Facts
<1>2. p \in Seq(RxByte) /\ p = fifo.out[1] /\ Pending(fifo.out) \in Nat
  <2> DEFINE T == Seq(RxByte)
  <2>1. fifo.out \in Seq(T) /\ \A s \in T : Len(s) \in Nat
    BY <1>1, LenProperties
  <2> HIDE DEF T
  <2>2. /\ p = fifo.out[1] /\ p \in T /\ Len(fifo.out) \in Nat /\ Len(fifo.out) # 0
        /\ \A i \in 1 .. Len(fifo.out) : fifo.out[i] \in T
    BY ONLY <2>1, fifo.out # << >>, Row DEF p
  <2>3. Len(fifo.out[1]) \in Nat
    BY <2>1, <2>2
  <2>4. Len(fifo.out) # 1 => Len(fifo.out[2]) \in Nat
    <3> DEFINE l == Len(fifo.out)
    <3>1. l \in Nat /\ l # 0
      BY <2>2
    <3> HIDE DEF l
    <3>2. l # 1 => 2 \in 1 .. l
      BY ONLY <3>1
    <3> QED
      BY <2>1, <2>2, <3>2 DEF l
  <2>5. Pending(fifo.out) \in Nat
    <3> DEFINE f == fifo.out  a == Len(fifo.out[1])  b == Len(fifo.out[2])
    <3>1. a \in Nat /\ (Len(f) # 1 => b \in Nat) /\ f # << >>
      BY <2>3, <2>4
    <3>2. Pending(f) = IF Len(f) = 1 THEN a ELSE a + b
      BY <3>1 DEF Pending
    <3> HIDE DEF f, a, b
    <3>3. Len(f) # 1 => a + b \in Nat
      BY ONLY <3>1
    <3>4. Pending(f) \in Nat
      BY ONLY <3>1, <3>2, <3>3
    <3> QED
      BY <3>4 DEF f
  <2> QED
    BY <2>2, <2>5 DEF T
<1>3. Taken \in Nat /\ Numbered(p, Taken)
  BY <1>0, <1>1, <1>2 DEF RxInv, Arriving, Taken
<1>4. LastOut \in Nat
  <2>1. CASE th.at = "copy"
    <3>1. th.load \in 0 .. RxSize - 1 /\ RxSize \in Nat
      BY <1>0, <2>1, Sizes DEF RxInv, ReadIndex
    <3>2. rx.buf \in [0 .. RxSize -> RxByte]
      BY <1>1, Sizes, BufferIs DEF RxBuffer
    <3>3. rx.buf[th.load] \in RxByte /\ \A b \in RxByte : b.id \in Nat
      BY <3>1, <3>2, Sizes DEF RxByte
    <3> QED
      BY <2>1, <3>3 DEF LastOut
  <2>2. CASE th.at # "copy"
    BY <1>1, <2>2 DEF LastOut
  <2> QED
    BY <2>1, <2>2
<1>5. ~ torn => LastOut <= Taken
  BY <1>0 DEF RxInv, Order
<1> HIDE DEF p
<1>6. Fits(p, LastOut, Taken) \/ torn
  BY <1>1, <1>2, <1>3, <1>4, <1>5 DEF Fits
<1>7. Fits(p, 0, Taken)
  <2> DEFINE z == 0
  <2>1. z \in Nat /\ z <= Taken
    BY <1>3
  <2> HIDE DEF z
  <2>2. Fits(p, z, Taken)
    BY <1>1, <1>2, <1>3, <2>1 DEF Fits
  <2> QED
    BY <2>2 DEF z
<1> QED
  BY <1>3, <1>4, <1>6, <1>7 DEF p

\* One packet fewer in the controller
LEMMA PendingTail ==
    ASSUME NEW f \in Seq(Seq(RxByte)), f # << >>, Len(f) <= 2
    PROVE  /\ Tail(f) \in Seq(Seq(RxByte)) /\ Len(Tail(f)) <= 2 /\ Len(f) \in {1, 2}
           /\ Len(Head(f)) \in Nat /\ Pending(Tail(f)) \in Nat
           /\ Pending(f) = Pending(Tail(f)) + Len(Head(f))
           /\ Tail(f) # << >> => Len(f) = 2 /\ Tail(f)[1] = f[2]
           /\ Len(Tail(f)) # 2 /\ Head(f) = f[1]
<1> DEFINE T == Seq(RxByte)  t == Tail(f)  l == Len(f)  k == Len(t)
<1>1. f \in Seq(T) /\ \A s \in T : Len(s) \in Nat
  BY LenProperties
<1> HIDE DEF T
<1>2. /\ l \in Nat /\ l # 0 /\ t \in Seq(T) /\ k = l - 1 /\ Head(f) = f[1] /\ Head(f) \in T
      /\ \A i \in 1 .. k : t[i] = f[i + 1]
      /\ \A i \in 1 .. l : f[i] \in T
  BY ONLY <1>1, f # << >>, Row DEF t, l, k
<1>3. l <= 2
  OBVIOUS
<1> HIDE DEF t
<1>4. t = << >> <=> k = 0
  BY ONLY <1>2, Row DEF k
<1>5. \/ l = 1 /\ k = 0
      \/ l = 2 /\ k = 1 /\ 2 \in 1 .. l /\ 1 \in 1 .. k
  <2> HIDE DEF l, k
  <2> QED
    BY ONLY <1>2, <1>3
<1> DEFINE h == Len(Head(f))
<1>6. /\ k <= 2 /\ k # 2 /\ l \in {1, 2} /\ h \in Nat /\ Pending(t) \in Nat
      /\ Pending(f) = Pending(t) + h
      /\ t # << >> => l = 2 /\ t[1] = f[2]
  <2>1. CASE l = 1 /\ k = 0
    <3>1. t = << >> /\ h \in Nat /\ Pending(t) = 0 /\ Pending(f) = h
      BY <1>1, <1>2, <1>4, <2>1 DEF Pending
    <3> HIDE DEF l, k, h
    <3> QED
      BY ONLY <2>1, <3>1
  <2>2. CASE l = 2 /\ k = 1 /\ 2 \in 1 .. l /\ 1 \in 1 .. k
    <3> DEFINE g == Len(f[2])
    <3>1. t # << >> /\ t[1] = f[2] /\ h \in Nat /\ g \in Nat
      <4>1. t[1] = f[1 + 1] /\ 1 + 1 = 2
        BY <1>2, <2>2
      <4> QED
        BY <1>1, <1>2, <1>4, <2>2, <4>1
    <3>2. Pending(t) = g /\ Pending(f) = h + g
      BY <1>2, <2>2, <3>1 DEF Pending
    <3> HIDE DEF l, k, h, g
    <3> QED
      BY ONLY <2>2, <3>1, <3>2
  <2> HIDE DEF l, k, h
  <2> QED
    BY <1>5, <2>1, <2>2
<1> HIDE DEF k, l, h
<1>7. /\ t \in Seq(T) /\ k <= 2 /\ l \in {1, 2} /\ h \in Nat /\ Pending(t) \in Nat
      /\ Pending(f) = Pending(t) + h /\ (t # << >> => l = 2 /\ t[1] = f[2])
      /\ k # 2 /\ Head(f) = f[1]
  BY <1>2, <1>6
<1> QED
  BY <1>7 DEF t, T, k, l, h

\* It leaves the controller,
LEMMA PacketLeaves ==
    ASSUME IInv, fifo.out # << >>, fifo'.out = Tail(fifo.out), arrived' = arrived,
           ~ (isr'.at = "test" /\ isr'.ep = "out")
    PROVE  /\ Arriving' /\ Taken \in Nat /\ Len(Head(fifo.out)) \in Nat
           /\ Taken' = Taken + Len(Head(fifo.out))
<1> DEFINE f == fifo.out  t == Tail(f)  h == Len(Head(f))  P == Pending(f)  Q == Pending(t)
           a == arrived
<1>0. Types /\ RxInv
  BY DEF IInv
<1>1. f \in Seq(Seq(RxByte)) /\ Len(f) <= 2 /\ a \in Nat
  BY <1>0, Facts
<1>2. /\ t \in Seq(Seq(RxByte)) /\ Len(t) <= 2 /\ Len(f) \in {1, 2}
      /\ h \in Nat /\ Q \in Nat /\ P = Q + h
      /\ t # << >> => Len(f) = 2 /\ t[1] = f[2]
      /\ Len(t) # 2 /\ Head(f) = f[1]
  <2> HIDE DEF f
  <2> QED
    BY <1>1, PendingTail DEF f
<1>3. /\ Taken = a - P /\ Taken' = a - Q /\ P <= a
      /\ Len(f) = 2 => Numbered(f[2], Taken + Len(f[1]))
  BY <1>0 DEF Taken, RxInv, Arriving
<1>4. Taken \in Nat /\ Taken' = Taken + h /\ Q <= a
  <2> HIDE DEF f, t, h, P, Q, a
  <2> QED
    BY ONLY <1>1, <1>2, <1>3
<1>5. t # << >> => Numbered(t[1], Taken')
  BY <1>2, <1>3, <1>4
<1>6. Arriving'
  BY <1>2, <1>4, <1>5 DEF Arriving
<1> QED
  BY <1>2, <1>4, <1>6

\* and goes into rxbuf
LEMMA PacketArrives ==
    ASSUME IInv, fifo.out # << >>, NEW s, s = Packed(Head(fifo.out)),
           rx' = s.rx, nl_in_rx' = s.nl, torn' = (torn \/ (s.back /\ ReaderInDequeue)),
           th' = th, got' = got, arrived' = arrived, fifo'.out = Tail(fifo.out),
           free(rx) >= Packet \/ th.at = "ensure",
           ~ (isr'.at = "test" /\ isr'.ep = "out")
    PROVE  /\ s \in Work /\ Arriving' /\ Lines' /\ ReadIndex' /\ Order'
           /\ (s.stop <=> free(rx') < Packet) /\ (s.full => free(rx) < Packet)
<1> DEFINE n == Len(Head(fifo.out))  lo == IF torn THEN 0 ELSE LastOut
<1>0. Types /\ RxInv
  BY DEF IInv
<1>1. Arriving' /\ Taken \in Nat /\ n \in Nat /\ Taken' = Taken + n
  BY PacketLeaves
<1>2. Packs(s, n, lo, Taken) /\ lo \in Nat
  <2>1. Fits(Head(fifo.out), lo, Taken) /\ lo \in Nat
    BY PacketFits
  <2> HIDE DEF lo
  <2> QED
    BY <2>1, PackedIs
<1>3. /\ s \in Work /\ s.nl <= nl_in_rx + n
      /\ s.rx.read = RxSize => rx.read = RxSize
      /\ s.stop <=> free(s.rx) < Packet
      /\ free(rx) >= Packet =>
            /\ ~ s.full
            /\ ~ s.back => /\ s.rx.read = rx.read /\ available(rx) <= available(s.rx)
                           /\ rx.read > 0 => s.rx.buf[rx.read - 1] = rx.buf[rx.read - 1]
      /\ Ascending(rx, lo, Taken) /\ (rx.read < RxSize \/ (free(rx) >= Packet /\ ~ s.back))
            => Ascending(s.rx, lo, Taken + n)
  BY <1>2 DEF Packs
<1>4. /\ s.rx \in RxBuffer /\ s.nl \in Nat /\ rx \in RxBuffer /\ nl_in_rx \in Nat
      /\ free(rx) \in Nat /\ RxSize \in Nat /\ Packet \in Nat /\ got \in Nat
      /\ rx.read \in 0 .. RxSize /\ s.rx.read \in 0 .. RxSize
      /\ available(rx) \in Nat /\ available(s.rx) \in Nat
      /\ rx.read < RxSize => (isEmpty(rx) <=> available(rx) = 0)
      /\ s.rx.read < RxSize => (isEmpty(s.rx) <=> available(s.rx) = 0)
      /\ torn \in BOOLEAN /\ s.back \in BOOLEAN
  <2>1. /\ rx \in RxBuffer /\ nl_in_rx \in Nat /\ got \in Nat /\ torn \in BOOLEAN
    BY <1>0, Facts
  <2>2. s \in Work
    BY <1>3
  <2>3. s.rx \in RxBuffer /\ s.nl \in Nat /\ s.back \in BOOLEAN
    BY ONLY <2>2, WorkIs
  <2> DEFINE c == s.rx
  <2>4. c \in RxBuffer
    BY <2>3
  <2> HIDE DEF c
  <2>5. /\ RxSize \in Nat /\ Packet \in Nat
    BY Sizes
  <2>6. /\ free(rx) \in Nat /\ rx.read \in 0 .. RxSize /\ available(rx) \in Nat
        /\ rx.read < RxSize => (isEmpty(rx) <=> available(rx) = 0)
    BY ONLY <2>1, <2>5, RxCounts
  <2>7. /\ c.read \in 0 .. RxSize /\ available(c) \in Nat
        /\ c.read < RxSize => (isEmpty(c) <=> available(c) = 0)
    BY ONLY <2>4, <2>5, RxCounts
  <2> QED
    BY <2>1, <2>3, <2>5, <2>6, <2>7 DEF c
<1>5. s.full => free(rx) < Packet
  BY <1>3, <1>4
<1>6. Lines'
  <2>1. nl_in_rx <= Taken /\ (th.at = "count" => th.load \in Nat \ {0} /\ th.load <= Taken)
    BY <1>0 DEF RxInv, Lines
  <2>2. s.nl <= Taken + n
    BY <1>1, <1>3, <1>4, <2>1
  <2>3. th.at = "count" => th.load \in Nat \ {0} /\ th.load <= Taken + n
    BY <1>1, <2>1
  <2> QED
    BY <1>1, <2>2, <2>3 DEF Lines
<1>7. ASSUME ~ torn', ReaderInDequeue
      PROVE  /\ ~ torn /\ s.rx.read = rx.read /\ available(rx) <= available(s.rx)
             /\ rx.read > 0 => s.rx.buf[rx.read - 1] = rx.buf[rx.read - 1]
             /\ free(rx) >= Packet /\ ~ s.back
  <2>1. th.at # "ensure"
    BY <1>7 DEF ReaderInDequeue
  <2> QED
    BY <1>3, <1>7, <2>1
<1>8. ReadIndex'
  <2>1. /\ rx.read = RxSize => th.at \in {"copy", "mod", "wrap"}
        /\ th.at \in {"store", "copy"} => th.load \in 0 .. RxSize - 1
        /\ th.at = "wrap" => th.load \in 0 .. RxSize
        /\ th.at = "skip" => th.load \in Flags
        /\ ~ torn => /\ th.at = "store" => ~ isEmpty(rx)
                     /\ th.at \in {"store", "wrap"} => th.load = rx.read
                     /\ th.at = "copy" => th.load = rx.read - 1
    BY <1>0 DEF RxInv, ReadIndex
  <2>2. s.rx.read = RxSize => th.at \in {"copy", "mod", "wrap"}
    BY <1>3, <2>1
  <2>3. ~ torn' /\ th.at \in {"store", "wrap"} => th.load = s.rx.read
    BY <1>7, <2>1 DEF ReaderInDequeue
  <2>4. ~ torn' /\ th.at = "copy" => th.load = s.rx.read - 1
    BY <1>7, <2>1 DEF ReaderInDequeue
  <2>5. ASSUME ~ torn', th.at = "store"
        PROVE  ~ isEmpty(s.rx)
    <3>1. ~ isEmpty(rx) /\ s.rx.read = rx.read /\ available(rx) <= available(s.rx)
      BY <1>7, <2>1, <2>5 DEF ReaderInDequeue
    <3>2. rx.read < RxSize
      BY <1>4, <2>1, <2>5
    <3>3. available(s.rx) # 0
      BY <1>4, <3>1, <3>2
    <3> QED
      BY <1>4, <3>1, <3>2, <3>3
  <2> QED
    BY <2>1, <2>2, <2>3, <2>4, <2>5 DEF ReadIndex
<1>9. Order'
  <2> SUFFICES ASSUME ~ torn'
               PROVE  (/\ got <= Taken /\ LastOut <= Taken /\ Ascending(rx, LastOut, Taken)
                       /\ th.at = "copy" => got < LastOut)'
    BY DEF Order
  <2>1. ~ torn
    OBVIOUS
  <2>2. /\ got <= Taken /\ LastOut <= Taken /\ Ascending(rx, LastOut, Taken)
        /\ th.at = "copy" => got < LastOut
    BY <1>0, <2>1 DEF RxInv, Order
  <2>3. LastOut' = LastOut
    <3>1. CASE th.at = "copy"
      <4>1. th.load = rx.read - 1 /\ th.load \in 0 .. RxSize - 1
        BY <1>0, <2>1, <3>1 DEF RxInv, ReadIndex
      <4>2. rx.read > 0
        BY <1>4, <4>1
      <4>3. s.rx.buf[th.load] = rx.buf[th.load]
        BY <1>7, <3>1, <4>1, <4>2 DEF ReaderInDequeue
      <4> QED
        BY <3>1, <4>3 DEF LastOut
    <3>2. CASE th.at # "copy"
      BY <3>2 DEF LastOut
    <3> QED
      BY <3>1, <3>2
  <2>4. lo = LastOut
    BY <2>1
  <2>5. rx.read < RxSize \/ (free(rx) >= Packet /\ ~ s.back)
    <3>1. CASE rx.read = RxSize
      <4>1. th.at \in {"copy", "mod", "wrap"}
        BY <1>0, <3>1 DEF RxInv, ReadIndex
      <4> QED
        BY <1>7, <4>1 DEF ReaderInDequeue
    <3>2. CASE rx.read # RxSize
      BY <1>4, <3>2
    <3> QED
      BY <3>1, <3>2
  <2>6. Ascending(s.rx, LastOut, Taken + n)
    BY <1>3, <2>2, <2>4, <2>5
  <2>7. LastOut \in Nat
    BY <1>2, <2>4
  <2>8. got <= Taken + n /\ LastOut <= Taken + n
    BY <1>1, <1>4, <2>2, <2>7
  <2> HIDE DEF lo, n
  <2> QED
    BY <1>1, <2>2, <2>3, <2>6, <2>8
<1> QED
  BY <1>1, <1>3, <1>5, <1>6, <1>8, <1>9

---------------------------------------------------------------------------
(* The handlers of the OUT endpoint *)

\* A packet leaves the controller for rxbuf
LEMMA TakePacketIs ==
    ASSUME Types, fifo.out # << >>, NEW s \in Work, NEW k \in 0 .. 2, TakePacket(s, k)
    PROVE  /\ fifo' \in [out : Seq(Seq(RxByte)), in : Seq(Seq(Nat))]
           /\ fifo'.out = Tail(fifo.out) /\ fifo'.in = fifo.in /\ Len(fifo'.out) <= 2
           /\ can_transfer' \in [out : 0 .. 2, in : 0 .. 2]
           /\ can_transfer'.in = can_transfer.in
           /\ rx' = s.rx /\ rx' \in RxBuffer /\ nl_in_rx' = s.nl /\ nl_in_rx' \in Nat
           /\ flags' \in Flags
           /\ dropped' = (dropped \/ s.full) /\ dropped' \in BOOLEAN
           /\ torn' = (torn \/ (s.back /\ ReaderInDequeue)) /\ torn' \in BOOLEAN
           /\ intSt' \in SUBSET Ends /\ ("in" \in intSt => "in" \in intSt')
           /\ slow' \in BOOLEAN
<1> DEFINE f == fifo.out  t == Tail(fifo.out)  skip == s.skip
<1>1. /\ s.rx \in RxBuffer /\ s.nl \in Nat /\ skip \in BOOLEAN
      /\ s.full \in BOOLEAN /\ s.back \in BOOLEAN
  BY WorkIs
<1>2. /\ fifo' = [fifo EXCEPT !.out = t]
      /\ can_transfer' = [can_transfer EXCEPT !.out = k]
      /\ rx' = s.rx /\ nl_in_rx' = s.nl
      /\ flags' = [flags EXCEPT !.flush_to_nl = skip]
      /\ dropped' = (dropped \/ s.full)
      /\ torn' = (torn \/ (s.back /\ ReaderInDequeue))
      /\ intSt' = intSt \cup (IF k > 0 THEN {"out"} ELSE {})
      /\ slow' = (slow \/ k > 0)
  BY DEF TakePacket
<1>3. /\ fifo \in [out : Seq(Seq(RxByte)), in : Seq(Seq(Nat))]
      /\ f \in Seq(Seq(RxByte)) /\ Len(f) <= 2
      /\ can_transfer \in [out : 0 .. 2, in : 0 .. 2]
      /\ flags \in Flags /\ intSt \in SUBSET Ends /\ "out" \in Ends
      /\ torn \in BOOLEAN /\ dropped \in BOOLEAN
  BY Facts
<1>4. t \in Seq(Seq(RxByte)) /\ Len(t) <= 2
  BY <1>3, PendingTail
<1> HIDE DEF t, skip
<1>5. /\ fifo' \in [out : Seq(Seq(RxByte)), in : Seq(Seq(Nat))]
      /\ fifo'.out = t /\ fifo'.in = fifo.in
  BY <1>2, <1>3, <1>4, FifoOut
<1>6. can_transfer' \in [out : 0 .. 2, in : 0 .. 2] /\ can_transfer'.in = can_transfer.in
  BY <1>2, <1>3
<1>7. flags' \in Flags
  BY <1>1, <1>2, <1>3 DEF Flags
<1>8. intSt' \in SUBSET Ends /\ ("in" \in intSt => "in" \in intSt')
  BY <1>2, <1>3
<1>9. slow' \in BOOLEAN /\ torn' \in BOOLEAN /\ dropped' \in BOOLEAN
  BY <1>1, <1>2, <1>3
<1> QED
  BY <1>1, <1>2, <1>4, <1>5, <1>6, <1>7, <1>8, <1>9 DEF t

\* In the interrupt there is a packet to read,
LEMMA CalledOut ==
    ASSUME IInv, isr.at = "test", isr.ep = "out", Called("isr")
    PROVE  "out" \in intEn /\ can_transfer.out > 0 /\ fifo.out # << >>
<1>1. Types /\ RxInv
  BY DEF IInv
<1>2. /\ "out" \in intEn /\ can_transfer.out > 0
      /\ (IF isr.fe = 255 THEN FE("out") ELSE isr.fe) = 1
  BY DEF Called, isr
<1>3. CASE isr.fe = 255
  BY <1>1, <1>2, <1>3, FEIs, Facts
<1>4. CASE isr.fe # 255
  BY <1>1, <1>2, <1>4 DEF RxInv, Arriving
<1> QED
  BY <1>2, <1>3, <1>4

\* The OUT handler in the interrupt: all of it in one step
LEMMA IsrEPOutKeeps ==
    ASSUME IInv, IsrEPOut
    PROVE  IInv'
<1> DEFINE s == Packed(Head(fifo.out))  k == Less(can_transfer.out, 2)
<1>0. Types /\ Control /\ TxInv /\ RxInv
  BY DEF IInv
<1>1. /\ isr.at = "test" /\ isr.ep = "out" /\ Called("isr") /\ NextEp("isr")
      /\ UNCHANGED <<tx, irqOn, ep0, th, host, accepted, arrived, got, reentered>>
  BY DEF IsrEPOut, isr
<1>2. "out" \in intEn /\ can_transfer.out > 0 /\ fifo.out # << >>
  BY <1>1, CalledOut
<1>3. Onward("isr") /\ usb["isr"] = isr /\ "isr" \in Ctx
  BY <1>0, <1>1, NextEpIs, Facts DEF Onward
<1>4. /\ Control' /\ isr'.at \in IsrPlace /\ me' = me /\ isr'.at # "test"
      /\ usb' \in [Ctx -> Context]
  <2>1. Runs("isr") /\ usb["isr"].at # "idle" /\ th'.at = th.at /\ reentered' = reentered
    BY <1>1, <1>3 DEF Runs
  <2> QED
    BY <1>0, <1>3, <2>1, OnwardIs DEF Onward
<1>5. ~ (me.at # "idle" /\ ~ reentered)
  BY <1>0, <1>1 DEF Control
<1>6. CASE free(rx) < Packet
  <2>1. /\ intEn' = intEn \ {"out"}
        /\ UNCHANGED <<rx, nl_in_rx, flags, intSt, slow, can_transfer, fifo, torn, dropped>>
    BY <1>6 DEF IsrEPOut
  <2>2. Types'
    BY <1>0, <1>1, <1>4, <2>1 DEF Types
  <2>3. TxInv'
    <3>1. TxFrame
      BY <1>1, <1>4, <2>1 DEF TxFrame
    <3> QED
      BY <1>0, <1>1, <3>1, TxKept DEF Types
  <2>4. RxInv'
    <3>1. Taken' = Taken /\ LastOut' = LastOut
      BY <1>1, <2>1 DEF Taken, LastOut
    <3>2. Arriving' /\ Lines' /\ ReadIndex'
      BY <1>0, <1>1, <1>4, <2>1, <3>1 DEF RxInv, Arriving, Lines, ReadIndex
    <3>3. Order'
      BY <1>0, <1>1, <2>1, <3>1 DEF RxInv, Order
    <3>4. OutOff'
      <4>1. free(rx) \in Nat /\ Packet \in Nat
        BY <1>0, Facts, RxCounts, Sizes
      <4> QED
        BY <1>0, <1>1, <1>4, <1>6, <2>1, <4>1 DEF RxInv, OutOff, RxReenabled
    <3> QED
      BY <3>2, <3>3, <3>4 DEF RxInv
  <2> QED
    BY <1>4, <2>2, <2>3, <2>4, Parts
<1>7. CASE ~ (free(rx) < Packet)
  <2>1. TakePacket(s, k) /\ intEn' = (IF s.stop THEN intEn \ {"out"} ELSE intEn)
    BY <1>7 DEF IsrEPOut
  <2>2. k \in 0 .. 2
    <3>1. can_transfer.out \in 0 .. 2
      BY <1>0, Facts
    <3> QED
      BY <3>1 DEF Less
  <2>3. free(rx) >= Packet
    <3>1. free(rx) \in Nat /\ Packet \in Nat
      BY <1>0, Facts, RxCounts, Sizes
    <3> QED
      BY <1>7, <3>1
  <2> HIDE DEF k, s
  <2>4. rx' = s.rx /\ nl_in_rx' = s.nl /\ torn' = (torn \/ (s.back /\ ReaderInDequeue))
        /\ fifo'.out = Tail(fifo.out)
    <3>1. fifo \in [out : Seq(Seq(RxByte)), in : Seq(Seq(Nat))]
      BY <1>0, Facts
    <3>2. fifo' = [fifo EXCEPT !.out = Tail(fifo.out)]
      BY <2>1 DEF TakePacket
    <3> DEFINE t == Tail(fifo.out)
    <3> HIDE DEF t
    <3>3. fifo'.out = t
      BY <3>1, <3>2 DEF t
    <3> QED
      BY <2>1, <3>3 DEF TakePacket, t
  <2>5. /\ s \in Work /\ Arriving' /\ Lines' /\ ReadIndex' /\ Order'
        /\ (s.stop <=> free(rx') < Packet) /\ (s.full => free(rx) < Packet)
    BY <1>1, <1>2, <1>4, <2>3, <2>4, PacketArrives DEF s
  <2>6. /\ fifo' \in [out : Seq(Seq(RxByte)), in : Seq(Seq(Nat))]
        /\ fifo'.in = fifo.in /\ Len(fifo'.out) <= 2
        /\ can_transfer' \in [out : 0 .. 2, in : 0 .. 2]
        /\ can_transfer'.in = can_transfer.in
        /\ rx' \in RxBuffer /\ nl_in_rx' \in Nat /\ flags' \in Flags
        /\ dropped' = (dropped \/ s.full) /\ dropped' \in BOOLEAN /\ torn' \in BOOLEAN
        /\ intSt' \in SUBSET Ends /\ ("in" \in intSt => "in" \in intSt')
        /\ slow' \in BOOLEAN
    BY <1>0, <1>2, <2>1, <2>2, <2>5, TakePacketIs
  <2>7. dropped' = dropped
    BY <1>7, <2>5, <2>6, <1>0, Facts
  <2>8. Types'
    BY <1>0, <1>1, <1>4, <2>1, <2>6 DEF Types, RxBuffer
  <2>9. TxInv'
    <3>1. TxFrame
      BY <1>1, <1>4, <2>1, <2>6, <2>7 DEF TxFrame
    <3> QED
      BY <1>0, <1>1, <3>1, TxKept DEF Types
  <2>10. OutOff'
    <3>1. "out" \notin intEn' => free(rx') < Packet
      BY <1>2, <2>1, <2>5
    <3>2. free(rx') \in Nat /\ Packet \in Nat
      BY <2>6, RxCounts, Sizes
    <3>3. ~ (me.at \in {"disable", "disabled"} /\ me.ep = "out")
      BY <1>0, <1>7 DEF RxInv, OutOff
    <3>4. me.at = "disabled" /\ "out" \in intEn' => "out" \in me.en
      BY <1>0, <1>2 DEF RxInv, OutOff
    <3> QED
      BY <1>1, <1>4, <1>5, <3>1, <3>2, <3>3, <3>4 DEF OutOff, RxReenabled
  <2> QED
    BY <1>4, <2>5, <2>8, <2>9, <2>10, Parts DEF RxInv
<1> QED
  BY <1>6, <1>7

---------------------------------------------------------------------------
(* ... and called by the thread *)

\* The thread's context goes on, and nothing runs over it
LEMMA MeGoes ==
    ASSUME Types, NEW u \in Context, ThUsb(u)
    PROVE  /\ usb' \in [Ctx -> Context] /\ me' = u /\ isr' = isr
           /\ \A d \in Ctx : d # "thread" => usb'[d] = usb[d]
BY ContextSet, Facts, Contexts DEF ThUsb

\* The thread's own usbisr goes to another place
LEMMA MeGoto ==
    ASSUME Types, NEW x \in UsbPlace, Goto("thread", x)
    PROVE  /\ usb' \in [Ctx -> Context] /\ isr' = isr /\ me' \in Context
           /\ \A d \in Ctx : d # "thread" => usb'[d] = usb[d]
           /\ me'.at = x /\ me'.ep = me.ep /\ me'.fe = me.fe
           /\ me'.load = me.load /\ me'.en = me.en /\ me'.n = me.n /\ me'.b = me.b
BY GotoIs, Facts, Contexts

\* ... or on to the next endpoint
LEMMA MeNext ==
    ASSUME Types, NextEp("thread")
    PROVE  /\ usb' \in [Ctx -> Context] /\ isr' = isr /\ me' \in Context
           /\ \A d \in Ctx : d # "thread" => usb'[d] = usb[d]
           /\ me'.at \in {"ack", "end"} /\ me'.fe = 255 /\ me'.b = << >> /\ me'.n = 0
BY NextEpIs, Facts, Contexts DEF Fresh

\* What it keeps of Control
LEMMA MeControl ==
    ASSUME Control, Types, me.at # "idle", isr.at = "idle", isr' = isr,
           usb' \in [Ctx -> Context],
           th'.at = th.at, reentered' = reentered, me'.at # "idle",
           me'.at \in {"read", "copy"} => me'.ep = "out",
           me'.at \in {"dequeue", "step", "wrap", "sent"} => me'.ep = "in",
           me'.at = "ack" => me'.fe = 255
    PROVE  Control' /\ th.at = "ensure"
<1>1. th.at = "ensure"
  BY DEF Control
<1>2. \A c \in Ctx : usb'[c].at = "ack" => usb'[c].fe = 255
  BY Contexts DEF Control
<1> QED
  BY <1>1, <1>2 DEF Control

\* The OUT handler in the thread looks for room,
LEMMA ThEPOutKeeps ==
    ASSUME IInv, ThEPOut
    PROVE  IInv'
<1> DEFINE x == IF free(rx) < Packet THEN "disable" ELSE "read"
<1>0. Types /\ Control /\ TxInv /\ RxInv
  BY DEF IInv
<1>1. /\ me.at = "test" /\ isr.at = "idle" /\ me.ep = "out" /\ Goto("thread", x)
      /\ UNCHANGED <<tx, rx, nl_in_rx, flags, intSt, intEn, slow, irqOn, can_transfer, fifo,
                     th, host, accepted, arrived, got, reentered, torn, dropped>>
  BY DEF ThEPOut, AtTh, At, Runs, bufVars, regVars, seenVars, me, isr
<1>2. x \in UsbPlace /\ x \in {"disable", "read"} /\ (x = "disable" <=> free(rx) < Packet)
  BY DEF UsbPlace
<1> HIDE DEF x
<1>3. /\ usb' \in [Ctx -> Context] /\ isr' = isr /\ me'.at = x /\ me'.ep = me.ep
      /\ me'.b = me.b
  BY <1>0, <1>1, <1>2, MeGoto
<1>4. Control'
  BY <1>0, <1>1, <1>2, <1>3, MeControl
<1>5. Types'
  BY <1>0, <1>1, <1>3 DEF Types
<1>6. TxInv'
  <2>1. TxFrame
    BY <1>0, <1>1, <1>2, <1>3 DEF TxFrame, TxInv, InHand
  <2> QED
    BY <1>0, <1>1, <2>1, TxKept DEF Types
<1>7. RxInv'
  <2>1. Taken' = Taken /\ LastOut' = LastOut
    BY <1>1 DEF Taken, LastOut
  <2>2. Arriving' /\ Lines' /\ ReadIndex'
    BY <1>0, <1>1, <1>3, <2>1 DEF RxInv, Arriving, Lines, ReadIndex
  <2>3. Order'
    BY <1>0, <1>1, <2>1 DEF RxInv, Order
  <2>4. OutOff'
    <3>1. free(rx) \in Nat /\ Packet \in Nat
      BY <1>0, Facts, RxCounts, Sizes
    <3> QED
      BY <1>0, <1>1, <1>2, <1>3, <3>1 DEF RxInv, OutOff, RxReenabled
  <2> QED
    BY <2>2, <2>3, <2>4 DEF RxInv
<1> QED
  BY <1>4, <1>5, <1>6, <1>7, Parts

\* takes a credit,
LEMMA ThEPOutReadKeeps ==
    ASSUME IInv, ThEPOutRead
    PROVE  IInv'
<1> DEFINE k == can_transfer.out - 1
<1>0. Types /\ Control /\ TxInv /\ RxInv
  BY DEF IInv
<1>1. /\ me.at = "read" /\ isr.at = "idle" /\ can_transfer.out > 0
      /\ can_transfer' = [can_transfer EXCEPT !.out = k] /\ irqOn' = FALSE
      /\ Goto("thread", "copy")
      /\ UNCHANGED <<tx, rx, nl_in_rx, flags, intSt, intEn, slow, fifo,
                     th, host, accepted, arrived, got, reentered, torn, dropped>>
  BY DEF ThEPOutRead, AtTh, At, Runs, bufVars, seenVars, me, isr
<1>2. k \in 0 .. 2 /\ can_transfer \in [out : 0 .. 2, in : 0 .. 2]
  <2>1. can_transfer \in [out : 0 .. 2, in : 0 .. 2] /\ can_transfer.out \in 0 .. 2
    BY <1>0, Facts
  <2> QED
    BY <1>1, <2>1
<1> HIDE DEF k
<1>3. can_transfer' \in [out : 0 .. 2, in : 0 .. 2] /\ can_transfer'.in = can_transfer.in
  BY <1>1, <1>2
<1>4. /\ usb' \in [Ctx -> Context] /\ isr' = isr /\ me'.at = "copy" /\ me'.ep = me.ep
      /\ me'.b = me.b /\ me.ep = "out"
  <2>1. "copy" \in UsbPlace
    BY DEF UsbPlace
  <2> QED
    BY <1>0, <1>1, <2>1, MeGoto DEF Control
<1>5. Control'
  BY <1>0, <1>1, <1>4, MeControl
<1>6. Types'
  BY <1>0, <1>1, <1>3, <1>4 DEF Types
<1>7. TxFrame
  BY <1>0, <1>1, <1>3, <1>4 DEF TxFrame, TxInv, InHand
<1>8. RxFrame
  BY <1>1, <1>4 DEF RxFrame
<1> QED
  BY <1>5, <1>6, <1>7, <1>8, Framed

\* takes the packet
LEMMA ThEPOutCopyKeeps ==
    ASSUME IInv, ThEPOutCopy
    PROVE  IInv'
<1> DEFINE s == Packed(Head(fifo.out))  k == Less(can_transfer.out, 1)
<1>0. Types /\ Control /\ TxInv /\ RxInv
  BY DEF IInv
<1>1. /\ me.at = "copy" /\ isr.at = "idle" /\ fifo.out # << >> /\ TakePacket(s, k)
      /\ intEn' = intEn \cup {"out"}
      /\ IF s.stop THEN Goto("thread", "disable") ELSE NextEp("thread")
      /\ UNCHANGED <<tx, irqOn, ep0, th, host, accepted, arrived, got, reentered>>
  BY DEF ThEPOutCopy, AtTh, At, Runs, me, isr
<1>2. k \in 0 .. 2
  <2>1. can_transfer.out \in 0 .. 2
    BY <1>0, Facts
  <2> QED
    BY <2>1 DEF Less
<1>3. th.at = "ensure" /\ me.ep = "out" /\ me.b = << >>
  BY <1>0, <1>1 DEF Control, TxInv, InHand
<1> HIDE DEF k, s
<1>4. /\ usb' \in [Ctx -> Context] /\ isr' = isr /\ me'.b = << >>
      /\ me'.at = "ack" => me'.fe = 255
      /\ me'.at \in {"disable", "ack", "end"} /\ (me'.at = "disable" => s.stop)
  <2>1. CASE s.stop
    <3>1. Goto("thread", "disable") /\ "disable" \in UsbPlace
      BY <1>1, <2>1 DEF UsbPlace
    <3> QED
      BY <1>0, <1>3, <2>1, <3>1, MeGoto
  <2>2. CASE ~ s.stop
    BY <1>0, <1>1, <2>2, MeNext
  <2> QED
    BY <2>1, <2>2
<1>5. Control'
  BY <1>0, <1>1, <1>4, MeControl
<1>6. rx' = s.rx /\ nl_in_rx' = s.nl /\ torn' = (torn \/ (s.back /\ ReaderInDequeue))
      /\ fifo'.out = Tail(fifo.out)
  <2>1. fifo \in [out : Seq(Seq(RxByte)), in : Seq(Seq(Nat))]
    BY <1>0, Facts
  <2>2. fifo' = [fifo EXCEPT !.out = Tail(fifo.out)]
    BY <1>1 DEF TakePacket
  <2> DEFINE t == Tail(fifo.out)
  <2> HIDE DEF t
  <2>3. fifo'.out = t
    BY <2>1, <2>2 DEF t
  <2> QED
    BY <1>1, <2>3 DEF TakePacket, t
<1>7. /\ s \in Work /\ Arriving' /\ Lines' /\ ReadIndex' /\ Order'
      /\ (s.stop <=> free(rx') < Packet) /\ (s.full => free(rx) < Packet)
  <2>1. ~ (isr'.at = "test" /\ isr'.ep = "out") /\ th' = th
    BY <1>1, <1>4
  <2> QED
    BY <1>1, <1>3, <1>6, <2>1, PacketArrives DEF s
<1>8. /\ fifo' \in [out : Seq(Seq(RxByte)), in : Seq(Seq(Nat))]
      /\ fifo'.in = fifo.in /\ Len(fifo'.out) <= 2
      /\ can_transfer' \in [out : 0 .. 2, in : 0 .. 2]
      /\ can_transfer'.in = can_transfer.in
      /\ rx' \in RxBuffer /\ nl_in_rx' \in Nat /\ flags' \in Flags
      /\ dropped' = (dropped \/ s.full) /\ dropped' \in BOOLEAN /\ torn' \in BOOLEAN
      /\ intSt' \in SUBSET Ends /\ ("in" \in intSt => "in" \in intSt')
      /\ slow' \in BOOLEAN
  BY <1>0, <1>1, <1>2, <1>7, TakePacketIs
<1>9. Types'
  BY <1>0, <1>1, <1>4, <1>8, Facts DEF Types, RxBuffer
<1>10. TxInv'
  <2>1. s.full => reentered
    <3>1. free(rx) \in Nat /\ Packet \in Nat
      BY <1>0, Facts, RxCounts, Sizes
    <3> QED
      BY <1>0, <1>1, <1>7, <3>1 DEF RxInv, OutOff
  <2>2. dropped' => dropped \/ reentered
    BY <1>8, <2>1
  <2>3. TxFrame
    BY <1>1, <1>4, <1>8, <2>2 DEF TxFrame
  <2> QED
    BY <1>0, <1>1, <2>3, TxKept DEF Types
<1>11. OutOff'
  BY <1>1, <1>4, <1>7 DEF OutOff, RxReenabled
<1> QED
  BY <1>5, <1>7, <1>9, <1>10, <1>11, Parts DEF RxInv

---------------------------------------------------------------------------
(* A handler is not wanted any more: a load and a store *)

\* A handler called by the thread turns itself off: it reads the register,
LEMMA ThDisableKeeps ==
    ASSUME IInv, ThDisable
    PROVE  IInv'
<1> DEFINE x == "disabled"  u == [me EXCEPT !.at = x, !.en = intEn]
<1>0. Types /\ Control /\ TxInv /\ RxInv
  BY DEF IInv
<1>1. /\ me.at = "disable" /\ isr.at = "idle" /\ ThUsb(u)
      /\ UNCHANGED <<tx, rx, nl_in_rx, flags, intSt, intEn, slow, irqOn, can_transfer, fifo,
                     th, host, accepted, arrived, got, reentered, torn, dropped>>
  BY DEF ThDisable, AtTh, At, Runs, bufVars, regVars, seenVars, me, isr
<1>2. u \in Context /\ u.at = x /\ u.ep = me.ep /\ u.en = intEn /\ u.b = me.b
  <2> DEFINE w == me  v == [w EXCEPT !.at = x]
  <2>1. w \in Context /\ intEn \in SUBSET Ends
    BY <1>0, Facts
  <2>2. x \in UsbPlace
    BY DEF UsbPlace
  <2> HIDE DEF w, x
  <2>3. v = [at |-> x, ep |-> w.ep, fe |-> w.fe, load |-> w.load, en |-> w.en,
             n |-> w.n, b |-> w.b]
    BY <2>1, ContextIs
  <2>4. u = [v EXCEPT !.en = intEn]
    BY DEF w
  <2> HIDE DEF v, u
  <2>5. u = [at |-> x, ep |-> w.ep, fe |-> w.fe, load |-> w.load, en |-> intEn,
             n |-> w.n, b |-> w.b]
    BY <2>3, <2>4
  <2>6. /\ w.ep \in Ends /\ w.fe \in {0, 1, 255} /\ w.load \in Nat
        /\ w.n \in Nat /\ w.b \in Seq(Nat)
    BY <2>1, ContextIs
  <2>7. u \in Context /\ u.at = x /\ u.ep = w.ep /\ u.en = intEn /\ u.b = w.b
    BY ONLY <2>1, <2>2, <2>5, <2>6 DEF Context
  <2> QED
    BY <2>7 DEF w
<1> HIDE DEF u
<1>3. usb' \in [Ctx -> Context] /\ me' = u /\ isr' = isr
  BY <1>0, <1>1, <1>2, MeGoes
<1>4. Control'
  BY <1>0, <1>1, <1>2, <1>3, MeControl
<1>5. Types'
  BY <1>0, <1>1, <1>3 DEF Types
<1>6. TxFrame
  BY <1>0, <1>1, <1>2, <1>3 DEF TxFrame, TxInv, InHand
<1>7. RxFrame
  BY <1>1, <1>2, <1>3 DEF RxFrame
<1> QED
  BY <1>4, <1>5, <1>6, <1>7, Framed

\* and stores it without its bit
LEMMA ThDisabledKeeps ==
    ASSUME IInv, ThDisabled
    PROVE  IInv'
<1>0. Types /\ Control /\ TxInv /\ RxInv
  BY DEF IInv
<1>1. /\ me.at = "disabled" /\ isr.at = "idle" /\ intEn' = me.en \ {me.ep}
      /\ NextEp("thread")
      /\ UNCHANGED <<tx, rx, nl_in_rx, flags, intSt, slow, irqOn, can_transfer, fifo,
                     th, host, accepted, arrived, got, reentered, torn, dropped>>
  BY DEF ThDisabled, AtTh, At, Runs, bufVars, seenVars, me, isr
<1>2. /\ usb' \in [Ctx -> Context] /\ isr' = isr /\ me'.at \in {"ack", "end"}
      /\ me'.fe = 255 /\ me'.b = << >>
  BY <1>0, <1>1, MeNext
<1>3. Control' /\ th.at = "ensure"
  BY <1>0, <1>1, <1>2, MeControl
<1>4. me.en \in SUBSET Ends /\ me.ep \in Ends /\ me.b = << >>
  BY <1>0, <1>1, Facts, ContextIs DEF TxInv, InHand
<1>5. Types'
  BY <1>0, <1>1, <1>2, <1>4 DEF Types
<1>6. TxInv'
  <2>1. WriterHasRoom' /\ InHand'
    BY <1>0, <1>1, <1>2 DEF TxInv, WriterHasRoom, InHand
  <2>2. RoomInController' /\ Credit'
    BY <1>0, <1>1, <1>2 DEF TxInv, RoomInController, Credit
  <2>3. NotStranded'
    BY <1>1, <1>3 DEF NotStranded
  <2>4. TxExact'
    <3>1. (TxExact <=> reentered \/ Stream(host, fifo.in, me.b, tx) = [i \in 1 .. accepted |-> i])'
      BY ExactIs, PTL
    <3> QED
      BY <1>0, <1>1, <1>2, <1>4, <3>1, ExactIs DEF TxInv
  <2> QED
    BY <2>1, <2>2, <2>3, <2>4 DEF TxInv
<1>7. RxInv'
  <2>1. Taken' = Taken /\ LastOut' = LastOut
    BY <1>1 DEF Taken, LastOut
  <2>2. Arriving' /\ Lines' /\ ReadIndex'
    BY <1>0, <1>1, <1>2, <2>1 DEF RxInv, Arriving, Lines, ReadIndex
  <2>3. Order'
    BY <1>0, <1>1, <2>1 DEF RxInv, Order
  <2>4. OutOff'
    <3>1. "out" \notin intEn' => free(rx) < Packet \/ torn
      <4>1. CASE me.ep = "out"
        BY <1>0, <1>1, <4>1 DEF RxInv, OutOff
      <4>2. CASE me.ep # "out"
        <5>1. "out" \notin intEn' => "out" \notin intEn
          BY <1>0, <1>1, <4>2 DEF RxInv, OutOff
        <5> QED
          BY <1>0, <1>3, <5>1 DEF RxInv, OutOff, RxReenabled
      <4> QED
        BY <4>1, <4>2
    <3> QED
      BY <1>1, <1>2, <1>3, <3>1 DEF OutOff, RxReenabled
  <2> QED
    BY <2>2, <2>3, <2>4 DEF RxInv
<1> QED
  BY <1>3, <1>5, <1>6, <1>7, Parts

---------------------------------------------------------------------------
(* The handlers of the IN endpoint *)

\* A number that is not above its modulus turns once at most
LEMMA TurnIn ==
    ASSUME NEW n \in Nat, n > 1, NEW r \in 0 .. n, NEW k \in 0 .. n - 1
    PROVE  (r + k) % n \in 0 .. n - 1
<1>1. r + k \in 0 .. 2 * n - 1
  OBVIOUS
<1> DEFINE a == r + k
<1>2. a \in 0 .. 2 * n - 1
  BY <1>1
<1> HIDE DEF a
<1>3. a % n = IF a < n THEN a ELSE a - n
  BY <1>2, Turn
<1>4. a % n \in 0 .. n - 1
  BY <1>2, <1>3
<1> QED
  BY <1>4 DEF a

\* What dequeue does wherever the index is
LEMMA DequeueType ==
    ASSUME NEW n \in Nat, n > 1, NEW Byte, NEW c \in Buffer(n, Byte),
           NEW k \in 0 .. n - 1, NEW d, d = dequeue(c, k)
    PROVE  /\ d \in Buffer(n, Byte) /\ d.read < n
           /\ Dequeued(c, k) \in [1 .. k -> Byte]
<1> DEFINE q == (c.read + k) % n
<1>1. /\ c = [write |-> c.write, read |-> c.read, size |-> c.size, buf |-> c.buf]
      /\ c.size = n /\ c.write \in 0 .. n - 1 /\ c.read \in 0 .. n
      /\ c.buf \in [0 .. n -> Byte]
  BY BufferIs
<1>2. q \in 0 .. n - 1
  BY <1>1, TurnIn
<1>3. d = [write |-> c.write, read |-> q, size |-> n, buf |-> c.buf]
  BY <1>1 DEF dequeue
<1> HIDE DEF q
<1>4. d \in Buffer(n, Byte) /\ d.read = q
  <2>1. q \in 0 .. n
    BY <1>2
  <2> QED
    BY <1>1, <1>3, <2>1, BufferOf
<1>5. ASSUME NEW i \in 1 .. k
      PROVE  c.buf[IF i = 1 THEN c.read ELSE (c.read + i - 1) % c.size] \in Byte
  <2>1. CASE i = 1
    BY <1>1, <2>1
  <2>2. CASE i # 1
    <3>1. i - 1 \in 0 .. n - 1 /\ c.read + (i - 1) = c.read + i - 1
      BY <1>1
    <3> DEFINE j == i - 1
    <3>2. j \in 0 .. n - 1
      BY <3>1
    <3> HIDE DEF j
    <3>3. (c.read + j) % n \in 0 .. n - 1
      BY <1>1, <3>2, TurnIn
    <3>4. (c.read + i - 1) % c.size \in 0 .. n
      BY <1>1, <3>1, <3>3 DEF j
    <3> QED
      BY <1>1, <2>2, <3>4
  <2> QED
    BY <2>1, <2>2
<1>6. Dequeued(c, k) \in [1 .. k -> Byte]
  BY <1>5 DEF Dequeued
<1> QED
  BY <1>2, <1>4, <1>6

\* An index, put anywhere
LEMMA ReadSet ==
    ASSUME NEW n \in Nat, n > 1, NEW Byte, NEW c \in Buffer(n, Byte), NEW r \in 0 .. n,
           NEW d, d = [c EXCEPT !.read = r]
    PROVE  /\ d \in Buffer(n, Byte) /\ d.read = r /\ d.write = c.write /\ d.buf = c.buf
<1>1. /\ c = [write |-> c.write, read |-> c.read, size |-> c.size, buf |-> c.buf]
      /\ c.size = n /\ c.write \in 0 .. n - 1 /\ c.buf \in [0 .. n -> Byte]
  BY BufferIs
<1>2. d = [write |-> c.write, read |-> r, size |-> n, buf |-> c.buf]
  BY <1>1
<1> QED
  BY <1>1, <1>2, BufferOf

\* The counts of txbuf
LEMMA TxCounts ==
    ASSUME NEW c \in TxBuffer
    PROVE  /\ c.read \in 0 .. TxSize /\ c.write \in 0 .. TxSize - 1 /\ c.size = TxSize
           /\ available(c) \in 0 .. TxSize - 1 /\ available(c) \in Nat
           /\ free(c) = TxSize - 1 - available(c) /\ free(c) \in Nat
           /\ c.read < TxSize => /\ isEmpty(c) <=> available(c) = 0
                                 /\ isFull(c) <=> free(c) = 0
           /\ \A i \in 0 .. TxSize : c.buf[i] \in 0 .. MaxTx /\ c.buf[i] \in Nat
<1> DEFINE Byte == 0 .. MaxTx
<1>1. c \in Buffer(TxSize, Byte) /\ TxSize \in Nat /\ TxSize > 1 /\ Byte \subseteq Nat
  BY Sizes DEF TxBuffer
<1> HIDE DEF Byte
<1>2. /\ c.size = TxSize /\ c.write \in 0 .. TxSize - 1 /\ c.read \in 0 .. TxSize
      /\ c.buf \in [0 .. TxSize -> Byte]
  BY ONLY <1>1, BufferIs
<1>3. /\ available(c) \in 0 .. TxSize - 1
      /\ free(c) = TxSize - 1 - available(c) /\ free(c) \in 0 .. TxSize - 1
      /\ c.read < TxSize => /\ isEmpty(c) <=> available(c) = 0
                            /\ isFull(c) <=> free(c) = 0
  BY ONLY <1>1, Counts
<1>4. \A i \in 0 .. TxSize : c.buf[i] \in Byte /\ c.buf[i] \in Nat
  BY <1>1, <1>2
<1> QED
  BY <1>1, <1>2, <1>3, <1>4 DEF Byte

\* No more than a packet less one, no more than there is
Take(l) == IF l > Packet - 1 THEN Packet - 1 ELSE l

\* How many bytes the IN handler takes
LEMMA TakeIs ==
    ASSUME NEW l \in Nat
    PROVE  /\ Take(l) \in Nat /\ Take(l) <= l /\ Take(l) < Packet
           /\ Take(l) = 0 <=> l = 0
BY Sizes DEF Take

\* In the interrupt there is room for a packet
LEMMA CalledIn ==
    ASSUME IInv, isr.at = "test", isr.ep = "in", Called("isr")
    PROVE  "in" \in intEn /\ can_transfer.in > 0 /\ Len(fifo.in) < 2
<1>1. Types /\ TxInv
  BY DEF IInv
<1>2. /\ "in" \in intEn /\ can_transfer.in > 0
      /\ (IF isr.fe = 255 THEN FE("in") ELSE isr.fe) = 0
  BY DEF Called, isr
<1>3. CASE isr.fe = 255
  <2>1. Len(fifo.in) # 2
    BY <1>1, <1>2, <1>3, FEIs, Facts
  <2> DEFINE l == Len(fifo.in)
  <2>2. l \in Nat /\ l <= 2 /\ l # 2
    BY <1>1, <2>1, Facts, LenProperties
  <2> HIDE DEF l
  <2>3. l < 2
    BY ONLY <2>2
  <2> QED
    BY <1>2, <2>3 DEF l
<1>4. CASE isr.fe # 255
  BY <1>1, <1>2, <1>4 DEF TxInv, RoomInController
<1> QED
  BY <1>2, <1>3, <1>4

\* ... and for the thread as long as nothing interrupts it
LEMMA CalledInThread ==
    ASSUME IInv, me.at = "test", me.ep = "in", Called("thread"), ~ reentered
    PROVE  Len(fifo.in) < 2
<1>1. Types /\ TxInv
  BY DEF IInv
<1>2. (IF me.fe = 255 THEN FE("in") ELSE me.fe) = 0
  BY DEF Called, me
<1>3. CASE me.fe = 255
  <2>1. Len(fifo.in) # 2
    BY <1>1, <1>2, <1>3, FEIs, Facts
  <2> DEFINE l == Len(fifo.in)
  <2>2. l \in Nat /\ l <= 2 /\ l # 2
    BY <1>1, <2>1, Facts, LenProperties
  <2> HIDE DEF l
  <2>3. l < 2
    BY ONLY <2>2
  <2> QED
    BY <2>3 DEF l
<1>4. CASE me.fe # 255
  BY <1>1, <1>2, <1>4 DEF TxInv, RoomInController
<1> QED
  BY <1>3, <1>4

\* The packet goes into the controller if there is room
LEMMA ToHostIs ==
    ASSUME Types, NEW b \in Seq(Nat), ToHost(b)
    PROVE  /\ fifo' \in [out : Seq(Seq(RxByte)), in : Seq(Seq(Nat))]
           /\ fifo'.out = fifo.out /\ Len(fifo'.in) <= 2
           /\ Len(fifo.in) < 2 => fifo'.in = Append(fifo.in, b) /\ fifo'.in # << >>
<1> DEFINE f == fifo.in  T == Seq(Nat)  g == Append(f, b)
<1>1. /\ fifo \in [out : Seq(Seq(RxByte)), in : Seq(Seq(Nat))]
      /\ f \in Seq(T) /\ Len(f) <= 2 /\ b \in T /\ "in" \in Ends
  BY Facts
<1>2. FE("in") \in {0, 1} /\ (FE("in") = 1 <=> Len(f) = 2)
  BY <1>1, FEIs
<1> HIDE DEF T
<1>3. g \in Seq(T) /\ Len(g) = Len(f) + 1 /\ Len(f) \in Nat
  BY ONLY <1>1, Row DEF g
<1> HIDE DEF g
<1>4. g = << >> <=> Len(g) = 0
  BY ONLY <1>3, Row
<1> DEFINE l == Len(f)  m == Len(g)
<1>5. m # 0 /\ (l # 2 => m <= 2 /\ l < 2) /\ (l < 2 => l # 2)
  <2>1. l \in Nat /\ l <= 2 /\ m = l + 1
    BY <1>1, <1>3
  <2> HIDE DEF l, m
  <2> QED
    BY ONLY <2>1
<1>6. CASE l = 2
  <2>1. fifo' = [fifo EXCEPT !.in = f]
    BY <1>2, <1>6 DEF ToHost
  <2>2. fifo' = fifo
    BY <1>1, <2>1
  <2> QED
    BY <1>1, <1>5, <1>6, <2>2
<1>7. CASE l # 2
  <2>1. fifo' = [fifo EXCEPT !.in = g]
    BY <1>2, <1>7 DEF ToHost, g
  <2>2. g \in Seq(Seq(Nat))
    BY <1>3 DEF T
  <2>3. /\ fifo' \in [out : Seq(Seq(RxByte)), in : Seq(Seq(Nat))]
        /\ fifo'.out = fifo.out /\ fifo'.in = g
    BY <1>1, <2>1, <2>2, FifoIn
  <2> QED
    BY <1>4, <1>5, <1>7, <2>3 DEF g
<1> QED
  BY <1>6, <1>7

\* The IN handler in the interrupt: all of it in one step
LEMMA IsrEPInKeeps ==
    ASSUME IInv, IsrEPIn
    PROVE  IInv'
<1> DEFINE a == available(tx)  n == Take(a)  left == dequeue(tx, n)  p == Dequeued(tx, n)
           k == can_transfer.in - 1
<1>0. Types /\ Control /\ TxInv /\ RxInv
  BY DEF IInv
<1>1. /\ isr.at = "test" /\ isr.ep = "in" /\ Called("isr") /\ NextEp("isr")
      /\ IF n = 0 THEN UNCHANGED <<tx, can_transfer, fifo>>
         ELSE /\ tx' = left
              /\ can_transfer' = [can_transfer EXCEPT !.in = k]
              /\ ToHost(p)
      /\ intEn' = IF isEmpty(left) THEN intEn \ {"in"} ELSE intEn
      /\ UNCHANGED <<rx, nl_in_rx, flags, intSt, slow, irqOn, th,
                     host, accepted, arrived, got, reentered, torn, dropped>>
  BY DEF IsrEPIn, Take, isr, seenVars
<1>2. "in" \in intEn /\ can_transfer.in > 0 /\ Len(fifo.in) < 2
  BY <1>1, CalledIn
<1>3. Onward("isr") /\ usb["isr"] = isr /\ "isr" \in Ctx
  BY <1>0, <1>1, NextEpIs, Facts DEF Onward
<1>4. /\ Control' /\ isr'.at \in IsrPlace /\ me' = me /\ isr'.at # "test"
      /\ usb' \in [Ctx -> Context]
  <2>1. Runs("isr") /\ usb["isr"].at # "idle" /\ th'.at = th.at /\ reentered' = reentered
    BY <1>1, <1>3 DEF Runs
  <2> QED
    BY <1>0, <1>3, <2>1, OnwardIs DEF Onward
<1>5. ~ reentered => me.at = "idle" /\ me.b = << >> /\ tx.read # TxSize
  BY <1>0, <1>1 DEF Control, TxInv, InHand
<1>6. /\ tx \in TxBuffer /\ a \in 0 .. TxSize - 1 /\ a \in Nat /\ tx.read \in 0 .. TxSize
      /\ TxSize \in Nat /\ fifo.in \in Seq(Seq(Nat))
      /\ tx.read < TxSize => (isEmpty(tx) <=> a = 0)
  BY <1>0, Facts, TxCounts, Sizes
<1>7. n \in Nat /\ n <= a /\ (n = 0 <=> a = 0)
  BY <1>6, TakeIs
<1> HIDE DEF a, n
<1>8. n \in 0 .. TxSize - 1 /\ n \in 0 .. a
  BY <1>6, <1>7
<1> HIDE DEF left, p
<1>9. left \in TxBuffer /\ left.read < TxSize /\ p \in Seq(Nat)
  <2> DEFINE Byte == 0 .. MaxTx
  <2>1. tx \in Buffer(TxSize, Byte) /\ TxSize \in Nat /\ TxSize > 1 /\ Byte \subseteq Nat
    BY <1>6, Sizes DEF TxBuffer
  <2> HIDE DEF Byte
  <2>2. left \in Buffer(TxSize, Byte) /\ left.read < TxSize /\ p \in [1 .. n -> Byte]
    BY <1>8, <2>1, DequeueType DEF left, p
  <2>3. p \in Seq(Nat)
    <3>1. p \in [1 .. n -> Nat]
      BY ONLY <2>1, <2>2
    <3> QED
      BY ONLY <1>7, <3>1
  <2> QED
    BY <2>2, <2>3 DEF Byte, TxBuffer
<1>10. tx.read < TxSize =>
          /\ available(left) = a - n /\ free(left) = free(tx) + n
          /\ \A i \in 0 .. available(left) - 1 : Cell(left, i) = Cell(tx, i + n)
          /\ p = [i \in 1 .. n |-> Cell(tx, i - 1)]
  <2> DEFINE Byte == 0 .. MaxTx
  <2>1. tx \in Buffer(TxSize, Byte) /\ TxSize \in Nat /\ TxSize > 1 /\ n \in 0 .. available(tx)
    BY <1>6, <1>8, Sizes DEF TxBuffer, a
  <2> HIDE DEF Byte
  <2> QED
    BY <2>1, DequeueIs DEF left, p, a
<1>11. n = 0 \/ n > 0
  BY <1>7
<1>12. /\ fifo' \in [out : Seq(Seq(RxByte)), in : Seq(Seq(Nat))]
       /\ fifo'.out = fifo.out /\ Len(fifo'.in) <= 2
       /\ n # 0 => fifo'.in = Append(fifo.in, p) /\ fifo'.in # << >>
  <2>1. CASE n = 0
    BY <1>0, <1>1, <2>1, Facts
  <2>2. CASE n # 0
    BY <1>0, <1>1, <1>2, <1>9, <2>2, ToHostIs
  <2> QED
    BY <2>1, <2>2
<1>13. can_transfer' \in [out : 0 .. 2, in : 0 .. 2]
  <2>1. can_transfer \in [out : 0 .. 2, in : 0 .. 2] /\ can_transfer.in \in 0 .. 2
    BY <1>0, Facts
  <2>2. k \in 0 .. 2
    BY <1>2, <2>1
  <2> HIDE DEF k
  <2> QED
    BY <1>1, <2>1, <2>2
<1>14. tx' \in TxBuffer /\ (tx'.read = TxSize => tx' = tx)
  <2>1. TxSize \in Nat /\ left.read \in 0 .. TxSize
    BY <1>9, TxCounts, Sizes
  <2> QED
    BY <1>1, <1>6, <1>9, <2>1
<1>15. Types'
  BY <1>0, <1>1, <1>4, <1>12, <1>13, <1>14 DEF Types, TxBuffer
<1>16. TxInv'
  <2>1. WriterHasRoom'
    <3>1. th.at = "queue" => th.n <= free(tx')
      <4>1. CASE th.at = "queue" /\ n # 0
        <5>1. me.at = "idle" /\ tx.read # TxSize /\ th.n <= free(tx)
          BY <1>0, <4>1 DEF Control, TxInv, InHand, WriterHasRoom
        <5>2. tx.read < TxSize
          BY <1>6, <5>1
        <5>3. free(tx') = free(tx) + n
          BY <1>1, <1>10, <4>1, <5>2
        <5>4. free(tx) \in Nat /\ th.n \in Nat
          BY <1>0, <1>6, TxCounts, Facts
        <5> QED
          BY <1>7, <5>1, <5>3, <5>4
      <4>2. CASE th.at = "queue" /\ n = 0
        BY <1>0, <1>1, <4>2 DEF TxInv, WriterHasRoom
      <4> QED
        BY <4>1, <4>2
    <3> QED
      BY <1>0, <1>1, <3>1 DEF TxInv, WriterHasRoom
  <2>2. InHand'
    BY <1>0, <1>1, <1>4, <1>5, <1>14 DEF TxInv, InHand
  <2>3. RoomInController'
    BY <1>1, <1>4, <1>5 DEF RoomInController
  <2>4. Credit'
    BY <1>0, <1>1, <1>2, <1>4, <1>12 DEF TxInv, Credit
  <2>5. NotStranded'
    <3>1. CASE n = 0
      <4>1. ~ reentered => isEmpty(tx)
        BY <1>5, <1>6, <1>7, <3>1
      <4> QED
        BY <1>1, <3>1, <4>1 DEF NotStranded
    <3>2. CASE n # 0
      BY <1>1, <1>2, <1>12, <3>2 DEF NotStranded
    <3> QED
      BY <3>1, <3>2
  <2>6. TxExact'
    <3>1. (TxExact <=> reentered \/ Stream(host, fifo.in, me.b, tx) = [i \in 1 .. accepted |-> i])'
      BY ExactIs, PTL
    <3>2. CASE n = 0
      BY <1>0, <1>1, <1>4, <3>1, <3>2, ExactIs DEF TxInv
    <3>3. CASE n # 0 /\ ~ reentered
      <4>1. tx.read < TxSize /\ me.b = << >>
        BY <1>5, <1>6, <3>3
      <4>2. available(tx) = available(left) + n
        <5>1. available(left) = a - n
          BY <1>10, <4>1
        <5>2. available(tx) = a
          BY DEF a
        <5> QED
          BY <1>6, <1>7, <5>1, <5>2
      <4>3. \A i \in 0 .. available(left) - 1 : Cell(left, i) = Cell(tx, i + n)
        BY <1>10, <4>1
      <4>4. p = [i \in 1 .. n |-> Cell(tx, i - 1)]
        BY <1>10, <4>1
      <4>5. Stream(host, Append(fifo.in, p), << >>, left) = Stream(host, fifo.in, << >>, tx)
        BY ONLY <1>2, <1>6, <1>7, <1>9, <4>2, <4>3, <4>4, StreamPacket
      <4>6. Stream(host, fifo.in, << >>, tx) = [i \in 1 .. accepted |-> i]
        BY <1>0, <3>3, <4>1, ExactIs DEF TxInv
      <4>7. /\ host' = host /\ fifo'.in = Append(fifo.in, p) /\ me'.b = << >> /\ tx' = left
            /\ accepted' = accepted
        BY <1>1, <1>4, <1>12, <3>3, <4>1
      <4> QED
        BY <3>1, <4>5, <4>6, <4>7
    <3>4. CASE reentered
      BY <1>1, <3>1, <3>4
    <3> QED
      BY <3>2, <3>3, <3>4
  <2> QED
    BY <2>1, <2>2, <2>3, <2>4, <2>5, <2>6 DEF TxInv
<1>17. RxInv'
  <2>1. RxFrame
    BY <1>1, <1>4, <1>12 DEF RxFrame
  <2> QED
    BY <1>0, <1>1, <2>1, RxKept DEF Types
<1> QED
  BY <1>4, <1>15, <1>16, <1>17, Parts

\* What a step of the thread's handler makes of its context
LEMMA ContextWith ==
    ASSUME NEW w \in Context, NEW x \in UsbPlace, NEW load \in Nat, NEW n \in Nat,
           NEW b \in Seq(Nat), NEW u,
           u = [at |-> x, ep |-> w.ep, fe |-> w.fe, load |-> load, en |-> w.en,
                n |-> n, b |-> b]
    PROVE  /\ u \in Context /\ u.at = x /\ u.ep = w.ep /\ u.fe = w.fe
           /\ u.load = load /\ u.n = n /\ u.b = b
<1>1. w.ep \in Ends /\ w.fe \in {0, 1, 255} /\ w.en \in SUBSET Ends
  BY ContextIs
<1> QED
  BY <1>1 DEF Context

\* The IN handler in the thread counts what it will take,
LEMMA ThEPInKeeps ==
    ASSUME IInv, ThEPIn
    PROVE  IInv'
<1> DEFINE l == available(tx)  n == Take(l)  w == me  x == "disable"  y == "dequeue"
<1>0. Types /\ Control /\ TxInv /\ RxInv
  BY DEF IInv
<1>1. /\ w.at = "test" /\ isr.at = "idle" /\ w.ep = "in" /\ Called("thread")
      /\ ThUsb(IF l = 0 THEN [w EXCEPT !.at = x] ELSE [w EXCEPT !.at = y, !.n = n])
      /\ UNCHANGED <<tx, rx, nl_in_rx, flags, intSt, intEn, slow, irqOn, can_transfer, fifo,
                     th, host, accepted, arrived, got, reentered, torn, dropped>>
  BY DEF ThEPIn, AtTh, At, Runs, Take, bufVars, regVars, seenVars, me, isr
<1>2. w \in Context /\ l \in Nat /\ w.b = << >> /\ tx.read # TxSize
  BY <1>0, <1>1, Facts, TxCounts DEF TxInv, InHand
<1>3. n \in Nat /\ n <= l /\ n < Packet
  BY <1>2, TakeIs
<1>4. x \in UsbPlace /\ y \in UsbPlace /\ x = "disable" /\ y = "dequeue"
  BY DEF UsbPlace
<1> HIDE DEF n, w, x, y
<1>5. PICK u \in Context : /\ ThUsb(u) /\ u.ep = "in" /\ u.b = << >>
                           /\ \/ u.at = x
                              \/ u.at = y /\ u.n = n
  <2>1. CASE l = 0
    <3> DEFINE u == [w EXCEPT !.at = x]
    <3>1. u = [at |-> x, ep |-> w.ep, fe |-> w.fe, load |-> w.load, en |-> w.en,
               n |-> w.n, b |-> w.b]
      BY <1>2, ContextIs
    <3>2. ThUsb(u)
      BY <1>1, <2>1
    <3>3. w.load \in Nat /\ w.n \in Nat /\ w.b \in Seq(Nat)
      BY <1>2, ContextIs
    <3> HIDE DEF u
    <3>4. u \in Context /\ u.at = x /\ u.ep = w.ep /\ u.b = w.b
      <4>1. w \in Context /\ x \in UsbPlace
        BY <1>2, <1>4
      <4> QED
        BY ONLY <4>1, <3>1, <3>3, ContextWith
    <3> QED
      BY <1>1, <1>2, <3>2, <3>4
  <2>2. CASE l # 0
    <3> DEFINE v == [w EXCEPT !.at = y]  u == [w EXCEPT !.at = y, !.n = n]
    <3>1. v = [at |-> y, ep |-> w.ep, fe |-> w.fe, load |-> w.load, en |-> w.en,
               n |-> w.n, b |-> w.b]
      BY <1>2, ContextIs
    <3>2. u = [v EXCEPT !.n = n]
      OBVIOUS
    <3>3. ThUsb(u)
      BY <1>1, <2>2
    <3> HIDE DEF u, v
    <3>4. u = [at |-> y, ep |-> w.ep, fe |-> w.fe, load |-> w.load, en |-> w.en,
               n |-> n, b |-> w.b]
      BY <3>1, <3>2
    <3>5. w.load \in Nat /\ w.b \in Seq(Nat)
      BY <1>2, ContextIs
    <3>6. u \in Context /\ u.at = y /\ u.ep = w.ep /\ u.b = w.b /\ u.n = n
      <4>1. w \in Context /\ y \in UsbPlace /\ n \in Nat
        BY <1>2, <1>3, <1>4
      <4> QED
        BY ONLY <4>1, <3>4, <3>5, ContextWith
    <3> QED
      BY <1>1, <1>2, <3>3, <3>6
  <2> QED
    BY <2>1, <2>2
<1>6. usb' \in [Ctx -> Context] /\ me' = u /\ isr' = isr
  BY <1>0, <1>5, MeGoes
<1>7. me.at = "test" /\ me.ep = "in" /\ me.b = << >>
  BY <1>1, <1>2 DEF w
<1>8. Control' /\ th.at = "ensure"
  BY <1>0, <1>1, <1>4, <1>5, <1>6, <1>7, MeControl
<1>9. Types'
  BY <1>0, <1>1, <1>6 DEF Types
<1>10. TxInv'
  <2>1. WriterHasRoom'
    BY <1>0, <1>1 DEF TxInv, WriterHasRoom
  <2>2. InHand'
    <3>1. me'.at = "dequeue" => Len(me'.b) + me'.n < Packet /\ me'.n <= available(tx)
      <4>1. Len(<< >>) = 0 /\ Packet \in Nat
        BY Sizes
      <4> QED
        BY <1>3, <1>4, <1>5, <1>6, <4>1
    <3> QED
      BY <1>1, <1>2, <1>4, <1>5, <1>6, <3>1 DEF InHand
  <2>3. RoomInController'
    <3>1. ~ reentered => Len(fifo.in) < 2
      BY <1>1, <1>7, CalledInThread
    <3> QED
      BY <1>0, <1>1, <1>4, <1>5, <1>6, <3>1 DEF TxInv, RoomInController
  <2>4. Credit'
    BY <1>0, <1>1, <1>4, <1>5, <1>6, <1>7 DEF TxInv, Credit
  <2>5. NotStranded'
    BY <1>1, <1>8 DEF NotStranded
  <2>6. TxExact'
    <3>1. (TxExact <=> reentered \/ Stream(host, fifo.in, me.b, tx) = [i \in 1 .. accepted |-> i])'
      BY ExactIs, PTL
    <3> QED
      BY <1>0, <1>1, <1>5, <1>6, <1>7, <3>1, ExactIs DEF TxInv
  <2> QED
    BY <2>1, <2>2, <2>3, <2>4, <2>5, <2>6 DEF TxInv
<1>11. RxInv'
  <2>1. RxFrame
    BY <1>1, <1>4, <1>5, <1>6 DEF RxFrame
  <2> QED
    BY <1>0, <1>1, <2>1, RxKept DEF Types
<1> QED
  BY <1>8, <1>9, <1>10, <1>11, Parts

\* dequeue looks whether there is a byte
LEMMA ThDequeueKeeps ==
    ASSUME IInv, ThDequeue
    PROVE  IInv'
<1> DEFINE w == me  y == "step"  z == 0  b == Append(w.b, z)  k == w.n - 1  r == tx.read
<1>0. Types /\ Control /\ TxInv /\ RxInv
  BY DEF IInv
<1>1. /\ w.at = "dequeue" /\ isr.at = "idle" /\ w.n > 0
      /\ ThUsb(IF isEmpty(tx) THEN [w EXCEPT !.b = b, !.n = k]
                              ELSE [w EXCEPT !.at = y, !.load = r])
      /\ UNCHANGED <<tx, rx, nl_in_rx, flags, intSt, intEn, slow, irqOn, can_transfer, fifo,
                     th, host, accepted, arrived, got, reentered, torn, dropped>>
  BY DEF ThDequeue, AtTh, At, Runs, bufVars, regVars, seenVars, me, isr
<1>2. /\ w \in Context /\ w.b \in Seq(Nat) /\ w.n \in Nat /\ w.load \in Nat
      /\ w.at \in UsbPlace /\ w.ep = "in"
  BY <1>0, <1>1, Facts, ContextIs DEF Control
<1>3. /\ tx.read # TxSize /\ tx.read \in 0 .. TxSize /\ TxSize \in Nat
      /\ available(tx) \in Nat /\ (tx.read < TxSize => (isEmpty(tx) <=> available(tx) = 0))
  <2>1. tx \in TxBuffer /\ tx.read # TxSize
    BY <1>0, <1>1, Facts DEF TxInv, InHand
  <2> QED
    BY <2>1, TxCounts, Sizes
<1>4. r \in 0 .. TxSize - 1 /\ r \in Nat /\ tx.read < TxSize
  BY <1>3
<1>5. k \in Nat /\ w.n = k + 1
  BY <1>1, <1>2
<1>6. b \in Seq(Nat) /\ Len(b) = Len(w.b) + 1 /\ Len(w.b) \in Nat
  BY <1>2, Row
<1>7. Len(w.b) + w.n < Packet /\ Packet \in Nat
  BY <1>0, <1>1, Sizes DEF TxInv, InHand
<1>8. y \in UsbPlace /\ y = "step"
  BY DEF UsbPlace
<1> HIDE DEF w, y, b, k, r, z
<1>9. PICK u \in Context :
          /\ ThUsb(u) /\ u.ep = "in"
          /\ \/ isEmpty(tx) /\ u.at = "dequeue" /\ u.b = b /\ u.n = k
             \/ ~ isEmpty(tx) /\ u.at = "step" /\ u.b = w.b /\ u.n = w.n /\ u.load = r
  <2>1. CASE isEmpty(tx)
    <3> DEFINE v == [w EXCEPT !.b = b]  u == [w EXCEPT !.b = b, !.n = k]
    <3>1. v = [at |-> w.at, ep |-> w.ep, fe |-> w.fe, load |-> w.load, en |-> w.en,
               n |-> w.n, b |-> b]
      BY <1>2, ContextIs
    <3>2. u = [v EXCEPT !.n = k]
      OBVIOUS
    <3>3. ThUsb(u)
      BY <1>1, <2>1
    <3> HIDE DEF u, v
    <3>4. u = [at |-> w.at, ep |-> w.ep, fe |-> w.fe, load |-> w.load, en |-> w.en,
               n |-> k, b |-> b]
      BY <3>1, <3>2
    <3>5. u \in Context /\ u.at = w.at /\ u.ep = w.ep /\ u.b = b /\ u.n = k
      BY ONLY <1>2, <1>5, <1>6, <3>4, ContextWith
    <3> QED
      BY <1>1, <1>2, <2>1, <3>3, <3>5
  <2>2. CASE ~ isEmpty(tx)
    <3> DEFINE v == [w EXCEPT !.at = y]  u == [w EXCEPT !.at = y, !.load = r]
    <3>1. v = [at |-> y, ep |-> w.ep, fe |-> w.fe, load |-> w.load, en |-> w.en,
               n |-> w.n, b |-> w.b]
      BY <1>2, ContextIs
    <3>2. u = [v EXCEPT !.load = r]
      OBVIOUS
    <3>3. ThUsb(u)
      BY <1>1, <2>2
    <3> HIDE DEF u, v
    <3>4. u = [at |-> y, ep |-> w.ep, fe |-> w.fe, load |-> r, en |-> w.en,
               n |-> w.n, b |-> w.b]
      BY <3>1, <3>2
    <3>5. u \in Context /\ u.at = y /\ u.ep = w.ep /\ u.b = w.b /\ u.n = w.n /\ u.load = r
      BY ONLY <1>2, <1>4, <1>8, <3>4, ContextWith
    <3> QED
      BY <1>2, <1>8, <2>2, <3>3, <3>5
  <2> QED
    BY <2>1, <2>2
<1>10. usb' \in [Ctx -> Context] /\ me' = u /\ isr' = isr
  BY <1>0, <1>9, MeGoes
<1>11. me.at = "dequeue" /\ me.ep = "in" /\ me.b = w.b /\ me.n = w.n
  BY <1>1, <1>2 DEF w
<1>12. ~ reentered => /\ w.n <= available(tx) /\ ~ isEmpty(tx)
  <2>1. ~ reentered => w.n <= available(tx)
    BY <1>0, <1>11 DEF TxInv, InHand
  <2> QED
    BY <1>1, <1>2, <1>3, <1>4, <2>1
<1>13. Control' /\ th.at = "ensure"
  BY <1>0, <1>1, <1>9, <1>10, <1>11, MeControl
<1>14. Types'
  BY <1>0, <1>1, <1>10 DEF Types
<1>15. TxInv'
  <2>1. WriterHasRoom'
    BY <1>0, <1>1 DEF TxInv, WriterHasRoom
  <2>2. InHand'
    <3>1. CASE isEmpty(tx)
      <4>1. Len(b) + k < Packet
        <5> DEFINE B == Len(b)  W == Len(w.b)  m == w.n
        <5>1. k \in Nat /\ m = k + 1 /\ B = W + 1 /\ W \in Nat /\ W + m < Packet
              /\ Packet \in Nat
          BY <1>5, <1>6, <1>7
        <5> HIDE DEF B, W, m
        <5>2. B + k < Packet
          BY ONLY <5>1
        <5> QED
          BY <5>2 DEF B
      <4>2. me'.at = "dequeue" /\ me'.b = b /\ me'.n = k
        BY <1>9, <1>10, <3>1
      <4> QED
        BY <1>1, <1>3, <1>12, <3>1, <4>1, <4>2 DEF InHand
    <3>2. CASE ~ isEmpty(tx)
      <4>1. me'.at = "step" /\ me'.b = w.b /\ me'.n = w.n /\ me'.load = tx.read
        BY <1>9, <1>10, <3>2 DEF r
      <4> QED
        BY <1>1, <1>3, <1>4, <1>7, <1>12, <4>1 DEF InHand, r
    <3> QED
      BY <3>1, <3>2
  <2>3. RoomInController'
    BY <1>0, <1>1, <1>9, <1>10, <1>11 DEF TxInv, RoomInController
  <2>4. Credit'
    BY <1>0, <1>1, <1>9, <1>10, <1>11 DEF TxInv, Credit
  <2>5. NotStranded'
    BY <1>1, <1>13 DEF NotStranded
  <2>6. TxExact'
    <3>1. (TxExact <=> reentered \/ Stream(host, fifo.in, me.b, tx) = [i \in 1 .. accepted |-> i])'
      BY ExactIs, PTL
    <3> QED
      BY <1>0, <1>1, <1>9, <1>10, <1>11, <1>12, <3>1, ExactIs DEF TxInv
  <2> QED
    BY <2>1, <2>2, <2>3, <2>4, <2>5, <2>6 DEF TxInv
<1>16. RxInv'
  <2>1. RxFrame
    BY <1>1, <1>9, <1>10 DEF RxFrame
  <2> QED
    BY <1>0, <1>1, <2>1, RxKept DEF Types
<1> QED
  BY <1>13, <1>14, <1>15, <1>16, Parts

\* ... takes it,
LEMMA ThDequeueStepKeeps ==
    ASSUME IInv, ThDequeueStep
    PROVE  IInv'
<1> DEFINE w == me  y == "wrap"  r == w.load  q == r + 1  x == tx.buf[r]  b == Append(w.b, x)
           c == tx  d == [c EXCEPT !.read = q]
<1>0. Types /\ Control /\ TxInv /\ RxInv
  BY DEF IInv
<1>1. /\ w.at = "step" /\ isr.at = "idle" /\ tx' = d
      /\ ThUsb([w EXCEPT !.at = y, !.b = b])
      /\ UNCHANGED <<rx, nl_in_rx, flags, intSt, intEn, slow, irqOn, can_transfer, fifo,
                     th, host, accepted, arrived, got, reentered, torn, dropped>>
  BY DEF ThDequeueStep, AtTh, At, Runs, regVars, seenVars, me, isr
<1>2. /\ w \in Context /\ w.b \in Seq(Nat) /\ w.n \in Nat /\ w.load \in Nat /\ w.ep = "in"
  BY <1>0, <1>1, Facts, ContextIs DEF Control
<1>3. /\ w.n > 0 /\ r \in 0 .. TxSize - 1 /\ Len(w.b) + w.n < Packet
      /\ ~ reentered => w.n <= available(c) /\ r = c.read
  BY <1>0, <1>1 DEF TxInv, InHand
<1>4. /\ c \in TxBuffer /\ TxSize \in Nat /\ TxSize > 1 /\ Packet \in Nat
      /\ c.read \in 0 .. TxSize /\ c.size = TxSize
      /\ available(c) \in 0 .. TxSize - 1 /\ available(c) \in Nat
      /\ (c.read < TxSize => (isEmpty(c) <=> available(c) = 0))
      /\ \A i \in 0 .. TxSize : c.buf[i] \in Nat
  <2>1. c \in TxBuffer
    BY <1>0, Facts
  <2> HIDE DEF c
  <2> QED
    BY <2>1, TxCounts, Sizes
<1>5. q \in 0 .. TxSize /\ x \in Nat
  BY <1>3, <1>4
<1>6. b \in Seq(Nat) /\ Len(b) = Len(w.b) + 1 /\ Len(w.b) \in Nat
  <2> HIDE DEF x, w
  <2> QED
    BY <1>2, <1>5, Row
<1>7. y \in UsbPlace /\ y = "wrap"
  BY DEF UsbPlace
<1> HIDE DEF w, y, b, x, q, c, d
<1>8. PICK u \in Context : /\ ThUsb(u) /\ u.ep = w.ep /\ u.at = y /\ u.b = b /\ u.n = w.n
  <2> DEFINE v == [w EXCEPT !.at = y]  u == [w EXCEPT !.at = y, !.b = b]
  <2>1. v = [at |-> y, ep |-> w.ep, fe |-> w.fe, load |-> w.load, en |-> w.en,
             n |-> w.n, b |-> w.b]
    BY <1>2, ContextIs
  <2>2. u = [v EXCEPT !.b = b]
    OBVIOUS
  <2>3. ThUsb(u)
    BY <1>1
  <2> HIDE DEF u, v
  <2>4. u = [at |-> y, ep |-> w.ep, fe |-> w.fe, load |-> w.load, en |-> w.en,
             n |-> w.n, b |-> b]
    BY <2>1, <2>2
  <2>5. u \in Context /\ u.at = y /\ u.ep = w.ep /\ u.b = b /\ u.n = w.n
    <3>1. w \in Context /\ y \in UsbPlace /\ w.load \in Nat /\ w.n \in Nat /\ b \in Seq(Nat)
      BY <1>2, <1>6, <1>7
    <3> QED
      BY ONLY <2>4, <3>1, ContextWith
  <2> QED
    BY <2>3, <2>5
<1>9. usb' \in [Ctx -> Context] /\ me' = u /\ isr' = isr
  BY <1>0, <1>8, MeGoes
<1>10. me.at = "step" /\ me.ep = "in" /\ me.b = w.b /\ me.n = w.n
  BY <1>1, <1>2 DEF w
<1>11. Control' /\ th.at = "ensure"
  BY <1>0, <1>1, <1>2, <1>7, <1>8, <1>9, <1>10, MeControl
<1>12. d \in TxBuffer /\ d.read = q
  <2> DEFINE Byte == 0 .. MaxTx
  <2>1. c \in Buffer(TxSize, Byte)
    BY <1>4 DEF TxBuffer
  <2> HIDE DEF Byte
  <2>2. d \in Buffer(TxSize, Byte) /\ d.read = q
    BY ONLY <1>4, <1>5, <2>1, ReadSet DEF d
  <2> QED
    BY <2>2 DEF Byte, TxBuffer
<1>13. ASSUME ~ reentered
       PROVE  /\ available(c) = available(d) + 1 /\ x = Cell(c, 0)
              /\ \A i \in 0 .. available(d) - 1 : Cell(d, i) = Cell(c, i + 1)
              /\ available(d) \in Nat
  <2> DEFINE Byte == 0 .. MaxTx
  <2>1. c \in Buffer(TxSize, Byte)
    BY <1>4 DEF TxBuffer
  <2> HIDE DEF Byte
  <2>2. c.read < TxSize /\ ~ isEmpty(c) /\ q = c.read + 1 /\ r = c.read
    <3>1. r = c.read /\ c.read < TxSize
      BY <1>3, <1>4, <1>13
    <3>2. available(c) # 0
      BY <1>2, <1>3, <1>4, <1>13
    <3> QED
      BY <1>4, <3>1, <3>2 DEF q
  <2>3. d = [c EXCEPT !.read = c.read + 1]
    BY <2>2 DEF d
  <2>4. /\ available(d) = available(c) - 1
        /\ \A i \in 0 .. TxSize - 2 : Cell(d, i) = Cell(c, i + 1)
    BY ONLY <1>4, <2>1, <2>2, <2>3, StepIs
  <2>5. available(d) \in Nat /\ available(c) = available(d) + 1
    <3>1. available(d) \in Nat
      BY <1>12, TxCounts
    <3> QED
      BY <1>4, <2>4, <3>1
  <2>6. \A i \in 0 .. available(d) - 1 : Cell(d, i) = Cell(c, i + 1)
    <3> DEFINE m == available(d)  k == available(c)
    <3>1. m \in Nat /\ k \in 0 .. TxSize - 1 /\ k = m + 1
      BY <1>4, <2>5
    <3> HIDE DEF m, k
    <3>2. \A i \in 0 .. m - 1 : i \in 0 .. TxSize - 2
      BY ONLY <3>1, <1>4
    <3> QED
      BY <2>4, <3>2 DEF m
  <2>7. x = Cell(c, 0)
    <3>1. 0 \in 0 .. TxSize - 1 /\ c.read + 0 = c.read
      BY <1>4
    <3>2. (c.read + 0) % c.size = IF c.read + 0 < TxSize THEN c.read + 0 ELSE c.read + 0 - TxSize
      BY ONLY <1>4, <2>1, <3>1, Slots
    <3>3. (c.read + 0) % c.size = r
      BY <2>2, <3>1, <3>2
    <3> QED
      BY <3>3 DEF Cell, x, c
  <2> QED
    BY <2>5, <2>6, <2>7
<1>14. Types'
  BY <1>0, <1>1, <1>9, <1>12 DEF Types, TxBuffer
<1>15. TxInv'
  <2>1. WriterHasRoom'
    BY <1>0, <1>1, <1>11 DEF TxInv, WriterHasRoom
  <2>2. InHand'
    <3> DEFINE B == Len(b)  W == Len(w.b)  m == w.n  a == available(c)  z == available(d)
    <3>1. B + m <= Packet
      <4>1. m \in Nat /\ B = W + 1 /\ W \in Nat /\ W + m < Packet /\ Packet \in Nat
        BY <1>2, <1>3, <1>4, <1>6
      <4> HIDE DEF B, W, m
      <4> QED
        BY ONLY <4>1
    <3>2. ~ reentered => m <= z + 1
      <4>1. ~ reentered => m <= a /\ a = z + 1
        BY <1>3, <1>13
      <4> HIDE DEF m, a, z
      <4> QED
        BY <4>1
    <3>3. me'.at = "wrap" /\ me'.b = b /\ me'.n = w.n /\ tx' = d
      BY <1>1, <1>7, <1>8, <1>9
    <3> HIDE DEF B, W, m, a, z
    <3>4. Len(me'.b) + me'.n <= Packet /\ me'.n > 0
      BY <1>3, <3>1, <3>3 DEF B, m
    <3>5. ~ reentered => me'.n <= available(tx') + 1
      BY <3>2, <3>3 DEF m, z
    <3> QED
      BY <1>1, <3>3, <3>4, <3>5 DEF InHand
  <2>3. RoomInController'
    BY <1>0, <1>1, <1>7, <1>8, <1>9, <1>10 DEF TxInv, RoomInController
  <2>4. Credit'
    BY <1>0, <1>1, <1>7, <1>8, <1>9, <1>10 DEF TxInv, Credit
  <2>5. NotStranded'
    BY <1>1, <1>11 DEF NotStranded
  <2>6. TxExact'
    <3>1. (TxExact <=> reentered \/ Stream(host, fifo.in, me.b, tx) = [i \in 1 .. accepted |-> i])'
      BY ExactIs, PTL
    <3>2. CASE ~ reentered
      <4>1. Len(fifo.in) < 2 /\ fifo.in \in Seq(Seq(Nat))
        BY <1>0, <1>10, <3>2, Facts DEF TxInv, RoomInController
      <4>2. Stream(host, fifo.in, b, d) = Stream(host, fifo.in, w.b, c)
        BY <1>2, <1>4, <1>5, <1>12, <1>13, <3>2, <4>1, StreamStep DEF b
      <4>3. Stream(host, fifo.in, w.b, c) = [i \in 1 .. accepted |-> i]
        BY <1>0, <1>10, <3>2, ExactIs DEF TxInv, c
      <4> QED
        BY <1>1, <1>8, <1>9, <3>1, <4>2, <4>3
    <3>3. CASE reentered
      BY <1>1, <3>1, <3>3
    <3> QED
      BY <3>2, <3>3
  <2> QED
    BY <2>1, <2>2, <2>3, <2>4, <2>5, <2>6 DEF TxInv
<1>16. RxInv'
  <2>1. RxFrame
    BY <1>1, <1>7, <1>8, <1>9 DEF RxFrame
  <2> QED
    BY <1>0, <1>1, <2>1, RxKept DEF Types
<1> QED
  BY <1>11, <1>14, <1>15, <1>16, Parts

\* ... and takes the index back
LEMMA ThDequeueWrapKeeps ==
    ASSUME IInv, ThDequeueWrap
    PROVE  IInv'
<1> DEFINE w == me  y == "dequeue"  k == w.n - 1
           c == tx  d == [c EXCEPT !.read = c.read % TxSize]
<1>0. Types /\ Control /\ TxInv /\ RxInv
  BY DEF IInv
<1>1. /\ w.at = "wrap" /\ isr.at = "idle" /\ tx' = d
      /\ ThUsb([w EXCEPT !.at = y, !.n = k])
      /\ UNCHANGED <<rx, nl_in_rx, flags, intSt, intEn, slow, irqOn, can_transfer, fifo,
                     th, host, accepted, arrived, got, reentered, torn, dropped>>
  BY DEF ThDequeueWrap, AtTh, At, Runs, regVars, seenVars, me, isr
<1>2. /\ w \in Context /\ w.b \in Seq(Nat) /\ w.n \in Nat /\ w.load \in Nat /\ w.ep = "in"
  BY <1>0, <1>1, Facts, ContextIs DEF Control
<1>3. /\ w.n > 0 /\ Len(w.b) + w.n <= Packet
      /\ ~ reentered => w.n <= available(c) + 1
  BY <1>0, <1>1 DEF TxInv, InHand
<1>4. /\ c \in TxBuffer /\ TxSize \in Nat /\ TxSize > 1 /\ Packet \in Nat
      /\ available(c) \in Nat
  <2>1. c \in TxBuffer
    BY <1>0, Facts
  <2> HIDE DEF c
  <2> QED
    BY <2>1, TxCounts, Sizes
<1>5. k \in Nat /\ w.n = k + 1 /\ Len(w.b) \in Nat
  BY <1>2, <1>3, LenProperties
<1>6. y \in UsbPlace /\ y = "dequeue"
  BY DEF UsbPlace
<1> HIDE DEF w, y, k, c, d
<1>7. PICK u \in Context : /\ ThUsb(u) /\ u.ep = w.ep /\ u.at = y /\ u.b = w.b /\ u.n = k
  <2> DEFINE v == [w EXCEPT !.at = y]  u == [w EXCEPT !.at = y, !.n = k]
  <2>1. v = [at |-> y, ep |-> w.ep, fe |-> w.fe, load |-> w.load, en |-> w.en,
             n |-> w.n, b |-> w.b]
    BY <1>2, ContextIs
  <2>2. u = [v EXCEPT !.n = k]
    OBVIOUS
  <2>3. ThUsb(u)
    BY <1>1
  <2> HIDE DEF u, v
  <2>4. u = [at |-> y, ep |-> w.ep, fe |-> w.fe, load |-> w.load, en |-> w.en,
             n |-> k, b |-> w.b]
    BY <2>1, <2>2
  <2>5. u \in Context /\ u.at = y /\ u.ep = w.ep /\ u.b = w.b /\ u.n = k
    <3>1. w \in Context /\ y \in UsbPlace /\ w.load \in Nat /\ k \in Nat /\ w.b \in Seq(Nat)
      BY <1>2, <1>5, <1>6
    <3> QED
      BY ONLY <2>4, <3>1, ContextWith
  <2> QED
    BY <2>3, <2>5
<1>8. usb' \in [Ctx -> Context] /\ me' = u /\ isr' = isr
  BY <1>0, <1>7, MeGoes
<1>9. me.at = "wrap" /\ me.ep = "in" /\ me.b = w.b /\ me.n = w.n
  BY <1>1, <1>2 DEF w
<1>10. Control' /\ th.at = "ensure"
  BY <1>0, <1>1, <1>2, <1>6, <1>7, <1>8, <1>9, MeControl
<1>11. /\ d \in TxBuffer /\ d.read < TxSize /\ available(d) = available(c)
       /\ \A i \in 0 .. available(d) - 1 : Cell(d, i) = Cell(c, i)
  <2> DEFINE Byte == 0 .. MaxTx
  <2>1. c \in Buffer(TxSize, Byte)
    BY <1>4 DEF TxBuffer
  <2> HIDE DEF Byte
  <2>2. /\ d \in Buffer(TxSize, Byte) /\ d.read < TxSize /\ available(d) = available(c)
        /\ \A i \in 0 .. TxSize - 1 : Cell(d, i) = Cell(c, i)
    <3> DEFINE q == c.read % TxSize
    <3>1. d = [c EXCEPT !.read = q]
      BY DEF d
    <3>2. c.read \in 0 .. TxSize
      BY <1>4, TxCounts
    <3>3. q = IF c.read = TxSize THEN 0 ELSE c.read
      BY <1>4, <3>2, WrapIndex
    <3> HIDE DEF q
    <3> QED
      BY ONLY <1>4, <2>1, <3>1, <3>3, WrapIs
  <2>3. d \in TxBuffer
    BY <2>2 DEF Byte, TxBuffer
  <2>4. available(d) \in 0 .. TxSize - 1
    BY ONLY <2>3, TxCounts
  <2> DEFINE z == available(d)
  <2>5. z \in 0 .. TxSize - 1
    BY <2>4
  <2> HIDE DEF z
  <2>6. \A i \in 0 .. z - 1 : i \in 0 .. TxSize - 1
    BY ONLY <2>5, <1>4
  <2> QED
    BY <2>2, <2>3, <2>6 DEF z
<1>12. Types'
  BY <1>0, <1>1, <1>8, <1>11 DEF Types, TxBuffer
<1>13. TxInv'
  <2>1. WriterHasRoom'
    BY <1>0, <1>1, <1>10 DEF TxInv, WriterHasRoom
  <2>2. InHand'
    <3> DEFINE W == Len(w.b)  m == w.n  a == available(c)
    <3>1. W + k < Packet /\ (~ reentered => k <= a)
      <4>1. m = k + 1 /\ k \in Nat /\ W \in Nat /\ W + m <= Packet /\ Packet \in Nat
            /\ a \in Nat
        BY <1>2, <1>3, <1>4, <1>5
      <4>2. ~ reentered => m <= a + 1
        BY <1>3
      <4> HIDE DEF W, m, a
      <4>3. W + k < Packet /\ (m <= a + 1 => k <= a)
        BY ONLY <4>1
      <4> QED
        BY <4>2, <4>3
    <3>2. me'.at = "dequeue" /\ me'.b = w.b /\ me'.n = k /\ tx' = d
      BY <1>1, <1>6, <1>7, <1>8
    <3> HIDE DEF W, m, a
    <3>3. Len(me'.b) + me'.n < Packet
      BY <3>1, <3>2 DEF W
    <3>4. ~ reentered => me'.n <= available(tx')
      BY <1>11, <3>1, <3>2 DEF a
    <3>5. tx'.read # TxSize
      <4>1. d.read \in 0 .. TxSize
        BY <1>11, TxCounts
      <4> QED
        BY <1>4, <1>11, <3>2, <4>1
    <3> QED
      BY <1>1, <3>2, <3>3, <3>4, <3>5 DEF InHand
  <2>3. RoomInController'
    BY <1>0, <1>1, <1>6, <1>7, <1>8, <1>9 DEF TxInv, RoomInController
  <2>4. Credit'
    BY <1>0, <1>1, <1>6, <1>7, <1>8, <1>9 DEF TxInv, Credit
  <2>5. NotStranded'
    BY <1>1, <1>10 DEF NotStranded
  <2>6. TxExact'
    <3>1. (TxExact <=> reentered \/ Stream(host, fifo.in, me.b, tx) = [i \in 1 .. accepted |-> i])'
      BY ExactIs, PTL
    <3>2. Stream(host, fifo.in, w.b, d) = Stream(host, fifo.in, w.b, c)
      BY <1>4, <1>11, StreamWrap
    <3> QED
      BY <1>0, <1>1, <1>7, <1>8, <1>9, <3>1, <3>2, ExactIs DEF TxInv, c
  <2> QED
    BY <2>1, <2>2, <2>3, <2>4, <2>5, <2>6 DEF TxInv
<1>14. RxInv'
  <2>1. RxFrame
    BY <1>1, <1>6, <1>7, <1>8 DEF RxFrame
  <2> QED
    BY <1>0, <1>1, <2>1, RxKept DEF Types
<1> QED
  BY <1>10, <1>12, <1>13, <1>14, Parts

\* The packet is handed to the controller,
LEMMA ThSendKeeps ==
    ASSUME IInv, ThSend
    PROVE  IInv'
<1> DEFINE w == me  y == "sent"  k == can_transfer.in - 1  nil == << >>
<1>0. Types /\ Control /\ TxInv /\ RxInv
  BY DEF IInv
<1>1. /\ w.at = "dequeue" /\ isr.at = "idle" /\ can_transfer.in > 0
      /\ can_transfer' = [can_transfer EXCEPT !.in = k]
      /\ ToHost(w.b)
      /\ ThUsb([w EXCEPT !.at = y, !.b = nil])
      /\ UNCHANGED <<tx, rx, nl_in_rx, flags, intSt, intEn, slow, irqOn,
                     th, host, accepted, arrived, got, reentered, torn, dropped>>
  BY DEF ThSend, AtTh, At, Runs, bufVars, seenVars, me, isr
<1>2. /\ w \in Context /\ w.b \in Seq(Nat) /\ w.n \in Nat /\ w.load \in Nat /\ w.ep = "in"
  BY <1>0, <1>1, Facts, ContextIs DEF Control
<1>3. can_transfer' \in [out : 0 .. 2, in : 0 .. 2]
  <2>1. can_transfer \in [out : 0 .. 2, in : 0 .. 2] /\ can_transfer.in \in 0 .. 2
    BY <1>0, Facts
  <2>2. k \in 0 .. 2
    BY <1>1, <2>1
  <2> HIDE DEF k
  <2> QED
    BY <1>1, <2>1, <2>2
<1>4. /\ fifo' \in [out : Seq(Seq(RxByte)), in : Seq(Seq(Nat))]
      /\ fifo'.out = fifo.out /\ Len(fifo'.in) <= 2
      /\ Len(fifo.in) < 2 => fifo'.in = Append(fifo.in, w.b) /\ fifo'.in # << >>
  BY <1>0, <1>1, <1>2, ToHostIs
<1>5. y \in UsbPlace /\ y = "sent" /\ nil \in Seq(Nat) /\ nil = << >>
  BY EmptySeq DEF UsbPlace
<1> HIDE DEF w, y, k, nil
<1>6. PICK u \in Context : /\ ThUsb(u) /\ u.ep = w.ep /\ u.at = y /\ u.b = nil
  <2> DEFINE v == [w EXCEPT !.at = y]  u == [w EXCEPT !.at = y, !.b = nil]
  <2>1. v = [at |-> y, ep |-> w.ep, fe |-> w.fe, load |-> w.load, en |-> w.en,
             n |-> w.n, b |-> w.b]
    BY <1>2, ContextIs
  <2>2. u = [v EXCEPT !.b = nil]
    OBVIOUS
  <2>3. ThUsb(u)
    BY <1>1
  <2> HIDE DEF u, v
  <2>4. u = [at |-> y, ep |-> w.ep, fe |-> w.fe, load |-> w.load, en |-> w.en,
             n |-> w.n, b |-> nil]
    BY <2>1, <2>2
  <2>5. u \in Context /\ u.at = y /\ u.ep = w.ep /\ u.b = nil
    <3>1. w \in Context /\ y \in UsbPlace /\ w.load \in Nat /\ w.n \in Nat /\ nil \in Seq(Nat)
      BY <1>2, <1>5
    <3> QED
      BY ONLY <2>4, <3>1, ContextWith
  <2> QED
    BY <2>3, <2>5
<1>7. usb' \in [Ctx -> Context] /\ me' = u /\ isr' = isr
  BY <1>0, <1>6, MeGoes
<1>8. me.at = "dequeue" /\ me.ep = "in" /\ me.b = w.b
  BY <1>1, <1>2 DEF w
<1>9. Control' /\ th.at = "ensure"
  BY <1>0, <1>1, <1>2, <1>5, <1>6, <1>7, <1>8, MeControl
<1>10. Types'
  BY <1>0, <1>1, <1>3, <1>4, <1>7 DEF Types
<1>11. ~ reentered => Len(fifo.in) < 2
  BY <1>0, <1>8 DEF TxInv, RoomInController
<1>12. TxInv'
  <2>1. WriterHasRoom'
    BY <1>0, <1>1 DEF TxInv, WriterHasRoom
  <2>2. InHand'
    BY <1>0, <1>1, <1>5, <1>6, <1>7, <1>8 DEF TxInv, InHand
  <2>3. RoomInController'
    BY <1>1, <1>5, <1>6, <1>7 DEF RoomInController
  <2>4. Credit'
    BY <1>1, <1>4, <1>5, <1>6, <1>7, <1>11 DEF Credit
  <2>5. NotStranded'
    BY <1>1, <1>9 DEF NotStranded
  <2>6. TxExact'
    <3>1. (TxExact <=> reentered \/ Stream(host, fifo.in, me.b, tx) = [i \in 1 .. accepted |-> i])'
      BY ExactIs, PTL
    <3>2. CASE ~ reentered
      <4>1. host \in Seq(Nat) /\ fifo.in \in Seq(Seq(Nat)) /\ Len(fifo.in) < 2
        BY <1>0, <1>11, <3>2, Facts
      <4>2. Stream(host, Append(fifo.in, w.b), << >>, tx) = Stream(host, fifo.in, w.b, tx)
        BY ONLY <1>2, <4>1, StreamSent
      <4>3. Stream(host, fifo.in, w.b, tx) = [i \in 1 .. accepted |-> i]
        BY <1>0, <1>8, <3>2, ExactIs DEF TxInv
      <4> QED
        BY <1>1, <1>4, <1>5, <1>6, <1>7, <3>1, <4>1, <4>2, <4>3
    <3>3. CASE reentered
      BY <1>1, <3>1, <3>3
    <3> QED
      BY <3>2, <3>3
  <2> QED
    BY <2>1, <2>2, <2>3, <2>4, <2>5, <2>6 DEF TxInv
<1>13. RxInv'
  <2>1. RxFrame
    BY <1>1, <1>4, <1>5, <1>6, <1>7 DEF RxFrame
  <2> QED
    BY <1>0, <1>1, <2>1, RxKept DEF Types
<1> QED
  BY <1>9, <1>10, <1>12, <1>13, Parts

\* or waits for a credit,
LEMMA ThSendWaitKeeps ==
    ASSUME IInv, ThSendWait
    PROVE  IInv'
<1>0. Types /\ Control
  BY DEF IInv
<1>1. /\ intEn' = intEn \cup {"in"} /\ me' = me /\ isr' = isr
      /\ UNCHANGED <<tx, rx, nl_in_rx, flags, intSt, slow, irqOn, can_transfer, fifo, usb,
                     th, host, accepted, arrived, got, reentered, torn, dropped>>
  BY DEF ThSendWait, bufVars, seenVars, me, isr
<1>2. Types'
  BY <1>0, <1>1 DEF Types, Ends
<1>3. Control'
  BY <1>0, <1>1 DEF Control
<1>4. TxFrame
  BY <1>1 DEF TxFrame
<1>5. RxFrame
  BY <1>1 DEF RxFrame
<1> QED
  BY <1>2, <1>3, <1>4, <1>5, Framed

\* and the handler is done
LEMMA ThSentKeeps ==
    ASSUME IInv, ThSent
    PROVE  IInv'
<1>0. Types /\ Control /\ TxInv
  BY DEF IInv
<1>1. /\ me.at = "sent" /\ isr.at = "idle"
      /\ Goto("thread", "disable") \/ NextEp("thread")
      /\ UNCHANGED <<tx, rx, nl_in_rx, flags, intSt, intEn, slow, irqOn, can_transfer, fifo,
                     th, host, accepted, arrived, got, reentered, torn, dropped>>
  BY DEF ThSent, AtTh, At, Runs, bufVars, regVars, seenVars, me, isr
<1>2. me.ep = "in" /\ me.b = << >>
  BY <1>0, <1>1 DEF Control, TxInv, InHand
<1>3. /\ usb' \in [Ctx -> Context] /\ isr' = isr /\ me'.b = << >>
      /\ me'.at = "ack" => me'.fe = 255
      /\ me'.at \in {"disable", "ack", "end"} /\ (me'.at = "disable" => me'.ep = "in")
  <2>1. CASE Goto("thread", "disable")
    <3>1. "disable" \in UsbPlace
      BY DEF UsbPlace
    <3> QED
      BY <1>0, <1>2, <2>1, <3>1, MeGoto
  <2>2. CASE NextEp("thread")
    BY <1>0, <2>2, MeNext
  <2> QED
    BY <1>1, <2>1, <2>2
<1>4. Control'
  BY <1>0, <1>1, <1>3, MeControl
<1>5. Types'
  BY <1>0, <1>1, <1>3 DEF Types
<1>6. TxFrame
  BY <1>1, <1>3 DEF TxFrame
<1>7. RxFrame
  BY <1>1, <1>3 DEF RxFrame
<1> QED
  BY <1>4, <1>5, <1>6, <1>7, Framed

---------------------------------------------------------------------------
(* The writer *)

\* What a step of the thread may make of its state
LEMMA ThWith ==
    ASSUME NEW x \in ThPlace, NEW n \in Nat, NEW load \in Nat \cup Flags, NEW c \in RxByte,
           NEW t, t = [at |-> x, n |-> n, load |-> load, c |-> c]
    PROVE  t \in ThState /\ t.at = x /\ t.n = n /\ t.load = load /\ t.c = c
BY DEF ThState

\* The state of the thread and its parts
LEMMA ThIs ==
    ASSUME Types
    PROVE  /\ th = [at |-> th.at, n |-> th.n, load |-> th.load, c |-> th.c]
           /\ th.at \in ThPlace /\ th.n \in Nat /\ th.load \in Nat \cup Flags /\ th.c \in RxByte
BY DEF Types, ThState

\* The thread goes to another place
LEMMA ThGotoIs ==
    ASSUME Types, NEW x \in ThPlace, ThGoto(x)
    PROVE  /\ th' \in ThState /\ th'.at = x /\ th'.n = th.n /\ th'.load = th.load
           /\ th'.c = th.c
<1>1. /\ th = [at |-> th.at, n |-> th.n, load |-> th.load, c |-> th.c]
      /\ th.n \in Nat /\ th.load \in Nat \cup Flags /\ th.c \in RxByte
  BY ThIs
<1>2. th' = [at |-> x, n |-> th.n, load |-> th.load, c |-> th.c]
  BY <1>1 DEF ThGoto
<1> QED
  BY <1>1, <1>2, ThWith

\* A place and a number
LEMMA ThCounts ==
    ASSUME Types, NEW x \in ThPlace, NEW n \in Nat, th' = [th EXCEPT !.at = x, !.n = n]
    PROVE  /\ th' \in ThState /\ th'.at = x /\ th'.n = n /\ th'.load = th.load
<1>1. /\ th = [at |-> th.at, n |-> th.n, load |-> th.load, c |-> th.c]
      /\ th.n \in Nat /\ th.load \in Nat \cup Flags /\ th.c \in RxByte
  BY ThIs
<1> DEFINE v == [th EXCEPT !.at = x]
<1>2. v = [at |-> x, n |-> th.n, load |-> th.load, c |-> th.c]
  BY <1>1
<1>3. th' = [v EXCEPT !.n = n]
  OBVIOUS
<1> HIDE DEF v
<1>4. th' = [at |-> x, n |-> n, load |-> th.load, c |-> th.c]
  BY <1>2, <1>3
<1> QED
  BY ONLY <1>1, <1>4, x \in ThPlace, n \in Nat, ThWith

\* The interrupt of an endpoint, set
LEMMA SetInterruptIs ==
    ASSUME Types, NEW e \in Ends, SetInterrupt(e)
    PROVE  /\ intEn' = intEn \cup {e} /\ intEn' \in SUBSET Ends /\ intSt' \in SUBSET Ends
           /\ intSt \subseteq intSt' /\ slow' \in BOOLEAN
           /\ can_transfer[e] > 0 => e \in intSt'
BY Facts DEF SetInterrupt, Types

\* A writer's step: what it queues, and what it leaves alone
WriterStep ==
    /\ isr.at = "idle" /\ me.at = "idle" /\ isr' = isr /\ usb' \in [Ctx -> Context]
    /\ th' \in ThState /\ th.at \notin Reading /\ th'.at \notin Reading
    /\ intEn' \in SUBSET Ends /\ intSt' \in SUBSET Ends /\ slow' \in BOOLEAN
    /\ intEn \subseteq intEn' /\ intSt \subseteq intSt'
    /\ ("out" \in intEn' <=> "out" \in intEn)
    /\ me'.at \in {"idle", "ep0"} /\ me'.b = me.b /\ (me'.at # "idle" => th'.at = "ensure")
    /\ UNCHANGED <<rx, nl_in_rx, flags, irqOn, can_transfer, fifo, host, arrived, got,
                   reentered, torn>>

\* A writer's step keeps the invariant
LEMMA WriterKeeps ==
    ASSUME IInv, WriterStep, tx' \in TxBuffer, tx'.read = tx.read, accepted' \in 0 .. MaxTx,
           dropped' \in BOOLEAN, WriterHasRoom', NotStranded', TxExact'
    PROVE  IInv'
<1>0. Types /\ Control /\ TxInv /\ RxInv
  BY DEF IInv
<1>1. Types'
  BY <1>0 DEF WriterStep, Types, TxBuffer
<1>2. Control'
  <2>1. \A c \in Ctx : usb'[c].at = "ack" => usb'[c].fe = 255
    BY <1>0, Contexts, Facts DEF WriterStep
  <2> QED
    BY <1>0, <2>1 DEF WriterStep, Control
<1>3. InHand'
  BY <1>0 DEF WriterStep, TxInv, InHand
<1>4. RoomInController' /\ Credit'
  BY <1>0 DEF WriterStep, TxInv, RoomInController, Credit
<1>5. RxInv'
  <2>1. RxFrame
    BY DEF WriterStep, RxFrame
  <2>2. reentered \in BOOLEAN /\ reentered' \in BOOLEAN
    BY <1>0 DEF WriterStep, Types
  <2> QED
    BY <1>0, <2>1, <2>2, RxKept
<1> QED
  BY <1>1, <1>2, <1>3, <1>4, <1>5, Parts DEF TxInv

\* The bytes under way stay where they are
LEMMA ExactKept ==
    ASSUME IInv, WriterStep, tx' = tx, accepted' = accepted
    PROVE  TxExact'
<1>1. (TxExact <=> reentered \/ Stream(host, fifo.in, me.b, tx) = [i \in 1 .. accepted |-> i])'
  BY ExactIs, PTL
<1> QED
  BY <1>1, ExactIs DEF WriterStep, IInv, TxInv

\* writeBlock finds room,
LEMMA WriteBlockKeeps ==
    ASSUME IInv, WriteBlock
    PROVE  IInv'
<1>0. Types /\ TxInv
  BY DEF IInv
<1> DEFINE x == "queue"
<1>1. /\ th.at = "idle" /\ isr.at = "idle" /\ me.at = "idle" /\ me' = me /\ isr' = isr
      /\ UNCHANGED <<tx, rx, nl_in_rx, flags, intSt, intEn, slow, irqOn, can_transfer, fifo,
                     usb, host, accepted, arrived, got, reentered, torn, dropped>>
  BY DEF WriteBlock, ThAt, bufVars, regVars, seenVars, me, isr
<1>2. free(tx) \in Nat
  BY <1>0, Facts, TxCounts
<1>3. PICK n \in Nat : /\ n <= free(tx) /\ accepted + n <= MaxTx
                       /\ th' = [th EXCEPT !.at = x, !.n = n]
  <2>1. PICK size \in 1 .. TxSize :
            LET n == IF size > free(tx) THEN free(tx) ELSE size IN
            /\ accepted + n <= MaxTx /\ th' = [th EXCEPT !.at = x, !.n = n]
    BY DEF WriteBlock
  <2> DEFINE n == IF size > free(tx) THEN free(tx) ELSE size
  <2>2. n \in Nat /\ n <= free(tx)
    BY <1>2, <2>1, Sizes
  <2>3. accepted + n <= MaxTx /\ th' = [th EXCEPT !.at = x, !.n = n]
    BY <2>1
  <2> HIDE DEF n
  <2> QED
    BY <2>2, <2>3
<1>4. x \in ThPlace /\ x = "queue"
  BY DEF ThPlace
<1> HIDE DEF x
<1>5. th' \in ThState /\ th'.at = x /\ th'.n = n
  BY <1>0, <1>3, <1>4, ThCounts
<1>6. WriterStep
  BY <1>0, <1>1, <1>4, <1>5, Facts DEF WriterStep, Reading, Types
<1>7. WriterHasRoom'
  BY <1>0, <1>1, <1>3, <1>4, <1>5 DEF TxInv, WriterHasRoom
<1>8. NotStranded'
  BY <1>4, <1>5 DEF NotStranded
<1>9. /\ tx' \in TxBuffer /\ tx'.read = tx.read /\ accepted' \in 0 .. MaxTx
      /\ dropped' \in BOOLEAN
  BY <1>0, <1>1 DEF Types, TxBuffer
<1> QED
  BY <1>1, <1>6, <1>7, <1>8, <1>9, ExactKept, WriterKeeps

\* _putc asks for room,
LEMMA PutcKeeps ==
    ASSUME IInv, Putc
    PROVE  IInv'
<1>0. Types /\ TxInv
  BY DEF IInv
<1> DEFINE x == "ensure"  n == 1
<1>1. /\ th.at = "idle" /\ isr.at = "idle" /\ me.at = "idle" /\ me' = me /\ isr' = isr
      /\ accepted < MaxTx /\ th' = [th EXCEPT !.at = x, !.n = n]
      /\ UNCHANGED <<tx, rx, nl_in_rx, flags, intSt, intEn, slow, irqOn, can_transfer, fifo,
                     usb, host, accepted, arrived, got, reentered, torn, dropped>>
  BY DEF Putc, ThAt, bufVars, regVars, seenVars, me, isr
<1>2. x \in ThPlace /\ x = "ensure" /\ n \in Nat /\ n = 1
  BY DEF ThPlace
<1> HIDE DEF x, n
<1>3. th' \in ThState /\ th'.at = x /\ th'.n = n
  BY <1>0, <1>1, <1>2, ThCounts
<1>4. WriterStep
  BY <1>0, <1>1, <1>2, <1>3, Facts DEF WriterStep, Reading, Types
<1>5. WriterHasRoom'
  <2>1. accepted + 1 <= MaxTx
    BY <1>0, <1>1, Facts, Sizes
  <2> QED
    BY <1>0, <1>1, <1>2, <1>3, <2>1 DEF TxInv, WriterHasRoom
<1>6. NotStranded'
  BY <1>2, <1>3 DEF NotStranded
<1>7. /\ tx' \in TxBuffer /\ tx'.read = tx.read /\ accepted' \in 0 .. MaxTx
      /\ dropped' \in BOOLEAN
  BY <1>0, <1>1 DEF Types, TxBuffer
<1> QED
  BY <1>1, <1>4, <1>5, <1>6, <1>7, ExactKept, WriterKeeps

\* ensure_tx_space looks for it,
LEMMA EnsureTxSpaceKeeps ==
    ASSUME IInv, EnsureTxSpace
    PROVE  IInv'
<1>0. Types /\ TxInv
  BY DEF IInv
<1>1. /\ th.at = "ensure" /\ isr.at = "idle" /\ me.at = "idle" /\ me' = me /\ isr' = isr
      /\ UNCHANGED <<tx, rx, nl_in_rx, flags, irqOn, can_transfer, fifo,
                     usb, host, accepted, arrived, got, reentered, torn, dropped>>
  BY DEF EnsureTxSpace, ThAt, bufVars, seenVars, me, isr
<1>2. /\ free(tx) < 1 => SetInterrupt("in") /\ ThGoto("poll")
      /\ ~ (free(tx) < 1) => ThGoto("queue") /\ UNCHANGED <<intSt, intEn, slow>>
  BY DEF EnsureTxSpace
<1>3. free(tx) \in Nat
  BY <1>0, Facts, TxCounts
<1>4. /\ intEn' \in SUBSET Ends /\ intSt' \in SUBSET Ends /\ slow' \in BOOLEAN
      /\ intEn \subseteq intEn' /\ intSt \subseteq intSt'
      /\ ("out" \in intEn' <=> "out" \in intEn)
  <2>1. CASE free(tx) < 1
    BY <1>0, <1>2, <2>1, SetInterruptIs, Facts
  <2>2. CASE ~ (free(tx) < 1)
    BY <1>0, <1>2, <2>2 DEF Types
  <2> QED
    BY <2>1, <2>2
<1>5. /\ th' \in ThState /\ th'.n = th.n /\ th'.at \in {"poll", "queue"}
      /\ th'.at = "queue" => free(tx) >= 1
  <2>1. "poll" \in ThPlace /\ "queue" \in ThPlace
    BY DEF ThPlace
  <2>2. CASE free(tx) < 1
    BY <1>0, <1>2, <2>1, <2>2, ThGotoIs
  <2>3. CASE ~ (free(tx) < 1)
    BY <1>0, <1>2, <1>3, <2>1, <2>3, ThGotoIs
  <2> QED
    BY <2>2, <2>3
<1>6. WriterStep
  BY <1>0, <1>1, <1>4, <1>5, Facts DEF WriterStep, Reading, Types
<1>7. WriterHasRoom'
  <2>1. th.n = 1 /\ accepted + th.n <= MaxTx
    BY <1>0, <1>1 DEF TxInv, WriterHasRoom
  <2> QED
    BY <1>0, <1>1, <1>5, <2>1 DEF TxInv, WriterHasRoom
<1>8. NotStranded'
  BY <1>5 DEF NotStranded
<1>9. /\ tx' \in TxBuffer /\ tx'.read = tx.read /\ accepted' \in 0 .. MaxTx
      /\ dropped' \in BOOLEAN
  BY <1>0, <1>1 DEF Types, TxBuffer
<1> QED
  BY <1>1, <1>6, <1>7, <1>8, <1>9, ExactKept, WriterKeeps

\* and calls usbisr as long as there is none;
LEMMA CallUsbisrKeeps ==
    ASSUME IInv, CallUsbisr
    PROVE  IInv'
<1>0. Types /\ TxInv
  BY DEF IInv
<1> DEFINE x == IF slow THEN "ep0" ELSE "idle"
<1>1. /\ th.at = "poll" /\ isr.at = "idle" /\ me.at = "idle" /\ Goto("thread", x)
      /\ ThGoto("ensure")
      /\ UNCHANGED <<tx, rx, nl_in_rx, flags, intSt, intEn, slow, irqOn, can_transfer, fifo,
                     host, accepted, arrived, got, reentered, torn, dropped>>
  BY DEF CallUsbisr, ThAt, Goto, bufVars, regVars, seenVars, me, isr
<1>2. x \in UsbPlace /\ x \in {"idle", "ep0"} /\ "ensure" \in ThPlace
  BY DEF UsbPlace, ThPlace
<1> HIDE DEF x
<1>3. usb' \in [Ctx -> Context] /\ isr' = isr /\ me'.at = x /\ me'.b = me.b
  BY <1>0, <1>1, <1>2, MeGoto
<1>4. th' \in ThState /\ th'.at = "ensure" /\ th'.n = th.n
  BY <1>0, <1>1, <1>2, ThGotoIs
<1>5. WriterStep
  BY <1>0, <1>1, <1>2, <1>3, <1>4, Facts DEF WriterStep, Reading, Types
<1>6. WriterHasRoom'
  BY <1>0, <1>1, <1>4 DEF TxInv, WriterHasRoom
<1>7. NotStranded'
  BY <1>4 DEF NotStranded
<1>8. /\ tx' \in TxBuffer /\ tx'.read = tx.read /\ accepted' \in 0 .. MaxTx
      /\ dropped' \in BOOLEAN
  BY <1>0, <1>1 DEF Types, TxBuffer
<1> QED
  BY <1>1, <1>5, <1>6, <1>7, <1>8, ExactKept, WriterKeeps

\* a byte is queued,
LEMMA QueueByteKeeps ==
    ASSUME IInv, QueueByte
    PROVE  IInv'
<1>0. Types /\ TxInv
  BY DEF IInv
<1> DEFINE c == tx  d == tx'  a == accepted  k == a + 1  n == th.n - 1  x == "queue"
<1>1. /\ th.at = "queue" /\ isr.at = "idle" /\ me.at = "idle" /\ me' = me /\ isr' = isr
      /\ th.n > 0 /\ d = queue(c, k) /\ dropped' = (dropped \/ isFull(c))
      /\ accepted' = k /\ th' = [th EXCEPT !.n = n]
      /\ UNCHANGED <<rx, nl_in_rx, flags, intSt, intEn, slow, irqOn, can_transfer, fifo,
                     usb, host, arrived, got, reentered, torn>>
  BY DEF QueueByte, ThAt, regVars, me, isr
<1>2. /\ th.n \in Nat /\ a \in Nat /\ c \in TxBuffer /\ free(c) \in Nat
      /\ c.read \in 0 .. TxSize /\ (c.read < TxSize => (isFull(c) <=> free(c) = 0))
      /\ TxSize \in Nat /\ TxSize > 1 /\ MaxTx \in Nat /\ available(c) \in Nat
  <2>1. th.n \in Nat /\ a \in Nat /\ c \in TxBuffer
    BY <1>0, Facts
  <2> HIDE DEF c
  <2> QED
    BY <2>1, TxCounts, Sizes
<1>3. a + th.n <= MaxTx /\ th.n <= free(c) /\ c.read # TxSize /\ (dropped => reentered)
  BY <1>0, <1>1 DEF TxInv, WriterHasRoom, InHand
<1> HIDE DEF c, d
<1>4. n \in Nat /\ th.n = n + 1 /\ k \in 0 .. MaxTx /\ free(c) > 0 /\ ~ isFull(c)
  BY <1>1, <1>2, <1>3
<1>5. /\ d \in TxBuffer /\ d.read = c.read /\ available(d) = available(c) + 1
      /\ free(d) = free(c) - 1
      /\ \A i \in 0 .. available(c) - 1 : Cell(d, i) = Cell(c, i)
      /\ Cell(d, available(c)) = k
  <2> DEFINE Byte == 0 .. MaxTx
  <2>1. c \in Buffer(TxSize, Byte) /\ k \in Byte /\ free(c) > 0
    BY <1>2, <1>4 DEF TxBuffer
  <2> HIDE DEF Byte, k
  <2>2. /\ d \in Buffer(TxSize, Byte) /\ d.read = c.read /\ available(d) = available(c) + 1
        /\ free(d) = free(c) - 1
        /\ \A i \in 0 .. available(c) - 1 : Cell(d, i) = Cell(c, i)
        /\ Cell(d, available(c)) = k
    BY ONLY <1>1, <1>2, <2>1, QueueAppends
  <2> QED
    BY <2>2 DEF Byte, TxBuffer
<1>6. x \in ThPlace
  BY DEF ThPlace
<1>7. th' \in ThState /\ th'.at = x /\ th'.n = n
  <2>1. th' = [th EXCEPT !.at = x, !.n = n]
    BY <1>0, <1>1, ThIs
  <2> HIDE DEF x, n
  <2> QED
    BY <1>0, <1>4, <1>6, <2>1, ThCounts
<1>8. WriterStep
  BY <1>0, <1>1, <1>7, Facts DEF WriterStep, Reading, Types
<1>9. WriterHasRoom'
  <2>1. accepted' + n <= MaxTx
    <3> DEFINE t == th.n
    <3>1. a \in Nat /\ n \in Nat /\ t = n + 1 /\ a + t <= MaxTx /\ MaxTx \in Nat
      BY <1>2, <1>3, <1>4
    <3> HIDE DEF a, t, n
    <3>2. (a + 1) + n <= MaxTx
      BY ONLY <3>1
    <3> QED
      BY <1>1, <3>2
  <2>2. n <= free(d)
    <3> DEFINE t == th.n  f == free(c)  g == free(d)
    <3>1. n \in Nat /\ t = n + 1 /\ t <= f /\ f \in Nat /\ g = f - 1
      BY <1>2, <1>3, <1>4, <1>5
    <3> HIDE DEF t, n, f, g
    <3>2. n <= g
      BY ONLY <3>1
    <3> QED
      BY <3>2 DEF g
  <2> QED
    BY <1>1, <1>3, <1>4, <1>7, <2>1, <2>2 DEF WriterHasRoom, d
<1>10. NotStranded'
  BY <1>7 DEF NotStranded
<1>11. TxExact'
  <2>1. (TxExact <=> reentered \/ Stream(host, fifo.in, me.b, tx) = [i \in 1 .. accepted |-> i])'
    BY ExactIs, PTL
  <2>2. CASE ~ reentered
    <3>1. host \in Seq(Nat) /\ fifo.in \in Seq(Seq(Nat)) /\ Len(fifo.in) <= 2
          /\ me.b \in Seq(Nat)
      BY <1>0, Facts, ContextIs
    <3>2. Stream(host, fifo.in, me.b, c) = Upto(a)
      BY <1>0, <2>2, ExactIs DEF TxInv, Upto, c
    <3>3. k \in Nat
      BY <1>2
    <3> HIDE DEF a
    <3>4. Stream(host, fifo.in, me.b, d) = Upto(k)
      <4>1. k = a + 1
        OBVIOUS
      <4>2. UnderWay(host, fifo.in, me.b)
        BY <3>1 DEF UnderWay
      <4> HIDE DEF k
      <4>3. Grows(c, d, k) /\ a \in Nat
        BY <1>2, <1>5, <3>3 DEF Grows
      <4> QED
        BY ONLY <3>2, <4>1, <4>2, <4>3, StreamQueue
    <3>5. /\ host' = host /\ fifo' = fifo /\ me'.b = me.b /\ tx' = d /\ accepted' = k
      BY <1>1 DEF d
    <3> HIDE DEF k
    <3> QED
      BY <2>1, <3>4, <3>5 DEF Upto
  <2>3. CASE reentered
    BY <1>1, <2>1, <2>3
  <2> QED
    BY <2>2, <2>3
<1>12. /\ tx' \in TxBuffer /\ tx'.read = tx.read /\ accepted' \in 0 .. MaxTx
       /\ dropped' \in BOOLEAN
  BY <1>0, <1>1, <1>4, <1>5, Facts DEF c, d
<1> QED
  BY <1>8, <1>9, <1>10, <1>11, <1>12, WriterKeeps

\* and after the last the IN handler is wanted
LEMMA QueuedKeeps ==
    ASSUME IInv, Queued
    PROVE  IInv'
<1>0. Types /\ TxInv
  BY DEF IInv
<1>1. /\ th.at = "queue" /\ isr.at = "idle" /\ me.at = "idle" /\ me' = me /\ isr' = isr
      /\ SetInterrupt("in") /\ ThGoto("idle")
      /\ UNCHANGED <<tx, rx, nl_in_rx, flags, irqOn, can_transfer, fifo,
                     usb, host, accepted, arrived, got, reentered, torn, dropped>>
  BY DEF Queued, ThAt, bufVars, seenVars, me, isr
<1>2. /\ intEn' = intEn \cup {"in"} /\ intEn' \in SUBSET Ends /\ intSt' \in SUBSET Ends
      /\ intSt \subseteq intSt' /\ slow' \in BOOLEAN
      /\ can_transfer.in > 0 => "in" \in intSt'
  BY <1>0, <1>1, SetInterruptIs, Facts
<1>3. th' \in ThState /\ th'.at = "idle"
  <2>1. "idle" \in ThPlace
    BY DEF ThPlace
  <2> QED
    BY <1>0, <1>1, <2>1, ThGotoIs
<1>4. WriterStep
  BY <1>0, <1>1, <1>2, <1>3, Facts DEF WriterStep, Reading, Types
<1>5. WriterHasRoom'
  BY <1>0, <1>1, <1>3 DEF TxInv, WriterHasRoom
<1>6. NotStranded'
  BY <1>0, <1>1, <1>2 DEF NotStranded, TxInv, Credit
<1>7. /\ tx' \in TxBuffer /\ tx'.read = tx.read /\ accepted' \in 0 .. MaxTx
      /\ dropped' \in BOOLEAN
  BY <1>0, <1>1 DEF Types, TxBuffer
<1> QED
  BY <1>1, <1>4, <1>5, <1>6, <1>7, ExactKept, WriterKeeps

---------------------------------------------------------------------------
(* The reader *)

\* The host has sent no fewer bytes than the controller holds
LEMMA TakenIs ==
    ASSUME IInv
    PROVE  Taken \in Nat
<1>1. CASE fifo.out = << >>
  BY <1>1, Facts DEF IInv, Taken, Pending
<1>2. CASE fifo.out # << >>
  BY <1>2, PacketFits
<1> QED
  BY <1>1, <1>2

\* The thread's place and what it has loaded
LEMMA ThLoads ==
    ASSUME Types, NEW x \in ThPlace, NEW load \in Nat \cup Flags,
           th' = [th EXCEPT !.at = x, !.load = load]
    PROVE  th' \in ThState /\ th'.at = x /\ th'.load = load
<1>1. /\ th = [at |-> th.at, n |-> th.n, load |-> th.load, c |-> th.c]
      /\ th.n \in Nat /\ th.c \in RxByte
  BY ThIs
<1> DEFINE v == [th EXCEPT !.at = x]
<1>2. v = [at |-> x, n |-> th.n, load |-> th.load, c |-> th.c]
  BY <1>1
<1>3. th' = [v EXCEPT !.load = load]
  OBVIOUS
<1> HIDE DEF v
<1>4. th' = [at |-> x, n |-> th.n, load |-> load, c |-> th.c]
  BY <1>2, <1>3
<1> QED
  BY ONLY <1>1, <1>4, x \in ThPlace, load \in Nat \cup Flags, ThWith

\* The thread at rest
LEMMA ThIdleIs == ThIdle \in ThState /\ ThIdle.at = "idle"
<1> DEFINE x == "idle"  z == 0  c == NoByte
<1>1. x \in ThPlace /\ z \in Nat
  BY DEF ThPlace
<1>2. c \in RxByte
  <2> DEFINE k == "char"
  <2>1. z \in 0 .. MaxRx /\ k \in Kinds
    BY Sizes DEF Kinds
  <2>2. c = [id |-> z, kind |-> k]
    BY DEF NoByte
  <2> HIDE DEF z, k, c
  <2> QED
    BY <2>1, <2>2 DEF RxByte
<1>3. ThIdle = [at |-> x, n |-> z, load |-> z, c |-> c]
  BY DEF ThIdle
<1> HIDE DEF x, z, c
<1>4. z \in Nat \cup Flags
  BY <1>1
<1>5. ThIdle \in ThState /\ ThIdle.at = x
  BY ONLY <1>1, <1>2, <1>3, <1>4, ThWith
<1> QED
  BY <1>5 DEF x

\* What all steps of the reader have in common
ReaderStep ==
    /\ isr.at = "idle" /\ me.at = "idle" /\ th' \in ThState
    /\ th.at \notin Writing /\ th'.at \notin Writing
    /\ rx' \in RxBuffer /\ nl_in_rx' \in Nat /\ flags' \in Flags /\ got' \in Nat
    /\ intEn' \in SUBSET Ends /\ intSt' \in SUBSET Ends /\ slow' \in BOOLEAN
    /\ intEn \subseteq intEn' /\ intSt \subseteq intSt'
    /\ UNCHANGED <<tx, irqOn, can_transfer, fifo, usb, host, accepted, arrived,
                   reentered, torn, dropped>>

\* The place at which the reader looks for room
Enough == ~ torn /\ "out" \notin intEn /\ th.at \in {"copy", "mod", "wrap", "room"}
              => free(rx) <= Packet

\* With these, little is left to show of a step of the reader
LEMMA ReaderKeeps ==
    ASSUME IInv, ReaderStep, Lines', ReadIndex', Order', RxReenabled', Enough'
    PROVE  IInv'
<1>0. Types /\ Control /\ TxInv /\ RxInv
  BY DEF IInv
<1>1. me' = me /\ isr' = isr
  BY DEF ReaderStep, me, isr
<1>2. Types'
  BY <1>0, <1>1 DEF ReaderStep, Types, RxBuffer
<1>3. Control'
  BY <1>0, <1>1 DEF ReaderStep, Control
<1>4. TxInv'
  <2>1. TxFrame
    BY <1>1 DEF ReaderStep, TxFrame
  <2>2. reentered \in BOOLEAN /\ reentered' \in BOOLEAN
    BY <1>0 DEF ReaderStep, Types
  <2> QED
    BY <1>0, <2>1, <2>2, TxKept
<1>5. Arriving'
  <2>1. Taken' = Taken
    BY DEF ReaderStep, Taken
  <2> QED
    BY <1>0, <1>1, <2>1 DEF ReaderStep, RxInv, Arriving
<1>6. OutOff'
  BY <1>1 DEF ReaderStep, OutOff, Enough
<1> QED
  BY <1>2, <1>3, <1>4, <1>5, <1>6, Parts DEF RxInv

\* Steps that only take the thread to another place
Elsewhere(x) ==
    /\ th' \in ThState /\ th'.at = x
    /\ isr.at = "idle" /\ me.at = "idle"
    /\ UNCHANGED <<tx, rx, nl_in_rx, flags, intSt, intEn, slow, irqOn, can_transfer, fifo,
                   usb, host, accepted, arrived, got, reentered, torn, dropped>>

\* ... are steps of the reader
LEMMA ElsewhereReads ==
    ASSUME IInv, NEW x, Elsewhere(x), x \notin Writing, th.at \notin Writing
    PROVE  ReaderStep /\ Taken' = Taken
<1>1. Types
  BY DEF IInv
<1>2. slow \in BOOLEAN
  BY <1>1 DEF Types
<1> QED
  BY <1>1, <1>2, Facts DEF Elsewhere, ReaderStep, Taken

\* ... between places that nothing is said about
LEMMA RestKeeps ==
    ASSUME IInv, NEW x \in {"idle", "flush", "wait", "dequeue"}, Elsewhere(x),
           th.at \in {"idle", "flush", "wait", "dequeue"}
    PROVE  IInv'
<1>0. RxInv
  BY DEF IInv
<1>1. ReaderStep /\ Taken' = Taken
  BY ElsewhereReads DEF Writing
<1>2. Lines' /\ ReadIndex' /\ Enough'
  BY <1>0, <1>1 DEF RxInv, Elsewhere, Lines, ReadIndex, Enough
<1>3. Order'
  BY <1>0, <1>1 DEF RxInv, Elsewhere, Order, LastOut
<1>4. RxReenabled'
  BY <1>0 DEF RxInv, Elsewhere, OutOff, RxReenabled
<1> QED
  BY <1>1, <1>2, <1>3, <1>4, ReaderKeeps

\* ThGoto is such a step
LEMMA GotoElsewhere ==
    ASSUME IInv, NEW y, ThAt(y), NEW x \in ThPlace, ThGoto(x),
           UNCHANGED <<bufVars, regVars, usb, seenVars>>
    PROVE  Elsewhere(x) /\ th.at = y /\ th'.n = th.n /\ th'.load = th.load /\ th'.c = th.c
<1>1. /\ th' \in ThState /\ th'.at = x /\ th'.n = th.n /\ th'.load = th.load
      /\ th'.c = th.c
  BY ThGotoIs DEF IInv
<1> QED
  BY <1>1 DEF Elsewhere, ThAt, bufVars, regVars, seenVars, me, isr

\* flush() and _getc wait
LEMMA WaitingKeeps ==
    ASSUME IInv, Flush \/ FlushReturn \/ Getc \/ GetcWait
    PROVE  IInv'
<1>1. {"idle", "flush", "wait", "dequeue"} \subseteq ThPlace
  BY DEF ThPlace
<1>2. CASE Flush
  <2>1. Elsewhere("flush") /\ th.at = "idle"
    BY <1>1, <1>2, GotoElsewhere DEF Flush
  <2> QED
    BY <2>1, RestKeeps
<1>3. CASE FlushReturn
  <2>1. Elsewhere("idle") /\ th.at = "flush"
    BY <1>1, <1>3, GotoElsewhere DEF FlushReturn
  <2> QED
    BY <2>1, RestKeeps
<1>4. CASE Getc
  <2>1. Elsewhere("wait") /\ th.at = "idle"
    BY <1>1, <1>4, GotoElsewhere DEF Getc
  <2> QED
    BY <2>1, RestKeeps
<1>5. CASE GetcWait
  <2>1. Elsewhere("dequeue") /\ th.at = "wait"
    BY <1>1, <1>5, GotoElsewhere DEF GetcWait
  <2> QED
    BY <2>1, RestKeeps
<1> QED
  BY <1>2, <1>3, <1>4, <1>5

\* dequeue looks whether there is a byte,
LEMMA GetcDequeueKeeps ==
    ASSUME IInv, GetcDequeue
    PROVE  IInv'
<1> DEFINE x == "store"  r == rx.read
<1>0. Types /\ RxInv
  BY DEF IInv
<1>1. /\ th.at = "dequeue" /\ isr.at = "idle" /\ me.at = "idle"
      /\ isEmpty(rx) => ThGoto("room")
      /\ ~ isEmpty(rx) => th' = [th EXCEPT !.at = x, !.load = r]
      /\ UNCHANGED <<tx, rx, nl_in_rx, flags, intSt, intEn, slow, irqOn, can_transfer, fifo,
                     usb, host, accepted, arrived, got, reentered, torn, dropped>>
  BY DEF GetcDequeue, ThAt, ThGoto, bufVars, regVars, seenVars, me, isr
<1>2. /\ rx \in RxBuffer /\ rx.read \in 0 .. RxSize /\ free(rx) \in Nat
      /\ RxSize \in Nat /\ Packet \in Nat
  BY <1>0, Facts, RxCounts, Sizes
<1>3. rx.read # RxSize
  BY <1>0, <1>1 DEF RxInv, ReadIndex
<1>4. r \in Nat /\ r \in 0 .. RxSize - 1 /\ r = rx.read
  BY <1>2, <1>3
<1>5. x \in ThPlace /\ x = "store" /\ "room" \in ThPlace
  BY DEF ThPlace
<1> HIDE DEF x, r
<1>6. /\ th' \in ThState /\ th'.at \in {"room", "store"}
      /\ th'.at = "store" => ~ isEmpty(rx) /\ th'.load = r
  <2>1. CASE isEmpty(rx)
    BY <1>0, <1>1, <1>5, <2>1, ThGotoIs
  <2>2. CASE ~ isEmpty(rx)
    BY <1>0, <1>1, <1>4, <1>5, <2>2, ThLoads
  <2> QED
    BY <2>1, <2>2
<1>7. ReaderStep /\ Taken' = Taken
  BY <1>1, <1>6, ElsewhereReads DEF Elsewhere, Writing
<1>8. Lines' /\ ReadIndex'
  BY <1>0, <1>1, <1>3, <1>4, <1>6, <1>7 DEF RxInv, Lines, ReadIndex
<1>9. Order'
  BY <1>0, <1>1, <1>6, <1>7 DEF RxInv, Order, LastOut
<1>10. RxReenabled'
  BY <1>0, <1>1 DEF RxInv, OutOff, RxReenabled
<1>11. Enough'
  BY <1>0, <1>1, <1>2 DEF RxInv, OutOff, RxReenabled, Enough
<1> QED
  BY <1>7, <1>8, <1>9, <1>10, <1>11, ReaderKeeps

\* moves the index on, and wherever that was the buffer is one,
LEMMA GetcStepKeeps ==
    ASSUME IInv, GetcStep
    PROVE  IInv'
<1> DEFINE c == rx  d == rx'  q == th.load + 1
<1>0. Types /\ RxInv
  BY DEF IInv
<1>1. /\ th.at = "store" /\ isr.at = "idle" /\ me.at = "idle" /\ ThGoto("copy")
      /\ d = [c EXCEPT !.read = q]
      /\ UNCHANGED <<tx, nl_in_rx, flags, intSt, intEn, slow, irqOn, can_transfer, fifo,
                     usb, host, accepted, arrived, got, reentered, torn, dropped>>
  BY DEF GetcStep, ThAt, regVars, seenVars, me, isr
<1>2. /\ c \in RxBuffer /\ c.read \in 0 .. RxSize /\ free(c) \in Nat /\ available(c) \in Nat
      /\ available(c) \in 0 .. RxSize - 1
      /\ RxSize \in Nat /\ RxSize > 1 /\ Packet \in Nat
      /\ (c.read < RxSize => (isEmpty(c) <=> available(c) = 0))
  BY <1>0, Facts, RxCounts, Sizes
<1>3. /\ th.load \in 0 .. RxSize - 1
      /\ c.read # RxSize
      /\ ~ torn => ~ isEmpty(c) /\ th.load = c.read
  BY <1>0, <1>1 DEF RxInv, ReadIndex
<1>4. q \in 0 .. RxSize /\ th.load = q - 1
  BY <1>2, <1>3
<1>5. /\ th' \in ThState /\ th'.at = "copy" /\ th'.load = th.load
  <2>1. "copy" \in ThPlace
    BY DEF ThPlace
  <2> QED
    BY <1>0, <1>1, <2>1, ThGotoIs
<1> HIDE DEF c, d, q
<1>6. d \in RxBuffer /\ d.read = q /\ d.buf = c.buf
  BY ONLY <1>1, <1>2, <1>4, ReadSet DEF RxBuffer
<1>7. Taken' = Taken /\ Taken \in Nat
  BY <1>1, TakenIs DEF Taken
<1>8. ReaderStep
  <2>1. slow \in BOOLEAN
    BY <1>0 DEF Types
  <2> QED
    BY <1>0, <1>1, <1>5, <1>6, <2>1, Facts DEF ReaderStep, Writing, d
<1>9. Lines' /\ ReadIndex'
  BY <1>0, <1>1, <1>3, <1>4, <1>5, <1>6, <1>7 DEF RxInv, Lines, ReadIndex, d
<1>10. ASSUME ~ torn
       PROVE  /\ available(d) = available(c) - 1 /\ free(d) = free(c) + 1
              /\ \A i \in 0 .. RxSize - 2 : Cell(d, i) = Cell(c, i + 1)
              /\ rx'.buf[th.load] = Cell(c, 0) /\ available(c) > 0
  <2>1. c.read < RxSize /\ ~ isEmpty(c) /\ q = c.read + 1 /\ th.load = c.read
    BY <1>2, <1>3, <1>10 DEF q
  <2>2. d = [c EXCEPT !.read = c.read + 1]
    BY <1>1, <2>1
  <2>3. c \in Buffer(RxSize, RxByte)
    BY <1>2 DEF RxBuffer
  <2>4. /\ available(d) = available(c) - 1 /\ free(d) = free(c) + 1
        /\ \A i \in 0 .. RxSize - 2 : Cell(d, i) = Cell(c, i + 1)
    BY ONLY <1>2, <2>1, <2>2, <2>3, StepIs
  <2>5. rx'.buf[th.load] = Cell(c, 0)
    <3>1. 0 \in 0 .. RxSize - 1 /\ c.read + 0 = c.read
      BY <1>2
    <3>2. (c.read + 0) % c.size = IF c.read + 0 < RxSize THEN c.read + 0 ELSE c.read + 0 - RxSize
      BY ONLY <1>2, <2>3, <3>1, Slots
    <3>3. (c.read + 0) % c.size = th.load
      BY <2>1, <3>1, <3>2
    <3> QED
      BY <1>6, <3>3 DEF Cell, d
  <2>6. available(c) > 0
    BY <1>2, <2>1
  <2> QED
    BY <2>4, <2>5, <2>6
<1>11. Order'
  <2> DEFINE lo == Cell(c, 0).id  a == available(c)  b == available(d)
  <2> SUFFICES ASSUME ~ torn
               PROVE  /\ got <= Taken /\ lo <= Taken /\ Ascending(d, lo, Taken)
                      /\ got < lo
    <3>1. ~ torn => LastOut' = lo
      BY <1>5, <1>10 DEF LastOut
    <3> QED
      BY <1>1, <1>5, <1>7, <3>1 DEF Order, d
  <2>1. /\ got <= Taken /\ LastOut = got /\ Ascending(c, got, Taken)
    BY <1>0, <1>1 DEF RxInv, Order, LastOut, c
  <2>2. a \in 0 .. RxSize - 1 /\ a > 0 /\ b = a - 1 /\ RxSize \in Nat
    BY <1>2, <1>10
  <2> HIDE DEF a, b, lo
  <2>3. 0 \in 0 .. a - 1
    BY <2>2
  <2>4. got < lo /\ lo <= Taken
    BY <2>1, <2>3 DEF Ascending, a, lo
  <2>5. /\ \A i \in 0 .. b - 1 : /\ i \in 0 .. RxSize - 2 /\ i + 1 \in 0 .. a - 1
                                 /\ 0 < i + 1
        /\ \A i, j \in 0 .. b - 1 : i < j => i + 1 < j + 1
    BY ONLY <2>2
  <2>6. Ascending(d, lo, Taken)
    <3>1. \A i \in 0 .. b - 1 : Cell(d, i) = Cell(c, i + 1)
      BY <1>10, <2>5
    <3>2. \A i \in 0 .. a - 1 : got < Cell(c, i).id /\ Cell(c, i).id <= Taken
      BY <2>1 DEF Ascending, a
    <3>3. \A i, j \in 0 .. a - 1 : i < j => Cell(c, i).id < Cell(c, j).id
      BY <2>1 DEF Ascending, a
    <3>4. ASSUME NEW i \in 0 .. b - 1
          PROVE  lo < Cell(d, i).id /\ Cell(d, i).id <= Taken
      <4>1. i + 1 \in 0 .. a - 1 /\ 0 < i + 1
        BY <2>5
      <4>2. Cell(c, 0).id < Cell(c, i + 1).id /\ Cell(c, i + 1).id <= Taken
        BY <2>3, <3>2, <3>3, <4>1
      <4> QED
        BY <3>1, <4>2 DEF lo
    <3>5. ASSUME NEW i \in 0 .. b - 1, NEW j \in 0 .. b - 1, i < j
          PROVE  Cell(d, i).id < Cell(d, j).id
      <4>1. i + 1 \in 0 .. a - 1 /\ j + 1 \in 0 .. a - 1 /\ i + 1 < j + 1
        BY <2>5, <3>5
      <4>2. Cell(c, i + 1).id < Cell(c, j + 1).id
        BY <3>3, <4>1
      <4> QED
        BY <3>1, <4>2
    <3> QED
      BY <3>4, <3>5 DEF Ascending, b
  <2> QED
    BY <2>1, <2>4, <2>6
<1>12. RxReenabled'
  BY <1>5 DEF RxReenabled
<1>13. Enough'
  <2>1. ~ torn /\ "out" \notin intEn => free(d) <= Packet
    <3>1. ~ torn /\ "out" \notin intEn => free(c) < Packet
      BY <1>0, <1>1 DEF RxInv, OutOff, RxReenabled, c
    <3> QED
      BY <1>2, <1>10, <3>1
  <2> QED
    BY <1>1, <2>1 DEF Enough, d
<1> QED
  BY <1>8, <1>9, <1>11, <1>12, <1>13, ReaderKeeps

\* copies that one,
LEMMA GetcCopyKeeps ==
    ASSUME IInv, GetcCopy
    PROVE  /\ IInv'
           /\ torn \/ got < got'
<1> DEFINE b == rx.buf[th.load]  x == "mod"  id == b.id
<1>0. Types /\ RxInv
  BY DEF IInv
<1>1. /\ th.at = "copy" /\ isr.at = "idle" /\ me.at = "idle"
      /\ th' = [th EXCEPT !.at = x, !.c = b] /\ got' = id
      /\ UNCHANGED <<tx, rx, nl_in_rx, flags, intSt, intEn, slow, irqOn, can_transfer, fifo,
                     usb, host, accepted, arrived, reentered, torn, dropped>>
  BY DEF GetcCopy, ThAt, bufVars, regVars, me, isr
<1>2. b \in RxByte /\ id \in Nat
  <2>1. th.load \in 0 .. RxSize - 1 /\ rx \in Buffer(RxSize, RxByte) /\ RxSize \in Nat
    BY <1>0, <1>1, Facts, Sizes DEF RxInv, ReadIndex, RxBuffer
  <2>2. th.load \in 0 .. RxSize
    BY <2>1
  <2>3. b \in RxByte
    BY <2>1, <2>2 DEF Buffer
  <2> HIDE DEF b
  <2> QED
    BY <2>3, Sizes DEF RxByte
<1>3. x \in ThPlace /\ x = "mod"
  BY DEF ThPlace
<1>4. LastOut = id
  BY <1>1 DEF LastOut
<1> HIDE DEF x, b, id
<1>5. th' \in ThState /\ th'.at = x
  <2>1. /\ th = [at |-> th.at, n |-> th.n, load |-> th.load, c |-> th.c]
        /\ th.n \in Nat /\ th.load \in Nat \cup Flags
    BY <1>0, ThIs
  <2> DEFINE v == [th EXCEPT !.at = x]
  <2>2. v = [at |-> x, n |-> th.n, load |-> th.load, c |-> th.c]
    BY <2>1
  <2>3. th' = [v EXCEPT !.c = b]
    BY <1>1
  <2> HIDE DEF v
  <2>4. th' = [at |-> x, n |-> th.n, load |-> th.load, c |-> b]
    BY <2>2, <2>3
  <2> QED
    BY ONLY <1>2, <1>3, <2>1, <2>4, ThWith
<1>6. ReaderStep /\ Taken' = Taken
  <2>1. slow \in BOOLEAN
    BY <1>0 DEF Types
  <2> QED
    BY <1>0, <1>1, <1>2, <1>3, <1>5, <2>1, Facts DEF ReaderStep, Writing, Taken
<1>7. Lines' /\ ReadIndex' /\ Enough' /\ RxReenabled'
  BY <1>0, <1>1, <1>3, <1>5, <1>6
     DEF RxInv, Lines, ReadIndex, Enough, OutOff, RxReenabled
<1>8. Order'
  BY <1>0, <1>1, <1>3, <1>4, <1>5, <1>6 DEF RxInv, Order, LastOut
<1>9. torn \/ got < got'
  BY <1>0, <1>1, <1>4 DEF RxInv, Order
<1> QED
  BY <1>6, <1>7, <1>8, <1>9, ReaderKeeps

\* reads the index again
LEMMA GetcModKeeps ==
    ASSUME IInv, GetcMod
    PROVE  IInv'
<1> DEFINE x == "wrap"  r == rx.read
<1>0. Types /\ RxInv
  BY DEF IInv
<1>1. /\ th.at = "mod" /\ isr.at = "idle" /\ me.at = "idle"
      /\ th' = [th EXCEPT !.at = x, !.load = r]
      /\ UNCHANGED <<tx, rx, nl_in_rx, flags, intSt, intEn, slow, irqOn, can_transfer, fifo,
                     usb, host, accepted, arrived, got, reentered, torn, dropped>>
  BY DEF GetcMod, ThAt, bufVars, regVars, seenVars, me, isr
<1>2. x \in ThPlace /\ x = "wrap"
  BY DEF ThPlace
<1>3. r \in 0 .. RxSize /\ r \in Nat \cup Flags /\ r = rx.read
  BY <1>0, Facts, RxCounts, Sizes
<1> HIDE DEF x, r
<1>4. th' \in ThState /\ th'.at = x /\ th'.load = r
  BY <1>0, <1>1, <1>2, <1>3, ThLoads
<1>5. ReaderStep /\ Taken' = Taken
  <2>1. Elsewhere(x)
    BY <1>1, <1>4 DEF Elsewhere
  <2> QED
    BY <1>1, <1>2, <2>1, ElsewhereReads DEF Writing
<1>6. Lines' /\ ReadIndex' /\ Enough' /\ RxReenabled'
  BY <1>0, <1>1, <1>2, <1>3, <1>4, <1>5
     DEF RxInv, Lines, ReadIndex, Enough, OutOff, RxReenabled
<1>7. Order'
  BY <1>0, <1>1, <1>2, <1>4, <1>5 DEF RxInv, Order, LastOut
<1> QED
  BY <1>5, <1>6, <1>7, ReaderKeeps

\* and stores what is left of it
LEMMA GetcWrapKeeps ==
    ASSUME IInv, GetcWrap
    PROVE  IInv'
<1> DEFINE c == rx  d == rx'  q == IF th.load = RxSize THEN 0 ELSE th.load
<1>0. Types /\ RxInv
  BY DEF IInv
<1>1. /\ th.at = "wrap" /\ isr.at = "idle" /\ me.at = "idle" /\ ThGoto("room")
      /\ d = [c EXCEPT !.read = th.load % RxSize]
      /\ UNCHANGED <<tx, nl_in_rx, flags, intSt, intEn, slow, irqOn, can_transfer, fifo,
                     usb, host, accepted, arrived, got, reentered, torn, dropped>>
  BY DEF GetcWrap, ThAt, regVars, seenVars, me, isr
<1>2. /\ c \in Buffer(RxSize, RxByte) /\ c.read \in 0 .. RxSize
      /\ RxSize \in Nat /\ RxSize > 1 /\ Packet \in Nat
  BY <1>0, Facts, RxCounts, Sizes DEF RxBuffer
<1>3. th.load \in 0 .. RxSize /\ (~ torn => th.load = c.read)
  BY <1>0, <1>1 DEF RxInv, ReadIndex
<1>4. th.load % RxSize = q /\ q \in 0 .. RxSize /\ q # RxSize
  BY <1>2, <1>3, WrapIndex
<1>5. ~ torn => q = IF c.read = RxSize THEN 0 ELSE c.read
  BY <1>3
<1> HIDE DEF c, d, q
<1>6. d = [c EXCEPT !.read = q]
  BY <1>1, <1>4
<1>7. d \in Buffer(RxSize, RxByte) /\ d.read = q /\ d.read # RxSize
  BY ONLY <1>2, <1>4, <1>6, ReadSet
<1>8. ~ torn => /\ available(d) = available(c) /\ free(d) = free(c)
                /\ \A i \in 0 .. RxSize - 1 : Cell(d, i) = Cell(c, i)
  BY ONLY <1>2, <1>5, <1>6, WrapIs
<1>9. /\ th' \in ThState /\ th'.at = "room"
  <2>1. "room" \in ThPlace
    BY DEF ThPlace
  <2> QED
    BY <1>0, <1>1, <2>1, ThGotoIs
<1>10. Taken' = Taken /\ Taken \in Nat
  BY <1>1, TakenIs DEF Taken
<1>11. ReaderStep
  <2>1. slow \in BOOLEAN
    BY <1>0 DEF Types
  <2> QED
    BY <1>0, <1>1, <1>7, <1>9, <2>1, Facts DEF ReaderStep, Writing, d, RxBuffer
<1>12. Lines' /\ ReadIndex' /\ RxReenabled'
  BY <1>0, <1>1, <1>7, <1>9, <1>10 DEF RxInv, Lines, ReadIndex, RxReenabled, d
<1>13. Enough'
  BY <1>0, <1>1, <1>8 DEF RxInv, OutOff, Enough, c, d
<1>14. Order'
  <2> SUFFICES ASSUME ~ torn
               PROVE  got <= Taken /\ Ascending(d, got, Taken)
    BY <1>1, <1>9, <1>10 DEF Order, LastOut, d
  <2>1. got <= Taken /\ Ascending(c, got, Taken)
    BY <1>0, <1>1 DEF RxInv, Order, LastOut, c
  <2>2. c \in RxBuffer /\ d \in RxBuffer /\ got \in Nat
    BY <1>0, <1>2, <1>7, Facts DEF RxBuffer
  <2>3. /\ available(c) \in 0 .. RxSize - 1
        /\ \A i \in 0 .. available(c) - 1 : i \in 0 .. RxSize - 1
    BY <2>2, RxCells
  <2>4. available(d) <= available(c)
    BY <1>8, <2>3
  <2>5. \A i \in 0 .. available(d) - 1 : Cell(d, i) = Cell(c, i)
    BY <1>8, <2>3
  <2>6. Taken <= Taken
    BY <1>10
  <2>7. Ascending(d, got, Taken)
    BY ONLY <1>10, <2>1, <2>2, <2>4, <2>5, <2>6, FewerAscend
  <2> QED
    BY <2>1, <2>7
<1> QED
  BY <1>11, <1>12, <1>13, <1>14, ReaderKeeps

\* What is behind a dequeue: other places, where only a line's count can be
\* in the reader's hand
Behind(x) ==
    /\ x \in {"idle", "room", "long", "skip", "enable", "line", "count"}
    /\ th' \in ThState /\ th'.at = x
    /\ x = "skip" => th'.load \in Flags
    /\ x = "count" => th'.load \in Nat \ {0} /\ th'.load <= Taken
    /\ th.at \in {"room", "long", "skip", "enable", "line", "count"}
    /\ isr.at = "idle" /\ me.at = "idle"

\* Such a step keeps all that does not depend on what it changes
LEMMA BehindKeeps ==
    ASSUME IInv, NEW x, Behind(x), x # "room",
           flags' \in Flags, nl_in_rx' \in Nat, nl_in_rx' <= Taken,
           intEn' \in SUBSET Ends, intSt' \in SUBSET Ends, slow' \in BOOLEAN,
           intEn \subseteq intEn', intSt \subseteq intSt',
           rx' = rx \/ rx' = flush(rx), RxReenabled',
           UNCHANGED <<tx, irqOn, can_transfer, fifo, usb, host, accepted, arrived, got,
                       reentered, torn, dropped>>
    PROVE  IInv'
<1> DEFINE d == rx'
<1>0. Types /\ RxInv
  BY DEF IInv
<1>1. Taken' = Taken /\ Taken \in Nat
  BY TakenIs DEF Taken
<1>2. rx \in RxBuffer /\ got \in Nat /\ RxSize \in Nat
  BY <1>0, Facts, Sizes
<1>3. rx.read # RxSize
  BY <1>0 DEF RxInv, ReadIndex, Behind
<1>4. d \in RxBuffer /\ d.read # RxSize /\ (d = rx \/ available(d) = 0)
  <2>1. CASE rx' = rx
    BY <1>2, <1>3, <2>1
  <2>2. CASE rx' = flush(rx)
    <3>1. rx \in Buffer(RxSize, RxByte) /\ RxSize > 1
      BY <1>2, Sizes DEF RxBuffer
    <3>2. d = flush(rx)
      BY <2>2
    <3> HIDE DEF d
    <3>3. d \in Buffer(RxSize, RxByte) /\ d.read < RxSize /\ available(d) = 0
      BY ONLY <1>2, <3>1, <3>2, FlushIs
    <3>4. d.read # RxSize
      BY <1>2, <3>3 DEF Buffer
    <3> QED
      BY <3>3, <3>4 DEF RxBuffer
  <2> QED
    BY <2>1, <2>2
<1>5. ReaderStep
  BY <1>2, <1>4 DEF ReaderStep, Behind, Writing
<1>6. Lines' /\ ReadIndex' /\ Enough'
  BY <1>1, <1>4 DEF Behind, Lines, ReadIndex, Enough
<1>7. Order'
  <2> SUFFICES ASSUME ~ torn
               PROVE  got <= Taken /\ Ascending(d, got, Taken)
    BY <1>1 DEF Order, LastOut, Behind
  <2>1. got <= Taken /\ Ascending(rx, got, Taken)
    BY <1>0 DEF RxInv, Order, LastOut, Behind
  <2> HIDE DEF d
  <2>2. CASE available(d) = 0
    BY <1>4, <2>1, <2>2, NoneAscend
  <2> QED
    BY <1>4, <2>1, <2>2
<1> QED
  BY <1>5, <1>6, <1>7, ReaderKeeps

\* The bytes as they are before these steps
LEMMA BehindFacts ==
    ASSUME IInv
    PROVE  /\ flags \in Flags /\ nl_in_rx \in Nat /\ nl_in_rx <= Taken /\ Taken \in Nat
           /\ intEn \in SUBSET Ends /\ intSt \in SUBSET Ends /\ slow \in BOOLEAN
           /\ th \in ThState /\ th.load \in Nat \cup Flags /\ rx \in RxBuffer
           /\ free(rx) \in Nat /\ Packet \in Nat
           /\ {"idle", "room", "long", "skip", "enable", "line", "count"} \subseteq ThPlace
           /\ Types /\ RxInv
<1>1. Types /\ RxInv
  BY DEF IInv
<1>2. slow \in BOOLEAN
  BY <1>1 DEF Types
<1>3. {"idle", "room", "long", "skip", "enable", "line", "count"} \subseteq ThPlace
  BY DEF ThPlace
<1>4. nl_in_rx <= Taken /\ Taken \in Nat
  BY <1>1, TakenIs DEF RxInv, Lines
<1>5. free(rx) \in Nat /\ Packet \in Nat
  BY <1>1, Facts, RxCounts, Sizes
<1> QED
  BY <1>1, <1>2, <1>3, <1>4, <1>5, Facts

\* There is room for one packet, or for less
LEMMA GetcRoomKeeps ==
    ASSUME IInv, GetcRoom
    PROVE  IInv'
<1> DEFINE x == IF free(rx) = Packet THEN "enable" ELSE "long"
<1>0. /\ Types /\ RxInv /\ flags \in Flags /\ nl_in_rx \in Nat /\ nl_in_rx <= Taken
      /\ intEn \in SUBSET Ends /\ intSt \in SUBSET Ends /\ slow \in BOOLEAN
      /\ free(rx) \in Nat /\ Packet \in Nat
  BY BehindFacts
<1>1. /\ th.at = "room" /\ isr.at = "idle" /\ me.at = "idle" /\ ThGoto(x)
      /\ UNCHANGED <<tx, rx, nl_in_rx, flags, intSt, intEn, slow, irqOn, can_transfer, fifo,
                     usb, host, accepted, arrived, got, reentered, torn, dropped>>
  BY DEF GetcRoom, ThAt, bufVars, regVars, seenVars, me, isr
<1>2. x \in ThPlace /\ x \in {"enable", "long"}
  BY DEF ThPlace
<1>3. x = "long" => free(rx) # Packet
  OBVIOUS
<1> HIDE DEF x
<1>4. th' \in ThState /\ th'.at = x
  BY <1>0, <1>1, <1>2, ThGotoIs
<1>5. Behind(x) /\ x # "room"
  BY <1>1, <1>2, <1>4 DEF Behind
<1>6. RxReenabled'
  <2>1. ~ torn /\ "out" \notin intEn => free(rx) <= Packet
    BY <1>0, <1>1 DEF RxInv, OutOff
  <2>2. ~ torn /\ "out" \notin intEn /\ x = "long" => free(rx) < Packet
    BY <1>0, <1>3, <2>1
  <2> QED
    BY <1>1, <1>2, <1>4, <2>2 DEF RxReenabled
<1> QED
  BY <1>0, <1>1, <1>5, <1>6, BehindKeeps

\* A line that cannot fit goes
LEMMA GetcLongKeeps ==
    ASSUME IInv, GetcLong
    PROVE  IInv'
<1> DEFINE x == "skip"  f == flags
<1>0. /\ Types /\ RxInv /\ flags \in Flags /\ nl_in_rx \in Nat /\ nl_in_rx <= Taken
      /\ intEn \in SUBSET Ends /\ intSt \in SUBSET Ends /\ slow \in BOOLEAN
      /\ {"idle", "room", "long", "skip", "enable", "line", "count"} \subseteq ThPlace
  BY BehindFacts
<1>1. /\ th.at = "long" /\ isr.at = "idle" /\ me.at = "idle"
      /\ \/ rx' = flush(rx) /\ th' = [th EXCEPT !.at = x, !.load = f]
         \/ ThGoto("line") /\ rx' = rx
      /\ UNCHANGED <<tx, nl_in_rx, flags, intSt, intEn, slow, irqOn, can_transfer, fifo,
                     usb, host, accepted, arrived, got, reentered, torn, dropped>>
  BY DEF GetcLong, ThAt, regVars, seenVars, me, isr
<1>2. x \in ThPlace /\ x = "skip" /\ f \in Flags /\ f \in Nat \cup Flags
  BY <1>0
<1> HIDE DEF x, f
<1>3. CASE rx' = flush(rx) /\ th' = [th EXCEPT !.at = x, !.load = f]
  <2>1. th' \in ThState /\ th'.at = x /\ th'.load = f
    BY <1>0, <1>2, <1>3, ThLoads
  <2>2. Behind(x) /\ x # "room"
    BY <1>1, <1>2, <2>1 DEF Behind
  <2>3. RxReenabled'
    BY <1>2, <2>1 DEF RxReenabled
  <2> QED
    BY <1>0, <1>1, <1>3, <2>2, <2>3, BehindKeeps
<1>4. CASE ThGoto("line") /\ rx' = rx
  <2>1. th' \in ThState /\ th'.at = "line"
    BY <1>0, <1>4, ThGotoIs
  <2>2. Behind("line")
    BY <1>1, <2>1 DEF Behind
  <2>3. RxReenabled'
    BY <1>0, <1>1, <1>4, <2>1 DEF RxInv, OutOff, RxReenabled
  <2> QED
    BY <1>0, <1>1, <1>4, <2>2, <2>3, BehindKeeps
<1> QED
  BY <1>1, <1>3, <1>4

\* and what follows is to go, too
LEMMA GetcSkipKeeps ==
    ASSUME IInv, GetcSkip
    PROVE  IInv'
<1> DEFINE yes == TRUE
<1>0. /\ Types /\ RxInv /\ flags \in Flags /\ nl_in_rx \in Nat /\ nl_in_rx <= Taken
      /\ intEn \in SUBSET Ends /\ intSt \in SUBSET Ends /\ slow \in BOOLEAN
      /\ {"idle", "room", "long", "skip", "enable", "line", "count"} \subseteq ThPlace
  BY BehindFacts
<1>1. /\ th.at = "skip" /\ isr.at = "idle" /\ me.at = "idle" /\ ThGoto("enable")
      /\ flags' = [th.load EXCEPT !.flush_to_nl = yes]
      /\ UNCHANGED <<tx, rx, nl_in_rx, intSt, intEn, slow, irqOn, can_transfer, fifo,
                     usb, host, accepted, arrived, got, reentered, torn, dropped>>
  BY DEF GetcSkip, ThAt, regVars, seenVars, me, isr
<1>2. yes \in BOOLEAN
  OBVIOUS
<1> HIDE DEF yes
<1>3. flags' \in Flags
  <2>1. th.load \in Flags
    BY <1>0, <1>1 DEF RxInv, ReadIndex
  <2> QED
    BY <1>1, <1>2, <2>1 DEF Flags
<1>4. th' \in ThState /\ th'.at = "enable"
  BY <1>0, <1>1, ThGotoIs
<1>5. Behind("enable")
  BY <1>1, <1>4 DEF Behind
<1>6. RxReenabled'
  BY <1>4 DEF RxReenabled
<1> QED
  BY <1>0, <1>1, <1>3, <1>5, <1>6, BehindKeeps

\* The OUT handler is on again
LEMMA GetcEnableKeeps ==
    ASSUME IInv, GetcEnable
    PROVE  IInv'
<1>0. /\ Types /\ RxInv /\ flags \in Flags /\ nl_in_rx \in Nat /\ nl_in_rx <= Taken
      /\ {"idle", "room", "long", "skip", "enable", "line", "count"} \subseteq ThPlace
  BY BehindFacts
<1>1. /\ th.at = "enable" /\ isr.at = "idle" /\ me.at = "idle" /\ ThGoto("line")
      /\ SetInterrupt("out")
      /\ UNCHANGED <<tx, rx, nl_in_rx, flags, irqOn, can_transfer, fifo,
                     usb, host, accepted, arrived, got, reentered, torn, dropped>>
  BY DEF GetcEnable, ThAt, bufVars, seenVars, me, isr
<1>2. /\ intEn' = intEn \cup {"out"} /\ intEn' \in SUBSET Ends /\ intSt' \in SUBSET Ends
      /\ intSt \subseteq intSt' /\ slow' \in BOOLEAN
  BY <1>0, <1>1, SetInterruptIs, Facts
<1>3. th' \in ThState /\ th'.at = "line"
  BY <1>0, <1>1, ThGotoIs
<1>4. Behind("line")
  BY <1>1, <1>3 DEF Behind
<1>5. RxReenabled'
  BY <1>2 DEF RxReenabled
<1>6. intEn \subseteq intEn'
  BY <1>2
<1> QED
  BY <1>0, <1>1, <1>2, <1>4, <1>5, <1>6, BehindKeeps

\* A line end is counted down,
LEMMA GetcLineKeeps ==
    ASSUME IInv, GetcLine
    PROVE  IInv'
<1> DEFINE x == "count"  k == nl_in_rx
<1>0. /\ Types /\ RxInv /\ flags \in Flags /\ nl_in_rx \in Nat /\ nl_in_rx <= Taken
      /\ intEn \in SUBSET Ends /\ intSt \in SUBSET Ends /\ slow \in BOOLEAN
      /\ {"idle", "room", "long", "skip", "enable", "line", "count"} \subseteq ThPlace
  BY BehindFacts
<1>1. /\ th.at = "line" /\ isr.at = "idle" /\ me.at = "idle"
      /\ \/ k > 0 /\ th' = [th EXCEPT !.at = x, !.load = k]
         \/ th' = ThIdle
      /\ UNCHANGED <<tx, rx, nl_in_rx, flags, intSt, intEn, slow, irqOn, can_transfer, fifo,
                     usb, host, accepted, arrived, got, reentered, torn, dropped>>
  BY DEF GetcLine, ThAt, bufVars, regVars, seenVars, me, isr
<1>2. x \in ThPlace /\ x = "count" /\ k \in Nat /\ k <= Taken /\ (k > 0 => k \in Nat \ {0})
  BY <1>0
<1> HIDE DEF x, k
<1>3. \E y \in {"count", "idle"} : Behind(y)
  <2>1. CASE k > 0 /\ th' = [th EXCEPT !.at = x, !.load = k]
    <3>1. th' \in ThState /\ th'.at = x /\ th'.load = k
      BY <1>0, <1>2, <2>1, ThLoads
    <3>2. Behind(x)
      BY <1>1, <1>2, <2>1, <3>1 DEF Behind
    <3> QED
      BY <1>2, <3>2
  <2>2. CASE th' = ThIdle
    <3>1. Behind("idle")
      BY <1>1, <2>2, ThIdleIs DEF Behind
    <3> QED
      BY <3>1
  <2> QED
    BY <1>1, <2>1, <2>2
<1>4. PICK y \in {"count", "idle"} : Behind(y)
  BY <1>3
<1>5. RxReenabled'
  BY <1>0, <1>1 DEF RxInv, OutOff, RxReenabled
<1>6. y # "room"
  OBVIOUS
<1> QED
  BY <1>0, <1>1, <1>4, <1>5, <1>6, BehindKeeps

\* from what the reader has seen of the count
LEMMA GetcCountKeeps ==
    ASSUME IInv, GetcCount
    PROVE  IInv'
<1>0. /\ Types /\ RxInv /\ flags \in Flags /\ nl_in_rx \in Nat /\ nl_in_rx <= Taken
      /\ intEn \in SUBSET Ends /\ intSt \in SUBSET Ends /\ slow \in BOOLEAN /\ Taken \in Nat
  BY BehindFacts
<1>1. /\ th.at = "count" /\ isr.at = "idle" /\ me.at = "idle" /\ th' = ThIdle
      /\ nl_in_rx' = th.load - 1
      /\ UNCHANGED <<tx, rx, flags, intSt, intEn, slow, irqOn, can_transfer, fifo,
                     usb, host, accepted, arrived, got, reentered, torn, dropped>>
  BY DEF GetcCount, ThAt, regVars, seenVars, me, isr
<1>2. nl_in_rx' \in Nat /\ nl_in_rx' <= Taken
  <2>1. th.load \in Nat \ {0} /\ th.load <= Taken
    BY <1>0, <1>1 DEF RxInv, Lines
  <2> QED
    BY <1>0, <1>1, <2>1
<1>3. Behind("idle")
  BY <1>1, ThIdleIs DEF Behind
<1>4. RxReenabled'
  BY <1>0, <1>1 DEF RxInv, OutOff, RxReenabled
<1> QED
  BY <1>0, <1>1, <1>2, <1>3, <1>4, BehindKeeps

---------------------------------------------------------------------------
(* The invariant holds *)

\* A buffer of the initial state
LEMMA CircIs ==
    ASSUME NEW n \in Nat, n > 1, NEW Byte, NEW b \in Byte, NEW c, c = Circ(n, b)
    PROVE  /\ c \in Buffer(n, Byte) /\ c.read # n /\ isEmpty(c) /\ available(c) = 0
<1> DEFINE z == 0  buf == [i \in 0 .. n |-> b]
<1>1. c = [write |-> z, read |-> z, size |-> n, buf |-> buf]
  BY DEF Circ
<1>2. z \in 0 .. n - 1 /\ z \in 0 .. n /\ z # n /\ z - z = 0 /\ z >= z
  OBVIOUS
<1>3. buf \in [0 .. n -> Byte]
  OBVIOUS
<1> HIDE DEF z, buf
<1>4. c \in Buffer(n, Byte) /\ c.write = z /\ c.read = z
  BY ONLY <1>1, <1>2, <1>3, n \in Nat, n > 1, BufferOf
<1> QED
  BY <1>2, <1>4 DEF isEmpty, available

\* The controller holds nothing at first
LEMMA InitFifo ==
    ASSUME Init
    PROVE  /\ fifo \in [out : Seq(Seq(RxByte)), in : Seq(Seq(Nat))]
           /\ fifo.out = << >> /\ fifo.in = << >> /\ Len(fifo.out) <= 2 /\ Len(fifo.in) <= 2
<1> DEFINE nil == << >>  A == Seq(Seq(RxByte))  B == Seq(Seq(Nat))
<1>1. nil \in A /\ nil \in B /\ Len(nil) <= 2 /\ nil = << >>
  BY EmptySeq
<1>2. fifo = [out |-> nil, in |-> nil]
  BY DEF Init
<1> HIDE DEF nil, A, B
<1>3. fifo \in [out : A, in : B] /\ fifo.out = nil /\ fifo.in = nil
  BY <1>1, <1>2
<1> QED
  BY <1>1, <1>3 DEF A, B

\* The types and places at first
LEMMA InitTypes ==
    ASSUME Init
    PROVE  /\ Types
           /\ me = UsbIdle /\ isr = UsbIdle /\ th.at = "idle"
           /\ isEmpty(tx) /\ available(tx) = 0 /\ available(rx) = 0
           /\ tx.read # TxSize /\ rx.read # RxSize
           /\ can_transfer.in = 2
<1>1. 0 \in 0 .. MaxTx /\ 0 \in 0 .. MaxRx /\ 0 \in Nat /\ 2 \in 0 .. 2 /\ 0 \in 0 .. 2
  BY Sizes
<1>2. NoByte \in RxByte
  <2> DEFINE z == 0  k == "char"
  <2>1. z \in 0 .. MaxRx /\ k \in Kinds
    BY Sizes DEF Kinds
  <2>2. NoByte = [id |-> z, kind |-> k]
    BY DEF NoByte
  <2> HIDE DEF z, k
  <2> QED
    BY <2>1, <2>2 DEF RxByte
<1>3. /\ tx \in Buffer(TxSize, 0 .. MaxTx) /\ tx.read # TxSize /\ isEmpty(tx)
      /\ available(tx) = 0
  <2> DEFINE z == 0  c == tx
  <2>1. c = Circ(TxSize, z) /\ z \in 0 .. MaxTx
    BY <1>1 DEF Init
  <2> HIDE DEF z, c
  <2>2. /\ c \in Buffer(TxSize, 0 .. MaxTx) /\ c.read # TxSize /\ isEmpty(c)
        /\ available(c) = 0
    BY <2>1, Sizes, CircIs
  <2> QED
    BY <2>2 DEF c
<1>4. rx \in Buffer(RxSize, RxByte) /\ rx.read # RxSize /\ available(rx) = 0
  <2> DEFINE c == rx
  <2>1. c = Circ(RxSize, NoByte)
    BY DEF Init
  <2> HIDE DEF c
  <2>2. c \in Buffer(RxSize, RxByte) /\ c.read # RxSize /\ available(c) = 0
    BY <1>2, <2>1, Sizes, CircIs
  <2> QED
    BY <2>2 DEF c
<1>5. flags \in Flags
  <2> DEFINE no == FALSE
  <2>1. no \in BOOLEAN /\ flags = [attached |-> no, flush_to_nl |-> no]
    BY DEF Init
  <2> HIDE DEF no
  <2> QED
    BY <2>1 DEF Flags
<1>6. can_transfer \in [out : 0 .. 2, in : 0 .. 2] /\ can_transfer.in = 2
  <2> DEFINE z == 0  two == 2
  <2>1. can_transfer = [out |-> z, in |-> two] /\ z \in 0 .. 2 /\ two \in 0 .. 2 /\ two = 2
    BY <1>1 DEF Init
  <2> HIDE DEF z, two
  <2> QED
    BY <2>1
<1>7. usb \in [Ctx -> Context] /\ me = UsbIdle /\ isr = UsbIdle
  BY FreshIs DEF Init, me, isr, Ctx
<1>8. isr.at \in IsrPlace
  BY <1>7, FreshIs DEF IsrPlace
<1>9. th \in ThState /\ th.at = "idle"
  BY ThIdleIs DEF Init
<1>10. host \in Seq(Nat)
  BY EmptySeq DEF Init
<1>11. /\ intSt \in SUBSET Ends /\ intEn \in SUBSET Ends /\ slow \in BOOLEAN
       /\ irqOn \in BOOLEAN /\ reentered \in BOOLEAN /\ torn \in BOOLEAN
       /\ dropped \in BOOLEAN
  BY DEF Init, Ends
<1>12. nl_in_rx \in Nat /\ accepted \in 0 .. MaxTx /\ arrived \in 0 .. MaxRx /\ got \in Nat
  BY <1>1 DEF Init
<1> QED
  BY <1>3, <1>4, <1>5, <1>6, <1>7, <1>8, <1>9, <1>10, <1>11, <1>12, InitFifo DEF Types

\* The invariant holds at first
LEMMA InvInit == Init => IInv
<1> SUFFICES ASSUME Init
             PROVE  IInv
  OBVIOUS
<1>1. /\ Types /\ me = UsbIdle /\ isr = UsbIdle /\ th.at = "idle"
      /\ isEmpty(tx) /\ available(tx) = 0 /\ available(rx) = 0
      /\ tx.read # TxSize /\ rx.read # RxSize
      /\ fifo.out = << >> /\ fifo.in = << >> /\ can_transfer.in > 0
  BY InitTypes, InitFifo
<1>2. UsbIdle.at = "idle" /\ UsbIdle.fe = 255 /\ UsbIdle.b = << >>
  BY FreshIs DEF Fresh
<1>3. /\ intEn = {"out"} /\ ~ dropped /\ arrived = 0 /\ nl_in_rx = 0 /\ got = 0
      /\ accepted = 0 /\ host = << >>
  BY DEF Init
<1>4. Control
  <2>1. \A c \in Ctx : usb[c].at = "idle"
    BY <1>1, <1>2 DEF me, isr, Ctx
  <2> QED
    BY <1>1, <1>2, <2>1 DEF Control
<1>5. WriterHasRoom /\ RoomInController /\ Credit /\ NotStranded
  BY <1>1, <1>2, <1>3 DEF WriterHasRoom, RoomInController, Credit, NotStranded
<1>6. InHand
  BY <1>1, <1>2 DEF InHand
<1>7. TxExact
  <2> DEFINE nil == << >>  C == Contents(tx)
  <2>1. C \in Seq(Nat) /\ Len(C) = 0
    BY <1>1, TxContents, Facts
  <2>2. C = nil
    BY <2>1, EmptySeq
  <2>3. FlattenSeq(nil) = nil
    BY Flattened
  <2>4. nil \o nil = nil
    BY EmptyConcat, EmptySeq
  <2>5. [i \in 1 .. 0 |-> i] = nil
    OBVIOUS
  <2>6. host = nil /\ me.b = nil /\ fifo.in = nil
    BY <1>1, <1>2, <1>3
  <2> HIDE DEF nil, C
  <2>7. Stream(host, fifo.in, me.b, tx) = nil
    BY <2>2, <2>3, <2>4, <2>6 DEF Stream, C
  <2> QED
    BY <1>3, <2>5, <2>7, ExactIs
<1>8. Taken = 0 /\ Pending(fifo.out) = 0
  BY <1>1, <1>3 DEF Taken, Pending
<1>9. Arriving
  <2>1. fifo.out = << >> => Len(fifo.out) # 2
    BY EmptySeq
  <2> QED
    BY <1>1, <1>2, <1>3, <1>8, <2>1 DEF Arriving
<1>10. Lines /\ ReadIndex
  BY <1>1, <1>3, <1>8 DEF Lines, ReadIndex
<1>11. Order
  BY <1>1, <1>3, <1>8 DEF Order, LastOut, Ascending
<1>12. OutOff
  BY <1>1, <1>2, <1>3 DEF OutOff, RxReenabled
<1> QED
  BY <1>1, <1>4, <1>5, <1>6, <1>7, <1>9, <1>10, <1>11, <1>12 DEF IInv, TxInv, RxInv

\* usbisr and the handlers it calls keep it,
LEMMA HandlersKeep ==
    ASSUME IInv, (\E c \in Ctx : Usbisr(c)) \/ Handlers
    PROVE  IInv'
<1>1. CASE \E c \in Ctx : Usbisr(c)
  BY <1>1, Ep0Keeps, AcknowledgeKeeps, NotCalledKeeps, EndKeeps DEF Usbisr
<1>2. CASE Handlers
  <2>1. CASE IsrEPOut \/ IsrEPIn \/ Count
    BY <2>1, IsrEPOutKeeps, IsrEPInKeeps, CountKeeps
  <2>2. CASE ThEPOut \/ ThEPOutRead \/ ThEPOutCopy
    BY <2>2, ThEPOutKeeps, ThEPOutReadKeeps, ThEPOutCopyKeeps
  <2>3. CASE ThEPIn \/ ThDequeue \/ ThDequeueStep \/ ThDequeueWrap
    BY <2>3, ThEPInKeeps, ThDequeueKeeps, ThDequeueStepKeeps, ThDequeueWrapKeeps
  <2>4. CASE ThSend \/ ThSendWait \/ ThSent
    BY <2>4, ThSendKeeps, ThSendWaitKeeps, ThSentKeeps
  <2>5. CASE ThDisable \/ ThDisabled
    BY <2>5, ThDisableKeeps, ThDisabledKeeps
  <2> QED
    BY <1>2, <2>1, <2>2, <2>3, <2>4, <2>5 DEF Handlers
<1> QED
  BY <1>1, <1>2

\* the thread keeps it,
LEMMA ThreadKeeps ==
    ASSUME IInv, Thread
    PROVE  IInv'
<1>1. CASE WriteBlock \/ Putc \/ EnsureTxSpace \/ CallUsbisr \/ QueueByte \/ Queued
  BY <1>1, WriteBlockKeeps, PutcKeeps, EnsureTxSpaceKeeps, CallUsbisrKeeps,
     QueueByteKeeps, QueuedKeeps
<1>2. CASE Flush \/ FlushReturn \/ Getc \/ GetcWait
  BY <1>2, WaitingKeeps
<1>3. CASE GetcDequeue \/ GetcStep \/ GetcCopy \/ GetcMod \/ GetcWrap
  BY <1>3, GetcDequeueKeeps, GetcStepKeeps, GetcCopyKeeps, GetcModKeeps, GetcWrapKeeps
<1>4. CASE GetcRoom \/ GetcLong \/ GetcSkip \/ GetcEnable \/ GetcLine \/ GetcCount
  BY <1>4, GetcRoomKeeps, GetcLongKeeps, GetcSkipKeeps, GetcEnableKeeps, GetcLineKeeps,
     GetcCountKeeps
<1> QED
  BY <1>1, <1>2, <1>3, <1>4 DEF Thread

\* a step that changes nothing does,
LEMMA StutterKeeps ==
    ASSUME IInv, UNCHANGED vars
    PROVE  IInv'
<1>0. Types /\ Control /\ TxInv /\ RxInv
  BY DEF IInv
<1>1. /\ UNCHANGED <<tx, rx, nl_in_rx, flags, intSt, intEn, slow, irqOn, can_transfer,
                     fifo, usb, th, host, accepted, arrived, got, reentered, torn, dropped>>
      /\ me' = me /\ isr' = isr
  BY DEF vars, bufVars, regVars, seenVars, me, isr
<1>2. reentered \in BOOLEAN
  BY <1>0 DEF Types
<1>3. Types' /\ Control'
  BY <1>0, <1>1 DEF Types, Control
<1>4. TxInv'
  BY <1>0, <1>1, <1>2, TxKept DEF TxFrame
<1>5. RxInv'
  BY <1>0, <1>1, <1>2, RxKept DEF RxFrame
<1> QED
  BY <1>3, <1>4, <1>5, Parts

\* and so does every step
LEMMA InvNext == IInv /\ [Next]_vars => IInv'
<1> SUFFICES ASSUME IInv, [Next]_vars
             PROVE  IInv'
  OBVIOUS
<1>1. CASE HostTake \/ HostSend \/ HostLine \/ IsrEnter
  BY <1>1, HostTakeKeeps, HostSendKeeps, HostLineKeeps, IsrEnterKeeps
<1>2. CASE (\E c \in Ctx : Usbisr(c)) \/ Handlers
  BY <1>2, HandlersKeep
<1>3. CASE Thread
  BY <1>3, ThreadKeeps
<1>4. CASE UNCHANGED vars
  BY <1>4, StutterKeeps
<1> QED
  BY <1>1, <1>2, <1>3, <1>4 DEF Next

\* Only _getc hands out a byte
LEMMA OnlyGetcCopyReads ==
    ASSUME [Next]_vars, ~ GetcCopy
    PROVE  got' = got
<1>1. CASE HostTake \/ HostSend \/ HostLine \/ IsrEnter
  BY <1>1 DEF HostTake, HostSend, HostLine, IsrEnter, seenVars
<1>2. CASE \E c \in Ctx : Usbisr(c)
  BY <1>2 DEF Usbisr, Ep0, Acknowledge, NotCalled, End, seenVars
<1>3. CASE Handlers
  BY <1>3 DEF Handlers, IsrEPOut, IsrEPIn, Count, ThEPOut, ThEPOutRead, ThEPOutCopy, ThEPIn,
              ThDequeue, ThDequeueStep, ThDequeueWrap, ThSend, ThSendWait, ThSent,
              ThDisable, ThDisabled, seenVars
<1>4. CASE Thread
  BY <1>4 DEF Thread, WriteBlock, Putc, EnsureTxSpace, CallUsbisr, QueueByte, Queued,
              Flush, FlushReturn, Getc, GetcWait, GetcDequeue, GetcStep, GetcMod, GetcWrap,
              GetcRoom, GetcLong, GetcSkip, GetcEnable, GetcLine, GetcCount, seenVars
<1>5. CASE UNCHANGED vars
  BY <1>5 DEF vars, seenVars
<1> QED
  BY <1>1, <1>2, <1>3, <1>4, <1>5 DEF Next

\* An IN event has raised EP_SLOW, and the USB interrupt is enabled, but for
\* what usbisr has lost
Raised ==
    /\ "in" \in intSt => slow \/ "event" \in lost
    /\ irqOn \/ "irq" \in lost

LEMMA RaisedInit == Init => Raised
BY DEF Init, Raised

LEMMA RaisedNext ==
    ASSUME Raised, [Next]_vars
    PROVE  Raised'
<1>1. CASE HostTake \/ HostSend \/ HostLine \/ IsrEnter
  BY <1>1 DEF Raised, HostTake, HostSend, HostLine, IsrEnter, regVars, seenVars
<1>2. CASE \E c \in Ctx : Usbisr(c)
  <2>1. PICK c \in Ctx : Usbisr(c)
    BY <1>2
  <2>2. CASE Ep0(c)
    BY <2>2 DEF Raised, Ep0, At, Runs, Ctx
  <2>3. CASE End(c)
    BY <2>3 DEF Raised, End
  <2>4. CASE Acknowledge(c) \/ NotCalled(c)
    BY <2>4 DEF Raised, Acknowledge, NotCalled, regVars, seenVars
  <2> QED
    BY <2>1, <2>2, <2>3, <2>4 DEF Usbisr
<1>3. CASE Handlers
  <2>1. CASE IsrEPOut \/ ThEPOutCopy
    BY <2>1 DEF Raised, IsrEPOut, ThEPOutCopy, TakePacket
  <2>2. CASE ThEPOutRead
    BY <2>2 DEF Raised, ThEPOutRead
  <2>3. CASE ~ (IsrEPOut \/ ThEPOutCopy \/ ThEPOutRead)
    BY <1>3, <2>3 DEF Raised, Handlers, IsrEPIn, Count, ThEPOut, ThEPIn, ThDequeue,
                      ThDequeueStep, ThDequeueWrap, ThSend, ThSendWait, ThSent, ThDisable,
                      ThDisabled, regVars, seenVars
  <2> QED
    BY <2>1, <2>2, <2>3
<1>4. CASE Thread
  <2>1. CASE EnsureTxSpace \/ Queued \/ GetcEnable
    BY <2>1 DEF Raised, EnsureTxSpace, Queued, GetcEnable, SetInterrupt, seenVars
  <2>2. CASE ~ (EnsureTxSpace \/ Queued \/ GetcEnable)
    BY <1>4, <2>2 DEF Raised, Thread, WriteBlock, Putc, CallUsbisr, QueueByte, Flush,
                      FlushReturn, Getc, GetcWait, GetcDequeue, GetcStep, GetcCopy, GetcMod,
                      GetcWrap, GetcRoom, GetcLong, GetcSkip, GetcLine, GetcCount, regVars,
                      seenVars
  <2> QED
    BY <2>1, <2>2
<1>5. CASE UNCHANGED vars
  BY <1>5 DEF Raised, vars, regVars, seenVars
<1> QED
  BY <1>1, <1>2, <1>3, <1>4, <1>5 DEF Next

(* The inductive invariant: where usbisr and the thread are, what each has *)
(* taken for sure, the bytes to the host, and the bytes from the host.     *)
THEOREM Invariant == Spec => []IInv
BY InvInit, InvNext, PTL DEF Spec

(* Every variable keeps its type, nl_in_rx counts no more lines than bytes *)
(* have come, and usbisr never takes more from txbuf than a packet holds   *)
(* (USBSerial.cpp:153-159).                                                *)
THEOREM TypeCorrect == Spec => []TypeOK
<1>1. ASSUME IInv
      PROVE  TypeOK
  <2>0. Types /\ TxInv /\ RxInv
    BY <1>1 DEF IInv
  <2>1. CircOk(tx, TxSize, 0 .. MaxTx)
    BY <2>0 DEF Types, Buffer, CircOk
  <2>2. CircOk(rx, RxSize, RxByte)
    BY <2>0 DEF Types, Buffer, CircOk
  <2>3. nl_in_rx \in 0 .. MaxRx
    <3>1. Pending(fifo.out) \in Nat /\ arrived \in 0 .. MaxRx /\ nl_in_rx \in Nat
          /\ nl_in_rx <= Taken
      <4>1. arrived \in 0 .. MaxRx
        BY <2>0 DEF Types
      <4>2. Taken \in Nat /\ nl_in_rx \in Nat /\ nl_in_rx <= Taken
        BY <1>1, <2>0, TakenIs, Facts DEF RxInv, Lines
      <4>3. Pending(fifo.out) \in Nat
        <5>1. CASE fifo.out = << >>
          BY <5>1 DEF Pending
        <5>2. CASE fifo.out # << >>
          <6> DEFINE f == fifo.out  P == Pending(f)
          <6>1. f \in Seq(Seq(RxByte)) /\ Len(f) <= 2 /\ f # << >>
            BY <2>0, <5>2, Facts
          <6> HIDE DEF f
          <6>2. \E h \in Nat, Q \in Nat : P = Q + h
            BY <6>1, PendingTail
          <6> HIDE DEF P
          <6>3. P \in Nat
            BY ONLY <6>2
          <6> QED
            BY <6>3 DEF P, f
        <5> QED
          BY <5>1, <5>2
      <4> QED
        BY <4>1, <4>2, <4>3
    <3> QED
      BY <3>1, Sizes DEF Taken
  <2>4. can_transfer \in [Ends -> 0 .. 2]
    BY <2>0, Facts DEF Ends
  <2>5. \A e \in Ends : Len(fifo[e]) <= 2
    BY <2>0, Facts DEF Ends
  <2>6. Len(usb["thread"].b) < Packet
    <3> DEFINE l == Len(me.b)
    <3>1. me.b \in Seq(Nat) /\ me.n \in Nat
      BY <2>0, Facts, ContextIs
    <3>2. l \in Nat /\ Packet \in Nat /\ Packet > 1 /\ (me.b = << >> => l = 0)
      BY <3>1, Sizes, EmptySeq, LenProperties
    <3> HIDE DEF l
    <3>3. me.b # << >> => \/ l + me.n < Packet
                          \/ me.n > 0 /\ l + me.n <= Packet
      BY <2>0 DEF TxInv, InHand, l
    <3>4. l < Packet
      BY ONLY <3>1, <3>2, <3>3
    <3> QED
      BY <3>4 DEF l, me
  <2> QED
    BY <2>0, <2>1, <2>2, <2>3, <2>4, <2>5, <2>6 DEF Types, TypeOK, Flags
<1> QED
  BY <1>1, Invariant, PTL

(* The host gets all bytes queued, once and in order, while no interrupt   *)
(* has come in the thread's own usbisr (USBSerial.cpp:153-163).            *)
THEOREM AllBytesInOrder == Spec => []TxExact
<1>1. IInv => TxExact
  BY DEF IInv, TxInv
<1> QED
  BY <1>1, Invariant, PTL

(* Bytes left in txbuf have a handler that is wanted, an interrupt that is *)
(* enabled and an event that has raised it or comes with the next packet   *)
(* the host takes, until usbisr loses one of them (USBSerial.cpp:73, 130,  *)
(* 164; USBHAL_LPC17.cpp:352, 424, 977).                                   *)
THEOREM NothingStranded == Spec => []TxNotStranded
<1>1. IInv /\ Raised => TxNotStranded
  BY DEF IInv, TxInv, NotStranded, Raised, TxNotStranded, isr
<1>2. Spec => []Raised
  BY RaisedInit, RaisedNext, PTL DEF Spec
<1> QED
  BY <1>1, <1>2, Invariant, PTL

(* The OUT handler is off only for want of room, until a dequeue is torn   *)
(* (USBSerial.cpp:84-94, 256-268).                                         *)
THEOREM ReceptionGoesOn == Spec => []RxReenabled
<1>1. IInv => RxReenabled
  BY DEF IInv, RxInv, OutOff
<1> QED
  BY <1>1, Invariant, PTL

(* queue() finds room, until the handler interrupts the thread's own       *)
(* usbisr (CircBuffer.h:60-63; USBSerial.cpp:70, 123, 185).                *)
THEOREM NothingPushedOut == Spec => []NeverDropsOldest
<1>1. IInv => NeverDropsOldest
  BY DEF IInv, TxInv, WriterHasRoom, NeverDropsOldest
<1> QED
  BY <1>1, Invariant, PTL

(* The reader gets the bytes in the order they came, each at most once,    *)
(* until a dequeue is torn (CircBuffer.h:70-75, 91-98, 105).               *)
THEOREM ReadsInOrder == Spec => RxInOrder
<1>1. ASSUME IInv, [Next]_vars
      PROVE  [got' # got => torn \/ got' > got]_vars
  <2>1. CASE GetcCopy
    BY <1>1, <2>1, GetcCopyKeeps, Facts DEF IInv
  <2>2. CASE ~ GetcCopy
    BY <1>1, <2>2, OnlyGetcCopyReads
  <2> QED
    BY <2>1, <2>2
<1> QED
  BY <1>1, Invariant, PTL DEF Spec, RxInOrder
=============================================================================
