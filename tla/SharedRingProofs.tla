-------------------------- MODULE SharedRingProofs --------------------------
(***************************************************************************)
(* The ring buffer between two parties that take no lock, proved for any   *)
(* size that divides the range of the counters and for any batch.          *)
(*                                                                         *)
(* Item k + 1 of all that is ever published goes to slot k modulo Size, and*)
(* what is in the ring are the positions from Taken to Published.  The     *)
(* producer copies behind them and the consumer copies the first of them,  *)
(* and all of this lies in one window of Size positions, in which no two   *)
(* share a slot.                                                           *)
(***************************************************************************)
EXTENDS SharedRing, TLAPS

---------------------------------------------------------------------------
(* Positions and slots: the modulo operator *)

(* Quotient and remainder.                                                 *)
LEMMA Modulo ==
    ASSUME NEW n \in Nat \ {0}, NEW a \in Nat
    PROVE  /\ a % n \in 0 .. n - 1
           /\ \E q \in Nat : a = n * q + (a % n)
<1>1. a \div n \in Nat /\ a = n * (a \div n) + (a % n) /\ a % n \in 0 .. n - 1
  OBVIOUS
<1> QED
  BY <1>1

(* Quotient and remainder are unique.                                      *)
LEMMA Remainder ==
    ASSUME NEW n \in Nat \ {0}, NEW q \in Int, NEW r \in 0 .. n - 1,
           NEW a \in Int, a = n * q + r
    PROVE  a % n = r
OBVIOUS

(* Only 0 is a multiple between -n and n.                                  *)
LEMMA NoMultiple ==
    ASSUME NEW n \in Nat \ {0}, NEW q \in Int, n * q < n, - n < n * q
    PROVE  q = 0
OBVIOUS

(* A common factor taken out.                                              *)
LEMMA Factor ==
    ASSUME NEW n \in Int, NEW p \in Int, NEW q \in Int
    PROVE  n * q - n * p = n * (q - p) /\ n * q + n * p = n * (q + p)
OBVIOUS

(* Two positions in a window of n have different remainders.               *)
LEMMA WindowDistinct ==
    ASSUME NEW n \in Nat \ {0}, NEW a \in Nat, NEW b \in Nat, a < b, b < a + n
    PROVE  a % n # b % n
<1> SUFFICES ASSUME a % n = b % n
             PROVE  FALSE
  OBVIOUS
<1>1. PICK p \in Nat : a = n * p + (a % n)
  BY Modulo
<1>2. PICK q \in Nat : b = n * q + (b % n)
  BY Modulo
<1> DEFINE r == a % n  x == n * p  y == n * q
<1>3. a = x + r /\ b = y + r /\ r \in Nat /\ x \in Int /\ y \in Int
  BY <1>1, <1>2, Modulo
<1>4. y - x = n * (q - p)
  BY Factor
<1> HIDE DEF r, x, y
<1>5. 0 < y - x /\ y - x < n
  BY ONLY <1>3, a \in Nat, b \in Nat, n \in Nat, a < b, b < a + n
<1>6. q - p = 0
  BY <1>4, <1>5, NoMultiple
<1> QED
  BY <1>4, <1>5, <1>6

(* A remainder may be taken early.                                         *)
LEMMA ModuloSum ==
    ASSUME NEW n \in Nat \ {0}, NEW a \in Nat, NEW b \in Nat
    PROVE  (a % n) + b \in Nat /\ ((a % n) + b) % n = (a + b) % n
<1> DEFINE t == a % n  s == t + b  r == s % n
<1>1. PICK p \in Nat : a = n * p + t
  BY Modulo
<1>2. t \in Nat
  BY Modulo
<1>3. s \in Nat /\ s = t + b
  BY <1>2
<1> HIDE DEF t, s
<1>4. PICK q \in Nat : s = n * q + r
  BY <1>3, Modulo
<1>5. r \in 0 .. n - 1
  BY <1>3, Modulo
<1> HIDE DEF r
<1> DEFINE x == n * p  y == n * q
<1>6. x \in Int /\ y \in Int /\ y + x = n * (q + p) /\ a = x + t /\ s = y + r
  BY <1>1, <1>4, Factor
<1> HIDE DEF x, y
<1>7. a + b = n * (q + p) + r
  <2>1. a + b = (y + x) + r
    BY ONLY <1>2, <1>3, <1>5, <1>6, b \in Nat
  <2> QED
    BY <1>6, <2>1
<1>8. (a + b) % n = r
  <2>1. q + p \in Int /\ a + b \in Int
    OBVIOUS
  <2> QED
    BY <1>5, <1>7, <2>1, Remainder
<1> QED
  BY <1>3, <1>8 DEF s, r, t

(* A remainder leaves a small number as it is.                             *)
LEMMA SmallModulo ==
    ASSUME NEW n \in Nat \ {0}, NEW a \in 0 .. n - 1
    PROVE  a % n = a
OBVIOUS

(* A segment that does not pass the end of the array has its slots in a    *)
(* row, and one that ends there is followed by slot 0.                     *)
LEMMA SegmentSlots ==
    ASSUME NEW n \in Nat \ {0}, NEW a \in Nat, NEW b \in Nat
    PROVE  /\ (a % n) + b < n => (a + b) % n = (a % n) + b
           /\ (a % n) + b = n => (a + b) % n = 0
<1>1. (a % n) + b \in Nat /\ ((a % n) + b) % n = (a + b) % n
  BY ModuloSum
<1>2. (a % n) + b < n => ((a % n) + b) % n = (a % n) + b
  BY <1>1, SmallModulo
<1>3. n % n = 0
  OBVIOUS
<1> QED
  BY <1>1, <1>2, <1>3

(* The difference of two counters that wrap is that of the positions.      *)
LEMMA WrappedDifference ==
    ASSUME NEW n \in Nat \ {0}, NEW a \in Nat, NEW b \in Nat, b <= a, a - b < n
    PROVE  ((a % n) - (b % n)) % n = a - b
<1>1. PICK p \in Nat : a = n * p + (a % n)
  BY Modulo
<1>2. PICK q \in Nat : b = n * q + (b % n)
  BY Modulo
<1>3. a % n \in Nat /\ b % n \in Nat
  BY Modulo
<1>4. n * q - n * p = n * (q - p)
  BY Factor
<1>5. n * p \in Int /\ n * q \in Int
  OBVIOUS
<1> DEFINE r == a % n  s == b % n  x == n * p  y == n * q
<1>6. r - s = n * (q - p) + (a - b)
  <2>1. a = x + r /\ b = y + s /\ r \in Nat /\ s \in Nat /\ x \in Int /\ y \in Int
    BY <1>1, <1>2, <1>3, <1>5
  <2> HIDE DEF r, s, x, y
  <2>2. r - s = (y - x) + (a - b)
    BY ONLY <2>1
  <2> QED
    BY <1>4, <2>2 DEF x, y
<1>7. q - p \in Int /\ a - b \in 0 .. n - 1
  OBVIOUS
<1> QED
  BY <1>6, <1>7, Remainder

(* The slot of a counter that wraps is that of the position.               *)
LEMMA WrappedSlot ==
    ASSUME NEW n \in Nat \ {0}, NEW m \in Nat \ {0}, m % n = 0, NEW a \in Nat
    PROVE  (a % m) % n = a % n
<1>1. PICK k \in Nat : m = n * k
  <2>1. PICK k \in Nat : m = n * k + (m % n)
    BY Modulo
  <2>2. n * k \in Int
    OBVIOUS
  <2> QED
    BY <2>1, <2>2
<1> DEFINE t == a % m  r == t % n
<1>2. PICK q \in Nat : a = m * q + t
  BY Modulo
<1>3. t \in Nat
  BY Modulo
<1> HIDE DEF t
<1>4. PICK p \in Nat : t = n * p + r
  BY <1>3, Modulo
<1>5. r \in 0 .. n - 1
  BY <1>3, Modulo
<1> HIDE DEF r
<1>6. m * q = n * (k * q) /\ k * q \in Nat
  BY <1>1
<1> DEFINE j == k * q  x == n * j  y == n * p
<1>7. j \in Nat /\ x + y = n * (j + p) /\ a = x + t /\ t = y + r /\ x \in Int /\ y \in Int
  BY <1>2, <1>4, <1>6, Factor
<1> HIDE DEF j, x, y
<1>8. a = n * (j + p) + r
  <2>1. a = (x + y) + r
    BY ONLY <1>3, <1>5, <1>7
  <2> QED
    BY <1>7, <2>1
<1>9. a % n = r
  <2> DEFINE i == j + p
  <2>1. i \in Int /\ a \in Int /\ a = n * i + r
    BY <1>7, <1>8
  <2> HIDE DEF i
  <2> QED
    BY <1>5, <2>1, Remainder
<1> QED
  BY <1>9 DEF r, t

(* The slots of a segment that does not pass the end of the array.         *)
LEMMA RowOfSlots ==
    ASSUME NEW n \in Nat \ {0}, NEW a \in Nat, NEW c \in Nat, (a % n) + c <= n
    PROVE  /\ \A k \in a .. a + c - 1 : k % n = (a % n) + (k - a)
           /\ (a % n) + c = n => (a + c) % n = 0
<1>1. a % n \in Nat
  BY Modulo
<1>2. ASSUME NEW k \in a .. a + c - 1
      PROVE  k % n = (a % n) + (k - a)
  <2> DEFINE j == k - a
  <2>1. j \in Nat /\ a + j = k /\ (a % n) + j < n
    BY <1>1
  <2> HIDE DEF j
  <2>2. (a + j) % n = (a % n) + j
    BY <1>1, <2>1, SegmentSlots
  <2> QED
    BY <2>1, <2>2 DEF j
<1> QED
  BY <1>1, <1>2, SegmentSlots

(* The two segments of a call: they fit into the room and into the array.  *)
LEMMA SegmentsFit ==
    ASSUME NEW size \in Nat \ {0},
           NEW index \in 0 .. size - 1, NEW room \in 1 .. size, NEW num \in Nat
    PROVE  \E a, b \in 0 .. size :
              /\ Segments(index, room, num, size) = <<a, b>>
              /\ a + b <= room /\ a + b <= num
              /\ index + a <= size
              /\ b > 0 => index + a = size
<1> DEFINE first == IF index + room >= size THEN size - index ELSE room
           a == IF first < num THEN first ELSE num
           b == IF room - first < num - a THEN room - first ELSE num - a
<1>1. /\ first \in Nat /\ first <= room /\ index + first <= size
      /\ first < room => index + first = size
  OBVIOUS
<1> HIDE DEF first
<1>2. a \in Nat /\ a <= first /\ a <= num /\ (a < num => a = first)
  BY <1>1
<1> HIDE DEF a
<1>3. /\ b \in Nat /\ a + b <= room /\ a + b <= num
      /\ b > 0 => a < num /\ first < room
  BY <1>1, <1>2
<1> HIDE DEF b
<1>4. a \in 0 .. size /\ b \in 0 .. size
  BY <1>1, <1>2, <1>3
<1>5. index + a <= size /\ (b > 0 => index + a = size)
  BY <1>1, <1>2, <1>3
<1>6. Segments(index, room, num, size) = <<a, b>>
  BY DEF Segments, Least, a, b, first
<1> QED
  BY <1>3, <1>4, <1>5, <1>6

---------------------------------------------------------------------------
(* The inductive invariant *)

Published == prod.next - 1
Taken     == Len(delivered)

\* The segment in hand, and the one that follows it in the same call
SegmentOf(c, first) ==
    IF Idle(c) THEN 0 ELSE IF c.pc \in first THEN c.seg[1] ELSE c.seg[2]
LaterOf(c, first) == IF c.pc \in first THEN c.seg[2] ELSE 0

Copying == SegmentOf(prod, {"store1", "bump1"})
ToCopy  == LaterOf(prod, {"store1", "bump1"})
Popping == SegmentOf(cons, {"copy1", "bump1"})
ToPop   == LaterOf(cons, {"copy1", "bump1"})

\* The counters are those of the code, which wrap
Counters ==
    /\ Taken <= Published /\ Published <= Taken + Size
    /\ ring.head = Published % CounterMod
    /\ ring.tail = Taken % CounterMod

\* A segment ends with the array, and the next one begins where it begins
ProducerHasRoom ==
    /\ Published + Copying + ToCopy <= Taken + Size
    /\ Published + Copying + ToCopy <= MaxItems
    /\ (Published % Size) + Copying <= Size
    /\ ToCopy > 0 => (Published % Size) + Copying = Size

ConsumerHasItems ==
    /\ Taken + Popping + ToPop <= Published
    /\ (Taken % Size) + Popping <= Size
    /\ ToPop > 0 => (Taken % Size) + Popping = Size

\* What the slots hold: the published items, and the segment once copied
SlotsHold ==
    \A k \in Taken .. Published - 1 : ring.data[k % Size] = k + 1

SegmentCopied ==
    prod.pc \in {"bump1", "bump2"} =>
        \A k \in Published .. Published + Copying - 1 : ring.data[k % Size] = k + 1

\* What the consumer has
DeliveredInOrder == delivered = [i \in 1 .. Taken |-> i]

SegmentPopped ==
    cons.pc \in {"bump1", "bump2"} => cons.out = [i \in 1 .. Popping |-> Taken + i]

PeekedNext == peeked # 0 => peeked = Taken + 1

IInv ==
    /\ TypeOK
    /\ Counters
    /\ ProducerHasRoom /\ ConsumerHasItems
    /\ SlotsHold /\ SegmentCopied
    /\ DeliveredInOrder /\ SegmentPopped /\ PeekedNext

---------------------------------------------------------------------------
(* The state in terms of positions *)

(* The positions are natural numbers, the segments have lengths.           *)
LEMMA PositionTypes ==
    ASSUME TypeOK
    PROVE  /\ Published \in 0 .. MaxItems /\ Taken \in Nat
           /\ prod.seg[1] \in Length /\ prod.seg[2] \in Length
           /\ cons.seg[1] \in Length /\ cons.seg[2] \in Length
<1>1. prod.next \in 1 .. MaxItems + 1 /\ delivered \in Seq(Item)
  BY DEF TypeOK
<1>2. prod.seg \in Length \X Length /\ cons.seg \in Length \X Length
  BY DEF TypeOK
<1>3. Published \in 0 .. MaxItems
  BY <1>1, SizeAssumption DEF Published
<1>4. Taken \in Nat
  BY <1>1 DEF Taken
<1> QED
  BY <1>2, <1>3, <1>4

(* A remainder by Size is a slot.                                          *)
LEMMA SlotType ==
    /\ Size \in Nat \ {0} /\ MaxItems \in Nat
    /\ \A k \in Nat : k % Size \in 0 .. Size - 1
<1>1. Size \in Nat \ {0} /\ MaxItems \in Nat
  BY SizeAssumption
<1> QED
  BY <1>1, Modulo

(* The positions and their slots.                                          *)
LEMMA Positions ==
    ASSUME TypeOK
    PROVE  /\ Size \in Nat \ {0} /\ Published \in Nat /\ Taken \in Nat
           /\ MaxItems \in Nat /\ Published <= MaxItems
           /\ Published % Size \in 0 .. Size - 1 /\ Taken % Size \in 0 .. Size - 1
<1>1. Published \in 0 .. MaxItems /\ Taken \in Nat
  BY PositionTypes
<1>2. Size \in Nat \ {0} /\ MaxItems \in Nat
  BY SlotType
<1>3. Published \in Nat /\ Published <= MaxItems
  BY ONLY <1>1, <1>2
<1> QED
  BY <1>1, <1>2, <1>3, SlotType

(* What both sides compute from the counters.                              *)
LEMMA RingFacts ==
    ASSUME TypeOK, Counters
    PROVE  /\ ring.count = Size /\ DOMAIN ring.data = 0 .. Size - 1
           /\ RB_INDH(ring) = Published % Size
           /\ RB_INDT(ring) = Taken % Size
           /\ RingBuffer_GetCount(ring) = Published - Taken
           /\ RingBuffer_IsEmpty(ring) <=> Published = Taken
<1>0. /\ Size \in Nat \ {0} /\ CounterMod \in Nat \ {0} /\ CounterMod % Size = 0
      /\ Size < CounterMod
  BY SizeAssumption, CounterModAssumption
<1>1. /\ Published \in Nat /\ Taken \in Nat /\ Taken <= Published
      /\ Published <= Taken + Size
      /\ ring.head = Published % CounterMod /\ ring.tail = Taken % CounterMod
  BY PositionTypes DEF Counters
<1>2. ring.count = Size /\ DOMAIN ring.data = 0 .. Size - 1
  BY DEF TypeOK, Ring
<1>3. RB_INDH(ring) = Published % Size /\ RB_INDT(ring) = Taken % Size
  <2>1. Published \in Nat /\ Taken \in Nat
    BY <1>1
  <2>2. /\ (Published % CounterMod) % Size = Published % Size
        /\ (Taken % CounterMod) % Size = Taken % Size
    BY ONLY <1>0, <2>1, WrappedSlot
  <2> QED
    BY <1>1, <1>2, <2>2 DEF RB_INDH, RB_INDT
<1>4. Published - Taken < CounterMod
  BY ONLY <1>0, <1>1
<1>5. RingBuffer_GetCount(ring) = Published - Taken
  <2>1. /\ Published \in Nat /\ Taken \in Nat /\ Taken <= Published
        /\ Published - Taken < CounterMod /\ CounterMod \in Nat \ {0}
    BY <1>0, <1>1, <1>4
  <2>2. ((Published % CounterMod) - (Taken % CounterMod)) % CounterMod
           = Published - Taken
    BY ONLY <2>1, WrappedDifference
  <2> QED
    BY <1>1, <2>2 DEF RingBuffer_GetCount
<1>6. RingBuffer_IsEmpty(ring) <=> Published = Taken
  <2>1. Taken < Published => Taken % CounterMod # Published % CounterMod
    <3>1. Published \in Nat /\ Taken \in Nat /\ CounterMod \in Nat \ {0}
      BY <1>0, <1>1
    <3>2. Published < Taken + CounterMod
      BY ONLY <1>0, <1>4, <3>1
    <3> QED
      BY ONLY <3>1, <3>2, WindowDistinct
  <2> QED
    BY <1>1, <2>1 DEF RingBuffer_IsEmpty
<1> QED
  BY <1>2, <1>3, <1>5, <1>6

---------------------------------------------------------------------------
(* The producer *)

(* How much the producer copies now, and after that.                       *)
LEMMA ProducerValues ==
    ASSUME TypeOK
    PROVE  /\ Copying \in Length /\ ToCopy \in Length
           /\ prod.pc = "idle" => Copying = 0 /\ ToCopy = 0
           /\ prod.pc \in {"store1", "bump1"} =>
                 Copying = prod.seg[1] /\ ToCopy = prod.seg[2]
           /\ prod.pc \in {"store2", "bump2"} => Copying = prod.seg[2] /\ ToCopy = 0
<1>1. 0 \in Length /\ prod.seg[1] \in Length /\ prod.seg[2] \in Length
  BY PositionTypes, SizeAssumption DEF Length
<1> QED
  BY <1>1 DEF Copying, ToCopy, SegmentOf, LaterOf, Idle

(* A call of Insert or InsertMult begins with the lengths of its segments. *)
LEMMA ProducerStart ==
    ASSUME IInv, NEW a \in Length, NEW b \in Length,
           prod' = [prod EXCEPT !.pc = "store1", !.seg = <<a, b>>],
           UNCHANGED <<ring, cons, delivered, peeked>>,
           Published + a + b <= Taken + Size, Published + a + b <= MaxItems,
           (Published % Size) + a <= Size,
           b > 0 => (Published % Size) + a = Size
    PROVE  IInv'
<1> USE DEF IInv
<1>1. TypeOK'
  BY DEF TypeOK
<1>2. /\ Published' = Published /\ Taken' = Taken
      /\ Popping' = Popping /\ ToPop' = ToPop
  BY DEF TypeOK, Published, Taken, Popping, ToPop
<1>3. prod'.pc = "store1" /\ Copying' = a /\ ToCopy' = b
  BY DEF TypeOK, Copying, ToCopy, SegmentOf, LaterOf, Idle
<1>4. Counters' /\ ConsumerHasItems' /\ DeliveredInOrder' /\ SegmentPopped' /\ PeekedNext'
  BY <1>2 DEF Counters, ConsumerHasItems, DeliveredInOrder, SegmentPopped, PeekedNext
<1>5. ProducerHasRoom'
  BY <1>2, <1>3 DEF ProducerHasRoom
<1>6. SlotsHold' /\ SegmentCopied'
  BY <1>2, <1>3 DEF SlotsHold, SegmentCopied
<1> QED
  BY <1>1, <1>4, <1>5, <1>6

(* Insert and InsertMult begin.                                            *)
LEMMA ProducerCalls ==
    ASSUME IInv, Insert \/ \E num \in 1 .. MaxBatch : InsertMult(num)
    PROVE  IInv'
<1> USE DEF IInv
<1>0. /\ Size \in Nat \ {0} /\ Published \in Nat /\ Taken \in Nat /\ MaxItems \in Nat
      /\ Published % Size \in 0 .. Size - 1
  BY Positions
<1>1. Published < Taken + Size
  <2>1. ~ RingBuffer_IsFull(ring)
    BY DEF Insert, InsertMult
  <2>2. ~ (Published - Taken >= Size)
    BY <2>1, RingFacts DEF RingBuffer_IsFull
  <2> QED
    BY ONLY <1>0, <2>2
<1>2. UNCHANGED <<ring, cons, delivered, peeked>>
  BY DEF Insert, InsertMult
<1>3. CASE Insert
  <2>1. prod' = [prod EXCEPT !.pc = "store1", !.seg = <<1, 0>>] /\ prod.next <= MaxItems
    BY <1>3 DEF Insert
  <2>2. 1 \in Length /\ 0 \in Length
    BY <1>0 DEF Length
  <2>3. prod.next = Published + 1
    BY DEF TypeOK, Published
  <2>4. /\ Published + 1 + 0 <= Taken + Size /\ Published + 1 + 0 <= MaxItems
        /\ (Published % Size) + 1 <= Size /\ ~ (0 > 0)
    BY <1>0, <1>1, <2>1, <2>3
  <2> QED
    BY <1>2, <2>1, <2>2, <2>4, ProducerStart
<1>4. ASSUME NEW num, num \in 1 .. MaxBatch, InsertMult(num)
      PROVE  IInv'
  <2> DEFINE room == Size - (Published - Taken)
  <2>1. /\ prod' = [prod EXCEPT !.pc = "store1", !.seg = InsertSegments(ring, num)]
        /\ prod.next + num - 1 <= MaxItems
    BY <1>4 DEF InsertMult
  <2>2. InsertSegments(ring, num) = Segments(Published % Size, room, num, Size)
    BY RingFacts DEF InsertSegments, RingBuffer_GetFree
  <2>3. room \in 1 .. Size /\ num \in Nat
    BY <1>0, <1>1, <1>4, SizeAssumption DEF Counters
  <2>4. PICK a \in 0 .. Size, b \in 0 .. Size :
              /\ Segments(Published % Size, room, num, Size) = <<a, b>>
              /\ a + b <= room /\ a + b <= num
              /\ (Published % Size) + a <= Size
              /\ b > 0 => (Published % Size) + a = Size
    <3> DEFINE index == Published % Size
    <3>1. index \in 0 .. Size - 1 /\ Size \in Nat \ {0}
      BY <1>0
    <3> HIDE DEF index, room
    <3>2. \E a, b \in 0 .. Size :
              /\ Segments(index, room, num, Size) = <<a, b>>
              /\ a + b <= room /\ a + b <= num
              /\ index + a <= Size
              /\ b > 0 => index + a = Size
      BY ONLY <2>3, <3>1, SegmentsFit
    <3> QED
      BY <3>2 DEF index
  <2>5. prod.next = Published + 1 /\ a \in Length /\ b \in Length /\ a \in Nat /\ b \in Nat
    BY <1>0 DEF TypeOK, Published, Length
  <2>6. Published + a + b <= Taken + Size /\ Published + a + b <= MaxItems
    BY <1>0, <2>1, <2>3, <2>4, <2>5
  <2> QED
    BY <1>2, <2>1, <2>2, <2>4, <2>5, <2>6, ProducerStart
<1> QED
  BY <1>3, <1>4

(* The copy goes to slots that hold no published item.                     *)
LEMMA ProducerStores ==
    ASSUME IInv, NEW k \in {1, 2}, NEW here, NEW then, Store(k, here, then),
           <<k, here, then>> \in {<<1, "store1", "bump1">>, <<2, "store2", "bump2">>}
    PROVE  IInv'
<1> USE DEF IInv
<1> DEFINE c == prod.seg[k]  h == Published % Size
<1>0. /\ Size \in Nat \ {0} /\ Published \in Nat /\ Taken \in Nat /\ MaxItems \in Nat
      /\ h \in 0 .. Size - 1
  BY Positions
<1>1. /\ prod.pc = here /\ prod' = [prod EXCEPT !.pc = then]
      /\ UNCHANGED <<cons, delivered, peeked>> /\ ring' = CopyIn(ring, Batch(c))
  BY DEF Store
<1>2. /\ Copying = c /\ c \in Nat /\ Copying' = c /\ ToCopy' = ToCopy
      /\ Published' = Published /\ Taken' = Taken /\ Popping' = Popping /\ ToPop' = ToPop
  <2>1. Copying = c /\ c \in Length
    BY <1>1, ProducerValues, PositionTypes
  <2>2. Copying' = Copying /\ ToCopy' = ToCopy
    BY <1>1 DEF Copying, ToCopy, SegmentOf, LaterOf, Idle, TypeOK
  <2>3. Published' = Published /\ Taken' = Taken /\ Popping' = Popping /\ ToPop' = ToPop
    BY <1>1 DEF Published, Taken, Popping, ToPop, TypeOK
  <2>4. c \in Nat
    BY <1>0, <2>1 DEF Length
  <2> QED
    BY <2>1, <2>2, <2>3, <2>4
<1>3. /\ Published + c <= Taken + Size /\ h + c <= Size /\ Published + c <= MaxItems
  <2>1. ToCopy \in Nat
    BY <1>0, ProducerValues DEF Length
  <2>2. Published + c + ToCopy <= Taken + Size /\ h + c <= Size
        /\ Published + c + ToCopy <= MaxItems
    BY <1>2 DEF ProducerHasRoom
  <2> QED
    BY ONLY <1>0, <1>2, <2>1, <2>2
<1>4. /\ ring' = [ring EXCEPT !.data =
              [i \in 0 .. Size - 1 |-> IF i \in h .. h + c - 1
                                       THEN Published + (i - h) + 1 ELSE ring.data[i]]]
  <2>1. Len(Batch(c)) = c /\ \A i \in 1 .. c : Batch(c)[i] = Published + i
    BY <1>0, <1>2 DEF Batch, Published, TypeOK
  <2>2. \A i \in h .. h + c - 1 : i - h + 1 \in 1 .. c
    BY <1>0, <1>2
  <2>3. \A i \in h .. h + c - 1 : Batch(c)[i - h + 1] = Published + (i - h) + 1
    BY <1>0, <1>2, <2>1, <2>2
  <2> QED
    BY <1>0, <1>1, <1>2, <2>1, <2>3, RingFacts DEF CopyIn
<1> DEFINE data == [i \in 0 .. Size - 1 |-> IF i \in h .. h + c - 1
                                       THEN Published + (i - h) + 1 ELSE ring.data[i]]
<1>5. data \in [0 .. Size - 1 -> Item \cup {Slot0}]
  <2>1. \A i \in 0 .. Size - 1 : ring.data[i] \in Item \cup {Slot0}
    BY DEF TypeOK, Ring
  <2>2. \A i \in h .. h + c - 1 : Published + (i - h) + 1 \in Item
    BY <1>0, <1>2, <1>3 DEF Item
  <2> QED
    BY <2>1, <2>2
<1>6. /\ \A k1 \in Published .. Published + c - 1 : k1 % Size = h + (k1 - Published)
      /\ \A k1 \in Published .. Published + c - 1 : data[k1 % Size] = k1 + 1
  <2>1. \A k1 \in Published .. Published + c - 1 : k1 % Size = h + (k1 - Published)
    BY <1>0, <1>2, <1>3, RowOfSlots
  <2>2. ASSUME NEW k1 \in Published .. Published + c - 1
        PROVE  data[k1 % Size] = k1 + 1
    <3> DEFINE i == h + (k1 - Published)
    <3>1. i \in h .. h + c - 1 /\ i \in 0 .. Size - 1 /\ i = k1 % Size
      BY SMTT(30), <1>0, <1>2, <1>3, <2>1
    <3>2. Published + (i - h) + 1 = k1 + 1
      BY <1>0, <1>2
    <3> HIDE DEF i
    <3>3. data[i] = k1 + 1
      BY <3>1, <3>2
    <3> QED
      BY <3>1, <3>3
  <2> QED
    BY <2>1, <2>2
<1>7. \A k1 \in Taken .. Published - 1 : data[k1 % Size] = ring.data[k1 % Size]
  <2>1. ASSUME NEW k1 \in Taken .. Published - 1, k1 % Size \in h .. h + c - 1
        PROVE  FALSE
    <3> DEFINE i == k1 % Size  k2 == Published + (i - h)
    <3>0. i \in h .. h + c - 1
      BY <2>1
    <3> HIDE DEF i
    <3>1. /\ k1 \in Nat /\ k2 \in Nat /\ k1 < k2 /\ k2 < k1 + Size
          /\ k2 \in Published .. Published + c - 1 /\ k2 - Published = i - h
      BY ONLY <1>0, <1>2, <1>3, <3>0, k1 \in Taken .. Published - 1
    <3> HIDE DEF k2
    <3>2. k2 % Size = h + (k2 - Published)
      BY <1>6, <3>1
    <3>3. k2 % Size = k1 % Size
      BY <1>0, <3>0, <3>1, <3>2 DEF i
    <3> QED
      BY ONLY <1>0, <3>1, <3>3, WindowDistinct
  <2>2. ASSUME NEW k1 \in Taken .. Published - 1
        PROVE  k1 % Size \in 0 .. Size - 1
    BY <1>0, SlotType
  <2> QED
    BY <2>1, <2>2
<1>8. /\ ring'.data = data /\ ring'.head = ring.head /\ ring'.tail = ring.tail
      /\ ring' \in Ring(Size, Item \cup {Slot0})
  BY <1>4, <1>5 DEF TypeOK, Ring
<1> HIDE DEF data, h, c
<1>9. TypeOK'
  BY <1>1, <1>8 DEF TypeOK
<1>10. Counters' /\ ConsumerHasItems' /\ DeliveredInOrder' /\ SegmentPopped' /\ PeekedNext'
  BY <1>1, <1>2, <1>8 DEF Counters, ConsumerHasItems, DeliveredInOrder, SegmentPopped,
                          PeekedNext
<1>11. ProducerHasRoom'
  BY <1>2 DEF ProducerHasRoom
<1>12. SlotsHold' /\ SegmentCopied'
  BY <1>2, <1>6, <1>7, <1>8 DEF SlotsHold, SegmentCopied
<1> QED
  BY <1>9, <1>10, <1>11, <1>12

(* The store to head publishes the segment that was copied.                *)
LEMMA ProducerPublishes ==
    ASSUME IInv, NEW k \in {1, 2}, NEW here, NEW then, BumpHead(k, here, then),
           <<k, here, then>> \in {<<1, "bump1", "store2">>, <<2, "bump2", "idle">>}
    PROVE  /\ IInv'
           /\ Published' = Published + Copying /\ Taken' = Taken
<1> USE DEF IInv
<1> DEFINE c == prod.seg[k]
<1>0. /\ Size \in Nat \ {0} /\ Published \in Nat /\ Taken \in Nat /\ MaxItems \in Nat
      /\ Published % Size \in 0 .. Size - 1
  BY Positions
<1>1. /\ prod.pc = here /\ prod'.pc = then
      /\ UNCHANGED <<cons, delivered, peeked>> /\ ring' = AdvanceHead(ring, c)
      /\ prod' = [prod EXCEPT !.pc = then, !.next = @ + c,
                              !.seg = IF then = "idle" THEN <<0, 0>> ELSE @]
  BY DEF BumpHead, TypeOK
<1>2. Copying = c /\ c \in Nat /\ ToCopy \in Nat /\ ToCopy <= Size
  <2>1. Copying = c /\ c \in Length /\ ToCopy \in Length
    BY <1>1, ProducerValues, PositionTypes
  <2> QED
    BY <1>0, <2>1 DEF Length
<1>3. /\ Published' = Published + c /\ Taken' = Taken
      /\ Popping' = Popping /\ ToPop' = ToPop
      /\ Copying' = ToCopy /\ ToCopy' = 0
  <2>1. prod.next \in Nat /\ prod'.next = prod.next + c
    BY <1>0, <1>1 DEF TypeOK
  <2>2. Published' = Published + c
    BY <1>2, <2>1 DEF Published
  <2>3. Taken' = Taken /\ Popping' = Popping /\ ToPop' = ToPop
    BY <1>1 DEF Taken, Popping, ToPop
  <2>4. CASE here = "bump1" /\ then = "store2" /\ k = 1
    <3>1. prod'.seg = prod.seg /\ prod'.pc = "store2" /\ prod.pc = "bump1"
      BY <1>1, <2>4 DEF TypeOK
    <3>2. Copying' = prod.seg[2] /\ ToCopy' = 0 /\ ToCopy = prod.seg[2]
      BY <3>1 DEF Copying, ToCopy, SegmentOf, LaterOf, Idle
    <3> QED
      BY <2>2, <2>3, <3>2
  <2>5. CASE here = "bump2" /\ then = "idle" /\ k = 2
    <3>1. prod'.pc = "idle" /\ prod.pc = "bump2"
      BY <1>1, <2>5 DEF TypeOK
    <3>2. Copying' = 0 /\ ToCopy' = 0 /\ ToCopy = 0
      BY <3>1 DEF Copying, ToCopy, SegmentOf, LaterOf, Idle
    <3> QED
      BY <2>2, <2>3, <3>2
  <2> QED
    BY <2>4, <2>5
<1> DEFINE t == ToCopy
<1>4. /\ Published + c + t <= Taken + Size /\ Published + c + t <= MaxItems
      /\ (Published % Size) + c <= Size
      /\ t > 0 => (Published % Size) + c = Size
  BY <1>2 DEF ProducerHasRoom
<1> HIDE DEF c, t
<1>5. ProducerHasRoom'
  <2>1. t > 0 => (Published + c) % Size = 0
    BY <1>0, <1>2, <1>4, RowOfSlots
  <2>2. (Published + c) % Size \in 0 .. Size - 1
    BY <1>0, <1>2, SlotType
  <2>3. ((Published + c) % Size) + t <= Size
    <3>1. t \in Nat /\ t <= Size
      BY <1>2 DEF t
    <3> DEFINE r == (Published + c) % Size
    <3>2. r \in 0 .. Size - 1 /\ (t > 0 => r = 0)
      BY <2>1, <2>2
    <3> HIDE DEF r
    <3>3. r + t <= Size
      BY ONLY <1>0, <3>1, <3>2
    <3> QED
      BY <3>3 DEF r
  <2>4. /\ Published' + Copying' + ToCopy' <= Taken' + Size
        /\ Published' + Copying' + ToCopy' <= MaxItems
    BY <1>0, <1>2, <1>3, <1>4 DEF t
  <2>5. (Published' % Size) + Copying' <= Size /\ ~ (ToCopy' > 0)
    BY <1>3, <2>3 DEF t
  <2> QED
    BY <2>4, <2>5 DEF ProducerHasRoom
<1>6. Published + c <= Taken + Size /\ Published + c <= MaxItems
  <2>1. t \in Nat
    BY <1>2 DEF t
  <2> QED
    BY ONLY <1>0, <1>2, <1>4, <2>1
<1>7. /\ ring' = [ring EXCEPT !.head = (ring.head + c) % CounterMod]
      /\ (ring.head + c) % CounterMod = (Published + c) % CounterMod
      /\ (ring.head + c) % CounterMod \in 0 .. CounterMod - 1
  <2>1. ring.head = Published % CounterMod /\ CounterMod \in Nat \ {0}
    BY CounterModAssumption DEF Counters
  <2>2. ((Published % CounterMod) + c) % CounterMod = (Published + c) % CounterMod
    BY ONLY <1>0, <1>2, <2>1, ModuloSum
  <2>3. (Published + c) % CounterMod \in 0 .. CounterMod - 1
    <3>1. Published + c \in Nat
      BY ONLY <1>0, <1>2
    <3> QED
      BY ONLY <2>1, <3>1, Modulo
  <2> QED
    BY <1>1, <2>1, <2>2, <2>3 DEF AdvanceHead
<1>8. /\ ring' \in Ring(Size, Item \cup {Slot0})
      /\ ring'.head = (Published + c) % CounterMod
      /\ ring'.tail = ring.tail /\ ring'.data = ring.data
  BY <1>7 DEF TypeOK, Ring
<1>9. TypeOK'
  <2>1. prod.next + c \in 1 .. MaxItems + 1
    BY SMTT(30), <1>0, <1>2, <1>6 DEF Published, TypeOK
  <2>2. 0 \in Length
    BY <1>0 DEF Length
  <2>3. prod' \in [pc : {"idle", "store1", "bump1", "store2", "bump2"},
                   seg : Length \X Length, next : 1 .. MaxItems + 1]
    <3> DEFINE seg == IF then = "idle" THEN <<0, 0>> ELSE prod.seg
               next == prod.next + c
    <3>1. seg \in Length \X Length
      BY <2>2 DEF TypeOK
    <3>2. /\ prod' = [prod EXCEPT !.pc = then, !.next = next, !.seg = seg]
          /\ then \in {"idle", "store2"}
      BY <1>1 DEF TypeOK
    <3>3. next \in 1 .. MaxItems + 1
      BY <2>1
    <3> HIDE DEF seg, next
    <3> QED
      BY <3>1, <3>2, <3>3 DEF TypeOK
  <2> QED
    BY <1>1, <1>8, <2>3 DEF TypeOK
<1>10. Counters'
  <2>1. Taken <= Published + c
    BY <1>0, <1>2 DEF Counters
  <2> QED
    BY <1>3, <1>6, <1>8, <2>1 DEF Counters
<1>11. ConsumerHasItems' /\ DeliveredInOrder' /\ SegmentPopped' /\ PeekedNext'
  <2>1. Taken + Popping + ToPop <= Published + c
    <3>1. Popping \in Nat /\ ToPop \in Nat
      BY <1>0, PositionTypes DEF Popping, ToPop, SegmentOf, LaterOf, Length
    <3>2. Taken + Popping + ToPop <= Published
      BY DEF ConsumerHasItems
    <3> QED
      BY ONLY <1>0, <1>2, <3>1, <3>2
  <2>2. ConsumerHasItems'
    BY <1>3, <2>1 DEF ConsumerHasItems
  <2> QED
    BY <1>1, <1>3, <2>2 DEF DeliveredInOrder, SegmentPopped, PeekedNext
<1>12. SlotsHold'
  <2>1. \A i \in Published .. Published + c - 1 : ring.data[i % Size] = i + 1
    BY <1>1, <1>2 DEF SegmentCopied
  <2>2. \A i \in Taken .. Published + c - 1 : ring.data[i % Size] = i + 1
    <3>1. \A i \in Taken .. Published + c - 1 :
              i \in Taken .. Published - 1 \/ i \in Published .. Published + c - 1
      BY ONLY <1>0, <1>2
    <3> QED
      BY <2>1, <3>1 DEF SlotsHold
  <2>3. \A i \in Taken' .. Published' - 1 : ring'.data[i % Size] = i + 1
    <3>1. Taken' .. Published' - 1 = Taken .. Published + c - 1
      BY ONLY <1>0, <1>2, <1>3
    <3> QED
      BY <1>8, <2>2, <3>1
  <2> QED
    BY <2>3 DEF SlotsHold
<1>13. SegmentCopied'
  BY <1>1 DEF SegmentCopied
<1> QED
  BY <1>2, <1>3, <1>5, <1>9, <1>10, <1>11, <1>12, <1>13

---------------------------------------------------------------------------
(* The consumer *)

(* How much the consumer copies now, and after that.                       *)
LEMMA ConsumerValues ==
    ASSUME TypeOK
    PROVE  /\ Popping \in Length /\ ToPop \in Length
           /\ cons.pc = "idle" => Popping = 0 /\ ToPop = 0
           /\ cons.pc \in {"copy1", "bump1"} =>
                 Popping = cons.seg[1] /\ ToPop = cons.seg[2]
           /\ cons.pc \in {"copy2", "bump2"} => Popping = cons.seg[2] /\ ToPop = 0
<1>1. 0 \in Length /\ cons.seg[1] \in Length /\ cons.seg[2] \in Length
  BY PositionTypes, SizeAssumption DEF Length
<1> QED
  BY <1>1 DEF Popping, ToPop, SegmentOf, LaterOf, Idle

(* A call of Pop or PopMult begins with the lengths of its segments.       *)
LEMMA ConsumerStart ==
    ASSUME IInv, NEW a \in Length, NEW b \in Length,
           cons' = [cons EXCEPT !.pc = "copy1", !.seg = <<a, b>>],
           UNCHANGED <<ring, prod, delivered, peeked>>,
           Taken + a + b <= Published,
           (Taken % Size) + a <= Size,
           b > 0 => (Taken % Size) + a = Size
    PROVE  IInv'
<1> USE DEF IInv
<1>1. TypeOK'
  BY DEF TypeOK
<1>2. /\ Published' = Published /\ Taken' = Taken
      /\ Copying' = Copying /\ ToCopy' = ToCopy
  BY DEF TypeOK, Published, Taken, Copying, ToCopy
<1>3. cons'.pc = "copy1" /\ Popping' = a /\ ToPop' = b
  BY DEF TypeOK, Popping, ToPop, SegmentOf, LaterOf, Idle
<1>4. Counters' /\ ProducerHasRoom' /\ DeliveredInOrder' /\ PeekedNext'
  BY <1>2 DEF Counters, ProducerHasRoom, DeliveredInOrder, PeekedNext
<1>5. ConsumerHasItems'
  BY <1>2, <1>3 DEF ConsumerHasItems
<1>6. SlotsHold' /\ SegmentCopied' /\ SegmentPopped'
  BY <1>2, <1>3 DEF SlotsHold, SegmentCopied, SegmentPopped
<1> QED
  BY <1>1, <1>4, <1>5, <1>6

(* Pop and PopMult begin.                                                  *)
LEMMA ConsumerCalls ==
    ASSUME IInv, Pop \/ \E num \in 1 .. MaxBatch : PopMult(num)
    PROVE  IInv'
<1> USE DEF IInv
<1>0. /\ Size \in Nat \ {0} /\ Published \in Nat /\ Taken \in Nat
      /\ Taken % Size \in 0 .. Size - 1
  BY Positions
<1>1. Taken < Published
  <2>1. ~ RingBuffer_IsEmpty(ring)
    BY DEF Pop, PopMult
  <2>2. Published # Taken /\ Taken <= Published
    BY <2>1, RingFacts DEF Counters
  <2> QED
    BY ONLY <1>0, <2>2
<1>2. UNCHANGED <<ring, prod, delivered, peeked>>
  BY DEF Pop, PopMult
<1>3. CASE Pop
  <2>1. cons' = [cons EXCEPT !.pc = "copy1", !.seg = <<1, 0>>]
    BY <1>3 DEF Pop
  <2>2. 1 \in Length /\ 0 \in Length
    BY <1>0 DEF Length
  <2>3. Taken + 1 + 0 <= Published /\ (Taken % Size) + 1 <= Size /\ ~ (0 > 0)
    BY <1>0, <1>1
  <2> QED
    BY <1>2, <2>1, <2>2, <2>3, ConsumerStart
<1>4. ASSUME NEW num, num \in 1 .. MaxBatch, PopMult(num)
      PROVE  IInv'
  <2> DEFINE room == Published - Taken
  <2>1. cons' = [cons EXCEPT !.pc = "copy1", !.seg = PopSegments(ring, num)]
    BY <1>4 DEF PopMult
  <2>2. PopSegments(ring, num) = Segments(Taken % Size, room, num, Size)
    BY RingFacts DEF PopSegments
  <2>3. room \in 1 .. Size /\ num \in Nat
    BY <1>0, <1>1, <1>4, SizeAssumption DEF Counters
  <2>4. PICK a \in 0 .. Size, b \in 0 .. Size :
              /\ Segments(Taken % Size, room, num, Size) = <<a, b>>
              /\ a + b <= room
              /\ (Taken % Size) + a <= Size
              /\ b > 0 => (Taken % Size) + a = Size
    <3> DEFINE index == Taken % Size
    <3>1. index \in 0 .. Size - 1 /\ Size \in Nat \ {0}
      BY <1>0
    <3> HIDE DEF index, room
    <3>2. \E a, b \in 0 .. Size :
              /\ Segments(index, room, num, Size) = <<a, b>>
              /\ a + b <= room /\ a + b <= num
              /\ index + a <= Size
              /\ b > 0 => index + a = Size
      BY ONLY <2>3, <3>1, SegmentsFit
    <3> QED
      BY <3>2 DEF index
  <2>5. a \in Length /\ b \in Length /\ a \in Nat /\ b \in Nat
    BY <1>0 DEF Length
  <2>6. Taken + a + b <= Published
    BY <1>0, <2>4, <2>5
  <2> QED
    BY <1>2, <2>1, <2>2, <2>4, <2>5, <2>6, ConsumerStart
<1> QED
  BY <1>3, <1>4

(* What the copy out of the ring gives: the oldest items.                  *)
LEMMA Oldest ==
    ASSUME IInv, NEW n \in Nat, Taken + n <= Published, (Taken % Size) + n <= Size
    PROVE  CopyOut(ring, n) = [i \in 1 .. n |-> Taken + i]
<1> USE DEF IInv
<1>0. /\ Size \in Nat \ {0} /\ Published \in Nat /\ Taken \in Nat
      /\ Taken % Size \in 0 .. Size - 1
  BY Positions
<1> SUFFICES ASSUME NEW i \in 1 .. n
             PROVE  ring.data[(Taken % Size) + i - 1] = Taken + i
  BY RingFacts DEF CopyOut
<1> DEFINE k == Taken + i - 1
<1>1. k \in Taken .. Taken + n - 1 /\ k \in Taken .. Published - 1 /\ k - Taken = i - 1
  BY <1>0
<1> HIDE DEF k
<1>2. k % Size = (Taken % Size) + (k - Taken)
  BY <1>0, <1>1, RowOfSlots
<1>3. ring.data[k % Size] = k + 1
  BY <1>1 DEF SlotsHold
<1>4. (Taken % Size) + (k - Taken) = (Taken % Size) + i - 1
  BY <1>0, <1>1
<1>5. k + 1 = Taken + i
  BY <1>0 DEF k
<1> QED
  BY <1>2, <1>3, <1>4, <1>5

(* Peek sees the item that the next Pop delivers.                          *)
LEMMA ConsumerPeeks ==
    ASSUME IInv, Peek
    PROVE  IInv'
<1> USE DEF IInv
<1>0. /\ Size \in Nat \ {0} /\ Published \in Nat /\ Taken \in Nat /\ MaxItems \in Nat
      /\ Published <= MaxItems /\ Taken % Size \in 0 .. Size - 1
  BY Positions
<1>1. /\ UNCHANGED <<ring, prod, cons, delivered>> /\ peeked' = CopyOut(ring, 1)[1]
      /\ ~ RingBuffer_IsEmpty(ring)
  BY DEF Peek
<1>2. Taken + 1 <= Published
  <2>1. Published # Taken /\ Taken <= Published
    BY <1>1, RingFacts DEF Counters
  <2> QED
    BY ONLY <1>0, <2>1
<1>3. CopyOut(ring, 1) = [i \in 1 .. 1 |-> Taken + i]
  <2>1. 1 \in Nat /\ (Taken % Size) + 1 <= Size
    BY <1>0
  <2> QED
    BY <1>2, <2>1, Oldest
<1>4. peeked' = Taken + 1 /\ peeked' \in Item
  <2>1. peeked' = Taken + 1
    BY <1>1, <1>3
  <2> QED
    BY <1>0, <1>2, <2>1 DEF Item
<1>5. /\ Published' = Published /\ Taken' = Taken
      /\ Popping' = Popping /\ ToPop' = ToPop
      /\ Copying' = Copying /\ ToCopy' = ToCopy
  BY <1>1 DEF Published, Taken, Popping, ToPop, Copying, ToCopy
<1>6. TypeOK' /\ PeekedNext'
  BY <1>1, <1>4, <1>5 DEF TypeOK, PeekedNext
<1>7. Counters' /\ ProducerHasRoom' /\ ConsumerHasItems' /\ SlotsHold'
  BY <1>1, <1>5 DEF Counters, ProducerHasRoom, ConsumerHasItems, SlotsHold
<1>8. SegmentCopied' /\ DeliveredInOrder' /\ SegmentPopped'
  BY <1>1, <1>5 DEF SegmentCopied, DeliveredInOrder, SegmentPopped
<1> QED
  BY <1>6, <1>7, <1>8

(* The segment in hand is copied before its slots are given back.          *)
LEMMA ConsumerCopies ==
    ASSUME IInv, NEW k \in {1, 2}, NEW here, NEW then, Copy(k, here, then),
           <<k, here, then>> \in {<<1, "copy1", "bump1">>, <<2, "copy2", "bump2">>}
    PROVE  IInv'
<1> USE DEF IInv
<1> DEFINE c == cons.seg[k]
<1>0. /\ Size \in Nat \ {0} /\ Published \in Nat /\ Taken \in Nat /\ MaxItems \in Nat
      /\ Published <= MaxItems /\ Taken % Size \in 0 .. Size - 1
  BY Positions
<1>1. /\ cons.pc = here /\ UNCHANGED <<ring, prod, delivered, peeked>>
      /\ cons' = [cons EXCEPT !.pc = then, !.out = CopyOut(ring, c)]
  BY DEF Copy
<1>2. Popping = c /\ c \in Nat /\ ToPop \in Nat
  <2>1. Popping = c /\ c \in Length /\ ToPop \in Length
    BY <1>1, ConsumerValues, PositionTypes
  <2> QED
    BY <1>0, <2>1 DEF Length
<1>3. /\ Published' = Published /\ Taken' = Taken
      /\ Popping' = Popping /\ ToPop' = ToPop
      /\ Copying' = Copying /\ ToCopy' = ToCopy
  <2>1. Popping' = Popping /\ ToPop' = ToPop
    BY <1>1 DEF Popping, ToPop, SegmentOf, LaterOf, Idle, TypeOK
  <2> QED
    BY <1>1, <2>1 DEF Published, Taken, Copying, ToCopy
<1> HIDE DEF c
<1>4. Taken + c <= Published /\ (Taken % Size) + c <= Size
  <2>1. Taken + c + ToPop <= Published /\ (Taken % Size) + c <= Size
    BY <1>2 DEF ConsumerHasItems
  <2> QED
    BY ONLY <1>0, <1>2, <2>1
<1>5. CopyOut(ring, c) = [i \in 1 .. c |-> Taken + i]
  BY <1>2, <1>4, Oldest
<1>6. CopyOut(ring, c) \in Seq(Item)
  <2>1. \A i \in 1 .. c : Taken + i \in Item
    BY <1>0, <1>2, <1>4 DEF Item
  <2> QED
    BY <1>2, <1>5, <2>1
<1>7. TypeOK'
  <2>1. cons' \in [pc : {"idle", "copy1", "bump1", "copy2", "bump2"},
                   seg : Length \X Length, out : Seq(Item)]
    BY <1>1, <1>6 DEF TypeOK
  <2> QED
    BY <1>1, <2>1 DEF TypeOK
<1>8. SegmentPopped'
  <2>1. cons'.out = [i \in 1 .. c |-> Taken + i]
    BY <1>1, <1>5 DEF TypeOK
  <2> QED
    BY <1>2, <1>3, <2>1 DEF SegmentPopped
<1>9. Counters' /\ ProducerHasRoom' /\ ConsumerHasItems' /\ SlotsHold'
  BY <1>1, <1>3 DEF Counters, ProducerHasRoom, ConsumerHasItems, SlotsHold
<1>10. SegmentCopied' /\ DeliveredInOrder' /\ PeekedNext'
  BY <1>1, <1>3 DEF SegmentCopied, DeliveredInOrder, PeekedNext
<1> QED
  BY <1>7, <1>8, <1>9, <1>10

(* The store to tail delivers the segment that was copied.                 *)
LEMMA ConsumerReleases ==
    ASSUME IInv, NEW k \in {1, 2}, NEW here, NEW then, BumpTail(k, here, then),
           <<k, here, then>> \in {<<1, "bump1", "copy2">>, <<2, "bump2", "idle">>}
    PROVE  /\ IInv'
           /\ Published' = Published /\ Taken' = Taken + Popping
<1> USE DEF IInv
<1> DEFINE c == cons.seg[k]
<1>0. /\ Size \in Nat \ {0} /\ Published \in Nat /\ Taken \in Nat /\ MaxItems \in Nat
      /\ Published <= MaxItems /\ Taken % Size \in 0 .. Size - 1
  BY Positions
<1>1. /\ cons.pc = here /\ cons'.pc = then
      /\ UNCHANGED prod /\ ring' = AdvanceTail(ring, c)
      /\ delivered' = delivered \o cons.out
      /\ peeked' = IF c > 0 THEN 0 ELSE peeked
      /\ cons' = [cons EXCEPT !.pc = then, !.out = << >>,
                              !.seg = IF then = "idle" THEN <<0, 0>> ELSE @]
  BY DEF BumpTail, TypeOK
<1>2. Popping = c /\ c \in Nat /\ ToPop \in Nat /\ ToPop <= Size
  <2>1. Popping = c /\ c \in Length /\ ToPop \in Length
    BY <1>1, ConsumerValues, PositionTypes
  <2> QED
    BY <1>0, <2>1 DEF Length
<1>3. /\ delivered' = [i \in 1 .. Taken + c |-> i] /\ delivered' \in Seq(Item)
      /\ Taken' = Taken + c
  <2>1. delivered = [i \in 1 .. Taken |-> i] /\ delivered \in Seq(Item)
    BY DEF DeliveredInOrder, TypeOK
  <2>2. cons.out = [i \in 1 .. c |-> Taken + i] /\ cons.out \in Seq(Item)
    BY <1>1, <1>2 DEF SegmentPopped, TypeOK
  <2>3. Len(delivered) = Taken /\ Len(cons.out) = c
    BY <1>2, <2>2 DEF Taken
  <2> HIDE DEF c
  <2>4. delivered' \in Seq(Item) /\ Len(delivered') = Taken + c
    BY <1>0, <1>1, <1>2, <2>1, <2>2, <2>3
  <2>5. ASSUME NEW i \in 1 .. Taken + c
        PROVE  delivered'[i] = i
    <3>1. CASE i <= Taken
      <4>1. delivered'[i] = delivered[i] /\ i \in 1 .. Taken
        BY <1>0, <1>1, <1>2, <2>1, <2>2, <2>3, <3>1
      <4> QED
        BY <2>1, <4>1
    <3>2. CASE ~ (i <= Taken)
      <4> DEFINE j == i - Taken
      <4>1. j \in 1 .. c /\ Taken + j = i
        BY <1>0, <1>2, <3>2
      <4>2. delivered'[i] = cons.out[j]
        BY <1>0, <1>1, <1>2, <2>1, <2>2, <2>3, <3>2
      <4> HIDE DEF j
      <4> QED
        BY <2>2, <4>1, <4>2
    <3> QED
      BY <3>1, <3>2
  <2>6. delivered' = [i \in 1 .. Taken + c |-> i]
    BY <1>0, <1>2, <2>4, <2>5
  <2> QED
    BY <2>4, <2>6 DEF Taken
<1>4. /\ Published' = Published /\ Copying' = Copying /\ ToCopy' = ToCopy
      /\ Popping' = ToPop /\ ToPop' = 0
  <2>1. Published' = Published /\ Copying' = Copying /\ ToCopy' = ToCopy
    BY <1>1 DEF Published, Copying, ToCopy
  <2>2. CASE here = "bump1" /\ then = "copy2" /\ k = 1
    <3>1. cons'.seg = cons.seg /\ cons'.pc = "copy2" /\ cons.pc = "bump1"
      BY <1>1, <2>2 DEF TypeOK
    <3>2. Popping' = cons.seg[2] /\ ToPop' = 0 /\ ToPop = cons.seg[2]
      BY <3>1 DEF Popping, ToPop, SegmentOf, LaterOf, Idle
    <3> QED
      BY <2>1, <3>2
  <2>3. CASE here = "bump2" /\ then = "idle" /\ k = 2
    <3>1. cons'.pc = "idle" /\ cons.pc = "bump2"
      BY <1>1, <2>3 DEF TypeOK
    <3>2. Popping' = 0 /\ ToPop' = 0 /\ ToPop = 0
      BY <3>1 DEF Popping, ToPop, SegmentOf, LaterOf, Idle
    <3> QED
      BY <2>1, <3>2
  <2> QED
    BY <2>2, <2>3
<1> DEFINE t == ToPop
<1>5. /\ Taken + c + t <= Published /\ (Taken % Size) + c <= Size
      /\ t > 0 => (Taken % Size) + c = Size
      /\ t \in Nat /\ t <= Size
  BY <1>2 DEF ConsumerHasItems
<1> HIDE DEF c, t
<1>6. ConsumerHasItems'
  <2>1. t > 0 => (Taken + c) % Size = 0
    BY <1>0, <1>2, <1>5, RowOfSlots
  <2>2. (Taken + c) % Size \in 0 .. Size - 1
    BY <1>0, <1>2, SlotType
  <2>3. ((Taken + c) % Size) + t <= Size
    <3> DEFINE r == (Taken + c) % Size
    <3>1. r \in 0 .. Size - 1 /\ (t > 0 => r = 0)
      BY <2>1, <2>2
    <3> HIDE DEF r
    <3>2. r + t <= Size
      BY ONLY <1>0, <1>5, <3>1
    <3> QED
      BY <3>2 DEF r
  <2>4. Taken' + Popping' + ToPop' <= Published'
    BY <1>0, <1>2, <1>3, <1>4, <1>5 DEF t
  <2>5. (Taken' % Size) + Popping' <= Size /\ ~ (ToPop' > 0)
    BY <1>3, <1>4, <2>3 DEF t
  <2> QED
    BY <2>4, <2>5 DEF ConsumerHasItems
<1>7. Taken + c <= Published
  BY ONLY <1>0, <1>2, <1>5
<1>8. /\ ring' = [ring EXCEPT !.tail = (ring.tail + c) % CounterMod]
      /\ (ring.tail + c) % CounterMod = (Taken + c) % CounterMod
      /\ (ring.tail + c) % CounterMod \in 0 .. CounterMod - 1
  <2>1. ring.tail = Taken % CounterMod /\ CounterMod \in Nat \ {0}
    BY CounterModAssumption DEF Counters
  <2>2. ((Taken % CounterMod) + c) % CounterMod = (Taken + c) % CounterMod
    BY ONLY <1>0, <1>2, <2>1, ModuloSum
  <2>3. (Taken + c) % CounterMod \in 0 .. CounterMod - 1
    <3>1. Taken + c \in Nat
      BY ONLY <1>0, <1>2
    <3> QED
      BY ONLY <2>1, <3>1, Modulo
  <2> QED
    BY <1>1, <2>1, <2>2, <2>3 DEF AdvanceTail, c
<1>9. /\ ring' \in Ring(Size, Item \cup {Slot0})
      /\ ring'.tail = (Taken + c) % CounterMod
      /\ ring'.head = ring.head /\ ring'.data = ring.data
  BY <1>8 DEF TypeOK, Ring
<1>10. TypeOK'
  <2>1. 0 \in Length /\ << >> \in Seq(Item)
    BY <1>0 DEF Length
  <2>2. cons' \in [pc : {"idle", "copy1", "bump1", "copy2", "bump2"},
                   seg : Length \X Length, out : Seq(Item)]
    <3> DEFINE seg == IF then = "idle" THEN <<0, 0>> ELSE cons.seg
    <3>1. seg \in Length \X Length
      BY <2>1 DEF TypeOK
    <3>2. /\ cons' = [cons EXCEPT !.pc = then, !.out = << >>, !.seg = seg]
          /\ then \in {"idle", "copy2"}
      BY <1>1 DEF TypeOK
    <3> HIDE DEF seg
    <3> QED
      BY <2>1, <3>1, <3>2 DEF TypeOK
  <2>3. peeked' \in Item \cup {0}
    BY <1>1 DEF TypeOK
  <2> QED
    BY <1>1, <1>3, <1>9, <2>2, <2>3 DEF TypeOK
<1>11. Counters'
  <2>1. Published <= Taken + c + Size
    <3>1. Published <= Taken + Size
      BY DEF Counters
    <3> QED
      BY ONLY <1>0, <1>2, <3>1
  <2> QED
    BY <1>3, <1>4, <1>7, <1>9, <2>1 DEF Counters
<1>12. ProducerHasRoom'
  <2>1. Published + Copying + ToCopy <= Taken + c + Size
    <3>1. Copying \in Nat /\ ToCopy \in Nat
      BY <1>0, ProducerValues DEF Length
    <3>2. Published + Copying + ToCopy <= Taken + Size
      BY DEF ProducerHasRoom
    <3> QED
      BY ONLY <1>0, <1>2, <3>1, <3>2
  <2> QED
    BY <1>3, <1>4, <2>1 DEF ProducerHasRoom
<1>13. SlotsHold'
  <2>1. Taken' .. Published' - 1 \subseteq Taken .. Published - 1
    BY ONLY <1>0, <1>2, <1>3, <1>4
  <2> QED
    BY <1>9, <2>1 DEF SlotsHold
<1>14. SegmentCopied' /\ DeliveredInOrder' /\ SegmentPopped'
  <2>1. cons'.pc \notin {"bump1", "bump2"}
    BY <1>1
  <2> QED
    BY <1>1, <1>3, <1>4, <1>9, <2>1 DEF SegmentCopied, DeliveredInOrder, SegmentPopped
<1>15. PeekedNext'
  <2>1. CASE c = 0
    <3>1. Taken' = Taken /\ peeked' = peeked
      BY <1>0, <1>1, <1>3, <2>1 DEF c
    <3> QED
      BY <3>1 DEF PeekedNext
  <2>2. CASE c > 0
    BY <1>1, <2>2 DEF PeekedNext, c
  <2> QED
    BY <1>2, <2>1, <2>2
<1> QED
  BY <1>2, <1>3, <1>4, <1>6, <1>10, <1>11, <1>12, <1>13, <1>14, <1>15

---------------------------------------------------------------------------
(* The invariant *)

(* The invariant holds at first.                                           *)
LEMMA InitIInv ==
    Init => IInv
<1> SUFFICES ASSUME Init
             PROVE  IInv
  OBVIOUS
<1>0. Size \in Nat \ {0} /\ MaxItems \in Nat /\ CounterMod \in Nat \ {0}
  BY SizeAssumption, CounterModAssumption
<1>1. /\ ring = [head |-> 0, tail |-> 0, count |-> Size,
                 data |-> [i \in 0 .. Size - 1 |-> Slot0]]
      /\ prod = [pc |-> "idle", seg |-> <<0, 0>>, next |-> 1]
      /\ cons = [pc |-> "idle", seg |-> <<0, 0>>, out |-> << >>]
      /\ delivered = << >> /\ peeked = 0
  BY DEF Init, RingBuffer_Init
<1>2. Published = 0 /\ Taken = 0
  BY <1>1 DEF Published, Taken
<1>3. Copying = 0 /\ ToCopy = 0 /\ Popping = 0 /\ ToPop = 0
  BY <1>1 DEF Copying, ToCopy, Popping, ToPop, SegmentOf, LaterOf, Idle
<1>4. TypeOK
  <2>1. 0 \in Length /\ 1 \in 1 .. MaxItems + 1 /\ 0 \in 0 .. CounterMod - 1
    BY <1>0 DEF Length
  <2>2. ring \in Ring(Size, Item \cup {Slot0})
    BY <1>1, <2>1 DEF Ring
  <2>3. prod \in [pc : {"idle", "store1", "bump1", "store2", "bump2"},
                  seg : Length \X Length, next : 1 .. MaxItems + 1]
    BY <1>1, <2>1
  <2>4. cons \in [pc : {"idle", "copy1", "bump1", "copy2", "bump2"},
                  seg : Length \X Length, out : Seq(Item)]
    BY <1>1, <2>1
  <2> QED
    BY <1>1, <2>2, <2>3, <2>4 DEF TypeOK
<1>5. 0 % CounterMod = 0 /\ 0 % Size = 0
  BY <1>0
<1>6. Counters /\ ProducerHasRoom /\ ConsumerHasItems
  BY <1>0, <1>1, <1>2, <1>3, <1>5 DEF Counters, ProducerHasRoom, ConsumerHasItems
<1>7. SlotsHold /\ SegmentCopied /\ SegmentPopped /\ PeekedNext
  BY <1>1, <1>2, <1>3 DEF SlotsHold, SegmentCopied, SegmentPopped, PeekedNext
<1>8. DeliveredInOrder
  BY <1>1, <1>2 DEF DeliveredInOrder
<1> QED
  BY <1>4, <1>6, <1>7, <1>8 DEF IInv

(* The steps that leave the positions alone, apart from the stores to head *)
(* and tail.                                                               *)
LEMMA Steps ==
    ASSUME IInv, Next
    PROVE  /\ IInv'
           /\ \/ Published' = Published /\ UNCHANGED delivered
              \/ Published' = Published + Copying /\ UNCHANGED delivered
              \/ Published' = Published /\ Taken' = Taken + Popping
<1> DEFINE Post == \/ Published' = Published /\ UNCHANGED delivered
                   \/ Published' = Published + Copying /\ UNCHANGED delivered
                   \/ Published' = Published /\ Taken' = Taken + Popping
<1> HIDE DEF Post
<1> SUFFICES IInv' /\ Post
  BY DEF Post
<1>1. CASE Insert \/ \E num \in 1 .. MaxBatch : InsertMult(num)
  <2>1. UNCHANGED delivered /\ Published' = Published
    BY <1>1 DEF Insert, InsertMult, Published, IInv, TypeOK
  <2> QED
    BY <1>1, <2>1, ProducerCalls DEF Post
<1>2. ASSUME NEW k \in {1, 2}, NEW here, NEW then, Store(k, here, then),
             <<k, here, then>> \in {<<1, "store1", "bump1">>, <<2, "store2", "bump2">>}
      PROVE  IInv' /\ Post
  <2>1. UNCHANGED delivered /\ Published' = Published
    BY <1>2 DEF Store, Published, IInv, TypeOK
  <2> QED
    BY <1>2, <2>1, ProducerStores DEF Post
<1>3. ASSUME NEW k \in {1, 2}, NEW here, NEW then, BumpHead(k, here, then),
             <<k, here, then>> \in {<<1, "bump1", "store2">>, <<2, "bump2", "idle">>}
      PROVE  IInv' /\ Post
  <2>1. UNCHANGED delivered
    BY <1>3 DEF BumpHead
  <2> QED
    BY <1>3, <2>1, ProducerPublishes DEF Post
<1>4. CASE Pop \/ \E num \in 1 .. MaxBatch : PopMult(num)
  <2>1. UNCHANGED delivered /\ Published' = Published
    BY <1>4 DEF Pop, PopMult, Published
  <2> QED
    BY <1>4, <2>1, ConsumerCalls DEF Post
<1>5. CASE Peek
  <2>1. UNCHANGED delivered /\ Published' = Published
    BY <1>5 DEF Peek, Published
  <2> QED
    BY <1>5, <2>1, ConsumerPeeks DEF Post
<1>6. ASSUME NEW k \in {1, 2}, NEW here, NEW then, Copy(k, here, then),
             <<k, here, then>> \in {<<1, "copy1", "bump1">>, <<2, "copy2", "bump2">>}
      PROVE  IInv' /\ Post
  <2>1. UNCHANGED delivered /\ Published' = Published
    BY <1>6 DEF Copy, Published
  <2> QED
    BY <1>6, <2>1, ConsumerCopies DEF Post
<1>7. ASSUME NEW k \in {1, 2}, NEW here, NEW then, BumpTail(k, here, then),
             <<k, here, then>> \in {<<1, "bump1", "copy2">>, <<2, "bump2", "idle">>}
      PROVE  IInv' /\ Post
  BY <1>7, ConsumerReleases DEF Post
<1>8. CASE InsertStep
  <2>1. CASE Store(1, "store1", "bump1") \/ Store(2, "store2", "bump2")
    BY <1>2, <2>1
  <2>2. CASE BumpHead(1, "bump1", "store2") \/ BumpHead(2, "bump2", "idle")
    BY <1>3, <2>2
  <2> QED
    BY <1>8, <2>1, <2>2 DEF InsertStep
<1>9. CASE PopStep
  <2>1. CASE Copy(1, "copy1", "bump1") \/ Copy(2, "copy2", "bump2")
    BY <1>6, <2>1
  <2>2. CASE BumpTail(1, "bump1", "copy2") \/ BumpTail(2, "bump2", "idle")
    BY <1>7, <2>2
  <2> QED
    BY <1>9, <2>1, <2>2 DEF PopStep
<1> QED
  BY <1>1, <1>4, <1>5, <1>8, <1>9 DEF Next

(* A step that changes nothing keeps it, and both positions.               *)
LEMMA Stutter ==
    ASSUME IInv, UNCHANGED vars
    PROVE  IInv' /\ Published' = Published /\ UNCHANGED delivered
BY DEF IInv, vars, TypeOK, Counters, ProducerHasRoom, ConsumerHasItems, SlotsHold,
       SegmentCopied, DeliveredInOrder, SegmentPopped, PeekedNext, Published, Taken,
       Copying, ToCopy, Popping, ToPop

(* The inductive invariant: exact counters, room and items that are there, *)
(* what each copy has done, what has been delivered.                       *)
THEOREM Invariant == Spec => []IInv
<1>1. IInv /\ [Next]_vars => IInv'
  BY Steps, Stutter
<1> QED
  BY InitIInv, <1>1, PTL DEF Spec

(* The state keeps its types.                                              *)
THEOREM TypeCorrect == Spec => []TypeOK
BY Invariant, PTL DEF IInv

(* The slots being written and the slots being read are those of positions *)
(* less than Size apart.                                                   *)
LEMMA NoRace ==
    ASSUME IInv
    PROVE  NoSlotRace
<1> USE DEF IInv
<1>0. Size \in Nat \ {0} /\ Published \in Nat /\ Taken \in Nat
  BY Positions
<1>1. /\ Copying \in Nat /\ ToCopy \in Nat /\ Popping \in Nat /\ ToPop \in Nat
  BY <1>0, ProducerValues, ConsumerValues DEF Length
<1>2. /\ Published + Copying <= Taken + Size
      /\ Taken + Popping <= Published
  <2>1. /\ Published + Copying + ToCopy <= Taken + Size
        /\ Taken + Popping + ToPop <= Published
    BY DEF ProducerHasRoom, ConsumerHasItems
  <2> QED
    BY ONLY <1>0, <1>1, <2>1
<1>3. ASSUME NEW s \in Writing
      PROVE  \E k \in Published .. Published + Copying - 1 : s = k % Size
  <2>1. PICK i \in 0 .. Copying - 1 : s = ((Published % Size) + i) % Size
    BY RingFacts, ProducerValues DEF Writing, Idle, TypeOK
  <2>2. i \in Nat /\ Published + i \in Published .. Published + Copying - 1
    BY <1>0, <1>1
  <2>3. s = (Published + i) % Size
    BY <1>0, <2>1, <2>2, ModuloSum
  <2> QED
    BY <2>2, <2>3
<1>4. ASSUME NEW s \in Reading
      PROVE  \E k \in Taken .. Taken + Popping - 1 : s = k % Size
  <2>1. PICK i \in 0 .. Popping - 1 : s = ((Taken % Size) + i) % Size
    BY RingFacts, ConsumerValues DEF Reading, Idle, TypeOK
  <2>2. i \in Nat /\ Taken + i \in Taken .. Taken + Popping - 1
    BY <1>0, <1>1
  <2>3. s = (Taken + i) % Size
    BY <1>0, <2>1, <2>2, ModuloSum
  <2> QED
    BY <2>2, <2>3
<1>5. ASSUME NEW s \in Writing, s \in Reading
      PROVE  FALSE
  <2>1. PICK w \in Published .. Published + Copying - 1 : s = w % Size
    BY <1>3
  <2>2. PICK r \in Taken .. Taken + Popping - 1 : s = r % Size
    BY <1>4, <1>5
  <2>3. r \in Nat /\ w \in Nat /\ r < w /\ w < r + Size
    BY ONLY <1>0, <1>1, <1>2, w \in Published .. Published + Copying - 1,
            r \in Taken .. Taken + Popping - 1
  <2> QED
    BY <1>0, <2>1, <2>2, <2>3, WindowDistinct
<1> QED
  BY <1>5 DEF NoSlotRace

(* A copy into the ring and a copy out of it never touch the same slot.    *)
THEOREM NeverTheSameSlot == Spec => []NoSlotRace
BY Invariant, NoRace, PTL

(* What either side reads of the other is exact, across the wrap of the    *)
(* counters, and Peek sees what the next Pop delivers.                     *)
THEOREM LooksAlwaysExact == Spec => []LooksExact
<1>1. ASSUME IInv
      PROVE  LooksExact
  <2>1. RingBuffer_GetCount(ring) = Published - Taken
    BY <1>1, RingFacts DEF IInv
  <2>2. /\ Published \in Nat /\ Taken \in Nat /\ Size \in Nat
        /\ Published <= Taken + Size
    BY <1>1, Positions DEF IInv, Counters
  <2>3. Published - Taken <= Size
    BY ONLY <2>2
  <2> QED
    BY <1>1, <2>1, <2>3 DEF LooksExact, IInv, PeekedNext, Published, Taken
<1> QED
  BY Invariant, <1>1, PTL

---------------------------------------------------------------------------
(* The ring implements the bounded queue *)

Held == [i \in 1 .. Published - Taken |-> Taken + i]

(* What the ring holds are the items published and not yet taken.          *)
LEMMA RingHolds ==
    IInv => Contents(ring) = Held
<1> SUFFICES ASSUME IInv
             PROVE  Contents(ring) = [i \in 1 .. Published - Taken |-> Taken + i]
  BY DEF Held
<1> USE DEF IInv
<1>0. /\ Size \in Nat \ {0} /\ Published \in Nat /\ Taken \in Nat
      /\ CounterMod \in Nat \ {0} /\ CounterMod % Size = 0
  BY Positions, SizeAssumption, CounterModAssumption
<1>1. /\ RingBuffer_GetCount(ring) = Published - Taken /\ ring.count = Size
      /\ ring.tail = Taken % CounterMod
  BY RingFacts DEF Counters
<1>2. ASSUME NEW i \in 1 .. Published - Taken
      PROVE  ring.data[(ring.tail + i - 1) % Size] = Taken + i
  <2> DEFINE j == i - 1  t == Taken % CounterMod
  <2>1. j \in Nat /\ Taken + j \in Taken .. Published - 1 /\ Taken + j + 1 = Taken + i
    BY <1>0
  <2>2. t \in Nat /\ t % Size = Taken % Size
    <3>1. t \in Nat
      BY <1>0, Modulo
    <3>2. t % Size = Taken % Size
      BY ONLY <1>0, WrappedSlot
    <3> QED
      BY <3>1, <3>2
  <2>3. t + i - 1 = t + j
    BY <1>0, <2>2
  <2> HIDE DEF j, t
  <2>4. (t + j) % Size = ((t % Size) + j) % Size
    BY <1>0, <2>1, <2>2, ModuloSum
  <2>5. ((Taken % Size) + j) % Size = (Taken + j) % Size
    BY <1>0, <2>1, ModuloSum
  <2>6. ring.data[(Taken + j) % Size] = Taken + j + 1
    BY <2>1 DEF SlotsHold
  <2> QED
    BY <1>1, <2>1, <2>2, <2>3, <2>4, <2>5, <2>6 DEF t
<1> QED
  BY <1>1, <1>2 DEF Contents

(* ... after the step as well.                                             *)
LEMMA RingHoldsNext ==
    (IInv => Contents(ring) = Held)'
BY RingHolds, PTL

(* A store to head publishes a group at once.                              *)
LEMMA PublishStep ==
    ASSUME IInv, IInv', Published' = Published + Copying, UNCHANGED delivered
    PROVE  Fifo!Publish \/ UNCHANGED Fifo!fifoVars
<1> DEFINE n == Copying  q == Published - Taken
           items == [i \in 1 .. n |-> Published + i]
<1>0. /\ Size \in Nat \ {0} /\ Published \in Nat /\ Taken \in Nat /\ MaxItems \in Nat
      /\ n \in Nat /\ ToCopy \in Nat /\ Taken <= Published
  BY Positions, ProducerValues DEF Length, Counters, IInv
<1>1. Taken' = Taken
  BY DEF Taken
<1>2. /\ Contents(ring) = [i \in 1 .. Published - Taken |-> Taken + i]
      /\ Contents(ring)' = [i \in 1 .. Published + n - Taken |-> Taken + i]
  <2>1. Contents(ring)' = [i \in 1 .. Published' - Taken' |-> Taken' + i]
    BY RingHoldsNext DEF Held
  <2>2. Published' - Taken' = Published + n - Taken
    BY <1>0, <1>1
  <2> QED
    BY <1>1, <2>1, <2>2, RingHolds DEF Held
<1>3. q \in Nat /\ Published + n - Taken = q + n /\ n <= Size - q /\ Published + n <= MaxItems
  <2>1. /\ Published + n + ToCopy <= Taken + Size
        /\ Published + n + ToCopy <= MaxItems
    BY DEF IInv, ProducerHasRoom
  <2> QED
    BY ONLY <1>0, <2>1
<1> HIDE DEF n
<1>4. CASE n = 0
  <2>1. Contents(ring)' = Contents(ring)
    BY <1>0, <1>2, <1>3, <1>4
  <2> QED
    BY <2>1 DEF Fifo!fifoVars
<1>5. CASE n > 0
  <2>1. Len(Contents(ring)) = q
    BY <1>2, <1>3
  <2>2. n \in 1 .. Size - q
    BY <1>0, <1>3, <1>5
  <2>3. items \in [1 .. n -> Item]
    BY <1>0, <1>3 DEF Item
  <2>4. Contents(ring)' = Contents(ring) \o items
    BY <1>0, <1>2, <1>3
  <2> QED
    BY <2>1, <2>2, <2>3, <2>4 DEF Fifo!Publish
<1> QED
  BY <1>0, <1>4, <1>5

(* A store to tail takes a group at once.                                  *)
LEMMA TakeStep ==
    ASSUME IInv, IInv', Published' = Published, Taken' = Taken + Popping
    PROVE  Fifo!Take \/ UNCHANGED Fifo!fifoVars
<1> DEFINE n == Popping  q == Published - Taken
<1>0. /\ Size \in Nat \ {0} /\ Published \in Nat /\ Taken \in Nat
      /\ n \in Nat /\ ToPop \in Nat
  BY Positions, ConsumerValues DEF Length, IInv
<1>1. /\ delivered = [i \in 1 .. Taken |-> i]
      /\ delivered' = [i \in 1 .. Taken + n |-> i]
  BY DEF IInv, DeliveredInOrder
<1>2. /\ Contents(ring) = [i \in 1 .. Published - Taken |-> Taken + i]
      /\ Contents(ring)' = [i \in 1 .. Published - (Taken + n) |-> Taken + n + i]
  BY RingHolds, RingHoldsNext DEF Held
<1>3. q \in Nat /\ n <= q /\ Published - (Taken + n) = q - n
  <2>1. Taken + n + ToPop <= Published
    BY DEF IInv, ConsumerHasItems
  <2> QED
    BY ONLY <1>0, <2>1
<1> HIDE DEF n
<1>4. CASE n = 0
  <2>1. Contents(ring)' = Contents(ring) /\ delivered' = delivered
    BY <1>0, <1>1, <1>2, <1>3, <1>4
  <2> QED
    BY <2>1 DEF Fifo!fifoVars
<1>5. CASE n > 0
  <2>1. Len(Contents(ring)) = q
    BY <1>2, <1>3
  <2>2. n \in 1 .. q
    BY <1>0, <1>3, <1>5
  <2>3. delivered' = delivered \o SubSeq(Contents(ring), 1, n)
    BY <1>0, <1>1, <1>2, <1>3, <1>5
  <2>4. Contents(ring)' = SubSeq(Contents(ring), n + 1, q)
    BY <1>0, <1>2, <1>3, <1>5
  <2> QED
    BY <2>1, <2>2, <2>3, <2>4 DEF Fifo!Take
<1> QED
  BY <1>0, <1>4, <1>5

(* Any other step of the ring leaves the queue alone.                      *)
LEMMA QuietStep ==
    ASSUME IInv, IInv', Published' = Published, UNCHANGED delivered
    PROVE  UNCHANGED Fifo!fifoVars
<1>1. Taken' = Taken
  BY DEF Taken
<1>2. Contents(ring)' = Contents(ring)
  BY <1>1, RingHolds, RingHoldsNext DEF Held
<1> QED
  BY <1>2 DEF Fifo!fifoVars

(* Every published item is delivered once and in order: the ring with its  *)
(* copies and its stores in between implements the bounded queue, in which *)
(* a group is published, and a group is taken, in one step.                *)
THEOREM ImplementsTheQueue == Spec => ImplementsFifo
<1>1. Init => Fifo!FifoInit
  <2> SUFFICES ASSUME Init
               PROVE  Fifo!FifoInit
    OBVIOUS
  <2>1. IInv /\ delivered = << >> /\ prod.next = 1
    BY InitIInv DEF Init
  <2>2. Published = 0 /\ Taken = 0
    BY <2>1 DEF Published, Taken
  <2>3. Contents(ring) = << >>
    BY <2>1, <2>2, RingHolds DEF Held
  <2> QED
    BY <2>1, <2>3 DEF Fifo!FifoInit
<1>2. ASSUME IInv, IInv', [Next]_vars
      PROVE  [Fifo!Publish \/ Fifo!Take]_Fifo!fifoVars
  BY <1>2, Steps, Stutter, PublishStep, TakeStep, QuietStep
<1> QED
  BY <1>1, <1>2, Invariant, PTL DEF Spec, ImplementsFifo, Fifo!FifoSpec

=============================================================================
