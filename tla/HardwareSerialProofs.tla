------------------------ MODULE HardwareSerialProofs ------------------------
(***************************************************************************)
(* Theorems about the UART driver of HardwareSerial, for rings of any      *)
(* size, any number of bytes and any depth of the FIFO: the driver keeps   *)
(* the order of the bytes and accounts for each of them in both            *)
(* directions, and never leaves bytes in the transmit ring with the        *)
(* transmit interrupt off once write() has returned.                       *)
(*                                                                         *)
(* The invariant has a half for each direction.  The rings appear in it    *)
(* only as the sequences they hold.  What the operators of the ring buffer *)
(* do to these is proved first: for any size that divides the range of the *)
(* counters an insertion appends, also across the end of the array and the *)
(* wrap of the counters, and a pop takes the first item off.               *)
(***************************************************************************)
EXTENDS HardwareSerial, TLAPS

---------------------------------------------------------------------------
(* Positions and slots: the modulo operator *)

(* Quotient and remainder.                                                 *)
LEMMA Modulo ==
    ASSUME NEW n \in Nat \ {0}, NEW a \in Nat
    PROVE  /\ a % n \in 0 .. n - 1
           /\ \E q \in Nat : a = n * q + (a % n)
<1>1. a \div n \in Nat /\ a = n * (a \div n) + (a % n) /\ a % n \in 0 .. n - 1
  OBVIOUS
<1> QED
  BY <1>1

(* Quotient and remainder are unique.                                      *)
LEMMA Remainder ==
    ASSUME NEW n \in Nat \ {0}, NEW q \in Int, NEW r \in 0 .. n - 1,
           NEW a \in Int, a = n * q + r
    PROVE  a % n = r
OBVIOUS

(* Only 0 is a multiple between -n and n.                                  *)
LEMMA NoMultiple ==
    ASSUME NEW n \in Nat \ {0}, NEW q \in Int, n * q < n, - n < n * q
    PROVE  q = 0
OBVIOUS

(* A common factor taken out.                                              *)
LEMMA Factor ==
    ASSUME NEW n \in Int, NEW p \in Int, NEW q \in Int
    PROVE  n * q - n * p = n * (q - p) /\ n * q + n * p = n * (q + p)
OBVIOUS

(* Two positions in a window of n have different remainders.               *)
LEMMA WindowDistinct ==
    ASSUME NEW n \in Nat \ {0}, NEW a \in Nat, NEW b \in Nat, a < b, b < a + n
    PROVE  a % n # b % n
<1> SUFFICES ASSUME a % n = b % n
             PROVE  FALSE
  OBVIOUS
<1>1. PICK p \in Nat : a = n * p + (a % n)
  BY Modulo
<1>2. PICK q \in Nat : b = n * q + (b % n)
  BY Modulo
<1> DEFINE r == a % n  x == n * p  y == n * q
<1>3. a = x + r /\ b = y + r /\ r \in Nat /\ x \in Int /\ y \in Int
  BY <1>1, <1>2, Modulo
<1>4. y - x = n * (q - p)
  BY Factor
<1> HIDE DEF r, x, y
<1>5. 0 < y - x /\ y - x < n
  BY ONLY <1>3, a \in Nat, b \in Nat, n \in Nat, a < b, b < a + n
<1>6. q - p = 0
  BY <1>4, <1>5, NoMultiple
<1> QED
  BY <1>4, <1>5, <1>6

(* A remainder may be taken early.                                         *)
LEMMA ModuloSum ==
    ASSUME NEW n \in Nat \ {0}, NEW a \in Nat, NEW b \in Nat
    PROVE  (a % n) + b \in Nat /\ ((a % n) + b) % n = (a + b) % n
<1> DEFINE t == a % n  s == t + b  r == s % n
<1>1. PICK p \in Nat : a = n * p + t
  BY Modulo
<1>2. t \in Nat
  BY Modulo
<1>3. s \in Nat /\ s = t + b
  BY <1>2
<1> HIDE DEF t, s
<1>4. PICK q \in Nat : s = n * q + r
  BY <1>3, Modulo
<1>5. r \in 0 .. n - 1
  BY <1>3, Modulo
<1> HIDE DEF r
<1> DEFINE x == n * p  y == n * q
<1>6. x \in Int /\ y \in Int /\ y + x = n * (q + p) /\ a = x + t /\ s = y + r
  BY <1>1, <1>4, Factor
<1> HIDE DEF x, y
<1>7. a + b = n * (q + p) + r
  <2>1. a + b = (y + x) + r
    BY ONLY <1>2, <1>3, <1>5, <1>6, b \in Nat
  <2> QED
    BY <1>6, <2>1
<1>8. (a + b) % n = r
  <2>1. q + p \in Int /\ a + b \in Int
    OBVIOUS
  <2> QED
    BY <1>5, <1>7, <2>1, Remainder
<1> QED
  BY <1>3, <1>8 DEF s, r, t

(* A remainder leaves a small number as it is.                             *)
LEMMA SmallModulo ==
    ASSUME NEW n \in Nat \ {0}, NEW a \in 0 .. n - 1
    PROVE  a % n = a
OBVIOUS

(* A segment that does not pass the end of the array has its slots in a    *)
(* row, and one that ends there is followed by slot 0.                     *)
LEMMA SegmentSlots ==
    ASSUME NEW n \in Nat \ {0}, NEW a \in Nat, NEW b \in Nat
    PROVE  /\ (a % n) + b < n => (a + b) % n = (a % n) + b
           /\ (a % n) + b = n => (a + b) % n = 0
<1>1. (a % n) + b \in Nat /\ ((a % n) + b) % n = (a + b) % n
  BY ModuloSum
<1>2. (a % n) + b < n => ((a % n) + b) % n = (a % n) + b
  BY <1>1, SmallModulo
<1>3. n % n = 0
  OBVIOUS
<1> QED
  BY <1>1, <1>2, <1>3

(* The difference of two counters that wrap is that of the positions.      *)
LEMMA WrappedDifference ==
    ASSUME NEW n \in Nat \ {0}, NEW a \in Nat, NEW b \in Nat, b <= a, a - b < n
    PROVE  ((a % n) - (b % n)) % n = a - b
<1>1. PICK p \in Nat : a = n * p + (a % n)
  BY Modulo
<1>2. PICK q \in Nat : b = n * q + (b % n)
  BY Modulo
<1>3. a % n \in Nat /\ b % n \in Nat
  BY Modulo
<1>4. n * q - n * p = n * (q - p)
  BY Factor
<1>5. n * p \in Int /\ n * q \in Int
  OBVIOUS
<1> DEFINE r == a % n  s == b % n  x == n * p  y == n * q
<1>6. r - s = n * (q - p) + (a - b)
  <2>1. a = x + r /\ b = y + s /\ r \in Nat /\ s \in Nat /\ x \in Int /\ y \in Int
    BY <1>1, <1>2, <1>3, <1>5
  <2> HIDE DEF r, s, x, y
  <2>2. r - s = (y - x) + (a - b)
    BY ONLY <2>1
  <2> QED
    BY <1>4, <2>2 DEF x, y
<1>7. q - p \in Int /\ a - b \in 0 .. n - 1
  OBVIOUS
<1> QED
  BY <1>6, <1>7, Remainder

(* The slot of a counter that wraps is that of the position.               *)
LEMMA WrappedSlot ==
    ASSUME NEW n \in Nat \ {0}, NEW m \in Nat \ {0}, m % n = 0, NEW a \in Nat
    PROVE  (a % m) % n = a % n
<1>1. PICK k \in Nat : m = n * k
  <2>1. PICK k \in Nat : m = n * k + (m % n)
    BY Modulo
  <2>2. n * k \in Int
    OBVIOUS
  <2> QED
    BY <2>1, <2>2
<1> DEFINE t == a % m  r == t % n
<1>2. PICK q \in Nat : a = m * q + t
  BY Modulo
<1>3. t \in Nat
  BY Modulo
<1> HIDE DEF t
<1>4. PICK p \in Nat : t = n * p + r
  BY <1>3, Modulo
<1>5. r \in 0 .. n - 1
  BY <1>3, Modulo
<1> HIDE DEF r
<1>6. m * q = n * (k * q) /\ k * q \in Nat
  BY <1>1
<1> DEFINE j == k * q  x == n * j  y == n * p
<1>7. j \in Nat /\ x + y = n * (j + p) /\ a = x + t /\ t = y + r /\ x \in Int /\ y \in Int
  BY <1>2, <1>4, <1>6, Factor
<1> HIDE DEF j, x, y
<1>8. a = n * (j + p) + r
  <2>1. a = (x + y) + r
    BY ONLY <1>3, <1>5, <1>7
  <2> QED
    BY <1>7, <2>1
<1>9. a % n = r
  <2> DEFINE i == j + p
  <2>1. i \in Int /\ a \in Int /\ a = n * i + r
    BY <1>7, <1>8
  <2> HIDE DEF i
  <2> QED
    BY <1>5, <2>1, Remainder
<1> QED
  BY <1>9 DEF r, t

(* The slots of a segment that does not pass the end of the array.         *)
LEMMA RowOfSlots ==
    ASSUME NEW n \in Nat \ {0}, NEW a \in Nat, NEW c \in Nat, (a % n) + c <= n
    PROVE  /\ \A k \in a .. a + c - 1 : k % n = (a % n) + (k - a)
           /\ (a % n) + c = n => (a + c) % n = 0
<1>1. a % n \in Nat
  BY Modulo
<1>2. ASSUME NEW k \in a .. a + c - 1
      PROVE  k % n = (a % n) + (k - a)
  <2> DEFINE j == k - a
  <2>1. j \in Nat /\ a + j = k /\ (a % n) + j < n
    BY <1>1
  <2> HIDE DEF j
  <2>2. (a + j) % n = (a % n) + j
    BY <1>1, <2>1, SegmentSlots
  <2> QED
    BY <2>1, <2>2 DEF j
<1> QED
  BY <1>1, <1>2, SegmentSlots

(* The two segments of a call: they fit into the room and into the array.  *)
LEMMA SegmentsFit ==
    ASSUME NEW size \in Nat \ {0},
           NEW index \in 0 .. size - 1, NEW room \in 1 .. size, NEW num \in Nat
    PROVE  \E a, b \in 0 .. size :
              /\ Segments(index, room, num, size) = <<a, b>>
              /\ a + b <= room /\ a + b <= num
              /\ index + a <= size
              /\ b > 0 => index + a = size
<1> DEFINE first == IF index + room >= size THEN size - index ELSE room
           a == IF first < num THEN first ELSE num
           b == IF room - first < num - a THEN room - first ELSE num - a
<1>1. /\ first \in Nat /\ first <= room /\ index + first <= size
      /\ first < room => index + first = size
  OBVIOUS
<1> HIDE DEF first
<1>2. a \in Nat /\ a <= first /\ a <= num /\ (a < num => a = first)
  BY <1>1
<1> HIDE DEF a
<1>3. /\ b \in Nat /\ a + b <= room /\ a + b <= num
      /\ b > 0 => a < num /\ first < room
  BY <1>1, <1>2
<1> HIDE DEF b
<1>4. a \in 0 .. size /\ b \in 0 .. size
  BY <1>1, <1>2, <1>3
<1>5. index + a <= size /\ (b > 0 => index + a = size)
  BY <1>1, <1>2, <1>3
<1>6. Segments(index, room, num, size) = <<a, b>>
  BY DEF Segments, Least, a, b, first
<1> QED
  BY <1>3, <1>4, <1>5, <1>6

---------------------------------------------------------------------------
(* A ring of any size that divides the range of its counters *)

Divides(size) == size \in Nat \ {0} /\ size < CounterMod /\ CounterMod % size = 0

\* A ring whose counters are no further apart than there are slots
Sound(r, size, S) == r \in Ring(size, S) /\ RingBuffer_GetCount(r) <= size

(* The counters of a ring, the slots they mean, and what it holds.         *)
LEMMA RingState ==
    ASSUME NEW size, Divides(size), NEW S, NEW r, Sound(r, size, S)
    PROVE  /\ r.tail \in 0 .. CounterMod - 1 /\ r.head \in 0 .. CounterMod - 1
           /\ r.count = size /\ r.data \in [0 .. size - 1 -> S]
           /\ RingBuffer_GetCount(r) \in 0 .. size
           /\ r.head = (r.tail + RingBuffer_GetCount(r)) % CounterMod
           /\ RB_INDH(r) = (r.tail + RingBuffer_GetCount(r)) % size
           /\ RB_INDT(r) = r.tail % size
           /\ RB_INDH(r) \in 0 .. size - 1
           /\ Contents(r) = [i \in 1 .. RingBuffer_GetCount(r) |->
                               r.data[(r.tail + i - 1) % size]]
<1> DEFINE h == r.head  t == r.tail  c == RingBuffer_GetCount(r)
<1>0. /\ size \in Nat \ {0} /\ CounterMod \in Nat \ {0} /\ CounterMod % size = 0
      /\ size < CounterMod
  BY CounterModAssumption DEF Divides
<1>1. /\ t \in 0 .. CounterMod - 1 /\ h \in 0 .. CounterMod - 1
      /\ r.count = size /\ r.data \in [0 .. size - 1 -> S] /\ c <= size
  BY DEF Sound, Ring
<1>2. c = (h - t) % CounterMod
  BY DEF RingBuffer_GetCount
<1> HIDE DEF h, t, c
<1>3. c \in 0 .. CounterMod - 1
  BY <1>0, <1>1, <1>2
<1>4. t + c \in Nat
  BY ONLY <1>0, <1>1, <1>3
<1>5. h = (t + c) % CounterMod
  <2> DEFINE d == h - t  n == CounterMod
  <2>1. d \in Int /\ n \in Nat \ {0} /\ c = d % n /\ h = t + d
    BY ONLY <1>0, <1>1, <1>2
  <2> HIDE DEF d
  <2> DEFINE q == d \div n
  <2>2. d = n * q + c /\ q \in Int
    BY <2>1
  <2> HIDE DEF q
  <2> DEFINE x == n * q  y == n * (- q)
  <2>3. x \in Int /\ y \in Int /\ y = - x
    BY <2>1, <2>2
  <2>4. d = x + c
    BY <2>2
  <2> HIDE DEF x, y, n
  <2>5. t + c = y + h
    BY ONLY <1>1, <1>3, <2>1, <2>3, <2>4
  <2>6. h \in 0 .. n - 1 /\ - q \in Int /\ t + c \in Int
    BY <1>1, <1>4, <2>2 DEF n
  <2>7. (t + c) % n = h
    <3>1. t + c = n * (- q) + h
      BY <2>5 DEF y
    <3> DEFINE p == - q  a == t + c
    <3>2. p \in Int /\ a \in Int /\ a = n * p + h
      BY <2>6, <3>1
    <3> HIDE DEF p, a
    <3>3. n \in Nat \ {0} /\ h \in 0 .. n - 1
      BY <2>1, <2>6
    <3>4. a % n = h
      BY ONLY <3>2, <3>3, Remainder
    <3> QED
      BY <3>4 DEF a
  <2> QED
    BY <2>7 DEF n
<1>6. RB_INDH(r) = (t + c) % size /\ RB_INDT(r) = t % size
  <2>1. ((t + c) % CounterMod) % size = (t + c) % size
    BY ONLY <1>0, <1>4, WrappedSlot
  <2> QED
    BY <1>1, <1>5, <2>1 DEF RB_INDH, RB_INDT, h, t
<1>7. (t + c) % size \in 0 .. size - 1
  BY ONLY <1>0, <1>4, Modulo
<1>8. c \in 0 .. size
  BY <1>0, <1>1, <1>3
<1> QED
  BY <1>1, <1>5, <1>6, <1>7, <1>8 DEF h, t, c, Contents

(* A copy in and the store to head append the items, if they fit behind    *)
(* those the ring holds without passing the end of the array.              *)
LEMMA AppendSegment ==
    ASSUME NEW size, Divides(size), NEW S, NEW r, Sound(r, size, S),
           NEW items \in Seq(S),
           RingBuffer_GetCount(r) + Len(items) <= size,
           RB_INDH(r) + Len(items) <= size,
           NEW s, s = AdvanceHead(CopyIn(r, items), Len(items))
    PROVE  /\ Sound(s, size, S) /\ s.tail = r.tail
           /\ s.head = (r.head + Len(items)) % CounterMod
           /\ RingBuffer_GetCount(s) = RingBuffer_GetCount(r) + Len(items)
           /\ Contents(s) = Contents(r) \o items
           /\ RB_INDH(s) = (RB_INDH(r) + Len(items)) % size
<1> DEFINE n == Len(items)  c == RingBuffer_GetCount(r)  t == r.tail
           p == t + c  h == p % size
<1>0. /\ size \in Nat \ {0} /\ CounterMod \in Nat \ {0} /\ CounterMod % size = 0
      /\ size < CounterMod /\ n \in Nat
  BY CounterModAssumption DEF Divides
<1>1. /\ t \in 0 .. CounterMod - 1 /\ c \in 0 .. size /\ r.data \in [0 .. size - 1 -> S]
      /\ r.head = p % CounterMod /\ RB_INDH(r) = h /\ r.count = size
      /\ Contents(r) = [i \in 1 .. c |-> r.data[(t + i - 1) % size]]
      /\ r.head \in 0 .. CounterMod - 1 /\ r \in Ring(size, S)
  BY RingState DEF Sound
<1>2. c + n <= size /\ h + n <= size
  BY <1>1
<1>3. /\ s = [r EXCEPT !.head = (r.head + n) % CounterMod,
                       !.data = [i \in 0 .. size - 1 |->
                                   IF i \in h .. h + n - 1 THEN items[i - h + 1]
                                   ELSE r.data[i]]]
  BY <1>1 DEF AdvanceHead, CopyIn, Ring
<1> DEFINE data == [i \in 0 .. size - 1 |->
                      IF i \in h .. h + n - 1 THEN items[i - h + 1] ELSE r.data[i]]
<1> HIDE DEF n, c, t
<1>4. p \in Nat /\ h \in 0 .. size - 1 /\ p = t + c /\ h = p % size
  <2>0. t \in Nat /\ c \in Nat
    BY <1>0, <1>1
  <2>1. p \in Nat
    BY ONLY <2>0 DEF p
  <2> QED
    BY <1>0, <2>1, Modulo
<1> HIDE DEF p, h
<1>5. data \in [0 .. size - 1 -> S]
  <2>1. \A i \in h .. h + n - 1 : i - h + 1 \in 1 .. n
    BY <1>0, <1>4
  <2>2. \A i \in 1 .. n : items[i] \in S
    BY DEF n
  <2> QED
    BY <1>1, <2>1, <2>2
<1>6. (r.head + n) % CounterMod = (p + n) % CounterMod
  <2>1. ((p % CounterMod) + n) % CounterMod = (p + n) % CounterMod
    BY ONLY <1>0, <1>4, ModuloSum
  <2> QED
    BY <1>1, <2>1
<1>7. /\ s.head = (p + n) % CounterMod /\ s.tail = t /\ s.count = size /\ s.data = data
      /\ s.head = (r.head + n) % CounterMod
  BY <1>1, <1>3, <1>6 DEF Ring, t
<1>8. (p + n) % CounterMod \in 0 .. CounterMod - 1
  <2>1. p + n \in Nat
    BY ONLY <1>0, <1>4
  <2> QED
    BY ONLY <1>0, <2>1, Modulo
<1>9. s \in Ring(size, S)
  BY <1>1, <1>3, <1>5, <1>6, <1>8 DEF Ring
<1>10. RingBuffer_GetCount(s) = c + n
  <2>1. /\ p + n \in Nat /\ t \in Nat /\ t <= p + n /\ (p + n) - t < CounterMod
        /\ (p + n) - t = c + n
    <3>1. t \in Nat /\ c \in Nat /\ n \in Nat /\ size \in Nat /\ CounterMod \in Nat
      BY ONLY <1>0, <1>1
    <3>2. c + n <= size /\ size < CounterMod /\ p = t + c
      BY ONLY <1>0, <1>2, <1>4
    <3> QED
      BY ONLY <3>1, <3>2
  <2>2. (((p + n) % CounterMod) - (t % CounterMod)) % CounterMod = (p + n) - t
    BY ONLY <1>0, <2>1, WrappedDifference
  <2>3. t % CounterMod = t
    BY ONLY <1>0, <1>1, SmallModulo
  <2> QED
    BY <1>7, <2>1, <2>2, <2>3 DEF RingBuffer_GetCount
<1>11. Sound(s, size, S)
  BY <1>2, <1>9, <1>10 DEF Sound
<1>12. RB_INDH(s) = (h + n) % size
  <2>1. RB_INDH(s) = ((p + n) % CounterMod) % size
    BY <1>7 DEF RB_INDH
  <2>2. p + n \in Nat
    BY ONLY <1>0, <1>4
  <2>3. ((p + n) % CounterMod) % size = (p + n) % size
    BY ONLY <1>0, <2>2, WrappedSlot
  <2>4. (h + n) % size = (p + n) % size
    BY <1>0, <1>4, ModuloSum
  <2> QED
    BY <2>1, <2>3, <2>4
<1>13. Contents(s) = [i \in 1 .. c + n |-> data[(t + i - 1) % size]]
  BY <1>7, <1>10 DEF Contents
<1> HIDE DEF data
<1>14. \A k \in p .. p + n - 1 : k % size = h + (k - p)
  <2>1. size \in Nat \ {0} /\ n \in Nat /\ p \in Nat /\ (p % size) + n <= size
    BY ONLY <1>0, <1>2, <1>4
  <2>2. \A k \in p .. p + n - 1 : k % size = (p % size) + (k - p)
    BY ONLY <2>1, RowOfSlots
  <2> QED
    BY ONLY <1>4, <2>2
<1>15. ASSUME NEW i \in 1 .. c
       PROVE  data[(t + i - 1) % size] = r.data[(t + i - 1) % size]
  <2> DEFINE k == t + i - 1  j == k % size
  <2>1. k \in Nat /\ k < p /\ p <= k + size - n
    BY ONLY <1>0, <1>1, <1>2, <1>4, i \in 1 .. c
  <2> HIDE DEF k
  <2>2. j \in 0 .. size - 1
    BY <1>0, <2>1, Modulo
  <2>3. j \notin h .. h + n - 1
    <3> SUFFICES ASSUME j \in h .. h + n - 1
                 PROVE  FALSE
      OBVIOUS
    <3> HIDE DEF j
    <3> DEFINE k2 == p + (j - h)
    <3>1. /\ k2 \in p .. p + n - 1 /\ k2 - p = j - h /\ k2 \in Nat
          /\ k < k2 /\ k2 < k + size
      BY ONLY SMTT(30), <1>0, <1>4, <2>1, j \in h .. h + n - 1
    <3> HIDE DEF k2
    <3>2. k2 % size = h + (k2 - p)
      BY <1>14, <3>1
    <3>3. k2 % size = j
      BY <1>4, <2>2, <3>1, <3>2
    <3>4. k2 % size # k % size
      BY ONLY <1>0, <2>1, <3>1, WindowDistinct
    <3> QED
      BY <3>3, <3>4 DEF j
  <2>4. data[j] = r.data[j]
    BY <2>2, <2>3 DEF data
  <2> QED
    BY <2>4 DEF j, k
<1>16. ASSUME NEW i \in 1 .. n
       PROVE  data[(t + (c + i) - 1) % size] = items[i]
  <2> DEFINE k == t + (c + i) - 1  j == h + (k - p)
  <2>1. k \in p .. p + n - 1 /\ k - p = i - 1
    BY ONLY <1>0, <1>1, <1>4, i \in 1 .. n
  <2> HIDE DEF k
  <2>2. j \in h .. h + n - 1 /\ j \in 0 .. size - 1 /\ j - h + 1 = i
    <3>1. h \in Nat /\ h + n <= size /\ k - p = i - 1
      BY <1>2, <1>4, <2>1
    <3>2. j = h + (i - 1)
      BY <3>1
    <3> HIDE DEF j
    <3> QED
      BY ONLY <1>0, <3>1, <3>2, i \in 1 .. n
  <2>3. k % size = j
    BY <1>14, <2>1
  <2> HIDE DEF j
  <2>4. data[j] = items[j - h + 1]
    BY <2>2 DEF data
  <2>5. data[j] = items[i]
    BY <2>2, <2>4
  <2> QED
    BY <2>3, <2>5 DEF k
<1>17. Contents(s) = Contents(r) \o items
  <2> DEFINE d(i) == data[(t + i - 1) % size]  old == Contents(r)
  <2>1. /\ Contents(s) = [i \in 1 .. c + n |-> d(i)]
        /\ old = [i \in 1 .. c |-> d(i)]
    BY <1>1, <1>13, <1>15
  <2>2. \A i \in 1 .. n : d(c + i) = items[i]
    BY <1>16
  <2>3. c \in Nat
    BY <1>1
  <2> HIDE DEF d
  <2>4. old \o items = [i \in 1 .. c + n |-> IF i <= c THEN old[i] ELSE items[i - c]]
    BY <1>0, <2>1, <2>3 DEF n
  <2>5. ASSUME NEW i \in 1 .. c + n, ~ (i <= c)
        PROVE  items[i - c] = d(i)
    <3>1. i - c \in 1 .. n /\ c + (i - c) = i
      BY <1>0, <2>3, <2>5
    <3> DEFINE j == i - c
    <3> HIDE DEF j
    <3>2. j \in 1 .. n /\ c + j = i
      BY <3>1 DEF j
    <3>3. items[j] = d(i)
      BY <2>2, <3>2
    <3> QED
      BY <3>3 DEF j
  <2>6. \A i \in 1 .. c + n : i <= c => i \in 1 .. c
    BY <1>0, <2>3
  <2>7. \A i \in 1 .. c + n : (IF i <= c THEN old[i] ELSE items[i - c]) = d(i)
    BY <2>1, <2>5, <2>6
  <2> QED
    BY <2>1, <2>4, <2>7
<1> QED
  BY <1>1, <1>7, <1>10, <1>11, <1>12, <1>17 DEF n, c, t

(* Concatenation is associative.                                           *)
LEMMA ConcatAssoc ==
    ASSUME NEW S, NEW a \in Seq(S), NEW b \in Seq(S), NEW d \in Seq(S)
    PROVE  (a \o b) \o d = a \o (b \o d)
OBVIOUS

(* A ring as RingBuffer_Init leaves it holds nothing.                      *)
LEMMA EmptyRing ==
    ASSUME NEW size, Divides(size), NEW S, NEW x \in S
    PROVE  /\ Sound(RingBuffer_Init(size, x), size, S)
           /\ Contents(RingBuffer_Init(size, x)) = << >>
<1> DEFINE r == RingBuffer_Init(size, x)
<1>1. size \in Nat \ {0} /\ CounterMod \in Nat \ {0}
  BY CounterModAssumption DEF Divides
<1>2. r = [head |-> 0, tail |-> 0, count |-> size, data |-> [i \in 0 .. size - 1 |-> x]]
  BY DEF RingBuffer_Init
<1>3. 0 \in 0 .. CounterMod - 1 /\ (0 - 0) % CounterMod = 0
  BY <1>1
<1>4. r \in Ring(size, S)
  BY <1>2, <1>3 DEF Ring
<1>5. RingBuffer_GetCount(r) = 0
  BY <1>2, <1>3 DEF RingBuffer_GetCount
<1> HIDE DEF r
<1>6. Sound(r, size, S)
  BY <1>1, <1>4, <1>5 DEF Sound
<1>7. Contents(r) = << >>
  BY <1>5 DEF Contents
<1> QED
  BY <1>6, <1>7 DEF r

(* A ring whose counters are equal holds nothing, and no other ring does.  *)
LEMMA EmptyOrNot ==
    ASSUME NEW size, Divides(size), NEW S, NEW r, Sound(r, size, S)
    PROVE  /\ RingBuffer_IsEmpty(r) <=> RingBuffer_GetCount(r) = 0
           /\ Contents(r) \in Seq(S) /\ Len(Contents(r)) = RingBuffer_GetCount(r)
           /\ RingBuffer_IsFull(r) <=> RingBuffer_GetCount(r) = size
<1> DEFINE c == RingBuffer_GetCount(r)  t == r.tail
<1>0. /\ size \in Nat \ {0} /\ CounterMod \in Nat \ {0} /\ size < CounterMod
  BY CounterModAssumption DEF Divides
<1>1. /\ t \in 0 .. CounterMod - 1 /\ c \in 0 .. size /\ r.data \in [0 .. size - 1 -> S]
      /\ r.head = (t + c) % CounterMod /\ r.count = size
      /\ Contents(r) = [i \in 1 .. c |-> r.data[(t + i - 1) % size]]
  BY RingState
<1> HIDE DEF c, t
<1>2. t % CounterMod = t
  BY ONLY <1>0, <1>1, SmallModulo
<1>3. c > 0 => (t + c) % CounterMod # t
  <2>1. t \in Nat /\ t + c \in Nat /\ (c > 0 => t < t + c) /\ t + c < t + CounterMod
    BY <1>0, <1>1
  <2> DEFINE p == t + c
  <2>2. t \in Nat /\ p \in Nat /\ (c > 0 => t < p) /\ p < t + CounterMod
    BY <2>1
  <2> HIDE DEF p
  <2>3. c > 0 => p % CounterMod # t % CounterMod
    BY ONLY <1>0, <2>2, WindowDistinct
  <2> QED
    BY <1>2, <2>3 DEF p
<1>4. c = 0 => (t + c) % CounterMod = t
  <2>1. c = 0 => t + c = t
    BY <1>0, <1>1
  <2> QED
    BY <1>2, <2>1
<1>5. RingBuffer_IsEmpty(r) <=> c = 0
  <2>1. c = 0 \/ c > 0
    BY <1>1
  <2> QED
    BY <1>1, <1>3, <1>4, <2>1 DEF RingBuffer_IsEmpty, t
<1>6. ASSUME NEW i \in 1 .. c
      PROVE  r.data[(t + i - 1) % size] \in S
  <2> DEFINE p == t + i - 1
  <2>1. p \in Nat
    BY <1>1
  <2> HIDE DEF p
  <2>2. p % size \in 0 .. size - 1
    BY ONLY <1>0, <2>1, Modulo
  <2> QED
    BY <1>1, <2>2 DEF p
<1>7. Contents(r) \in Seq(S) /\ Len(Contents(r)) = c
  <2>1. c \in Nat
    BY <1>1
  <2> QED
    BY <1>1, <1>6, <2>1
<1>8. RingBuffer_IsFull(r) <=> c = size
  <2>1. c >= size <=> c = size
    BY <1>0, <1>1
  <2> QED
    BY <1>1, <2>1 DEF RingBuffer_IsFull, c
<1> QED
  BY <1>5, <1>7, <1>8 DEF c

\* s is r with as many of the items appended as the difference of the heads says
AppendsSome(r, s, items, size, S) ==
    \E n \in 0 .. Len(items) :
       /\ Sound(s, size, S)
       /\ Contents(s) = Contents(r) \o SubSeq(items, 1, n)
       /\ (s.head - r.head) % CounterMod = n

(* RingBuffer_InsertMult appends as many of the items as it takes.         *)
LEMMA InsertMultAppends ==
    ASSUME NEW size, Divides(size), NEW S, NEW r, Sound(r, size, S),
           NEW items, items \in Seq(S),
           NEW s, s = RingBuffer_InsertMult(r, items)
    PROVE  AppendsSome(r, s, items, size, S)
<1> DEFINE c == RingBuffer_GetCount(r)  h == RB_INDH(r)  m == Len(items)
           p == r.tail + c
<1>0. /\ size \in Nat \ {0} /\ CounterMod \in Nat \ {0} /\ size < CounterMod
      /\ m \in Nat
  BY CounterModAssumption DEF Divides
<1>1. /\ c \in 0 .. size /\ h \in 0 .. size - 1 /\ p \in Nat
      /\ r.head = p % CounterMod /\ h = p % size /\ r.count = size
  <2>1. /\ c \in 0 .. size /\ h \in 0 .. size - 1 /\ r.tail \in 0 .. CounterMod - 1
        /\ r.head = p % CounterMod /\ h = p % size /\ r.count = size
    BY RingState
  <2>2. c \in Nat /\ r.tail \in Nat
    BY <1>0, <2>1
  <2> HIDE DEF c
  <2>3. p \in Nat
    BY ONLY <2>2 DEF p
  <2> QED
    BY <2>1, <2>3
<1>2. CASE RingBuffer_IsFull(r)
  <2>1. s = r
    BY <1>2 DEF RingBuffer_InsertMult
  <2>2. (r.head - r.head) % CounterMod = 0
    <3>1. r.head \in Int
      BY <1>0, RingState
    <3>2. r.head - r.head = 0
      BY <3>1
    <3> QED
      BY <1>0, <3>2
  <2>3. SubSeq(items, 1, 0) = << >> /\ Contents(r) \o << >> = Contents(r)
    BY EmptyOrNot
  <2>4. 0 \in 0 .. Len(items)
    BY <1>0
  <2> QED
    BY <2>1, <2>2, <2>3, <2>4 DEF AppendsSome
<1>3. CASE ~ RingBuffer_IsFull(r)
  <2> DEFINE room == size - c
  <2>1. room \in 1 .. size
    BY <1>0, <1>1, <1>3, EmptyOrNot
  <2>2. InsertSegments(r, m) = Segments(h, room, m, size)
    BY <1>1 DEF InsertSegments, RingBuffer_GetFree
  <2> HIDE DEF room, h, m, c
  <2>3. PICK a \in 0 .. size, b \in 0 .. size :
              /\ Segments(h, room, m, size) = <<a, b>>
              /\ a + b <= room /\ a + b <= m
              /\ h + a <= size
              /\ b > 0 => h + a = size
    <3>1. /\ size \in Nat \ {0} /\ h \in 0 .. size - 1 /\ room \in 1 .. size
          /\ m \in Nat
      BY <1>0, <1>1, <2>1
    <3> QED
      BY ONLY SMTT(30), <3>1, SegmentsFit
  <2> DEFINE one == SubSeq(items, 1, a)  two == SubSeq(items, a + 1, a + b)
             r1 == AdvanceHead(CopyIn(r, one), a)
             r2 == AdvanceHead(CopyIn(r1, two), b)
  <2>4. s = r2
    BY <1>3, <2>2, <2>3 DEF RingBuffer_InsertMult, m
  <2>5. /\ one \in Seq(S) /\ two \in Seq(S) /\ Len(one) = a /\ Len(two) = b
        /\ one \o two = SubSeq(items, 1, a + b)
    <3>1. a \in Nat /\ b \in Nat /\ a <= Len(items) /\ a + b <= Len(items)
      BY <1>0, <2>3 DEF m
    <3> QED
      BY <3>1
  <2>6. a \in Nat /\ b \in Nat /\ c + a <= size /\ (c + a) + b <= size /\ a + b \in 0 .. m
        /\ a + b < CounterMod
    BY <1>0, <1>1, <2>1, <2>3 DEF room
  <2> HIDE DEF one, two
  <2>7. /\ Sound(r1, size, S) /\ r1.head = (r.head + a) % CounterMod
        /\ RingBuffer_GetCount(r1) = c + a
        /\ Contents(r1) = Contents(r) \o one
        /\ RB_INDH(r1) = (h + a) % size
    <3>1. /\ RingBuffer_GetCount(r) + Len(one) <= size
          /\ RB_INDH(r) + Len(one) <= size
      BY <2>3, <2>5, <2>6 DEF c, h
    <3>2. r1 = AdvanceHead(CopyIn(r, one), Len(one))
      BY <2>5
    <3> HIDE DEF r1
    <3>3. Divides(size) /\ Sound(r, size, S) /\ one \in Seq(S) /\ Len(one) = a
      BY <2>5
    <3> QED
      BY ONLY <3>1, <3>2, <3>3, AppendSegment DEF c, h
  <2>8. RB_INDH(r1) + b <= size
    <3>1. (h + a) % size \in 0 .. size - 1
      BY <1>0, <1>1, <2>6
    <3>2. h + a = size => (h + a) % size = 0
      BY <1>0
    <3> DEFINE k == (h + a) % size
    <3> HIDE DEF k
    <3>3. k \in 0 .. size - 1 /\ (b > 0 => k = 0)
      BY <2>3, <3>1, <3>2 DEF k
    <3>4. k + b <= size
      BY ONLY <1>0, <2>6, <2>3, <3>3
    <3> QED
      BY <2>7, <3>4 DEF k
  <2> HIDE DEF r1
  <2>9. /\ Sound(r2, size, S) /\ r2.head = (r1.head + b) % CounterMod
        /\ Contents(r2) = Contents(r1) \o two
    <3>1. /\ RingBuffer_GetCount(r1) + Len(two) <= size
          /\ RB_INDH(r1) + Len(two) <= size
      BY <2>5, <2>6, <2>7, <2>8
    <3>2. r2 = AdvanceHead(CopyIn(r1, two), Len(two))
      BY <2>5
    <3> HIDE DEF r2
    <3>3. Divides(size) /\ Sound(r1, size, S) /\ two \in Seq(S) /\ Len(two) = b
      BY <2>5, <2>7
    <3> QED
      BY ONLY <3>1, <3>2, <3>3, AppendSegment
  <2> HIDE DEF r2
  <2>10. Contents(r2) = Contents(r) \o SubSeq(items, 1, a + b)
    <3>1. Contents(r) \in Seq(S)
      BY EmptyOrNot
    <3>2. one \in Seq(S) /\ two \in Seq(S)
      BY <2>5
    <3>3. (Contents(r) \o one) \o two = Contents(r) \o (one \o two)
      BY ONLY <3>1, <3>2, ConcatAssoc
    <3> QED
      BY ONLY <2>5, <2>7, <2>9, <3>3
  <2>11. (r2.head - r.head) % CounterMod = a + b
    <3>1. r1.head = (p + a) % CounterMod
      <4>1. ((p % CounterMod) + a) % CounterMod = (p + a) % CounterMod
        BY ONLY <1>0, <1>1, <2>6, ModuloSum
      <4> QED
        BY ONLY <1>1, <2>7, <4>1
    <3>2. r2.head = (p + a + b) % CounterMod
      <4>1. p + a \in Nat
        BY ONLY <1>1, <2>6
      <4>2. (((p + a) % CounterMod) + b) % CounterMod = ((p + a) + b) % CounterMod
        BY ONLY <1>0, <2>6, <4>1, ModuloSum
      <4> QED
        BY <2>9, <3>1, <4>2
    <3> DEFINE q == p + a + b
    <3> HIDE DEF p
    <3>3. p \in Nat /\ q \in Nat /\ p <= q /\ q - p < CounterMod /\ q - p = a + b
      BY ONLY <1>0, <1>1, <2>6 DEF q
    <3> HIDE DEF q
    <3>4. ((q % CounterMod) - (p % CounterMod)) % CounterMod = q - p
      BY ONLY <1>0, <3>3, WrappedDifference
    <3> QED
      BY <1>1, <3>2, <3>3, <3>4 DEF q
  <2> QED
    BY <2>4, <2>6, <2>9, <2>10, <2>11 DEF m, AppendsSome
<1> QED
  BY <1>2, <1>3

(* RingBuffer_Insert appends the item, or drops it when the ring is full.  *)
LEMMA InsertAppends ==
    ASSUME NEW size, Divides(size), NEW S, NEW r, Sound(r, size, S), NEW x \in S,
           NEW s, s = RingBuffer_Insert(r, x)
    PROVE  /\ Sound(s, size, S)
           /\ Contents(s) = IF RingBuffer_IsFull(r) THEN Contents(r)
                            ELSE Append(Contents(r), x)
<1>1. CASE RingBuffer_IsFull(r)
  BY <1>1 DEF RingBuffer_Insert
<1>2. CASE ~ RingBuffer_IsFull(r)
  <2> DEFINE c == RingBuffer_GetCount(r)  h == RB_INDH(r)
  <2>1. size \in Nat \ {0} /\ c \in 0 .. size /\ h \in 0 .. size - 1 /\ c # size
    BY <1>2, RingState, EmptyOrNot DEF Divides
  <2> HIDE DEF c, h
  <2>2. c + 1 <= size /\ h + 1 <= size
    BY ONLY <2>1
  <2>3. <<x>> \in Seq(S) /\ Len(<<x>>) = 1
    OBVIOUS
  <2>4. s = AdvanceHead(CopyIn(r, <<x>>), Len(<<x>>))
    BY <1>2, <2>3 DEF RingBuffer_Insert
  <2>5. Sound(s, size, S) /\ Contents(s) = Contents(r) \o <<x>>
    <3> DEFINE items == <<x>>
    <3>1. /\ items \in Seq(S) /\ c + Len(items) <= size /\ h + Len(items) <= size
          /\ s = AdvanceHead(CopyIn(r, items), Len(items))
      BY <2>2, <2>3, <2>4
    <3> HIDE DEF items
    <3>2. Sound(s, size, S) /\ Contents(s) = Contents(r) \o items
      BY <3>1, AppendSegment DEF c, h
    <3> QED
      BY <3>2 DEF items
  <2>6. Contents(r) \in Seq(S)
    BY EmptyOrNot
  <2>7. Contents(r) \o <<x>> = Append(Contents(r), x)
    BY <2>6
  <2> QED
    BY <1>2, <2>5, <2>7
<1> QED
  BY <1>1, <1>2

(* RingBuffer_Pop takes the item off that a copy out of the ring gives.    *)
LEMMA PopTakes ==
    ASSUME NEW size, Divides(size), NEW S, NEW r, Sound(r, size, S),
           ~ RingBuffer_IsEmpty(r),
           NEW s, s = RingBuffer_Pop(r)
    PROVE  /\ Sound(s, size, S)
           /\ Contents(r) # << >>
           /\ CopyOut(r, 1)[1] = Head(Contents(r)) /\ CopyOut(r, 1)[1] \in S
           /\ Contents(s) = Tail(Contents(r))
<1> DEFINE c == RingBuffer_GetCount(r)  t == r.tail  d(i) == r.data[(t + i - 1) % size]
<1>0. /\ size \in Nat \ {0} /\ CounterMod \in Nat \ {0} /\ CounterMod % size = 0
      /\ size < CounterMod
  BY CounterModAssumption DEF Divides
<1>1. /\ t \in 0 .. CounterMod - 1 /\ c \in 0 .. size /\ c # 0
      /\ r.head = (t + c) % CounterMod /\ r.head \in 0 .. CounterMod - 1
      /\ r.count = size /\ r.data \in [0 .. size - 1 -> S]
      /\ Contents(r) = [i \in 1 .. c |-> d(i)]
      /\ Contents(r) \in Seq(S) /\ Len(Contents(r)) = c
      /\ RB_INDT(r) = t % size
      /\ r \in Ring(size, S)
  BY RingState, EmptyOrNot DEF Sound
<1>2. s = [r EXCEPT !.tail = (t + 1) % CounterMod]
  BY DEF RingBuffer_Pop, AdvanceTail
<1> HIDE DEF c
<1> DEFINE u == (t + 1) % CounterMod
<1> HIDE DEF t
<1>3. t \in Nat /\ c \in Nat /\ c >= 1 /\ t + c \in Nat /\ c - 1 \in Nat /\ c - 1 < CounterMod
  <2>1. t \in Nat /\ c \in Nat /\ c >= 1 /\ c < CounterMod
    BY ONLY <1>0, <1>1
  <2> QED
    BY ONLY <1>0, <2>1
<1>4. u \in 0 .. CounterMod - 1
  <2>1. t + 1 \in Nat
    BY <1>3
  <2> QED
    BY ONLY <1>0, <2>1, Modulo DEF u
<1>5. /\ s \in Ring(size, S) /\ s.tail = u /\ s.head = r.head /\ s.data = r.data
      /\ s.count = size
  BY <1>1, <1>2, <1>4 DEF Ring
<1>6. RingBuffer_GetCount(s) = c - 1
  <2> DEFINE a == t + c  b == t + 1
  <2>1. a \in Nat /\ b \in Nat /\ b <= a /\ a - b < CounterMod /\ a - b = c - 1
    BY ONLY <1>3 DEF a, b
  <2> HIDE DEF a, b
  <2>2. ((a % CounterMod) - (b % CounterMod)) % CounterMod = a - b
    BY ONLY <1>0, <2>1, WrappedDifference
  <2> QED
    BY <1>1, <1>5, <2>1, <2>2 DEF RingBuffer_GetCount, a, b, u
<1>7. Sound(s, size, S)
  <2>1. c - 1 <= size
    BY <1>0, <1>1
  <2> QED
    BY <1>5, <1>6, <2>1 DEF Sound
<1>8. CopyOut(r, 1)[1] = d(1)
  <2>1. t % size \in Nat /\ (t % size) + 1 - 1 = t % size /\ t + 1 - 1 = t
    BY <1>0, <1>3
  <2> QED
    BY <1>1, <2>1 DEF CopyOut
<1>9. ASSUME NEW i \in 1 .. c - 1
      PROVE  (u + i - 1) % size = (t + (i + 1) - 1) % size
  <2> DEFINE j == i - 1  a == t + 1
  <2>1. j \in Nat /\ a \in Nat /\ a + j = t + (i + 1) - 1
    BY ONLY <1>3, i \in 1 .. c - 1 DEF j, a
  <2>2. u \in Nat /\ u + i - 1 = u + j
    BY ONLY <1>0, <1>4, i \in 1 .. c - 1 DEF j
  <2> HIDE DEF j, a
  <2>3. u % size = a % size
    <3>1. (a % CounterMod) % size = a % size
      BY ONLY <1>0, <2>1, WrappedSlot
    <3> QED
      BY <3>1 DEF u, a
  <2>4. (u + j) % size = ((u % size) + j) % size
    BY ONLY <1>0, <2>1, <2>2, ModuloSum
  <2>5. ((a % size) + j) % size = (a + j) % size
    BY ONLY <1>0, <2>1, ModuloSum
  <2> QED
    BY <2>1, <2>2, <2>3, <2>4, <2>5
<1>10. Contents(s) = [i \in 1 .. c - 1 |-> d(i + 1)]
  BY <1>5, <1>6, <1>9 DEF Contents
<1> HIDE DEF d
<1>11. Tail(Contents(r)) = [i \in 1 .. c - 1 |-> d(i + 1)]
  BY <1>1, <1>3
<1>12. Contents(r) # << >> /\ Head(Contents(r)) = d(1) /\ d(1) \in S
  BY <1>1, <1>3
<1> QED
  BY <1>7, <1>8, <1>10, <1>11, <1>12

---------------------------------------------------------------------------
(* The inductive invariant *)

TxItem == TxByte \cup {0}
RxItem == RxByte \cup {0}

\* Where SendRB keeps the handler off the transmit ring
Masked == {"insert", "prime", "send", "insert2", "enable"}

WriterState == [pc : {"idle", "disable", "insert", "prime", "send", "insert2",
                      "enable", "flush"},
                buf : Seq(TxByte), op : {"none", "char", "buffer"},
                ch : TxItem]
ReaderState == [pc : {"idle", "pop"}, ch : RxItem,
                ret : {"none", "-1"} \cup IntWithByte]

TxTypes ==
    /\ Sound(tx, TxSize, TxItem)
    /\ IER \in [thre : BOOLEAN, rbr : BOOLEAN]
    /\ thr \in {<< >>} \cup {<<b>> : b \in TxByte}
    /\ wr \in WriterState
    /\ isr \in {"idle", "rx", "tx"}
    /\ wire \in Seq(TxByte)
    /\ accepted \in 0 .. MaxTx

\* The bytes still to be sent are the next ones
BufferNext ==
    /\ wr.buf = [i \in 1 .. Len(wr.buf) |-> accepted + i]
    /\ wr.pc \in {"idle", "flush"} => wr.buf = << >>

\* The transmit ring has one consumer at a time
OneConsumer ==
    /\ isr = "tx" => IER.thre
    /\ wr.pc \in Masked => ~ IER.thre

\* The byte in the writer's hand is still the first of the ring
InHand ==
    wr.pc = "send" => /\ thr = << >>
                      /\ ~ RingBuffer_IsEmpty(tx)
                      /\ wr.ch = CopyOut(tx, 1)[1]

TxInv == TxTypes /\ TxInOrder /\ BufferNext /\ OneConsumer /\ InHand /\ NoStrandedBytes

RxTypes ==
    /\ Sound(rx, RxSize, RxItem)
    /\ rxfifo \in Seq(RxByte) /\ Len(rxfifo) <= RxFifoDepth
    /\ rd \in ReaderState
    /\ got \in Seq(RxByte)
    /\ arrived \in 0 .. MaxRx
    /\ lost \in [fifo : SUBSET RxByte, ring : SUBSET RxByte]

\* A byte is lost after it arrived
LostArrived == lost.fifo \subseteq 1 .. arrived /\ lost.ring \subseteq 1 .. arrived

\* The byte read() copied out is still the first of the ring
ReadInHand ==
    rd.pc = "pop" => ~ RingBuffer_IsEmpty(rx) /\ rd.ch = CopyOut(rx, 1)[1]

RxInv == RxTypes /\ RxInOrder /\ LostArrived /\ ReadInHand

IInv == TxInv /\ RxInv

---------------------------------------------------------------------------
(* Sequences of numbered bytes *)

(* Concatenation is associative, and the empty sequence neutral.           *)
LEMMA Joined ==
    ASSUME NEW S, NEW a \in Seq(S), NEW b \in Seq(S), NEW c \in Seq(S)
    PROVE  /\ a \o b \in Seq(S)
           /\ (a \o b) \o c = a \o (b \o c)
           /\ a \o << >> = a /\ << >> \o a = a
OBVIOUS

(* A sequence is its first element and the others.                         *)
LEMMA HeadAndTail ==
    ASSUME NEW S, NEW a \in Seq(S), a # << >>
    PROVE  <<Head(a)>> \o Tail(a) = a /\ Head(a) \in S /\ Tail(a) \in Seq(S)
<1>1. Len(a) \in Nat /\ Len(a) # 0
  OBVIOUS
<1>2. Head(a) = a[1] /\ a[1] \in S /\ Tail(a) \in Seq(S) /\ Len(Tail(a)) = Len(a) - 1
  BY <1>1
<1>3. \A i \in 1 .. Len(a) - 1 : Tail(a)[i] = a[i + 1]
  BY <1>1
<1> DEFINE b == Tail(a)  x == Head(a)  e == <<x>> \o b
<1> HIDE DEF b
<1>4. /\ e \in Seq(S) /\ Len(e) = 1 + Len(b)
      /\ \A i \in 1 .. 1 + Len(b) : e[i] = IF i = 1 THEN x ELSE b[i - 1]
  BY <1>2 DEF b
<1> HIDE DEF e
<1>5. ASSUME NEW i \in 1 .. Len(a)
      PROVE  e[i] = a[i]
  <2>1. CASE i = 1
    BY <1>2, <1>4, <2>1 DEF b
  <2>2. CASE i # 1
    <3>1. i - 1 \in 1 .. Len(a) - 1 /\ (i - 1) + 1 = i
      BY <1>1, <2>2
    <3>2. b[i - 1] = a[i]
      BY <1>3, <3>1 DEF b
    <3> QED
      BY <1>2, <1>4, <2>2, <3>2 DEF b
  <2> QED
    BY <2>1, <2>2
<1>6. Len(e) = Len(a)
  BY <1>1, <1>2, <1>4 DEF b
<1>7. e = a
  BY <1>4, <1>5, <1>6
<1> QED
  BY <1>2, <1>7 DEF b, e

(* Append is a concatenation.                                              *)
LEMMA Appended ==
    ASSUME NEW S, NEW a \in Seq(S), NEW x \in S
    PROVE  Append(a, x) = a \o <<x>> /\ <<x>> \in Seq(S) /\ Append(a, x) \in Seq(S)
OBVIOUS

(* The part of the next bytes that is taken, and the part that is left.    *)
LEMMA NextBytes ==
    ASSUME NEW a \in Nat, NEW m \in Nat, NEW n \in 0 .. m,
           NEW b, b = [i \in 1 .. m |-> a + i]
    PROVE  /\ SubSeq(b, 1, n) = [i \in 1 .. n |-> a + i]
           /\ SubSeq(b, n + 1, m) = [i \in 1 .. m - n |-> (a + n) + i]
           /\ Len(SubSeq(b, n + 1, m)) = m - n
<1>1. ASSUME NEW i \in 1 .. m - n
      PROVE  i + n \in 1 .. m /\ a + (i + n) = (a + n) + i
  OBVIOUS
<1>2. b \in Seq(Nat)
  OBVIOUS
<1> QED
  BY <1>1

(* The next bytes behind those so far.                                     *)
LEMMA MoreBytes ==
    ASSUME NEW a \in Nat, NEW n \in Nat
    PROVE  [i \in 1 .. a |-> i] \o [i \in 1 .. n |-> a + i] = [i \in 1 .. a + n |-> i]
<1> DEFINE b == [i \in 1 .. a |-> i]  c == [i \in 1 .. n |-> a + i]
<1>1. b \in Seq(Nat) /\ c \in Seq(Nat) /\ Len(b) = a /\ Len(c) = n
  OBVIOUS
<1>2. b \o c = [i \in 1 .. a + n |-> IF i <= a THEN b[i] ELSE c[i - a]]
  BY <1>1
<1>3. \A i \in 1 .. a + n : (IF i <= a THEN b[i] ELSE c[i - a]) = i
  OBVIOUS
<1> QED
  BY <1>2, <1>3

---------------------------------------------------------------------------
(* The transmit direction *)

(* What the assumption says of each size.                                  *)
LEMMA Sizes ==
    Divides(TxSize) /\ Divides(RxSize) /\ MaxTx \in Nat /\ MaxRx \in Nat
BY SizesAssumption DEF Divides

(* What the transmit ring holds, and what a pop takes off.                 *)
LEMMA TxRing ==
    ASSUME TxTypes
    PROVE  /\ Contents(tx) \in Seq(TxItem)
           /\ thr \in Seq(TxItem) /\ wire \in Seq(TxItem)
           /\ RingBuffer_IsEmpty(tx) <=> Contents(tx) = << >>
           /\ ~ RingBuffer_IsEmpty(tx) =>
                /\ Sound(RingBuffer_Pop(tx), TxSize, TxItem)
                /\ CopyOut(tx, 1)[1] = Head(Contents(tx))
                /\ Contents(RingBuffer_Pop(tx)) = Tail(Contents(tx))
<1>1. Sound(tx, TxSize, TxItem) /\ Divides(TxSize)
  BY Sizes DEF TxTypes
<1>2. /\ RingBuffer_IsEmpty(tx) <=> RingBuffer_GetCount(tx) = 0
      /\ Contents(tx) \in Seq(TxItem)
      /\ Len(Contents(tx)) = RingBuffer_GetCount(tx)
  BY ONLY <1>1, EmptyOrNot
<1>3. RingBuffer_IsEmpty(tx) <=> Contents(tx) = << >>
  <2> DEFINE c == Contents(tx)
  <2> HIDE DEF c
  <2>1. c \in Seq(TxItem) => (Len(c) = 0 <=> c = << >>)
    OBVIOUS
  <2> QED
    BY <1>2, <2>1 DEF c
<1>4. ~ RingBuffer_IsEmpty(tx) =>
         /\ Sound(RingBuffer_Pop(tx), TxSize, TxItem)
         /\ CopyOut(tx, 1)[1] = Head(Contents(tx))
         /\ Contents(RingBuffer_Pop(tx)) = Tail(Contents(tx))
  BY ONLY <1>1, PopTakes
<1>5. thr \in Seq(TxItem) /\ wire \in Seq(TxItem)
  <2>1. \A b \in TxByte : b \in TxItem
    BY DEF TxItem
  <2>2. thr \in Seq(TxItem)
    <3>1. thr = << >> \/ \E b \in TxByte : thr = <<b>>
      BY DEF TxTypes
    <3>2. << >> \in Seq(TxItem) /\ \A b \in TxItem : <<b>> \in Seq(TxItem)
      OBVIOUS
    <3> QED
      BY ONLY <2>1, <3>1, <3>2
  <2>3. wire \in Seq(TxItem)
    BY <2>1 DEF TxTypes
  <2> QED
    BY <2>2, <2>3
<1> QED
  BY <1>2, <1>3, <1>4, <1>5

(* With an empty holding register the first byte of the ring is the next   *)
(* one, and sending it keeps the order.                                    *)
LEMMA FirstIsNext ==
    ASSUME TxTypes, TxInOrder, THRE, ~ RingBuffer_IsEmpty(tx),
           NEW x, x = CopyOut(tx, 1)[1]
    PROVE  /\ x \in TxByte
           /\ Sound(RingBuffer_Pop(tx), TxSize, TxItem)
           /\ wire \o <<x>> \o Contents(RingBuffer_Pop(tx)) = [i \in 1 .. accepted |-> i]
<1> DEFINE c == Contents(tx)  d == Contents(RingBuffer_Pop(tx))
<1>1. /\ c \in Seq(TxItem) /\ wire \in Seq(TxItem) /\ c # << >>
      /\ x = Head(c) /\ d = Tail(c) /\ Sound(RingBuffer_Pop(tx), TxSize, TxItem)
  BY TxRing
<1>2. wire \o << >> \o c = [i \in 1 .. accepted |-> i]
  BY DEF TxInOrder, THRE
<1>3. accepted \in Nat /\ accepted <= MaxTx
  BY Sizes DEF TxTypes
<1> HIDE DEF c, d
<1>4. <<x>> \o d = c /\ x \in TxItem /\ d \in Seq(TxItem) /\ <<x>> \in Seq(TxItem)
  BY ONLY <1>1, HeadAndTail
<1>5. (wire \o <<x>>) \o d = wire \o (<<x>> \o d) /\ wire \o << >> = wire
  BY ONLY <1>1, <1>4, Joined
<1>6. wire \o c = [i \in 1 .. accepted |-> i]
  BY ONLY <1>2, <1>5
<1>7. x \in TxByte
  <2> DEFINE k == Len(wire) + 1
  <2>1. k \in 1 .. Len(wire \o c) /\ (wire \o c)[k] = c[1] /\ Len(wire \o c) \in Nat
    BY <1>1
  <2>2. x = c[1]
    BY <1>1
  <2> HIDE DEF k
  <2>3. k \in 1 .. accepted
    BY ONLY <1>3, <1>6, <2>1
  <2>4. x = k
    BY <1>6, <2>1, <2>2, <2>3
  <2> QED
    BY Sizes, <1>3, <2>3, <2>4 DEF TxByte
<1> QED
  BY <1>1, <1>4, <1>5, <1>6, <1>7 DEF d

(* A step away from the transmit direction keeps its invariant.            *)
LEMMA TxUnchanged ==
    ASSUME TxInv, UNCHANGED <<txVars, IER, isr>>
    PROVE  TxInv'
BY DEF TxInv, TxTypes, TxInOrder, BufferNext, OneConsumer, InHand, NoStrandedBytes, txVars

(* The transmitter takes a byte of the holding register.                   *)
LEMMA TxUartShift ==
    ASSUME TxInv, UartShift
    PROVE  TxInv'
<1> USE DEF UartShift, THRE
<1>1. thr # << >> /\ wire' = wire \o thr /\ thr' = << >>
  OBVIOUS
<1>2. TxTypes'
  <2>1. thr \in Seq(TxByte) /\ wire \in Seq(TxByte)
    BY DEF TxInv, TxTypes
  <2>2. wire \o thr \in Seq(TxByte)
    BY <2>1
  <2> QED
    BY <1>1, <2>2 DEF TxInv, TxTypes
<1>3. TxInOrder'
  <2>1. TxTypes
    BY DEF TxInv
  <2>2. wire \o thr \in Seq(TxItem)
    BY ONLY <2>1, TxRing, Joined
  <2>3. (wire \o thr) \o << >> = wire \o thr
    BY ONLY <2>2, Joined
  <2> QED
    BY <1>1, <2>3 DEF TxInv, TxInOrder
<1>4. (BufferNext /\ OneConsumer /\ NoStrandedBytes /\ InHand)'
  BY <1>1 DEF TxInv, BufferNext, OneConsumer, NoStrandedBytes, InHand
<1> QED
  BY <1>2, <1>3, <1>4 DEF TxInv

(* The interrupt handler moves bytes of the ring to the FIFO.              *)
LEMMA TxIsr ==
    ASSUME TxInv, Isr
    PROVE  TxInv'
<1>1. CASE IsrEnter
  BY <1>1 DEF IsrEnter, txVars, TxInv, TxTypes, TxInOrder, BufferNext, OneConsumer,
              InHand, NoStrandedBytes
<1>2. CASE IsrReceive
  BY <1>2, TxUnchanged DEF IsrReceive
<1>3. CASE IsrReceived
  <2>1. /\ isr' \in {"idle", "tx"} /\ (isr' = "tx" => IER.thre)
        /\ UNCHANGED <<tx, thr, wr, wire, accepted, IER>>
    BY <1>3 DEF IsrReceived, txVars
  <2> QED
    BY <2>1 DEF TxInv, TxTypes, TxInOrder, BufferNext, OneConsumer, InHand, NoStrandedBytes
<1>4. CASE IsrTransmit
  <2> DEFINE x == CopyOut(tx, 1)[1]
  <2>1. /\ isr = "tx" /\ THRE /\ ~ RingBuffer_IsEmpty(tx) /\ thr' = <<x>>
        /\ tx' = RingBuffer_Pop(tx) /\ UNCHANGED <<IER, wr, isr, wire, accepted>>
    BY <1>4 DEF IsrTransmit, SendByte
  <2>2. TxTypes /\ TxInOrder
    BY DEF TxInv
  <2>3. /\ x \in TxByte /\ Sound(RingBuffer_Pop(tx), TxSize, TxItem)
        /\ wire \o <<x>> \o Contents(RingBuffer_Pop(tx)) = [i \in 1 .. accepted |-> i]
    BY ONLY <2>1, <2>2, FirstIsNext
  <2> HIDE DEF x
  <2>4. TxTypes'
    BY <2>1, <2>2, <2>3 DEF TxTypes
  <2>5. TxInOrder'
    BY <2>1, <2>3 DEF TxInOrder
  <2>6. (BufferNext /\ OneConsumer)'
    BY <2>1 DEF TxInv, BufferNext, OneConsumer
  <2>7. IER.thre /\ wr.pc \notin Masked
    BY <2>1 DEF TxInv, OneConsumer
  <2>8. (InHand /\ NoStrandedBytes)'
    BY <2>1, <2>7 DEF InHand, NoStrandedBytes, Masked
  <2> QED
    BY <2>4, <2>5, <2>6, <2>8 DEF TxInv
<1>5. CASE IsrTransmitted
  <2>1. /\ isr = "tx" /\ isr' = "idle" /\ UNCHANGED <<tx, thr, wr, wire, accepted>>
        /\ IER' = IF RingBuffer_IsEmpty(tx) THEN [IER EXCEPT !.thre = FALSE] ELSE IER
    BY <1>5 DEF IsrTransmitted, txVars
  <2>2. IER' \in [thre : BOOLEAN, rbr : BOOLEAN] /\ (~ RingBuffer_IsEmpty(tx) => IER' = IER)
    BY <2>1 DEF TxInv, TxTypes
  <2>3. wr.pc \notin Masked
    BY <2>1 DEF TxInv, OneConsumer
  <2>4. (TxTypes /\ TxInOrder /\ BufferNext)'
    BY <2>1, <2>2 DEF TxInv, TxTypes, TxInOrder, BufferNext
  <2>5. (OneConsumer /\ InHand /\ NoStrandedBytes)'
    BY <2>1, <2>2, <2>3 DEF TxInv, OneConsumer, InHand, NoStrandedBytes, Masked
  <2> QED
    BY <2>4, <2>5 DEF TxInv
<1> QED
  BY <1>1, <1>2, <1>3, <1>4, <1>5 DEF Isr

(* write() begins.                                                         *)
LEMMA TxWrite ==
    ASSUME TxInv, NEW op \in {"char", "buffer"}, NEW n \in Nat, Write(op, n)
    PROVE  TxInv'
<1> DEFINE b == NewBytes(n)
<1>1. /\ InThread /\ wr.pc = "idle" /\ accepted + n <= MaxTx
      /\ wr' = [wr EXCEPT !.pc = "disable", !.buf = b, !.op = op]
      /\ UNCHANGED <<tx, thr, isr, wire, accepted, IER>>
  BY DEF Write
<1>2. b = [i \in 1 .. n |-> accepted + i] /\ accepted \in Nat
  <2>1. wr.buf = << >>
    BY <1>1 DEF TxInv, BufferNext
  <2>2. accepted \in Nat /\ Len(<< >>) = 0
    BY Sizes DEF TxInv, TxTypes
  <2>3. \A i \in 1 .. n : accepted + 0 + i = accepted + i
    BY <2>2
  <2> QED
    BY <2>1, <2>2, <2>3 DEF NewBytes
<1>3. \A i \in 1 .. n : accepted + i \in TxByte
  BY <1>1, <1>2, Sizes DEF TxByte
<1>4. b \in Seq(TxByte) /\ Len(b) = n
  BY ONLY <1>2, <1>3, n \in Nat
<1> HIDE DEF b
<1>5. /\ wr' \in WriterState /\ wr'.pc = "disable" /\ wr'.buf = b
  <2>1. wr \in WriterState /\ "disable" \notin {"idle", "flush"}
    BY DEF TxInv, TxTypes
  <2> QED
    BY <1>1, <1>4, <2>1 DEF WriterState
<1>6. (TxTypes /\ TxInOrder)'
  BY <1>1, <1>5 DEF TxInv, TxTypes, TxInOrder
<1>7. BufferNext'
  BY <1>1, <1>2, <1>4, <1>5 DEF BufferNext
<1>8. (OneConsumer /\ InHand /\ NoStrandedBytes)'
  BY <1>1, <1>5 DEF TxInv, OneConsumer, InHand, NoStrandedBytes, Masked
<1> QED
  BY <1>6, <1>7, <1>8 DEF TxInv

(* Bytes go into the ring.                                                 *)
LEMMA TxSendInsert ==
    ASSUME TxInv,
           NEW here, NEW then,
           <<here, then>> \in {<<"insert", "prime">>, <<"insert2", "enable">>},
           SendInsert(here, then)
    PROVE  TxInv'
<1> DEFINE r == RingBuffer_InsertMult(tx, wr.buf)  n == (r.head - tx.head) % CounterMod
           m == Len(wr.buf)  rest == SubSeq(wr.buf, n + 1, m)
<1>1. /\ wr.pc = here /\ tx' = r /\ accepted' = accepted + n
      /\ wr' = [wr EXCEPT !.pc = then, !.buf = rest]
      /\ UNCHANGED <<IER, thr, isr, wire>>
  BY DEF SendInsert
<1>2. /\ Sound(tx, TxSize, TxItem) /\ Divides(TxSize) /\ wr.buf \in Seq(TxByte)
      /\ wr.buf = [i \in 1 .. m |-> accepted + i] /\ accepted \in Nat /\ m \in Nat
      /\ wire \o thr \o Contents(tx) = [i \in 1 .. accepted |-> i]
      /\ wr \in WriterState
  BY Sizes DEF TxInv, TxTypes, BufferNext, TxInOrder, WriterState
<1>3. wr.buf \in Seq(TxItem)
  BY <1>2 DEF TxItem
<1>4. PICK k \in 0 .. m : /\ Sound(r, TxSize, TxItem)
                          /\ Contents(r) = Contents(tx) \o SubSeq(wr.buf, 1, k)
                          /\ n = k
  <2> HIDE DEF r
  <2>1. r = RingBuffer_InsertMult(tx, wr.buf)
    BY DEF r
  <2>2. AppendsSome(tx, r, wr.buf, TxSize, TxItem)
    BY ONLY <1>2, <1>3, <2>1, InsertMultAppends
  <2> QED
    BY <2>2 DEF AppendsSome, n, m
<1>5. n \in 0 .. m
  BY <1>4
<1> HIDE DEF n
<1>6. Sound(r, TxSize, TxItem) /\ Contents(r) = Contents(tx) \o SubSeq(wr.buf, 1, n)
  BY <1>4
<1> HIDE DEF r
<1>7. /\ SubSeq(wr.buf, 1, n) = [i \in 1 .. n |-> accepted + i]
      /\ rest = [i \in 1 .. m - n |-> (accepted + n) + i]
      /\ Len(rest) = m - n
  <2> DEFINE b == wr.buf  a == accepted
  <2>1. a \in Nat /\ m \in Nat /\ n \in 0 .. m /\ b = [i \in 1 .. m |-> a + i]
    BY <1>2, <1>5
  <2> HIDE DEF b, a, m
  <2>2. /\ SubSeq(b, 1, n) = [i \in 1 .. n |-> a + i]
        /\ SubSeq(b, n + 1, m) = [i \in 1 .. m - n |-> (a + n) + i]
        /\ Len(SubSeq(b, n + 1, m)) = m - n
    BY ONLY <2>1, NextBytes
  <2> QED
    BY <2>2 DEF b, a, m
<1>8. rest \in Seq(TxByte) /\ SubSeq(wr.buf, 1, n) \in Seq(TxItem)
  <2>1. n \in Nat /\ n <= m
    BY <1>2, <1>5
  <2> QED
    BY <1>2, <1>3, <2>1
<1>9. wr' \in WriterState /\ wr'.pc = then /\ wr'.buf = rest
  <2>1. then \in {"prime", "enable"}
    OBVIOUS
  <2> HIDE DEF rest
  <2> QED
    BY <1>1, <1>2, <1>8, <2>1 DEF WriterState
<1>10. accepted + n \in 0 .. MaxTx
  <2>1. CASE m = 0
    BY <1>2, <1>5, <2>1 DEF TxInv, TxTypes
  <2>2. CASE m # 0
    <3>1. m \in 1 .. m /\ wr.buf[m] = accepted + m /\ wr.buf[m] \in TxByte
      BY <1>2, <2>2
    <3> QED
      BY <1>2, <1>5, <3>1, Sizes DEF TxByte
  <2> QED
    BY <2>1, <2>2
<1>11. TxTypes'
  BY <1>1, <1>6, <1>9, <1>10 DEF TxInv, TxTypes
<1>12. TxInOrder'
  <2> DEFINE a == wire \o thr  c == Contents(tx)  d == SubSeq(wr.buf, 1, n)
  <2>1. TxTypes
    BY DEF TxInv
  <2>2. a \in Seq(TxItem) /\ c \in Seq(TxItem) /\ d \in Seq(TxItem)
    <3>1. wire \in Seq(TxItem) /\ thr \in Seq(TxItem) /\ c \in Seq(TxItem)
      BY ONLY <2>1, TxRing
    <3>2. a \in Seq(TxItem)
      BY ONLY <3>1, Joined
    <3> QED
      BY <1>8, <3>1, <3>2
  <2>3. a \o c = [i \in 1 .. accepted |-> i] /\ d = [i \in 1 .. n |-> accepted + i]
    BY <1>2, <1>7
  <2> HIDE DEF a, c, d
  <2>4. a \o (c \o d) = (a \o c) \o d
    BY ONLY <2>2, Joined
  <2>5. [i \in 1 .. accepted |-> i] \o [i \in 1 .. n |-> accepted + i]
          = [i \in 1 .. accepted + n |-> i]
    <3>1. n \in Nat
      BY <1>5
    <3> QED
      BY ONLY <1>2, <3>1, MoreBytes
  <2>6. a \o (c \o d) = [i \in 1 .. accepted + n |-> i]
    BY ONLY <2>3, <2>4, <2>5
  <2> QED
    BY <1>1, <1>6, <2>6 DEF TxInOrder, a, c, d
<1>13. BufferNext'
  <2> HIDE DEF rest
  <2> QED
    BY <1>1, <1>7, <1>9 DEF BufferNext
<1>14. ~ IER.thre /\ isr # "tx" /\ then \in Masked /\ then # "send"
  BY <1>1 DEF TxInv, OneConsumer, Masked
<1>15. (OneConsumer /\ InHand /\ NoStrandedBytes)'
  BY <1>1, <1>9, <1>14 DEF OneConsumer, InHand, NoStrandedBytes
<1> QED
  BY <1>11, <1>12, <1>13, <1>15 DEF TxInv

(* All steps of the writer.                                                *)
LEMMA TxWriter ==
    ASSUME TxInv, Writer
    PROVE  TxInv'
<1>1. CASE WriteChar
  BY <1>1, TxWrite DEF WriteChar
<1>2. CASE WriteBuffer
  BY <1>2, TxWrite, Sizes DEF WriteBuffer
<1>3. CASE SendDisable
  <2>1. /\ InThread /\ wr.pc = "disable" /\ IER' = [IER EXCEPT !.thre = FALSE]
        /\ wr' = [wr EXCEPT !.pc = "insert"] /\ UNCHANGED <<tx, thr, isr, wire, accepted>>
    BY <1>3 DEF SendDisable
  <2>2. /\ IER' \in [thre : BOOLEAN, rbr : BOOLEAN] /\ ~ IER'.thre
        /\ wr' \in WriterState /\ wr'.pc = "insert" /\ wr'.buf = wr.buf
    BY <2>1 DEF TxInv, TxTypes, WriterState
  <2>3. (TxTypes /\ TxInOrder /\ BufferNext)'
    BY <2>1, <2>2 DEF TxInv, TxTypes, TxInOrder, BufferNext
  <2>4. (OneConsumer /\ InHand /\ NoStrandedBytes)'
    BY <2>1, <2>2 DEF OneConsumer, InHand, NoStrandedBytes, InThread
  <2> QED
    BY <2>3, <2>4 DEF TxInv
<1>4. CASE SendInsert("insert", "prime") \/ SendInsert("insert2", "enable")
  BY <1>4, TxSendInsert
<1>5. CASE PrimePeek
  <2> DEFINE x == CopyOut(tx, 1)[1]
  <2>1. /\ wr.pc = "prime" /\ THRE /\ ~ RingBuffer_IsEmpty(tx)
        /\ wr' = [wr EXCEPT !.pc = "send", !.ch = x]
        /\ UNCHANGED <<tx, thr, isr, wire, accepted, IER>>
    BY <1>5 DEF PrimePeek
  <2>2. x \in TxItem
    <3>1. TxTypes /\ TxInOrder
      BY DEF TxInv
    <3>2. x \in TxByte
      BY ONLY <2>1, <3>1, FirstIsNext
    <3> QED
      BY <3>2 DEF TxItem
  <2> HIDE DEF x
  <2>3. wr' \in WriterState /\ wr'.pc = "send" /\ wr'.buf = wr.buf /\ wr'.ch = x
    BY <2>1, <2>2 DEF TxInv, TxTypes, WriterState
  <2>4. (TxTypes /\ TxInOrder /\ BufferNext)'
    BY <2>1, <2>3 DEF TxInv, TxTypes, TxInOrder, BufferNext
  <2>5. (OneConsumer /\ NoStrandedBytes)'
    BY <2>1, <2>3 DEF TxInv, OneConsumer, NoStrandedBytes, Masked
  <2>6. InHand'
    BY <2>1, <2>3 DEF InHand, THRE, x
  <2> QED
    BY <2>4, <2>5, <2>6 DEF TxInv
<1>6. CASE PrimeSend
  <2>1. /\ wr.pc = "send" /\ thr' = <<wr.ch>> /\ tx' = RingBuffer_Pop(tx)
        /\ wr' = [wr EXCEPT !.pc = "prime", !.ch = 0]
        /\ UNCHANGED <<isr, wire, accepted, IER>>
    BY <1>6 DEF PrimeSend, SendByte
  <2>2. TxTypes /\ TxInOrder /\ THRE /\ ~ RingBuffer_IsEmpty(tx) /\ wr.ch = CopyOut(tx, 1)[1]
    BY <2>1 DEF TxInv, InHand, THRE
  <2>3. /\ wr.ch \in TxByte /\ Sound(RingBuffer_Pop(tx), TxSize, TxItem)
        /\ wire \o <<wr.ch>> \o Contents(RingBuffer_Pop(tx)) = [i \in 1 .. accepted |-> i]
    BY ONLY <2>2, FirstIsNext
  <2>4. wr' \in WriterState /\ wr'.pc = "prime" /\ wr'.buf = wr.buf
    <3> DEFINE none == 0
    <3>1. none \in TxItem /\ wr' = [wr EXCEPT !.pc = "prime", !.ch = none]
      BY <2>1 DEF TxItem
    <3> HIDE DEF none
    <3> QED
      BY <2>2, <3>1 DEF TxTypes, WriterState
  <2>5. TxTypes'
    BY <2>1, <2>2, <2>3, <2>4 DEF TxTypes
  <2>6. TxInOrder'
    BY <2>1, <2>3 DEF TxInOrder
  <2>7. (BufferNext /\ OneConsumer /\ InHand /\ NoStrandedBytes)'
    BY <2>1, <2>4 DEF TxInv, BufferNext, OneConsumer, InHand, NoStrandedBytes, Masked
  <2> QED
    BY <2>5, <2>6, <2>7 DEF TxInv
<1>7. CASE PrimeDone
  <2>1. /\ wr.pc = "prime" /\ wr' = [wr EXCEPT !.pc = "insert2"]
        /\ UNCHANGED <<tx, thr, isr, wire, accepted, IER>>
    BY <1>7 DEF PrimeDone
  <2>2. wr' \in WriterState /\ wr'.pc = "insert2" /\ wr'.buf = wr.buf
    BY <2>1 DEF TxInv, TxTypes, WriterState
  <2> QED
    BY <2>1, <2>2 DEF TxInv, TxTypes, TxInOrder, BufferNext, OneConsumer, InHand,
                      NoStrandedBytes, Masked
<1>8. CASE SendEnable
  <2>1. /\ InThread /\ wr.pc = "enable" /\ IER' = [IER EXCEPT !.thre = TRUE]
        /\ wr' = IF wr.op = "buffer" /\ wr.buf # << >>
                 THEN [wr EXCEPT !.pc = "disable"]
                 ELSE [wr EXCEPT !.pc = "idle", !.buf = << >>, !.op = "none"]
        /\ UNCHANGED <<tx, thr, isr, wire, accepted>>
    BY <1>8 DEF SendEnable
  <2>2. IER' \in [thre : BOOLEAN, rbr : BOOLEAN] /\ IER'.thre /\ wr \in WriterState
    BY <2>1 DEF TxInv, TxTypes
  <2>3. /\ wr' \in WriterState
        /\ \/ wr'.pc = "disable" /\ wr'.buf = wr.buf
           \/ wr'.pc = "idle" /\ wr'.buf = << >>
    <3> DEFINE empty == << >>
    <3>1. empty \in Seq(TxByte)
      OBVIOUS
    <3> HIDE DEF empty
    <3>2. CASE wr' = [wr EXCEPT !.pc = "disable"]
      BY <2>2, <3>2 DEF WriterState
    <3>3. CASE wr' = [wr EXCEPT !.pc = "idle", !.buf = empty, !.op = "none"]
      <4>1. wr' \in WriterState /\ wr'.pc = "idle" /\ wr'.buf = empty
        BY <2>2, <3>1, <3>3 DEF WriterState
      <4> QED
        BY <4>1 DEF empty
    <3> QED
      BY <2>1, <3>2, <3>3 DEF empty
  <2>4. (TxTypes /\ TxInOrder)'
    BY <2>1, <2>2, <2>3 DEF TxInv, TxTypes, TxInOrder
  <2>5. BufferNext'
    BY <2>1, <2>3 DEF TxInv, BufferNext
  <2>6. (OneConsumer /\ InHand /\ NoStrandedBytes)'
    BY <2>1, <2>2, <2>3 DEF OneConsumer, InHand, NoStrandedBytes, Masked
  <2> QED
    BY <2>4, <2>5, <2>6 DEF TxInv
<1>9. CASE Flush \/ FlushReturn
  <2>1. /\ wr.pc \in {"idle", "flush"}
        /\ \/ wr' = [wr EXCEPT !.pc = "flush"]
           \/ wr' = [wr EXCEPT !.pc = "idle"]
        /\ UNCHANGED <<tx, thr, isr, wire, accepted, IER>>
    BY <1>9 DEF Flush, FlushReturn
  <2>2. wr' \in WriterState /\ wr'.pc \in {"idle", "flush"} /\ wr'.buf = wr.buf
    BY <2>1 DEF TxInv, TxTypes, WriterState
  <2> QED
    BY <2>1, <2>2 DEF TxInv, TxTypes, TxInOrder, BufferNext, OneConsumer, InHand,
                      NoStrandedBytes, Masked
<1> QED
  BY <1>1, <1>2, <1>3, <1>4, <1>5, <1>6, <1>7, <1>8, <1>9 DEF Writer, SendStep

---------------------------------------------------------------------------
(* Sequences in increasing order *)

Increasing(s) == \A i, j \in DOMAIN s : i < j => s[i] < s[j]

Items(s) == {s[i] : i \in DOMAIN s}

(* A larger item at the end.                                               *)
LEMMA LargerItem ==
    ASSUME NEW s \in Seq(Nat), NEW n \in Nat, Increasing(s), Items(s) \subseteq 1 .. n
    PROVE  /\ Increasing(s \o <<n + 1>>)
           /\ Items(s \o <<n + 1>>) = Items(s) \cup {n + 1}
<1> DEFINE m == Len(s)  x == n + 1  t == s \o <<x>>
<1>1. m \in Nat /\ x \in Nat /\ DOMAIN s = 1 .. m
  OBVIOUS
<1>2. \A i \in 1 .. m : s[i] \in Nat /\ s[i] < x
  BY <1>1 DEF Items
<1> HIDE DEF x
<1>3. /\ t \in Seq(Nat) /\ DOMAIN t = 1 .. m + 1
      /\ \A i \in 1 .. m : t[i] = s[i]
      /\ t[m + 1] = x
  BY <1>1
<1> HIDE DEF t, m
<1>4. ASSUME NEW i \in 1 .. m + 1, NEW j \in 1 .. m + 1, i < j
      PROVE  t[i] < t[j]
  <2>1. i \in 1 .. m /\ (j = m + 1 \/ j \in 1 .. m)
    BY <1>1, <1>4
  <2>2. CASE j \in 1 .. m
    BY <1>1, <1>3, <1>4, <2>1, <2>2 DEF Increasing
  <2>3. CASE j = m + 1
    BY <1>2, <1>3, <2>1, <2>3
  <2> QED
    BY <2>1, <2>2, <2>3
<1>5. Increasing(t)
  BY <1>3, <1>4 DEF Increasing
<1>6. Items(t) = Items(s) \cup {x}
  <2>1. ASSUME NEW i \in 1 .. m + 1
        PROVE  t[i] \in Items(s) \cup {x}
    <3>1. i \in 1 .. m \/ i = m + 1
      BY <1>1
    <3> QED
      BY <1>1, <1>3, <3>1 DEF Items
  <2>2. \A i \in 1 .. m : i \in 1 .. m + 1
    BY <1>1
  <2>3. m + 1 \in 1 .. m + 1
    BY <1>1
  <2> QED
    BY <1>1, <1>3, <2>1, <2>2, <2>3 DEF Items
<1> QED
  BY <1>5, <1>6 DEF t, x

(* The elements of a concatenation.                                        *)
LEMMA JoinedItems ==
    ASSUME NEW a \in Seq(Nat), NEW b \in Seq(Nat)
    PROVE  /\ DOMAIN (a \o b) = 1 .. Len(a) + Len(b)
           /\ \A i \in 1 .. Len(a) : (a \o b)[i] = a[i]
           /\ \A i \in 1 .. Len(a) + Len(b) : i > Len(a) => (a \o b)[i] = b[i - Len(a)]
OBVIOUS

(* An item taken out of the middle.                                        *)
LEMMA ItemOut ==
    ASSUME NEW a \in Seq(Nat), NEW b \in Seq(Nat), NEW x \in Nat,
           Increasing(a \o (<<x>> \o b))
    PROVE  /\ Increasing(a \o b)
           /\ Items(a \o b) = Items(a \o (<<x>> \o b)) \ {x}
<1> DEFINE m == Len(a)  n == Len(b)  s == a \o (<<x>> \o b)  t == a \o b
           from(i) == IF i <= m THEN i ELSE i + 1
<1>1. m \in Nat /\ n \in Nat
  OBVIOUS
<1>2. /\ DOMAIN t = 1 .. m + n
      /\ \A i \in 1 .. m : t[i] = a[i]
      /\ \A i \in 1 .. m + n : i > m => t[i] = b[i - m]
  OBVIOUS
<1>3. /\ DOMAIN s = 1 .. m + n + 1
      /\ \A i \in 1 .. m : s[i] = a[i]
      /\ s[m + 1] = x
      /\ \A i \in 1 .. m + n + 1 : i > m + 1 => s[i] = b[i - (m + 1)]
  <2> DEFINE c == <<x>> \o b
  <2>1. /\ c \in Seq(Nat) /\ Len(c) = n + 1 /\ c[1] = x
        /\ \A i \in 2 .. n + 1 : c[i] = b[i - 1]
    OBVIOUS
  <2> HIDE DEF c
  <2>2. /\ DOMAIN (a \o c) = 1 .. m + (n + 1)
        /\ \A i \in 1 .. m : (a \o c)[i] = a[i]
        /\ \A i \in 1 .. m + (n + 1) : i > m => (a \o c)[i] = c[i - m]
    <3> DEFINE k == Len(c)
    <3>1. /\ DOMAIN (a \o c) = 1 .. m + k
          /\ \A i \in 1 .. m : (a \o c)[i] = a[i]
          /\ \A i \in 1 .. m + k : i > m => (a \o c)[i] = c[i - m]
      BY <2>1, JoinedItems
    <3> QED
      BY <2>1, <3>1
  <2>3. (m + 1) - m = 1 /\ m + 1 \in 1 .. m + (n + 1) /\ m + 1 > m
    BY <1>1
  <2>4. ASSUME NEW i \in 1 .. m + n + 1, i > m + 1
        PROVE  i - m \in 2 .. n + 1 /\ (i - m) - 1 = i - (m + 1) /\ i > m
    BY <1>1, <2>4
  <2> HIDE DEF m, n
  <2>5. (a \o c)[m + 1] = x
    BY <2>1, <2>2, <2>3
  <2>6. ASSUME NEW i \in 1 .. m + n + 1, i > m + 1
        PROVE  (a \o c)[i] = b[i - (m + 1)]
    <3>1. (a \o c)[i] = c[i - m]
      BY <1>1, <2>2, <2>4, <2>6
    <3>2. c[i - m] = b[(i - m) - 1]
      BY <2>1, <2>4, <2>6
    <3> QED
      BY <2>4, <2>6, <3>1, <3>2
  <2>7. m + (n + 1) = m + n + 1
    BY <1>1
  <2> QED
    BY <2>2, <2>5, <2>6, <2>7 DEF c
<1>4. \A i \in DOMAIN s : s[i] \in Nat
  <2>1. s \in Seq(Nat)
    <3>1. <<x>> \o b \in Seq(Nat)
      OBVIOUS
    <3> QED
      BY <3>1
  <2> QED
    BY <2>1
<1>5. Increasing(s)
  OBVIOUS
<1> HIDE DEF m, n, s, t
<1>6. ASSUME NEW i \in 1 .. m + n
      PROVE  from(i) \in 1 .. m + n + 1 /\ from(i) # m + 1 /\ t[i] = s[from(i)]
  <2>1. CASE i <= m
    BY <1>1, <1>2, <1>3, <2>1
  <2>2. CASE i > m
    <3>1. from(i) = i + 1 /\ i + 1 \in 1 .. m + n + 1 /\ i + 1 > m + 1
          /\ (i + 1) - (m + 1) = i - m
      BY <1>1, <2>2
    <3>2. s[i + 1] = b[(i + 1) - (m + 1)]
      BY <1>3, <3>1
    <3> QED
      BY <1>1, <1>2, <2>2, <3>1, <3>2
  <2> QED
    BY <1>1, <2>1, <2>2
<1>7. ASSUME NEW i \in 1 .. m + n, NEW j \in 1 .. m + n, i < j
      PROVE  t[i] < t[j]
  <2>1. from(i) < from(j)
    BY <1>1, <1>7
  <2> HIDE DEF from
  <2> QED
    BY <1>3, <1>5, <1>6, <2>1 DEF Increasing
<1>8. Increasing(t)
  BY <1>2, <1>7 DEF Increasing
<1>9. ASSUME NEW k \in 1 .. m + n + 1, k # m + 1
      PROVE  s[k] # x
  <2>1. m + 1 \in 1 .. m + n + 1 /\ (k < m + 1 \/ m + 1 < k)
    BY <1>1, <1>9
  <2>2. s[k] < s[m + 1] \/ s[m + 1] < s[k]
    BY <1>3, <1>5, <2>1 DEF Increasing
  <2>3. s[k] \in Nat
    BY <1>3, <1>4
  <2> QED
    BY <1>3, <2>2, <2>3
<1>10. ASSUME NEW k \in 1 .. m + n + 1, k # m + 1
       PROVE  \E i \in 1 .. m + n : from(i) = k
  <2>1. CASE k < m + 1
    <3>1. k \in 1 .. m + n /\ from(k) = k
      BY <1>1, <2>1
    <3> QED
      BY <3>1
  <2>2. CASE k > m + 1
    <3>1. k - 1 \in 1 .. m + n /\ from(k - 1) = k
      BY <1>1, <2>2
    <3> QED
      BY <3>1
  <2> QED
    BY <1>1, <1>10, <2>1, <2>2
<1> HIDE DEF from
<1>11. Items(t) \subseteq Items(s) \ {x}
  BY <1>2, <1>3, <1>6, <1>9 DEF Items
<1>12. Items(s) \ {x} \subseteq Items(t)
  <2> SUFFICES ASSUME NEW k \in 1 .. m + n + 1, s[k] # x
               PROVE  s[k] \in Items(t)
    BY <1>3 DEF Items
  <2>1. k # m + 1
    BY <1>3
  <2>2. PICK i \in 1 .. m + n : from(i) = k
    BY <1>10, <2>1
  <2> QED
    BY <1>2, <1>6, <2>2 DEF Items
<1> QED
  BY <1>8, <1>11, <1>12 DEF s, t

---------------------------------------------------------------------------
(* The receive direction *)

\* The bytes that came in and are not lost, in the order they are read
Kept == got \o Contents(rx) \o rxfifo

Lost == lost.fifo \cup lost.ring

(* RxInOrder in terms of what was kept and what was lost.                  *)
LEMMA RxOrder ==
    RxInOrder <=> Increasing(Kept) /\ Items(Kept) = (1 .. arrived) \ Lost
BY DEF RxInOrder, Kept, Lost, Increasing, Items

(* What the receive ring holds, and what an insertion and a pop do to it.  *)
LEMMA RxRing ==
    ASSUME RxTypes
    PROVE  /\ Contents(rx) \in Seq(RxItem) /\ Contents(rx) \in Seq(Nat)
           /\ got \in Seq(Nat) /\ rxfifo \in Seq(Nat)
           /\ RingBuffer_IsEmpty(rx) <=> Contents(rx) = << >>
           /\ ~ RingBuffer_IsEmpty(rx) =>
                /\ Sound(RingBuffer_Pop(rx), RxSize, RxItem)
                /\ CopyOut(rx, 1)[1] = Head(Contents(rx))
                /\ CopyOut(rx, 1)[1] \in RxItem
                /\ Contents(RingBuffer_Pop(rx)) = Tail(Contents(rx))
           /\ \A x \in RxItem :
                /\ Sound(RingBuffer_Insert(rx, x), RxSize, RxItem)
                /\ Contents(RingBuffer_Insert(rx, x)) =
                     IF RingBuffer_IsFull(rx) THEN Contents(rx)
                     ELSE Append(Contents(rx), x)
<1>1. Sound(rx, RxSize, RxItem) /\ Divides(RxSize)
  BY Sizes DEF RxTypes
<1>2. /\ RingBuffer_IsEmpty(rx) <=> RingBuffer_GetCount(rx) = 0
      /\ Contents(rx) \in Seq(RxItem)
      /\ Len(Contents(rx)) = RingBuffer_GetCount(rx)
  BY ONLY <1>1, EmptyOrNot
<1>3. /\ Contents(rx) \in Seq(Nat)
      /\ RingBuffer_IsEmpty(rx) <=> Contents(rx) = << >>
  <2> DEFINE c == Contents(rx)
  <2> HIDE DEF c
  <2>1. c \in Seq(RxItem) => (Len(c) = 0 <=> c = << >>)
    OBVIOUS
  <2>2. c \in Seq(RxItem) => c \in Seq(Nat)
    <3>1. \A x \in RxItem : x \in Nat
      BY DEF RxItem, RxByte
    <3> QED
      BY <3>1
  <2> QED
    BY <1>2, <2>1, <2>2 DEF c
<1>4. ~ RingBuffer_IsEmpty(rx) =>
         /\ Sound(RingBuffer_Pop(rx), RxSize, RxItem)
         /\ CopyOut(rx, 1)[1] = Head(Contents(rx))
         /\ CopyOut(rx, 1)[1] \in RxItem
         /\ Contents(RingBuffer_Pop(rx)) = Tail(Contents(rx))
  BY ONLY <1>1, PopTakes
<1>5. \A x \in RxItem :
         /\ Sound(RingBuffer_Insert(rx, x), RxSize, RxItem)
         /\ Contents(RingBuffer_Insert(rx, x)) =
              IF RingBuffer_IsFull(rx) THEN Contents(rx) ELSE Append(Contents(rx), x)
  BY ONLY <1>1, InsertAppends
<1>6. got \in Seq(Nat) /\ rxfifo \in Seq(Nat)
  <2>1. \A x \in RxByte : x \in Nat
    BY DEF RxByte
  <2> QED
    BY <2>1 DEF RxTypes
<1> QED
  BY <1>2, <1>3, <1>4, <1>5, <1>6

(* A step away from the receive direction keeps its invariant.             *)
LEMMA RxUnchanged ==
    ASSUME RxInv, UNCHANGED rxVars
    PROVE  RxInv'
BY DEF RxInv, RxTypes, RxInOrder, LostArrived, ReadInHand, rxVars

(* A byte comes in, into the FIFO or to its loss.                          *)
LEMMA RxUartReceive ==
    ASSUME RxInv, UartReceive
    PROVE  RxInv'
<1>1. /\ arrived < MaxRx /\ arrived' = arrived + 1 /\ UNCHANGED <<rx, rd, got>>
      /\ RxTypes /\ LostArrived
      /\ Increasing(Kept) /\ Items(Kept) = (1 .. arrived) \ Lost
  BY RxOrder DEF RxInv, UartReceive
<1>2. /\ arrived \in Nat /\ arrived + 1 \in RxByte
      /\ arrived + 1 \in 0 .. MaxRx /\ arrived + 1 \notin Lost
      /\ lost \in [fifo : SUBSET RxByte, ring : SUBSET RxByte]
      /\ lost.fifo \subseteq 1 .. arrived + 1 /\ lost.ring \subseteq 1 .. arrived + 1
  <2>1. arrived \in Nat /\ arrived + 1 \in RxByte /\ arrived + 1 \in 0 .. MaxRx
    BY <1>1, Sizes DEF RxTypes, RxByte
  <2>2. arrived + 1 \notin 1 .. arrived /\ 1 .. arrived \subseteq 1 .. arrived + 1
    BY <2>1
  <2> QED
    BY <1>1, <2>1, <2>2 DEF RxTypes, LostArrived, Lost
<1> DEFINE x == arrived + 1
<1>3. (1 .. x) = (1 .. arrived) \cup {x}
  BY <1>2
<1>4. CASE Len(rxfifo) < RxFifoDepth
  <2>1. rxfifo' = Append(rxfifo, x) /\ lost' = lost
    BY <1>4 DEF UartReceive
  <2>2. rxfifo' \in Seq(RxByte) /\ Len(rxfifo') <= RxFifoDepth
    <3>1. Len(Append(rxfifo, x)) = Len(rxfifo) + 1 /\ Append(rxfifo, x) \in Seq(RxByte)
      BY <1>1, <1>2 DEF RxTypes
    <3>2. Len(rxfifo) \in Nat /\ RxFifoDepth \in Nat
      BY <1>1, SizesAssumption DEF RxTypes
    <3> QED
      BY <1>4, <2>1, <3>1, <3>2
  <2> HIDE DEF x
  <2>3. Kept' = Kept \o <<x>> /\ Kept \in Seq(Nat)
    <3> DEFINE a == got \o Contents(rx)
    <3>1. got \in Seq(Nat) /\ Contents(rx) \in Seq(Nat) /\ rxfifo \in Seq(Nat)
      BY ONLY <1>1, RxRing
    <3>2. a \in Seq(Nat)
      BY ONLY <3>1, Joined
    <3>3. x \in Nat
      BY <1>2 DEF x
    <3>4. Append(rxfifo, x) = rxfifo \o <<x>> /\ <<x>> \in Seq(Nat)
      BY ONLY <3>1, <3>3, Appended
    <3> HIDE DEF a
    <3>5. (a \o rxfifo) \o <<x>> = a \o (rxfifo \o <<x>>) /\ a \o rxfifo \in Seq(Nat)
      <4> DEFINE e == <<x>>
      <4>1. e \in Seq(Nat)
        BY <3>4
      <4> HIDE DEF e
      <4>2. (a \o rxfifo) \o e = a \o (rxfifo \o e) /\ a \o rxfifo \in Seq(Nat)
        BY ONLY SMTT(30), <3>1, <3>2, <4>1, Joined
      <4> QED
        BY <4>2 DEF e
    <3>6. Kept = a \o rxfifo /\ Kept' = a \o rxfifo'
      BY <1>1 DEF Kept, a
    <3> QED
      BY ONLY <2>1, <3>4, <3>5, <3>6
  <2>4. Increasing(Kept') /\ Items(Kept') = Items(Kept) \cup {x}
    <3>1. Items(Kept) \subseteq 1 .. arrived
      BY <1>1
    <3>2. Increasing(Kept \o <<arrived + 1>>)
          /\ Items(Kept \o <<arrived + 1>>) = Items(Kept) \cup {arrived + 1}
      BY ONLY <1>1, <1>2, <2>3, <3>1, LargerItem
    <3> QED
      BY ONLY <2>3, <3>2 DEF x
  <2>5. Items(Kept') = (1 .. arrived') \ Lost'
    BY <1>1, <1>2, <1>3, <2>1, <2>4 DEF Lost, x
  <2>6. RxInOrder'
    <3> DEFINE ordered == Increasing(Kept) /\ Items(Kept) = (1 .. arrived) \ Lost
    <3>1. ordered'
      BY <2>4, <2>5
    <3>2. (RxInOrder <=> ordered)'
      BY RxOrder, PTL
    <3> QED
      BY <3>1, <3>2
  <2>7. (RxTypes /\ LostArrived /\ ReadInHand)'
    BY <1>1, <1>2, <2>1, <2>2 DEF RxInv, RxTypes, LostArrived, ReadInHand, x
  <2> QED
    BY <2>6, <2>7 DEF RxInv
<1>5. CASE ~ (Len(rxfifo) < RxFifoDepth)
  <2>1. rxfifo' = rxfifo /\ lost' = [lost EXCEPT !.fifo = @ \cup {x}]
    BY <1>5 DEF UartReceive
  <2> HIDE DEF x
  <2>2. /\ lost' \in [fifo : SUBSET RxByte, ring : SUBSET RxByte]
        /\ lost'.fifo = lost.fifo \cup {x} /\ lost'.ring = lost.ring
    BY <1>2, <2>1 DEF x
  <2>3. Kept' = Kept
    BY <1>1, <2>1 DEF Kept
  <2>4. Items(Kept') = (1 .. arrived') \ Lost'
    BY <1>1, <1>2, <1>3, <2>2, <2>3 DEF Lost, x
  <2>5. RxInOrder'
    <3> DEFINE ordered == Increasing(Kept) /\ Items(Kept) = (1 .. arrived) \ Lost
    <3>1. ordered'
      BY <1>1, <2>3, <2>4
    <3>2. (RxInOrder <=> ordered)'
      BY RxOrder, PTL
    <3> QED
      BY <3>1, <3>2
  <2>6. x \in 1 .. arrived'
    BY <1>1, <1>2 DEF x
  <2>7. (RxTypes /\ LostArrived /\ ReadInHand)'
    BY <1>1, <1>2, <2>1, <2>2, <2>6 DEF RxInv, RxTypes, LostArrived, ReadInHand
  <2> QED
    BY <2>5, <2>7 DEF RxInv
<1> QED
  BY <1>4, <1>5

(* The handler moves the first byte of the FIFO to the end of the ring, or *)
(* loses it; a byte in the reader's hand stays the first of the ring.      *)
LEMMA RxIsrReceive ==
    ASSUME RxInv, IsrReceive
    PROVE  RxInv'
<1> DEFINE x == Head(rxfifo)  c == Contents(rx)  r == RingBuffer_Insert(rx, x)
<1>1. /\ rxfifo # << >> /\ rxfifo' = Tail(rxfifo) /\ rx' = r
      /\ UNCHANGED <<rd, arrived, got>>
      /\ RxTypes /\ LostArrived
      /\ Increasing(Kept) /\ Items(Kept) = (1 .. arrived) \ Lost
  BY RxOrder DEF RxInv, IsrReceive, RDR
<1>2. /\ rxfifo \in Seq(RxByte) /\ Len(rxfifo) <= RxFifoDepth
      /\ x \in RxByte /\ Tail(rxfifo) \in Seq(RxByte) /\ Len(Tail(rxfifo)) <= RxFifoDepth
  <2>1. rxfifo \in Seq(RxByte) /\ Len(rxfifo) <= RxFifoDepth
    BY <1>1 DEF RxTypes
  <2>2. x \in RxByte /\ Tail(rxfifo) \in Seq(RxByte)
    BY ONLY <1>1, <2>1, HeadAndTail
  <2>3. Len(Tail(rxfifo)) = Len(rxfifo) - 1 /\ Len(rxfifo) \in Nat
    BY <1>1, <2>1
  <2> QED
    BY SizesAssumption, <2>1, <2>2, <2>3
<1>3. x \in RxItem /\ x \in Nat
  BY <1>2 DEF RxItem, RxByte
<1> HIDE DEF x
<1>4. /\ c \in Seq(Nat) /\ got \in Seq(Nat) /\ rxfifo \in Seq(Nat)
      /\ Sound(r, RxSize, RxItem)
      /\ Contents(r) = IF RingBuffer_IsFull(rx) THEN c ELSE Append(c, x)
  BY ONLY <1>1, <1>3, RxRing
<1>5. <<x>> \o Tail(rxfifo) = rxfifo /\ Tail(rxfifo) \in Seq(Nat) /\ <<x>> \in Seq(Nat)
  <2>1. <<Head(rxfifo)>> \o Tail(rxfifo) = rxfifo /\ Tail(rxfifo) \in Seq(Nat)
    BY ONLY <1>1, <1>4, HeadAndTail
  <2> QED
    BY <1>3, <2>1 DEF x
<1> HIDE DEF r
<1>6. ReadInHand'
  <2> SUFFICES ASSUME rd'.pc = "pop"
               PROVE  ~ RingBuffer_IsEmpty(rx') /\ rd'.ch = CopyOut(rx', 1)[1]
    BY DEF ReadInHand
  <2>1. ~ RingBuffer_IsEmpty(rx) /\ rd.ch = CopyOut(rx, 1)[1]
    BY <1>1 DEF RxInv, ReadInHand
  <2>2. c # << >> /\ rd.ch = Head(c)
    BY ONLY <1>1, <2>1, RxRing
  <2> HIDE DEF c
  <2>3. Contents(r) # << >> /\ Head(Contents(r)) = Head(c)
    <3>1. Append(c, x) # << >> /\ Head(Append(c, x)) = Head(c)
      BY <1>3, <1>4, <2>2
    <3> QED
      BY <1>4, <2>2, <3>1
  <2>4. /\ RingBuffer_IsEmpty(r) <=> Contents(r) = << >>
        /\ ~ RingBuffer_IsEmpty(r) => CopyOut(r, 1)[1] = Head(Contents(r))
    <3>1. Divides(RxSize)
      BY Sizes
    <3>2. /\ RingBuffer_IsEmpty(r) <=> RingBuffer_GetCount(r) = 0
          /\ Contents(r) \in Seq(RxItem)
          /\ Len(Contents(r)) = RingBuffer_GetCount(r)
      BY ONLY <1>4, <3>1, EmptyOrNot
    <3>3. ~ RingBuffer_IsEmpty(r) => CopyOut(r, 1)[1] = Head(Contents(r))
      BY ONLY <1>4, <3>1, PopTakes
    <3> QED
      BY <3>2, <3>3
  <2> QED
    BY <1>1, <2>2, <2>3, <2>4
<1>7. CASE RingBuffer_IsFull(rx)
  <2>1. lost' = [lost EXCEPT !.ring = @ \cup {x}] /\ Contents(rx') = c
    BY <1>1, <1>4, <1>7 DEF IsrReceive, x
  <2> DEFINE a == got \o c  b == Tail(rxfifo)
  <2>2. a \in Seq(Nat) /\ b \in Seq(Nat) /\ x \in Nat
    <3>1. a \in Seq(Nat)
      BY ONLY <1>4, Joined
    <3> QED
      BY <1>3, <1>5, <3>1
  <2>3. Kept = a \o (<<x>> \o b) /\ Kept' = a \o b
    BY <1>1, <1>5, <2>1 DEF Kept
  <2> HIDE DEF a, b, c
  <2>4. /\ Increasing(a \o b) /\ Items(a \o b) = Items(a \o (<<x>> \o b)) \ {x}
    <3>1. Increasing(a \o (<<x>> \o b))
      BY <1>1, <2>3
    <3> QED
      BY ONLY <2>2, <3>1, ItemOut
  <2>5. Increasing(Kept') /\ Items(Kept') = Items(Kept) \ {x}
    BY ONLY <2>3, <2>4
  <2>6. x \in 1 .. arrived
    <3>1. x \in Items(Kept)
      <4> DEFINE f == <<x>> \o b  k == Len(a) + 1
      <4>1. f \in Seq(Nat) /\ f[1] = x /\ Len(f) = Len(b) + 1
        BY <2>2
      <4> HIDE DEF f
      <4>2. k \in DOMAIN (a \o f) /\ (a \o f)[k] = f[1]
        BY <2>2, <4>1
      <4> QED
        BY <2>3, <4>1, <4>2 DEF Items, f
    <3> QED
      BY <1>1, <3>1
  <2>7. /\ lost' \in [fifo : SUBSET RxByte, ring : SUBSET RxByte]
        /\ lost'.ring = lost.ring \cup {x} /\ lost'.fifo = lost.fifo
    BY <1>1, <1>2, <2>1 DEF RxTypes
  <2>8. Items(Kept') = (1 .. arrived') \ Lost'
    BY <1>1, <2>5, <2>7 DEF Lost
  <2>9. RxInOrder'
    <3> DEFINE ordered == Increasing(Kept) /\ Items(Kept) = (1 .. arrived) \ Lost
    <3>1. ordered'
      BY <2>5, <2>8
    <3>2. (RxInOrder <=> ordered)'
      BY RxOrder, PTL
    <3> QED
      BY <3>1, <3>2
  <2>10. (RxTypes /\ LostArrived)'
    BY <1>1, <1>2, <1>4, <2>6, <2>7 DEF RxTypes, LostArrived
  <2> QED
    BY <1>6, <2>9, <2>10 DEF RxInv
<1>8. CASE ~ RingBuffer_IsFull(rx)
  <2>1. lost' = lost /\ Contents(rx') = c \o <<x>>
    <3>1. Append(c, x) = c \o <<x>>
      BY ONLY <1>3, <1>4, Appended
    <3> QED
      BY <1>1, <1>4, <1>8, <3>1 DEF IsrReceive
  <2> DEFINE b == Tail(rxfifo)
  <2>2. Kept' = Kept
    <3>1. Kept = (got \o c) \o (<<x>> \o b)
      BY <1>5 DEF Kept
    <3>2. Kept' = (got \o (c \o <<x>>)) \o b
      BY <1>1, <2>1 DEF Kept
    <3>3. b \in Seq(Nat)
      BY <1>5
    <3> HIDE DEF b, c
    <3>4. got \o (c \o <<x>>) = (got \o c) \o <<x>> /\ got \o c \in Seq(Nat)
      BY ONLY <1>4, <1>5, Joined
    <3>5. ((got \o c) \o <<x>>) \o b = (got \o c) \o (<<x>> \o b)
      <4> DEFINE e == <<x>>  a == got \o c
      <4>1. e \in Seq(Nat) /\ a \in Seq(Nat) /\ b \in Seq(Nat)
        BY <1>5, <3>3, <3>4
      <4> HIDE DEF e, a
      <4>2. (a \o e) \o b = a \o (e \o b)
        BY ONLY <4>1, Joined
      <4> QED
        BY <4>2 DEF e, a
    <3> QED
      BY ONLY <3>1, <3>2, <3>4, <3>5
  <2>3. RxInOrder'
    <3> DEFINE ordered == Increasing(Kept) /\ Items(Kept) = (1 .. arrived) \ Lost
    <3>1. ordered'
      BY <1>1, <2>1, <2>2 DEF Lost
    <3>2. (RxInOrder <=> ordered)'
      BY RxOrder, PTL
    <3> QED
      BY <3>1, <3>2
  <2>4. (RxTypes /\ LostArrived)'
    BY <1>1, <1>2, <1>4, <2>1 DEF RxTypes, LostArrived
  <2> QED
    BY <1>6, <2>3, <2>4 DEF RxInv
<1> QED
  BY <1>7, <1>8

(* All steps of the reader.                                                *)
LEMMA RxReader ==
    ASSUME RxInv, Reader
    PROVE  RxInv'
<1>1. CASE ReadEmpty \/ Peek
  <2>1. UNCHANGED <<rx, rxfifo, arrived, got, lost>> /\ rd.pc = "idle"
    BY <1>1 DEF ReadEmpty, Peek
  <2>2. \E v \in {"-1", "garbage"} : rd' = [rd EXCEPT !.ret = v]
    BY <1>1 DEF ReadEmpty, Peek
  <2>3. rd' \in ReaderState /\ rd'.pc = "idle"
    BY <2>1, <2>2 DEF RxInv, RxTypes, ReaderState, IntWithByte
  <2> QED
    BY <2>1, <2>3 DEF RxInv, RxTypes, RxInOrder, LostArrived, ReadInHand
<1>2. CASE ReadCopy
  <2> DEFINE x == CopyOut(rx, 1)[1]
  <2>1. /\ UNCHANGED <<rx, rxfifo, arrived, got, lost>> /\ ~ RingBuffer_IsEmpty(rx)
        /\ rd' = [rd EXCEPT !.pc = "pop", !.ch = x, !.ret = "none"]
    BY <1>2 DEF ReadCopy
  <2>2. RxTypes
    BY DEF RxInv
  <2>3. x \in RxItem
    BY ONLY <2>1, <2>2, RxRing
  <2> HIDE DEF x
  <2>4. rd' \in ReaderState /\ rd'.ch = x
    BY <2>1, <2>2, <2>3 DEF RxTypes, ReaderState
  <2>5. (RxTypes /\ RxInOrder /\ LostArrived)'
    BY <2>1, <2>4 DEF RxInv, RxTypes, RxInOrder, LostArrived
  <2>6. ReadInHand'
    BY <2>1, <2>4 DEF ReadInHand, x
  <2> QED
    BY <2>5, <2>6 DEF RxInv
<1>3. CASE ReadPop
  <2> DEFINE c == Contents(rx)  x == rd.ch
  <2>1. /\ rd.pc = "pop" /\ rx' = RingBuffer_Pop(rx) /\ got' = Append(got, x)
        /\ UNCHANGED <<rxfifo, arrived, lost>>
    BY <1>3 DEF ReadPop
  <2>2. PICK v \in IntWithByte : rd' = [rd EXCEPT !.pc = "idle", !.ch = 0, !.ret = v]
    BY <1>3 DEF ReadPop
  <2>3. /\ RxTypes /\ ~ RingBuffer_IsEmpty(rx) /\ x = CopyOut(rx, 1)[1]
        /\ Increasing(Kept) /\ Items(Kept) = (1 .. arrived) \ Lost
    BY <2>1, RxOrder DEF RxInv, ReadInHand
  <2>4. /\ c \in Seq(Nat) /\ got \in Seq(Nat) /\ rxfifo \in Seq(Nat) /\ c # << >>
        /\ Sound(RingBuffer_Pop(rx), RxSize, RxItem)
        /\ x = Head(c) /\ Contents(rx') = Tail(c)
    BY ONLY <2>1, <2>3, RxRing
  <2>5. rd' \in ReaderState /\ rd'.pc = "idle"
    <3> DEFINE none == 0
    <3>1. none \in RxItem /\ rd' = [rd EXCEPT !.pc = "idle", !.ch = none, !.ret = v]
      BY <2>2 DEF RxItem
    <3> HIDE DEF none
    <3> QED
      BY <2>3, <3>1 DEF RxTypes, ReaderState
  <2> HIDE DEF c, x
  <2>6. <<x>> \o Tail(c) = c /\ x \in Nat /\ Tail(c) \in Seq(Nat)
    BY ONLY <2>4, HeadAndTail
  <2>7. Append(got, x) = got \o <<x>> /\ <<x>> \in Seq(Nat) /\ Append(got, x) \in Seq(Nat)
    BY ONLY <2>4, <2>6, Appended
  <2>8. Kept' = Kept
    <3>1. (got \o <<x>>) \o Tail(c) = got \o (<<x>> \o Tail(c))
      <4> DEFINE e == <<x>>  d == Tail(c)
      <4>1. e \in Seq(Nat) /\ d \in Seq(Nat) /\ got \in Seq(Nat)
        BY <2>4, <2>6, <2>7
      <4> HIDE DEF e, d
      <4>2. (got \o e) \o d = got \o (e \o d)
        BY ONLY <4>1, Joined
      <4> QED
        BY <4>2 DEF e, d
    <3>2. Kept' = ((got \o <<x>>) \o Tail(c)) \o rxfifo
      BY <2>1, <2>4, <2>7 DEF Kept
    <3>3. Kept = (got \o c) \o rxfifo
      BY DEF Kept, c
    <3> QED
      BY ONLY <2>6, <3>1, <3>2, <3>3
  <2>9. RxInOrder'
    <3> DEFINE ordered == Increasing(Kept) /\ Items(Kept) = (1 .. arrived) \ Lost
    <3>1. ordered'
      BY <2>1, <2>3, <2>8 DEF Lost
    <3>2. (RxInOrder <=> ordered)'
      BY RxOrder, PTL
    <3> QED
      BY <3>1, <3>2
  <2>10. x \in RxByte
    <3>1. x \in Items(Kept)
      <4> DEFINE k == Len(got) + 1
      <4>1. k \in DOMAIN ((got \o c) \o rxfifo) /\ ((got \o c) \o rxfifo)[k] = x
        <5>1. Len(c) \in Nat /\ Len(c) # 0 /\ c[1] = x
          BY <2>4
        <5>2. /\ got \o c \in Seq(Nat) /\ Len(got \o c) = Len(got) + Len(c)
              /\ (got \o c)[k] = c[1] /\ k \in 1 .. Len(got) + Len(c)
          BY <2>4, <5>1
        <5> DEFINE d == got \o c
        <5>3. d \in Seq(Nat) /\ k \in 1 .. Len(d) /\ d[k] = x
          BY <5>1, <5>2
        <5> HIDE DEF d, k
        <5>4. k \in DOMAIN (d \o rxfifo) /\ (d \o rxfifo)[k] = x
          BY <2>4, <5>3
        <5> QED
          BY <5>4 DEF d
      <4> QED
        BY <4>1 DEF Items, Kept, c
    <3>2. x \in 1 .. arrived /\ arrived \in 0 .. MaxRx
      BY <2>3, <3>1 DEF RxTypes
    <3> QED
      BY <3>2, Sizes DEF RxByte
  <2>11. got' \in Seq(RxByte)
    BY <2>1, <2>3, <2>10 DEF RxTypes
  <2>12. (RxTypes /\ LostArrived /\ ReadInHand)'
    BY <2>1, <2>3, <2>4, <2>5, <2>11 DEF RxInv, RxTypes, LostArrived, ReadInHand
  <2> QED
    BY <2>9, <2>12 DEF RxInv
<1> QED
  BY <1>1, <1>2, <1>3 DEF Reader

---------------------------------------------------------------------------
(* Both directions *)

(* The invariant holds at first,                                           *)
LEMMA InvInit == Init => IInv
<1> SUFFICES ASSUME Init
             PROVE  IInv
  OBVIOUS
<1> DEFINE none == 0  empty == << >>
<1>1. none \in TxItem /\ none \in RxItem /\ \A S : empty \in Seq(S)
  BY DEF TxItem, RxItem
<1>2. /\ Sound(tx, TxSize, TxItem) /\ Contents(tx) = << >>
      /\ Sound(rx, RxSize, RxItem) /\ Contents(rx) = << >>
  <2>1. tx = RingBuffer_Init(TxSize, none) /\ rx = RingBuffer_Init(RxSize, none)
    BY DEF Init
  <2>2. Divides(TxSize) /\ Divides(RxSize)
    BY Sizes
  <2> HIDE DEF none
  <2> QED
    BY <1>1, <2>1, <2>2, EmptyRing
<1>3. wr \in WriterState /\ wr.pc = "idle" /\ wr.buf = << >>
  <2>1. wr = [pc |-> "idle", buf |-> empty, op |-> "none", ch |-> none]
    BY DEF Init
  <2> HIDE DEF none, empty
  <2>2. wr \in WriterState /\ wr.pc = "idle" /\ wr.buf = empty
    BY <1>1, <2>1 DEF WriterState
  <2> QED
    BY <2>2 DEF empty
<1>4. rd \in ReaderState /\ rd.pc = "idle"
  <2>1. rd = [pc |-> "idle", ch |-> none, ret |-> "none"]
    BY DEF Init
  <2> HIDE DEF none
  <2> QED
    BY <1>1, <2>1 DEF ReaderState
<1>5. lost \in [fifo : SUBSET RxByte, ring : SUBSET RxByte] /\ Lost = {}
      /\ lost.fifo = {} /\ lost.ring = {}
  BY DEF Init, Lost
<1>6. TxTypes /\ RxTypes
  <2>1. Len(empty) <= RxFifoDepth
    BY SizesAssumption
  <2>2. 0 \in 0 .. MaxTx /\ 0 \in 0 .. MaxRx
    BY Sizes
  <2> QED
    BY <1>1, <1>2, <1>3, <1>4, <1>5, <2>1, <2>2 DEF Init, TxTypes, RxTypes
<1>7. wire \o thr \o Contents(tx) = << >> /\ got \o Contents(rx) \o rxfifo = << >>
  BY <1>2 DEF Init
<1>8. TxInOrder
  <2>1. [i \in 1 .. 0 |-> i] = << >>
    OBVIOUS
  <2> QED
    BY <1>7, <2>1 DEF Init, TxInOrder
<1>9. RxInOrder
  <2>1. DOMAIN << >> = {} /\ 1 .. 0 = {}
    OBVIOUS
  <2>2. Increasing(Kept) /\ Items(Kept) = {}
    BY <1>7, <2>1 DEF Kept, Increasing, Items
  <2> QED
    BY <1>5, <2>1, <2>2, RxOrder DEF Init
<1>10. BufferNext
  <2>1. Len(<< >>) = 0 /\ [i \in 1 .. 0 |-> accepted + i] = << >>
    OBVIOUS
  <2> QED
    BY <1>3, <2>1 DEF BufferNext
<1>11. OneConsumer /\ InHand /\ LostArrived /\ ReadInHand
  BY <1>3, <1>4, <1>5 DEF Init, OneConsumer, InHand, LostArrived, ReadInHand, Masked
<1>12. NoStrandedBytes
  <2>1. RingBuffer_IsEmpty(tx)
    BY ONLY <1>2, <1>6, TxRing
  <2> QED
    BY <2>1 DEF NoStrandedBytes
<1> QED
  BY <1>6, <1>8, <1>9, <1>10, <1>11, <1>12 DEF IInv, TxInv, RxInv

(* and every step keeps it.                                                *)
LEMMA InvNext == IInv /\ [Next]_vars => IInv'
<1> SUFFICES ASSUME IInv, [Next]_vars
             PROVE  TxInv' /\ RxInv'
  BY DEF IInv
<1>1. TxInv /\ RxInv
  BY DEF IInv
<1>2. CASE UartShift
  BY <1>1, <1>2, TxUartShift, RxUnchanged DEF UartShift, rxVars
<1>3. CASE UartReceive
  BY <1>1, <1>3, TxUnchanged, RxUartReceive DEF UartReceive
<1>4. CASE Isr
  <2>1. RxInv'
    BY <1>1, <1>4, RxIsrReceive, RxUnchanged
       DEF Isr, IsrEnter, IsrReceived, IsrTransmit, IsrTransmitted
  <2> QED
    BY <1>1, <1>4, <2>1, TxIsr
<1>5. CASE Writer
  <2>1. UNCHANGED rxVars
    BY <1>5 DEF Writer, WriteChar, WriteBuffer, Write, SendStep, SendDisable, SendInsert,
                PrimePeek, PrimeSend, PrimeDone, SendEnable, Flush, FlushReturn
  <2> QED
    BY <1>1, <1>5, <2>1, TxWriter, RxUnchanged
<1>6. CASE Reader
  <2>1. UNCHANGED <<txVars, IER, isr>>
    BY <1>6 DEF Reader, ReadEmpty, ReadCopy, ReadPop, Peek
  <2> QED
    BY <1>1, <1>6, <2>1, TxUnchanged, RxReader
<1>7. CASE UNCHANGED vars
  BY <1>1, <1>7, TxUnchanged, RxUnchanged DEF vars, txVars, rxVars
<1> QED
  BY <1>2, <1>3, <1>4, <1>5, <1>6, <1>7 DEF Next

(* The inductive invariant: both directions in order, what the writer and  *)
(* the reader have in hand is still the first of its ring, and the handler *)
(* and the writer never pop the transmit ring at the same time.            *)
THEOREM Invariant == Spec => []IInv
BY InvInit, InvNext, PTL DEF Spec

(* Every variable keeps its type.                                          *)
THEOREM TypeCorrect == Spec => []TypeOK
<1>1. IInv => TypeOK
  BY DEF IInv, TxInv, RxInv, TxTypes, RxTypes, TypeOK, Sound, WriterState, ReaderState,
         TxItem, RxItem
<1> QED
  BY <1>1, Invariant, PTL

(* HardwareSerial keeps the order in both directions: what write() took is *)
(* on the wire, in the holding register or in the ring, once and in order; *)
(* what came in is read in order, and what is missing was dropped at a     *)
(* full FIFO or a full ring.                                               *)
THEOREM KeepsOrder == Spec => []InOrder
<1>1. IInv => InOrder
  BY DEF IInv, TxInv, RxInv, InOrder
<1> QED
  BY <1>1, Invariant, PTL

(* After write() the transmit interrupt is on while the ring has bytes.    *)
THEOREM NothingStranded == Spec => []NoStrandedBytes
<1>1. IInv => NoStrandedBytes
  BY DEF IInv, TxInv
<1> QED
  BY <1>1, Invariant, PTL

=============================================================================
