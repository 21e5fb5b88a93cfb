----------------------------- MODULE RingBuffer -----------------------------
(***************************************************************************)
(* The ring buffer of CoreLPC2/cores/lpcopen (ring_buffer.c, .h): pure     *)
(* operators on a ring record with the fields of RINGBUFF_T.  The indices  *)
(* are free-running unsigned counters of width CounterMod (2^32 in the     *)
(* code); a slot is the counter modulo the size, which must be a power of  *)
(* two and therefore divides CounterMod.                                   *)
(*                                                                         *)
(* The two halves of each operation, the copy into or out of the slots and *)
(* the store to the index, are separate operators: the ring is shared by a *)
(* thread and an interrupt handler that can come in between.               *)
(***************************************************************************)
EXTENDS Integers, Sequences

CONSTANT CounterMod     \* the counters head and tail are kept modulo this

ASSUME CounterModAssumption == CounterMod \in Nat \ {0}

Ring(size, Item) ==
    [head : 0 .. CounterMod - 1, tail : 0 .. CounterMod - 1,
     count : {size}, data : [0 .. size - 1 -> Item]]

RingBuffer_Init(size, item) ==
    [head |-> 0, tail |-> 0, count |-> size,
     data |-> [i \in 0 .. size - 1 |-> item]]

RB_INDH(r) == r.head % r.count
RB_INDT(r) == r.tail % r.count

RingBuffer_GetCount(r) == (r.head - r.tail) % CounterMod
\* mutant: room for one too many
RingBuffer_GetFree_OneMore(r) == r.count - RingBuffer_GetCount(r) + 1

RingBuffer_GetFree(r)  == r.count - RingBuffer_GetCount(r)
\* mutant: one item more than there are slots
RingBuffer_IsFull_OffByOne(r) == RingBuffer_GetCount(r) > r.count

RingBuffer_IsFull(r)   == RingBuffer_GetCount(r) >= r.count
RingBuffer_IsEmpty(r)  == r.head = r.tail

Least(a, b) == IF a < b THEN a ELSE b

(***************************************************************************)
(* The lengths of the two memcpy calls of RingBuffer_InsertMult and        *)
(* RingBuffer_PopMult: "room" items can be moved starting at slot "index", *)
(* "num" are asked for, and the first call stops at the end of the array.  *)
(***************************************************************************)
Segments(index, room, num, size) ==
    LET first == IF index + room >= size THEN size - index ELSE room
        cnt1  == Least(first, num)
    IN  << cnt1, Least(room - first, num - cnt1) >>

InsertSegments(r, num) ==
    Segments(RB_INDH(r), RingBuffer_GetFree(r), num, r.count)

PopSegments(r, num) ==
    Segments(RB_INDT(r), RingBuffer_GetCount(r), num, r.count)

\* memcpy of items to the slots from the head index on
CopyIn(r, items) ==
    LET h == RB_INDH(r)
    IN  [r EXCEPT !.data =
           [i \in DOMAIN r.data |-> IF i \in h .. h + Len(items) - 1
                                    THEN items[i - h + 1] ELSE r.data[i]]]

\* memcpy of n items from the slots from the tail index on
CopyOut(r, n) == [i \in 1 .. n |-> r.data[RB_INDT(r) + i - 1]]

\* mutant: a counter that does not wrap
AdvanceHead_NoWrap(r, n) == [r EXCEPT !.head = @ + n]

AdvanceHead(r, n) == [r EXCEPT !.head = (@ + n) % CounterMod]
AdvanceTail(r, n) == [r EXCEPT !.tail = (@ + n) % CounterMod]

\* RingBuffer_Insert and RingBuffer_Pop where nothing can come in between
RingBuffer_Insert(r, item) ==
    IF RingBuffer_IsFull(r) THEN r ELSE AdvanceHead(CopyIn(r, <<item>>), 1)

RingBuffer_Pop(r) == AdvanceTail(r, 1)

\* RingBuffer_InsertMult where nothing can come in between
RingBuffer_InsertMult(r, items) ==
    LET seg == InsertSegments(r, Len(items))
        r1  == AdvanceHead(CopyIn(r, SubSeq(items, 1, seg[1])), seg[1])
    IN  IF RingBuffer_IsFull(r) THEN r
        ELSE AdvanceHead(
               CopyIn(r1, SubSeq(items, seg[1] + 1, seg[1] + seg[2])), seg[2])

\* The items a ring holds, oldest first
Contents(r) == [i \in 1 .. RingBuffer_GetCount(r) |->
                  r.data[(r.tail + i - 1) % r.count]]
=============================================================================
