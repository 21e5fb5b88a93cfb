----------------------------- MODULE SharedRing -----------------------------
(***************************************************************************)
(* One ring buffer between one producer and one consumer that interleave   *)
(* at every access to the shared memory, as the thread and the UART        *)
(* interrupt handler do.  Neither side takes a lock: RingBuffer_Insert,    *)
(* InsertMult, Pop, PopMult and Peek rely on the order in which they copy  *)
(* the items and store the index.                                          *)
(*                                                                         *)
(* The items are the numbers 1, 2, ... in the order they are accepted, so  *)
(* a lost, repeated or reordered item shows in what was delivered.         *)
(***************************************************************************)
EXTENDS RingBuffer

CONSTANTS Size,         \* RINGBUFF_T.count
          MaxItems,     \* bound on the items ever offered
          MaxBatch      \* bound on the num argument of InsertMult and PopMult

ASSUME SizeAssumption ==
    /\ Size \in Nat \ {0}
    /\ CounterMod > Size
    /\ CounterMod % Size = 0
    /\ MaxItems \in Nat /\ MaxBatch \in Nat

VARIABLES ring,         \* the RINGBUFF_T
          prod,         \* the producer's call: step, segments, accepted items
          cons,         \* the consumer's call: step, segments, copied items
          delivered,    \* the items of the completed Pop and PopMult segments
          peeked        \* the item the last Peek saw, 0 once it is popped

vars == <<ring, prod, cons, delivered, peeked>>

Slot0 == 0              \* what an unwritten slot holds
Item  == 1 .. MaxItems

Idle(c) == c.pc = "idle"

Init ==
    /\ ring = RingBuffer_Init(Size, Slot0)
    /\ prod = [pc |-> "idle", seg |-> <<0, 0>>, next |-> 1]
    /\ cons = [pc |-> "idle", seg |-> <<0, 0>>, out |-> << >>]
    /\ delivered = << >>
    /\ peeked = 0

---------------------------------------------------------------------------
(* The producer *)

\* The checks of Insert (one item) and InsertMult (num items): a full ring
\* returns 0 at once
Insert ==
    /\ Idle(prod)
    /\ prod.next <= MaxItems
    /\ ~ RingBuffer_IsFull(ring)
    /\ prod' = [prod EXCEPT !.pc = "store1", !.seg = <<1, 0>>]
    /\ UNCHANGED <<ring, cons, delivered, peeked>>

InsertMult(num) ==
    /\ Idle(prod)
    /\ prod.next + num - 1 <= MaxItems
    /\ ~ RingBuffer_IsFull(ring)
    /\ prod' = [prod EXCEPT !.pc = "store1", !.seg = InsertSegments(ring, num)]
    /\ UNCHANGED <<ring, cons, delivered, peeked>>

Batch(n) == [i \in 1 .. n |-> prod.next + i - 1]

\* memcpy of a segment, then the store to head
Store(k, here, then) ==
    /\ prod.pc = here
    /\ ring' = CopyIn(ring, Batch(prod.seg[k]))
    /\ prod' = [prod EXCEPT !.pc = then]
    /\ UNCHANGED <<cons, delivered, peeked>>

BumpHead(k, here, then) ==
    /\ prod.pc = here
    /\ ring' = AdvanceHead(ring, prod.seg[k])
    /\ prod' = [prod EXCEPT !.pc = then, !.next = @ + prod.seg[k],
                            !.seg = IF then = "idle" THEN <<0, 0>> ELSE @]
    /\ UNCHANGED <<cons, delivered, peeked>>

\* mutant: the index is stored before the items
InsertStep_IndexFirst ==
    \/ BumpHead(1, "store1", "bump1")
    \/ Store(1, "bump1", "store2")
    \/ BumpHead(2, "store2", "bump2")
    \/ Store(2, "bump2", "idle")

InsertStep ==
    \/ Store(1, "store1", "bump1")
    \/ BumpHead(1, "bump1", "store2")
    \/ Store(2, "store2", "bump2")
    \/ BumpHead(2, "bump2", "idle")

---------------------------------------------------------------------------
(* The consumer *)

Pop ==
    /\ Idle(cons)
    /\ ~ RingBuffer_IsEmpty(ring)
    /\ cons' = [cons EXCEPT !.pc = "copy1", !.seg = <<1, 0>>]
    /\ UNCHANGED <<ring, prod, delivered, peeked>>

PopMult(num) ==
    /\ Idle(cons)
    /\ ~ RingBuffer_IsEmpty(ring)
    /\ cons' = [cons EXCEPT !.pc = "copy1", !.seg = PopSegments(ring, num)]
    /\ UNCHANGED <<ring, prod, delivered, peeked>>

Peek ==
    /\ Idle(cons)
    /\ ~ RingBuffer_IsEmpty(ring)
    /\ peeked' = CopyOut(ring, 1)[1]
    /\ UNCHANGED <<ring, prod, cons, delivered>>

Copy(k, here, then) ==
    /\ cons.pc = here
    /\ cons' = [cons EXCEPT !.pc = then, !.out = CopyOut(ring, cons.seg[k])]
    /\ UNCHANGED <<ring, prod, delivered, peeked>>

BumpTail(k, here, then) ==
    /\ cons.pc = here
    /\ ring' = AdvanceTail(ring, cons.seg[k])
    /\ delivered' = delivered \o cons.out
    /\ cons' = [cons EXCEPT !.pc = then, !.out = << >>,
                            !.seg = IF then = "idle" THEN <<0, 0>> ELSE @]
    /\ peeked' = IF cons.seg[k] > 0 THEN 0 ELSE peeked
    /\ UNCHANGED prod

PopStep ==
    \/ Copy(1, "copy1", "bump1")
    \/ BumpTail(1, "bump1", "copy2")
    \/ Copy(2, "copy2", "bump2")
    \/ BumpTail(2, "bump2", "idle")

---------------------------------------------------------------------------
Next ==
    \/ Insert
    \/ \E num \in 1 .. MaxBatch : InsertMult(num)
    \/ InsertStep
    \/ Pop
    \/ \E num \in 1 .. MaxBatch : PopMult(num)
    \/ Peek
    \/ PopStep

Spec == Init /\ [][Next]_vars

---------------------------------------------------------------------------
Length == 0 .. Size     \* of a segment

(* The types of the state. *)
TypeOK ==
    /\ ring \in Ring(Size, Item \cup {Slot0})
    /\ prod \in [pc : {"idle", "store1", "bump1", "store2", "bump2"},
                 seg : Length \X Length, next : 1 .. MaxItems + 1]
    /\ cons \in [pc : {"idle", "copy1", "bump1", "copy2", "bump2"},
                 seg : Length \X Length, out : Seq(Item)]
    /\ delivered \in Seq(Item)
    /\ peeked \in Item \cup {0}

(* The slots a half-done memcpy touches.  Between the two segments of a    *)
(* call the second one starts where head (tail) then is.                   *)
Writing ==
    LET k == IF prod.pc \in {"store1", "bump1"} THEN 1 ELSE 2
    IN  IF Idle(prod) THEN {}
        ELSE {(RB_INDH(ring) + i) % Size : i \in 0 .. prod.seg[k] - 1}

Reading ==
    LET k == IF cons.pc \in {"copy1", "bump1"} THEN 1 ELSE 2
    IN  IF Idle(cons) THEN {}
        ELSE {(RB_INDT(ring) + i) % Size : i \in 0 .. cons.seg[k] - 1}

(* The thread and the interrupt handler never touch the same slot: a       *)
(* memcpy into the ring and a memcpy out of it may overlap in time and     *)
(* must not overlap in memory.                                             *)
NoSlotRace == Writing \cap Reading = {}

(* What the two sides learn without taking anything is exact: the count    *)
(* the indices give, across the wrap of the 32-bit counters, is what was   *)
(* accepted and not yet delivered, and never more than the ring holds; and *)
(* Peek sees the item the next pop delivers, whatever the producer does in *)
(* between.                                                                *)
LooksExact ==
    /\ RingBuffer_GetCount(ring) <= Size
    /\ RingBuffer_GetCount(ring) = prod.next - 1 - Len(delivered)
    /\ peeked # 0 => peeked = Len(delivered) + 1

(* The ring implements the bounded queue: every published item is          *)
(* delivered once and in order.                                            *)
Fifo == INSTANCE ByteFifo
          WITH Capacity <- Size, queue <- Contents(ring), Item <- Item

ImplementsFifo == Fifo!FifoSpec

=============================================================================
