------------------------------ MODULE ByteFifo ------------------------------
(***************************************************************************)
(* What a ring buffer promises: a bounded queue.  Items are published in   *)
(* groups and taken in groups, each item is delivered once, in order.      *)
(***************************************************************************)
EXTENDS Integers, Sequences

CONSTANTS Capacity, Item

VARIABLES queue,        \* the published items, oldest first
          delivered     \* the items taken so far

fifoVars == <<queue, delivered>>

FifoInit == queue = << >> /\ delivered = << >>

Publish ==
    \E n \in 1 .. Capacity - Len(queue) :
        \E items \in [1 .. n -> Item] :
            /\ queue' = queue \o items
            /\ UNCHANGED delivered

Take ==
    \E n \in 1 .. Len(queue) :
        /\ delivered' = delivered \o SubSeq(queue, 1, n)
        /\ queue' = SubSeq(queue, n + 1, Len(queue))

FifoSpec == FifoInit /\ [][Publish \/ Take]_fifoVars
=============================================================================
