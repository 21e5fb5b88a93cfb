----------------------------- MODULE CircBuffer -----------------------------
(***************************************************************************)
(* CircBuffer<T> (cores/smoothie/USBDevice/USBSerial/CircBuffer.h), the    *)
(* byte queue of the USB serial port: two 16-bit indices into a buffer of  *)
(* `size' cells, one of which stays free.  The operators are whole calls;  *)
(* dequeue is not atomic against the interrupt handler, so its callers     *)
(* take it apart.                                                          *)
(***************************************************************************)
EXTENDS Integers, Sequences

WordMod == 65536    \* write and read are uint16_t

\* main.cpp gives the buffers eight spare cells; one is enough to be read
\* from when `read' has been stepped past the end and not wrapped yet
Circ(n, empty) ==
    [write |-> 0, read |-> 0, size |-> n, buf |-> [i \in 0 .. n |-> empty]]

isFull(c)  == (c.write + 1) % c.size = c.read
isEmpty(c) == c.read = c.write

available(c) == IF c.write >= c.read THEN c.write - c.read
                                     ELSE (c.size - c.read) + c.write

\* mutant: the cell that stays free counts as room
free_OneMore(c) == c.size - available(c)

free(c) == c.size - available(c) - 1

\* When the queue is full the oldest byte makes room
queue(c, k) ==
    [c EXCEPT !.read  = IF isFull(c) THEN (@ + 1) % c.size ELSE @,
              !.buf   = [@ EXCEPT ![c.write] = k],
              !.write = (@ + 1) % c.size]

\* write-- wraps at 2^16 before the remainder is taken
pop(c) ==
    IF isEmpty(c) THEN c
    ELSE [c EXCEPT !.write = ((@ + WordMod - 1) % WordMod) % c.size]

flush(c) == [c EXCEPT !.read = c.write]

\* n times dequeue, with `read' where it is, and what it finds
dequeue(c, n)  == [c EXCEPT !.read = (@ + n) % c.size]
Dequeued(c, n) == [i \in 1 .. n |-> c.buf[IF i = 1 THEN c.read
                                          ELSE (c.read + i - 1) % c.size]]

\* The bytes in the queue, oldest first
Contents(c) == [i \in 1 .. available(c) |-> c.buf[(c.read + i - 1) % c.size]]
=============================================================================
