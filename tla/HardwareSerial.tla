--------------------------- MODULE HardwareSerial ---------------------------
(***************************************************************************)
(* The UART driver: HardwareSerial (cores/ExploreM3/HardwareSerial.cpp)    *)
(* over Chip_UART_SendRB, Chip_UART_IRQRBHandler and their helpers         *)
(* (cores/lpcopen/src/uart_17xx_40xx.c), two ring buffers and the UART.    *)
(*                                                                         *)
(* A writer thread, a reader thread, the interrupt handler and the         *)
(* hardware.  The handler runs to completion before a thread goes on; the  *)
(* hardware goes on all the time.  The transmit ring has two consumers,    *)
(* the handler and the writer itself inside SendRB: the writer keeps the   *)
(* handler out by clearing IER.THREINT.                                    *)
(***************************************************************************)
EXTENDS RingBuffer

CONSTANTS TxSize, RxSize,   \* the sizes of the two rings
          RxFifoDepth,      \* the UART's receive FIFO, 16 in the LPC1768
          MaxTx,            \* bound on the bytes ever written
          MaxRx             \* bound on the bytes ever received

ASSUME SizesAssumption ==
    /\ TxSize \in Nat \ {0} /\ RxSize \in Nat \ {0} /\ RxFifoDepth \in Nat \ {0}
    /\ CounterMod > TxSize /\ CounterMod % TxSize = 0
    /\ CounterMod > RxSize /\ CounterMod % RxSize = 0
    /\ MaxTx \in Nat /\ MaxRx \in Nat

VARIABLES
    tx, rx,     \* txRingBuffer, rxRingBuffer
    IER,        \* [thre, rbr]: the interrupt enables of the UART
    thr,        \* the transmit holding register: << >> or one byte
    rxfifo,     \* the receive FIFO
    wr,         \* writer thread: pc, bytes still to send, byte in hand
    rd,         \* reader thread: pc, the byte in hand, the last result
    isr,        \* where the interrupt handler is
    wire,       \* bytes sent
    accepted,   \* number of bytes taken by write so far
    arrived,    \* number of bytes that came in
    got,        \* bytes read() took from the ring
    lost        \* bytes dropped on the way in, "fifo" or "ring" by place

txVars == <<tx, thr, wr, wire, accepted>>
rxVars == <<rx, rxfifo, rd, arrived, got, lost>>
vars   == <<tx, rx, IER, thr, rxfifo, wr, rd, isr, wire, accepted, arrived,
            got, lost>>

\* Bytes are numbered in the order they are written or arrive; 0 is no byte
TxByte == 1 .. MaxTx
RxByte == 1 .. MaxRx

\* THREINT is off until the first SendRB (usart_init enables RBRINT only)
Init ==
    /\ tx = RingBuffer_Init(TxSize, 0)
    /\ rx = RingBuffer_Init(RxSize, 0)
    /\ IER = [thre |-> FALSE, rbr |-> TRUE]
    /\ thr = << >> /\ rxfifo = << >>
    /\ wr = [pc |-> "idle", buf |-> << >>, op |-> "none", ch |-> 0]
    /\ rd = [pc |-> "idle", ch |-> 0, ret |-> "none"]
    /\ isr = "idle"
    /\ wire = << >> /\ accepted = 0
    /\ arrived = 0 /\ got = << >>
    /\ lost = [fifo |-> {}, ring |-> {}]

THRE == thr = << >>                 \* LSR: the holding register is empty
RDR  == rxfifo # << >>              \* LSR: receive data ready
InThread == isr = "idle"         \* no thread step during the handler

SendByte(ch) == thr' = <<ch>>

---------------------------------------------------------------------------
(* The UART and the line *)

\* the holding register goes out and becomes empty
UartShift ==
    /\ ~ THRE
    /\ wire' = wire \o thr
    /\ thr' = << >>
    /\ UNCHANGED <<tx, rx, IER, rxfifo, wr, rd, isr, accepted, arrived, got, lost>>

\* a byte comes in; a full FIFO loses it (line status overrun)
UartReceive ==
    /\ arrived < MaxRx
    /\ arrived' = arrived + 1
    /\ IF Len(rxfifo) < RxFifoDepth
       THEN rxfifo' = Append(rxfifo, arrived + 1) /\ UNCHANGED lost
       ELSE lost' = [lost EXCEPT !.fifo = @ \cup {arrived + 1}] /\ UNCHANGED rxfifo
    /\ UNCHANGED <<txVars, rx, IER, rd, isr, got>>

---------------------------------------------------------------------------
(* Chip_UART_IRQRBHandler: receive until the FIFO is empty, then transmit  *)
(* if THREINT is enabled, and disable THREINT when the ring is empty       *)

IsrEnter ==
    /\ isr = "idle"
    /\ (IER.rbr /\ RDR) \/ (IER.thre /\ THRE)
    /\ isr' = "rx"
    /\ UNCHANGED <<txVars, rxVars, IER>>

\* mutant: with a full ring the byte is left in the FIFO
IsrReceive_Leave ==
    /\ isr = "rx"
    /\ RDR
    /\ rx' = RingBuffer_Insert(rx, Head(rxfifo))
    /\ rxfifo' = IF RingBuffer_IsFull(rx) THEN rxfifo ELSE Tail(rxfifo)
    /\ UNCHANGED <<txVars, IER, rd, isr, arrived, got, lost>>

\* Chip_UART_RXIntHandlerRB: the byte is dropped when the ring is full
IsrReceive ==
    /\ isr = "rx"
    /\ RDR
    /\ rxfifo' = Tail(rxfifo)
    /\ rx' = RingBuffer_Insert(rx, Head(rxfifo))
    /\ lost' = IF RingBuffer_IsFull(rx)
               THEN [lost EXCEPT !.ring = @ \cup {Head(rxfifo)}] ELSE lost
    /\ UNCHANGED <<txVars, IER, rd, isr, arrived, got>>

IsrReceived ==
    /\ isr = "rx"
    /\ ~ RDR
    /\ isr' = IF IER.thre THEN "tx" ELSE "idle"
    /\ UNCHANGED <<txVars, rxVars, IER>>

\* Chip_UART_TXIntHandlerRB: one byte per empty holding register
IsrTransmit ==
    /\ isr = "tx"
    /\ THRE /\ ~ RingBuffer_IsEmpty(tx)
    /\ SendByte(CopyOut(tx, 1)[1])
    /\ tx' = RingBuffer_Pop(tx)
    /\ UNCHANGED <<rxVars, IER, wr, isr, wire, accepted>>

IsrTransmitted ==
    /\ isr = "tx"
    /\ ~ THRE \/ RingBuffer_IsEmpty(tx)
    /\ IER' = IF RingBuffer_IsEmpty(tx) THEN [IER EXCEPT !.thre = FALSE] ELSE IER
    /\ isr' = "idle"
    /\ UNCHANGED <<txVars, rxVars>>

Isr == IsrEnter \/ IsrReceive \/ IsrReceived \/ IsrTransmit \/ IsrTransmitted

---------------------------------------------------------------------------
(* The writer thread: write(ch), write(buffer, size), flush()              *)

NewBytes(n) == [i \in 1 .. n |-> accepted + Len(wr.buf) + i]

Write(op, n) ==
    /\ InThread /\ wr.pc = "idle"
    /\ accepted + n <= MaxTx
    /\ wr' = [wr EXCEPT !.pc = "disable", !.buf = NewBytes(n), !.op = op]
    /\ UNCHANGED <<rxVars, tx, IER, thr, isr, wire, accepted>>

WriteChar   == Write("char", 1)
WriteBuffer == \E n \in 1 .. MaxTx : Write("buffer", n)

\* mutant: the handler is not kept off the transmit ring
SendDisable_Not ==
    /\ InThread /\ wr.pc = "disable"
    /\ wr' = [wr EXCEPT !.pc = "insert"]
    /\ UNCHANGED <<rxVars, tx, IER, thr, isr, wire, accepted>>

\* Chip_UART_SendRB: keep the handler off the transmit ring
SendDisable ==
    /\ InThread /\ wr.pc = "disable"
    /\ IER' = [IER EXCEPT !.thre = FALSE]
    /\ wr' = [wr EXCEPT !.pc = "insert"]
    /\ UNCHANGED <<rxVars, tx, thr, isr, wire, accepted>>

\* RingBuffer_InsertMult; the second call returns to the loop in write
SendInsert(here, then) ==
    /\ InThread /\ wr.pc = here
    /\ LET r == RingBuffer_InsertMult(tx, wr.buf)
           n == (r.head - tx.head) % CounterMod
       IN  /\ tx' = r
           /\ accepted' = accepted + n
           /\ wr' = [wr EXCEPT !.pc = then, !.buf = SubSeq(@, n + 1, Len(@))]
    /\ UNCHANGED <<rxVars, IER, thr, isr, wire>>

\* Chip_UART_TXIntHandlerRB called by the thread: the pop reads the slot,
\* then stores the index, and the byte is sent
PrimePeek ==
    /\ InThread /\ wr.pc = "prime"
    /\ THRE /\ ~ RingBuffer_IsEmpty(tx)
    /\ wr' = [wr EXCEPT !.pc = "send", !.ch = CopyOut(tx, 1)[1]]
    /\ UNCHANGED <<rxVars, tx, IER, thr, isr, wire, accepted>>

PrimeSend ==
    /\ InThread /\ wr.pc = "send"
    /\ tx' = RingBuffer_Pop(tx)
    /\ SendByte(wr.ch)
    /\ wr' = [wr EXCEPT !.pc = "prime", !.ch = 0]
    /\ UNCHANGED <<rxVars, IER, isr, wire, accepted>>

PrimeDone ==
    /\ InThread /\ wr.pc = "prime"
    /\ ~ THRE \/ RingBuffer_IsEmpty(tx)
    /\ wr' = [wr EXCEPT !.pc = "insert2"]
    /\ UNCHANGED <<rxVars, tx, IER, thr, isr, wire, accepted>>

\* mutant: the transmit interrupt stays off
SendEnable_Not ==
    /\ InThread /\ wr.pc = "enable"
    /\ wr' = IF wr.op = "buffer" /\ wr.buf # << >>
             THEN [wr EXCEPT !.pc = "disable"]
             ELSE [wr EXCEPT !.pc = "idle", !.buf = << >>, !.op = "none"]
    /\ UNCHANGED <<rxVars, tx, IER, thr, isr, wire, accepted>>

\* Chip_UART_IntEnable, the return, and the loop in write(buffer, size);
\* write(ch) returns 1 whether the byte was taken or not
SendEnable ==
    /\ InThread /\ wr.pc = "enable"
    /\ IER' = [IER EXCEPT !.thre = TRUE]
    /\ wr' = IF wr.op = "buffer" /\ wr.buf # << >>
             THEN [wr EXCEPT !.pc = "disable"]
             ELSE [wr EXCEPT !.pc = "idle", !.buf = << >>, !.op = "none"]
    /\ UNCHANGED <<rxVars, tx, thr, isr, wire, accepted>>

\* flush(): busy-wait while the ring has room
Flush ==
    /\ InThread /\ wr.pc = "idle"
    /\ wr' = [wr EXCEPT !.pc = "flush"]
    /\ UNCHANGED <<rxVars, tx, IER, thr, isr, wire, accepted>>

FlushReturn ==
    /\ InThread /\ wr.pc = "flush"
    /\ ~ (RingBuffer_GetFree(tx) > 0)
    /\ wr' = [wr EXCEPT !.pc = "idle"]
    /\ UNCHANGED <<rxVars, tx, IER, thr, isr, wire, accepted>>

SendStep ==
    \/ SendDisable
    \/ SendInsert("insert", "prime")
    \/ PrimePeek \/ PrimeSend \/ PrimeDone
    \/ SendInsert("insert2", "enable")
    \/ SendEnable

Writer == WriteChar \/ WriteBuffer \/ SendStep \/ Flush \/ FlushReturn

---------------------------------------------------------------------------
(* The reader thread: read() and peek()                                    *)

\* The handlers fill one byte of an uninitialised int: the other three are
\* whatever the stack held
IntWithByte == {"byte", "garbage"}

ReadEmpty ==
    /\ InThread /\ rd.pc = "idle"
    /\ RingBuffer_IsEmpty(rx)
    /\ rd' = [rd EXCEPT !.ret = "-1"]
    /\ UNCHANGED <<txVars, IER, isr, rx, rxfifo, arrived, got, lost>>

ReadCopy ==
    /\ InThread /\ rd.pc = "idle"
    /\ ~ RingBuffer_IsEmpty(rx)
    /\ rd' = [rd EXCEPT !.pc = "pop", !.ch = CopyOut(rx, 1)[1], !.ret = "none"]
    /\ UNCHANGED <<txVars, IER, isr, rx, rxfifo, arrived, got, lost>>

ReadPop ==
    /\ InThread /\ rd.pc = "pop"
    /\ rx' = RingBuffer_Pop(rx)
    /\ got' = Append(got, rd.ch)
    /\ \E v \in IntWithByte : rd' = [rd EXCEPT !.pc = "idle", !.ch = 0, !.ret = v]
    /\ UNCHANGED <<txVars, IER, isr, rxfifo, arrived, lost>>

\* peek(): -1 when there is a byte, an uninitialised int when there is none
Peek ==
    /\ InThread /\ rd.pc = "idle"
    /\ rd' = [rd EXCEPT !.ret = IF ~ RingBuffer_IsEmpty(rx) THEN "-1"
                                ELSE "garbage"]
    /\ UNCHANGED <<txVars, IER, isr, rx, rxfifo, arrived, got, lost>>

Reader == ReadEmpty \/ ReadCopy \/ ReadPop \/ Peek

---------------------------------------------------------------------------
Next == UartShift \/ UartReceive \/ Isr \/ Writer \/ Reader

(***************************************************************************)
(* The line drains the holding register, a pending interrupt is taken and  *)
(* its handler goes on, and the writer is scheduled, also while it spins   *)
(* in write().  That a thread calls write, flush or read at all, and that  *)
(* bytes arrive, is not assumed.                                           *)
(***************************************************************************)
Fairness ==
    /\ WF_vars(UartShift)
    /\ WF_vars(Isr)
    /\ WF_vars(InThread /\ SendStep)
    /\ WF_vars(FlushReturn)
    /\ WF_vars(ReadPop)

Spec == Init /\ [][Next]_vars
FairSpec == Spec /\ Fairness

---------------------------------------------------------------------------
(* The types of the state. *)
TypeOK ==
    /\ tx \in Ring(TxSize, TxByte \cup {0})
    /\ rx \in Ring(RxSize, RxByte \cup {0})
    /\ IER \in [thre : BOOLEAN, rbr : BOOLEAN]
    /\ thr \in {<< >>} \cup {<<b>> : b \in TxByte}
    /\ rxfifo \in Seq(RxByte) /\ Len(rxfifo) <= RxFifoDepth
    /\ wr \in [pc : {"idle", "disable", "insert", "prime", "send", "insert2",
                     "enable", "flush"},
              buf : Seq(TxByte), op : {"none", "char", "buffer"},
              ch : TxByte \cup {0}]
    /\ rd \in [pc : {"idle", "pop"}, ch : RxByte \cup {0},
              ret : {"none", "-1"} \cup IntWithByte]
    /\ isr \in {"idle", "rx", "tx"}
    /\ wire \in Seq(TxByte) /\ got \in Seq(RxByte)
    /\ accepted \in 0 .. MaxTx /\ arrived \in 0 .. MaxRx
    /\ lost \in [fifo : SUBSET RxByte, ring : SUBSET RxByte]

(* Every byte write() took is on the wire, in the holding register, or in  *)
(* the ring, once, and in the order written.  The writer and the handler   *)
(* both pop the transmit ring; were both at it, a byte would go out twice  *)
(* or be skipped.                                                          *)
TxInOrder == wire \o thr \o Contents(tx) = [i \in 1 .. accepted |-> i]

(* The bytes read() took, those still in the ring and those still in the   *)
(* FIFO are in order of arrival, and no byte is missing that was not lost  *)
(* to a full FIFO or a full ring.                                          *)
RxInOrder ==
    LET mine == got \o Contents(rx) \o rxfifo
    IN  /\ \A i, j \in DOMAIN mine : i < j => mine[i] < mine[j]
        /\ {mine[i] : i \in DOMAIN mine} =
              (1 .. arrived) \ (lost.fifo \cup lost.ring)

(* Both directions keep the order and account for every byte.              *)
InOrder == TxInOrder /\ RxInOrder

(* The transmit interrupt is never left off with bytes in the ring once    *)
(* write() has returned: nobody else would send them.                      *)
NoStrandedBytes ==
    wr.pc \in {"idle", "flush"} /\ ~ RingBuffer_IsEmpty(tx) => IER.thre

(* Everything write() took goes out on the wire: once the writer stops, as *)
(* it does with its bounded number of bytes, the wire catches up for good. *)
TxDrains == <>[](Len(wire) = accepted)

(* write(buffer, size) returns: its busy-wait ends although SendRB keeps   *)
(* the transmit interrupt masked for most of it.                           *)
WriteReturns == (wr.op = "buffer") ~> (wr.op = "none")

=============================================================================
