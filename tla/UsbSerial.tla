----------------------------- MODULE UsbSerial ------------------------------
(***************************************************************************)
(* The USB serial port: USBSerial (USBSerial.cpp) between the thread that  *)
(* writes and reads, and the bulk endpoints of the USB device controller,  *)
(* served by USBHAL::usbisr (USBHAL_LPC17.cpp).                            *)
(*                                                                         *)
(* usbisr runs in two contexts c: "isr", as the handler of the USB         *)
(* interrupt, and "thread", called by ensure_tx_space while _putc waits    *)
(* for room.  The handler runs to completion before the thread goes on;    *)
(* the thread's own usbisr can be interrupted between any two steps.  The  *)
(* device stays configured; the host takes and sends packets and changes   *)
(* the line state whenever it likes.                                       *)
(***************************************************************************)
EXTENDS CircBuffer, SequencesExt

CONSTANTS TxSize, RxSize,   \* the sizes of txbuf and rxbuf
          Packet,           \* MAX_PACKET_SIZE_EPBULK
          MaxTx,            \* bound on the bytes ever queued for the host
          MaxRx,            \* bound on the bytes the host ever sends
          MaxBytes          \* bound on the two together

\* The sizes divide 2^16, as main.cpp's 128 and 256 do: pop depends on it
ASSUME SizesAssumption ==
    /\ {TxSize, RxSize, Packet, MaxTx, MaxRx, MaxBytes} \subseteq Nat
    /\ Packet > 1 /\ TxSize > 1 /\ RxSize > Packet
    /\ WordMod % RxSize = 0 /\ WordMod % TxSize = 0

VARIABLES
    tx, rx,     \* txbuf, rxbuf
    nl_in_rx,   \* lines in rxbuf
    flags,      \* the bit-field: attached, flush_to_nl
    intSt,      \* USBEpIntSt: bulk endpoints with an event
    intEn,      \* USBEpIntEn: bulk endpoints whose handler is wanted
    slow,       \* EP_SLOW of USBDevIntSt, which raises the USB interrupt
    irqOn,      \* USB_IRQn is enabled in the NVIC
    can_transfer,   \* per endpoint, at most 2
    fifo,       \* per endpoint, the packets in the controller, at most 2
    ep0,        \* a line state the host has set and no handler has seen
    usb,        \* usbisr, per context
    th,         \* the thread
    host,       \* the bytes the host has received
    accepted, arrived, got, \* bytes queued, bytes sent by the host, last read
    reentered,  \* the handler has interrupted the thread's own usbisr
    torn,       \* the handler has moved rxbuf back under a running dequeue
    dropped,    \* queue() has found rxbuf or txbuf full
    lost        \* what usbisr has lost: the USB "irq" left disabled, an IN "event"

bufVars  == <<tx, rx, nl_in_rx, flags>>
regVars  == <<intSt, intEn, slow, irqOn, can_transfer, fifo, ep0>>
seenVars == <<host, accepted, arrived, got, reentered, torn, dropped, lost>>
vars     == <<bufVars, regVars, usb, th, seenVars>>

Ends  == {"out", "in"}
Ctx   == {"isr", "thread"}
Kinds == {"char", "nl", "erase"}    \* a character, a line end, a backspace

\* Bytes are numbered; 0 is whatever an uninitialised cell holds
RxByte == [id : 0 .. MaxRx, kind : Kinds]
NoByte == [id |-> 0, kind |-> "char"]

UsbIdle == [at |-> "idle", ep |-> "out", fe |-> 255, load |-> 0,
            en |-> {}, n |-> 0, b |-> << >>]
ThIdle  == [at |-> "idle", n |-> 0, load |-> 0, c |-> NoByte]

\* The state after SET_CONFIGURATION has realised the endpoints
Init ==
    /\ tx = Circ(TxSize, 0) /\ rx = Circ(RxSize, NoByte)
    /\ nl_in_rx = 0 /\ flags = [attached |-> FALSE, flush_to_nl |-> FALSE]
    /\ intSt = {} /\ intEn = {"out"} /\ slow = FALSE /\ irqOn = TRUE
    /\ can_transfer = [out |-> 0, in |-> 2]
    /\ fifo = [out |-> << >>, in |-> << >>] /\ ep0 = "none"
    /\ usb = [c \in Ctx |-> UsbIdle] /\ th = ThIdle
    /\ host = << >> /\ accepted = 0 /\ arrived = 0 /\ got = 0
    /\ reentered = FALSE /\ torn = FALSE /\ dropped = FALSE /\ lost = {}

\* Who may take a step: nothing runs under the handler
Runs(c) == c = "thread" => usb["isr"].at = "idle"
At(c, step) == usb[c].at = step /\ Runs(c)
ThAt(step) == th.at = step /\ usb["isr"].at = "idle" /\ usb["thread"].at = "idle"

\* mutant: the handler is wanted, no event calls it
SetInterrupt_NoTrigger(e) == intEn' = intEn \cup {e} /\ UNCHANGED <<intSt, slow>>

\* endpointSetInterrupt(e, true)
SetInterrupt(e) ==
    /\ intEn' = intEn \cup {e}
    /\ IF can_transfer[e] > 0
       THEN intSt' = intSt \cup {e} /\ slow' = TRUE
       ELSE UNCHANGED <<intSt, slow>>

---------------------------------------------------------------------------
(* The host and the controller: packets move, a line state is set.         *)
HostTake ==
    /\ fifo.in # << >>
    /\ host' = host \o Head(fifo.in)
    /\ fifo' = [fifo EXCEPT !.in = Tail(@)]
    /\ intSt' = intSt \cup {"in"} /\ slow' = TRUE
    /\ UNCHANGED <<bufVars, intEn, irqOn, can_transfer, ep0, usb, th,
                   accepted, arrived, got, reentered, torn, dropped, lost>>

HostSend ==
    /\ Len(fifo.out) < 2
    /\ \E len \in 1 .. Packet : \E kinds \in [1 .. len -> Kinds] :
        /\ arrived + len <= MaxRx /\ accepted + th.n + arrived + len <= MaxBytes
        /\ fifo' = [fifo EXCEPT !.out = Append(@,
               [i \in 1 .. len |-> [id |-> arrived + i, kind |-> kinds[i]]])]
        /\ arrived' = arrived + len
    /\ intSt' = intSt \cup {"out"} /\ slow' = TRUE
    /\ UNCHANGED <<bufVars, intEn, irqOn, can_transfer, ep0, usb, th,
                   host, accepted, got, reentered, torn, dropped, lost>>

HostLine ==
    /\ ep0 = "none" /\ slow' = TRUE
    /\ ep0' = IF flags.attached THEN "detach" ELSE "attach"
    /\ UNCHANGED <<bufVars, intSt, intEn, irqOn, can_transfer, fifo, usb, th,
                   seenVars>>

---------------------------------------------------------------------------
(* usbisr: EP0 first, then the bulk endpoints in the order OUT, IN.        *)
Goto(c, step) == usb' = [usb EXCEPT ![c].at = step]
Start(ep) == [UsbIdle EXCEPT !.at = "ack", !.ep = ep]

\* On to the next endpoint of the loop
NextEp(c) ==
    usb' = [usb EXCEPT ![c] = IF @.ep = "out" THEN Start("in")
                                              ELSE [UsbIdle EXCEPT !.at = "end"]]

\* The controller raises the interrupt: USB_IRQHandler
IsrEnter ==
    /\ irqOn /\ slow /\ usb["isr"].at = "idle"
    /\ usb' = [usb EXCEPT !["isr"].at = "ep0"]
    /\ reentered' = (reentered \/ usb["thread"].at # "idle")
    /\ UNCHANGED <<bufVars, regVars, th, host, accepted, arrived, got, torn, dropped, lost>>

\* A control transfer: EP0setupCallback down to USBCDC::USBEvent_Request.
\* endpointReadcore disables the interrupt and enables it again only if
\* NVIC_GetActive said that the handler is running
Ep0(c) ==
    /\ At(c, "ep0")
    /\ IF ep0 = "none" THEN UNCHANGED <<flags, irqOn>>
       ELSE /\ flags' = [flags EXCEPT !.attached = (ep0 = "attach")]
            /\ irqOn' = (irqOn /\ c = "isr")
    /\ lost' = IF ep0 # "none" /\ c = "thread" THEN lost \cup {"irq"} ELSE lost
    /\ ep0' = "none"
    /\ usb' = [usb EXCEPT ![c] = IF intEn = {} THEN [UsbIdle EXCEPT !.at = "end"]
                                               ELSE Start("out")]
    /\ UNCHANGED <<tx, rx, nl_in_rx, intSt, intEn, slow, can_transfer, fifo,
                   th, host, accepted, arrived, got, reentered, torn, dropped>>

\* The full/empty bit of the endpoint
FE(e) == IF (IF e = "out" THEN fifo.out # << >> ELSE Len(fifo.in) = 2) THEN 1 ELSE 0

OneMore(n) == IF n < 2 THEN n + 1 ELSE n

\* selectEndpointClearInterrupt and a credit more, which in the thread is a
\* load and a store
Acknowledge(c) ==
    LET e == usb[c].ep
        more == OneMore(can_transfer[e]) IN
    /\ At(c, "ack")
    /\ intSt' = intSt \ {e}
    /\ usb' = [usb EXCEPT ![c] =
           IF e \in intSt
           THEN [@ EXCEPT !.at = IF c = "isr" THEN "test" ELSE "count",
                          !.fe = FE(e), !.load = more]
           ELSE [@ EXCEPT !.at = "test"]]
    /\ can_transfer' = IF e \in intSt /\ c = "isr"
                       THEN [can_transfer EXCEPT ![e] = more] ELSE can_transfer
    /\ UNCHANGED <<bufVars, intEn, slow, irqOn, fifo, ep0, th, seenVars>>

Count ==
    /\ At("thread", "count")
    /\ can_transfer' = [can_transfer EXCEPT ![usb["thread"].ep] = usb["thread"].load]
    /\ Goto("thread", "test")
    /\ UNCHANGED <<bufVars, intSt, intEn, slow, irqOn, fifo, ep0, th, seenVars>>

\* mutant: the credits are trusted
Called_NoFE(c) == usb[c].ep \in intEn /\ can_transfer[usb[c].ep] > 0

\* The handler of the endpoint is called if it is wanted and there is a
\* packet to read, or room for one to send
Called(c) ==
    LET e == usb[c].ep
        fe == IF usb[c].fe = 255 THEN FE(e) ELSE usb[c].fe IN
    e \in intEn /\ can_transfer[e] > 0 /\ fe = (IF e = "out" THEN 1 ELSE 0)

\* The loop of USBEvent_EPOut; s is what it works on, b a byte of the packet
Discard(s) == [s EXCEPT !.rx = flush(@), !.skip = TRUE, !.back = TRUE]
Receive(s, b) ==
    IF b.kind = "erase"
    THEN [s EXCEPT !.rx = pop(@), !.back = @ \/ ~isEmpty(s.rx)]
    ELSE LET q == IF s.skip THEN s
                  ELSE [s EXCEPT !.rx = queue(@, b), !.full = @ \/ isFull(s.rx)]
         IN CASE b.kind = "nl" /\ q.skip -> [q EXCEPT !.skip = FALSE]
              [] b.kind = "nl" /\ ~q.skip -> [q EXCEPT !.nl = @ + 1]
              [] b.kind = "char" -> IF isFull(q.rx) /\ q.nl = 0 THEN Discard(q) ELSE q

\* ... and the test behind it; the handler returns true unless s.stop
Packed(p) ==
    LET after[i \in 0 .. Len(p)] ==
            IF i = 0 THEN [rx |-> rx, nl |-> nl_in_rx, skip |-> flags.flush_to_nl,
                           full |-> FALSE, back |-> FALSE, stop |-> FALSE]
            ELSE Receive(after[i - 1], p[i])
        s == after[Len(p)]
    IN IF free(s.rx) >= Packet THEN s
       ELSE IF s.nl = 0 THEN Discard(s) ELSE [s EXCEPT !.stop = TRUE]

ReaderInDequeue == th.at \in {"store", "copy", "mod", "wrap"}

\* A packet leaves the controller and goes into rxbuf; readStart then finds
\* the credits that endpointReadcore and endpointReadResult have left
TakePacket(s, credits) ==
    /\ fifo' = [fifo EXCEPT !.out = Tail(@)]
    /\ can_transfer' = [can_transfer EXCEPT !.out = credits]
    /\ rx' = s.rx /\ nl_in_rx' = s.nl
    /\ flags' = [flags EXCEPT !.flush_to_nl = s.skip]
    /\ dropped' = (dropped \/ s.full)
    /\ torn' = (torn \/ (s.back /\ ReaderInDequeue))
    /\ intSt' = intSt \cup (IF credits > 0 THEN {"out"} ELSE {})
    /\ slow' = (slow \/ credits > 0)

\* endpointWritecore: what is written is lost when both buffers are full
ToHost(b) == fifo' = [fifo EXCEPT !.in = IF FE("in") = 1 THEN @ ELSE Append(@, b)]

Less(n, k) == IF n > k THEN n - k ELSE 0

---------------------------------------------------------------------------
(* The handlers in the interrupt: nothing they use moves under them.       *)

\* USBEvent_EPOut: a packet is read only if all of it will fit
IsrEPOut ==
    LET s == Packed(Head(fifo.out)) IN
    /\ usb["isr"].at = "test" /\ usb["isr"].ep = "out" /\ Called("isr")
    /\ IF free(rx) < Packet
       THEN /\ intEn' = intEn \ {"out"}
            /\ UNCHANGED <<rx, nl_in_rx, flags, intSt, slow, can_transfer, fifo,
                           torn, dropped>>
       ELSE /\ TakePacket(s, Less(can_transfer.out, 2))
            /\ intEn' = IF s.stop THEN intEn \ {"out"} ELSE intEn
    /\ NextEp("isr")
    /\ UNCHANGED <<tx, irqOn, ep0, th, host, accepted, arrived, got, reentered, lost>>

\* USBEvent_EPIn: at most one byte less than a packet holds; the handler is
\* not wanted any more when txbuf is empty
IsrEPIn ==
    LET n == IF available(tx) > Packet - 1 THEN Packet - 1 ELSE available(tx)
        left == dequeue(tx, n) IN
    /\ usb["isr"].at = "test" /\ usb["isr"].ep = "in" /\ Called("isr")
    /\ IF n = 0 THEN UNCHANGED <<tx, can_transfer, fifo>>
       ELSE /\ tx' = left
            /\ can_transfer' = [can_transfer EXCEPT !.in = @ - 1]
            /\ ToHost(Dequeued(tx, n))
    /\ intEn' = IF isEmpty(left) THEN intEn \ {"in"} ELSE intEn
    /\ NextEp("isr")
    /\ UNCHANGED <<rx, nl_in_rx, flags, intSt, slow, irqOn, ep0, th, seenVars>>

NotCalled(c) ==
    /\ At(c, "test") /\ ~Called(c)
    /\ NextEp(c)
    /\ UNCHANGED <<bufVars, regVars, th, seenVars>>

\* USBDevIntClr = EP_SLOW.  Whether an event that came meanwhile raises it
\* again is up to the controller
End(c) ==
    /\ At(c, "end")
    /\ slow' \in {FALSE, slow /\ (intSt # {} \/ ep0 # "none")}
    /\ lost' = IF "in" \in intSt /\ slow /\ ~slow' THEN lost \cup {"event"} ELSE lost
    /\ usb' = [usb EXCEPT ![c] = UsbIdle]
    /\ UNCHANGED <<bufVars, intSt, intEn, irqOn, can_transfer, fifo, ep0, th, host,
                   accepted, arrived, got, reentered, torn, dropped>>

---------------------------------------------------------------------------
(* The same handlers called by the thread: the interrupt comes in between. *)
AtTh(step) == At("thread", step)
ThUsb(u) == usb' = [usb EXCEPT !["thread"] = u]
me == usb["thread"]

ThEPOut ==
    /\ AtTh("test") /\ me.ep = "out" /\ Called("thread")
    /\ Goto("thread", IF free(rx) < Packet THEN "disable" ELSE "read")
    /\ UNCHANGED <<bufVars, regVars, th, seenVars>>

\* readEP waits for a credit and takes it; endpointReadcore shuts the
\* interrupt out and, outside the handler, never lets it in again
ThEPOutRead ==
    /\ AtTh("read") /\ can_transfer.out > 0
    /\ can_transfer' = [can_transfer EXCEPT !.out = @ - 1]
    /\ irqOn' = FALSE /\ lost' = lost \cup {"irq"}
    /\ Goto("thread", "copy")
    /\ UNCHANGED <<bufVars, intSt, intEn, slow, fifo, ep0, th, host, accepted,
                   arrived, got, reentered, torn, dropped>>

ThEPOutCopy ==
    LET s == Packed(Head(fifo.out)) IN
    /\ AtTh("copy") /\ fifo.out # << >>
    /\ TakePacket(s, Less(can_transfer.out, 1))
    /\ intEn' = intEn \cup {"out"}
    /\ IF s.stop THEN Goto("thread", "disable") ELSE NextEp("thread")
    /\ UNCHANGED <<tx, irqOn, ep0, th, host, accepted, arrived, got, reentered, lost>>

ThEPIn ==
    LET l == available(tx) IN
    /\ AtTh("test") /\ me.ep = "in" /\ Called("thread")
    /\ ThUsb(IF l = 0 THEN [me EXCEPT !.at = "disable"]
             ELSE [me EXCEPT !.at = "dequeue",
                             !.n = IF l > Packet - 1 THEN Packet - 1 ELSE l])
    /\ UNCHANGED <<bufVars, regVars, th, seenVars>>

\* txbuf->dequeue(&b[i]): isEmpty, then read++, the byte, and read %= size.
\* On an empty buffer b[i] keeps what the stack held
ThDequeue ==
    /\ AtTh("dequeue") /\ me.n > 0
    /\ ThUsb(IF isEmpty(tx) THEN [me EXCEPT !.b = Append(@, 0), !.n = @ - 1]
             ELSE [me EXCEPT !.at = "step", !.load = tx.read])
    /\ UNCHANGED <<bufVars, regVars, th, seenVars>>

ThDequeueStep ==
    /\ AtTh("step")
    /\ tx' = [tx EXCEPT !.read = me.load + 1]
    /\ ThUsb([me EXCEPT !.at = "wrap", !.b = Append(@, tx.buf[me.load])])
    /\ UNCHANGED <<rx, nl_in_rx, flags, regVars, th, seenVars>>

ThDequeueWrap ==
    /\ AtTh("wrap")
    /\ tx' = [tx EXCEPT !.read = @ % TxSize]
    /\ ThUsb([me EXCEPT !.at = "dequeue", !.n = @ - 1])
    /\ UNCHANGED <<rx, nl_in_rx, flags, regVars, th, seenVars>>

\* send -> writeNB -> endpointWrite: waits for a credit and takes it
ThSend ==
    /\ AtTh("dequeue") /\ me.n = 0 /\ can_transfer.in > 0
    /\ can_transfer' = [can_transfer EXCEPT !.in = @ - 1]
    /\ ToHost(me.b)
    /\ ThUsb([me EXCEPT !.at = "sent", !.b = << >>])
    /\ UNCHANGED <<bufVars, intSt, intEn, slow, irqOn, ep0, th, seenVars>>

\* endpointWrite's loop: while there is no credit the handler is wanted
ThSendWait ==
    /\ AtTh("dequeue") /\ me.n = 0 /\ can_transfer.in = 0 /\ "in" \notin intEn
    /\ intEn' = intEn \cup {"in"}
    /\ UNCHANGED <<bufVars, intSt, slow, irqOn, can_transfer, fifo, ep0, usb, th,
                   seenVars>>

ThSent ==
    /\ AtTh("sent")
    /\ IF isEmpty(tx) THEN Goto("thread", "disable") ELSE NextEp("thread")
    /\ UNCHANGED <<bufVars, regVars, th, seenVars>>

\* USBEpIntEn &= ~bitmask, a load and a store
ThDisable ==
    /\ AtTh("disable")
    /\ ThUsb([me EXCEPT !.at = "disabled", !.en = intEn])
    /\ UNCHANGED <<bufVars, regVars, th, seenVars>>

ThDisabled ==
    /\ AtTh("disabled")
    /\ intEn' = me.en \ {me.ep}
    /\ NextEp("thread")
    /\ UNCHANGED <<bufVars, intSt, slow, irqOn, can_transfer, fifo, ep0, th, seenVars>>

Usbisr(c) == Ep0(c) \/ Acknowledge(c) \/ NotCalled(c) \/ End(c)
Handlers ==
    \/ IsrEPOut \/ IsrEPIn
    \/ Count \/ ThEPOut \/ ThEPOutRead \/ ThEPOutCopy
    \/ ThEPIn \/ ThDequeue \/ ThDequeueStep \/ ThDequeueWrap \/ ThSend \/ ThSendWait
    \/ ThSent \/ ThDisable \/ ThDisabled

---------------------------------------------------------------------------
(* The thread.                                                             *)
ThGoto(step) == th' = [th EXCEPT !.at = step]

\* writeBlock: as many bytes as fit
WriteBlock ==
    /\ ThAt("idle") /\ flags.attached
    /\ \E size \in 1 .. TxSize :
        LET n == IF size > free(tx) THEN free(tx) ELSE size IN
        /\ n > 0 /\ accepted + n <= MaxTx /\ accepted + n + arrived <= MaxBytes
        /\ th' = [th EXCEPT !.at = "queue", !.n = n]
    /\ UNCHANGED <<bufVars, regVars, usb, seenVars>>

\* _putc
Putc ==
    /\ ThAt("idle") /\ flags.attached
    /\ accepted < MaxTx /\ accepted + arrived < MaxBytes
    /\ th' = [th EXCEPT !.at = "ensure", !.n = 1]
    /\ UNCHANGED <<bufVars, regVars, usb, seenVars>>

\* ensure_tx_space(1)
EnsureTxSpace ==
    /\ ThAt("ensure")
    /\ IF free(tx) < 1
       THEN SetInterrupt("in") /\ ThGoto("poll")
       ELSE ThGoto("queue") /\ UNCHANGED <<intSt, intEn, slow>>
    /\ UNCHANGED <<bufVars, irqOn, can_transfer, fifo, ep0, usb, seenVars>>

\* ... usb->usbisr(), which does something if EP_SLOW is set
CallUsbisr ==
    /\ ThAt("poll")
    /\ usb' = [usb EXCEPT !["thread"].at = IF slow THEN "ep0" ELSE "idle"]
    /\ ThGoto("ensure")
    /\ UNCHANGED <<bufVars, regVars, seenVars>>

QueueByte ==
    /\ ThAt("queue") /\ th.n > 0
    /\ tx' = queue(tx, accepted + 1)
    /\ dropped' = (dropped \/ isFull(tx))
    /\ accepted' = accepted + 1
    /\ th' = [th EXCEPT !.n = @ - 1]
    /\ UNCHANGED <<rx, nl_in_rx, flags, regVars, usb, host, arrived, got,
                   reentered, torn, lost>>

Queued ==
    /\ ThAt("queue") /\ th.n = 0
    /\ SetInterrupt("in") /\ ThGoto("idle")
    /\ UNCHANGED <<bufVars, irqOn, can_transfer, fifo, ep0, usb, seenVars>>

\* flush: waits for the buffer to empty, or for the host to go
Flush == ThAt("idle") /\ ThGoto("flush") /\ UNCHANGED <<bufVars, regVars, usb, seenVars>>
FlushReturn ==
    /\ ThAt("flush") /\ (~flags.attached \/ isEmpty(tx))
    /\ ThGoto("idle")
    /\ UNCHANGED <<bufVars, regVars, usb, seenVars>>

\* _getc: waits for a byte ...
Getc ==
    /\ ThAt("idle") /\ flags.attached
    /\ ThGoto("wait")
    /\ UNCHANGED <<bufVars, regVars, usb, seenVars>>

GetcWait ==
    /\ ThAt("wait") /\ ~isEmpty(rx)
    /\ ThGoto("dequeue")
    /\ UNCHANGED <<bufVars, regVars, usb, seenVars>>

\* ... rxbuf->dequeue(&c): nothing if the handler has emptied the buffer ...
GetcDequeue ==
    /\ ThAt("dequeue")
    /\ th' = IF isEmpty(rx) THEN [th EXCEPT !.at = "room"]
                            ELSE [th EXCEPT !.at = "store", !.load = rx.read]
    /\ UNCHANGED <<bufVars, regVars, usb, seenVars>>

\* ... read++, the byte, and read %= size: a load and a store ...
GetcStep ==
    /\ ThAt("store")
    /\ rx' = [rx EXCEPT !.read = th.load + 1]
    /\ ThGoto("copy")
    /\ UNCHANGED <<tx, nl_in_rx, flags, regVars, usb, seenVars>>

GetcCopy ==
    /\ ThAt("copy")
    /\ th' = [th EXCEPT !.at = "mod", !.c = rx.buf[th.load]]
    /\ got' = rx.buf[th.load].id
    /\ UNCHANGED <<bufVars, regVars, usb, host, accepted, arrived, reentered,
                   torn, dropped, lost>>

GetcMod ==
    /\ ThAt("mod")
    /\ th' = [th EXCEPT !.at = "wrap", !.load = rx.read]
    /\ UNCHANGED <<bufVars, regVars, usb, seenVars>>

\* mutant: read %= size is missing
GetcWrap_NoMod ==
    /\ ThAt("wrap")
    /\ ThGoto("room")
    /\ UNCHANGED <<bufVars, regVars, usb, seenVars>>

GetcWrap ==
    /\ ThAt("wrap")
    /\ rx' = [rx EXCEPT !.read = th.load % RxSize]
    /\ ThGoto("room")
    /\ UNCHANGED <<tx, nl_in_rx, flags, regVars, usb, seenVars>>

\* mutant: one byte more than a packet
GetcRoom_Late ==
    /\ ThAt("room")
    /\ ThGoto(IF free(rx) = Packet + 1 THEN "enable" ELSE "long")
    /\ UNCHANGED <<bufVars, regVars, usb, seenVars>>

\* ... room for exactly one packet: the handler is wanted again ...
GetcRoom ==
    /\ ThAt("room")
    /\ ThGoto(IF free(rx) = Packet THEN "enable" ELSE "long")
    /\ UNCHANGED <<bufVars, regVars, usb, seenVars>>

\* ... less room and no line in the buffer: what there is goes, and what
\* comes up to the line end; flush_to_nl is a bit of a byte ...
GetcLong ==
    /\ ThAt("long")
    /\ IF free(rx) < Packet /\ nl_in_rx = 0
       THEN /\ rx' = flush(rx)
            /\ th' = [th EXCEPT !.at = "skip", !.load = flags]
       ELSE ThGoto("line") /\ UNCHANGED rx
    /\ UNCHANGED <<tx, nl_in_rx, flags, regVars, usb, seenVars>>

GetcSkip ==
    /\ ThAt("skip")
    /\ flags' = [th.load EXCEPT !.flush_to_nl = TRUE]
    /\ ThGoto("enable")
    /\ UNCHANGED <<tx, rx, nl_in_rx, regVars, usb, seenVars>>

GetcEnable ==
    /\ ThAt("enable")
    /\ SetInterrupt("out") /\ ThGoto("line")
    /\ UNCHANGED <<bufVars, irqOn, can_transfer, fifo, ep0, usb, seenVars>>

\* ... and nl_in_rx--, again a load and a store
GetcLine ==
    /\ ThAt("line")
    /\ th' = IF nl_in_rx > 0 /\ th.c.kind = "nl"
             THEN [th EXCEPT !.at = "count", !.load = nl_in_rx] ELSE ThIdle
    /\ UNCHANGED <<bufVars, regVars, usb, seenVars>>

GetcCount ==
    /\ ThAt("count")
    /\ nl_in_rx' = th.load - 1
    /\ th' = ThIdle
    /\ UNCHANGED <<tx, rx, flags, regVars, usb, seenVars>>

Thread ==
    \/ WriteBlock \/ Putc \/ EnsureTxSpace \/ CallUsbisr \/ QueueByte \/ Queued
    \/ Flush \/ FlushReturn \/ Getc \/ GetcWait \/ GetcDequeue \/ GetcStep
    \/ GetcCopy \/ GetcMod \/ GetcWrap \/ GetcRoom \/ GetcLong \/ GetcSkip
    \/ GetcEnable \/ GetcLine \/ GetcCount

Next == HostTake \/ HostSend \/ HostLine \/ IsrEnter \/ (\E c \in Ctx : Usbisr(c))
        \/ Handlers \/ Thread
Spec == Init /\ [][Next]_vars

---------------------------------------------------------------------------
(* Properties.                                                             *)
CircOk(c, n, Bytes) ==
    /\ c.size = n /\ c.write \in 0 .. n - 1 /\ c.read \in 0 .. n
    /\ c.buf \in [0 .. n -> Bytes]

\* Types, and the bounds of the indices, the credits and the controller
TypeOK ==
    /\ CircOk(tx, TxSize, 0 .. MaxTx) /\ CircOk(rx, RxSize, RxByte)
    /\ nl_in_rx \in 0 .. MaxRx /\ flags \in [attached : BOOLEAN, flush_to_nl : BOOLEAN]
    /\ intSt \subseteq Ends /\ intEn \subseteq Ends
    /\ can_transfer \in [Ends -> 0 .. 2]
    /\ \A e \in Ends : Len(fifo[e]) <= 2
    /\ Len(usb["thread"].b) < Packet

\* The bytes under way to the host, wherever they are
InFlight == FlattenSeq(fifo.in) \o usb["thread"].b \o Contents(tx)

\* The host gets the bytes queued, all of them, once and in order, for as
\* long as the handler has not interrupted a usbisr of the thread
\* (USBSerial.cpp:153-163 and the producers at 71, 109, 128)
TxExact == reentered \/ host \o InFlight = [i \in 1 .. accepted |-> i]

\* A byte left in txbuf by a writer that is done has a handler on its way: the IN
\* handler is wanted, the USB interrupt is enabled, and the event has raised
\* EP_SLOW or will with the packet the host takes (USBSerial.cpp:73, 130, 164;
\* USBHAL_LPC17.cpp:799-812, 967).  The code breaks this in three ways, and only in
\* these: the handler interrupts the thread's own usbisr; a read or a control
\* transfer in the thread's usbisr leaves the USB interrupt disabled for good
\* (USBHAL_LPC17.cpp:352, 424); a usbisr of either context clears EP_SLOW (977)
\* after an IN event it has not served, and the byte waits for the next event
TxNotStranded ==
    (~isEmpty(tx) /\ th.at \notin {"queue", "poll", "ensure"}
       /\ usb["isr"].at = "idle" /\ ~reentered)
    => /\ "in" \in intEn
       /\ irqOn \/ "irq" \in lost
       /\ fifo.in # << >> \/ ("in" \in intSt /\ (slow \/ "event" \in lost))

\* The OUT handler is off only while rxbuf has no room for a packet, or the
\* reader is about to turn it on (USBSerial.cpp:84-94, 256-268).  Once the
\* handler has moved rxbuf back under a running dequeue, which then stores an
\* old index, it can be off next to an empty rxbuf for ever
RxReenabled ==
    "out" \notin intEn =>
        \/ free(rx) < Packet \/ th.at \in {"copy", "mod", "wrap", "room", "skip", "enable"}
        \/ torn

\* queue() never has to push out the oldest byte: a packet is taken from the
\* controller only if it fits, and writers make sure of room
\* (CircBuffer.h:60-63; USBSerial.cpp:70, 123, 185).  A handler that has
\* interrupted the thread's own can take the room the thread has just found
NeverDropsOldest == dropped => reentered

\* The reader gets the bytes in the order they came, each at most once,
\* until the handler moves rxbuf back while a dequeue is under way
\* (CircBuffer.h:70-75, 91-98, 105)
RxInOrder == [][got' # got => torn \/ got' > got]_vars

=============================================================================
