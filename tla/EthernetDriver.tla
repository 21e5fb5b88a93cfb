--------------------------- MODULE EthernetDriver ---------------------------
(***************************************************************************)
(* The LPC17xx Ethernet driver of FreeRTOS+TCP                             *)
(* (portable/NetworkInterface/LPC17xx/NetworkInterface.c) in its zero-copy *)
(* configuration: network buffers travel between the pool, the DMA         *)
(* descriptors, the EMAC task and the IP task.                             *)
(*                                                                         *)
(* The processes are the IP task inside xNetworkInterfaceOutput, the EMAC  *)
(* task (prvEMACHandlerTask with vClearTXBuffers and                       *)
(* prvNetworkInterfaceInput), NETWORK_IRQHandler, and the MAC's DMA.  The  *)
(* tasks interleave at every access to what they share; the handler is one *)
(* step.  The EMAC task has the higher priority, as in the driver's        *)
(* xTaskCreate call (configMAX_PRIORITIES - 1, against 2 of the IP task):  *)
(* the other tasks run only while it is blocked.  The pool (module         *)
(* NetworkBuffers) is used through its operations, and which of the free   *)
(* buffers a get returns is left open.                                     *)
(***************************************************************************)
EXTENDS Integers, Sequences, FiniteSets

CONSTANTS Buffers,      \* xNetworkBuffers
          NumRx,        \* configNUM_RX_DESCRIPTORS
          NumTx,        \* configNUM_TX_DESCRIPTORS; of both kinds the MAC
                        \* leaves one unused, so with one it moves no frame
          Frames,       \* what the network sends: subset of FrameKinds
          NULL

FrameKinds == {"ours", "other", "error"}

ASSUME DriverAssumption ==
    /\ IsFiniteSet(Buffers)
    /\ NumRx \in Nat \ {0, 1} /\ NumTx \in Nat \ {0, 1}
    /\ Cardinality(Buffers) >= NumRx
    /\ NULL \notin Buffers
    /\ Frames \subseteq FrameKinds

TxIndex == 0 .. NumTx - 1
RxIndex == 0 .. NumRx - 1

VARIABLES
    free,       \* xFreeBuffersList
    txDesc,     \* xDMATxDescriptors[].Packet
    txProduce, txConsume,   \* the MAC's transmit indices
    txSem,      \* xTXDescriptorSemaphore
    nextFree,   \* ulNextFreeTxDescriptor
    toClear,    \* ulTxDescriptorToClear
    rxDesc,     \* xDMARxDescriptors[].Packet
    rxStat,     \* xDMARxStatuses[].StatusInfo: the frame kind, or "none"
    rxProduce, rxConsume,   \* the MAC's receive indices
    intStatus,  \* the MAC's interrupt status register
    ulISREvents,            \* {"TX", "RX"}: EMAC_IF_TX_EVENT, EMAC_IF_RX_EVENT
    notified,   \* the EMAC task's notification value is not zero
    wiped,      \* history: events whose flag was lost, and none came since
    emac,       \* the EMAC task: pc and locals
    ip,         \* the IP task: pc and the buffer in hand
    queue,      \* eNetworkRxEvents in xNetworkEventQueue
    kept        \* buffers sockets hold, until their user returns them

macTx   == <<txProduce, txConsume>>
macRx   == <<rxProduce, rxConsume, rxStat>>
swTx    == <<txSem, nextFree, toClear>>
events  == <<intStatus, ulISREvents, notified, wiped>>
vars == <<free, txDesc, macTx, swTx, rxDesc, macRx, events, emac, ip, queue,
          kept>>

\* The descriptor after i, wrapping
NextTx(i) == (i + 1) % NumTx
NextRx(i) == (i + 1) % NumRx

\* prvSetupTxDescriptors, prvSetupRxDescriptors: each receive descriptor is
\* given a buffer of the pool, the first ones of the list, whichever they are
Init ==
    /\ rxDesc \in {f \in [RxIndex -> Buffers] :
                      \A i, j \in RxIndex : i # j => f[i] # f[j]}
    /\ free = Buffers \ {rxDesc[i] : i \in RxIndex}
    /\ txDesc = [i \in TxIndex |-> NULL]
    /\ txProduce = 0 /\ txConsume = 0 /\ txSem = NumTx
    /\ nextFree = 0 /\ toClear = 0
    /\ rxStat = [i \in RxIndex |-> "none"]
    /\ rxProduce = 0 /\ rxConsume = 0
    /\ intStatus = {} /\ ulISREvents = {} /\ notified = FALSE
    /\ wiped = {}
    /\ emac = [pc |-> "wait", loaded |-> {}, last |-> 0, count |-> 0, buf |-> NULL]
    /\ ip = [pc |-> "idle", buf |-> NULL]
    /\ queue = << >>
    /\ kept = {}

---------------------------------------------------------------------------
(* The MAC and its DMA *)

\* Chip_ENET_GetFillDescNum
FillDescNum(produce, consume) ==
    IF consume > produce THEN (NumTx - consume) + produce ELSE produce - consume

\* Chip_ENET_GetFreeDescNum: one descriptor stays unused
FreeDescNum == NumTx - 1 - FillDescNum(txProduce, txConsume)

MacTransmit ==
    /\ txProduce # txConsume
    /\ txConsume' = NextTx(txConsume)
    /\ intStatus' = intStatus \cup {"TXDONE"}
    /\ wiped' = wiped \ {"TX"}
    /\ UNCHANGED <<free, txDesc, txProduce, swTx, rxDesc, macRx, ulISREvents,
                   notified, emac, ip, queue, kept>>

RxFull == NextRx(rxProduce) = rxConsume

MacReceive(frame) ==
    /\ IF RxFull
       THEN /\ "RXOVERRUN" \notin intStatus
            /\ intStatus' = intStatus \cup {"RXOVERRUN"}
            /\ UNCHANGED <<rxStat, rxProduce>>
       ELSE /\ rxStat' = [rxStat EXCEPT ![rxProduce] = frame]
            /\ rxProduce' = NextRx(rxProduce)
            /\ intStatus' = intStatus \cup {"RXDONE"}
    /\ wiped' = wiped \ {"RX"}
    /\ UNCHANGED <<free, txDesc, macTx, swTx, rxDesc, rxConsume, ulISREvents,
                   notified, emac, ip, queue, kept>>

\* mutant: an overrun is no receive event
NETWORK_IRQHandler_NoOverrun ==
    /\ intStatus # {}
    /\ ulISREvents' = ulISREvents
          \cup (IF "RXDONE" \in intStatus THEN {"RX"} ELSE {})
          \cup (IF "TXDONE" \in intStatus THEN {"TX"} ELSE {})
    /\ notified' = TRUE
    /\ intStatus' = {}
    /\ UNCHANGED <<free, txDesc, macTx, swTx, rxDesc, macRx, wiped, emac, ip, queue,
                   kept>>

\* NETWORK_IRQHandler; the reset of the receive logic after an overrun leaves
\* the indices as they are
NETWORK_IRQHandler ==
    /\ intStatus # {}
    /\ ulISREvents' = ulISREvents
          \cup (IF intStatus \cap {"RXDONE", "RXOVERRUN"} # {} THEN {"RX"} ELSE {})
          \cup (IF "TXDONE" \in intStatus THEN {"TX"} ELSE {})
    /\ notified' = TRUE
    /\ intStatus' = {}
    /\ UNCHANGED <<free, txDesc, macTx, swTx, rxDesc, macRx, wiped, emac, ip, queue,
                   kept>>

---------------------------------------------------------------------------
(* The IP task: events, replies, and xNetworkInterfaceOutput *)

\* The EMAC task waits, for a notification or for room in the event queue,
\* which other events may have filled, and the other tasks run
EmacBlocked ==
    \/ emac.pc = "wait" /\ ~ notified
    \/ emac.pc = "post"

\* an eNetworkRxEvent hands a buffer to the IP task
IpReceive ==
    /\ EmacBlocked /\ ip.pc = "idle" /\ queue # << >>
    /\ ip' = [pc |-> "have", buf |-> Head(queue)]
    /\ queue' = Tail(queue)
    /\ UNCHANGED <<free, txDesc, macTx, swTx, rxDesc, macRx, events, emac, kept>>

\* the stack sends of its own accord: pxGetNetworkBufferWithDescriptor
IpGet ==
    /\ EmacBlocked /\ ip.pc = "idle"
    /\ \E b \in free : /\ free' = free \ {b}
                       /\ ip' = [pc |-> "have", buf |-> b]
    /\ UNCHANGED <<txDesc, macTx, swTx, rxDesc, macRx, events, emac, queue, kept>>

\* the stack is done with the buffer, lets a socket keep it, or sends it
IpRelease ==
    /\ EmacBlocked /\ ip.pc \in {"have", "release"}
    /\ free' = free \cup {ip.buf}
    /\ ip' = [pc |-> "idle", buf |-> NULL]
    /\ UNCHANGED <<txDesc, macTx, swTx, rxDesc, macRx, events, emac, queue, kept>>

IpKeep ==
    /\ EmacBlocked /\ ip.pc = "have"
    /\ kept' = kept \cup {ip.buf}
    /\ ip' = [pc |-> "idle", buf |-> NULL]
    /\ UNCHANGED <<free, txDesc, macTx, swTx, rxDesc, macRx, events, emac, queue>>

UserRelease ==
    \E b \in kept :
        /\ EmacBlocked
        /\ kept' = kept \ {b}
        /\ free' = free \cup {b}
        /\ UNCHANGED <<txDesc, macTx, swTx, rxDesc, macRx, events, emac, ip, queue>>

IpSend ==
    /\ EmacBlocked /\ ip.pc = "have"
    /\ ip' = [ip EXCEPT !.pc = "take"]
    /\ UNCHANGED <<free, txDesc, macTx, swTx, rxDesc, macRx, events, emac, queue, kept>>

\* xSemaphoreTake( xTXDescriptorSemaphore, 50 ms )
OutputTake ==
    /\ EmacBlocked /\ ip.pc = "take" /\ txSem > 0
    /\ txSem' = txSem - 1
    /\ ip' = [ip EXCEPT !.pc = "check"]
    /\ UNCHANGED <<free, txDesc, macTx, nextFree, toClear, rxDesc, macRx, events,
                   emac, queue, kept>>

OutputTimeout ==
    /\ EmacBlocked /\ ip.pc = "take" /\ txSem = 0
    /\ ip' = [ip EXCEPT !.pc = "release"]
    /\ UNCHANGED <<free, txDesc, macTx, swTx, rxDesc, macRx, events, emac, queue, kept>>

\* mutant: the credit of a dropped frame is not given back
OutputFull_NoGive ==
    /\ EmacBlocked /\ ip.pc = "check" /\ FreeDescNum = 0
    /\ ip' = [ip EXCEPT !.pc = "release"]
    /\ UNCHANGED <<free, txDesc, macTx, swTx, rxDesc, macRx, events, emac, queue,
                   kept>>

\* the semaphore was taken but the MAC's ring is full: the frame is dropped
OutputFull ==
    /\ EmacBlocked /\ ip.pc = "check" /\ FreeDescNum = 0
    /\ txSem' = txSem + 1
    /\ ip' = [ip EXCEPT !.pc = "release"]
    /\ UNCHANGED <<free, txDesc, macTx, nextFree, toClear, rxDesc, macRx, events,
                   emac, queue, kept>>

\* the descriptor points to the buffer, and the DMA owns it from now on
OutputDescriptor ==
    /\ EmacBlocked /\ ip.pc = "check" /\ FreeDescNum # 0
    /\ txDesc' = [txDesc EXCEPT ![txProduce] = ip.buf]
    /\ ip' = [pc |-> "produce", buf |-> NULL]
    /\ UNCHANGED <<free, macTx, swTx, rxDesc, macRx, events, emac, queue, kept>>

\* Chip_ENET_IncTXProduceIndex
OutputProduce ==
    /\ EmacBlocked /\ ip.pc = "produce"
    /\ txProduce' = NextTx(txProduce)
    /\ ip' = [ip EXCEPT !.pc = "advance"]
    /\ UNCHANGED <<free, txDesc, txConsume, swTx, rxDesc, macRx, events, emac,
                   queue, kept>>

OutputAdvance ==
    /\ EmacBlocked /\ ip.pc = "advance"
    /\ nextFree' = NextTx(nextFree)
    /\ ip' = [ip EXCEPT !.pc = "idle"]
    /\ UNCHANGED <<free, txDesc, macTx, txSem, toClear, rxDesc, macRx, events,
                   emac, queue, kept>>

Output == OutputTake \/ OutputTimeout \/ OutputFull \/ OutputDescriptor
            \/ OutputProduce \/ OutputAdvance

---------------------------------------------------------------------------
(* The EMAC task *)

EmacGoto(pc) == emac' = [emac EXCEPT !.pc = pc]

\* ulTaskNotifyTake: a notification, or the time-out of 5 s
EmacWake ==
    /\ emac.pc = "wait"
    /\ notified' = FALSE
    /\ EmacGoto("tx")
    /\ UNCHANGED <<free, txDesc, macTx, swTx, rxDesc, macRx, intStatus,
                   ulISREvents, wiped, ip, queue, kept>>

\* if( ulISREvents & event ) ulISREvents &= ~event: a load, then a store
EmacLoadEvents(event, here, then, otherwise) ==
    /\ emac.pc = here
    /\ emac' = IF event \in ulISREvents
               THEN [emac EXCEPT !.pc = then, !.loaded = ulISREvents]
               ELSE [emac EXCEPT !.pc = otherwise]
    /\ UNCHANGED <<free, txDesc, macTx, swTx, rxDesc, macRx, events, ip, queue, kept>>

EmacStoreEvents(event, here, then) ==
    /\ emac.pc = here
    /\ ulISREvents' = emac.loaded \ {event}
    /\ wiped' = wiped \cup (ulISREvents \ emac.loaded)
    /\ emac' = [emac EXCEPT !.pc = then, !.loaded = {}]
    /\ UNCHANGED <<free, txDesc, macTx, swTx, rxDesc, macRx, intStatus, notified,
                   ip, queue, kept>>

\* vClearTXBuffers: the bounds of the loop are read one after the other
ClearReadLast ==
    /\ emac.pc = "clear"
    /\ emac' = [emac EXCEPT !.pc = "clear count", !.last = nextFree]
    /\ UNCHANGED <<free, txDesc, macTx, swTx, rxDesc, macRx, events, ip, queue, kept>>

ClearReadCount ==
    /\ emac.pc = "clear count"
    /\ emac' = [emac EXCEPT !.pc = "clear loop", !.count = NumTx - txSem]
    /\ UNCHANGED <<free, txDesc, macTx, swTx, rxDesc, macRx, events, ip, queue, kept>>

\* mutant: no exception for a ring that is in use to the last descriptor
ClearMore_NoException == emac.count > 0 /\ toClear # emac.last

ClearMore == emac.count > 0 /\ ~ (toClear = emac.last /\ emac.count # NumTx)

\* vReleaseNetworkBufferAndDescriptor, then Packet = 0
ClearRelease ==
    /\ emac.pc = "clear loop" /\ ClearMore
    /\ free' = free \cup ({txDesc[toClear]} \ {NULL})
    /\ EmacGoto(IF txDesc[toClear] # NULL THEN "clear packet" ELSE "clear give")
    /\ UNCHANGED <<txDesc, macTx, swTx, rxDesc, macRx, events, ip, queue, kept>>

\* mutant: the descriptor keeps pointing to the released buffer
ClearPacket_Keep ==
    /\ emac.pc = "clear packet"
    /\ EmacGoto("clear give")
    /\ UNCHANGED <<free, txDesc, macTx, swTx, rxDesc, macRx, events, ip, queue, kept>>

ClearPacket ==
    /\ emac.pc = "clear packet"
    /\ txDesc' = [txDesc EXCEPT ![toClear] = NULL]
    /\ EmacGoto("clear give")
    /\ UNCHANGED <<free, macTx, swTx, rxDesc, macRx, events, ip, queue, kept>>

ClearGive ==
    /\ emac.pc = "clear give"
    /\ toClear' = NextTx(toClear)
    /\ txSem' = IF txSem < NumTx THEN txSem + 1 ELSE txSem
    /\ emac' = [emac EXCEPT !.pc = "clear loop", !.count = @ - 1]
    /\ UNCHANGED <<free, txDesc, macTx, nextFree, rxDesc, macRx, events, ip,
                   queue, kept>>

ClearDone ==
    /\ emac.pc = "clear loop" /\ ~ ClearMore
    /\ emac' = [emac EXCEPT !.pc = "rx", !.last = 0, !.count = 0]
    /\ UNCHANGED <<free, txDesc, macTx, swTx, rxDesc, macRx, events, ip, queue, kept>>

\* prvNetworkInterfaceInput: nothing received
InputEmpty ==
    /\ emac.pc = "input" /\ rxProduce = rxConsume
    /\ EmacGoto("wait")
    /\ UNCHANGED <<free, txDesc, macTx, swTx, rxDesc, macRx, events, ip, queue, kept>>

\* a frame with an error, or not for this node, or too few buffers are left
InputDrop ==
    /\ emac.pc = "input" /\ rxProduce # rxConsume
    /\ rxStat[rxConsume] = "ours" => Cardinality(free) <= NumTx
    /\ EmacGoto(IF rxStat[rxConsume] = "error" THEN "next, stop" ELSE "next")
    /\ UNCHANGED <<free, txDesc, macTx, swTx, rxDesc, macRx, events, ip, queue, kept>>

InputAccept ==
    /\ emac.pc = "input" /\ rxProduce # rxConsume
    /\ rxStat[rxConsume] = "ours" /\ Cardinality(free) > NumTx
    /\ EmacGoto("get")
    /\ UNCHANGED <<free, txDesc, macTx, swTx, rxDesc, macRx, events, ip, queue, kept>>

\* pxGetNetworkBufferWithDescriptor, which does not wait, for no other task ran
\* since the free buffers were counted; the exchange of the descriptor's buffer
InputGet ==
    /\ emac.pc = "get"
    /\ \E b \in free :
          /\ free' = free \ {b}
          /\ rxDesc' = [rxDesc EXCEPT ![rxConsume] = b]
    /\ emac' = [emac EXCEPT !.pc = "post", !.buf = rxDesc[rxConsume]]
    /\ UNCHANGED <<txDesc, macTx, swTx, macRx, events, ip, queue, kept>>

\* xSendEventStructToIPTask; it fails when the event queue stays full or the
\* IP task is not ready
InputPost ==
    /\ emac.pc = "post"
    /\ \/ queue' = Append(queue, emac.buf) /\ UNCHANGED free
       \/ free' = free \cup {emac.buf} /\ UNCHANGED queue
    /\ emac' = [emac EXCEPT !.pc = "next", !.buf = NULL]
    /\ UNCHANGED <<txDesc, macTx, swTx, rxDesc, macRx, events, ip, kept>>

\* the status is reset and the descriptor given back: IncRXConsumeIndex.  The
\* loop in prvEMACHandlerTask ends with the first erroneous frame
InputNext ==
    /\ emac.pc \in {"next", "next, stop"}
    /\ rxStat' = [rxStat EXCEPT ![rxConsume] = "none"]
    /\ rxConsume' = NextRx(rxConsume)
    /\ EmacGoto(IF emac.pc = "next" THEN "input" ELSE "wait")
    /\ UNCHANGED <<free, txDesc, macTx, swTx, rxDesc, rxProduce, events, ip, queue, kept>>

vClearTXBuffers == ClearReadLast \/ ClearReadCount \/ ClearRelease \/ ClearPacket
                     \/ ClearGive \/ ClearDone

prvNetworkInterfaceInput ==
    InputEmpty \/ InputDrop \/ InputAccept \/ InputGet \/ InputPost \/ InputNext

Emac ==
    \/ EmacWake
    \/ EmacLoadEvents("TX", "tx", "tx store", "rx")
    \/ EmacStoreEvents("TX", "tx store", "clear")
    \/ vClearTXBuffers
    \/ EmacLoadEvents("RX", "rx", "rx store", "wait")
    \/ EmacStoreEvents("RX", "rx store", "input")
    \/ prvNetworkInterfaceInput

---------------------------------------------------------------------------
Next ==
    \/ MacTransmit
    \/ \E frame \in Frames : MacReceive(frame)
    \/ NETWORK_IRQHandler
    \/ IpReceive \/ IpGet \/ IpRelease \/ IpKeep \/ UserRelease \/ IpSend \/ Output
    \/ Emac

Spec == Init /\ [][Next]_vars

---------------------------------------------------------------------------
Events == {"TX", "RX"}
Credit == 0 .. NumTx

EmacPc == {"wait", "tx", "tx store", "clear", "clear count", "clear loop",
           "clear packet", "clear give", "rx", "rx store", "input", "get",
           "post", "next", "next, stop"}

EmacState ==
    [pc : EmacPc, loaded : SUBSET Events, last : TxIndex, count : Credit,
     buf : Buffers \cup {NULL}]

IpState ==
    [pc : {"idle", "have", "take", "check", "produce", "advance", "release"},
     buf : Buffers \cup {NULL}]

(* The types of the state. *)
TypeOK ==
    /\ free \subseteq Buffers /\ kept \subseteq Buffers
    /\ txDesc \in [TxIndex -> Buffers \cup {NULL}]
    /\ {txProduce, txConsume, nextFree, toClear} \subseteq TxIndex
    /\ txSem \in Credit
    /\ rxDesc \in [RxIndex -> Buffers]
    /\ rxStat \in [RxIndex -> FrameKinds \cup {"none"}]
    /\ {rxProduce, rxConsume} \subseteq RxIndex
    /\ intStatus \subseteq {"TXDONE", "RXDONE", "RXOVERRUN"}
    /\ {ulISREvents, wiped} \subseteq SUBSET Events /\ notified \in BOOLEAN
    /\ emac \in EmacState
    /\ ip \in IpState
    /\ queue \in Seq(Buffers)

(* Every network buffer has exactly one owner at every moment: the pool, a *)
(* descriptor, one of the tasks, the event queue or a socket.  None is     *)
(* lost (a descriptor overwritten while it still held one) and none is in  *)
(* two places (released twice, or released and still referenced).  Between *)
(* the release of a sent buffer and the reset of its descriptor the        *)
(* reference in the descriptor is dead.                                    *)
UsedTx == {i \in TxIndex : txDesc[i] # NULL}
LiveTx == UsedTx \ (IF emac.pc = "clear packet" THEN {toClear} ELSE {})

Owners(b) ==
    (IF b \in free THEN {<<"pool", 0>>} ELSE {})
      \cup (IF b \in kept THEN {<<"socket", 0>>} ELSE {})
      \cup (IF b = ip.buf THEN {<<"ip", 0>>} ELSE {})
      \cup (IF b = emac.buf THEN {<<"emac", 0>>} ELSE {})
      \cup {<<"tx", i>> : i \in {j \in LiveTx : txDesc[j] = b}}
      \cup {<<"rx", i>> : i \in {j \in RxIndex : rxDesc[j] = b}}
      \cup {<<"queue", i>> : i \in {j \in DOMAIN queue : queue[j] = b}}

OneOwner == \A b \in Buffers : Cardinality(Owners(b)) = 1

(* The counting semaphore agrees with the descriptors: a credit is either  *)
(* in the semaphore, with the sender, or in a descriptor that waits to be  *)
(* cleared.  A leaked credit would stop transmission for good, a surplus   *)
(* one would overwrite a descriptor in use.                                *)
TxCredits ==
    txSem + (IF ip.pc = "check" THEN 1 ELSE 0)
          + Cardinality(UsedTx)
          + (IF emac.pc = "clear give" THEN 1 ELSE 0) = NumTx

(* The EMAC task clears one event flag with a load and a store              *)
(* (NetworkInterface.c:1086-1108), which wipes out the other one if the    *)
(* handler set it in between.  That is the only way to lose an event, and  *)
(* the next one of its kind makes up for it:                               *)
(*                                                                         *)
(* Reception does not die: while the receive ring is full, so that the MAC *)
(* can store nothing, an interrupt, a flag or the EMAC task's loop is on   *)
(* its way to empty it, or the flag was wiped out and no frame came since. *)
(* This needs the overrun interrupt, and each kind of dropped frame to     *)
(* give its descriptor back.                                               *)
RxComing ==
    \/ intStatus \cap {"RXDONE", "RXOVERRUN"} # {}
    \/ "RX" \in ulISREvents
    \/ emac.pc \in {"rx store", "input", "get", "post", "next", "next, stop"}

NoRxStall == RxFull => RxComing \/ "RX" \in wiped

(* Transmission does not die: when the semaphore is exhausted, so that     *)
(* every send times out, a sender still has the credit in hand, the MAC    *)
(* has a frame to send, or its completion is on the way to vClearTXBuffers.*)
(* The bounds of that function's loop, read one after the other while the  *)
(* IP task is anywhere in xNetworkInterfaceOutput, never make it stop      *)
(* before the first descriptor of a ring in use to the last one.           *)
TxComing ==
    \/ ip.pc \in {"check", "produce"}
    \/ txProduce # txConsume
    \/ "TXDONE" \in intStatus
    \/ "TX" \in ulISREvents
    \/ emac.pc \in {"tx store", "clear", "clear count", "clear loop",
                    "clear packet", "clear give"}

NoTxStall == txSem = 0 => TxComing \/ "TX" \in wiped

=============================================================================
