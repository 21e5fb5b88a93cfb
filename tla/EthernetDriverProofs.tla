------------------------ MODULE EthernetDriverProofs ------------------------
(***************************************************************************)
(* The invariants of the Ethernet driver, proved for any pool, any number  *)
(* of descriptors above one and any mix of frames.                         *)
(*                                                                         *)
(* The core is TxOrder: the descriptors in use lie in a row that begins at *)
(* ulTxDescriptorToClear and ends before the MAC's produce index, and      *)
(* there are as many as the semaphore lacks.  The sender therefore finds   *)
(* an empty descriptor at the produce index, and the loop of               *)
(* vClearTXBuffers a used one at its own index, although neither looks:    *)
(* this is what keeps every buffer with one owner.                         *)
(***************************************************************************)
EXTENDS EthernetDriver, FiniteSetTheorems, TLAPS

---------------------------------------------------------------------------
(* The inductive invariant *)

\* A task that is at work on a buffer has it in hand
BufferInHand ==
    /\ ip.buf # NULL <=> ip.pc \in {"have", "take", "check", "release"}
    /\ emac.buf # NULL <=> emac.pc = "post"

\* The loop of vClearTXBuffers has the bounds it read, although one was read
\* before the other: the IP task does not run while the EMAC task does
InClearLoop == emac.pc \in {"clear loop", "clear packet", "clear give"}

ClearBounds ==
    /\ emac.pc = "clear count" \/ InClearLoop => emac.last = nextFree
    /\ InClearLoop => emac.count = NumTx - txSem
    /\ emac.pc \in {"clear packet", "clear give"} => emac.count > 0
    /\ emac.pc = "clear packet" => toClear \in UsedTx

\* nextFree follows the MAC's produce index
NextFreeFollows ==
    txProduce = IF ip.pc = "advance" THEN NextTx(nextFree) ELSE nextFree

\* The sender filled its descriptor in a ring that had room, and the MAC can
\* only make more
RoomToProduce == ip.pc = "produce" => FreeDescNum # 0

\* The first descriptor in use, and the one behind the last
First == IF emac.pc = "clear give" THEN NextTx(toClear) ELSE toClear
After == IF ip.pc = "produce" THEN NextTx(txProduce) ELSE txProduce

InUse == Cardinality(UsedTx)

TxOrder ==
    /\ \A i \in TxIndex : i \in UsedTx <=> FillDescNum(i, First) < InUse
    /\ FillDescNum(After, First) = IF InUse = NumTx THEN 0 ELSE InUse

\* The owners of OneOwner, as sets of buffers that do not meet and make up
\* the pool
InHand == {ip.buf, emac.buf} \ {NULL}
InTx   == {txDesc[i] : i \in LiveTx}
InRx   == {rxDesc[i] : i \in RxIndex}
Queued == {queue[i] : i \in DOMAIN queue}

Once ==
    /\ ip.buf = emac.buf => ip.buf = NULL
    /\ \A i, j \in LiveTx : txDesc[i] = txDesc[j] => i = j
    /\ \A i, j \in RxIndex : rxDesc[i] = rxDesc[j] => i = j
    /\ \A i, j \in DOMAIN queue : queue[i] = queue[j] => i = j

Apart ==
    /\ free \cap (kept \cup InHand \cup InTx \cup InRx \cup Queued) = {}
    /\ kept \cap (InHand \cup InTx \cup InRx \cup Queued) = {}
    /\ InHand \cap (InTx \cup InRx \cup Queued) = {}
    /\ InTx \cap (InRx \cup Queued) = {}
    /\ InRx \cap Queued = {}

Complete == Buffers = free \cup kept \cup InHand \cup InTx \cup InRx \cup Queued

\* The EMAC task is at a frame that the MAC received
FrameAtHand ==
    emac.pc \in {"get", "post", "next", "next, stop"} => rxProduce # rxConsume

IInv ==
    /\ TypeOK
    /\ BufferInHand /\ ClearBounds /\ NextFreeFollows /\ RoomToProduce
    /\ TxCredits /\ TxOrder
    /\ Once /\ Apart /\ Complete
    /\ FrameAtHand /\ NoRxStall /\ NoTxStall

---------------------------------------------------------------------------
(* The rings *)

(* Indices and credits are natural numbers.                                *)
LEMMA NaturalNumbers ==
    /\ NumTx \in Nat /\ NumTx > 1
    /\ \A i \in TxIndex : i \in Nat
    /\ \A n \in Credit : n \in Nat /\ n <= NumTx
BY DriverAssumption DEF TxIndex, Credit

(* The index after the last one is the first.                              *)
LEMMA NextTxIndex ==
    ASSUME NEW i \in TxIndex
    PROVE  /\ NextTx(i) \in TxIndex
           /\ NextTx(i) = IF i = NumTx - 1 THEN 0 ELSE i + 1
BY DriverAssumption DEF NextTx, TxIndex

(* ... in the ring of receive descriptors as well.                         *)
LEMMA NextRxIndex ==
    ASSUME NEW i \in RxIndex
    PROVE  /\ NextRx(i) \in RxIndex /\ NextRx(i) # i
           /\ \A j \in RxIndex : NextRx(i) = NextRx(j) => i = j
BY DriverAssumption DEF NextRx, RxIndex

(* Chip_ENET_GetFillDescNum is the distance from one index to the other    *)
(* along the ring: each distance leads to one index, and a step of either  *)
(* index changes it by one.                                                *)
LEMMA Distance ==
    ASSUME NEW a \in TxIndex, NEW b \in TxIndex
    PROVE  /\ FillDescNum(a, b) \in TxIndex
           /\ FillDescNum(a, b) = 0 <=> a = b
           /\ \A c \in TxIndex : FillDescNum(a, b) = FillDescNum(c, b) => a = c
           /\ FillDescNum(NextTx(a), b) =
                 IF FillDescNum(a, b) = NumTx - 1 THEN 0
                                                  ELSE FillDescNum(a, b) + 1
           /\ FillDescNum(a, NextTx(b)) =
                 IF FillDescNum(a, b) = 0 THEN NumTx - 1
                                          ELSE FillDescNum(a, b) - 1
<1> DEFINE na == NextTx(a)  nb == NextTx(b)
<1>1. /\ na \in TxIndex /\ na = IF a = NumTx - 1 THEN 0 ELSE a + 1
      /\ nb \in TxIndex /\ nb = IF b = NumTx - 1 THEN 0 ELSE b + 1
  BY NextTxIndex
<1> HIDE DEF na, nb
<1>2. /\ FillDescNum(a, b) \in TxIndex
      /\ FillDescNum(a, b) = 0 <=> a = b
      /\ \A c \in TxIndex : FillDescNum(a, b) = FillDescNum(c, b) => a = c
      /\ FillDescNum(na, b) = IF FillDescNum(a, b) = NumTx - 1 THEN 0
                                                  ELSE FillDescNum(a, b) + 1
      /\ FillDescNum(a, nb) = IF FillDescNum(a, b) = 0 THEN NumTx - 1
                                          ELSE FillDescNum(a, b) - 1
  BY <1>1, DriverAssumption DEF FillDescNum, TxIndex
<1> QED
  BY <1>2 DEF na, nb

(* The number of descriptors in use, and what one more or less makes it.   *)
LEMMA UsedNumber ==
    /\ InUse \in Credit
    /\ \A i \in TxIndex \ UsedTx : Cardinality(UsedTx \cup {i}) = InUse + 1
    /\ \A i \in UsedTx : Cardinality(UsedTx \ {i}) = InUse - 1
<1>1. IsFiniteSet(TxIndex) /\ Cardinality(TxIndex) = NumTx
  BY FS_Interval, DriverAssumption DEF TxIndex
<1>2. UsedTx \subseteq TxIndex
  BY DEF UsedTx
<1>3. IsFiniteSet(UsedTx) /\ InUse <= NumTx
  BY <1>1, <1>2, FS_Subset DEF InUse
<1>4. InUse \in Nat
  BY <1>3, FS_CardinalityType DEF InUse
<1> QED
  BY <1>3, <1>4, FS_AddElement, FS_RemoveElement, DriverAssumption DEF InUse, Credit

(* A credit given or taken leaves a credit.                                *)
LEMMA CreditStep ==
    ASSUME NEW n \in Credit
    PROVE  /\ n < NumTx => n + 1 \in Credit
           /\ n > 0 => n - 1 \in Credit
           /\ NumTx - n \in Credit
BY DriverAssumption DEF Credit

(* The credits that are not in the semaphore, case by case.                *)
LEMMA CreditsOut ==
    ASSUME TypeOK, TxCredits
    PROVE  /\ ip.pc = "check" /\ emac.pc = "clear give" => txSem + InUse = NumTx - 2
           /\ ip.pc = "check" /\ emac.pc # "clear give" => txSem + InUse = NumTx - 1
           /\ ip.pc # "check" /\ emac.pc = "clear give" => txSem + InUse = NumTx - 1
           /\ ip.pc # "check" /\ emac.pc # "clear give" => txSem + InUse = NumTx
           /\ ip.pc = "check" \/ emac.pc = "clear give" => txSem < NumTx
<1> DEFINE sender == IF ip.pc = "check" THEN 1 ELSE 0
           clearer == IF emac.pc = "clear give" THEN 1 ELSE 0
<1>1. txSem \in Nat /\ InUse \in Nat /\ NumTx \in Nat
  BY UsedNumber, NaturalNumbers DEF TypeOK
<1>2. txSem + sender + InUse + clearer = NumTx
  BY DEF TxCredits, InUse
<1>3. sender \in Nat /\ clearer \in Nat
  OBVIOUS
<1>4. /\ ip.pc = "check" => sender = 1
      /\ ip.pc # "check" => sender = 0
  OBVIOUS
<1>5. /\ emac.pc = "clear give" => clearer = 1
      /\ emac.pc # "clear give" => clearer = 0
  OBVIOUS
<1> HIDE DEF sender, clearer
<1>6. txSem + InUse = NumTx - sender - clearer
  BY ONLY <1>1, <1>2, <1>3
<1>7. /\ sender = 1 /\ clearer = 1 => txSem + InUse = NumTx - 2
      /\ sender = 1 /\ clearer = 0 => txSem + InUse = NumTx - 1
      /\ sender = 0 /\ clearer = 1 => txSem + InUse = NumTx - 1
      /\ sender = 0 /\ clearer = 0 => txSem + InUse = NumTx
      /\ sender = 1 \/ clearer = 1 => txSem < NumTx
  BY ONLY <1>1, <1>3, <1>6
<1> QED
  BY <1>4, <1>5, <1>7, Zenon

---------------------------------------------------------------------------
(* The types *)

(* Every step keeps the types.                                             *)
LEMMA TypeStep ==
    ASSUME IInv, [Next]_vars
    PROVE  TypeOK'
<1> USE DriverAssumption DEF IInv, TypeOK, events, macTx, macRx, swTx
<1>1. CASE MacTransmit
  BY <1>1, NextTxIndex DEF MacTransmit
<1>2. ASSUME NEW frame \in Frames, MacReceive(frame)
      PROVE  TypeOK'
  <2>1. CASE RxFull
    BY <1>2, <2>1 DEF MacReceive
  <2>2. CASE ~ RxFull
    <3>1. rxStat' \in [RxIndex -> FrameKinds \cup {"none"}]
      BY <1>2, <2>2 DEF MacReceive
    <3>2. intStatus' \subseteq {"TXDONE", "RXDONE", "RXOVERRUN"}
      BY <1>2, <2>2 DEF MacReceive
    <3> QED
      BY <1>2, <2>2, <3>1, <3>2, NextRxIndex DEF MacReceive
  <2> QED
    BY <2>1, <2>2
<1>3. CASE NETWORK_IRQHandler
  <2>1. ulISREvents' \subseteq Events
    BY <1>3 DEF NETWORK_IRQHandler, Events
  <2> QED
    BY <1>3, <2>1 DEF NETWORK_IRQHandler
<1>4. ASSUME IpReceive \/ IpGet \/ IpRelease \/ IpKeep \/ UserRelease \/ IpSend
      PROVE  TypeOK'
  <2>1. CASE IpReceive
    BY <2>1 DEF IpReceive, IpState
  <2>2. CASE IpGet
    BY <2>2 DEF IpGet, IpState
  <2>3. CASE IpRelease
    BY <2>3 DEF IpRelease, IpState, BufferInHand
  <2>4. CASE IpKeep
    BY <2>4 DEF IpKeep, IpState, BufferInHand
  <2>5. CASE UserRelease
    BY <2>5 DEF UserRelease
  <2>6. CASE IpSend
    BY <2>6 DEF IpSend, IpState
  <2> QED
    BY <1>4, <2>1, <2>2, <2>3, <2>4, <2>5, <2>6
<1>5. CASE Output
  <2>1. CASE OutputTake
    BY <2>1, CreditStep DEF OutputTake, IpState
  <2>2. CASE OutputTimeout
    BY <2>2 DEF OutputTimeout, IpState
  <2>3. CASE OutputFull
    <3>1. txSem < NumTx /\ txSem' = txSem + 1
      BY <2>3, CreditsOut DEF OutputFull
    <3>2. txSem' \in Credit
      BY <3>1, CreditStep
    <3> QED
      BY <2>3, <3>2 DEF OutputFull, IpState
  <2>4. CASE OutputDescriptor
    BY <2>4 DEF OutputDescriptor, IpState
  <2>5. CASE OutputProduce
    BY <2>5, NextTxIndex DEF OutputProduce, IpState
  <2>6. CASE OutputAdvance
    BY <2>6, NextTxIndex DEF OutputAdvance, IpState
  <2> QED
    BY <1>5, <2>1, <2>2, <2>3, <2>4, <2>5, <2>6 DEF Output
<1>6. CASE EmacWake
  BY <1>6 DEF EmacWake, EmacGoto, EmacState, EmacPc
<1>7. ASSUME NEW event, NEW here, NEW then \in EmacPc, NEW otherwise \in EmacPc,
             EmacLoadEvents(event, here, then, otherwise)
      PROVE  TypeOK'
  <2>1. emac' \in EmacState
    BY <1>7 DEF EmacLoadEvents, EmacState
  <2> QED
    BY <1>7, <2>1 DEF EmacLoadEvents
<1>8. ASSUME NEW event, NEW here, NEW then \in EmacPc,
             EmacStoreEvents(event, here, then)
      PROVE  TypeOK'
  <2>1. emac' \in EmacState /\ emac.loaded \subseteq Events
    BY <1>8 DEF EmacStoreEvents, EmacState
  <2> QED
    BY <1>8, <2>1 DEF EmacStoreEvents
<1>9. CASE vClearTXBuffers
  <2>1. CASE ClearReadLast
    BY <2>1 DEF ClearReadLast, EmacState, EmacPc
  <2>2. CASE ClearReadCount
    <3>1. NumTx - txSem \in Credit
      BY CreditStep
    <3> QED
      BY <2>2, <3>1 DEF ClearReadCount, EmacState, EmacPc
  <2>3. CASE ClearRelease
    <3>1. emac' \in EmacState
      BY <2>3 DEF ClearRelease, EmacGoto, EmacState, EmacPc
    <3>2. free' \subseteq Buffers
      BY <2>3 DEF ClearRelease
    <3> QED
      BY <2>3, <3>1, <3>2 DEF ClearRelease
  <2>4. CASE ClearPacket
    BY <2>4 DEF ClearPacket, EmacGoto, EmacState, EmacPc
  <2>5. CASE ClearGive
    <3>1. emac.pc = "clear give" /\ emac.count \in Credit
      BY <2>5 DEF ClearGive, EmacState
    <3>2. emac.count > 0 /\ txSem < NumTx
      BY <3>1, CreditsOut DEF ClearBounds, InClearLoop
    <3>3. emac.count - 1 \in Credit /\ txSem + 1 \in Credit
      BY <3>1, <3>2, CreditStep
    <3>4. emac' \in EmacState
      BY <2>5, <3>3 DEF ClearGive, EmacState, EmacPc
    <3>5. txSem' \in Credit
      BY <2>5, <3>2, <3>3 DEF ClearGive
    <3> QED
      BY <2>5, <3>4, <3>5, NextTxIndex DEF ClearGive
  <2>6. CASE ClearDone
    <3>1. 0 \in TxIndex /\ 0 \in Credit
      BY DEF TxIndex, Credit
    <3> QED
      BY <2>6, <3>1 DEF ClearDone, EmacState, EmacPc
  <2> QED
    BY <1>9, <2>1, <2>2, <2>3, <2>4, <2>5, <2>6 DEF vClearTXBuffers
<1>10. CASE prvNetworkInterfaceInput
  <2>1. CASE InputEmpty
    BY <2>1 DEF InputEmpty, EmacGoto, EmacState, EmacPc
  <2>2. CASE InputDrop
    BY <2>2 DEF InputDrop, EmacGoto, EmacState, EmacPc
  <2>3. CASE InputAccept
    BY <2>3 DEF InputAccept, EmacGoto, EmacState, EmacPc
  <2>4. CASE InputGet
    <3>1. emac' \in EmacState
      BY <2>4 DEF InputGet, EmacState, EmacPc
    <3>2. free' \subseteq Buffers /\ rxDesc' \in [RxIndex -> Buffers]
      BY <2>4 DEF InputGet
    <3> QED
      BY <2>4, <3>1, <3>2 DEF InputGet
  <2>5. CASE InputPost
    <3>1. emac.buf \in Buffers
      BY <2>5 DEF InputPost, BufferInHand, EmacState
    <3>2. emac' \in EmacState
      BY <2>5 DEF InputPost, EmacState, EmacPc
    <3>3. free' \in {free, free \cup {emac.buf}}
      BY <2>5 DEF InputPost
    <3>4. queue' \in {queue, Append(queue, emac.buf)}
      BY <2>5 DEF InputPost
    <3>5. Append(queue, emac.buf) \in Seq(Buffers)
      BY <3>1
    <3> QED
      BY <2>5, <3>1, <3>2, <3>3, <3>4, <3>5 DEF InputPost
  <2>6. CASE InputNext
    <3>1. emac' \in EmacState
      BY <2>6 DEF InputNext, EmacGoto, EmacState, EmacPc
    <3> QED
      BY <2>6, <3>1, NextRxIndex DEF InputNext
  <2> QED
    BY <1>10, <2>1, <2>2, <2>3, <2>4, <2>5, <2>6 DEF prvNetworkInterfaceInput
<1>11. CASE UNCHANGED vars
  BY <1>11 DEF vars
<1> QED
  BY <1>1, <1>2, <1>3, <1>4, <1>5, <1>6, <1>7, <1>8, <1>9, <1>10, <1>11
  DEF Next, Emac, EmacPc

---------------------------------------------------------------------------
(* The transmit descriptors *)

TxInv == ClearBounds /\ NextFreeFollows /\ RoomToProduce /\ TxCredits /\ TxOrder

(* A step that leaves the descriptors and their indices alone, and takes   *)
(* neither task across a point that TxInv tells apart.                     *)
LEMMA RingStill ==
    ASSUME TxInv, UNCHANGED <<txDesc, macTx, swTx>>,
           \A pc \in {"check", "produce", "advance"} : ip'.pc = pc <=> ip.pc = pc,
           (emac'.pc = "clear give") = (emac.pc = "clear give")
    PROVE  NextFreeFollows' /\ RoomToProduce' /\ TxCredits' /\ TxOrder'
<1>1. /\ UsedTx' = UsedTx /\ InUse' = InUse /\ First' = First /\ After' = After
      /\ FreeDescNum' = FreeDescNum
  BY DEF UsedTx, InUse, First, After, FreeDescNum, FillDescNum, macTx, swTx, NextTx
<1>2. NextFreeFollows' /\ RoomToProduce'
  BY <1>1 DEF TxInv, NextFreeFollows, RoomToProduce, NextTx, macTx, swTx
<1>3. TxCredits'
  BY <1>1 DEF TxInv, TxCredits, swTx
<1>4. TxOrder'
  BY <1>1 DEF TxInv, TxOrder, FillDescNum
<1> QED
  BY <1>2, <1>3, <1>4

(* A step away from the transmit descriptors keeps what is said of them.   *)
LEMMA TxStill ==
    ASSUME TxInv, UNCHANGED <<txDesc, macTx, swTx>>,
           \A pc \in {"check", "produce", "advance"} : ip'.pc = pc <=> ip.pc = pc,
           \/ emac' = emac
           \/ /\ emac.pc # "clear give"
              /\ emac'.pc \notin {"clear count", "clear loop", "clear packet",
                                  "clear give"}
    PROVE  TxInv'
<1>1. NextFreeFollows' /\ RoomToProduce' /\ TxCredits' /\ TxOrder'
  BY RingStill
<1>2. ClearBounds'
  BY DEF TxInv, ClearBounds, InClearLoop, UsedTx, swTx
<1> QED
  BY <1>1, <1>2 DEF TxInv

(* The MAC takes a frame from its ring: there is more room than before.    *)
LEMMA TxTransmit ==
    ASSUME TypeOK, TxInv, MacTransmit
    PROVE  TxInv'
<1>1. txProduce \in TxIndex /\ txConsume \in TxIndex
  BY DEF TypeOK
<1>2. FillDescNum(txProduce, NextTx(txConsume)) = FillDescNum(txProduce, txConsume) - 1
  BY <1>1, Distance DEF MacTransmit
<1>3. FreeDescNum' = FreeDescNum + 1 /\ FreeDescNum \in Nat
  BY <1>1, <1>2, Distance, DriverAssumption DEF FreeDescNum, FillDescNum, MacTransmit, TxIndex
<1>4. RoomToProduce'
  BY <1>3 DEF RoomToProduce, MacTransmit
<1>5. UsedTx' = UsedTx /\ InUse' = InUse /\ First' = First /\ After' = After
  BY DEF UsedTx, InUse, First, After, MacTransmit, swTx
<1>6. TxOrder'
  BY <1>5 DEF TxInv, TxOrder, FillDescNum
<1> QED
  BY <1>4, <1>5, <1>6
  DEF TxInv, ClearBounds, InClearLoop, NextFreeFollows, TxCredits, MacTransmit, swTx

(* A credit means a descriptor that is not in use, and by TxOrder the one  *)
(* at the produce index is.                                                *)
LEMMA SenderFindsUnused ==
    ASSUME TypeOK, TxInv, EmacBlocked, ip.pc = "check"
    PROVE  /\ InUse \in Nat /\ txSem \in Nat /\ NumTx \in Nat
           /\ txSem + InUse = NumTx - 1
           /\ FillDescNum(txProduce, toClear) = InUse
           /\ txProduce \notin UsedTx
<1>1. emac.pc # "clear give"
  BY DEF EmacBlocked
<1>2. InUse \in Nat /\ txSem \in Nat /\ NumTx \in Nat
  BY UsedNumber, NaturalNumbers DEF TypeOK
<1>3. txSem + InUse = NumTx - 1
  BY <1>1, CreditsOut, Zenon DEF TxInv
<1>4. InUse < NumTx /\ ~ InUse < InUse
  BY ONLY <1>2, <1>3
<1>5. FillDescNum(txProduce, toClear) = InUse
  BY <1>1, <1>4 DEF TxInv, TxOrder, After, First
<1>6. txProduce \notin UsedTx
  BY <1>1, <1>4, <1>5 DEF TxInv, TxOrder, First, TypeOK
<1> QED
  BY <1>2, <1>3, <1>5, <1>6

(* xNetworkInterfaceOutput                                                 *)
LEMMA TxOutput ==
    ASSUME TypeOK, BufferInHand, TxInv, Output
    PROVE  TxInv'
<1> USE DEF macTx, swTx
<1>0. EmacBlocked /\ UNCHANGED emac
  BY DEF Output, OutputTake, OutputTimeout, OutputFull, OutputDescriptor,
         OutputProduce, OutputAdvance
<1>1. emac.pc \in {"wait", "post"}
  BY <1>0 DEF EmacBlocked
<1>2. ClearBounds'
  BY <1>0, <1>1 DEF ClearBounds, InClearLoop
<1>3. First = toClear /\ First' = toClear'
  BY <1>0, <1>1 DEF First
<1>4. CASE OutputTake \/ OutputFull \/ OutputTimeout
  <2>1. /\ UNCHANGED <<txDesc, txProduce, txConsume, nextFree, toClear>>
        /\ ip.pc \in {"take", "check"} /\ ip'.pc \in {"check", "release"}
    BY <1>4 DEF OutputTake, OutputFull, OutputTimeout, TypeOK, IpState
  <2>2. UsedTx' = UsedTx /\ InUse' = InUse /\ First' = First /\ After' = After
    BY <1>3, <2>1 DEF UsedTx, InUse, After
  <2>3. NextFreeFollows' /\ RoomToProduce'
    BY <2>1 DEF TxInv, NextFreeFollows, RoomToProduce
  <2>4. TxOrder'
    BY <2>2 DEF TxInv, TxOrder, FillDescNum
  <2>5. TxCredits'
    <3>1. txSem \in Nat /\ InUse \in Nat /\ NumTx \in Nat
      BY UsedNumber, NaturalNumbers DEF TypeOK
    <3>2. /\ ip.pc = "check" => txSem + 1 + InUse + 0 = NumTx
          /\ ip.pc # "check" => txSem + 0 + InUse + 0 = NumTx
      BY <1>1 DEF TxInv, TxCredits, InUse
    <3>3. /\ ip'.pc = "check" => (TxCredits' <=> txSem' + 1 + InUse + 0 = NumTx)
          /\ ip'.pc # "check" => (TxCredits' <=> txSem' + 0 + InUse + 0 = NumTx)
      BY <1>0, <1>1, <2>2 DEF TxCredits, InUse
    <3>4. CASE OutputTake
      <4>1. ip.pc = "take" /\ ip'.pc = "check" /\ txSem' = txSem - 1
        BY <3>4 DEF OutputTake, TypeOK, IpState
      <4> QED
        BY ONLY <3>1, <3>2, <3>3, <4>1
    <3>5. CASE OutputFull
      <4>1. ip.pc = "check" /\ ip'.pc = "release" /\ txSem' = txSem + 1
        BY <3>5 DEF OutputFull, TypeOK, IpState
      <4> QED
        BY ONLY <3>1, <3>2, <3>3, <4>1
    <3>6. CASE OutputTimeout
      <4>1. ip.pc = "take" /\ ip'.pc = "release" /\ txSem' = txSem
        BY <3>6 DEF OutputTimeout, TypeOK, IpState
      <4> QED
        BY ONLY <3>1, <3>2, <3>3, <4>1
    <3> QED
      BY <1>4, <3>4, <3>5, <3>6
  <2> QED
    BY <1>2, <2>3, <2>4, <2>5 DEF TxInv
<1>5. CASE OutputDescriptor
  <2>1. /\ txProduce \in TxIndex /\ toClear \in TxIndex /\ UNCHANGED <<macTx, swTx>>
        /\ ip.pc = "check" /\ ip'.pc = "produce" /\ FreeDescNum # 0
        /\ txDesc' = [txDesc EXCEPT ![txProduce] = ip.buf] /\ ip.buf # NULL
    BY <1>5 DEF OutputDescriptor, TypeOK, IpState, BufferInHand
  <2>2. InUse \in Nat /\ txSem \in Nat /\ NumTx \in Nat /\ txSem + InUse = NumTx - 1
    BY <1>0, <2>1, SenderFindsUnused
  <2>4. FillDescNum(txProduce, toClear) = InUse
    BY <1>0, <2>1, SenderFindsUnused
  <2>5. txProduce \notin UsedTx
    BY <1>0, <2>1, SenderFindsUnused
  <2>6. UsedTx' = UsedTx \cup {txProduce}
    BY <2>1 DEF UsedTx, TypeOK
  <2>7. InUse' = InUse + 1
    BY <2>1, <2>5, <2>6, UsedNumber DEF InUse
  <2>8. TxOrder'
    <3>1. ASSUME NEW i \in TxIndex
          PROVE  i \in UsedTx' <=> FillDescNum(i, toClear) < InUse + 1
      <4>1. i \in UsedTx <=> FillDescNum(i, toClear) < InUse
        BY <1>3 DEF TxInv, TxOrder
      <4>2. FillDescNum(i, toClear) = InUse <=> i = txProduce
        BY <2>1, <2>4, Distance
      <4>3. FillDescNum(i, toClear) \in Nat
        BY <2>1, Distance DEF TxIndex
      <4>4. FillDescNum(i, toClear) < InUse + 1 <=>
               FillDescNum(i, toClear) < InUse \/ FillDescNum(i, toClear) = InUse
        BY ONLY <2>2, <4>3
      <4> QED
        BY <2>6, <4>1, <4>2, <4>4
    <3>2. FillDescNum(NextTx(txProduce), toClear) =
             IF InUse = NumTx - 1 THEN 0 ELSE InUse + 1
      BY <2>1, <2>4, Distance
    <3>3. InUse = NumTx - 1 <=> InUse + 1 = NumTx
      BY ONLY <2>2
    <3> QED
      BY <1>3, <2>1, <2>7, <3>1, <3>2, <3>3 DEF TxOrder, After, FillDescNum, NextTx
  <2>9. TxCredits'
    <3>1. TxCredits' <=> txSem + 0 + (InUse + 1) + 0 = NumTx
      BY <1>0, <1>1, <2>1, <2>7 DEF TxCredits, InUse
    <3> QED
      BY ONLY <2>2, <3>1
  <2>10. NextFreeFollows' /\ RoomToProduce'
    BY <2>1 DEF TxInv, NextFreeFollows, RoomToProduce, FreeDescNum, FillDescNum
  <2> QED
    BY <1>2, <2>8, <2>9, <2>10 DEF TxInv
<1>6. CASE OutputProduce \/ OutputAdvance
  <2>1. /\ ip.pc \in {"produce", "advance"} /\ ip'.pc \in {"advance", "idle"}
        /\ UNCHANGED <<txDesc, txSem, toClear>>
    BY <1>6 DEF OutputProduce, OutputAdvance, TypeOK, IpState
  <2>2. UsedTx' = UsedTx /\ InUse' = InUse /\ After' = After
    BY <1>6, <2>1 DEF OutputProduce, OutputAdvance, UsedTx, InUse, After, TypeOK, IpState
  <2>3. TxOrder'
    BY <1>3, <2>1, <2>2 DEF TxInv, TxOrder, FillDescNum
  <2>4. TxCredits'
    BY <1>0, <2>1, <2>2 DEF TxInv, TxCredits, InUse
  <2>5. NextFreeFollows' /\ RoomToProduce'
    BY <1>6 DEF OutputProduce, OutputAdvance, TxInv, NextFreeFollows, RoomToProduce,
                TypeOK, IpState
  <2> QED
    BY <1>2, <2>3, <2>4, <2>5 DEF TxInv
<1> QED
  BY <1>4, <1>5, <1>6 DEF Output

(* The loop of vClearTXBuffers stops before a descriptor that is not in    *)
(* use, although the sender may have taken a credit and not yet a          *)
(* descriptor: then the index, and not the count, is the bound that stops  *)
(* it.  That takes two descriptors.                                        *)
LEMMA ClearsUsedOnly ==
    ASSUME TypeOK, TxInv, emac.pc = "clear loop", ClearMore
    PROVE  toClear \in UsedTx
<1>0. toClear \in TxIndex /\ txProduce \in TxIndex
  BY DEF TypeOK
<1>1. InUse \in Nat /\ txSem \in Nat /\ NumTx \in Nat /\ NumTx > 1
  BY UsedNumber, NaturalNumbers DEF TypeOK
<1>2. /\ emac.last = nextFree /\ emac.count = NumTx - txSem /\ emac.count > 0
      /\ toClear = nextFree => emac.count = NumTx
  BY DEF TxInv, ClearBounds, InClearLoop, ClearMore
<1>3. InUse # 0
  <2>1. SUFFICES ASSUME InUse = 0
                 PROVE  FALSE
    OBVIOUS
  <2>2. CASE ip.pc # "check"
    <3>1. txSem + InUse = NumTx
      BY <2>2, CreditsOut, Zenon DEF TxInv
    <3> QED
      BY ONLY <1>1, <1>2, <2>1, <3>1
  <2>3. CASE ip.pc = "check"
    <3>1. txSem + InUse = NumTx - 1
      BY <2>3, CreditsOut, Zenon DEF TxInv
    <3>2. emac.count # NumTx
      BY ONLY <1>1, <1>2, <2>1, <3>1
    <3>3. FillDescNum(txProduce, toClear) = 0
      BY <1>0, <1>1, <2>1, <2>3 DEF TxInv, TxOrder, After, First
    <3>4. toClear = nextFree
      BY <1>0, <2>3, <3>3, Distance DEF TxInv, NextFreeFollows
    <3> QED
      BY <1>2, <3>2, <3>4
  <2> QED
    BY <2>2, <2>3
<1>4. FillDescNum(toClear, toClear) = 0
  BY <1>0, Distance
<1>5. toClear \in UsedTx <=> 0 < InUse
  BY <1>0, <1>4 DEF TxInv, TxOrder, First
<1> QED
  BY ONLY <1>1, <1>3, <1>5

(* vClearTXBuffers keeps it: the task gives back what the MAC is done      *)
(* with.                                                                   *)
LEMMA TxClear ==
    ASSUME TypeOK, TxInv, vClearTXBuffers
    PROVE  TxInv'
<1>0. UNCHANGED <<macTx, nextFree, ip>> /\ emac \in EmacState
  BY DEF vClearTXBuffers, ClearReadLast, ClearReadCount, ClearRelease, ClearPacket,
         ClearGive, ClearDone, swTx, TypeOK
<1>1. CASE ClearReadLast \/ ClearReadCount \/ ClearRelease \/ ClearDone
  <2>1. UNCHANGED <<txDesc, swTx>>
    BY <1>1 DEF ClearReadLast, ClearReadCount, ClearRelease, ClearDone
  <2>2. ClearBounds' /\ emac.pc # "clear give" /\ emac'.pc # "clear give"
    <3>1. CASE ClearReadLast
      BY <3>1 DEF ClearReadLast, TypeOK, EmacState, ClearBounds, InClearLoop, swTx
    <3>2. CASE ClearReadCount
      BY <3>2 DEF ClearReadCount, TypeOK, EmacState, TxInv, ClearBounds, InClearLoop, swTx
    <3>3. CASE ClearRelease
      <4>1. toClear \in UsedTx
        BY <3>3, ClearsUsedOnly DEF ClearRelease
      <4>2. /\ emac' = [emac EXCEPT !.pc = "clear packet"]
            /\ emac.pc = "clear loop" /\ emac.count > 0
        BY <3>3, <4>1 DEF ClearRelease, ClearMore, EmacGoto, UsedTx
      <4>3. UsedTx' = UsedTx
        BY <2>1 DEF UsedTx
      <4> QED
        BY <2>1, <4>1, <4>2, <4>3 DEF TypeOK, EmacState, TxInv, ClearBounds, InClearLoop, swTx
    <3>4. CASE ClearDone
      BY <3>4 DEF ClearDone, TypeOK, EmacState, ClearBounds, InClearLoop
    <3> QED
      BY <1>1, <3>1, <3>2, <3>3, <3>4
  <2>3. NextFreeFollows' /\ RoomToProduce' /\ TxCredits' /\ TxOrder'
    BY <1>0, <2>1, <2>2, RingStill
  <2> QED
    BY <2>2, <2>3 DEF TxInv
<1>2. CASE ClearPacket
  <2>1. /\ emac.pc = "clear packet" /\ emac' = [emac EXCEPT !.pc = "clear give"]
        /\ txDesc' = [txDesc EXCEPT ![toClear] = NULL] /\ UNCHANGED swTx
        /\ toClear \in TxIndex /\ txProduce \in TxIndex
        /\ emac'.pc = "clear give"
    BY <1>0, <1>2 DEF ClearPacket, EmacGoto, EmacState, TypeOK
  <2>2. toClear \in UsedTx
    BY <2>1 DEF TxInv, ClearBounds
  <2>3. UsedTx' = UsedTx \ {toClear}
    BY <2>1 DEF UsedTx, TypeOK
  <2>4. InUse' = InUse - 1
    BY <2>2, <2>3, UsedNumber DEF InUse
  <2>5. InUse \in Nat /\ txSem \in Nat /\ NumTx \in Nat /\ InUse <= NumTx
    BY UsedNumber, NaturalNumbers DEF TypeOK
  <2>6. After \in TxIndex /\ After' = After /\ First = toClear /\ First' = NextTx(toClear)
    BY <1>0, <2>1, NextTxIndex DEF After, First, macTx, swTx, NextTx
  <2>7. InUse > 0
    <3>1. FillDescNum(toClear, toClear) < InUse /\ FillDescNum(toClear, toClear) = 0
      BY <2>1, <2>2, <2>6, Distance DEF TxInv, TxOrder
    <3> QED
      BY <3>1
  <2>8. TxOrder'
    <3>1. ASSUME NEW i \in TxIndex
          PROVE  i \in UsedTx' <=> FillDescNum(i, NextTx(toClear)) < InUse - 1
      <4> DEFINE d == FillDescNum(i, toClear)
      <4>1. i \in UsedTx <=> d < InUse
        BY <2>6 DEF TxInv, TxOrder
      <4>2. /\ d \in TxIndex
            /\ d = 0 <=> i = toClear
            /\ FillDescNum(i, NextTx(toClear)) = IF d = 0 THEN NumTx - 1 ELSE d - 1
        BY ZenonT(40), <2>1, Distance
      <4> HIDE DEF d
      <4>3. d \in Nat
        BY <4>2, NaturalNumbers
      <4>4. (IF d = 0 THEN NumTx - 1 ELSE d - 1) < InUse - 1 <=> d # 0 /\ d < InUse
        BY ONLY <2>5, <2>7, <4>3
      <4>5. i \in UsedTx' <=> i \in UsedTx /\ i # toClear
        BY <2>3
      <4> QED
        BY <4>1, <4>2, <4>4, <4>5
    <3>2. FillDescNum(After, NextTx(toClear)) = InUse - 1
      <4> DEFINE d == FillDescNum(After, toClear)
      <4>1. FillDescNum(After, NextTx(toClear)) = IF d = 0 THEN NumTx - 1 ELSE d - 1
        BY <2>1, <2>6, Distance
      <4>2. d = IF InUse = NumTx THEN 0 ELSE InUse
        BY <2>6 DEF TxInv, TxOrder
      <4> HIDE DEF d
      <4> QED
        BY ONLY <2>5, <2>7, <4>1, <4>2
    <3>3. InUse - 1 # NumTx
      BY ONLY <2>5
    <3> QED
      BY <2>4, <2>6, <3>1, <3>2, <3>3 DEF TxOrder, FillDescNum
  <2>9. TxCredits'
    <3>1. txSem + (IF ip.pc = "check" THEN 1 ELSE 0) + InUse + 0 = NumTx
      BY <2>1 DEF TxInv, TxCredits, InUse
    <3>2. TxCredits' <=>
             txSem + (IF ip.pc = "check" THEN 1 ELSE 0) + (InUse - 1) + 1 = NumTx
      BY <1>0, <2>1, <2>4 DEF TxCredits, InUse, swTx
    <3> QED
      BY ONLY <2>5, <3>1, <3>2
  <2>10. NextFreeFollows' /\ RoomToProduce'
    BY <1>0, <2>1 DEF TxInv, NextFreeFollows, RoomToProduce, FreeDescNum, FillDescNum,
                      NextTx, macTx, swTx
  <2>11. ClearBounds'
    BY <1>0, <2>1 DEF TxInv, ClearBounds, InClearLoop, EmacState, swTx
  <2> QED
    BY <2>8, <2>9, <2>10, <2>11 DEF TxInv
<1>3. CASE ClearGive
  <2>1. /\ emac.pc = "clear give" /\ emac'.pc = "clear loop"
        /\ emac'.count = emac.count - 1 /\ emac'.last = emac.last
        /\ toClear' = NextTx(toClear) /\ UNCHANGED <<txDesc, ip>>
    BY <1>0, <1>3 DEF ClearGive, EmacState
  <2>2. txSem < NumTx
    BY <2>1, CreditsOut DEF TxInv
  <2>3. txSem' = txSem + 1
    BY <1>3, <2>2 DEF ClearGive
  <2>4. InUse \in Nat /\ txSem \in Nat /\ NumTx \in Nat
    BY UsedNumber, NaturalNumbers DEF TypeOK
  <2>5. UsedTx' = UsedTx /\ InUse' = InUse /\ First' = First /\ After' = After
    BY <1>0, <2>1 DEF UsedTx, InUse, First, After, NextTx, macTx
  <2>6. TxOrder'
    BY <2>5 DEF TxInv, TxOrder, FillDescNum
  <2>7. TxCredits'
    <3>1. txSem + (IF ip.pc = "check" THEN 1 ELSE 0) + InUse + 1 = NumTx
      BY <2>1 DEF TxInv, TxCredits, InUse
    <3>2. TxCredits' <=>
             (txSem + 1) + (IF ip.pc = "check" THEN 1 ELSE 0) + InUse + 0 = NumTx
      BY <2>1, <2>3, <2>5 DEF TxCredits, InUse
    <3> QED
      BY ONLY <2>4, <3>1, <3>2
  <2>8. NextFreeFollows' /\ RoomToProduce'
    BY <1>0 DEF TxInv, NextFreeFollows, RoomToProduce, FreeDescNum, FillDescNum,
                NextTx, macTx
  <2>9. ClearBounds'
    <3>1. emac.count = NumTx - txSem /\ emac.last = nextFree
      BY <2>1 DEF TxInv, ClearBounds, InClearLoop
    <3>2. NumTx - txSem - 1 = NumTx - (txSem + 1)
      BY ONLY <2>4
    <3>3. emac'.count = NumTx - txSem'
      BY <2>1, <2>3, <3>1, <3>2
    <3> QED
      BY <1>0, <2>1, <3>1, <3>3 DEF ClearBounds, InClearLoop
  <2> QED
    BY <2>6, <2>7, <2>8, <2>9 DEF TxInv
<1> QED
  BY <1>1, <1>2, <1>3 DEF vClearTXBuffers

---------------------------------------------------------------------------
(* The owners of the buffers *)

OwnInv == Once /\ Apart /\ Complete

(* A step that moves no buffer changes no owner.                           *)
LEMMA OwnersStill ==
    ASSUME OwnInv, UNCHANGED <<free, kept, txDesc, rxDesc, queue>>,
           ip'.buf = ip.buf, emac'.buf = emac.buf, LiveTx' = LiveTx
    PROVE  OwnInv'
<1>1. InHand' = InHand /\ InTx' = InTx /\ InRx' = InRx /\ Queued' = Queued
  BY DEF InHand, InTx, InRx, Queued
<1>2. Once'
  BY DEF OwnInv, Once
<1>3. Apart' /\ Complete'
  BY <1>1 DEF OwnInv, Apart, Complete
<1> QED
  BY <1>2, <1>3 DEF OwnInv

(* The stack gets, releases, keeps and sends buffers.                      *)
LEMMA IpOwners ==
    ASSUME TypeOK, BufferInHand, OwnInv,
           IpReceive \/ IpGet \/ IpRelease \/ IpKeep \/ UserRelease \/ IpSend
    PROVE  OwnInv'
<1>0. /\ UNCHANGED <<txDesc, rxDesc, emac, toClear>> /\ ip \in IpState
      /\ emac'.buf = emac.buf
  BY DEF IpReceive, IpGet, IpRelease, IpKeep, UserRelease, IpSend, swTx, TypeOK
<1>1. LiveTx' = LiveTx /\ InTx' = InTx /\ InRx' = InRx
  BY <1>0 DEF LiveTx, UsedTx, InTx, InRx
<1>2. CASE IpReceive
  <2>1. /\ queue \in Seq(Buffers) /\ queue # << >> /\ queue' = Tail(queue)
        /\ ip.buf = NULL /\ ip'.buf = Head(queue) /\ UNCHANGED <<free, kept>>
    BY <1>2 DEF IpReceive, TypeOK, BufferInHand, IpState
  <2>2. /\ Queued = Queued' \cup {Head(queue)} /\ Head(queue) \notin Queued'
        /\ \A i, j \in DOMAIN queue' : queue'[i] = queue'[j] => i = j
        /\ Head(queue) \in Buffers
    <3> DEFINE n == Len(queue)
    <3>1. /\ n \in Nat /\ n > 0 /\ DOMAIN queue = 1 .. n
          /\ Head(queue) = queue[1] /\ Head(queue) \in Buffers
      BY <2>1
    <3>2. /\ DOMAIN queue' = 1 .. n - 1
          /\ \A i \in 1 .. n - 1 : queue'[i] = queue[i + 1]
      BY <2>1, <3>1
    <3>3. \A i, j \in 1 .. n : queue[i] = queue[j] => i = j
      BY <3>1 DEF OwnInv, Once
    <3> HIDE DEF n
    <3>4. \A i, j \in 1 .. n - 1 : queue'[i] = queue'[j] => i = j
      BY <3>1, <3>2, <3>3
    <3>5. Queued' = {queue[i] : i \in 2 .. n}
      <4>1. Queued' = {queue[i + 1] : i \in 1 .. n - 1}
        BY <3>2 DEF Queued
      <4>2. ASSUME NEW i \in 2 .. n
            PROVE  i - 1 \in 1 .. n - 1 /\ (i - 1) + 1 = i
        BY <3>1
      <4>3. ASSUME NEW i \in 1 .. n - 1
            PROVE  i + 1 \in 2 .. n
        BY <3>1
      <4> QED
        BY <4>1, <4>2, <4>3
    <3>6. Queued = {queue[1]} \cup {queue[i] : i \in 2 .. n}
      BY <3>1 DEF Queued
    <3>7. queue[1] \notin {queue[i] : i \in 2 .. n}
      BY <3>1, <3>3
    <3> QED
      BY <3>1, <3>2, <3>4, <3>5, <3>6, <3>7
  <2>3. InHand' = InHand \cup {Head(queue)} /\ emac.buf # Head(queue)
    BY <1>0, <2>1, <2>2, DriverAssumption DEF InHand, OwnInv, Apart
  <2> QED
    BY <1>0, <1>1, <2>1, <2>2, <2>3 DEF OwnInv, Once, Apart, Complete
<1>3. CASE IpGet
  <2>1. PICK b \in free : free' = free \ {b} /\ ip'.buf = b
    BY <1>3 DEF IpGet
  <2>2. ip.buf = NULL /\ b \in Buffers /\ UNCHANGED <<kept, queue>>
    BY <1>3 DEF IpGet, BufferInHand, TypeOK
  <2>3. InHand' = InHand \cup {b} /\ Queued' = Queued
    BY <1>0, <2>1, <2>2, DriverAssumption DEF InHand, Queued
  <2>4. b \notin InHand /\ emac.buf # b
    BY <1>0, <2>1, <2>2, DriverAssumption DEF OwnInv, Apart, InHand
  <2> QED
    BY <1>0, <1>1, <2>1, <2>2, <2>3, <2>4 DEF OwnInv, Once, Apart, Complete
<1>4. CASE IpRelease \/ IpKeep
  <2>1. /\ ip.buf # NULL /\ ip'.buf = NULL /\ UNCHANGED queue
        /\ \/ free' = free \cup {ip.buf} /\ UNCHANGED kept
           \/ kept' = kept \cup {ip.buf} /\ UNCHANGED free
    BY <1>4 DEF IpRelease, IpKeep, BufferInHand, TypeOK, IpState
  <2>2. /\ InHand' = InHand \ {ip.buf} /\ ip.buf \in InHand /\ Queued' = Queued
    BY <1>0, <2>1 DEF InHand, Queued, OwnInv, Once
  <2> QED
    BY <1>0, <1>1, <2>1, <2>2 DEF OwnInv, Once, Apart, Complete
<1>5. CASE UserRelease
  <2>1. PICK b \in kept : kept' = kept \ {b} /\ free' = free \cup {b}
    BY <1>5 DEF UserRelease
  <2>2. UNCHANGED <<ip, queue>>
    BY <1>5 DEF UserRelease
  <2>3. InHand' = InHand /\ Queued' = Queued
    BY <1>0, <2>2 DEF InHand, Queued
  <2> QED
    BY <1>0, <1>1, <2>1, <2>2, <2>3 DEF OwnInv, Once, Apart, Complete
<1>6. CASE IpSend
  BY <1>0, <1>1, <1>6, OwnersStill DEF IpSend, IpState
<1> QED
  BY <1>2, <1>3, <1>4, <1>5, <1>6

(* xNetworkInterfaceOutput hands a buffer to a descriptor that has none.   *)
LEMMA OutputOwners ==
    ASSUME TypeOK, BufferInHand, TxInv, OwnInv, Output
    PROVE  OwnInv'
<1>0. /\ EmacBlocked /\ UNCHANGED <<free, kept, emac, toClear, rxDesc, queue>>
      /\ ip \in IpState /\ emac.pc # "clear packet" /\ emac'.buf = emac.buf
  BY DEF Output, OutputTake, OutputTimeout, OutputFull, OutputDescriptor,
         OutputProduce, OutputAdvance, swTx, TypeOK, EmacBlocked
<1>1. CASE OutputDescriptor
  <2>1. /\ txDesc' = [txDesc EXCEPT ![txProduce] = ip.buf]
        /\ ip.pc = "check" /\ ip.buf # NULL /\ ip'.buf = NULL
        /\ txProduce \in TxIndex /\ txDesc \in [TxIndex -> Buffers \cup {NULL}]
    BY <1>1 DEF OutputDescriptor, BufferInHand, TypeOK
  <2>2. txProduce \notin UsedTx
    BY <1>0, <2>1, SenderFindsUnused
  <2>3. LiveTx = UsedTx /\ LiveTx' = UsedTx \cup {txProduce}
    BY <1>0, <2>1 DEF LiveTx, UsedTx
  <2>4. InTx' = InTx \cup {ip.buf}
    BY <2>1, <2>2, <2>3 DEF InTx, UsedTx
  <2>5. InHand' = InHand \ {ip.buf} /\ ip.buf \in InHand
    BY <1>0, <2>1 DEF InHand, OwnInv, Once
  <2>6. InRx' = InRx /\ Queued' = Queued
    BY <1>0 DEF InRx, Queued
  <2>7. Once'
    <3>1. ip.buf \notin InTx
      BY <2>5 DEF OwnInv, Apart
    <3>2. \A i, j \in LiveTx' : txDesc'[i] = txDesc'[j] => i = j
      BY <2>1, <2>2, <2>3, <3>1 DEF InTx, OwnInv, Once, UsedTx
    <3> QED
      BY <1>0, <2>1, <3>2 DEF OwnInv, Once
  <2>8. Apart'
    <3>1. free' = free /\ kept' = kept
      BY <1>0
    <3>2. Apart
      BY DEF OwnInv
    <3> QED
      BY ONLY <2>4, <2>5, <2>6, <3>1, <3>2 DEF Apart
  <2>9. Complete'
    BY <1>0, <2>4, <2>5, <2>6 DEF OwnInv, Complete
  <2> QED
    BY <2>7, <2>8, <2>9 DEF OwnInv
<1>2. CASE ~ OutputDescriptor
  <2>1. txDesc' = txDesc /\ ip'.buf = ip.buf
    BY <1>0, <1>2 DEF Output, OutputTake, OutputTimeout, OutputFull,
                OutputProduce, OutputAdvance, IpState
  <2>2. LiveTx' = LiveTx
    BY <1>0, <2>1 DEF LiveTx, UsedTx
  <2> QED
    BY <1>0, <2>1, <2>2, OwnersStill
<1> QED
  BY <1>1, <1>2

(* vClearTXBuffers: between the release of a buffer and the reset of its   *)
(* descriptor, the descriptor does not count as an owner.                  *)
LEMMA ClearOwners ==
    ASSUME TypeOK, TxInv, OwnInv, vClearTXBuffers
    PROVE  OwnInv'
<1>0. /\ UNCHANGED <<kept, rxDesc, queue, ip>> /\ emac \in EmacState
      /\ emac'.buf = emac.buf /\ ip'.buf = ip.buf
      /\ txDesc \in [TxIndex -> Buffers \cup {NULL}]
  BY DEF vClearTXBuffers, ClearReadLast, ClearReadCount, ClearRelease, ClearPacket,
         ClearGive, ClearDone, EmacGoto, EmacState, TypeOK
<1>1. InHand' = InHand /\ InRx' = InRx /\ Queued' = Queued
  BY <1>0 DEF InHand, InRx, Queued
<1>2. CASE ClearRelease
  <2>1. toClear \in UsedTx
    BY <1>2, ClearsUsedOnly DEF ClearRelease
  <2>2. /\ UNCHANGED <<txDesc, toClear>> /\ free' = free \cup {txDesc[toClear]}
        /\ emac.pc # "clear packet" /\ emac'.pc = "clear packet"
    <3>1. txDesc[toClear] # NULL
      BY <2>1 DEF UsedTx
    <3>2. emac' = [emac EXCEPT !.pc = "clear packet"] /\ emac.pc = "clear loop"
      BY <1>2, <3>1 DEF ClearRelease, EmacGoto
    <3>3. emac'.pc = "clear packet"
      BY <1>0, <3>2 DEF EmacState
    <3>4. UNCHANGED <<txDesc, toClear>> /\ free' = free \cup {txDesc[toClear]}
      BY <1>2, <3>1 DEF ClearRelease, swTx
    <3> QED
      BY <3>2, <3>3, <3>4
  <2>3. LiveTx = UsedTx /\ LiveTx' = UsedTx \ {toClear}
    BY <2>2 DEF LiveTx, UsedTx
  <2>4. InTx' = InTx \ {txDesc[toClear]} /\ txDesc[toClear] \in InTx
    <3>1. \A i, j \in UsedTx : txDesc[i] = txDesc[j] => i = j
      BY <2>3 DEF OwnInv, Once
    <3>2. InTx = {txDesc[i] : i \in UsedTx} /\ InTx' = {txDesc[i] : i \in UsedTx \ {toClear}}
      BY <2>2, <2>3 DEF InTx
    <3> QED
      BY ONLY <2>1, <3>1, <3>2
  <2>5. Once'
    BY <1>0, <2>2, <2>3 DEF OwnInv, Once
  <2>6. Apart' /\ Complete'
    <3>1. kept' = kept
      BY <1>0
    <3> QED
      BY ZenonT(40), <1>1, <2>2, <2>4, <3>1 DEF OwnInv, Apart, Complete
  <2> QED
    BY <2>5, <2>6 DEF OwnInv
<1>3. CASE ClearPacket
  <2>1. /\ txDesc' = [txDesc EXCEPT ![toClear] = NULL] /\ UNCHANGED <<free, toClear>>
        /\ emac.pc = "clear packet" /\ emac'.pc = "clear give" /\ toClear \in TxIndex
    BY <1>0, <1>3 DEF ClearPacket, EmacGoto, EmacState, swTx, TypeOK
  <2>2. LiveTx' = LiveTx /\ toClear \notin LiveTx
    BY <1>0, <2>1 DEF LiveTx, UsedTx
  <2>3. \A i \in LiveTx : txDesc'[i] = txDesc[i]
    BY <1>0, <2>1, <2>2 DEF LiveTx, UsedTx
  <2>4. InTx' = InTx
    BY <2>2, <2>3 DEF InTx
  <2>5. Once'
    BY <1>0, <2>2, <2>3 DEF OwnInv, Once
  <2> QED
    BY <1>0, <1>1, <2>1, <2>4, <2>5 DEF OwnInv, Apart, Complete
<1>4. CASE ~ ClearRelease /\ ~ ClearPacket
  <2>1. /\ UNCHANGED <<free, txDesc>>
        /\ emac.pc # "clear packet" /\ emac'.pc # "clear packet"
    BY <1>0, <1>4 DEF vClearTXBuffers, ClearReadLast, ClearReadCount, ClearGive,
                      ClearDone, EmacState
  <2>2. LiveTx' = LiveTx
    BY <2>1 DEF LiveTx, UsedTx
  <2> QED
    BY <1>0, <2>1, <2>2, OwnersStill
<1> QED
  BY <1>2, <1>3, <1>4

(* prvNetworkInterfaceInput: a received buffer leaves its descriptor in    *)
(* exchange for one of the pool, and goes to the queue or to the pool.     *)
LEMMA InputOwners ==
    ASSUME TypeOK, BufferInHand, OwnInv, prvNetworkInterfaceInput
    PROVE  OwnInv'
<1>0. /\ UNCHANGED <<kept, txDesc, ip, toClear>> /\ emac \in EmacState
      /\ ip'.buf = ip.buf
      /\ emac.pc # "clear packet" /\ emac'.pc # "clear packet"
  BY DEF prvNetworkInterfaceInput, InputEmpty, InputDrop, InputAccept, InputGet,
         InputPost, InputNext, EmacGoto, EmacState, TypeOK, swTx
<1>1. LiveTx' = LiveTx
  BY <1>0 DEF LiveTx, UsedTx
<1>2. InTx' = InTx
  BY <1>0, <1>1 DEF InTx
<1>3. CASE InputGet
  <2>1. PICK b \in free : /\ free' = free \ {b}
                          /\ rxDesc' = [rxDesc EXCEPT ![rxConsume] = b]
    BY <1>3 DEF InputGet
  <2> DEFINE old == rxDesc[rxConsume]
  <2>2. /\ emac.buf = NULL /\ emac'.buf = old /\ UNCHANGED queue /\ b \in Buffers
        /\ rxConsume \in RxIndex /\ rxDesc \in [RxIndex -> Buffers] /\ old \in Buffers
    BY <1>0, <1>3 DEF InputGet, BufferInHand, TypeOK, EmacState
  <2>3. b \notin InRx /\ old \in InRx
    BY <2>2 DEF OwnInv, Apart, InRx
  <2>4. InRx' = (InRx \ {old}) \cup {b}
    BY <2>1, <2>2, <2>3 DEF InRx, OwnInv, Once
  <2>5. InHand' = InHand \cup {old} /\ ip.buf # old
    BY <1>0, <2>2, <2>3, DriverAssumption DEF InHand, OwnInv, Apart
  <2>6. Queued' = Queued /\ b # old
    BY <2>2, <2>3 DEF Queued
  <2>7. Once'
    <3>1. \A i, j \in RxIndex : rxDesc'[i] = rxDesc'[j] => i = j
      BY <2>1, <2>2, <2>3 DEF InRx, OwnInv, Once
    <3> QED
      BY <1>0, <1>1, <2>2, <2>5, <3>1 DEF OwnInv, Once
  <2> HIDE DEF old
  <2>8. Apart' /\ Complete'
    <3>1. kept' = kept
      BY <1>0
    <3> QED
      BY <1>2, <2>1, <2>3, <2>4, <2>5, <2>6, <3>1 DEF OwnInv, Apart, Complete
  <2> QED
    BY <2>7, <2>8 DEF OwnInv
<1>4. CASE InputPost
  <2>1. /\ emac.buf \in Buffers /\ emac'.buf = NULL /\ UNCHANGED rxDesc
        /\ queue \in Seq(Buffers)
    BY <1>0, <1>4 DEF InputPost, BufferInHand, EmacState, TypeOK
  <2>2. InRx' = InRx
    BY <2>1 DEF InRx
  <2>3. InHand' = InHand \ {emac.buf} /\ emac.buf \in InHand
    BY <1>0, <2>1, DriverAssumption DEF InHand, OwnInv, Once
  <2>4. CASE queue' = Append(queue, emac.buf) /\ UNCHANGED free
    <3>1. Queued' = Queued \cup {emac.buf} /\ emac.buf \notin Queued
      BY <2>1, <2>3, <2>4 DEF Queued, OwnInv, Apart
    <3>2. \A i, j \in DOMAIN queue' : queue'[i] = queue'[j] => i = j
      BY <2>1, <2>4, <3>1 DEF Queued, OwnInv, Once
    <3>3. Once'
      BY <1>0, <1>1, <2>1, <3>2, DriverAssumption DEF OwnInv, Once
    <3>4. Apart' /\ Complete'
      <4>1. kept' = kept /\ free' = free
        BY <1>0, <2>4
      <4> QED
        BY <1>2, <2>2, <2>3, <3>1, <4>1 DEF OwnInv, Apart, Complete
    <3> QED
      BY <3>3, <3>4 DEF OwnInv
  <2>5. CASE free' = free \cup {emac.buf} /\ UNCHANGED queue
    <3>1. Queued' = Queued
      BY <2>5 DEF Queued
    <3>2. Once'
      BY <1>0, <1>1, <2>1, <2>5, DriverAssumption DEF OwnInv, Once
    <3>3. Apart' /\ Complete'
      <4>1. kept' = kept
        BY <1>0
      <4> QED
        BY <1>2, <2>2, <2>3, <2>5, <3>1, <4>1 DEF OwnInv, Apart, Complete
    <3> QED
      BY <3>2, <3>3 DEF OwnInv
  <2> QED
    BY <1>4, <2>4, <2>5 DEF InputPost
<1>5. CASE ~ InputGet /\ ~ InputPost
  <2>1. UNCHANGED <<free, rxDesc, queue>> /\ emac'.buf = emac.buf
    BY <1>0, <1>5 DEF prvNetworkInterfaceInput, InputEmpty, InputDrop, InputAccept,
                      InputNext, EmacGoto, EmacState
  <2> QED
    BY <1>0, <1>1, <2>1, OwnersStill
<1> QED
  BY <1>3, <1>4, <1>5

(* A local that is in use holds a buffer, at every step.                   *)
LEMMA HandStep ==
    ASSUME TypeOK, BufferInHand, [Next]_vars
    PROVE  BufferInHand'
<1> USE DriverAssumption DEF TypeOK, BufferInHand
<1>1. CASE UNCHANGED <<ip, emac>>
  BY <1>1
<1>2. CASE IpReceive \/ IpGet \/ IpRelease \/ IpKeep \/ UserRelease \/ IpSend
  BY <1>2 DEF IpReceive, IpGet, IpRelease, IpKeep, UserRelease, IpSend, IpState
<1>3. CASE Output
  BY <1>3 DEF Output, OutputTake, OutputTimeout, OutputFull, OutputDescriptor,
              OutputProduce, OutputAdvance, IpState
<1>4. CASE EmacWake
  BY <1>4 DEF EmacWake, EmacGoto, EmacState
<1>5. CASE vClearTXBuffers
  <2>1. /\ emac.pc # "post" /\ emac'.pc # "post" /\ emac'.buf = emac.buf
        /\ UNCHANGED ip
    <3>1. CASE ClearReadLast
      BY <3>1 DEF ClearReadLast, EmacState
    <3>2. CASE ClearReadCount
      BY <3>2 DEF ClearReadCount, EmacState
    <3>3. CASE ClearRelease
      BY <3>3 DEF ClearRelease, EmacGoto, EmacState
    <3>4. CASE ClearPacket
      BY <3>4 DEF ClearPacket, EmacGoto, EmacState
    <3>5. CASE ClearGive
      BY <3>5 DEF ClearGive, EmacState
    <3>6. CASE ClearDone
      BY <3>6 DEF ClearDone, EmacState
    <3> QED
      BY <1>5, <3>1, <3>2, <3>3, <3>4, <3>5, <3>6 DEF vClearTXBuffers
  <2> QED
    BY <2>1
<1>6. ASSUME NEW event, NEW here, NEW then, NEW otherwise,
             EmacLoadEvents(event, here, then, otherwise),
             here # "post", then # "post", otherwise # "post"
      PROVE  BufferInHand'
  BY <1>6 DEF EmacLoadEvents, EmacState
<1>7. ASSUME NEW event, NEW here, NEW then, EmacStoreEvents(event, here, then),
             here # "post", then # "post"
      PROVE  BufferInHand'
  BY <1>7 DEF EmacStoreEvents, EmacState
<1>8. CASE prvNetworkInterfaceInput
  <2>1. CASE InputGet
    BY <2>1 DEF InputGet, EmacState
  <2>2. CASE InputPost
    BY <2>2 DEF InputPost, EmacState
  <2>3. CASE InputDrop \/ InputNext
    BY ZenonT(40), <2>3 DEF InputDrop, InputNext, EmacGoto, EmacState
  <2>4. CASE InputEmpty \/ InputAccept
    BY <2>4 DEF InputEmpty, InputAccept, EmacGoto, EmacState
  <2> QED
    BY <1>8, <2>1, <2>2, <2>3, <2>4 DEF prvNetworkInterfaceInput
<1>9. CASE Emac
  <2>1. CASE EmacLoadEvents("TX", "tx", "tx store", "rx")
    BY <1>6, <2>1
  <2>2. CASE EmacLoadEvents("RX", "rx", "rx store", "wait")
    BY <1>6, <2>2
  <2>3. CASE EmacStoreEvents("TX", "tx store", "clear")
    BY <1>7, <2>3
  <2>4. CASE EmacStoreEvents("RX", "rx store", "input")
    BY <1>7, <2>4
  <2> QED
    BY <1>4, <1>5, <1>8, <1>9, <2>1, <2>2, <2>3, <2>4 DEF Emac
<1> QED
  BY <1>1, <1>2, <1>3, <1>9
  DEF Next, vars, MacTransmit, MacReceive, NETWORK_IRQHandler

---------------------------------------------------------------------------
(* Neither direction stalls *)

(* A full receive ring keeps what will relieve it.                         *)
LEMMA RxStep ==
    ASSUME TypeOK, FrameAtHand, NoRxStall, [Next]_vars
    PROVE  FrameAtHand' /\ NoRxStall'
<1> USE DEF TypeOK, FrameAtHand, NoRxStall, RxComing, RxFull, events, macRx
<1>1. CASE MacTransmit \/ NETWORK_IRQHandler \/ UNCHANGED <<macRx, events, emac>>
  BY <1>1 DEF MacTransmit, NETWORK_IRQHandler, NextRx
<1>2. ASSUME NEW frame \in Frames, MacReceive(frame)
      PROVE  FrameAtHand' /\ NoRxStall'
  BY <1>2 DEF MacReceive
<1>3. CASE EmacWake
  BY <1>3 DEF EmacWake, EmacGoto, EmacState, NextRx
<1>4. CASE EmacLoadEvents("TX", "tx", "tx store", "rx")
             \/ EmacLoadEvents("RX", "rx", "rx store", "wait")
  BY <1>4 DEF EmacLoadEvents, EmacState, NextRx
<1>5. CASE EmacStoreEvents("TX", "tx store", "clear")
             \/ EmacStoreEvents("RX", "rx store", "input")
  BY <1>5 DEF EmacStoreEvents, EmacState, NextRx
<1>6. CASE vClearTXBuffers
  BY <1>6 DEF vClearTXBuffers, ClearReadLast, ClearReadCount, ClearRelease,
              ClearPacket, ClearGive, ClearDone, EmacGoto, EmacState, NextRx
<1>7. CASE prvNetworkInterfaceInput
  <2>1. CASE InputEmpty
    BY <2>1, NextRxIndex DEF InputEmpty, EmacGoto, EmacState
  <2>2. CASE InputDrop \/ InputAccept \/ InputGet \/ InputPost
    BY <2>2 DEF InputDrop, InputAccept, InputGet, InputPost, EmacGoto, EmacState, NextRx
  <2>3. CASE InputNext
    BY <2>3, NextRxIndex DEF InputNext, EmacGoto, EmacState
  <2> QED
    BY <1>7, <2>1, <2>2, <2>3 DEF prvNetworkInterfaceInput
<1> QED
  BY <1>1, <1>2, <1>3, <1>4, <1>5, <1>6, <1>7
  DEF Next, Emac, vars, IpReceive, IpGet, IpRelease, IpKeep, UserRelease, IpSend,
      Output, OutputTake, OutputTimeout, OutputFull, OutputDescriptor, OutputProduce,
      OutputAdvance

(* An exhausted semaphore keeps what will relieve it.                      *)
LEMMA TxStep ==
    ASSUME TypeOK, TxInv, NoTxStall, [Next]_vars
    PROVE  NoTxStall'
<1> USE DEF TypeOK, NoTxStall, TxComing, events, macTx, swTx
<1>1. CASE MacTransmit \/ NETWORK_IRQHandler \/ UNCHANGED <<macTx, swTx, events, emac, ip>>
  BY <1>1 DEF MacTransmit, NETWORK_IRQHandler
<1>2. ASSUME NEW frame \in Frames, MacReceive(frame)
      PROVE  NoTxStall'
  BY <1>2 DEF MacReceive
<1>3. CASE IpReceive \/ IpGet \/ IpRelease \/ IpKeep \/ UserRelease \/ IpSend
  BY <1>3 DEF IpReceive, IpGet, IpRelease, IpKeep, UserRelease, IpSend, IpState
<1>4. CASE Output
  <2>1. CASE OutputTake \/ OutputDescriptor
    <3>1. CASE OutputTake
      BY <3>1 DEF OutputTake, IpState
    <3>2. CASE OutputDescriptor
      BY <3>2 DEF OutputDescriptor
    <3> QED
      BY <2>1, <3>1, <3>2
  <2>2. CASE OutputTimeout \/ OutputAdvance
    BY <2>2 DEF OutputTimeout, OutputAdvance, IpState
  <2>3. CASE OutputFull
    <3>1. txSem' = txSem + 1 /\ txSem \in Nat
      BY <2>3, NaturalNumbers DEF OutputFull
    <3>2. txSem' # 0
      BY ONLY <3>1
    <3> QED
      BY <3>2
  <2>4. CASE OutputProduce
    <3>1. /\ txProduce \in TxIndex /\ txConsume \in TxIndex /\ FreeDescNum # 0
          /\ txProduce' = NextTx(txProduce) /\ txConsume' = txConsume
      BY <2>4 DEF OutputProduce, TxInv, RoomToProduce
    <3> DEFINE d == FillDescNum(txProduce, txConsume)
    <3>2. /\ d \in TxIndex /\ NumTx - 1 - d # 0
          /\ FillDescNum(NextTx(txProduce), txConsume) =
                IF d = NumTx - 1 THEN 0 ELSE d + 1
      BY <3>1, Distance DEF FreeDescNum
    <3>3. FillDescNum(NextTx(txProduce), txConsume) # 0
      <4> HIDE DEF d
      <4>1. d \in Nat /\ NumTx \in Nat
        BY <3>2, NaturalNumbers
      <4> QED
        BY ONLY <3>2, <4>1
    <3>4. txProduce' # txConsume'
      BY <3>1, <3>3, NextTxIndex, Distance
    <3> QED
      BY <3>4
  <2> QED
    BY <1>4, <2>1, <2>2, <2>3, <2>4 DEF Output
<1>5. CASE EmacWake
  BY <1>5 DEF EmacWake, EmacGoto, EmacState
<1>6. CASE EmacLoadEvents("TX", "tx", "tx store", "rx")
             \/ EmacLoadEvents("RX", "rx", "rx store", "wait")
  BY <1>6 DEF EmacLoadEvents, EmacState
<1>7. CASE EmacStoreEvents("TX", "tx store", "clear")
             \/ EmacStoreEvents("RX", "rx store", "input")
  BY <1>7 DEF EmacStoreEvents, EmacState
<1>8. CASE vClearTXBuffers
  <2>1. CASE ClearReadLast \/ ClearReadCount \/ ClearRelease \/ ClearPacket \/ ClearGive
    BY <2>1 DEF ClearReadLast, ClearReadCount, ClearRelease, ClearPacket, ClearGive,
                EmacGoto, EmacState
  <2>2. CASE ClearDone
    <3>1. emac.count = NumTx - txSem /\ (emac.count > 0 => emac.count # NumTx)
      BY <2>2 DEF ClearDone, ClearMore, TxInv, ClearBounds, InClearLoop
    <3>2. txSem \in Nat /\ NumTx \in Nat /\ NumTx > 1
      BY NaturalNumbers
    <3>3. txSem # 0
      BY ONLY <3>1, <3>2
    <3> QED
      BY <2>2, <3>3 DEF ClearDone
  <2> QED
    BY <1>8, <2>1, <2>2 DEF vClearTXBuffers
<1>9. CASE prvNetworkInterfaceInput
  BY <1>9 DEF prvNetworkInterfaceInput, InputEmpty, InputDrop, InputAccept, InputGet,
              InputPost, InputNext, EmacGoto, EmacState
<1> QED
  BY <1>1, <1>2, <1>3, <1>4, <1>5, <1>6, <1>7, <1>8, <1>9 DEF Next, Emac, vars, UserRelease

---------------------------------------------------------------------------
(* The invariant *)

(* The invariant holds at first,                                           *)
LEMMA InitIInv == Init => IInv
<1> SUFFICES ASSUME Init
             PROVE  IInv
  OBVIOUS
<1> USE DriverAssumption DEF Init
<1>1. 0 \in TxIndex /\ 0 \in RxIndex /\ 0 \in Credit /\ NumTx \in Credit
  BY DEF TxIndex, RxIndex, Credit
<1>2. TypeOK
  <2>1. emac \in EmacState /\ ip \in IpState
    BY <1>1 DEF EmacState, EmacPc, IpState
  <2> QED
    BY <1>1, <2>1 DEF TypeOK
<1>3. UsedTx = {} /\ LiveTx = {} /\ InUse = 0
  BY FS_EmptySet DEF UsedTx, LiveTx, InUse
<1>4. /\ First = 0 /\ After = 0 /\ FreeDescNum = NumTx - 1
      /\ \A i \in TxIndex : ~ FillDescNum(i, First) < 0
      /\ FillDescNum(After, First) = 0
  <2>1. First = 0 /\ After = 0
    BY DEF First, After
  <2>2. \A i \in TxIndex : FillDescNum(i, 0) = i
    BY NaturalNumbers DEF FillDescNum
  <2> QED
    BY <1>1, <2>1, <2>2, NaturalNumbers DEF FreeDescNum
<1>5. TxOrder
  BY <1>3, <1>4 DEF TxOrder
<1>6. TxCredits
  BY <1>3 DEF TxCredits, InUse
<1>7. BufferInHand /\ ClearBounds /\ NextFreeFollows /\ RoomToProduce
  BY DEF BufferInHand, ClearBounds, InClearLoop, NextFreeFollows, RoomToProduce
<1>8. InHand = {} /\ InTx = {} /\ Queued = {} /\ DOMAIN queue = {}
  BY <1>3 DEF InHand, InTx, Queued
<1>9. Once
  BY <1>3, <1>8 DEF Once
<1>10. Apart /\ Complete
  BY <1>8 DEF Apart, Complete, InRx
<1>11. FrameAtHand /\ NoRxStall /\ NoTxStall
  <2>1. ~ RxFull
    BY <1>1, NextRxIndex DEF RxFull
  <2> QED
    BY <2>1 DEF FrameAtHand, NoRxStall, NoTxStall
<1> QED
  BY <1>2, <1>5, <1>6, <1>7, <1>9, <1>10, <1>11 DEF IInv

(* its part on the transmit descriptors is kept,                           *)
LEMMA TxInvStep ==
    ASSUME TypeOK, BufferInHand, TxInv, [Next]_vars
    PROVE  TxInv'
<1> USE DEF macTx, swTx
<1>1. CASE MacTransmit
  BY <1>1, TxTransmit
<1>2. CASE UNCHANGED <<txDesc, macTx, swTx, ip, emac>>
  BY <1>2, TxStill
<1>3. CASE IpReceive \/ IpGet \/ IpRelease \/ IpKeep \/ IpSend
  <2>1. UNCHANGED <<txDesc, macTx, swTx, emac>>
    BY <1>3 DEF IpReceive, IpGet, IpRelease, IpKeep, IpSend
  <2>2. {ip.pc, ip'.pc} \cap {"check", "produce", "advance"} = {}
    BY <1>3 DEF IpReceive, IpGet, IpRelease, IpKeep, IpSend, TypeOK, IpState
  <2> QED
    BY <2>1, <2>2, TxStill
<1>4. CASE Output
  BY <1>4, TxOutput
<1>5. CASE vClearTXBuffers
  BY <1>5, TxClear
<1>6. CASE EmacWake \/ prvNetworkInterfaceInput
  <2>1. UNCHANGED <<txDesc, macTx, swTx, ip>>
    BY <1>6 DEF EmacWake, prvNetworkInterfaceInput, InputEmpty, InputDrop, InputAccept,
                InputGet, InputPost, InputNext
  <2>2. {emac.pc, emac'.pc} \cap {"clear count", "clear loop", "clear packet",
                                  "clear give"} = {}
    BY <1>6 DEF EmacWake, prvNetworkInterfaceInput, InputEmpty, InputDrop, InputAccept,
                InputGet, InputPost, InputNext, EmacGoto, TypeOK, EmacState
  <2> QED
    BY <2>1, <2>2, TxStill
<1>7. ASSUME EmacLoadEvents("TX", "tx", "tx store", "rx")
               \/ EmacLoadEvents("RX", "rx", "rx store", "wait")
               \/ EmacStoreEvents("TX", "tx store", "clear")
               \/ EmacStoreEvents("RX", "rx store", "input")
      PROVE  TxInv'
  <2>1. UNCHANGED <<txDesc, macTx, swTx, ip>>
    BY <1>7 DEF EmacLoadEvents, EmacStoreEvents
  <2>2. {emac.pc, emac'.pc} \cap {"clear count", "clear loop", "clear packet",
                                  "clear give"} = {}
    BY <1>7 DEF EmacLoadEvents, EmacStoreEvents, TypeOK, EmacState
  <2> QED
    BY <2>1, <2>2, TxStill
<1> QED
  BY <1>1, <1>2, <1>3, <1>4, <1>5, <1>6, <1>7
  DEF Next, Emac, vars, MacReceive, NETWORK_IRQHandler, UserRelease

(* its part on the owners is kept,                                         *)
LEMMA OwnInvStep ==
    ASSUME TypeOK, BufferInHand, TxInv, OwnInv, [Next]_vars
    PROVE  OwnInv'
<1>1. CASE MacTransmit \/ (\E frame \in Frames : MacReceive(frame))
             \/ NETWORK_IRQHandler \/ UNCHANGED vars
  <2>1. UNCHANGED <<free, kept, txDesc, rxDesc, queue, ip, emac, toClear>>
    BY <1>1 DEF MacTransmit, MacReceive, NETWORK_IRQHandler, vars, swTx
  <2>2. LiveTx' = LiveTx
    BY <2>1 DEF LiveTx, UsedTx
  <2> QED
    BY <2>1, <2>2, OwnersStill
<1>2. CASE EmacWake \/ EmacLoadEvents("TX", "tx", "tx store", "rx")
             \/ EmacLoadEvents("RX", "rx", "rx store", "wait")
             \/ EmacStoreEvents("TX", "tx store", "clear")
             \/ EmacStoreEvents("RX", "rx store", "input")
  <2>1. UNCHANGED <<free, kept, txDesc, rxDesc, queue, ip, toClear>>
    BY <1>2 DEF EmacWake, EmacLoadEvents, EmacStoreEvents, swTx
  <2>2. emac'.buf = emac.buf /\ emac.pc # "clear packet" /\ emac'.pc # "clear packet"
    BY <1>2 DEF EmacWake, EmacGoto, EmacLoadEvents, EmacStoreEvents, TypeOK, EmacState
  <2>3. LiveTx' = LiveTx
    BY <2>1, <2>2 DEF LiveTx, UsedTx
  <2> QED
    BY <2>1, <2>2, <2>3, OwnersStill
<1> QED
  BY <1>1, <1>2, IpOwners, OutputOwners, ClearOwners, InputOwners DEF Next, Emac

(* and so is the whole.                                                    *)
LEMMA StepKeepsIInv == IInv /\ [Next]_vars => IInv'
<1> SUFFICES ASSUME IInv, [Next]_vars
             PROVE  IInv'
  OBVIOUS
<1>1. TypeOK' /\ BufferInHand' /\ FrameAtHand' /\ NoRxStall'
  BY TypeStep, HandStep, RxStep DEF IInv
<1>2. TxInv /\ OwnInv
  BY DEF IInv, TxInv, OwnInv
<1>3. TxInv' /\ NoTxStall'
  BY <1>2, TxInvStep, TxStep DEF IInv
<1>4. OwnInv'
  BY <1>2, OwnInvStep DEF IInv
<1> QED
  BY <1>1, <1>3, <1>4 DEF IInv, TxInv, OwnInv

(* The inductive invariant: types, owners, transmit descriptors, no stall. *)
THEOREM Invariant == Spec => []IInv
BY InitIInv, StepKeepsIInv, PTL DEF Spec

---------------------------------------------------------------------------
(* The theorems *)

(* The types of the state, in every reachable state.                       *)
THEOREM TypeCorrect == Spec => []TypeOK
BY Invariant, PTL DEF IInv

(* The sets of IInv give each buffer its one owner.                        *)
LEMMA OwnersAreOne ==
    ASSUME OwnInv, NEW b \in Buffers
    PROVE  \E o : Owners(b) = {o}
<1> USE DriverAssumption DEF OwnInv, Once, Apart, InHand, InTx, InRx, Queued, Owners
<1>1. CASE b \in free
  <2>1. Owners(b) = {<<"pool", 0>>}
    BY <1>1
  <2> QED
    BY <2>1
<1>2. CASE b \in kept
  <2>1. Owners(b) = {<<"socket", 0>>}
    BY <1>2
  <2> QED
    BY <2>1
<1>3. CASE b = ip.buf
  <2>1. Owners(b) = {<<"ip", 0>>}
    BY <1>3
  <2> QED
    BY <2>1
<1>4. CASE b = emac.buf
  <2>1. Owners(b) = {<<"emac", 0>>}
    BY <1>4
  <2> QED
    BY <2>1
<1>5. ASSUME NEW i \in LiveTx, txDesc[i] = b
      PROVE  \E o : Owners(b) = {o}
  <2>1. Owners(b) = {<<"tx", i>>}
    BY <1>5
  <2> QED
    BY <2>1
<1>6. ASSUME NEW i \in RxIndex, rxDesc[i] = b
      PROVE  \E o : Owners(b) = {o}
  <2>1. Owners(b) = {<<"rx", i>>}
    BY <1>6
  <2> QED
    BY <2>1
<1>7. ASSUME NEW i \in DOMAIN queue, queue[i] = b
      PROVE  \E o : Owners(b) = {o}
  <2>1. Owners(b) = {<<"queue", i>>}
    BY <1>7
  <2> QED
    BY <2>1
<1> QED
  BY <1>1, <1>2, <1>3, <1>4, <1>5, <1>6, <1>7 DEF Complete

(* Every network buffer has exactly one owner, whatever the interleaving   *)
(* of the tasks, the handler and the MAC.                                  *)
THEOREM OneOwnerAlways == Spec => []OneOwner
<1>1. ASSUME IInv
      PROVE  OneOwner
  <2>1. ASSUME NEW b \in Buffers
        PROVE  Cardinality(Owners(b)) = 1
    <3>1. OwnInv
      BY <1>1 DEF IInv, OwnInv
    <3>2. PICK o : Owners(b) = {o}
      BY <3>1, OwnersAreOne
    <3> QED
      BY <3>2, FS_Singleton
  <2> QED
    BY <2>1 DEF OneOwner
<1> QED
  BY <1>1, Invariant, PTL

(* The semaphore and the descriptors agree about the credits.              *)
THEOREM CreditsAlwaysAddUp == Spec => []TxCredits
BY Invariant, PTL DEF IInv

(* A full receive ring is on its way to be emptied, or the event that says *)
(* so was wiped out and no frame came since.                               *)
THEOREM ReceptionNeverStalls == Spec => []NoRxStall
BY Invariant, PTL DEF IInv

(* An exhausted semaphore is on its way to be given back, or the event     *)
(* that says so was wiped out and no frame was sent since.                 *)
THEOREM TransmissionNeverStalls == Spec => []NoTxStall
BY Invariant, PTL DEF IInv

=============================================================================
