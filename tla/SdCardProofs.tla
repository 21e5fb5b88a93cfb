---------------------------- MODULE SdCardProofs ----------------------------
(***************************************************************************)
(* Proofs about the SD card driver, for every set of blocks, block size,   *)
(* number of polls, choice of cards and number of faults.                  *)
(***************************************************************************)
EXTENDS SdCard, TLAPS

---------------------------------------------------------------------------
(* The inductive invariant *)

\* The bus is held only from CMD9 to the end of disk_initialize, and while the
\* card stores a block
Held == bus = Released \/ host.pc \in {"csd", "CMD16", "storing"}

\* The driver and the card agree on what an address is, unless the card has
\* been changed and knows no address yet
SameAddresses ==
    card.mode = "sd" \/ (card.kind = "V2HC" <=> host.cardtype = "V2HC")

Transfer == {"CMD24", "CMD17", "write", "storing", "read"}
UntilCsd == {"CMD0", "CMD8", "v1", "v2", "CMD58", "CMD9", "csd"}

\* The number of sectors is known only of a card whose addresses are known, and
\* only then blocks are moved
SectorsOfThisCard ==
    /\ host.sectors => SameAddresses
    /\ host.pc \in UntilCsd => ~ host.sectors
    /\ host.pc \in Transfer =>
          host.sectors /\ host.block \in Block /\ host.cardtype # "FAIL"

\* What the card has been told to move is what the driver waits for
SendsWhatWasAsked ==
    /\ card.sends # NoBlock => host.pc \in {"csd", "write", "read"}
    /\ host.pc \in {"write", "read"} => card.sends \in {NoBlock, host.block}

IInv ==
    /\ TypeOK
    /\ Held
    /\ SectorsOfThisCard
    /\ SendsWhatWasAsked
    /\ BusyOnlyAfterFailure
    /\ RightBlock

---------------------------------------------------------------------------
(* Commands *)

(* A block's address in bytes names that block.                            *)
LEMMA ByteAddress ==
    ASSUME NEW b \in Nat, NEW n \in Nat \ {0}
    PROVE  (b * n) \div n = b /\ (b * n) % n = 0
OBVIOUS

(* An exchange changes neither what card is in nor what it holds.  Only    *)
(* CMD0 wakes a new card, and only an accepted command to move a block     *)
(* changes what the card moves.                                            *)
LEMMA ExchangeEffect ==
    ASSUME TypeOK, NEW cmd, NEW addr, NEW r, Exchange(cmd, addr, r)
    PROVE  /\ card' \in [kind : {card.kind}, mode : {"sd", "idle", "ready"},
                        asked : BOOLEAN, mem : {card.mem}, line : {card.line},
                        sends : Block \cup {0, NoBlock}]
           /\ card.mode = "sd" /\ cmd # "CMD0" => card'.mode = "sd"
           /\ \/ card'.sends = card.sends
              \/ cmd = "CMD9" /\ r = "ok"
              \/ /\ cmd \in {"CMD17", "CMD24"} /\ r = "ok"
                 /\ card.mode = "ready" /\ card'.sends = CardBlock(addr)
           /\ faults' \in 0 .. MaxFaults
<1>1. CASE faults' = faults + 1 /\ faults < MaxFaults /\ UNCHANGED card
    BY <1>1, SdAssumption DEF TypeOK
<1>2. CASE Answers(cmd, addr, r) /\ UNCHANGED faults
  <2>1. CardBlock(addr) \in Block \cup {NoBlock}
      BY DEF CardBlock
  <2> QED
      BY ZenonT(40), <1>2, <2>1, SdAssumption DEF Answers, Hears, Takes, TypeOK
<1> QED
    BY <1>1, <1>2 DEF Exchange

---------------------------------------------------------------------------
(* The invariant is kept *)

(* The invariant holds at first,                                           *)
LEMMA InitIInv == Init => IInv
<1> SUFFICES ASSUME Init PROVE IInv
    OBVIOUS
<1>0. 0 \in Poll /\ 0 \in 0 .. MaxFaults
    BY SdAssumption DEF Poll
<1>1. TypeOK
  <2>1. host \in [busyflag : BOOLEAN, cardtype : CardKind \cup {"FAIL"},
                  sectors : BOOLEAN, pc : {"idle"}, block : {NoBlock}, poll : Poll]
      BY <1>0 DEF Init
  <2>2. PICK kind \in Cards : card = Inserted(kind)
      BY DEF Init
  <2> QED
      BY <1>0, <2>1, <2>2, SdAssumption DEF Init, TypeOK, Inserted, Released
<1> QED
    BY <1>1, SdAssumption DEF Init, IInv, Held, SectorsOfThisCard,
   SendsWhatWasAsked, BusyOnlyAfterFailure, RightBlock, Inserted, SameAddresses, UntilCsd, Transfer

(* A command of disk_initialize before the sectors are read: nothing is    *)
(* claimed of the card yet, and a driver that gives up is not busy.        *)
LEMMA InitializeStep ==
    ASSUME IInv, TypeOK', NEW cmd, NEW r, Exchange(cmd, 0, r),
           cmd \notin {"CMD9", "CMD17", "CMD24"}, host.pc \in UntilCsd \ {"csd"},
           bus' = Released, UNCHANGED <<got, failed>>, host'.sectors = host.sectors,
           \/ host'.pc \in UntilCsd \ {"csd"}
           \/ host'.pc = "idle" /\ ~ host'.busyflag
    PROVE  IInv'
<1>1. card'.sends = card.sends /\ card'.mem = card.mem
    BY ExchangeEffect DEF IInv
<1> QED
    BY <1>1 DEF IInv, Held, SectorsOfThisCard, SendsWhatWasAsked,
         BusyOnlyAfterFailure, RightBlock, SameAddresses, UntilCsd, Transfer

(* and every step keeps it.                                                *)
LEMMA StepKeepsIInv == IInv /\ [Next]_vars => IInv'
<1> SUFFICES ASSUME IInv, [Next]_vars PROVE IInv'
    OBVIOUS
<1> USE SdAssumption
    DEF IInv, Held, SectorsOfThisCard, SendsWhatWasAsked,
        BusyOnlyAfterFailure, RightBlock, SameAddresses, UntilCsd, Transfer
<1>0. 0 \in Poll
    BY DEF Poll
<1>1. CASE disk_initialize
  <2>1. TypeOK'
      BY <1>0, <1>1 DEF disk_initialize, TypeOK, sspi_deselect_device, Released
  <2> QED
      BY <1>1, <2>1 DEF disk_initialize, TypeOK, sspi_deselect_device
<1>2. CASE ReInit
  <2>1. TypeOK'
      BY <1>2 DEF ReInit, At, TypeOK, sspi_deselect_device, Released
  <2> QED
      BY <1>2, <2>1 DEF ReInit, At, TypeOK, sspi_deselect_device
<1>3. CASE Enter("CMD24") \/ Enter("CMD17")
  <2>1. PICK pc \in {"CMD24", "CMD17"}, b \in Block :
            /\ host.pc = "idle" /\ host.sectors
            /\ host' = IF host.busyflag THEN host
                  ELSE [host EXCEPT !.busyflag = TRUE, !.block = b,
                                    !.pc = IF host.cardtype = "FAIL" THEN "idle" ELSE pc]
            /\ failed' = (failed \/ (~ host.busyflag /\ host.cardtype = "FAIL"))
            /\ UNCHANGED <<bus, card, faults, got>>
    BY <1>3 DEF Enter, disk_status
  <2>2. TypeOK'
      BY <2>1 DEF TypeOK
  <2> QED
      BY <2>1, <2>2 DEF TypeOK
<1>4. CASE initialise_card
  <2>1. PICK r \in R1, cmd \in {"CMD0", "CMD8"} :
            /\ host.pc = cmd /\ Exchange(cmd, 0, r) /\ bus' = Released
            /\ UNCHANGED <<got, failed>>
            /\ \/ \E pc \in {"CMD8", "v1", "v2"} : Go(pc)
               \/ Ended("FAIL")
      BY <1>4 DEF initialise_card, At, _cmd, sspi_deselect_device
  <2>2. TypeOK'
      BY ZenonT(40), <1>0, <2>1, ExchangeEffect DEF TypeOK, Released, Go, Ended
  <2> QED
      BY ZenonT(80), <2>1, <2>2, ExchangeEffect DEF TypeOK, Go, Ended
<1>5. CASE initialise_card_v1
  <2>1. PICK r \in R1 :
            /\ host.pc = "v1" /\ Exchange("ACMD41", 0, r) /\ bus' = Released
            /\ UNCHANGED <<got, failed>>
            /\ \/ host' = [host EXCEPT !.cardtype = "V1", !.pc = "CMD9", !.poll = 0]
               \/ /\ host.poll + 1 < Polls
                  /\ host' = [host EXCEPT !.poll = @ + 1]
               \/ Ended(host.cardtype)
      BY <1>5 DEF initialise_card_v1, At, _cmd, sspi_deselect_device
  <2>2. host.poll + 1 < Polls => host.poll + 1 \in Poll
      BY DEF TypeOK, Poll
  <2>3. \/ host' = [host EXCEPT !.cardtype = "V1", !.pc = "CMD9", !.poll = 0]
        \/ \E n \in Poll : host' = [host EXCEPT !.poll = n]
        \/ Ended(host.cardtype)
      BY <2>1, <2>2
  <2>4. TypeOK'
      BY ZenonT(40), <1>0, <2>1, <2>3, ExchangeEffect DEF TypeOK, Released, Ended, CardKind
  <2>5. /\ host'.sectors = host.sectors
        /\ \/ host'.pc \in UntilCsd \ {"csd"}
           \/ host'.pc = "idle" /\ ~ host'.busyflag
      BY ZenonT(40), <2>1, <2>3 DEF TypeOK, Go, Ended
  <2> QED
      BY <2>1, <2>4, <2>5, InitializeStep
<1>6. CASE initialise_card_v2
  <2>1. PICK r \in R1, cmd \in {"ACMD41", "CMD58"} :
            /\ host.pc \in {"v2", "CMD58"} /\ Exchange(cmd, 0, r) /\ bus' = Released
            /\ UNCHANGED <<got, failed>>
            /\ \/ Go("CMD58")
               \/ /\ host.poll + 1 < Polls
                  /\ host' = [host EXCEPT !.poll = @ + 1]
               \/ Ended("FAIL")
               \/ \E type \in {"V2", "V2HC"} :
                     host' = [host EXCEPT !.cardtype = type, !.pc = "CMD9"]
      BY <1>6 DEF initialise_card_v2, At, _cmd, sspi_deselect_device
  <2>2. host.poll + 1 < Polls => host.poll + 1 \in Poll
      BY DEF TypeOK, Poll
  <2>3. \/ Go("CMD58")
        \/ \E n \in Poll : host' = [host EXCEPT !.poll = n]
        \/ Ended("FAIL")
        \/ \E type \in {"V2", "V2HC"} :
              host' = [host EXCEPT !.cardtype = type, !.pc = "CMD9"]
      BY <2>1, <2>2
  <2>4. TypeOK'
      BY ZenonT(40), <1>0, <2>1, <2>3, ExchangeEffect DEF TypeOK, Released, Go, Ended, CardKind
  <2>5. /\ host'.sectors = host.sectors
        /\ \/ host'.pc \in UntilCsd \ {"csd"}
           \/ host'.pc = "idle" /\ ~ host'.busyflag
      BY ZenonT(40), <2>1, <2>3 DEF TypeOK, Go, Ended
  <2> QED
      BY <2>1, <2>4, <2>5, InitializeStep
<1>7. CASE _sd_sectors
  <2>1. CASE \E r \in R1 : At("CMD9") /\ _cmdx("CMD9", r) /\ Go(IF r = "ok" THEN "csd" ELSE "CMD16")
    <3>1. PICK r \in R1 :
            At("CMD9") /\ _cmdx("CMD9", r) /\ Go(IF r = "ok" THEN "csd" ELSE "CMD16")
        BY <2>1
    <3>3. /\ host.pc = "CMD9" /\ Exchange("CMD9", 0, r)
          /\ UNCHANGED <<got, failed>>
        BY <3>1 DEF At, _cmdx
    <3>4. bus' \in [cs : {"high", "low"}, selected : BOOLEAN]
      <4>1. bus' = Released \/ bus' = [cs |-> "low", selected |-> TRUE]
          BY <3>1 DEF _cmdx, sspi_deselect_device, sspi_select_device
      <4>2. Released \in [cs : {"high", "low"}, selected : BOOLEAN]
          BY DEF Released
      <4>3. [cs |-> "low", selected |-> TRUE] \in [cs : {"high", "low"}, selected : BOOLEAN]
          OBVIOUS
      <4> QED
          BY <4>1, <4>2, <4>3, Zenon
    <3>2. TypeOK'
        BY <1>0, <3>1, <3>3, <3>4, ExchangeEffect DEF TypeOK, Go
    <3> QED
        BY <3>1, <3>2, <3>3, ExchangeEffect DEF TypeOK, Go
  <2>2. CASE At("csd") /\ card.sends # NoBlock
             /\ card' = [card EXCEPT !.sends = NoBlock]
             /\ host' = [host EXCEPT !.sectors = (card.kind = "V2HC" <=> host.cardtype = "V2HC"),
                                     !.pc = "CMD16"]
             /\ bus' = Released /\ UNCHANGED faults
    <3>1. TypeOK'
        BY <2>2 DEF TypeOK, At, Released
    <3> QED
        BY <2>2, <3>1 DEF TypeOK, At
  <2> QED
      BY <1>7, <2>1, <2>2 DEF _sd_sectors, sspi_deselect_device
<1>8. CASE SetBlockLength
  <2>1. PICK r \in R1 :
            /\ host.pc = "CMD16" /\ Exchange("CMD16", BlockSize, r) /\ bus' = Released
            /\ UNCHANGED <<got, failed>> /\ Ended(host.cardtype)
      BY <1>8 DEF SetBlockLength, At, _cmd, sspi_deselect_device
  <2>2. TypeOK'
      BY <1>0, <2>1, ExchangeEffect DEF TypeOK, Released, Ended
  <2> QED
      BY <2>1, <2>2, ExchangeEffect DEF TypeOK, Ended
<1>9. CASE Command("CMD24", "write") \/ Command("CMD17", "read")
  <2>1. PICK r \in R1, cmd \in {"CMD24", "CMD17"}, pc \in {"write", "read"} :
            /\ host.pc = cmd /\ Exchange(cmd, BLOCK2ADDR(host.block), r)
            /\ bus' = Released /\ UNCHANGED got
            /\ Go(IF r = "ok" THEN pc ELSE "idle")
            /\ failed' = (failed \/ r # "ok")
      BY <1>9 DEF Command, _cmd, sspi_deselect_device
  <2>2. TypeOK'
      BY ZenonT(40), <1>0, <2>1, ExchangeEffect DEF TypeOK, Released, Go
  <2>3. card.mode = "ready" => CardBlock(BLOCK2ADDR(host.block)) = host.block
      BY <2>1, ByteAddress DEF CardBlock, BLOCK2ADDR, TypeOK, CardKind
  <2> QED
      BY <2>1, <2>2, <2>3, ExchangeEffect DEF TypeOK, Go
<1>10. CASE _write
  <2>1. CASE /\ At("write") /\ card.sends # NoBlock
             /\ card' = [card EXCEPT !.mem[card.sends] = host.block, !.sends = NoBlock,
                                     !.line = "low"]
             /\ Go("storing") /\ sspi_select_device /\ UNCHANGED faults
    <3>1. card.sends = host.block /\ host.block \in Block /\ host.sectors
        BY <2>1 DEF At
    <3> DEFINE m == [card.mem EXCEPT ![host.block] = host.block]
    <3>2. /\ m \in [Block -> Block \cup {Blank}]
          /\ \A b \in Block : m[b] \in {card.mem[b], b}
        BY <3>1 DEF TypeOK
    <3>3. card' = [card EXCEPT !.mem = m, !.sends = NoBlock, !.line = "low"]
        BY <2>1, <3>1
    <3> HIDE DEF m
    <3>4. bus' \in [cs : {"high", "low"}, selected : BOOLEAN]
        BY <2>1 DEF sspi_select_device
    <3>5. TypeOK'
        BY <1>0, <2>1, <3>2, <3>3, <3>4 DEF TypeOK, At, Go
    <3> QED
        BY <2>1, <3>1, <3>2, <3>3, <3>5 DEF TypeOK, At, Go
  <2>2. CASE /\ At("write") /\ Done /\ sspi_deselect_device
             /\ \/ /\ faults < MaxFaults /\ faults' = faults + 1
                   /\ card' = [card EXCEPT !.sends = NoBlock]
                \/ card.sends = NoBlock /\ UNCHANGED <<card, faults>>
    <3>1. /\ card' \in [kind : {card.kind}, mode : {card.mode}, asked : {card.asked},
                        sends : {NoBlock}, line : {card.line}, mem : {card.mem}]
          /\ faults' \in 0 .. MaxFaults
        BY <2>2 DEF TypeOK
    <3>2. TypeOK'
        BY <2>2, <3>1 DEF TypeOK, At, Done, sspi_deselect_device, Released
    <3> QED
        BY <2>2, <3>1, <3>2 DEF TypeOK, At, Done, sspi_deselect_device
  <2>3. CASE /\ At("storing") /\ card.line = "high"
             /\ Done /\ sspi_deselect_device /\ UNCHANGED <<card, faults>>
    <3>1. TypeOK'
        BY <2>3 DEF TypeOK, At, Done, sspi_deselect_device, Released
    <3> QED
        BY <2>3, <3>1 DEF TypeOK, At, Done, sspi_deselect_device
  <2> QED
      BY <1>10, <2>1, <2>2, <2>3 DEF _write
<1>11. CASE _read
  <2>1. TypeOK'
      BY <1>11 DEF _read, Done, TypeOK, sspi_deselect_device, Released
  <2> QED
      BY <1>11, <2>1 DEF _read, Done, TypeOK, sspi_deselect_device
<1>12. CASE Swap
  <2>1. PICK kind \in Cards \cup {"none"} : card' = Inserted(kind)
      BY <1>12 DEF Swap
  <2>2. TypeOK'
      BY <1>12, <2>1 DEF Swap, Inserted, TypeOK
  <2> QED
      BY <1>12, <2>1, <2>2 DEF Swap, Inserted, TypeOK
<1>13. CASE Warm
  <2>1. TypeOK'
      BY <1>13 DEF Warm, TypeOK
  <2> QED
      BY <1>13, <2>1 DEF Warm, TypeOK
<1>14. CASE Fail
  <2>1. card' \in [kind : {card.kind}, mode : {card.mode}, asked : {card.asked},
                   mem : {card.mem}, sends : {card.sends, NoBlock},
                   line : {"high", "low", "stuck"}]
      BY <1>14 DEF Fail, TypeOK
  <2>2. TypeOK'
      BY <1>14, <2>1 DEF Fail, TypeOK
  <2> QED
      BY <1>14, <2>1, <2>2 DEF Fail, TypeOK
<1>15. CASE Stored
  <2>1. TypeOK'
      BY <1>15 DEF Stored, TypeOK
  <2> QED
      BY <1>15, <2>1 DEF Stored, TypeOK
<1>16. CASE UNCHANGED vars
    BY <1>16 DEF vars, TypeOK
<1> QED
    BY <1>1, <1>2, <1>3, <1>4, <1>5, <1>6, <1>7, <1>8, <1>9, <1>10, <1>11, <1>12,
       <1>13, <1>14, <1>15, <1>16 DEF Next, Call, disk_write, disk_read

---------------------------------------------------------------------------
(* Theorems *)

(* Everything below follows from one invariant.                            *)
THEOREM Invariant == Spec => []IInv
BY InitIInv, StepKeepsIInv, PTL DEF Spec

(* The driver's state has the types of the code: the poll counts, the      *)
(* card type, the block.                                                   *)
THEOREM TypeCorrect == Spec => []TypeOK
BY Invariant, PTL DEF IInv

(* A block is written to and read from its own place on the card that is   *)
(* in, however often cards of different addressing are swapped, and        *)
(* whatever they fail to answer.                                           *)
THEOREM RightBlockAlways == Spec => []RightBlock
BY Invariant, PTL DEF IInv

(* Between calls the card is deselected.                                   *)
THEOREM BusAlwaysReleased == Spec => []BusReleased
<1>1. IInv => BusReleased
    BY DEF IInv, Held, BusReleased
<1> QED
    BY <1>1, Invariant, PTL

(* Only a failed transfer leaves the driver busy.                          *)
THEOREM BusyAfterFailureOnly == Spec => []BusyOnlyAfterFailure
BY Invariant, PTL DEF IInv

=============================================================================
