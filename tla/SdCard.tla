------------------------------- MODULE SdCard -------------------------------
(***************************************************************************)
(* An SD card on an SPI bus: SDCard.cpp with the SharedSpi.cpp it calls,   *)
(* one task that uses it, and the card, which may be swapped at any time   *)
(* and may leave a command unanswered or answer it with an error.          *)
(*                                                                         *)
(* One step is one transaction on the bus, from the select to the          *)
(* deselect, and a block sent ends with a wait for the card to store it.   *)
(* A block of data is the number of the block it is meant for.             *)
(***************************************************************************)
EXTENDS Integers, TLC

CONSTANTS Block,        \* block numbers the task uses
          BlockSize,    \* bytes in a block, 512 in the source
          Polls,        \* SD_COMMAND_TIMEOUT
          Cards,        \* kinds of cards that may be put in, of CardKind
          MaxFaults     \* swaps, failures, commands answered wrongly or not at all

CardKind == {"V1", "V2", "V2HC"}

ASSUME SdAssumption ==
    /\ Block \subseteq Nat /\ BlockSize \in Nat \ {0} /\ Polls \in Nat \ {0}
    /\ Cards \subseteq CardKind /\ MaxFaults \in Nat

VARIABLES host,         \* the members of SDCard, and the call under way
          bus,          \* SharedSpi: the chip select and selectedSSPDevice
          card, faults,
          got,          \* history: what the last disk_read delivered, and for which block
          failed        \* history: a transfer has failed since disk_initialize

vars == <<host, bus, card, faults, got, failed>>

Blank == -1
NoBlock == -1

\* A card that has just been given power answers nothing but CMD0; it leaves the
\* line high, and so does an empty slot
Inserted(kind) == [kind |-> kind, mode |-> "sd", asked |-> FALSE, sends |-> NoBlock,
                   line |-> "high", mem |-> [b \in Block |-> Blank]]
Released == [cs |-> "high", selected |-> FALSE]

\* The constructor, which leaves cardtype uninitialised
Init ==
    /\ \E type \in CardKind \cup {"FAIL"} :
          host = [busyflag |-> FALSE, cardtype |-> type, sectors |-> FALSE,
                  pc |-> "idle", block |-> NoBlock, poll |-> 0]
    /\ bus = Released
    /\ \E kind \in Cards : card = Inserted(kind)
    /\ faults = 0 /\ got = <<NoBlock, NoBlock>> /\ failed = FALSE

---------------------------------------------------------------------------
(* The card *)

CardBlock(addr) ==
    LET b == IF card.kind = "V2HC" THEN addr ELSE addr \div BlockSize
    IN  IF b \in Block /\ (card.kind = "V2HC" \/ addr % BlockSize = 0)
        THEN b ELSE NoBlock

\* A card that has not seen CMD0 hears nothing else
Hears(cmd) == card.kind # "none" /\ (card.mode # "sd" \/ cmd = "CMD0")

Takes(cmd) == card.mode = "ready" /\ cmd \in {"CMD9", "CMD17", "CMD24"}

\* A sound card answers with the R1 r
Answers(cmd, addr, r) ==
    \/ /\ ~ Hears(cmd) /\ r = "none" /\ UNCHANGED card
    \/ /\ Hears(cmd)
       /\ \/ /\ cmd = "CMD0" /\ r = "idle"
             /\ card' = [card EXCEPT !.mode = "idle", !.asked = FALSE]
          \/ /\ cmd = "CMD8" /\ UNCHANGED card
             /\ r = IF card.kind = "V1" THEN "idle, illegal" ELSE "idle"
          \/ /\ cmd = "ACMD41" /\ r = "ok"
             /\ card' = [card EXCEPT !.mode = "ready"]
          \/ /\ cmd = "ACMD41" /\ r = "idle" /\ card.mode = "idle"
             /\ card' = [card EXCEPT !.asked = TRUE]
          \/ /\ Takes(cmd) /\ cmd # "CMD9" /\ CardBlock(addr) = NoBlock
             /\ r = "error" /\ UNCHANGED card
          \/ /\ Takes(cmd) /\ cmd # "CMD9" /\ CardBlock(addr) # NoBlock
             /\ r = "ok" /\ card' = [card EXCEPT !.sends = CardBlock(addr)]
          \/ /\ Takes(cmd) /\ cmd = "CMD9"
             /\ r = "ok" /\ card' = [card EXCEPT !.sends = 0]
          \/ /\ cmd \notin {"CMD0", "CMD8", "ACMD41"} /\ ~ Takes(cmd)
             /\ r = (IF card.mode = "ready" THEN "ok" ELSE "idle") /\ UNCHANGED card

\* The command is sent and r is what comes back, in the course of things or not
Exchange(cmd, addr, r) ==
    \/ Answers(cmd, addr, r) /\ UNCHANGED faults
    \/ /\ faults < MaxFaults /\ faults' = faults + 1
       /\ r \in {"none", "error"} /\ UNCHANGED card

R1 == {"none", "error", "idle", "idle, illegal", "ok"}

Swap ==
    /\ faults < MaxFaults /\ faults' = faults + 1
    /\ \E kind \in Cards \cup {"none"} : card' = Inserted(kind)
    /\ UNCHANGED <<host, bus, got, failed>>

\* A card fails in the middle of a transfer: it never sends what it has promised
\* (an error token does not start a block), or never ends storing a block
Fail ==
    /\ faults < MaxFaults /\ faults' = faults + 1
    /\ \/ card.sends # NoBlock /\ card' = [card EXCEPT !.sends = NoBlock]
       \/ card.line = "low" /\ card' = [card EXCEPT !.line = "stuck"]
    /\ UNCHANGED <<host, bus, got, failed>>

\* A sound card ends storing the block
Stored ==
    /\ card.line = "low" /\ card' = [card EXCEPT !.line = "high"]
    /\ UNCHANGED <<host, bus, faults, got, failed>>

\* Once asked to start the card gets ready in its own time
Warm ==
    /\ card.mode = "idle" /\ card.asked
    /\ card' = [card EXCEPT !.mode = "ready"]
    /\ UNCHANGED <<host, bus, faults, got, failed>>

---------------------------------------------------------------------------
(* SharedSpi *)

sspi_select_device   == bus' = [cs |-> "low", selected |-> TRUE]
sspi_deselect_device == bus' = Released

\* _cmd, _cmd8 and _cmd58: the card is deselected whatever it answers
_cmd(cmd, addr, r) == Exchange(cmd, addr, r) /\ sspi_deselect_device

\* _cmdx: it stays selected when it answers
_cmdx(cmd, r) ==
    /\ Exchange(cmd, 0, r)
    /\ IF r = "none" THEN sspi_deselect_device ELSE sspi_select_device

---------------------------------------------------------------------------
(* disk_initialize *)

Go(pc) == host' = [host EXCEPT !.pc = pc, !.poll = 0]
At(pc) == host.pc = pc /\ UNCHANGED <<got, failed>>

\* The end of disk_initialize, with the type the card was found to be
Ended(type) ==
    host' = [host EXCEPT !.cardtype = type, !.busyflag = FALSE, !.pc = "idle", !.poll = 0]

\* mutant: the number of sectors of the card before stays
disk_initialize_KeepsSectors ==
    /\ host.pc = "idle" /\ failed' = FALSE
    /\ host' = [host EXCEPT !.busyflag = TRUE, !.pc = "CMD0"]
    /\ sspi_deselect_device
    /\ UNCHANGED <<card, faults, got>>

disk_initialize ==
    /\ host.pc = "idle" /\ failed' = FALSE
    /\ host' = [host EXCEPT !.busyflag = TRUE, !.sectors = FALSE, !.pc = "CMD0"]
    /\ sspi_deselect_device
    /\ UNCHANGED <<card, faults, got>>

\* The slot is set up anew (sd_mmc_reinit_slot)
ReInit ==
    /\ At("idle")
    /\ host' = [host EXCEPT !.busyflag = FALSE, !.sectors = FALSE]
    /\ sspi_deselect_device
    /\ UNCHANGED <<card, faults>>

initialise_card ==
    \E r \in R1 :
        \/ /\ At("CMD0") /\ _cmd("CMD0", 0, r)
           /\ IF r = "idle" THEN Go("CMD8") ELSE Ended("FAIL")
        \/ /\ At("CMD8") /\ _cmd("CMD8", 0, r)
           /\ CASE r = "idle" -> Go("v2") [] r = "idle, illegal" -> Go("v1")
                [] OTHER -> Ended("FAIL")

\* mutant: the card is asked again and again until it is ready
initialise_card_v1_NoTimeout ==
    \E r \in R1 :
        /\ At("v1") /\ _cmd("ACMD41", 0, r)
        /\ IF r = "ok" THEN host' = [host EXCEPT !.cardtype = "V1", !.pc = "CMD9"]
           ELSE UNCHANGED host

\* A card that does not get ready: cardtype is left as it was
initialise_card_v1 ==
    \E r \in R1 :
        /\ At("v1") /\ _cmd("ACMD41", 0, r)
        /\ IF r = "ok"
           THEN host' = [host EXCEPT !.cardtype = "V1", !.pc = "CMD9", !.poll = 0]
           ELSE IF host.poll + 1 < Polls THEN host' = [host EXCEPT !.poll = @ + 1]
           ELSE Ended(host.cardtype)

\* The answer to CMD58 is not looked at: without one ocr is uninitialised
initialise_card_v2 ==
    \E r \in R1 :
        \/ /\ At("v2") /\ _cmd("ACMD41", 0, r)
           /\ IF r = "ok" THEN Go("CMD58")
              ELSE IF host.poll + 1 < Polls THEN host' = [host EXCEPT !.poll = @ + 1]
              ELSE Ended("FAIL")
        \/ /\ At("CMD58") /\ _cmd("CMD58", 0, r)
           /\ \E type \in {"V2", "V2HC"} :
                 /\ r \in {"idle", "ok"} => (type = "V2HC" <=> card.kind = "V2HC")
                 /\ host' = [host EXCEPT !.cardtype = type, !.pc = "CMD9"]

\* CMD9 and _read of the CSD, which waits for the card without an end.  A CSD of
\* the structure that does not go with the type gives no sectors
_sd_sectors ==
    \/ \E r \in R1 : /\ At("CMD9") /\ _cmdx("CMD9", r)
                     /\ Go(IF r = "ok" THEN "csd" ELSE "CMD16")
    \/ /\ At("csd") /\ card.sends # NoBlock
       /\ card' = [card EXCEPT !.sends = NoBlock]
       /\ host' = [host EXCEPT !.sectors = (card.kind = "V2HC" <=> host.cardtype = "V2HC"),
                               !.pc = "CMD16"]
       /\ sspi_deselect_device /\ UNCHANGED faults

\* mutant: a card without sectors is given up at once
SetBlockLength_NotWithoutSectors ==
    /\ At("CMD16")
    /\ IF host.sectors THEN \E r \in R1 : _cmd("CMD16", BlockSize, r)
       ELSE UNCHANGED <<bus, card, faults>>
    /\ Ended(host.cardtype)

SetBlockLength == \E r \in R1 : /\ At("CMD16") /\ _cmd("CMD16", BlockSize, r)
                                /\ Ended(host.cardtype)

---------------------------------------------------------------------------
(* disk_write and disk_read *)

BLOCK2ADDR(block) ==
    CASE host.cardtype \in {"V1", "V2"} -> block * BlockSize
      [] host.cardtype = "V2HC"         -> block
      [] OTHER                          -> 0

disk_status == host.sectors

\* disk_write or disk_read is called, of a card that disk_status says is there.
\* The call is refused, with the result of success, while busyflag is set
Enter(pc) ==
    /\ host.pc = "idle" /\ disk_status
    /\ \E b \in Block :
          host' = IF host.busyflag THEN host
                  ELSE [host EXCEPT !.busyflag = TRUE, !.block = b,
                                    !.pc = IF host.cardtype = "FAIL" THEN "idle" ELSE pc]
    /\ failed' = (failed \/ (~ host.busyflag /\ host.cardtype = "FAIL"))
    /\ UNCHANGED <<bus, card, faults, got>>

\* The command; an error leaves busyflag set
Command(cmd, pc) ==
    \E r \in R1 :
        /\ host.pc = cmd /\ _cmd(cmd, BLOCK2ADDR(host.block), r)
        /\ Go(IF r = "ok" THEN pc ELSE "idle")
        /\ failed' = (failed \/ r # "ok")
        /\ UNCHANGED got

\* mutant: busyflag is left set after a block
Done_StaysBusy == host' = [host EXCEPT !.pc = "idle"]

Done == host' = [host EXCEPT !.busyflag = FALSE, !.pc = "idle"]

\* mutant: the driver waits for the line to be low, which an idle card never makes it
_write_WaitsForLow ==
    \/ /\ At("write") /\ card.sends # NoBlock
       /\ card' = [card EXCEPT !.mem[card.sends] = host.block, !.sends = NoBlock,
                               !.line = "low"]
       /\ Go("storing") /\ sspi_select_device /\ UNCHANGED faults
    \/ /\ At("write")
       /\ \/ /\ faults < MaxFaults /\ faults' = faults + 1
             /\ card' = [card EXCEPT !.sends = NoBlock]
          \/ card.sends = NoBlock /\ UNCHANGED <<card, faults>>
       /\ Done /\ sspi_deselect_device
    \/ /\ At("storing") /\ card.line # "high"
       /\ Done /\ sspi_deselect_device /\ UNCHANGED <<card, faults>>

\* The card takes the block, and the driver waits without an end while it holds
\* the line low; or it rejects the block or is gone.  The result is ignored
_write ==
    \/ /\ At("write") /\ card.sends # NoBlock
       /\ card' = [card EXCEPT !.mem[card.sends] = host.block, !.sends = NoBlock,
                               !.line = "low"]
       /\ Go("storing") /\ sspi_select_device /\ UNCHANGED faults
    \/ /\ At("write")
       /\ \/ /\ faults < MaxFaults /\ faults' = faults + 1
             /\ card' = [card EXCEPT !.sends = NoBlock]
          \/ card.sends = NoBlock /\ UNCHANGED <<card, faults>>
       /\ Done /\ sspi_deselect_device
    \/ /\ At("storing") /\ card.line = "high"
       /\ Done /\ sspi_deselect_device /\ UNCHANGED <<card, faults>>

\* _read waits for the card to send without an end
_read ==
    /\ host.pc = "read" /\ card.sends # NoBlock
    /\ got' = <<host.block, card.mem[card.sends]>>
    /\ card' = [card EXCEPT !.sends = NoBlock]
    /\ Done /\ sspi_deselect_device
    /\ UNCHANGED <<faults, failed>>

disk_write == Command("CMD24", "write") \/ _write
disk_read  == Command("CMD17", "read") \/ _read

Call == \/ initialise_card \/ initialise_card_v1 \/ initialise_card_v2
        \/ _sd_sectors \/ SetBlockLength \/ disk_write \/ disk_read

Next == \/ disk_initialize \/ ReInit \/ Enter("CMD24") \/ Enter("CMD17") \/ Call
        \/ Swap \/ Fail \/ Stored \/ Warm

Spec == Init /\ [][Next]_vars

\* A call goes on as long as the card lets it, and a card that has not failed ends
\* storing a block
FairSpec == Spec /\ WF_vars(Call) /\ WF_vars(Stored)

---------------------------------------------------------------------------
(* Properties *)

Poll == 0 .. Polls - 1

TypeOK ==
    /\ host \in [busyflag : BOOLEAN, cardtype : CardKind \cup {"FAIL"}, sectors : BOOLEAN,
                 pc : {"idle", "CMD0", "CMD8", "v1", "v2", "CMD58", "CMD9", "csd", "CMD16",
                       "CMD24", "CMD17", "write", "storing", "read"},
                 block : Block \cup {NoBlock}, poll : Poll]
    /\ bus \in [cs : {"high", "low"}, selected : BOOLEAN]
    /\ card \in [kind : CardKind \cup {"none"}, mode : {"sd", "idle", "ready"},
                 asked : BOOLEAN, sends : Block \cup {0, NoBlock},
                 line : {"high", "low", "stuck"},
                 mem : [Block -> Block \cup {Blank}]]
    /\ faults \in 0 .. MaxFaults /\ failed \in BOOLEAN

\* Whatever card is in and whatever it has left unanswered, a block is written
\* to and read from the place it has on this card: a card addressed by bytes is
\* never taken for one addressed by blocks, or the other way round
RightBlock ==
    /\ \A b \in Block : card.mem[b] \in {Blank, b}
    /\ got[2] \in {Blank, got[1]}

\* Between calls the card is deselected, although _cmdx may leave it selected
BusReleased == host.pc = "idle" => bus = Released

\* A call finds the card busy, and does nothing, only after one that failed
BusyOnlyAfterFailure == host.pc = "idle" /\ host.busyflag => failed

\* A call ends, but for the two waits without a time-out, of _read for the start
\* token (SDCard.cpp:521) and of _write for the card to store the block (563); and
\* these two go on for ever only if the card was changed or failed under the call
Returns ==
    \/ []<>(host.pc = "idle")
    \/ /\ <>[](\/ host.pc \in {"csd", "read"} /\ card.sends = NoBlock
               \/ host.pc = "storing" /\ card.line = "stuck")
       /\ <>(faults > 0)
=============================================================================
