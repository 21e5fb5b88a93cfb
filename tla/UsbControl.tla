----------------------------- MODULE UsbControl -----------------------------
(***************************************************************************)
(* Control transfers: USBDevice (USBDevice.cpp) with the descriptors and   *)
(* class requests of USB.cpp and USBCDC.cpp, between the host and endpoint *)
(* 0 of the controller, served by USBHAL::usbisr (USBHAL_LPC17.cpp).       *)
(*                                                                         *)
(* The host takes, sends and polls between any two steps of usbisr; it may *)
(* give a transfer up between two interrupts, and reset the bus.  usbisr   *)
(* runs as the interrupt only, and endpoints other than 0 are left out.    *)
(***************************************************************************)
EXTENDS SequencesExt

CONSTANTS Packet,       \* MAX_PACKET_SIZE_EP0
          Descriptors,  \* descriptors[]: the device, the configuration, others
          LengthOf,     \* [descriptor -> bLength]
          Strings,      \* those with bDescType DT_STRING
          Codings,      \* line codings: values of cdc_line_coding
          CodingLength, \* its bytes
          ReadLengths   \* wLength of GET_DESCRIPTOR

ASSUME ControlAssumption ==
    /\ Packet \in Nat \ {0} /\ Len(Descriptors) > 2
    /\ Codings # {} /\ CodingLength \in 1 .. Packet
    /\ LengthOf \in [Range(Descriptors) -> Nat \ {0}]
    /\ Strings \subseteq Range(Descriptors) \ {Descriptors[1], Descriptors[2]}
    /\ ReadLengths \subseteq Nat \ {0}

VARIABLES s,        \* USBDevice, and endpoint 0 in the controller
          pc,       \* usbisr
          host,     \* its transfer, and what it takes the device's state to be
          misled    \* history: EP0in has stalled a transfer that waits for data

vars == <<s, pc, host, misled>>

NONE == << >>                   \* an empty buffer; a full one is << packet >>
OVERRUN == "overrun"            \* the coding after a SETUP packet read as data
Setup(r) == [setup |-> TRUE, req |-> r]
Data(value) == [setup |-> FALSE, req |-> [op |-> "data", value |-> value, len |-> 0]]

Bytes(name, n) == [i \in 1 .. n |-> <<name, i>>]
Whole(name) == Bytes(name, LengthOf[name])

\* The host's requests: wValue and wLength.  SET_CONFIGURATION and SET_ADDRESS
\* have their value as a string
Reads == [op : {"GET_DESCRIPTOR"}, len : ReadLengths,
          value : Range(Descriptors) \cup {"missing"}]
         \cup [op : {"GET_STATUS", "GET_CONFIGURATION", "GET_INTERFACE", "GET_LINE_CODING"},
               value : {"0"}, len : {CodingLength}]
Writes == [op : {"SET_LINE_CODING"}, value : Codings, len : {CodingLength}]
Others == [op : {"SET_ADDRESS"}, value : {"1"}, len : {0}]
          \cup [op : {"SET_CONFIGURATION"}, value : {"0", "1"}, len : {0}]
          \cup [op : {"SET_INTERFACE"}, value : {"0"}, len : {0}]
Request == Reads \cup Writes \cup Others

IsRead(r)  == r \in Reads
IsConf(r)  == r.op = "GET_DESCRIPTOR" /\ r.value = Descriptors[2]
NoRequest  == [op |-> "none", value |-> "0", len |-> 0]

\* CONTROL_TRANSFER: of its setup, what controlIn looks at again; ptr is the bytes
\* it points at.  assembleConfigDescriptor's static confIndex and confSubIndex are
\* here too: no other transfer reads them
NewTransfer(r) == [conf |-> IsConf(r), ptr |-> << >>, remaining |-> 0, direction |-> "out",
                   zlp |-> FALSE, index |-> 0, sub |-> 0]

Init ==
    /\ \E c \in Codings :
          /\ s = [state |-> "POWERED", configuration |-> "0", coding |-> c,
                  t |-> NewTransfer(NoRequest),
                  out |-> NONE, stp |-> FALSE, in |-> NONE, stalled |-> FALSE,
                  evOut |-> FALSE, evIn |-> FALSE, slow |-> FALSE, devStat |-> FALSE]
          /\ host = [stage |-> "off", req |-> NoRequest, got |-> << >>, result |-> "none",
                     configuration |-> {"0"}, coding |-> {c}]
    /\ pc = "off" /\ misled = FALSE

---------------------------------------------------------------------------
(* Endpoint 0: the calls of USBHAL and what the controller does            *)

\* The controller does not take a packet while a SETUP packet waits
EP0write(d, packet) == IF d.out # NONE /\ d.out[1].setup THEN d ELSE [d EXCEPT !.in = << packet >>]
endpointReadcore(d) == [d EXCEPT !.out = NONE]

\* mutant: the stall does not wait for the look at a new SETUP packet
EP0stall_Always(d) == [d EXCEPT !.stalled = TRUE]

\* The conditional stall: not when a SETUP packet has come
EP0stall(d) == IF d.stp THEN d ELSE [d EXCEPT !.stalled = TRUE]

\* An endpoint interrupt
Event(d, out, in) == [d EXCEPT !.evOut = @ \/ out, !.evIn = @ \/ in, !.slow = TRUE]

\* selectEndpointClearInterrupt
ClearOut(d) == [d EXCEPT !.evOut = FALSE, !.stp = FALSE]
ClearIn(d)  == [d EXCEPT !.evIn = FALSE]

---------------------------------------------------------------------------
(* The data stages                                                         *)

TotalLength == FoldSeq(LAMBDA name, sum :
                          IF name \in Strings THEN sum ELSE sum + LengthOf[name],
                       0, Tail(Descriptors))

\* mutant: the next descriptor is taken even if it is a string
NextDescriptor_AnyType(i) == i + 1

NextDescriptor(i) ==
    CHOOSE j \in i + 1 .. Len(Descriptors) + 1 :
        /\ j = Len(Descriptors) + 1 \/ Descriptors[j] \notin Strings
        /\ \A k \in i + 1 .. j - 1 : Descriptors[k] \in Strings

\* One turn of the loop: copy what fits of a descriptor, go to the next
Assembled(c) ==
    IF Len(c.buf) = Packet \/ c.left = 0 \/ c.index > Len(Descriptors) THEN c
    ELSE LET name == Descriptors[c.index]
             len  == Min({LengthOf[name] - c.sub, Packet - Len(c.buf), c.left})
             done == c.sub + len = LengthOf[name]
         IN [index |-> IF done THEN NextDescriptor(c.index) ELSE c.index,
             sub |-> IF done THEN 0 ELSE c.sub + len,
             buf |-> c.buf \o SubSeq(Whole(name), c.sub + 1, c.sub + len),
             left |-> c.left - len]

\* The next packet of the configuration goes into confBuffer; it takes at most
\* one turn per byte
assembleConfigDescriptor(d) ==
    LET c == FoldSeq(LAMBDA turn, acc : Assembled(acc),
                     [index |-> d.t.index, sub |-> d.t.sub, buf |-> << >>,
                      left |-> d.t.remaining],
                     [i \in 1 .. Packet |-> i])
    IN [d EXCEPT !.t.index = c.index, !.t.sub = c.sub, !.t.ptr = c.buf]

\* mutant: no empty packet ends data that fill their last packet
controlIn_NoZlp(d) ==
    LET n == Min({d.t.remaining, Packet})
        written == [EP0write(d, SubSeq(d.t.ptr, 1, n)) EXCEPT !.t.remaining = @ - n]
    IN IF d.t.remaining = 0 THEN [ok |-> TRUE, d |-> d]
       ELSE IF d.t.direction # "in" THEN [ok |-> FALSE, d |-> d]
       ELSE [ok |-> TRUE,
             d |-> IF d.t.conf THEN assembleConfigDescriptor(written)
                   ELSE [written EXCEPT !.t.ptr = SubSeq(@, n + 1, Len(@))]]

controlIn(d) ==
    LET n == Min({d.t.remaining, Packet})
        written == [EP0write(d, SubSeq(d.t.ptr, 1, n)) EXCEPT !.t.remaining = @ - n]
        ended == [IF d.t.zlp THEN EP0write(d, << >>) ELSE d EXCEPT !.t.zlp = FALSE]
    IN IF d.t.remaining = 0 THEN [ok |-> TRUE, d |-> ended]
       ELSE IF d.t.direction # "in" THEN [ok |-> FALSE, d |-> d]
       ELSE [ok |-> TRUE,
             d |-> IF d.t.conf THEN assembleConfigDescriptor(written)
                   ELSE [written EXCEPT !.t.ptr = SubSeq(@, n + 1, Len(@))]]

\* A packet in the status stage of a read is refused, and left where it is.
\* Data go straight to where they belong, here cdc_line_coding.  A SETUP packet
\* that has come on top of them is read as data: it is a byte too long, the
\* result of the clear command is not looked at and the packet stays
controlOut(d) ==
    IF d.t.direction # "out" THEN [ok |-> FALSE, d |-> d]
    ELSE IF d.out[1].setup THEN [ok |-> FALSE, d |-> [d EXCEPT !.coding = OVERRUN]]
    ELSE LET stored == [endpointReadcore(d) EXCEPT !.coding = d.out[1].req.value]
         IN IF CodingLength > d.t.remaining THEN [ok |-> FALSE, d |-> stored]
            ELSE [ok |-> TRUE, d |-> EP0write([stored EXCEPT !.t.remaining = 0], << >>)]

---------------------------------------------------------------------------
(* The requests                                                            *)

Refuse(d)       == [ok |-> FALSE, d |-> d]
Accept(d)       == [ok |-> TRUE, d |-> d]
Reply(d, bytes) == Accept([d EXCEPT !.t.ptr = bytes, !.t.remaining = Len(bytes),
                                    !.t.direction = "in"])

\* The configuration is assembled packet by packet, another descriptor is sent
\* from where it is
requestGetDescriptor(d, r) ==
    IF r.value = "missing" THEN Refuse(d)
    ELSE IF d.t.conf
    THEN Accept(assembleConfigDescriptor(
             [d EXCEPT !.t.remaining = Min({TotalLength, r.len}),
                       !.t.direction = "in", !.t.index = 2, !.t.sub = 0]))
    ELSE Reply(d, Whole(r.value))

\* The callback finds any configuration: descriptors[1]
requestSetConfiguration(d, c) ==
    Accept([d EXCEPT !.configuration = c,
                     !.state = IF c = "0" THEN "ADDRESS" ELSE "CONFIGURED"])

\* USBEvent_Request of the class, requestSetup for the rest; a host that sets an
\* interface is refused, since the callback returns false whatever it has done
requestSetup(d, r) ==
    CASE r.op = "GET_DESCRIPTOR" -> requestGetDescriptor(d, r)
      [] r.op = "GET_STATUS" -> Reply(d, Bytes("status", 2))
      [] r.op = "GET_CONFIGURATION" -> Reply(d, Bytes(d.configuration, 1))
      [] r.op = "GET_INTERFACE" ->
             IF d.state # "CONFIGURED" THEN Refuse(d) ELSE Reply(d, Bytes("alternate", 1))
      [] r.op = "SET_ADDRESS" -> Accept([d EXCEPT !.state = "ADDRESS"])
      [] r.op = "SET_CONFIGURATION" -> requestSetConfiguration(d, r.value)
      [] r.op = "SET_INTERFACE" -> Refuse(d)
      [] r.op = "GET_LINE_CODING" -> Reply(d, Bytes(d.coding, CodingLength))
      [] r.op = "SET_LINE_CODING" ->
             Accept([d EXCEPT !.t.remaining = CodingLength, !.t.direction = "out"])

controlSetup(d) ==
    LET r == d.out[1].req
        a == requestSetup([endpointReadcore(d) EXCEPT !.t = NewTransfer(r)], r)
        n == Min({a.d.t.remaining, r.len})
    IN IF ~a.ok THEN a
       ELSE IF IsRead(r)
       THEN IF a.d.t.direction # "in" THEN Refuse(a.d)
            ELSE Accept(controlIn([a.d EXCEPT !.t.remaining = n,
                                              !.t.zlp = n < r.len /\ n % Packet = 0]).d)
       ELSE IF r.len > 0
       THEN IF a.d.t.direction # "out" \/ a.d.t.remaining # r.len THEN Refuse(a.d) ELSE a
       ELSE IF a.d.t.remaining # 0 THEN Refuse(a.d) ELSE Accept(EP0write(a.d, << >>))

Answered(result) == IF result.ok THEN result.d ELSE EP0stall(result.d)

EP0setupCallback(d) == Answered(controlSetup(d))
EP0out(d) == Answered(controlOut(d))
EP0in(d)  == Answered(controlIn(d))

---------------------------------------------------------------------------
(* usbisr                                                                  *)

\* mutant: the configuration outlives a bus reset
busReset_Keeps(d) ==
    [d EXCEPT !.state = "DEFAULT", !.out = NONE, !.in = NONE,
              !.stp = FALSE, !.stalled = FALSE, !.devStat = FALSE]

\* With realiseEndpoint for endpoint 0, which empties its buffers.  The transfer
\* and the line state stay as they are
busReset(d) ==
    [d EXCEPT !.state = "DEFAULT", !.configuration = "0", !.out = NONE, !.in = NONE,
              !.stp = FALSE, !.stalled = FALSE, !.devStat = FALSE]

DevStat ==
    /\ pc = "off" /\ (s.devStat \/ s.slow)
    /\ s' = IF s.devStat THEN busReset(s) ELSE s
    /\ pc' = "ep0out" /\ UNCHANGED <<host, misled>>

Return ==
    /\ pc = "ep0out" /\ ~s.slow
    /\ pc' = "off" /\ UNCHANGED <<s, host, misled>>

SelectOut ==
    /\ pc = "ep0out" /\ s.slow
    /\ pc' = IF ~s.evOut THEN "ep0in" ELSE IF s.stp THEN "setup"
             ELSE IF s.out # NONE THEN "out" ELSE "ep0in"
    /\ s' = IF s.evOut THEN ClearOut(s) ELSE s
    /\ UNCHANGED <<host, misled>>

Serve(at, handled) ==
    /\ pc = at /\ s' = handled
    /\ pc' = "ep0in" /\ UNCHANGED <<host, misled>>

SelectIn ==
    /\ pc = "ep0in"
    /\ pc' = IF s.evIn /\ s.in = NONE THEN "in" ELSE "end"
    /\ s' = IF s.evIn THEN ClearIn(s) ELSE s
    /\ UNCHANGED <<host, misled>>

ServeIn ==
    /\ pc = "in" /\ s' = EP0in(s)
    /\ misled' = (misled \/ (s'.stalled /\ ~s.stalled))
    /\ pc' = "end" /\ UNCHANGED host

\* EP_SLOW is cleared whatever has come meanwhile; the controller sets it again
\* for what is still there, or does not
End ==
    /\ pc = "end" /\ pc' = "off"
    /\ \E again \in {FALSE, s.evOut \/ s.evIn} : s' = [s EXCEPT !.slow = again]
    /\ UNCHANGED <<host, misled>>

usbisr == DevStat \/ Return \/ SelectOut \/ Serve("setup", EP0setupCallback(s))
          \/ Serve("out", EP0out(s)) \/ SelectIn \/ ServeIn \/ End

---------------------------------------------------------------------------
(* The host                                                                *)

Idle(result) == [host EXCEPT !.stage = "idle", !.result = result]
Without      == [Idle("none") EXCEPT !.req = NoRequest, !.got = << >>]

\* What it may take a value to be: while the request is under way, the old one too
Believing(h, r) ==
    CASE r.op = "SET_CONFIGURATION"      -> [h EXCEPT !.configuration = @ \cup {r.value}]
      [] r.op = "SET_LINE_CODING"        -> [h EXCEPT !.coding = @ \cup {r.value}]
      [] OTHER -> h
Knowing(h, r) ==
    CASE r.op = "SET_CONFIGURATION"      -> [h EXCEPT !.configuration = {r.value}]
      [] r.op = "SET_LINE_CODING"        -> [h EXCEPT !.coding = {r.value}]
      [] OTHER -> h

\* The device takes every SETUP packet: it ends a stall and takes an answer back.
\* The host leaves a device that it has reset the time to see it
SendSetup(r) ==
    /\ host.stage = "idle" /\ ~s.devStat
    /\ r.op = "SET_ADDRESS" => host.configuration = {"0"}
    /\ s' = Event([s EXCEPT !.in = NONE, !.out = << Setup(r) >>, !.stp = TRUE, !.stalled = FALSE],
                  TRUE, FALSE)
    /\ host' = Believing([host EXCEPT !.req = r, !.got = << >>, !.result = "none",
                             !.stage = IF IsRead(r) THEN "dataIn"
                                       ELSE IF r \in Writes THEN "dataOut" ELSE "statusIn"], r)
    /\ misled' = FALSE /\ UNCHANGED pc

\* A packet that is not full ends the data, and so does the last byte asked for
Take ==
    /\ host.stage \in {"dataIn", "statusIn"} /\ s.in # NONE /\ ~s.stalled
    /\ s' = Event([s EXCEPT !.in = NONE], FALSE, TRUE)
    /\ host' = IF host.stage = "statusIn" THEN Knowing(Idle("done"), host.req)
               ELSE LET got == host.got \o s.in[1]
                    IN [host EXCEPT !.got = got,
                           !.stage = IF Len(s.in[1]) < Packet \/ Len(got) >= host.req.len
                                     THEN "statusOut" ELSE @]
    /\ UNCHANGED <<pc, misled>>

SendData ==
    /\ host.stage = "dataOut" /\ s.out = NONE /\ ~s.stalled
    /\ s' = Event([s EXCEPT !.out = << Data(host.req.value) >>], TRUE, FALSE)
    /\ host' = [host EXCEPT !.stage = "statusIn"]
    /\ UNCHANGED <<pc, misled>>

SendStatus ==
    /\ host.stage = "statusOut" /\ s.out = NONE /\ ~s.stalled
    /\ s' = Event([s EXCEPT !.out = << Data("0") >>], TRUE, FALSE)
    /\ host' = Idle("done") /\ UNCHANGED <<pc, misled>>

\* After data it cannot tell how many of them the device has stored
SeeStall ==
    /\ host.stage \notin {"off", "idle"} /\ s.stalled
    /\ host' = [Idle("stalled") EXCEPT
                   !.coding = IF host.req \in Writes /\ host.stage = "statusIn"
                              THEN @ \cup {OVERRUN} ELSE @]
    /\ UNCHANGED <<s, pc, misled>>

\* A try that is answered by a NAK, an interrupt since SIEsetMode
Poll ==
    /\ ~s.stalled
    /\ \/ /\ host.stage \in {"dataIn", "statusIn"} /\ s.in = NONE
          /\ s' = Event(s, FALSE, TRUE)
       \/ /\ host.stage \in {"dataOut", "statusOut"} /\ s.out # NONE
          /\ s' = Event(s, TRUE, FALSE)
    /\ UNCHANGED <<pc, host, misled>>

\* The host's time-outs are long: the device has nothing left to do
GiveUp ==
    /\ host.stage \notin {"off", "idle"} /\ pc = "off" /\ ~s.slow
    /\ host' = Without /\ UNCHANGED <<s, pc, misled>>

BusReset ==
    /\ s' = [s EXCEPT !.devStat = TRUE]
    /\ host' = [Without EXCEPT !.configuration = {"0"}]
    /\ UNCHANGED <<pc, misled>>

Transfer == Take \/ SendData \/ SendStatus \/ SeeStall \/ Poll

Next == \/ usbisr \/ Transfer \/ GiveUp \/ BusReset
        \/ \E r \in Request : SendSetup(r)

Spec == Init /\ [][Next]_vars

\* The steps of usbisr are those that move pc
Steps == {"off", "ep0out", "setup", "out", "ep0in", "in", "end"}
Runs  == (pc # "off" \/ s.devStat \/ s.slow) /\ pc' \in Steps \ {pc}

\* The interrupt runs, and the host goes on with its transfer
FairSpec == /\ Spec /\ WF_pc(Runs)
            /\ WF_vars(Take) /\ WF_vars(SendData \/ SendStatus)
            /\ WF_vars(SeeStall) /\ WF_vars(Poll)

---------------------------------------------------------------------------
(* Properties                                                              *)

\* The types of the state
TypeOK ==
    /\ s.state \in {"POWERED", "DEFAULT", "ADDRESS", "CONFIGURED"}
    /\ s.configuration \in {"0", "1"} /\ s.coding \in Codings \cup {OVERRUN}
    /\ s.t.direction \in {"in", "out"} /\ {s.t.conf, s.t.zlp} \subseteq BOOLEAN
    /\ s.t.remaining \in Nat /\ Len(s.in) <= 1 /\ Len(s.out) <= 1
    /\ s.in # NONE => Len(s.in[1]) <= Packet
    /\ {s.stp, s.stalled, s.evOut, s.evIn, s.slow, s.devStat} \subseteq BOOLEAN
    /\ host.stage \in {"off", "idle", "dataIn", "dataOut", "statusIn", "statusOut"}
    /\ host.result \in {"none", "done", "stalled"}
    /\ pc \in Steps /\ misled \in BOOLEAN

\* The descriptors of the configuration
Parts == SelectSeq(Tail(Descriptors), LAMBDA name : name \notin Strings)
Configuration == FlattenSeq([i \in 1 .. Len(Parts) |-> Whole(Parts[i])])

\* What the host may be sent
Answers(r) ==
    CASE r.op = "GET_STATUS"         -> {Bytes("status", 2)}
      [] r.op = "GET_CONFIGURATION"  -> {Bytes(c, 1) : c \in host.configuration}
      [] r.op = "GET_INTERFACE"      -> {Bytes("alternate", 1)}
      [] r.op = "GET_LINE_CODING"    -> {Bytes(c, CodingLength) : c \in host.coding}
      [] r.op = "GET_DESCRIPTOR" /\ r.value # "missing"
             -> {IF IsConf(r) THEN Configuration ELSE Whole(r.value)}
      [] OTHER -> {<< >>}

Shortened(bytes, len) == SubSeq(bytes, 1, Min({len, Len(bytes)}))

\* What the host is sent are the first bytes of the answer to its own request,
\* none left out or sent twice, and all it asked for when it ends the data: the
\* packets of controlIn and assembleConfigDescriptor, against stale interrupts
DataExact ==
    IsRead(host.req) /\ host.result # "stalled" =>
        \E a \in Answers(host.req) :
            LET all == Shortened(a, host.req.len)
            IN /\ IsPrefix(host.got, all)
               /\ host.stage = "statusOut" \/ host.result = "done" => host.got = all

MustRefuse(r) == \/ r.value = "missing" \/ r.op = "SET_INTERFACE"
                 \/ r.op = "GET_INTERFACE" /\ "1" \notin host.configuration
MayRefuse(r)  == \/ MustRefuse(r)
                 \/ r.op = "GET_INTERFACE" /\ "0" \in host.configuration

\* No transfer is answered for another one: besides its data, the stall that
\* refuses a request, or the packet in the status stage of a read, never ends the
\* next transfer, and a request that was not carried out is not confirmed.  EP0in
\* may still stall a write that waits for its data (misled)
AnsweredRight ==
    /\ DataExact
    /\ host.result = "stalled" => MayRefuse(host.req) \/ misled
    /\ host.result = "done" => ~MustRefuse(host.req)

\* Device and host agree on the configuration and the line coding, whatever
\* transfers were given up and whatever resets came between.  The line state is
\* not modelled here: a reset leaves it stale (USBDevice.cpp:701)
InStep ==
    /\ s.coding \in host.coding
    /\ ~s.devStat => s.configuration \in host.configuration
    /\ (s.state = "CONFIGURED") <=> (s.configuration # "0")

\* Every transfer ends: no interrupt that usbisr clears unseen, and no missing
\* last packet, leaves the host waiting for ever
Ends == host.stage \notin {"off", "idle"} ~> host.stage = "idle"
=============================================================================
