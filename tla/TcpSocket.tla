----------------------------- MODULE TcpSocket -----------------------------
(***************************************************************************)
(* A connected socket of FreeRTOS+TCP in the configuration of this build   *)
(* (FreeRTOSIPConfig.h: no sliding windows, no keep-alive): the functions  *)
(* of FreeRTOS_TCP_IP.c and FreeRTOS_TCP_WIN.c that the IP task runs, as   *)
(* operators from a socket record to the next one, composed in the order   *)
(* in which the source calls them.                                         *)
(*                                                                         *)
(* Bytes are numbered by their place in the stream.  Sequence numbers are  *)
(* SeqMod wide, the way the source's are 2^32 wide, and wrap.  TCP options *)
(* and the advertised windows are left out: the peer may send at any time. *)
(***************************************************************************)
EXTENDS Integers, Sequences

CONSTANTS SeqMod,       \* number of values of a sequence number
          OurISN,       \* ulNextInitialSequenceNumber at the connection
          MSS,          \* usMSS: bytes in one of our segments
          RxSpace       \* uxRxStreamSize

ASSUME SocketAssumption ==
    /\ SeqMod \in Nat \ {0} /\ OurISN \in 0 .. SeqMod - 1
    /\ MSS \in Nat \ {0} /\ RxSpace \in Nat \ {0}

\* enum eTCP_STATE, in its order
States == <<"CLOSED", "LISTEN", "CONNECT_SYN", "SYN_FIRST", "SYN_RECEIVED",
            "ESTABLISHED", "FIN_WAIT_1", "FIN_WAIT_2", "CLOSE_WAIT", "CLOSING",
            "LAST_ACK", "TIME_WAIT">>
Rank(st) == CHOOSE i \in DOMAIN States : States[i] = st
Connected(s) == Rank(s.state) >= Rank("ESTABLISHED")

\* prvTCPSocketIsActive
prvTCPSocketIsActive(s) ==
    s.state \notin {"CLOSED", "CLOSE_WAIT", "FIN_WAIT_2", "CLOSING", "TIME_WAIT"}

\* Sequence numbers: the signed difference a - b
Plus(a, n)     == (a + n) % SeqMod
Difference(a, b) == LET d == (a - b) % SeqMod
                    IN  IF d < SeqMod \div 2 THEN d ELSE d - SeqMod

Segment(seq, ack, flags, data) ==
    [seq |-> seq, ack |-> ack, flags |-> flags, data |-> data]

Bits == {"PassQueued", "FinSent", "FinRecv", "FinAcked", "FinAccepted", "FinLast",
         "UserShutdown", "CloseRequested", "WinChange"}

\* A listening socket takes the peer's SYN: prvHandleListen, prvTCPCreateWindow
\* and vTCPWindowInit for the new child
NewSocket(syn) ==
    [state |-> "SYN_FIRST",
     rx |-> [cur |-> syn.seq, high |-> syn.seq, fin |-> 0],
     tx |-> [cur |-> OurISN, fin |-> 0],
     next |-> OurISN,                   \* ulNextTxSequenceNumber
     our |-> OurISN,                    \* ulOurSequenceNumber
     segment |-> [seq |-> 0, len |-> 0, outstanding |-> FALSE],
     txStream |-> << >>,                \* written and not acknowledged
     rxStream |-> << >>,
     bits |-> {"PassQueued"},           \* nobody owns it yet
     lastFin |-> FALSE]                 \* the flags in ucLastPacket

\* A step of the IP task: the socket after it and the packets it sends
Result(s, out) == [s |-> s, out |-> out]
Quiet(s) == Result(s, << >>)

---------------------------------------------------------------------------
(* The window *)

\* mutant: data that is not next in the stream is stored
prvStoreRxData_AnyOrder(s, m) ==
    LET len == Len(m.data)
    IN  IF /\ len > 0 /\ Rank(s.state) >= Rank("SYN_RECEIVED")
           /\ len <= RxSpace - Len(s.rxStream)
        THEN [s EXCEPT !.rx.cur = Plus(m.seq, len), !.rxStream = @ \o m.data]
        ELSE s

\* mutant: no data reaches the stream
prvStoreRxData_Nothing(s, m) == s

prvStoreRxData(s, m) ==
    LET len == Len(m.data)
    IN  IF /\ len > 0 /\ Rank(s.state) >= Rank("SYN_RECEIVED")
           /\ s.rx.cur = m.seq /\ len <= RxSpace - Len(s.rxStream)
        THEN [s EXCEPT !.rx.cur = Plus(@, len), !.rxStream = @ \o m.data]
        ELSE s

xTCPWindowTxDone(s)  == s.segment.len = 0
xTCPWindowRxEmpty(s) == Difference(s.rx.cur, s.rx.high) >= 0

\* mutant: a new segment is made before the last one is acknowledged
prvTCPAddTxData_Eager(s) ==
    LET len == IF Len(s.txStream) > MSS THEN MSS ELSE Len(s.txStream)
    IN  IF len > 0
        THEN [s EXCEPT !.segment = [seq |-> s.next, len |-> len, outstanding |-> FALSE],
                       !.next = Plus(@, len)]
        ELSE s

\* prvTCPAddTxData and lTCPWindowTxAdd
prvTCPAddTxData(s) ==
    LET len == IF Len(s.txStream) > MSS THEN MSS ELSE Len(s.txStream)
    IN  IF len > 0 /\ xTCPWindowTxDone(s)
        THEN [s EXCEPT !.segment = [seq |-> s.next, len |-> len, outstanding |-> FALSE],
                       !.next = Plus(@, len)]
        ELSE s

\* mutant: any ACK is taken to acknowledge the segment
ulTCPWindowTxAck_AnyAck(s, ack) ==
    LET len == s.segment.len
    IN  IF len # 0
        THEN [s EXCEPT !.tx.cur = Plus(@, len), !.segment.len = 0,
                       !.txStream = SubSeq(@, len + 1, Len(@))]
        ELSE s

\* ulTCPWindowTxAck, and the tail of the stream.  The comparison is unsigned
ulTCPWindowTxAck(s, ack) ==
    LET len == s.segment.len
    IN  IF len # 0 /\ ack >= Plus(s.tx.cur, len)
        THEN [s EXCEPT !.tx.cur = Plus(@, len), !.segment.len = 0,
                       !.txStream = SubSeq(@, len + 1, Len(@))]
        ELSE s

---------------------------------------------------------------------------
(* Sending *)

\* mutant: the FIN is not left out of an earlier packet
prvTCPReturnPacket_KeepsFin(s, flags, data) ==
    Result([s EXCEPT !.bits = @ \ {"WinChange"}],
           <<Segment(s.our, s.rx.cur, flags, data)>>)

\* prvTCPReturnPacket for a socket.  A FIN is left out of an earlier packet
prvTCPReturnPacket(s, flags, data) ==
    LET fin == IF Plus(s.our, Len(data)) = s.tx.fin THEN {} ELSE {"FIN"}
    IN  Result([s EXCEPT !.bits = @ \ {"WinChange"}],
               <<Segment(s.our, s.rx.cur, flags \ fin, data)>>)

\* prvTCPSendReset: the numbers change places
prvTCPSendReset(m) == <<Segment(m.ack, m.seq, {"ACK", "RST"}, << >>)>>

\* prvTCPPrepareSend.  due: the segment's timer has run out
Prepared(s, due) ==
    LET len == IF s.segment.outstanding /\ ~due THEN 0 ELSE s.segment.len
        s1 == IF len = 0 THEN s
              ELSE [s EXCEPT !.segment.outstanding = TRUE, !.our = s.segment.seq]
        closing  == /\ len > 0 /\ len = Len(s.txStream)
                    /\ "CloseRequested" \in s.bits /\ "FinSent" \notin s.bits
        shutting == /\ s.state = "ESTABLISHED" /\ xTCPWindowTxDone(s)
                    /\ "UserShutdown" \in s.bits
    IN  [s |-> CASE closing  -> [s1 EXCEPT !.tx.fin = Plus(s1.our, len),
                                           !.bits = @ \cup {"FinSent"}]
                 [] shutting -> [s1 EXCEPT !.tx.fin = s1.tx.cur,
                                           !.state = "FIN_WAIT_1",
                                           !.bits = (@ \ {"UserShutdown"})
                                                    \cup {"FinSent", "WinChange"}]
                 [] OTHER    -> s1,
         fin  |-> closing \/ shutting,
         data |-> SubSeq(s.txStream, 1, len)]

MustSend(p) == p.data # << >> \/ "WinChange" \in p.s.bits
FinIf(b) == IF b THEN {"FIN"} ELSE {}

\* xTCPSocketCheck: the timer's packet is built on the header last received
xTCPSocketCheck(s, due) ==
    LET p == Prepared(prvTCPAddTxData(s), due)
        s1 == [p.s EXCEPT !.lastFin = @ \/ (p.fin /\ p.data = << >>)]
    IN  IF ~Connected(s) THEN Quiet(s)
        ELSE IF ~MustSend(p) THEN Quiet(s1)
        ELSE prvTCPReturnPacket(s1, {"ACK"} \cup FinIf(s1.lastFin \/ p.fin), p.data)

---------------------------------------------------------------------------
(* Receiving *)

prvTCPHandleFin(s, m) ==
    LET s1 == IF "FIN" \in m.flags THEN [s EXCEPT !.rx.cur = Plus(s.rx.fin, 1)] ELSE s
        s2 == IF "FinSent" \notin s1.bits
              THEN [s1 EXCEPT !.tx.fin = s1.tx.cur, !.bits = @ \cup {"FinSent"}]
              ELSE IF m.ack = Plus(s1.tx.fin, 1)
                   THEN [s1 EXCEPT !.bits = @ \cup {"FinAcked"}] ELSE s1
        acked == "FinAcked" \in s2.bits
        s3 == IF ~acked THEN [s2 EXCEPT !.tx.cur = s2.tx.fin, !.state = "LAST_ACK"]
              ELSE [s2 EXCEPT !.tx.cur = Plus(s2.tx.fin, 1),
                              !.state = IF "FinRecv" \in s2.bits THEN "CLOSE_WAIT" ELSE @]
        s4 == [s3 EXCEPT !.our = s3.tx.cur]
    IN  IF ~acked THEN prvTCPReturnPacket(s4, {"ACK", "FIN"}, << >>)
        ELSE IF "FinRecv" \in s4.bits /\ "FinLast" \notin s4.bits
        THEN prvTCPReturnPacket(s4, {"ACK"}, << >>)
        ELSE Quiet(s4)

\* A FIN has come, and unless ours is sent already all is received and sent
MayClose(s, m) ==
    /\ "FinAccepted" \in s.bits \/ "FIN" \in m.flags
    /\ "FinSent" \notin s.bits =>
          /\ xTCPWindowRxEmpty(s) /\ xTCPWindowTxDone(s)
          /\ Difference(Plus(m.seq, Len(m.data)), s.rx.cur) <= 1

prvHandleEstablished(s, m, due) ==
    LET s1 == prvTCPAddTxData(IF "ACK" \in m.flags THEN ulTCPWindowTxAck(s, m.ack) ELSE s)
        s2 == [s1 EXCEPT !.our = s1.tx.cur]
        hasData == m.data # << >>
        p == Prepared(IF hasData /\ "FinSent" \in s2.bits
                      THEN [s2 EXCEPT !.tx.cur = s2.tx.fin] ELSE s2, due)
    IN  IF MayClose(s2, m)
        THEN prvTCPHandleFin([s2 EXCEPT !.bits = @ \cup {"FinAccepted"}], m)
        ELSE IF MustSend(p) \/ hasData
        THEN prvTCPReturnPacket(p.s, {"ACK"} \cup FinIf(p.fin), p.data)
        ELSE Quiet(p.s)

prvHandleSynReceived(s, m) ==
    LET s1 == IF m.data = << >> THEN [s EXCEPT !.rx.cur = m.seq] ELSE s
        s2 == [s1 EXCEPT !.our = Plus(OurISN, 1), !.state = "ESTABLISHED",
                         !.bits = @ \ {"PassQueued"}]
    IN  IF m.flags \cap {"FIN", "SYN", "RST", "ACK"} # {"ACK"}
        THEN prvTCPReturnPacket([s EXCEPT !.state = "CLOSE_WAIT"],
                                m.flags \cup {"RST"}, << >>)
        ELSE IF m.data # << >> THEN prvTCPReturnPacket(s2, {"ACK"}, << >>)
        ELSE Quiet(s2)

\* eSYN_FIRST: the answer to a SYN, the first or a repeated one
HandleSynFirst(s, m) ==
    prvTCPReturnPacket([s EXCEPT !.state = "SYN_RECEIVED",
                                 !.rx.cur = Plus(m.seq, 1), !.rx.high = Plus(m.seq, 1),
                                 !.tx.cur = Plus(OurISN, 1), !.next = Plus(OurISN, 1)],
                       {"SYN", "ACK"}, << >>)

prvTCPHandleState(s, m, due) ==
    LET end == Plus(m.seq, Len(m.data))
        s1 == IF Connected(s) /\ s.rx.cur = Plus(m.seq, 1)
              THEN [s EXCEPT !.bits = @ \cup {"WinChange"}] ELSE s
        s2 == IF Difference(end, s1.rx.high) > 0 THEN [s1 EXCEPT !.rx.high = end] ELSE s1
        s3 == prvStoreRxData(s2, m)
        s4 == IF s3.state = "SYN_RECEIVED" /\ m.flags = {"SYN"}
              THEN [s3 EXCEPT !.state = "SYN_FIRST"] ELSE s3
        s5 == IF "FIN" \in m.flags /\ "FinRecv" \notin s4.bits
              THEN [s4 EXCEPT !.rx.fin = end,
                              !.bits = @ \cup {"FinRecv"} \cup
                                  (IF "FinSent" \in @ THEN {} ELSE {"FinLast"})]
              ELSE s4
    IN  CASE s5.state = "SYN_FIRST"    -> HandleSynFirst(s5, m)
          [] s5.state = "SYN_RECEIVED" -> prvHandleSynReceived(s5, m)
          [] s5.state = "ESTABLISHED"  -> prvHandleEstablished(s5, m, due)
          [] s5.state \in {"LAST_ACK", "FIN_WAIT_1"} -> prvTCPHandleFin(s5, m)

\* xProcessReceivedTCPPacket with the child in s
xProcessReceivedTCPPacket(s, m, due) ==
    IF ~prvTCPSocketIsActive(s)
    THEN Result(s, IF (m.flags = {"ACK"} /\ m.data = << >>) \/ "RST" \in m.flags
                   THEN << >> ELSE prvTCPSendReset(m))
    ELSE IF "RST" \in m.flags THEN Quiet([s EXCEPT !.state = "CLOSED"])
    ELSE IF m.flags = {"SYN"} /\ Connected(s) THEN Quiet(s)
    ELSE prvTCPHandleState([s EXCEPT !.lastFin = "FIN" \in m.flags], m, due)
=============================================================================
