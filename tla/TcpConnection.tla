--------------------------- MODULE TcpConnection ---------------------------
(***************************************************************************)
(* One connection to a listening socket: the IP task with the child socket *)
(* of module TcpSocket, the task that owns the socket (FreeRTOS_Sockets.c),*)
(* the network, and the peer, a TCP as RFC 793 describes it.               *)
(*                                                                         *)
(* The IP task's steps are whole calls: the owner's task has the lower     *)
(* priority.  Timers run out at any time; that the network loses, repeats  *)
(* or overtakes is bounded by MaxFaults, and it drops what finds it full.  *)
(***************************************************************************)
EXTENDS TcpSocket

CONSTANTS PeerISN,
          PeerMSS,      \* bytes in one segment of the peer
          TxLen, RxLen, \* bytes the owner and the peer have to send
          TxSpace,      \* uxTxStreamSize
          AppCloses,    \* how the owner may close: of "shutdown", "afterSend"
          PeerCloses,   \* the peer sends a FIN after its last byte
          Faults,       \* of "lose", "repeat", "overtake", "die"
          MaxFaults,
          MaxToUs, MaxToPeer    \* segments under way in each direction

ASSUME ConnectionAssumption ==
    /\ PeerISN \in 0 .. SeqMod - 1 /\ PeerMSS \in Nat \ {0}
    /\ TxLen \in Nat /\ RxLen \in Nat /\ TxSpace \in Nat \ {0}
    /\ AppCloses \subseteq {"shutdown", "afterSend"} /\ PeerCloses \in BOOLEAN
    /\ Faults \subseteq {"lose", "repeat", "overtake", "die"}
    /\ MaxFaults \in Nat /\ MaxToUs \in Nat \ {0} /\ MaxToPeer \in Nat \ {0}
    /\ TxLen + 2 < SeqMod \div 2 /\ RxLen + 2 < SeqMod \div 2

VARIABLES phase,        \* the child: "none", "open", "freed"
          s,            \* the child's socket
          owner,        \* the task that owns it: bytes written and read
          peer,         \* the peer
          toUs, toPeer, \* the network
          faults,       \* history: faults so far
          lapses        \* history: what the code has lost sight of (Lapse)

vars == <<phase, s, owner, peer, toUs, toPeer, faults, lapses>>

\* What the peer has to send counts its bytes and its FIN
PeerTotal == RxLen + (IF PeerCloses THEN 1 ELSE 0)
Bytes(from, to) == [i \in 1 .. to - from |-> from + i]

NoSegment == Segment(0, 0, {}, << >>)

Init ==
    /\ phase = "none" /\ s = NewSocket(NoSegment)
    /\ owner = [wrote |-> 0, read |-> << >>, shut |-> FALSE]
    /\ peer = [state |-> "closed", una |-> 0, next |-> 0,
               got |-> << >>, fin |-> FALSE]
    /\ toUs = << >> /\ toPeer = << >> /\ faults = 0 /\ lapses = {}

ToUs(segments)   == IF Len(toUs) < MaxToUs THEN toUs \o segments ELSE toUs
ToPeer(segments) == IF Len(toPeer) < MaxToPeer THEN toPeer \o segments ELSE toPeer
Without(net, i) == SubSeq(net, 1, i - 1) \o SubSeq(net, i + 1, Len(net))

---------------------------------------------------------------------------
(* The IP task *)

\* A result becomes the socket and goes onto the network
Apply(r) ==
    /\ s' = r.s
    /\ toPeer' = ToPeer(r.out)

\* The FIN of the socket has left before the peer's was accepted: from then on a
\* FIN is accepted without a look at what is missing before it (line 1991)
FinFirst(new) == IF "FinSent" \in new.bits /\ "FinAccepted" \notin new.bits
                 THEN {"finFirst"} ELSE {}

\* A bare ACK that is not the next segment ends SYN_RECEIVED: the number expected
\* becomes its own, past bytes that are still under way (line 2354)
Skipped(m) == IF /\ s.state = "SYN_RECEIVED" /\ m.data = << >> /\ m.flags = {"ACK"}
                 /\ Difference(m.seq, s.rx.cur) > 0
              THEN {"skipped"} ELSE {}

\* Across the wrap of our numbers the unsigned comparison of ulTCPWindowTxAck takes
\* an old acknowledgement for a new one, or a new one for an old one
Misjudged(m) == LET end == Plus(s.tx.cur, s.segment.len)
                IN  IF /\ s.state = "ESTABLISHED" /\ s.segment.len # 0
                       /\ "ACK" \in m.flags /\ "RST" \notin m.flags
                       /\ (m.ack >= end) # (Difference(m.ack, end) >= 0)
                    THEN {"misjudged"} ELSE {}

\* A SYN for the listening socket; anything else is reset there
Listen(m) ==
    /\ phase = "none"
    /\ IF m.flags = {"SYN"}
       THEN phase' = "open" /\ Apply(prvTCPHandleState(NewSocket(m), m, FALSE))
       ELSE /\ toPeer' = ToPeer(IF "RST" \in m.flags THEN << >> ELSE prvTCPSendReset(m))
            /\ UNCHANGED <<phase, s>>
    /\ UNCHANGED lapses

Receive(m) ==
    /\ phase = "open"
    /\ \E due \in BOOLEAN : Apply(xProcessReceivedTCPPacket(s, m, due))
    /\ lapses' = lapses \cup FinFirst(s') \cup Skipped(m) \cup Misjudged(m)
    /\ UNCHANGED phase

\* The child is gone: a SYN would begin the next connection, the rest is reset
ReceiveLate(m) ==
    /\ phase = "freed"
    /\ toPeer' = ToPeer(IF {"RST", "SYN"} \cap m.flags # {} THEN << >>
                        ELSE prvTCPSendReset(m))
    /\ UNCHANGED <<phase, s, lapses>>

Overtakes(i) == i > 1 /\ "overtake" \in Faults /\ faults < MaxFaults

IpReceive ==
    /\ \E i \in DOMAIN toUs :
          /\ i = 1 \/ Overtakes(i)
          /\ faults' = faults + (IF i = 1 THEN 0 ELSE 1)
          /\ toUs' = Without(toUs, i)
          /\ Listen(toUs[i]) \/ Receive(toUs[i]) \/ ReceiveLate(toUs[i])
    /\ UNCHANGED <<owner, peer>>

\* The socket's timer.  A packet is sent into an empty network only (bound)
TimerCheck ==
    /\ phase = "open" /\ toPeer = << >>
    /\ \E due \in BOOLEAN : Apply(xTCPSocketCheck(s, due))
    /\ lapses' = lapses \cup FinFirst(s')
    /\ UNCHANGED <<phase, owner, peer, toUs, faults>>

TimerDue ==
    /\ phase = "open" /\ toPeer = << >>
    /\ Apply(xTCPSocketCheck(s, TRUE))
    /\ lapses' = lapses \cup FinFirst(s')
    /\ UNCHANGED <<phase, owner, peer, toUs, faults>>

\* Nobody has anything under way or to send again
Silent ==
    /\ toUs = << >> /\ toPeer = << >>
    /\ \/ peer.state = "gone"
       \/ peer.state = "open" /\ peer.una = peer.next /\ xTCPWindowTxDone(s)

\* mutant: no hang protection while the last ACK is awaited
prvTCPStatusAgeCheck_NotLastAck ==
    /\ phase = "open" /\ Silent
    /\ s.state \notin {"ESTABLISHED", "CLOSED", "CLOSE_WAIT", "LAST_ACK"}
    /\ s' = [s EXCEPT !.state = "CLOSE_WAIT"]
    /\ phase' = IF "PassQueued" \in s.bits THEN "freed" ELSE phase
    /\ UNCHANGED <<owner, peer, toUs, toPeer, faults, lapses>>

\* prvTCPStatusAgeCheck: the hang protection, after ten seconds of silence
prvTCPStatusAgeCheck ==
    /\ phase = "open" /\ Silent
    /\ s.state \notin {"ESTABLISHED", "CLOSED", "CLOSE_WAIT"}
    /\ s' = [s EXCEPT !.state = "CLOSE_WAIT"]
    /\ phase' = IF "PassQueued" \in s.bits THEN "freed" ELSE phase
    /\ UNCHANGED <<owner, peer, toUs, toPeer, faults, lapses>>

\* vSocketClose of a child that was reset before anybody owned it
CloseQueued ==
    /\ phase = "open" /\ s.state = "CLOSED" /\ "PassQueued" \in s.bits
    /\ phase' = "freed"
    /\ UNCHANGED <<s, owner, peer, toUs, toPeer, faults, lapses>>

---------------------------------------------------------------------------
(* The owner, once accept() has returned the socket *)

Owned == phase = "open" /\ "PassQueued" \notin s.bits

\* FreeRTOS_send of n bytes that find room, the last ones perhaps with
\* FREERTOS_SO_CLOSE_AFTER_SEND
FreeRTOS_send(n) ==
    /\ Owned /\ s.state # "CLOSED" /\ "FinSent" \notin s.bits /\ ~ owner.shut
    /\ n <= TxSpace - Len(s.txStream) /\ owner.wrote + n <= TxLen
    /\ \E close \in SUBSET {"CloseRequested"} :
          /\ close # {} => "afterSend" \in AppCloses /\ owner.wrote + n = TxLen
          /\ s' = [s EXCEPT !.txStream = @ \o Bytes(owner.wrote, owner.wrote + n),
                            !.bits = @ \cup close]
    /\ owner' = [owner EXCEPT !.wrote = @ + n]
    /\ UNCHANGED <<phase, peer, toUs, toPeer, faults, lapses>>

FreeRTOS_recv(n) ==
    /\ Owned /\ n <= Len(s.rxStream)
    /\ s' = [s EXCEPT !.rxStream = SubSeq(@, n + 1, Len(@))]
    /\ owner' = [owner EXCEPT !.read = @ \o SubSeq(s.rxStream, 1, n)]
    /\ UNCHANGED <<phase, peer, toUs, toPeer, faults, lapses>>

FreeRTOS_shutdown ==
    /\ Owned /\ s.state = "ESTABLISHED" /\ "shutdown" \in AppCloses
    /\ owner.wrote = TxLen /\ ~ owner.shut
    /\ s' = [s EXCEPT !.bits = @ \cup {"UserShutdown"}]
    /\ owner' = [owner EXCEPT !.shut = TRUE]
    /\ UNCHANGED <<phase, peer, toUs, toPeer, faults, lapses>>

\* recv() returns an error, and the owner closes: vSocketClose
FreeRTOS_closesocket ==
    /\ Owned /\ s.state \in {"CLOSED", "CLOSE_WAIT"} /\ s.rxStream = << >>
    /\ phase' = "freed"
    /\ UNCHANGED <<s, owner, peer, toUs, toPeer, faults, lapses>>

---------------------------------------------------------------------------
(* The peer: sends from una on, takes what is next in order, answers every *)
(* segment that carries something                                          *)

PeerSeq(n) == Plus(PeerISN, 1 + n)
PeerAck == Plus(OurISN, 1 + Len(peer.got) + (IF peer.fin THEN 1 ELSE 0))

\* Its segment from byte n + 1 on
PeerSegment(n) ==
    LET to == IF n + PeerMSS < RxLen THEN n + PeerMSS ELSE RxLen
    IN  Segment(PeerSeq(n), PeerAck,
                {"ACK"} \cup FinIf(PeerCloses /\ to = RxLen), Bytes(n, to))

Ends(m) == Difference(m.seq, PeerSeq(0)) + Len(m.data)
           + (IF "FIN" \in m.flags THEN 1 ELSE 0)

PeerConnect ==
    /\ peer.state \in {"closed", "connecting"} /\ toUs = << >>
    /\ peer' = [peer EXCEPT !.state = "connecting"]
    /\ toUs' = <<Segment(PeerISN, 0, {"SYN"}, << >>)>>
    /\ UNCHANGED <<phase, s, owner, toPeer, faults, lapses>>

PeerSend ==
    /\ peer.state = "open" /\ peer.next < PeerTotal /\ Len(toUs) < MaxToUs
    /\ toUs' = Append(toUs, PeerSegment(peer.next))
    /\ peer' = [peer EXCEPT !.next = Ends(PeerSegment(peer.next))]
    /\ UNCHANGED <<phase, s, owner, toPeer, faults, lapses>>

\* The retransmission, into an empty network only (bound)
PeerRepeat ==
    /\ peer.state = "open" /\ peer.una < peer.next /\ toUs = << >>
    /\ toUs' = <<PeerSegment(peer.una)>>
    /\ UNCHANGED <<phase, s, owner, peer, toPeer, faults, lapses>>

Acked(m) == LET n == Difference(m.ack, PeerSeq(0))
            IN  IF n > peer.una /\ n <= peer.next THEN n ELSE peer.una

PeerTakes(m) ==
    LET inOrder == m.seq = PeerAck
    IN  CASE "RST" \in m.flags -> [peer EXCEPT !.state = "gone"]
          [] peer.state = "connecting" -> [peer EXCEPT !.state = "open"]
          [] OTHER -> [peer EXCEPT !.una = Acked(m),
                                   !.got = IF inOrder THEN @ \o m.data ELSE @,
                                   !.fin = @ \/ (inOrder /\ "FIN" \in m.flags)]

Carries(m) == m.data # << >> \/ m.flags \cap {"SYN", "FIN"} # {}

PeerReceive ==
    \E i \in DOMAIN toPeer :
        LET m == toPeer[i]
            reset == peer.state = "gone" /\ "RST" \notin m.flags
        IN  /\ i = 1 \/ Overtakes(i)
            /\ faults' = faults + (IF i = 1 THEN 0 ELSE 1)
            /\ toPeer' = Without(toPeer, i)
            /\ peer.state \in {"connecting", "open", "gone"}
            /\ peer' = IF \/ peer.state = "gone"
                          \/ peer.state = "connecting" /\ {"SYN", "RST"} \cap m.flags = {}
                       THEN peer ELSE PeerTakes(m)
            /\ toUs' = ToUs(
                  IF reset THEN <<Segment(m.ack, 0, {"RST"}, << >>)>>
                  ELSE IF peer'.state = "open" /\ Carries(m)
                  THEN <<Segment(PeerSeq(peer'.next), PeerAck', {"ACK"}, << >>)>>
                  ELSE << >>)
            /\ UNCHANGED <<phase, s, owner, lapses>>

---------------------------------------------------------------------------
(* Faults *)

Fault(kind) == kind \in Faults /\ faults < MaxFaults /\ faults' = faults + 1

Lose ==
    /\ Fault("lose")
    /\ \/ \E i \in DOMAIN toUs : toUs' = Without(toUs, i) /\ UNCHANGED toPeer
       \/ \E i \in DOMAIN toPeer : toPeer' = Without(toPeer, i) /\ UNCHANGED toUs
    /\ UNCHANGED <<phase, s, owner, peer, lapses>>

Repeat ==
    /\ Fault("repeat")
    /\ \/ \E i \in DOMAIN toUs : /\ Len(toUs) < MaxToUs
                                /\ toUs' = Append(toUs, toUs[i]) /\ UNCHANGED toPeer
       \/ \E i \in DOMAIN toPeer : /\ Len(toPeer) < MaxToPeer
                                  /\ toPeer' = Append(toPeer, toPeer[i]) /\ UNCHANGED toUs
    /\ UNCHANGED <<phase, s, owner, peer, lapses>>

\* The peer is switched off; started again it resets what it does not know
Die ==
    /\ Fault("die") /\ peer.state # "gone"
    /\ peer' = [peer EXCEPT !.state = "gone"]
    /\ UNCHANGED <<phase, s, owner, toUs, toPeer, lapses>>

IpTask == IpReceive \/ TimerCheck \/ prvTCPStatusAgeCheck \/ CloseQueued
\* What the owner wants to send, and whether it shuts down, is its own affair
OwnerAsks  == (\E n \in 1 .. TxLen : FreeRTOS_send(n)) \/ FreeRTOS_shutdown
\* It reads what has come, and closes a connection that has ended
OwnerReads == (\E n \in 1 .. RxLen : FreeRTOS_recv(n)) \/ FreeRTOS_closesocket
Peer       == PeerConnect \/ PeerSend \/ PeerRepeat \/ PeerReceive

Next == IpTask \/ OwnerAsks \/ OwnerReads \/ Peer \/ Lose \/ Repeat \/ Die

Spec == Init /\ [][Next]_vars

OwnerBusy == Owned /\ (s.rxStream # << >> \/ s.state \in {"CLOSED", "CLOSE_WAIT"})

TimerBusy ==
    phase = "open" /\ toPeer = << >> /\ xTCPSocketCheck(s, TRUE) # Quiet(s)

\* The IP task runs, its timer comes round and a retransmission falls due, the
\* owner reads and closes, and the peer goes on while it lives (weak fairness,
\* with what enables the larger actions written out).  Nobody has to send or to
\* shut down
FairSpec ==
    /\ Spec
    /\ ([]<>~(toUs # << >>) \/ []<><<IpReceive>>_vars)
    /\ ([]<>~(TimerBusy) \/ []<><<TimerDue>>_vars)
    /\ WF_vars(prvTCPStatusAgeCheck \/ CloseQueued)
    /\ ([]<>~(OwnerBusy) \/ []<><<OwnerReads>>_vars)
    /\ WF_vars(PeerConnect) /\ WF_vars(PeerSend)
    /\ WF_vars(PeerRepeat) /\ ([]<>~(toPeer # << >>) \/ []<><<PeerReceive>>_vars)

---------------------------------------------------------------------------
(* Properties *)

SegmentType == [seq : 0 .. SeqMod - 1, ack : 0 .. SeqMod - 1,
                flags : SUBSET {"SYN", "ACK", "FIN", "RST"},
                data : Seq(1 .. TxLen + RxLen)]

\* The types; among them that the streams keep to their sizes and that what is
\* under way is part of the stream
TypeOK ==
    /\ phase \in {"none", "open", "freed"}
    /\ lapses \subseteq {"finFirst", "skipped", "misjudged"}
    /\ s.state \in {States[i] : i \in DOMAIN States} /\ s.bits \subseteq Bits
    /\ {s.rx.cur, s.rx.high, s.rx.fin, s.tx.cur, s.tx.fin, s.next, s.our}
          \subseteq 0 .. SeqMod - 1
    /\ s.segment \in [seq : 0 .. SeqMod - 1, len : 0 .. MSS, outstanding : BOOLEAN]
    /\ s.segment.len <= Len(s.txStream)
    /\ Len(s.txStream) <= TxSpace /\ Len(s.rxStream) <= RxSpace
    /\ Len(toUs) <= MaxToUs /\ Len(toPeer) <= MaxToPeer
    /\ \A net \in {toUs, toPeer} : \A i \in DOMAIN net : net[i] \in SegmentType
    /\ faults \in 0 .. MaxFaults

Stored == owner.read \o s.rxStream
Prefix(bytes) == bytes = Bytes(0, Len(bytes))

\* What each side reads is the beginning of what the other wrote: nothing is
\* missing, repeated or out of order, and the peer sees the end of the connection
\* after the last byte only.  Not claimed of what is read after a bare ACK has
\* ended SYN_RECEIVED too far (line 2354): the bytes before it never come
InOrder ==
    /\ "skipped" \in lapses \/ Prefix(Stored)
    /\ Prefix(peer.got)
    /\ peer.fin => Len(peer.got) = owner.wrote

SentBytes(n) == IF n < RxLen THEN n ELSE RxLen

\* What either side has acknowledged, and the other may forget, is really there:
\* the peer's bytes in the owner's hands or in the stream, until our own FIN goes
\* first or SYN_RECEIVED has ended too far, and ours at the peer, until the wrap of
\* our numbers has made an acknowledgement misjudged (FreeRTOS_TCP_WIN.c:1919)
AckedIsThere ==
    phase = "open" =>
        /\ {"finFirst", "skipped"} \cap lapses # {} \/ Len(Stored) >= SentBytes(peer.una)
        /\ "misjudged" \in lapses \/ owner.wrote - Len(s.txStream) <= Len(peer.got)

Over == phase = "freed" \/ peer.state = "gone" \/ s.state = "CLOSED"

\* A socket that closes by itself once its stream is empty sends its FIN with the
\* last segment; when the network fails them (here: after any fault) neither the
\* data nor the FIN need come again
ClosesItself == "CloseRequested" \in s.bits /\ faults > 0

\* All that the owner has written arrives, and all that the peer has sent is stored
\* for the owner, through losses and full streams, whether or not anybody closes.
\* Given up where the connection is over or one of the lapses has happened that
\* AckedIsThere names, and for a socket that closes by itself
Delivered ==
    /\ []<>(Len(peer.got) = owner.wrote \/ Over \/ ClosesItself
            \/ "misjudged" \in lapses)
    /\ []<>(Len(Stored) = SentBytes(peer.next) \/ Over
            \/ {"finFirst", "skipped"} \cap lapses # {})

\* What must end: a connection its owner has shut down, or whose end has begun, by
\* our FIN, by the peer's accepted one, or by a reset; and one whose peer is gone
\* while something of ours is unanswered: data, or the SYN+ACK of a child nobody
\* owns yet.  (A peer gone while all is quiet is never missed: no keep-alive)
Ending ==
    /\ phase = "open"
    /\ \/ owner.shut
       \/ s.state \in {"FIN_WAIT_1", "LAST_ACK", "CLOSE_WAIT", "CLOSED"}
       \/ /\ peer.state = "gone" /\ toUs = << >>
          /\ s.txStream # << >> \/ s.state = "SYN_RECEIVED"

\* A child that has met unexpected flags before anybody owned it (line 2330)
Ownerless == s.state = "CLOSE_WAIT" /\ "PassQueued" \in s.bits

\* A socket that must end is given back.  Apart are the two the code forgets, one
\* that closes by itself and an ownerless child, and one that a misjudged
\* acknowledgement has made drop data before its FIN: the peer and the socket then
\* answer each other for ever
Closes == Ending ~> (phase = "freed" \/ ClosesItself \/ Ownerless
                     \/ "misjudged" \in lapses)

\* A FIN of the peer is accepted when all it has sent and all it is sent is received
FinIsAccepted == (Owned /\ peer.next > RxLen)
              ~> ("FinAccepted" \in s.bits \/ Over)
=============================================================================
