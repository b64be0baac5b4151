---------------------------- MODULE ControlLink ----------------------------
(***************************************************************************)
(* The reliable, ordered control link of crates/protocol/src/control.rs,   *)
(* one ControlLink at each end of a connection, over a network that loses, *)
(* repeats and reorders datagrams.                                         *)
(*                                                                         *)
(* A retransmit timer is abstracted to a choice: any frame already sent    *)
(* may or may not be due at a poll, a frame never sent always is           *)
(* (next_send_ms starts at 0).  The network is the set of datagrams ever   *)
(* sent: one may arrive at any later time, repeatedly, or never.           *)
(***************************************************************************)
EXTENDS Integers, FiniteSets, Sequences

CONSTANTS
    Msg,           \* control messages, told apart only by value
    RECV_WINDOW,   \* frames a receiver holds past recv_next, 32
    ACK_BITS,      \* width of the selective ack bitmap, 32
    MAX_PENDING,   \* queue cap of a sender, 128
    MAX_SENDS,     \* transmissions of a frame before giving up, 36
    MaxSeq         \* bound: frames each end queues, [Peers -> Nat]

Peers == {"client", "server"}

Other(e) == IF e = "client" THEN "server" ELSE "client"

ASSUME LinkAssumption ==
    /\ RECV_WINDOW \in Nat \ {0}
    /\ ACK_BITS \in Nat
    /\ MAX_PENDING \in Nat
    /\ MAX_SENDS \in Nat
    /\ MaxSeq \in [Peers -> Nat]

VARIABLES
    nextSeq,      \* next_seq
    pending,      \* pending: seq -> [msg, sends]; the queue is ascending in seq
    peerAck,      \* peer_ack: base of the window the peer will accept
    recvNext,     \* recv_next
    outOfOrder,   \* out_of_order: seq -> msg
    needAck,      \* need_ack
    dead,         \* dead
    net,          \* net[e]: datagrams e has put on the wire
    sent,         \* history: messages e queued, in order
    delivered     \* history: messages e's core was handed, in order

linkVars == <<nextSeq, pending, peerAck, recvNext, outOfOrder, needAck, dead>>
vars == <<linkVars, net, sent, delivered>>

Empty == [s \in {} |-> {}]

Init ==
    /\ nextSeq = [e \in Peers |-> 0]
    /\ pending = [e \in Peers |-> Empty]
    /\ peerAck = [e \in Peers |-> 0]
    /\ recvNext = [e \in Peers |-> 0]
    /\ outOfOrder = [e \in Peers |-> Empty]
    /\ needAck = [e \in Peers |-> FALSE]
    /\ dead = [e \in Peers |-> FALSE]
    /\ net = [e \in Peers |-> {}]
    /\ sent = [e \in Peers |-> <<>>]
    /\ delivered = [e \in Peers |-> <<>>]

(***************************************************************************)
(* ControlLink::send.  A full queue answers Error::LinkFull and changes    *)
(* nothing, which is the absence of a step here.  Both cores stop using a  *)
(* link once it is dead.                                                   *)
(***************************************************************************)
Send(e, m) ==
    /\ ~dead[e]
    /\ nextSeq[e] < MaxSeq[e]
    /\ Cardinality(DOMAIN pending[e]) < MAX_PENDING
    /\ nextSeq' = [nextSeq EXCEPT ![e] = @ + 1]
    /\ pending' = [pending EXCEPT ![e] =
         [s \in DOMAIN @ \cup {nextSeq[e]} |->
            IF s = nextSeq[e] THEN [msg |-> m, sends |-> 0] ELSE @[s]]]
    /\ sent' = [sent EXCEPT ![e] = Append(@, m)]
    /\ UNCHANGED <<peerAck, recvNext, outOfOrder, needAck, dead, net, delivered>>

(***************************************************************************)
(* ControlLink::poll.  The scan stops at the peer's window; a due frame    *)
(* is sent, or past MAX_SENDS declares the link dead; every datagram       *)
(* carries the same cumulative and selective acks; a bare ack goes out     *)
(* only when one is owed and no frame did.                                 *)
(***************************************************************************)
InSendWindow(e) == {s \in DOMAIN pending[e] : s < peerAck[e] + RECV_WINDOW}

Fresh(e) == {s \in InSendWindow(e) : pending[e][s].sends = 0}

AckBits(e) == {i \in 0 .. (ACK_BITS - 1) : recvNext[e] + 1 + i \in DOMAIN outOfOrder[e]}

Packet(e, frame) == [ack |-> recvNext[e], bits |-> AckBits(e), frame |-> frame]

Poll(e, due) ==
    LET sending == {s \in due : pending[e][s].sends < MAX_SENDS}
        frames  == {{[seq |-> s, msg |-> pending[e][s].msg]} : s \in sending}
        bare    == IF needAck[e] /\ sending = {} THEN {{}} ELSE {}
    IN  /\ ~dead[e]
        /\ due \subseteq InSendWindow(e)
        /\ Fresh(e) \subseteq due
        /\ due # {} \/ needAck[e]
        /\ dead' = [dead EXCEPT ![e] = due # sending]
        /\ pending' = [pending EXCEPT ![e] =
             [s \in DOMAIN @ |->
                IF s \in sending THEN [msg |-> @[s].msg, sends |-> @[s].sends + 1] ELSE @[s]]]
        /\ net' = [net EXCEPT ![e] = @ \cup {Packet(e, f) : f \in frames \cup bare}]
        /\ needAck' = [needAck EXCEPT ![e] = FALSE]
        /\ UNCHANGED <<nextSeq, peerAck, recvNext, outOfOrder, sent, delivered>>

(* Fault: the cumulative ack is read as inclusive.                         *)
AckedInclusive(p, s) ==
    \/ s <= p.ack
    \/ /\ s - p.ack <= ACK_BITS
       /\ s - p.ack - 1 \in p.bits

(***************************************************************************)
(* ControlLink::receive of a datagram of the peer.  Acks first: the send   *)
(* window slides forward only, and what the peer holds is retired.  Then   *)
(* the frame: acked whatever becomes of it, held when it is inside the     *)
(* window and new, and the run now complete is drained in order.           *)
(***************************************************************************)
Acked(p, s) ==
    \/ s < p.ack
    \/ /\ s > p.ack
       /\ s - p.ack <= ACK_BITS
       /\ s - p.ack - 1 \in p.bits

(* Fault: the send window never slides.                                    *)
HandleAckKeepsWindow(e, p) ==
    /\ pending' = [pending EXCEPT ![e] =
         [s \in {t \in DOMAIN @ : ~Acked(p, t)} |-> @[s]]]
    /\ UNCHANGED peerAck

HandleAck(e, p) ==
    /\ peerAck' = [peerAck EXCEPT ![e] = IF p.ack > @ THEN p.ack ELSE @]
    /\ pending' = [pending EXCEPT ![e] =
         [s \in {t \in DOMAIN @ : ~Acked(p, t)} |-> @[s]]]

InRecvWindow(e, seq) == seq >= recvNext[e] /\ seq < recvNext[e] + RECV_WINDOW

Holding(e, f) ==
    [s \in DOMAIN outOfOrder[e] \cup {f.seq} |->
       IF s = f.seq THEN f.msg ELSE outOfOrder[e][s]]

(* Fault: a run is delivered whole and counted as one frame.               *)
DrainCountsOne(e, held) ==
    \E n \in recvNext[e] .. (recvNext[e] + RECV_WINDOW) :
       /\ n \notin DOMAIN held
       /\ \A s \in recvNext[e] .. (n - 1) : s \in DOMAIN held
       /\ recvNext' = [recvNext EXCEPT ![e] = IF n > @ THEN @ + 1 ELSE @]
       /\ outOfOrder' = [outOfOrder EXCEPT ![e] = [s \in {t \in DOMAIN held : t > recvNext[e]} |-> held[s]]]
       /\ delivered' = [delivered EXCEPT ![e] =
            @ \o [i \in 1 .. (n - recvNext[e]) |-> held[recvNext[e] + i - 1]]]

(* The drained run ends at the first sequence number not held.             *)
Drain(e, held) ==
    \E n \in recvNext[e] .. (recvNext[e] + RECV_WINDOW) :
       /\ n \notin DOMAIN held
       /\ \A s \in recvNext[e] .. (n - 1) : s \in DOMAIN held
       /\ recvNext' = [recvNext EXCEPT ![e] = n]
       /\ outOfOrder' = [outOfOrder EXCEPT ![e] = [s \in {t \in DOMAIN held : t >= n} |-> held[s]]]
       /\ delivered' = [delivered EXCEPT ![e] =
            @ \o [i \in 1 .. (n - recvNext[e]) |-> held[recvNext[e] + i - 1]]]

ReceiveFrame(e, p, f) ==
    /\ f \in p.frame
    /\ InRecvWindow(e, f.seq) /\ f.seq \notin DOMAIN outOfOrder[e]
    /\ HandleAck(e, p)
    /\ Drain(e, Holding(e, f))
    /\ needAck' = [needAck EXCEPT ![e] = TRUE]
    /\ UNCHANGED <<nextSeq, dead, net, sent>>

(* A duplicate, or a frame beyond the window: dropped, but still acked.    *)
ReceiveUseless(e, p, f) ==
    /\ f \in p.frame
    /\ ~InRecvWindow(e, f.seq) \/ f.seq \in DOMAIN outOfOrder[e]
    /\ HandleAck(e, p)
    /\ needAck' = [needAck EXCEPT ![e] = TRUE]
    /\ UNCHANGED <<nextSeq, recvNext, outOfOrder, dead, net, sent, delivered>>

ReceiveBareAck(e, p) ==
    /\ p.frame = {}
    /\ HandleAck(e, p)
    /\ UNCHANGED <<nextSeq, recvNext, outOfOrder, needAck, dead, net, sent, delivered>>

Receive(e) ==
    \E p \in net[Other(e)] :
       \/ ReceiveBareAck(e, p)
       \/ \E f \in p.frame : ReceiveFrame(e, p, f) \/ ReceiveUseless(e, p, f)

Next ==
    \E e \in Peers :
       \/ \E m \in Msg : Send(e, m)
       \/ \E due \in SUBSET InSendWindow(e) : Poll(e, due)
       \/ Receive(e)

Spec == Init /\ [][Next]_vars

(***************************************************************************)
(* Both cores poll their link on every tick and a timer that is running    *)
(* expires, so a frame inside the window keeps coming due.  Nothing is     *)
(* assumed of the network.                                                 *)
(***************************************************************************)
PollFrame(e, s) == \E due \in SUBSET InSendWindow(e) : s \in due /\ Poll(e, due)

Fairness == \A e \in Peers : \A s \in 0 .. (MaxSeq[e] - 1) : WF_vars(PollFrame(e, s))

FairSpec == Spec /\ Fairness

-----------------------------------------------------------------------------
Seqs(e) == 0 .. (nextSeq[e] - 1)

Frames == [seq : Nat, msg : Msg]

Packets == [ack : Nat, bits : SUBSET (0 .. (ACK_BITS - 1)), frame : SUBSET Frames]

(* The fields of both links and the datagrams between them have the types  *)
(* control.rs gives them, and the maps are keyed by numbers in use.        *)
TypeOK ==
    /\ nextSeq \in [Peers -> Nat]
    /\ peerAck \in [Peers -> Nat]
    /\ recvNext \in [Peers -> Nat]
    /\ needAck \in [Peers -> BOOLEAN]
    /\ dead \in [Peers -> BOOLEAN]
    /\ sent \in [Peers -> Seq(Msg)]
    /\ delivered \in [Peers -> Seq(Msg)]
    /\ net \in [Peers -> SUBSET Packets]
    /\ DOMAIN pending = Peers /\ DOMAIN outOfOrder = Peers
    /\ \A e \in Peers :
         /\ Len(sent[e]) = nextSeq[e]
         /\ Len(delivered[e]) = recvNext[e]
         /\ DOMAIN pending[e] \subseteq Seqs(e)
         /\ pending[e] \in [DOMAIN pending[e] -> [msg : Msg, sends : Nat]]
         /\ outOfOrder[e] \in [DOMAIN outOfOrder[e] -> Msg]

(* A sender forgets a frame only once the peer has it: whatever old, lost  *)
(* or repeated acks arrived, cumulative or selective, a queued message is  *)
(* still pending or is in the peer's hands (the retain in receive).        *)
RetiredWasReceived ==
    \A e \in Peers : \A s \in Seqs(e) \ DOMAIN pending[e] :
       s < recvNext[Other(e)] \/ s \in DOMAIN outOfOrder[Other(e)]

(* "Sending such a frame only spends one of its MAX_SENDS attempts against *)
(* a closed window": no datagram ever on the wire carries a frame past the *)
(* window of its receiver, so the receiver's buffer stays within it and    *)
(* nothing is dropped for being ahead.                                     *)
WindowRespected ==
    \A e \in Peers :
       /\ \A p \in net[e] : \A f \in p.frame :
            f.seq < recvNext[Other(e)] + RECV_WINDOW
       /\ DOMAIN outOfOrder[e] \subseteq (recvNext[e] + 1) .. (recvNext[e] + RECV_WINDOW - 1)

(* The window cannot close on its owner: while anything is unacknowledged, *)
(* the frame at the base of the send window is still queued, so there is   *)
(* always a frame whose retransmission can reopen it.  A base retired      *)
(* through a selective ack alone would leave every later frame waiting     *)
(* behind a window that never slides, and the link neither dead nor live.  *)
BaseStaysQueued ==
    \A e \in Peers : peerAck[e] < nextSeq[e] => peerAck[e] \in DOMAIN pending[e]

-----------------------------------------------------------------------------
(***************************************************************************)
(* The inductive invariant, one direction at a time: e sends, o receives.  *)
(***************************************************************************)
(* The two windows are ordered, and what o holds was sent and is ahead of  *)
(* what it still waits for.                                                *)
Windows(e, o) ==
    /\ peerAck[e] <= recvNext[o]
    /\ recvNext[o] <= nextSeq[e]
    /\ \A s \in DOMAIN outOfOrder[o] :
         s \in Int /\ recvNext[o] < s /\ s < recvNext[o] + RECV_WINDOW /\ s < nextSeq[e]

(* Every copy of a message, queued, in flight, held or delivered, is the   *)
(* message that was queued under that number.                              *)
Contents(e, o) ==
    /\ \A s \in DOMAIN pending[e] : pending[e][s].msg = sent[e][s + 1]
    /\ \A p \in net[e] : \A f \in p.frame :
         f.seq < nextSeq[e] /\ f.msg = sent[e][f.seq + 1]
    /\ \A s \in DOMAIN outOfOrder[o] : outOfOrder[o][s] = sent[e][s + 1]
    /\ \A i \in 1 .. recvNext[o] : delivered[o][i] = sent[e][i]

(* Frames in flight fit the receiver's window.                             *)
InFlight(e, o) == \A p \in net[e] : \A f \in p.frame : f.seq < recvNext[o] + RECV_WINDOW

(* The acks of o tell the truth: below p.ack, and at p.ack + 1 + i for a   *)
(* set bit i, o has everything; and no number o ever acked selectively is  *)
(* one o ever waited for.                                                  *)
Acks(e, o) ==
    \A p \in net[o] :
       /\ p.ack <= recvNext[o]
       /\ \A i \in p.bits :
            /\ p.ack + 1 + i < recvNext[o] \/ p.ack + 1 + i \in DOMAIN outOfOrder[o]
            /\ p.ack + 1 + i # peerAck[e]
            /\ \A q \in net[o] : p.ack + 1 + i # q.ack

(* A frame left e's queue for one of two reasons only.                     *)
RetireReason(e, o) ==
    \A s \in Seqs(e) \ DOMAIN pending[e] :
       \/ s < peerAck[e]
       \/ \E p \in net[o] : \E i \in p.bits : s = p.ack + 1 + i

Dir(e, o) ==
    Windows(e, o) /\ Contents(e, o) /\ InFlight(e, o) /\ Acks(e, o) /\ RetireReason(e, o)

IInv == TypeOK /\ Dir("client", "server") /\ Dir("server", "client")

-----------------------------------------------------------------------------
(* Both directions behave as the abstract FIFO.                            *)
Fifo == INSTANCE FifoChannel WITH Msg <- Msg, sent <- sent, delivered <- delivered
ImplementsFifo == Fifo!Spec

(* Every message a core queued is delivered to the other core, or the      *)
(* sender's link ends up dead, which both cores act on: no message waits   *)
(* for ever in silence.                                                    *)
DeliveredOrDead ==
    \A e \in Peers : \A s \in 0 .. (MaxSeq[e] - 1) :
       s < nextSeq[e] ~> (s < recvNext[Other(e)] \/ dead[e])
=============================================================================
