------------------------- MODULE ControlLinkProofs -------------------------
(***************************************************************************)
(* The control link never forgets a message the peer lacks, never outruns  *)
(* the peer's window, never closes its own window for good, and implements *)
(* the abstract FIFO, for every window, queue and give-up limit.           *)
(***************************************************************************)
EXTENDS ControlLink, SequenceTheorems, TLAPS

(* The two ends of a connection.                                           *)
LEMMA OtherFacts ==
    \A e \in Peers : Other(e) \in Peers /\ Other(Other(e)) = e /\ Other(e) # e
BY DEF Peers, Other

(* An interval from 1 fixes its length.                                    *)
LEMMA IntervalLength ==
    ASSUME NEW m \in Nat, NEW n \in Nat, 1 .. m = 1 .. n
    PROVE  m = n
<1>1. m > 0 => m \in 1 .. n
  OBVIOUS
<1>2. n > 0 => n \in 1 .. m
  OBVIOUS
<1> QED BY <1>1, <1>2

(* Concatenation, index by index.                                          *)
LEMMA ConcatIndex ==
    ASSUME NEW S, NEW s \in Seq(S), NEW t \in Seq(S), NEW i \in 1 .. (Len(s) + Len(t))
    PROVE  (s \o t)[i] = IF i <= Len(s) THEN s[i] ELSE t[i - Len(s)]
BY ConcatProperties

(* The invariant speaks of every end as a sender.                          *)
LEMMA BothDirs == IInv <=> TypeOK /\ \A e \in Peers : Dir(e, Other(e))
BY DEF IInv, Peers, Other

LEMMA InitInv == Init => IInv
<1> SUFFICES ASSUME Init PROVE IInv
  OBVIOUS
<1>1. TypeOK
  <2>1. <<>> \in Seq(Msg) /\ Len(<<>>) = 0
    BY EmptySeq
  <2>2. \A e \in Peers : sent[e] = <<>> /\ delivered[e] = <<>>
    BY DEF Init
  <2>3. \A e \in Peers : DOMAIN pending[e] = {} /\ DOMAIN outOfOrder[e] = {}
    BY DEF Init, Empty
  <2>4. \A e \in Peers :
          /\ pending[e] \in [{} -> [msg : Msg, sends : Nat]]
          /\ outOfOrder[e] \in [{} -> Msg]
    BY DEF Init, Empty
  <2>5. needAck \in [Peers -> BOOLEAN] /\ dead \in [Peers -> BOOLEAN]
    BY DEF Init
  <2>6. /\ nextSeq \in [Peers -> Nat] /\ peerAck \in [Peers -> Nat]
        /\ recvNext \in [Peers -> Nat] /\ net \in [Peers -> SUBSET Packets]
        /\ sent \in [Peers -> Seq(Msg)] /\ delivered \in [Peers -> Seq(Msg)]
        /\ DOMAIN pending = Peers /\ DOMAIN outOfOrder = Peers
    BY <2>1 DEF Init
  <2>7. \A e \in Peers : nextSeq[e] = 0 /\ recvNext[e] = 0
    BY DEF Init
  <2> QED BY <2>1, <2>2, <2>3, <2>4, <2>5, <2>6, <2>7 DEF TypeOK
<1>2. ASSUME NEW e \in Peers, NEW o \in Peers PROVE Dir(e, o)
  <2>1. /\ nextSeq[e] = 0 /\ peerAck[e] = 0 /\ recvNext[o] = 0
        /\ net[e] = {} /\ net[o] = {}
        /\ DOMAIN pending[e] = {} /\ DOMAIN outOfOrder[o] = {}
    BY DEF Init, Empty
  <2> QED
    BY <2>1 DEF Dir, Windows, Contents, InFlight, Acks, RetireReason, Seqs
<1> QED BY <1>1, <1>2 DEF IInv, Peers

-----------------------------------------------------------------------------
(* Queueing a message extends the sender's numbers by one; the receiving   *)
(* half of the link, and the other direction, do not move.                 *)
LEMMA SendInv ==
    ASSUME IInv, NEW a \in Peers, NEW m \in Msg, Send(a, m)
    PROVE  IInv'
<1> DEFINE o == Other(a)
<1> USE LinkAssumption
<1>0. o \in Peers /\ o # a /\ Other(o) = a /\ TypeOK /\ Dir(a, o) /\ Dir(o, a)
  BY OtherFacts, BothDirs
<1> HIDE DEF o
<1>1. /\ nextSeq' = [nextSeq EXCEPT ![a] = nextSeq[a] + 1]
      /\ nextSeq'[a] = nextSeq[a] + 1 /\ nextSeq'[o] = nextSeq[o]
      /\ nextSeq[a] \in Nat
  BY <1>0 DEF Send, TypeOK
<1>2. /\ DOMAIN pending' = Peers
      /\ pending'[o] = pending[o]
      /\ DOMAIN pending'[a] = DOMAIN pending[a] \cup {nextSeq[a]}
      /\ \A s \in DOMAIN pending[a] : s # nextSeq[a]
      /\ \A s \in DOMAIN pending[a] : pending'[a][s] = pending[a][s]
      /\ pending'[a][nextSeq[a]] = [msg |-> m, sends |-> 0]
      /\ pending'[a] = [s \in DOMAIN pending'[a] |-> pending'[a][s]]
  BY SMTT(30), <1>0 DEF Send, TypeOK, Seqs
<1>3. /\ sent' \in [Peers -> Seq(Msg)]
      /\ sent'[o] = sent[o]
      /\ Len(sent'[a]) = nextSeq[a] + 1
      /\ \A i \in 1 .. nextSeq[a] : sent'[a][i] = sent[a][i]
      /\ sent'[a][nextSeq[a] + 1] = m
  <2>1. /\ sent' = [sent EXCEPT ![a] = Append(sent[a], m)]
        /\ sent'[a] = Append(sent[a], m) /\ sent'[o] = sent[o]
        /\ sent[a] \in Seq(Msg) /\ Len(sent[a]) = nextSeq[a]
    BY <1>0 DEF Send, TypeOK
  <2>2. Append(sent[a], m) \in Seq(Msg)
    BY <2>1, AppendProperties
  <2>3. Len(Append(sent[a], m)) = Len(sent[a]) + 1
    BY <2>1, AppendProperties
  <2>4. \A i \in 1 .. Len(sent[a]) : Append(sent[a], m)[i] = sent[a][i]
    BY <2>1, AppendProperties
  <2>5. Append(sent[a], m)[Len(sent[a]) + 1] = m
    BY <2>1, AppendProperties
  <2>6. sent' \in [Peers -> Seq(Msg)]
    BY <2>1, <2>2, <1>0 DEF TypeOK
  <2> QED BY <2>1, <2>3, <2>4, <2>5, <2>6
<1>4. UNCHANGED <<peerAck, recvNext, outOfOrder, needAck, dead, net, delivered>>
  BY DEF Send
<1>5. TypeOK'
  <2>1. nextSeq' \in [Peers -> Nat]
    BY <1>0, <1>1 DEF TypeOK
  <2>2. DOMAIN pending'[a] \subseteq 0 .. (nextSeq'[a] - 1)
    BY <1>0, <1>1, <1>2 DEF TypeOK, Seqs
  <2>3. pending'[a] \in [DOMAIN pending'[a] -> [msg : Msg, sends : Nat]]
    BY <1>0, <1>2 DEF TypeOK
  <2>4. \A e \in Peers : e = a \/ e = o
    BY <1>0 DEF Peers
  <2>5. ASSUME NEW e \in Peers
        PROVE  /\ Len(sent'[e]) = nextSeq'[e]
               /\ Len(delivered'[e]) = recvNext'[e]
               /\ DOMAIN pending'[e] \subseteq 0 .. (nextSeq'[e] - 1)
               /\ pending'[e] \in [DOMAIN pending'[e] -> [msg : Msg, sends : Nat]]
               /\ outOfOrder'[e] \in [DOMAIN outOfOrder'[e] -> Msg]
    <3>1. CASE e = a
      BY <3>1, <1>0, <1>1, <1>3, <1>4, <2>2, <2>3 DEF TypeOK
    <3>2. CASE e = o
      BY <3>2, <1>0, <1>1, <1>2, <1>3, <1>4 DEF TypeOK, Seqs
    <3> QED BY <3>1, <3>2, <2>4
  <2> QED BY <1>0, <1>2, <1>3, <1>4, <2>1, <2>5 DEF TypeOK, Seqs
<1>6. Dir(o, a)'
  BY <1>0, <1>1, <1>2, <1>3, <1>4
     DEF Dir, Windows, Contents, InFlight, Acks, RetireReason, Seqs
<1>7. Dir(a, o)'
  <2>1. Windows(a, o)'
    BY <1>0, <1>1, <1>4 DEF Dir, Windows, TypeOK
  <2>2. Contents(a, o)'
    <3>1. \A s \in DOMAIN pending'[a] : pending'[a][s].msg = sent'[a][s + 1]
      <4> SUFFICES ASSUME NEW s \in DOMAIN pending'[a]
                   PROVE  pending'[a][s].msg = sent'[a][s + 1]
        OBVIOUS
      <4>1. CASE s \in DOMAIN pending[a]
        <5>1. s + 1 \in 1 .. nextSeq[a]
          BY SMTT(30), <4>1, <1>0, <1>1 DEF TypeOK, Seqs
        <5>2. pending[a][s].msg = sent[a][s + 1]
          BY <4>1, <1>0 DEF Dir, Contents
        <5> QED BY <4>1, <5>1, <5>2, <1>2, <1>3
      <4>2. CASE s = nextSeq[a]
        BY <4>2, <1>2, <1>3
      <4> QED BY <4>1, <4>2, <1>2
    <3>2. \A p \in net[a] : \A f \in p.frame :
            f.seq < nextSeq'[a] /\ f.msg = sent'[a][f.seq + 1]
      <4> SUFFICES ASSUME NEW p \in net[a], NEW f \in p.frame
                   PROVE  f.seq < nextSeq'[a] /\ f.msg = sent'[a][f.seq + 1]
        OBVIOUS
      <4>1. f.seq \in Nat
        BY <1>0 DEF TypeOK, Packets, Frames
      <4>2. f.seq < nextSeq[a] /\ f.msg = sent[a][f.seq + 1]
        BY <1>0 DEF Dir, Contents
      <4>3. f.seq + 1 \in 1 .. nextSeq[a]
        BY <4>1, <4>2, <1>1
      <4> QED BY <4>1, <4>2, <4>3, <1>1, <1>3
    <3>3. \A s \in DOMAIN outOfOrder[o] : outOfOrder[o][s] = sent'[a][s + 1]
      <4> SUFFICES ASSUME NEW s \in DOMAIN outOfOrder[o]
                   PROVE  outOfOrder[o][s] = sent'[a][s + 1]
        OBVIOUS
      <4>1. s + 1 \in 1 .. nextSeq[a]
        BY <1>0, <1>1 DEF Dir, Windows, TypeOK
      <4> QED BY <4>1, <1>0, <1>3 DEF Dir, Contents
    <3>4. \A i \in 1 .. recvNext[o] : delivered[o][i] = sent'[a][i]
      BY <1>0, <1>1, <1>3 DEF Dir, Contents, Windows, TypeOK
    <3> QED BY <1>4, <3>1, <3>2, <3>3, <3>4 DEF Contents
  <2>3. InFlight(a, o)' /\ Acks(a, o)'
    BY <1>0, <1>4 DEF Dir, InFlight, Acks
  <2>4. RetireReason(a, o)'
    <3> SUFFICES ASSUME NEW s \in 0 .. (nextSeq'[a] - 1), s \notin DOMAIN pending'[a]
                 PROVE  \/ s < peerAck[a]
                        \/ \E p \in net[o] : \E i \in p.bits : s = p.ack + 1 + i
      BY <1>4 DEF RetireReason, Seqs
    <3>1. s \in 0 .. (nextSeq[a] - 1) /\ s \notin DOMAIN pending[a]
      BY <1>1, <1>2
    <3> QED BY <3>1, <1>0 DEF Dir, RetireReason, Seqs
  <2> QED BY <2>1, <2>2, <2>3, <2>4 DEF Dir
<1> QED
  <2>1. \A e \in Peers : e = a \/ e = o
    BY <1>0 DEF Peers
  <2> QED BY <1>0, <1>5, <1>6, <1>7, <2>1 DEF IInv, Peers

-----------------------------------------------------------------------------
(* A poll puts frames of its own window and acks of its own state on the   *)
(* wire: the frames respect the peer's window because the base of the send *)
(* window never runs ahead of the peer, and the acks name nothing the      *)
(* poller is still waiting for.                                            *)
LEMMA PollInv ==
    ASSUME IInv, NEW a \in Peers, NEW due \in SUBSET InSendWindow(a), Poll(a, due)
    PROVE  IInv'
<1> DEFINE o == Other(a)
           New == net'[a] \ net[a]
<1> USE LinkAssumption
<1>0. o \in Peers /\ o # a /\ Other(o) = a /\ TypeOK /\ Dir(a, o) /\ Dir(o, a)
  BY OtherFacts, BothDirs
<1> HIDE DEF o, New
<1>1. /\ DOMAIN pending' = Peers
      /\ pending'[o] = pending[o]
      /\ DOMAIN pending'[a] = DOMAIN pending[a]
      /\ \A s \in DOMAIN pending[a] : pending'[a][s].msg = pending[a][s].msg
      /\ pending'[a] \in [DOMAIN pending[a] -> [msg : Msg, sends : Nat]]
  <2> DEFINE sending == {s \in due : pending[a][s].sends < MAX_SENDS}
             sentOnce(r) == [msg |-> r.msg, sends |-> r.sends + 1]
  <2>1. pending' = [pending EXCEPT ![a] = [s \in DOMAIN pending[a] |->
                      IF s \in sending THEN sentOnce(pending[a][s]) ELSE pending[a][s]]]
    BY DEF Poll
  <2>2. \A r \in [msg : Msg, sends : Nat] :
          sentOnce(r) \in [msg : Msg, sends : Nat] /\ sentOnce(r).msg = r.msg
    OBVIOUS
  <2>3. \A s \in DOMAIN pending[a] : pending[a][s] \in [msg : Msg, sends : Nat]
    BY <1>0 DEF TypeOK
  <2> HIDE DEF sending, sentOnce
  <2>4. /\ DOMAIN pending' = Peers /\ pending'[o] = pending[o]
        /\ pending'[a] = [s \in DOMAIN pending[a] |->
             IF s \in sending THEN sentOnce(pending[a][s]) ELSE pending[a][s]]
    BY <2>1, <1>0 DEF TypeOK
  <2> QED BY <2>2, <2>3, <2>4
<1>2. /\ net' \in [Peers -> SUBSET Packets]
      /\ net'[o] = net[o] /\ net'[a] = net[a] \cup New
      /\ \A p \in New :
           /\ p.ack = recvNext[a] /\ p.bits = AckBits(a)
           /\ \A f \in p.frame : \E s \in InSendWindow(a) :
                f.seq = s /\ f.msg = pending[a][s].msg
  <2> DEFINE sending == {s \in due : pending[a][s].sends < MAX_SENDS}
             frames  == {{[seq |-> s, msg |-> pending[a][s].msg]} : s \in sending}
             bare    == IF needAck[a] /\ sending = {} THEN {{}} ELSE {}
             pkts    == {Packet(a, f) : f \in frames \cup bare}
  <2>1. net' = [net EXCEPT ![a] = net[a] \cup pkts]
    BY DEF Poll
  <2>2. ASSUME NEW p \in pkts
        PROVE  /\ p.ack = recvNext[a] /\ p.bits = AckBits(a)
               /\ \A f \in p.frame : \E s \in InSendWindow(a) :
                    f = [seq |-> s, msg |-> pending[a][s].msg]
               /\ p = [ack |-> p.ack, bits |-> p.bits, frame |-> p.frame]
    <3>1. PICK f \in frames \cup bare : p = Packet(a, f)
      OBVIOUS
    <3>2. p.ack = recvNext[a] /\ p.bits = AckBits(a) /\ p.frame = f
      BY <3>1 DEF Packet
    <3>3. \A g \in f : \E s \in InSendWindow(a) : g = [seq |-> s, msg |-> pending[a][s].msg]
      OBVIOUS
    <3> QED BY <3>1, <3>2, <3>3 DEF Packet
  <2>3. ASSUME NEW p \in pkts PROVE p \in Packets
    <3>1. p.ack \in Nat
      BY <2>2, <1>0 DEF TypeOK
    <3>2. p.bits \subseteq 0 .. (ACK_BITS - 1)
      BY <2>2 DEF AckBits
    <3>3. \A s \in InSendWindow(a) : s \in Nat /\ pending[a][s].msg \in Msg
      BY <1>0 DEF InSendWindow, TypeOK, Seqs
    <3>4. p.frame \subseteq Frames
      BY <2>2, <3>3 DEF Frames
    <3> QED BY <2>2, <3>1, <3>2, <3>4 DEF Packets
  <2> HIDE DEF pkts
  <2>4. pkts \subseteq Packets
    BY <2>3
  <2>5. net'[a] = net[a] \cup pkts /\ net'[o] = net[o]
    BY <2>1, <1>0 DEF TypeOK
  <2>6. New \subseteq pkts /\ net'[a] = net[a] \cup New
    BY <2>5 DEF New
  <2>7. net' \in [Peers -> SUBSET Packets]
    BY <2>1, <2>4, <1>0 DEF TypeOK
  <2>8. \A p \in New : \A f \in p.frame : \E s \in InSendWindow(a) :
           f.seq = s /\ f.msg = pending[a][s].msg
    BY <2>2, <2>6
  <2> QED BY <2>2, <2>5, <2>6, <2>7, <2>8
<1>3. UNCHANGED <<nextSeq, peerAck, recvNext, outOfOrder, sent, delivered>>
  BY DEF Poll
<1>4. TypeOK'
  <2>1. needAck' \in [Peers -> BOOLEAN] /\ dead' \in [Peers -> BOOLEAN]
    BY <1>0 DEF Poll, TypeOK
  <2>2. \A e \in Peers : e = a \/ e = o
    BY <1>0 DEF Peers
  <2>3. ASSUME NEW e \in Peers
        PROVE  /\ DOMAIN pending'[e] \subseteq Seqs(e)
               /\ pending'[e] \in [DOMAIN pending'[e] -> [msg : Msg, sends : Nat]]
    BY <1>0, <1>1, <2>2 DEF TypeOK
  <2> QED BY <1>0, <1>1, <1>2, <1>3, <2>1, <2>3 DEF TypeOK, Seqs
<1>5. Dir(a, o)'
  <2>1. Windows(a, o)' /\ Acks(a, o)' /\ RetireReason(a, o)'
    BY <1>0, <1>1, <1>2, <1>3 DEF Dir, Windows, Acks, RetireReason, Seqs
  <2>2. ASSUME NEW p \in New, NEW f \in p.frame
        PROVE  /\ f.seq < nextSeq[a] /\ f.msg = sent[a][f.seq + 1]
               /\ f.seq < recvNext[o] + RECV_WINDOW
    <3>1. PICK s \in InSendWindow(a) : f.seq = s /\ f.msg = pending[a][s].msg
      BY <1>2
    <3>2. s \in DOMAIN pending[a] /\ s < peerAck[a] + RECV_WINDOW
      BY DEF InSendWindow
    <3>3. s \in Nat /\ s < nextSeq[a]
      BY <3>2, <1>0 DEF TypeOK, Seqs
    <3>4. s < recvNext[o] + RECV_WINDOW
      BY <3>2, <3>3, <1>0 DEF Dir, Windows, TypeOK
    <3>5. pending[a][s].msg = sent[a][s + 1]
      BY <3>2, <1>0 DEF Dir, Contents
    <3> QED BY <3>1, <3>3, <3>4, <3>5
  <2>3. InFlight(a, o)'
    BY <1>0, <1>2, <1>3, <2>2 DEF Dir, InFlight
  <2>4. Contents(a, o)'
    BY <1>0, <1>1, <1>2, <1>3, <2>2 DEF Dir, Contents
  <2> QED BY <2>1, <2>3, <2>4 DEF Dir
<1>6. Dir(o, a)'
  <2>1. Windows(o, a)' /\ Contents(o, a)' /\ InFlight(o, a)'
    BY <1>0, <1>1, <1>2, <1>3 DEF Dir, Windows, Contents, InFlight
  <2>2. RetireReason(o, a)'
    BY <1>0, <1>1, <1>2, <1>3 DEF Dir, RetireReason, Seqs
  <2>3. Acks(o, a)'
    <3>1. /\ recvNext[a] \in Nat /\ peerAck[o] \in Nat /\ peerAck[o] <= recvNext[a]
          /\ \A s \in DOMAIN outOfOrder[a] : s \in Int /\ recvNext[a] < s
      BY <1>0 DEF Dir, Windows, TypeOK
    <3>2. \A p \in New : \A i \in p.bits :
            i \in Nat /\ p.ack + 1 + i \in DOMAIN outOfOrder[a] /\ p.ack + 1 + i > recvNext[a]
      BY <1>2, <3>1 DEF AckBits
    <3>3. \A q \in net[a] : q.ack \in Nat /\ q.ack <= recvNext[a]
      BY <1>0 DEF Dir, Acks, TypeOK, Packets
    <3>4. \A p \in net[a] : \A i \in p.bits : p.ack + 1 + i # recvNext[a]
      <4> SUFFICES ASSUME NEW p \in net[a], NEW i \in p.bits PROVE p.ack + 1 + i # recvNext[a]
        OBVIOUS
      <4>1. p.ack + 1 + i < recvNext[a] \/ p.ack + 1 + i \in DOMAIN outOfOrder[a]
        BY <1>0 DEF Dir, Acks
      <4>2. p.ack \in Nat /\ i \in Nat
        BY <1>0 DEF TypeOK, Packets
      <4> QED BY <4>1, <4>2, <3>1
    <3>5. ASSUME NEW p \in net'[a], NEW i \in p.bits
          PROVE  /\ p.ack + 1 + i < recvNext[a] \/ p.ack + 1 + i \in DOMAIN outOfOrder[a]
                 /\ p.ack + 1 + i # peerAck[o]
                 /\ \A q \in net'[a] : p.ack + 1 + i # q.ack
      <4>1. CASE p \in net[a]
        BY <4>1, <1>0, <1>2, <3>4 DEF Dir, Acks
      <4>2. CASE p \in New
        BY <4>2, <1>2, <3>1, <3>2, <3>3
      <4> QED BY <4>1, <4>2, <1>2
    <3>6. \A p \in net'[a] : p.ack <= recvNext[a]
      BY <1>2, <3>1, <3>3
    <3> QED BY <1>3, <3>5, <3>6 DEF Acks
  <2> QED BY <2>1, <2>2, <2>3 DEF Dir
<1> QED
  <2>1. \A e \in Peers : e = a \/ e = o
    BY <1>0 DEF Peers
  <2> QED BY <1>0, <1>4, <1>5, <1>6, <2>1 DEF IInv, Peers

-----------------------------------------------------------------------------
(* The ack half of a receive: every frame it retires is below the          *)
(* cumulative ack or under a set bit, and the base it moves to is a number *)
(* no selective ack has ever named.                                        *)
LEMMA HandleAckDir ==
    ASSUME IInv, NEW a \in Peers, NEW o \in Peers, o = Other(a),
           NEW p \in net[o], HandleAck(a, p),
           UNCHANGED <<nextSeq, net, sent>>,
           recvNext'[o] = recvNext[o], outOfOrder'[o] = outOfOrder[o],
           delivered'[o] = delivered[o]
    PROVE  /\ Dir(a, o)'
           /\ peerAck' \in [Peers -> Nat]
           /\ DOMAIN pending' = Peers
           /\ peerAck'[o] = peerAck[o] /\ pending'[o] = pending[o]
           /\ DOMAIN pending'[a] \subseteq Seqs(a)
           /\ pending'[a] \in [DOMAIN pending'[a] -> [msg : Msg, sends : Nat]]
<1> USE LinkAssumption
<1>0. o # a /\ TypeOK /\ Dir(a, o)
  BY OtherFacts, BothDirs
<1>1. p.ack \in Nat /\ p.bits \subseteq 0 .. (ACK_BITS - 1) /\ p.ack <= recvNext[o]
  BY <1>0 DEF TypeOK, Packets, Dir, Acks
<1>2. /\ peerAck' \in [Peers -> Nat] /\ peerAck'[o] = peerAck[o]
      /\ peerAck'[a] >= peerAck[a] /\ peerAck'[a] >= p.ack
      /\ peerAck'[a] = peerAck[a] \/ peerAck'[a] = p.ack
  BY SMTT(30), <1>0, <1>1 DEF HandleAck, TypeOK
<1>3. /\ DOMAIN pending' = Peers /\ pending'[o] = pending[o]
      /\ DOMAIN pending'[a] = {t \in DOMAIN pending[a] : ~Acked(p, t)}
      /\ \A s \in DOMAIN pending'[a] : pending'[a][s] = pending[a][s]
      /\ pending'[a] \in [DOMAIN pending'[a] -> [msg : Msg, sends : Nat]]
  <2>1. pending' = [pending EXCEPT ![a] =
                     [s \in {t \in DOMAIN pending[a] : ~Acked(p, t)} |-> pending[a][s]]]
    BY DEF HandleAck
  <2>2. \A s \in DOMAIN pending[a] : pending[a][s] \in [msg : Msg, sends : Nat]
    BY <1>0 DEF TypeOK
  <2>3. /\ DOMAIN pending' = Peers /\ pending'[o] = pending[o]
        /\ pending'[a] = [s \in {t \in DOMAIN pending[a] : ~Acked(p, t)} |-> pending[a][s]]
    BY <2>1, <1>0 DEF TypeOK
  <2> QED BY <2>2, <2>3
<1>4. DOMAIN pending'[a] \subseteq Seqs(a)
  BY <1>0, <1>3 DEF TypeOK
<1>5. Windows(a, o)'
  BY <1>0, <1>1, <1>2 DEF Dir, Windows, TypeOK
<1>6. Contents(a, o)' /\ InFlight(a, o)'
  BY <1>0, <1>3 DEF Dir, Contents, InFlight
<1>7. Acks(a, o)'
  BY <1>0, <1>2 DEF Dir, Acks
<1>8. RetireReason(a, o)'
  <2> SUFFICES ASSUME NEW s \in Seqs(a), s \notin DOMAIN pending'[a]
               PROVE  \/ s < peerAck'[a]
                      \/ \E q \in net[o] : \E i \in q.bits : s = q.ack + 1 + i
    BY DEF RetireReason, Seqs
  <2>0. s \in Nat
    BY <1>0 DEF Seqs, TypeOK
  <2>1. CASE s \notin DOMAIN pending[a]
    <3>1. \/ s < peerAck[a]
          \/ \E q \in net[o] : \E i \in q.bits : s = q.ack + 1 + i
      BY <2>1, <1>0 DEF Dir, RetireReason
    <3>2. s < peerAck[a] => s < peerAck'[a]
      BY <2>0, <1>0, <1>2 DEF TypeOK
    <3> QED BY <3>1, <3>2
  <2>2. CASE s < p.ack
    BY <2>0, <2>2, <1>1, <1>2 DEF TypeOK
  <2>3. CASE s > p.ack /\ s - p.ack - 1 \in p.bits
    <3>1. s = p.ack + 1 + (s - p.ack - 1)
      BY <2>0, <1>1
    <3> QED BY <3>1, <2>3
  <2> QED BY <2>1, <2>2, <2>3, <1>3 DEF Acked
<1> QED BY <1>2, <1>3, <1>4, <1>5, <1>6, <1>7, <1>8 DEF Dir

(* A frame that is new and inside the window is handed over with the run   *)
(* it completes: what is delivered is a longer prefix of what was sent.    *)
LEMMA DrainDir ==
    ASSUME IInv, NEW a \in Peers, NEW o \in Peers, o = Other(a),
           NEW p \in net[o], NEW f \in p.frame,
           InRecvWindow(a, f.seq), Drain(a, Holding(a, f)),
           UNCHANGED <<nextSeq, net, sent>>,
           peerAck'[o] = peerAck[o], pending'[o] = pending[o]
    PROVE  /\ Dir(o, a)'
           /\ recvNext' \in [Peers -> Nat] /\ delivered' \in [Peers -> Seq(Msg)]
           /\ DOMAIN outOfOrder' = Peers
           /\ recvNext'[o] = recvNext[o] /\ delivered'[o] = delivered[o]
           /\ outOfOrder'[o] = outOfOrder[o]
           /\ Len(delivered'[a]) = recvNext'[a]
           /\ outOfOrder'[a] \in [DOMAIN outOfOrder'[a] -> Msg]
           /\ recvNext'[a] >= recvNext[a]
<1> DEFINE held == Holding(a, f)
<1> USE LinkAssumption
<1>0. o # a /\ TypeOK /\ Dir(o, a) /\ Other(o) = a
  BY OtherFacts, BothDirs
<1>1. /\ f.seq \in Nat /\ f.msg \in Msg /\ recvNext[a] \in Nat /\ nextSeq[o] \in Nat
      /\ f.seq < nextSeq[o] /\ f.msg = sent[o][f.seq + 1]
      /\ recvNext[a] <= f.seq /\ f.seq < recvNext[a] + RECV_WINDOW
  BY <1>0 DEF TypeOK, Packets, Frames, Dir, Contents, InRecvWindow
<1>2. /\ DOMAIN held = DOMAIN outOfOrder[a] \cup {f.seq}
      /\ \A s \in DOMAIN held :
           /\ s \in Int /\ recvNext[a] <= s
           /\ s < recvNext[a] + RECV_WINDOW /\ s < nextSeq[o]
           /\ held[s] = sent[o][s + 1] /\ held[s] \in Msg
  <2>1. DOMAIN held = DOMAIN outOfOrder[a] \cup {f.seq}
    BY DEF Holding
  <2>2. ASSUME NEW s \in DOMAIN held
        PROVE  /\ s \in Int /\ recvNext[a] <= s
               /\ s < recvNext[a] + RECV_WINDOW /\ s < nextSeq[o]
               /\ held[s] = sent[o][s + 1] /\ held[s] \in Msg
    <3>1. CASE s = f.seq
      BY <3>1, <1>1 DEF Holding
    <3>2. CASE s # f.seq /\ s \in DOMAIN outOfOrder[a]
      <4>1. held[s] = outOfOrder[a][s]
        BY <3>2 DEF Holding
      <4>2. outOfOrder[a][s] \in Msg
        BY <3>2, <1>0 DEF TypeOK
      <4> QED BY <3>2, <4>1, <4>2, <1>0, <1>1 DEF Dir, Windows, Contents
    <3> QED BY <3>1, <3>2, <2>1
  <2> QED BY <2>1, <2>2
<1> HIDE DEF held
<1>3. PICK n \in recvNext[a] .. (recvNext[a] + RECV_WINDOW) :
        /\ n \notin DOMAIN held
        /\ \A s \in recvNext[a] .. (n - 1) : s \in DOMAIN held
        /\ recvNext' = [recvNext EXCEPT ![a] = n]
        /\ outOfOrder' = [outOfOrder EXCEPT ![a] = [s \in {t \in DOMAIN held : t >= n} |-> held[s]]]
        /\ delivered' = [delivered EXCEPT ![a] =
             delivered[a] \o [i \in 1 .. (n - recvNext[a]) |-> held[recvNext[a] + i - 1]]]
  BY DEF Drain, held
<1>4. n \in Nat /\ n >= recvNext[a] /\ n <= nextSeq[o]
  <2>1. n \in Nat /\ n >= recvNext[a]
    BY <1>1
  <2>2. CASE n = recvNext[a]
    <3>1. recvNext[a] <= nextSeq[o]
      BY <1>0 DEF Dir, Windows
    <3> QED BY <2>1, <2>2, <3>1
  <2>3. CASE n > recvNext[a]
    <3>1. n - 1 \in DOMAIN held
      BY <2>1, <2>3, <1>1, <1>3
    <3> QED BY <2>1, <3>1, <1>1, <1>2
  <2>4. n = recvNext[a] \/ n > recvNext[a]
    BY <2>1, <1>1
  <2> QED BY <2>1, <2>2, <2>3, <2>4
<1>5. /\ recvNext'[a] = n /\ recvNext'[o] = recvNext[o] /\ recvNext' \in [Peers -> Nat]
      /\ DOMAIN outOfOrder' = Peers /\ outOfOrder'[o] = outOfOrder[o]
      /\ outOfOrder'[a] = [s \in {t \in DOMAIN held : t >= n} |-> held[s]]
  BY <1>0, <1>3, <1>4 DEF TypeOK
<1>6. /\ DOMAIN outOfOrder'[a] = {t \in DOMAIN held : t >= n}
      /\ \A s \in DOMAIN outOfOrder'[a] : outOfOrder'[a][s] = held[s]
      /\ outOfOrder'[a] \in [DOMAIN outOfOrder'[a] -> Msg]
  BY <1>2, <1>5
<1>7. /\ delivered' \in [Peers -> Seq(Msg)] /\ delivered'[o] = delivered[o]
      /\ Len(delivered'[a]) = n
      /\ \A i \in 1 .. n : delivered'[a][i] = sent[o][i]
  <2> DEFINE k == n - recvNext[a]
             run == [i \in 1 .. k |-> held[recvNext[a] + i - 1]]
  <2>1. k \in Nat /\ \A i \in 1 .. k : recvNext[a] + i - 1 \in recvNext[a] .. (n - 1)
    BY <1>1, <1>4
  <2>2. \A i \in 1 .. k : held[recvNext[a] + i - 1] \in Msg
    BY <2>1, <1>2, <1>3
  <2>3. run \in Seq(Msg) /\ Len(run) = k
    <3>1. run \in [1 .. k -> Msg]
      BY <2>2
    <3>2. run \in Seq(Msg)
      BY ZenonT(30), <3>1, <2>1, SeqDef
    <3>3. DOMAIN run = 1 .. Len(run) /\ Len(run) \in Nat
      BY <3>2, LenProperties
    <3>4. DOMAIN run = 1 .. k
      OBVIOUS
    <3> HIDE DEF run, k
    <3> QED BY <3>2, <3>3, <3>4, <2>1, IntervalLength
  <2>4. delivered[a] \in Seq(Msg) /\ Len(delivered[a]) = recvNext[a]
    BY <1>0 DEF TypeOK
  <2>5. delivered'[a] = delivered[a] \o run /\ delivered'[o] = delivered[o]
    BY <1>0, <1>3 DEF TypeOK
  <2>6. \A i \in 1 .. k : run[i] = sent[o][recvNext[a] + i]
    <3> SUFFICES ASSUME NEW i \in 1 .. k PROVE run[i] = sent[o][recvNext[a] + i]
      OBVIOUS
    <3>1. recvNext[a] + i - 1 \in DOMAIN held
      BY <2>1, <1>3
    <3>2. held[recvNext[a] + i - 1] = sent[o][(recvNext[a] + i - 1) + 1]
      BY <3>1, <1>2
    <3>3. (recvNext[a] + i - 1) + 1 = recvNext[a] + i
      BY <1>1, <2>1
    <3> QED BY <3>2, <3>3
  <2> HIDE DEF run, k
  <2>7. /\ delivered[a] \o run \in Seq(Msg)
        /\ Len(delivered[a] \o run) = recvNext[a] + k
        /\ \A i \in 1 .. (recvNext[a] + k) : (delivered[a] \o run)[i] =
             IF i <= recvNext[a] THEN delivered[a][i] ELSE run[i - recvNext[a]]
    <3>1. /\ delivered[a] \o run \in Seq(Msg)
          /\ Len(delivered[a] \o run) = Len(delivered[a]) + Len(run)
          /\ \A i \in 1 .. (Len(delivered[a]) + Len(run)) : (delivered[a] \o run)[i] =
               IF i <= Len(delivered[a]) THEN delivered[a][i] ELSE run[i - Len(delivered[a])]
      <4>1. delivered[a] \o run \in Seq(Msg)
        BY <2>3, <2>4, ConcatProperties
      <4>2. Len(delivered[a] \o run) = Len(delivered[a]) + Len(run)
        BY ZenonT(30), <2>3, <2>4, ConcatProperties
      <4>3. \A i \in 1 .. (Len(delivered[a]) + Len(run)) : (delivered[a] \o run)[i] =
               IF i <= Len(delivered[a]) THEN delivered[a][i] ELSE run[i - Len(delivered[a])]
        BY SMTT(30), <2>3, <2>4, ConcatIndex
      <4> QED BY <4>1, <4>2, <4>3
    <3> QED BY <3>1, <2>3, <2>4
  <2>8. recvNext[a] + k = n
    BY <1>1, <1>4 DEF k
  <2>9. \A i \in 1 .. n : delivered'[a][i] = sent[o][i]
    <3> SUFFICES ASSUME NEW i \in 1 .. n PROVE delivered'[a][i] = sent[o][i]
      OBVIOUS
    <3>1. CASE i <= recvNext[a]
      <4>1. i \in 1 .. recvNext[a]
        BY <3>1, <1>1
      <4>2. delivered[a][i] = sent[o][i]
        BY <4>1, <1>0 DEF Dir, Contents
      <4> QED BY <3>1, <4>2, <2>5, <2>7, <2>8
    <3>2. CASE ~(i <= recvNext[a])
      <4>1. i - recvNext[a] \in 1 .. k /\ recvNext[a] + (i - recvNext[a]) = i
        BY <3>2, <1>1, <1>4, <2>8 DEF k
      <4>2. run[i - recvNext[a]] = sent[o][i]
        BY <4>1, <2>6
      <4> QED BY <3>2, <4>2, <2>5, <2>7, <2>8
    <3> QED BY <3>1, <3>2
  <2>10. delivered' \in [Peers -> Seq(Msg)]
    BY <2>7, <1>0, <1>3 DEF TypeOK, run, k
  <2> QED BY <2>5, <2>7, <2>8, <2>9, <2>10
<1>8. Windows(o, a)'
  <2>1. peerAck[o] <= n
    BY <1>0, <1>1, <1>4 DEF Dir, Windows, TypeOK
  <2>2. \A s \in DOMAIN outOfOrder'[a] :
          s \in Int /\ n < s /\ s < n + RECV_WINDOW /\ s < nextSeq[o]
    BY <1>1, <1>2, <1>3, <1>4, <1>6
  <2> QED BY <2>1, <2>2, <1>4, <1>5 DEF Windows
<1>9. Contents(o, a)'
  <2>1. \A s \in DOMAIN outOfOrder'[a] : outOfOrder'[a][s] = sent[o][s + 1]
    BY <1>2, <1>6
  <2> QED BY <2>1, <1>0, <1>5, <1>7 DEF Dir, Contents
<1>10. InFlight(o, a)'
  <2> SUFFICES ASSUME NEW q \in net[o], NEW g \in q.frame
               PROVE  g.seq < n + RECV_WINDOW
    BY <1>5 DEF InFlight
  <2>1. g.seq \in Nat /\ g.seq < recvNext[a] + RECV_WINDOW
    BY <1>0 DEF Dir, InFlight, TypeOK, Packets, Frames
  <2> QED BY <2>1, <1>1, <1>4
<1>11. Acks(o, a)'
  <2> SUFFICES ASSUME NEW q \in net[a]
               PROVE  /\ q.ack <= n
                      /\ \A i \in q.bits :
                           /\ q.ack + 1 + i < n \/ q.ack + 1 + i \in DOMAIN outOfOrder'[a]
                           /\ q.ack + 1 + i # peerAck[o]
                           /\ \A r \in net[a] : q.ack + 1 + i # r.ack
    BY <1>5 DEF Acks
  <2>1. q.ack \in Nat /\ q.bits \subseteq 0 .. (ACK_BITS - 1) /\ q.ack <= recvNext[a]
    BY <1>0 DEF Dir, Acks, TypeOK, Packets
  <2>2. ASSUME NEW i \in q.bits
        PROVE  q.ack + 1 + i < n \/ q.ack + 1 + i \in DOMAIN outOfOrder'[a]
    <3>1. q.ack + 1 + i \in Int
      BY <2>1
    <3>2. CASE q.ack + 1 + i < recvNext[a]
      BY <3>1, <3>2, <1>1, <1>4
    <3>3. CASE q.ack + 1 + i \in DOMAIN outOfOrder[a]
      BY <3>1, <3>3, <1>2, <1>4, <1>6
    <3> QED BY <3>2, <3>3, <1>0 DEF Dir, Acks
  <2> QED BY <2>1, <2>2, <1>0, <1>1, <1>4 DEF Dir, Acks
<1>12. RetireReason(o, a)'
  BY <1>0 DEF Dir, RetireReason, Seqs
<1> QED BY <1>4, <1>5, <1>6, <1>7, <1>8, <1>9, <1>10, <1>11, <1>12 DEF Dir

(* A receive is an ack for one direction and a frame for the other.        *)
LEMMA ReceiveInv ==
    ASSUME IInv, NEW a \in Peers, Receive(a)
    PROVE  IInv'
<1> DEFINE o == Other(a)
<1>0. o \in Peers /\ o # a /\ Other(o) = a /\ TypeOK /\ Dir(a, o) /\ Dir(o, a)
  BY OtherFacts, BothDirs
<1> HIDE DEF o
<1>a. o = Other(a)
  BY DEF o
<1>b. \A e \in Peers : e = a \/ e = o
  BY <1>0 DEF Peers
<1>1. PICK p \in net[o] :
        \/ ReceiveBareAck(a, p)
        \/ \E f \in p.frame : ReceiveFrame(a, p, f) \/ ReceiveUseless(a, p, f)
  BY <1>a DEF Receive
<1>2. HandleAck(a, p) /\ UNCHANGED <<nextSeq, net, sent, dead>>
  BY <1>1 DEF ReceiveBareAck, ReceiveFrame, ReceiveUseless
<1>3. needAck' \in [Peers -> BOOLEAN]
  BY <1>0, <1>1 DEF ReceiveBareAck, ReceiveFrame, ReceiveUseless, TypeOK
<1>4. CASE UNCHANGED <<recvNext, outOfOrder, delivered>>
  <2>1. /\ Dir(a, o)'
        /\ peerAck' \in [Peers -> Nat]
        /\ DOMAIN pending' = Peers
        /\ peerAck'[o] = peerAck[o] /\ pending'[o] = pending[o]
        /\ DOMAIN pending'[a] \subseteq Seqs(a)
        /\ pending'[a] \in [DOMAIN pending'[a] -> [msg : Msg, sends : Nat]]
    BY <1>0, <1>a, <1>2, <1>4, HandleAckDir
  <2>2. Dir(o, a)'
    BY <2>1, <1>0, <1>2, <1>4
       DEF Dir, Windows, Contents, InFlight, Acks, RetireReason, Seqs
  <2>3. TypeOK'
    <3>1. ASSUME NEW e \in Peers
          PROVE  /\ DOMAIN pending'[e] \subseteq Seqs(e)
                 /\ pending'[e] \in [DOMAIN pending'[e] -> [msg : Msg, sends : Nat]]
      BY <2>1, <1>0, <1>b DEF TypeOK
    <3> QED BY <2>1, <3>1, <1>0, <1>2, <1>3, <1>4 DEF TypeOK, Seqs
  <2> QED BY <2>1, <2>2, <2>3, <1>0, <1>b DEF IInv, Peers
<1>5. CASE \E f \in p.frame : ReceiveFrame(a, p, f)
  <2>1. PICK f \in p.frame : ReceiveFrame(a, p, f)
    BY <1>5
  <2>2. InRecvWindow(a, f.seq) /\ Drain(a, Holding(a, f))
    BY <2>1 DEF ReceiveFrame
  <2>3. /\ recvNext'[o] = recvNext[o] /\ delivered'[o] = delivered[o]
        /\ outOfOrder'[o] = outOfOrder[o]
    BY <2>2, <1>0 DEF Drain, TypeOK
  <2>4. /\ Dir(a, o)'
        /\ peerAck' \in [Peers -> Nat]
        /\ DOMAIN pending' = Peers
        /\ peerAck'[o] = peerAck[o] /\ pending'[o] = pending[o]
        /\ DOMAIN pending'[a] \subseteq Seqs(a)
        /\ pending'[a] \in [DOMAIN pending'[a] -> [msg : Msg, sends : Nat]]
    BY <1>0, <1>a, <1>2, <2>3, HandleAckDir
  <2>5. /\ Dir(o, a)'
        /\ recvNext' \in [Peers -> Nat] /\ delivered' \in [Peers -> Seq(Msg)]
        /\ DOMAIN outOfOrder' = Peers
        /\ Len(delivered'[a]) = recvNext'[a]
        /\ outOfOrder'[a] \in [DOMAIN outOfOrder'[a] -> Msg]
    BY <1>0, <1>a, <1>2, <2>2, <2>4, DrainDir
  <2>6. TypeOK'
    <3>1. ASSUME NEW e \in Peers
          PROVE  /\ DOMAIN pending'[e] \subseteq Seqs(e)
                 /\ pending'[e] \in [DOMAIN pending'[e] -> [msg : Msg, sends : Nat]]
                 /\ Len(delivered'[e]) = recvNext'[e]
                 /\ outOfOrder'[e] \in [DOMAIN outOfOrder'[e] -> Msg]
      BY <2>3, <2>4, <2>5, <1>0, <1>b DEF TypeOK
    <3> QED BY <2>4, <2>5, <3>1, <1>0, <1>2, <1>3 DEF TypeOK, Seqs
  <2> QED BY <2>4, <2>5, <2>6, <1>0, <1>b DEF IInv, Peers
<1> QED BY <1>1, <1>4, <1>5 DEF ReceiveBareAck, ReceiveUseless

LEMMA NextInv == IInv /\ [Next]_vars => IInv'
<1> SUFFICES ASSUME IInv, [Next]_vars PROVE IInv'
  OBVIOUS
<1>1. CASE UNCHANGED vars
  BY <1>1 DEF vars, linkVars, IInv, TypeOK, Dir, Windows, Contents, InFlight,
              Acks, RetireReason, Seqs
<1>2. CASE Next
  <2>1. PICK a \in Peers : \/ \E m \in Msg : Send(a, m)
                           \/ \E due \in SUBSET InSendWindow(a) : Poll(a, due)
                           \/ Receive(a)
    BY <1>2 DEF Next
  <2>2. CASE \E m \in Msg : Send(a, m)
    BY <2>2, SendInv
  <2>3. CASE \E due \in SUBSET InSendWindow(a) : Poll(a, due)
    BY <2>3, PollInv
  <2>4. CASE Receive(a)
    BY <2>4, ReceiveInv
  <2> QED BY <2>1, <2>2, <2>3, <2>4
<1> QED BY <1>1, <1>2

LEMMA LinkInvariant == Spec => []IInv
BY InitInv, NextInv, PTL DEF Spec

-----------------------------------------------------------------------------
(* Both links keep the types of control.rs, whatever the network does.     *)
THEOREM LinkTypeOK == Spec => []TypeOK
<1>1. IInv => TypeOK
  BY DEF IInv
<1> QED BY <1>1, LinkInvariant, PTL

(* A sender forgets a frame only once the peer has it (the retain in       *)
(* ControlLink::receive), for every window, bitmap width and queue cap.    *)
THEOREM LinkRetiredWasReceived == Spec => []RetiredWasReceived
<1>1. IInv => RetiredWasReceived
  <2> SUFFICES ASSUME IInv, NEW e \in Peers, NEW s \in Seqs(e), s \notin DOMAIN pending[e]
               PROVE  s < recvNext[Other(e)] \/ s \in DOMAIN outOfOrder[Other(e)]
    BY DEF RetiredWasReceived
  <2>1. TypeOK /\ Dir(e, Other(e)) /\ Other(e) \in Peers
    BY BothDirs, OtherFacts
  <2>2. CASE s < peerAck[e]
    BY <2>1, <2>2 DEF Dir, Windows, TypeOK, Seqs
  <2>3. CASE \E p \in net[Other(e)] : \E i \in p.bits : s = p.ack + 1 + i
    BY <2>1, <2>3 DEF Dir, Acks
  <2> QED BY <2>1, <2>2, <2>3 DEF Dir, RetireReason
<1> QED BY <1>1, LinkInvariant, PTL

(* Nothing on the wire is past its receiver's window, so no frame is spent *)
(* against a closed one and the receiver's buffer is bounded by            *)
(* RECV_WINDOW (the send limit in ControlLink::poll).                      *)
THEOREM LinkWindowRespected == Spec => []WindowRespected
<1>1. IInv => WindowRespected
  <2> SUFFICES ASSUME IInv, NEW e \in Peers
               PROVE  /\ InFlight(e, Other(e))
                      /\ DOMAIN outOfOrder[e] \subseteq
                           (recvNext[e] + 1) .. (recvNext[e] + RECV_WINDOW - 1)
    BY DEF WindowRespected, InFlight
  <2>1. /\ TypeOK /\ Other(e) \in Peers /\ Dir(e, Other(e))
        /\ Dir(Other(e), e)
    <3>1. Other(e) \in Peers /\ Other(Other(e)) = e
      BY OtherFacts
    <3>2. Dir(Other(e), Other(Other(e))) /\ Dir(e, Other(e)) /\ TypeOK
      BY <3>1, BothDirs
    <3> QED BY <3>1, <3>2
  <2>2. \A s \in DOMAIN outOfOrder[e] :
          s \in Int /\ recvNext[e] < s /\ s < recvNext[e] + RECV_WINDOW
    BY <2>1 DEF Dir, Windows
  <2> QED BY <2>1, <2>2, LinkAssumption DEF Dir, TypeOK
<1> QED BY <1>1, LinkInvariant, PTL

(* The base of the send window stays queued until the peer moves past it,  *)
(* so an open link always has a frame that can slide the window            *)
(* (ControlLink::poll and ControlLink::receive together).                  *)
THEOREM LinkBaseStaysQueued == Spec => []BaseStaysQueued
<1>1. IInv => BaseStaysQueued
  <2> SUFFICES ASSUME IInv, NEW e \in Peers, peerAck[e] < nextSeq[e],
                      peerAck[e] \notin DOMAIN pending[e]
               PROVE  FALSE
    BY DEF BaseStaysQueued
  <2>1. TypeOK /\ Dir(e, Other(e)) /\ Other(e) \in Peers
    BY BothDirs, OtherFacts
  <2>2. peerAck[e] \in Seqs(e)
    BY <2>1 DEF TypeOK, Seqs
  <2>3. PICK p \in net[Other(e)] : \E i \in p.bits : peerAck[e] = p.ack + 1 + i
    <3>1. ~(peerAck[e] < peerAck[e])
      BY <2>1 DEF TypeOK
    <3> QED BY <3>1, <2>1, <2>2 DEF Dir, RetireReason
  <2> QED BY <2>1, <2>3 DEF Dir, Acks
<1> QED BY <1>1, LinkInvariant, PTL

-----------------------------------------------------------------------------
(* The peers of the abstract channel are the peers of the link.            *)
LEMMA FifoPeers == Fifo!Peers = Peers /\ \A e : Fifo!Other(e) = Other(e)
BY DEF Fifo!Peers, Peers, Fifo!Other, Other

(* What an end was handed is the prefix of the peer's messages up to its   *)
(* recv_next.                                                              *)
Prefix ==
    \A a \in Peers :
       /\ delivered[a] = SubSeq(sent[Other(a)], 1, recvNext[a])
       /\ Len(delivered[a]) = recvNext[a]
       /\ recvNext[a] <= Len(sent[Other(a)])

LEMMA DeliveredIsPrefix == IInv => Prefix
<1> SUFFICES ASSUME IInv, NEW a \in Peers
             PROVE  /\ delivered[a] = SubSeq(sent[Other(a)], 1, recvNext[a])
                    /\ Len(delivered[a]) = recvNext[a]
                    /\ recvNext[a] <= Len(sent[Other(a)])
  BY DEF Prefix
<1> DEFINE o == Other(a)
<1>0. o \in Peers /\ TypeOK /\ Dir(o, a)
  <2>1. o \in Peers /\ Other(o) = a
    BY OtherFacts
  <2> QED BY <2>1, BothDirs
<1> HIDE DEF o
<1>1. /\ recvNext[a] \in Nat /\ Len(sent[o]) = nextSeq[o] /\ nextSeq[o] \in Nat
      /\ recvNext[a] <= nextSeq[o]
      /\ sent[o] \in Seq(Msg) /\ delivered[a] \in Seq(Msg)
      /\ Len(delivered[a]) = recvNext[a]
      /\ \A i \in 1 .. recvNext[a] : delivered[a][i] = sent[o][i]
  BY <1>0 DEF TypeOK, Dir, Windows, Contents
<1>2. \A i \in 1 .. recvNext[a] : sent[o][i] \in Msg
  BY <1>1
<1>3. /\ SubSeq(sent[o], 1, recvNext[a]) \in Seq(Msg)
      /\ Len(SubSeq(sent[o], 1, recvNext[a])) = recvNext[a]
      /\ \A i \in 1 .. recvNext[a] : SubSeq(sent[o], 1, recvNext[a])[i] = sent[o][i]
  BY <1>1, <1>2
<1>4. delivered[a] = SubSeq(sent[o], 1, recvNext[a])
  BY <1>1, <1>3, SeqEqual
<1> QED BY <1>1, <1>4 DEF o

(* Each direction of the link is a reliable FIFO: what a core is handed is *)
(* what the other core queued, each message once and in order, whatever    *)
(* the network loses, repeats and reorders (ControlLink as a whole).       *)
THEOREM LinkImplementsFifo == Spec => ImplementsFifo
<1>0. IInv' => Prefix'
  BY DeliveredIsPrefix, PTL
<1>1. Init => Fifo!Init
  BY FifoPeers DEF Init, Fifo!Init
<1>2. IInv /\ IInv' /\ [Next]_vars => [Fifo!Next]_<<sent, delivered>>
  <2> SUFFICES ASSUME IInv, IInv', Next
               PROVE  Fifo!Next \/ UNCHANGED <<sent, delivered>>
    BY DEF vars
  <2>1. PICK a \in Peers : \/ \E m \in Msg : Send(a, m)
                           \/ \E due \in SUBSET InSendWindow(a) : Poll(a, due)
                           \/ Receive(a)
    BY DEF Next
  <2>2. CASE \E m \in Msg : Send(a, m)
    <3>1. PICK m \in Msg : Send(a, m)
      BY <2>2
    <3>2. Fifo!Send(a, m)
      BY <3>1 DEF Send, Fifo!Send
    <3> QED BY <3>2, FifoPeers DEF Fifo!Next
  <2>3. CASE \E due \in SUBSET InSendWindow(a) : Poll(a, due)
    BY <2>3 DEF Poll
  <2>4. CASE Receive(a)
    <3>1. sent' = sent
      BY <2>4 DEF Receive, ReceiveBareAck, ReceiveFrame, ReceiveUseless
    <3>2. CASE delivered' = delivered
      BY <3>1, <3>2
    <3>3. CASE delivered' # delivered
      <4>1. PICK p \in net[Other(a)] : \E f \in p.frame : ReceiveFrame(a, p, f)
        BY <2>4, <3>3 DEF Receive, ReceiveBareAck, ReceiveUseless
      <4>2. PICK n \in recvNext[a] .. (recvNext[a] + RECV_WINDOW) :
              /\ recvNext' = [recvNext EXCEPT ![a] = n]
              /\ \E d : delivered' = [delivered EXCEPT ![a] = d]
        BY <4>1 DEF ReceiveFrame, Drain
      <4>3. TypeOK /\ recvNext[a] \in Nat /\ recvNext'[a] = n /\ n >= recvNext[a] /\ n \in Nat
        <5>1. TypeOK
          BY DEF IInv
        <5>2. recvNext[a] \in Nat /\ recvNext'[a] = n
          BY <5>1, <4>2 DEF TypeOK
        <5> QED BY <5>1, <5>2, LinkAssumption
      <4>4. delivered' = [delivered EXCEPT ![a] = delivered'[a]]
        BY <4>2, <4>3 DEF TypeOK
      <4>5. /\ delivered'[a] = SubSeq(sent[Other(a)], 1, n)
            /\ n <= Len(sent[Other(a)])
            /\ delivered[a] = SubSeq(sent[Other(a)], 1, recvNext[a])
            /\ Len(delivered[a]) = recvNext[a]
        <5>1. /\ delivered[a] = SubSeq(sent[Other(a)], 1, recvNext[a])
              /\ Len(delivered[a]) = recvNext[a]
          BY DeliveredIsPrefix DEF Prefix
        <5>2. /\ delivered'[a] = SubSeq(sent'[Other(a)], 1, recvNext'[a])
              /\ recvNext'[a] <= Len(sent'[Other(a)])
          BY <1>0 DEF Prefix
        <5> QED BY <5>1, <5>2, <3>1, <4>3
      <4>6. n # recvNext[a]
        BY <3>3, <4>3, <4>4, <4>5 DEF TypeOK
      <4>7. n \in (Len(delivered[a]) + 1) .. Len(sent[Other(a)])
        <5>1. Len(sent[Other(a)]) \in Nat
          BY <4>3, OtherFacts DEF TypeOK
        <5> QED BY <5>1, <4>3, <4>5, <4>6
      <4>8. Fifo!Deliver(a)
        BY <3>1, <4>4, <4>5, <4>7, FifoPeers DEF Fifo!Deliver
      <4> QED BY <4>8, FifoPeers DEF Fifo!Next
    <3> QED BY <3>2, <3>3
  <2> QED BY <2>1, <2>2, <2>3, <2>4
<1> QED BY <1>1, <1>2, LinkInvariant, PTL DEF Spec, Fifo!Spec, ImplementsFifo
=============================================================================
