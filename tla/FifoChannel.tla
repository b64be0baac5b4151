---------------------------- MODULE FifoChannel ----------------------------
(***************************************************************************)
(* What a ControlLink promises its two cores: each direction is a reliable *)
(* FIFO.  A message queued by one end is handed to the other end at most   *)
(* once, unaltered, and never ahead of one queued before it.               *)
(***************************************************************************)
EXTENDS Integers, Sequences

CONSTANT Msg

Peers == {"client", "server"}

Other(e) == IF e = "client" THEN "server" ELSE "client"

VARIABLES
    sent,       \* sent[e]: what e queued, in order
    delivered   \* delivered[e]: what e was handed, in order

Init ==
    /\ sent = [e \in Peers |-> <<>>]
    /\ delivered = [e \in Peers |-> <<>>]

Send(e, m) ==
    /\ sent' = [sent EXCEPT ![e] = Append(@, m)]
    /\ UNCHANGED delivered

(* One received datagram may fill a gap and release a run of messages.     *)
Deliver(e) ==
    /\ \E n \in (Len(delivered[e]) + 1) .. Len(sent[Other(e)]) :
         delivered' = [delivered EXCEPT ![e] = SubSeq(sent[Other(e)], 1, n)]
    /\ UNCHANGED sent

Next == \E e \in Peers : Deliver(e) \/ \E m \in Msg : Send(e, m)

Spec == Init /\ [][Next]_<<sent, delivered>>
=============================================================================
