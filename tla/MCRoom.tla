------------------------------- MODULE MCRoom -------------------------------
(***************************************************************************)
(* The gate in front of a room, the room, and the link its control         *)
(* messages ride on; a behaviour exercises one and the others stand still. *)
(* The band has one place, which the host and the old invite compete for;  *)
(* seat 1 was minted into a second time, as a listener's, so it changes    *)
(* hands and role.  The client queues more frames than the link's window   *)
(* holds, and the server frames that carry its acks.                       *)
(***************************************************************************)
EXTENDS Members, ControlLink, HandshakeGate

CONSTANTS ClientFrames, ServerFrames

VARIABLE part   \* "gate", "room" or "link"

MCTokens == {"host", "old", "new"}
MCSeats == {0, 1}
MCHostSeat == 0
MCSeatOf == [t \in MCTokens |-> IF t = "host" THEN 0 ELSE 1]
MCRoleOf == [t \in MCTokens |-> IF t = "new" THEN "listener" ELSE "musician"]
MCCap == [r \in Roles |-> 1]
MCMaxSeq == [e \in Peers |-> IF e = "client" THEN ClientFrames ELSE ServerFrames]

RoomAndLinkInit ==
    /\ part \in {"gate", "room", "link"} /\ GateInit /\ RoomInit /\ Init
    /\ part # "gate" => phase = 0 /\ server = "open"

RoomAndLinkNext ==
    /\ UNCHANGED part
    /\ \/ part = "gate" /\ GateNext /\ UNCHANGED <<roomVars, vars>>
       \/ part = "room" /\ RoomNext /\ UNCHANGED <<gateVars, vars>>
       \/ part = "link" /\ Next /\ UNCHANGED <<gateVars, roomVars>>

RoomAndLinkSpec == RoomAndLinkInit /\ [][RoomAndLinkNext]_<<part, gateVars, roomVars, vars>>
=============================================================================
