----------------------------- MODULE MCSession -----------------------------
(***************************************************************************)
(* Rooms for Session: two musicians, competing for one place in the band,  *)
(* and a single musician whose handshakes are repeated.                    *)
(***************************************************************************)
EXTENDS Session

RoomTokens == {"host", "guest"}
RoomSeats == {0, 1}
RoomSeatOf == [t \in RoomTokens |-> IF t = "host" THEN 0 ELSE 1]
RoomRoleOf == [t \in RoomTokens |-> "musician"]

SoloTokens == {"host"}
SoloSeats == {0}
SoloSeatOf == [t \in SoloTokens |-> 0]
SoloRoleOf == [t \in SoloTokens |-> "musician"]

MCHostSeat == 0
OneEach == [r \in Roles |-> 1]
=============================================================================
