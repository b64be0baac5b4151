--------------------------- MODULE MCControlLink ---------------------------
(* Bounds for ControlLink: the client queues more frames than the window   *)
(* holds, so the window has to slide; the server sends frames that carry   *)
(* the client's acks.                                                      *)
EXTENDS ControlLink

CONSTANTS ClientFrames, ServerFrames

MCMaxSeq == [e \in {"client", "server"} |->
               IF e = "client" THEN ClientFrames ELSE ServerFrames]

=============================================================================
