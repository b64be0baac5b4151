------------------------------ MODULE MCMedia ------------------------------
(***************************************************************************)
(* The path of the sound, one part at a time: the replay window a datagram *)
(* passes, the jitter buffer it is played from, the cushion under the      *)
(* device's callback and the device's stream.  The parts share nothing; a  *)
(* behaviour exercises the one it starts with and the others stand still.  *)
(***************************************************************************)
EXTENDS Transport, JitterBuffer, Cushion, AudioStream

VARIABLE part   \* the part under test

transportVars == vars
parts == <<part, transportVars, bufferVars, cushionVars, audioVars>>

MediaInit ==
    /\ part \in {"window", "buffer", "cushion", "device"}
    /\ Init /\ BufferInit /\ CushionInit /\ AudioInit
    /\ part # "cushion" => cushion = Fresh(TRUE) /\ dip = 0

MediaNext ==
    /\ UNCHANGED part
    /\ \/ part = "window" /\ Next /\ UNCHANGED <<bufferVars, cushionVars, audioVars>>
       \/ part = "buffer" /\ BufferNext /\ UNCHANGED <<transportVars, cushionVars, audioVars>>
       \/ part = "cushion" /\ CushionNext /\ UNCHANGED <<transportVars, bufferVars, audioVars>>
       \/ part = "device" /\ AudioNext /\ UNCHANGED <<transportVars, bufferVars, cushionVars>>

(* The engine's step runs on a timer, whatever the device does.            *)
MediaSpec == MediaInit /\ [][MediaNext]_parts /\ WF_audioVars(part = "device" /\ TimePasses)
=============================================================================
