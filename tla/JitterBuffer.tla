---------------------------- MODULE JitterBuffer ----------------------------
(***************************************************************************)
(* The adaptive jitter buffer of the media engine (engine/src/jitter.rs):  *)
(* packets are pushed as they arrive, one pull per mix tick decides what   *)
(* is played.  A payload is its sequence number.  The jitter estimate is   *)
(* reduced to what it controls, a target depth that any arrival may move;  *)
(* the statistics counters, which no branch reads, are left out.           *)
(*                                                                         *)
(* The stream first misbehaves in every way a network and a restarting     *)
(* sender can (Push of any packet), then from Settle on it flows: one      *)
(* packet a tick from some position, each at most one tick early or late.  *)
(***************************************************************************)
EXTENDS Integers, FiniteSets, FiniteSetsExt

CONSTANTS
    MIN_TARGET, MAX_TARGET,   \* the range of the target depth
    SHRINK_PATIENCE,          \* ticks over target before a frame is dropped
    RESET_JUMP,               \* a longer jump is a stream restart
    MAX_BUFFERED,             \* depth at which the position is given up
    REANCHOR_PATIENCE,        \* stuck ticks before the position is given up
    MaxFrame,                 \* bound: sequence numbers of the wild stream, and
                              \* with RESET_JUMP how far playout may outrun it
    MaxSteady                 \* bound: ticks observed of the settled stream

ASSUME TargetAssumption == MIN_TARGET \in Nat /\ MAX_TARGET \in Nat /\ 1 <= MIN_TARGET /\ MIN_TARGET <= MAX_TARGET
ASSUME PatienceAssumption == SHRINK_PATIENCE \in Nat \ {0} /\ REANCHOR_PATIENCE \in Nat \ {0}
ASSUME DepthAssumption == MAX_BUFFERED \in Nat \ {0} /\ RESET_JUMP \in Nat
(* What a bounded gap rests on: the deepest target fits under the depth    *)
(* cap with room for an arrival, a skip waits for more than one tick, and  *)
(* the frame after the last one is no restart (24 of 64, 16 and 512).      *)
ASSUME HealAssumption == MAX_TARGET < MAX_BUFFERED /\ SHRINK_PATIENCE >= 2 /\ RESET_JUMP >= 1
ASSUME BoundAssumption == MaxFrame \in Nat /\ MaxSteady \in Nat

Absent == -1              \* Option::None of a sequence number
Frames == 0 .. (MaxFrame + MaxSteady)
Positions == 0 .. (2 * MaxFrame + 2 * MaxSteady + RESET_JUMP + 4)
Results == {"Frame", "Recovered", "Missing", "Waiting"}

VARIABLES
    frames,           \* buffered frames
    redundant,        \* frames a later packet carries a copy of
    nextSeq,          \* playout position
    lastArrival,      \* last packet that arrived
    target,           \* target_frames(), moved by arrivals only
    overTicks, heldLast, dropPending, concealed, droppedSincePull, stuckTicks,
    result,           \* what the last pull returned
    played,           \* highest frame played since the buffer was anchored
    source,           \* next frame of the settled stream, Absent while wild
    flow,             \* settled pushes less settled pulls
    dry               \* settled pulls since one last played a frame

anchor == <<frames, redundant, nextSeq, lastArrival, overTicks, heldLast,
            dropPending, concealed, droppedSincePull, stuckTicks>>
bufferVars == <<anchor, target, result, played, source, flow, dry>>

running == nextSeq # Absent
Plays == {"Frame", "Recovered"}

BufferInit ==
    /\ frames = {} /\ redundant = {} /\ nextSeq = Absent /\ lastArrival = Absent
    /\ target = MIN_TARGET
    /\ overTicks = 0 /\ heldLast = FALSE /\ dropPending = FALSE
    /\ concealed = Absent /\ droppedSincePull = FALSE /\ stuckTicks = 0
    /\ result = "Waiting" /\ played = Absent
    /\ source = Absent /\ flow = 0 /\ dry = 0

-----------------------------------------------------------------------------
(* Every field reset() leaves in place, given its new value.               *)
Reset ==
    /\ frames' = {} /\ redundant' = {} /\ nextSeq' = Absent /\ lastArrival' = Absent
    /\ overTicks' = 0 /\ heldLast' = FALSE /\ dropPending' = FALSE
    /\ concealed' = Absent /\ droppedSincePull' = FALSE /\ stuckTicks' = 0

Abs(n) == IF n < 0 THEN -n ELSE n
Anchor == IF running THEN nextSeq ELSE lastArrival
Jumps(s) == Anchor # Absent /\ Abs(s - Anchor) > RESET_JUMP

(* The buffer forgets its position before it takes the packet.             *)
PushRestart(s, red) ==
    /\ frames' = {s}
    /\ redundant' = IF red /\ s > 0 THEN {s - 1} ELSE {}
    /\ nextSeq' = Absent /\ lastArrival' = s
    /\ overTicks' = 0 /\ heldLast' = FALSE /\ dropPending' = FALSE
    /\ concealed' = Absent /\ droppedSincePull' = FALSE /\ stuckTicks' = 0
    /\ played' = Absent

(* The packet the last pull concealed: the position steps back to it.      *)
\* Fault: anything one behind the position is stepped back to.
ResurrectsAnything(s) == s + 1 = nextSeq
Resurrects(s) == concealed = s /\ s + 1 = nextSeq

PushResurrect(s) ==
    /\ concealed' = Absent
    /\ frames' = frames \cup {s}
    /\ nextSeq' = s /\ lastArrival' = s
    /\ UNCHANGED <<redundant, overTicks, heldLast, dropPending, droppedSincePull, stuckTicks, played>>

\* Fault: a late packet starts the stuck count again.
PushLateForgivesStuck(s) ==
    /\ droppedSincePull' = TRUE /\ lastArrival' = s /\ stuckTicks' = 0
    /\ UNCHANGED <<frames, redundant, nextSeq, overTicks, heldLast, dropPending, concealed, played>>
PushLate(s) ==
    /\ droppedSincePull' = TRUE /\ lastArrival' = s
    /\ UNCHANGED <<frames, redundant, nextSeq, overTicks, heldLast, dropPending, concealed, stuckTicks, played>>

KeepRedundant(s, red) ==
    IF red /\ s > 0 /\ (running => s - 1 >= nextSeq) THEN redundant \cup {s - 1} ELSE redundant

PushBuffer(s, red) ==
    IF Cardinality(frames \cup {s}) > MAX_BUFFERED
      THEN Reset /\ played' = Absent
      ELSE /\ frames' = frames \cup {s}
           /\ redundant' = KeepRedundant(s, red)
           /\ lastArrival' = s
           /\ UNCHANGED <<nextSeq, overTicks, heldLast, dropPending, concealed,
                          droppedSincePull, stuckTicks, played>>

push(s, red) ==
    /\ CASE Jumps(s) -> PushRestart(s, red)
         [] ~Jumps(s) /\ running /\ s < nextSeq /\ Resurrects(s) -> PushResurrect(s)
         [] ~Jumps(s) /\ running /\ s < nextSeq /\ ~Resurrects(s) -> PushLate(s)
         [] OTHER -> PushBuffer(s, red)
    /\ target' \in MIN_TARGET .. MAX_TARGET
    /\ UNCHANGED result

-----------------------------------------------------------------------------
(* The position this pull starts from: a buffer that is not running is     *)
(* anchored on its oldest frame once it is deep enough.                    *)
Fills == frames # {} /\ Cardinality(frames) >= target
Start == IF running THEN nextSeq ELSE Min(frames)

(* Growth: the target rose above the depth, so one tick is concealed       *)
(* without consuming anything, never two in a row.                         *)
Holds == Cardinality(frames) < target /\ Start \in frames /\ ~heldLast

(* Shrink: a surplus that lasted skips one frame.                          *)
Shrinks == dropPending /\ Start \in frames
Slot == IF Shrinks THEN Start + 1 ELSE Start

Outcome == IF Slot \in frames THEN "Frame" ELSE IF Slot \in redundant THEN "Recovered" ELSE "Missing"
Stuck == Outcome = "Missing" /\ droppedSincePull

PullWaiting ==
    /\ ~running /\ ~Fills
    /\ result' = "Waiting"
    /\ UNCHANGED <<anchor, played>>

PullHold ==
    /\ running \/ Fills
    /\ Holds
    /\ heldLast' = TRUE /\ nextSeq' = Start /\ result' = "Missing"
    /\ UNCHANGED <<frames, redundant, lastArrival, overTicks, dropPending, concealed,
                   droppedSincePull, stuckTicks, played>>

(* The watchdog's decision, and what is left of a position it keeps.       *)
GivesUp == Stuck /\ stuckTicks + 1 >= REANCHOR_PATIENCE
KeepsDropped == Outcome = "Missing" /\ droppedSincePull

PullSlot ==
    /\ running \/ Fills
    /\ ~Holds
    /\ result' = Outcome
    /\ IF GivesUp
         THEN Reset /\ played' = Absent
         ELSE LET left == {f \in frames : f > Slot}
                  over == Cardinality(left) > target + 1
              IN /\ frames' = left
                 /\ redundant' = {f \in redundant : f > Slot}
                 /\ nextSeq' = Slot + 1
                 /\ heldLast' = FALSE
                 /\ concealed' = IF Outcome = "Missing" THEN Slot ELSE Absent
                 /\ overTicks' = IF over /\ overTicks + 1 < SHRINK_PATIENCE THEN overTicks + 1 ELSE 0
                 /\ dropPending' = ((dropPending /\ ~Shrinks) \/ (over /\ overTicks + 1 >= SHRINK_PATIENCE))
                 /\ droppedSincePull' = KeepsDropped
                 /\ stuckTicks' = IF Stuck THEN stuckTicks + 1
                                  ELSE IF Outcome \in Plays THEN 0 ELSE stuckTicks
                 /\ played' = IF Outcome \in Plays THEN Slot ELSE played
                 /\ UNCHANGED lastArrival

pull == (PullWaiting \/ PullHold \/ PullSlot) /\ UNCHANGED target

-----------------------------------------------------------------------------
(* The wild stream.  Frame 0 carries no copy of a frame before it.         *)
Arrive(s, red) ==
    /\ source = Absent
    /\ red => s > 0
    /\ push(s, red)
    /\ UNCHANGED <<source, flow, dry>>

Tick ==
    /\ source = Absent /\ nextSeq <= MaxFrame + RESET_JUMP
    /\ pull
    /\ UNCHANGED <<source, flow, dry>>

(* From here the sender and the network are well behaved.                  *)
Settle(s) ==
    /\ source = Absent
    /\ source' = s
    /\ UNCHANGED <<anchor, target, result, played, flow, dry>>

ArriveInTurn(red) ==
    /\ source \in 0 .. (MaxFrame + MaxSteady - 1) /\ flow < 1
    /\ red => source > 0
    /\ push(source, red)
    /\ source' = source + 1 /\ flow' = flow + 1
    /\ UNCHANGED dry

TickInTurn ==
    /\ source # Absent /\ flow > -1
    /\ pull
    /\ flow' = flow - 1
    /\ dry' = IF result' \in Plays THEN 0 ELSE dry + 1
    /\ UNCHANGED source

BufferNext ==
    \/ \E s \in 0 .. MaxFrame, red \in BOOLEAN : Arrive(s, red)
    \/ Tick
    \/ \E s \in 0 .. MaxFrame : Settle(s)
    \/ \E red \in BOOLEAN : ArriveInTurn(red)
    \/ TickInTurn

BufferSpec == BufferInit /\ [][BufferNext]_bufferVars

-----------------------------------------------------------------------------
BufferTypeOK ==
    /\ frames \subseteq Frames /\ redundant \subseteq Frames
    /\ Cardinality(frames) <= MAX_BUFFERED + 1
    /\ nextSeq \in Positions \cup {Absent}
    /\ lastArrival \in Frames \cup {Absent} /\ target \in MIN_TARGET .. MAX_TARGET
    /\ overTicks \in 0 .. (SHRINK_PATIENCE - 1) /\ stuckTicks \in 0 .. (REANCHOR_PATIENCE - 1)
    /\ heldLast \in BOOLEAN /\ dropPending \in BOOLEAN /\ droppedSincePull \in BOOLEAN
    /\ concealed \in Positions \cup {Absent} /\ result \in Results

(* No frame is played twice and playout never runs backwards: everything   *)
(* the next pulls can play lies behind what was played since the buffer    *)
(* was anchored, although a late packet may step the position back.        *)
NeverPlayedTwice ==
    running => /\ played < nextSeq
               /\ \A f \in frames : f > played
               /\ concealed # Absent => concealed = nextSeq - 1 /\ concealed > played

(* Whatever the stream did before, once it flows the listener hears it     *)
(* again within a bounded number of ticks: the depth cap gives up a        *)
(* position the stream is ahead of, the watchdog one it is behind, then    *)
(* the buffer refills.  The watchdog counts no growth hold, and one may    *)
(* come before each frame a skip throws away in front of a hole, of which  *)
(* it sees no more than SHRINK_PATIENCE allows; the 5 are the holds and    *)
(* skips already due and the tick by which an arrival may lag.             *)
HealTurns == REANCHOR_PATIENCE + REANCHOR_PATIENCE \div SHRINK_PATIENCE + 5
HealBound == Max({MAX_BUFFERED + 1, HealTurns}) + MAX_TARGET
HealsInTime == dry <= HealBound
=============================================================================
