------------------------------ MODULE Cushion ------------------------------
(***************************************************************************)
(* The playout cushion (CushionControl, client/src/live/watch.rs): how     *)
(* deep the client keeps the ring its audio device drains, moved by how    *)
(* close the ring came to empty in each window.  All depths are in one     *)
(* unit, of which CUSHION_STEP is some number.                             *)
(*                                                                         *)
(* The device takes the ring dip units below the depth it is filled to;    *)
(* in a window in which that depth moved the reading may be anything.      *)
(* Each step is one tick of the worker; the windows that the quiet before  *)
(* a step down takes are counted.                                          *)
(***************************************************************************)
EXTENDS Integers, FiniteSetsExt

CONSTANTS
    CUSHION_STEP,     \* what one tick may move the depth by
    Callback,         \* one device callback
    Floor, Ceiling,   \* the bounds of the depth
    CUSHION_QUIET,    \* windows of quiet a frame back costs
    MaxDip            \* bound: how far the device takes the ring down

ASSUME CushionAssumption ==
    /\ CUSHION_STEP \in Nat \ {0} /\ Callback \in Nat \ {0}
    /\ Floor \in Nat /\ Ceiling \in Nat /\ Floor <= Ceiling
    /\ CUSHION_QUIET \in Nat \ {0} /\ MaxDip \in Nat

NoReading == -1     \* no callback ran in the window
NotQuiet == -1      \* Option::None of quiet_since

VARIABLES
    cushion,   \* CushionControl: [target, wanted, auto, catching_up, quiet, out_of_room]
    dip,       \* how far the device takes the ring down now
    steady,    \* history: the depth has not moved in the window now filling
    gave       \* history: a frame was given back on a window of this dip

cushionVars == <<cushion, dip, steady, gave>>

Fresh(auto) == [target |-> Floor, wanted |-> Floor, auto |-> auto, catching_up |-> TRUE,
                quiet |-> NotQuiet, out_of_room |-> FALSE]

CushionInit ==
    /\ \E auto \in BOOLEAN : cushion = Fresh(auto)
    /\ dip \in 0 .. MaxDip
    /\ steady = FALSE /\ gave = FALSE

-----------------------------------------------------------------------------
SkipsWindow(c) == TRUE

(* advance: one frame of the walk to wanted.                               *)
Advanced(c) ==
    IF c.target = c.wanted THEN c
    ELSE [c EXCEPT !.target = IF @ < c.wanted THEN Min({@ + CUSHION_STEP, c.wanted})
                              ELSE Max({@ - CUSHION_STEP, c.wanted}),
                   !.catching_up = SkipsWindow(c)]

(* Nearly dry: less than one callback and one top-up.                      *)
Line == Callback + CUSHION_STEP

(* grow: deep enough that this dip would have cleared the line.            *)
FramesShort(c, low) ==
    LET need == Line + Max({c.target - low, 0})
    IN Max({1, (need - c.target + CUSHION_STEP - 1) \div CUSHION_STEP})

Grown(c, low) ==
    IF ~c.auto \/ c.target >= Ceiling THEN [c EXCEPT !.out_of_room = TRUE]
    ELSE Advanced([c EXCEPT !.wanted = Min({c.target + FramesShort(c, low) * CUSHION_STEP, Ceiling})])

\* Fault: any reading above the line counts towards a frame back.
SparesStepNever(c, low) == TRUE
(* The frame given back must leave the dip above the line.                 *)
SparesStep(c, low) == low >= Line + Min({CUSHION_STEP, c.target - Floor})

GivenBack(c, low) ==
    IF c.target <= Floor \/ ~SparesStep(c, low) THEN [c EXCEPT !.quiet = NotQuiet]
    ELSE IF Max({c.quiet, 0}) < CUSHION_QUIET THEN [c EXCEPT !.quiet = Max({@, 0})]
    ELSE Advanced([c EXCEPT !.wanted = c.target - Min({CUSHION_STEP, c.target - Floor}), !.quiet = 0])

(* observe, on a tick that closes a window with this reading.              *)
Read(c, low, held) ==
    CASE low = NoReading -> [c EXCEPT !.quiet = NotQuiet]
      [] low # NoReading /\ c.catching_up -> [c EXCEPT !.catching_up = FALSE, !.quiet = NotQuiet]
      [] low # NoReading /\ ~c.catching_up /\ low < Line -> Grown([c EXCEPT !.quiet = NotQuiet], low)
      [] low >= Line /\ ~c.catching_up /\ held -> [c EXCEPT !.out_of_room = FALSE, !.quiet = NotQuiet]
      [] low >= Line /\ ~c.catching_up /\ ~held -> GivenBack([c EXCEPT !.out_of_room = FALSE], low)

TimePassed(c) == IF c.quiet = NotQuiet THEN c ELSE [c EXCEPT !.quiet = Min({@ + 1, CUSHION_QUIET})]

Readings == IF steady THEN {Max({0, cushion.target - dip}), NoReading} ELSE {NoReading} \cup 0 .. Ceiling

-----------------------------------------------------------------------------
(* A tick in the middle of a window.                                       *)
Walk ==
    /\ cushion' = Advanced(cushion)
    /\ steady' = (steady /\ cushion'.target = cushion.target)
    /\ UNCHANGED <<dip, gave>>

(* A tick that closes a window; held says a take or a broadcast is on.     *)
CloseWindow(low, held) ==
    /\ low \in Readings
    /\ cushion' = Read(TimePassed(Advanced(cushion)), low, held)
    /\ steady' = (cushion'.target = Advanced(cushion).target)
    /\ gave' = (gave \/ (steady /\ cushion'.target < cushion.target))
    /\ UNCHANGED dip

(* set_auto: freed, or pinned to the floor at once.                        *)
SetAuto ==
    /\ cushion' = [Fresh(~cushion.auto) EXCEPT !.catching_up = TRUE]
    /\ steady' = FALSE /\ gave' = FALSE
    /\ UNCHANGED dip

DipChanges(d) ==
    /\ d # dip
    /\ dip' = d /\ steady' = FALSE /\ gave' = FALSE
    /\ UNCHANGED cushion

CushionNext ==
    \/ Walk
    \/ \E low \in {NoReading} \cup 0 .. Ceiling, held \in BOOLEAN : CloseWindow(low, held)
    \/ SetAuto
    \/ \E d \in 0 .. MaxDip : DipChanges(d)

CushionSpec == CushionInit /\ [][CushionNext]_cushionVars

-----------------------------------------------------------------------------
(* The depth moves gently.  It never rises by more than one frame a tick,  *)
(* and falls by more only when it is pinned or freed: a larger rise is     *)
(* pulled from the jitter buffer at once and runs its position past the    *)
(* sender.  And a frame given back is not taken again while the device     *)
(* behaves the same: the depth settles instead of going up and down.       *)
MovesGently ==
    [][/\ cushion'.target <= cushion.target + CUSHION_STEP
       /\ cushion'.target >= cushion.target - CUSHION_STEP \/ cushion'.auto # cushion.auto
       /\ gave /\ gave' => cushion'.target <= cushion.target]_cushionVars
=============================================================================
