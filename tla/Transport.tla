----------------------------- MODULE Transport -----------------------------
(***************************************************************************)
(* One direction of an established encrypted session: the sender of        *)
(* crates/protocol/src/transport.rs (Session::seal_into) and the receiver  *)
(* (Session::open), whose replay window is crates/protocol/src/replay.rs.  *)
(*                                                                         *)
(* The cipher is abstracted to what the window sees of it: a datagram      *)
(* authenticates exactly when its counter was sealed by the peer, so       *)
(* `sealed' is the set of counters under which a genuine datagram exists.  *)
(* The network may lose, reorder and repeat any of them, and may carry     *)
(* garbage under any counter.                                              *)
(***************************************************************************)
EXTENDS Integers

CONSTANTS
    WINDOW,      \* reorder window, 64 in replay.rs
    MaxCounter   \* bound: highest counter sealed or forged

ASSUME WindowAssumption == WINDOW \in Nat \ {0}
ASSUME MaxCounterAssumption == MaxCounter \in Nat

Counters == 0 .. MaxCounter

VARIABLES
    sendCounter,  \* Session::send_counter of the sender
    sealed,       \* counters a complete datagram was produced for
    any,          \* ReplayWindow::any
    highest,      \* ReplayWindow::highest
    bitmap,       \* ReplayWindow::bitmap as the set of its bit positions
    opened,       \* history: how many times each counter was delivered
    late          \* history: authentic counters refused as out of the window

vars == <<sendCounter, sealed, any, highest, bitmap, opened, late>>

Init ==
    /\ sendCounter = 0
    /\ sealed = {}
    /\ any = FALSE
    /\ highest = 0
    /\ bitmap = {}
    /\ opened = [c \in Counters |-> 0]
    /\ late = {}

(***************************************************************************)
(* seal_into: the counter is taken before the cipher runs and is burned    *)
(* even when the cipher refuses, so no two datagrams share one.            *)
(***************************************************************************)
Seal(ok) ==
    /\ sendCounter \in Counters
    /\ sendCounter' = sendCounter + 1
    /\ sealed' = IF ok THEN sealed \cup {sendCounter} ELSE sealed
    /\ UNCHANGED <<any, highest, bitmap, opened, late>>

(***************************************************************************)
(* ReplayWindow::accept.  Bits are positions behind `highest'; the shift   *)
(* moves every one up and drops those that leave the 64-bit word.          *)
(***************************************************************************)
Shifted(bits, shift) ==
    IF shift >= WINDOW THEN {}
    ELSE {b \in 0 .. (WINDOW - 1) : b - shift \in bits}

(* Fault: the window is one counter too wide.                              *)
AcceptsOneMore(counter) ==
    \/ ~any
    \/ counter > highest
    \/ /\ highest - counter <= WINDOW
       /\ highest - counter \notin bitmap

Accepts(counter) ==
    \/ ~any
    \/ counter > highest
    \/ /\ highest - counter < WINDOW
       /\ highest - counter \notin bitmap

Slide(counter) ==
    /\ any' = TRUE
    /\ IF ~any
       THEN highest' = counter /\ bitmap' = {0}
       ELSE IF counter > highest
            THEN /\ highest' = counter
                 /\ bitmap' = Shifted(bitmap, counter - highest) \cup {0}
            ELSE /\ bitmap' = bitmap \cup {highest - counter}
                 /\ UNCHANGED highest

(***************************************************************************)
(* Session::open on an authentic datagram: delivered once the window       *)
(* accepts its counter, refused as Error::Replay otherwise.                *)
(***************************************************************************)
OpenAccepted(counter) ==
    /\ counter \in sealed
    /\ Accepts(counter)
    /\ Slide(counter)
    /\ opened' = [opened EXCEPT ![counter] = @ + 1]
    /\ UNCHANGED <<sendCounter, sealed, late>>

OpenReplay(counter) ==
    /\ counter \in sealed
    /\ ~Accepts(counter)
    /\ late' = IF opened[counter] = 0 THEN late \cup {counter} ELSE late
    /\ UNCHANGED <<sendCounter, sealed, any, highest, bitmap, opened>>

(* Fault: the window moves before the cipher has spoken.                   *)
OpenForgedSlides(counter) ==
    /\ counter \notin sealed
    /\ Accepts(counter)
    /\ Slide(counter)
    /\ UNCHANGED <<sendCounter, sealed, opened, late>>

(***************************************************************************)
(* Session::open on garbage: read_message fails, Error::Decrypt, before    *)
(* the window is consulted.                                                *)
(***************************************************************************)
OpenForged(counter) ==
    /\ counter \notin sealed
    /\ UNCHANGED vars

Next ==
    \/ \E ok \in BOOLEAN : Seal(ok)
    \/ \E counter \in Counters :
        OpenAccepted(counter) \/ OpenReplay(counter) \/ OpenForged(counter)

Spec == Init /\ [][Next]_vars

-----------------------------------------------------------------------------
(* The type invariant: the window's fields range over what replay.rs can   *)
(* hold, and counters are the ones seal_into hands out.                    *)
TypeOK ==
    /\ sendCounter \in 0 .. (MaxCounter + 1)
    /\ sealed \subseteq Counters
    /\ any \in BOOLEAN
    /\ highest \in Counters
    /\ bitmap \subseteq 0 .. (WINDOW - 1)
    /\ opened \in [Counters -> Nat]
    /\ late \subseteq Counters

(* replay.rs: "each packet at most once".  Whatever the network repeats    *)
(* and however far the window has slid since, no counter is delivered      *)
(* twice.                                                                  *)
AtMostOnce == \A c \in Counters : opened[c] <= 1

(* The window costs an honest stream nothing it could keep: an authentic   *)
(* datagram is refused unseen only when a counter a whole WINDOW newer was *)
(* delivered before it, never because of garbage or of a slide that lost a *)
(* bit.                                                                    *)
RefusedOnlyWhenLate ==
    \A c \in late : \E d \in Counters : opened[d] > 0 /\ d - c >= WINDOW

(* The bitmap is exactly the delivery record of the last WINDOW counters:  *)
(* the shift neither forgets a delivered counter nor invents one.          *)
BitmapIsRecord ==
    any => \A b \in 0 .. (WINDOW - 1) :
             b \in bitmap <=> (b <= highest /\ opened[highest - b] > 0)

-----------------------------------------------------------------------------
(* The inductive invariant behind the three above.                         *)
WindowInv ==
    /\ ~any => \A c \in Counters : opened[c] = 0
    /\ any => opened[highest] > 0
    /\ any => \A c \in Counters : opened[c] > 0 => c <= highest
    /\ BitmapIsRecord
    /\ AtMostOnce
    /\ RefusedOnlyWhenLate

IInv == TypeOK /\ WindowInv
=============================================================================
