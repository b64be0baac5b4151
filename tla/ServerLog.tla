----------------------------- MODULE ServerLog -----------------------------
(***************************************************************************)
(* The host's copy of the server's log: a ring any thread of the server    *)
(* writes (session/src/logtail.rs) and feed_server_log empties onto the    *)
(* host's link, on every mix tick, within a budget.  The ring's lock is    *)
(* taken anew for each of dropped, take and clear_dropped, so lines may be *)
(* logged between them.  A line is its number; the host stays connected.   *)
(***************************************************************************)
EXTENDS Integers, Sequences, Tally

CONSTANTS
    LOG_TAIL_LINES,          \* capacity of the ring
    SERVER_LOG_HIGH_WATER,   \* queue depth at which the feed pauses
    SERVER_LOG_BURST,        \* capacity of the budget
    MaxLogged                 \* bound: lines logged

ASSUME LogAssumption ==
    {LOG_TAIL_LINES, SERVER_LOG_HIGH_WATER, SERVER_LOG_BURST} \subseteq Nat \ {0}

VARIABLES
    ring, dropped,   \* the lines held, and how many more it lost
    logged,          \* lines logged so far
    tokens,          \* the budget
    depth,         \* depth of the host's link queue
    step,            \* where feed_server_log is
    seen,            \* the drop count it read
    line,            \* the message it is about to send
    sent             \* the messages the host's link carried

logVars == <<ring, dropped, logged, tokens, depth, step, seen, line, sent>>

Line(n) == [lines |-> 1, no |-> n]
Notice(n) == [lines |-> n, no |-> 0]      \* "[n earlier server log line(s) dropped]"

LogInit ==
    /\ ring = <<>> /\ dropped = 0 /\ logged = 0
    /\ tokens = SERVER_LOG_BURST /\ depth = 0
    /\ step = "idle" /\ seen = 0 /\ line = Line(0) /\ sent = <<>>

-----------------------------------------------------------------------------
(* LogTail::push, by any thread.                                           *)
Log ==
    /\ logged < MaxLogged
    /\ logged' = logged + 1
    /\ IF Len(ring) >= LOG_TAIL_LINES
         THEN ring' = Append(Tail(ring), logged + 1) /\ dropped' = dropped + 1
         ELSE ring' = Append(ring, logged + 1) /\ UNCHANGED dropped
    /\ UNCHANGED <<tokens, depth, step, seen, line, sent>>

Refill ==
    /\ tokens < SERVER_LOG_BURST
    /\ tokens' = tokens + 1
    /\ UNCHANGED <<ring, dropped, logged, depth, step, seen, line, sent>>

(* The host acknowledges a message.                                        *)
Acknowledge ==
    /\ depth > 0
    /\ depth' = depth - 1
    /\ UNCHANGED <<ring, dropped, logged, tokens, step, seen, line, sent>>

-----------------------------------------------------------------------------
(* feed_server_log, one step per lock it takes.                            *)
ReadDropped ==
    /\ step = "idle" /\ depth < SERVER_LOG_HIGH_WATER
    /\ dropped > 0 \/ ring # <<>>
    /\ seen' = dropped
    /\ line' = IF dropped > 0 THEN Notice(dropped) ELSE line
    /\ step' = IF dropped > 0 THEN "budget" ELSE "take"
    /\ UNCHANGED <<ring, dropped, logged, tokens, depth, sent>>

TakeLine ==
    /\ step = "take"
    /\ ring' = Tail(ring) /\ line' = Line(Head(ring))
    /\ step' = "budget"
    /\ UNCHANGED <<dropped, logged, tokens, depth, seen, sent>>

(* The budget refuses: the loop ends with the line in hand.                *)
Refuse ==
    /\ step = "budget" /\ tokens = 0
    /\ step' = "idle" /\ line' = Line(0) /\ seen' = 0
    /\ UNCHANGED <<ring, dropped, logged, tokens, depth, sent>>

Spend ==
    /\ step = "budget" /\ tokens > 0
    /\ tokens' = tokens - 1
    /\ step' = IF seen > 0 THEN "clear" ELSE "send"
    /\ UNCHANGED <<ring, dropped, logged, depth, seen, line, sent>>

\* Fault: the count is reported and kept.
ClearedNot(n) == n
Cleared(n) == 0
ClearDropped ==
    /\ step = "clear"
    /\ dropped' = Cleared(dropped)
    /\ step' = "send"
    /\ UNCHANGED <<ring, logged, tokens, depth, seen, line, sent>>

SendLine ==
    /\ step = "send"
    /\ sent' = Append(sent, line) /\ depth' = depth + 1
    /\ step' = "idle" /\ line' = Line(0) /\ seen' = 0
    /\ UNCHANGED <<ring, dropped, logged, tokens>>

LogNext ==
    \/ Log \/ Refill \/ Acknowledge
    \/ ReadDropped \/ TakeLine \/ Refuse \/ Spend \/ ClearDropped \/ SendLine

LogSpec == LogInit /\ [][LogNext]_logVars

-----------------------------------------------------------------------------
Said == Total([i \in DOMAIN sent |-> sent[i].lines])
LinesSent == {i \in DOMAIN sent : sent[i].no > 0}

(* The host's copy is in order and without repeats, and it never claims    *)
(* more than happened: the lines it shows, the lines it says are missing   *)
(* and those still to be shown or said are no more than were logged.       *)
NothingMadeUp ==
    /\ \A i, j \in LinesSent : j < i => sent[j].no < sent[i].no
    /\ step = "idle" => Said + dropped + Len(ring) <= logged

(* What is lost is counted and said out loud: between two feeds every line *)
(* logged has been shown, is held, or is counted as dropped.               *)
EveryLossIsSaid == step = "idle" => Said + dropped + Len(ring) = logged
=============================================================================
