------------------------------ MODULE MixFeed ------------------------------
(***************************************************************************)
(* The one task of Server::run (server/src/runtime.rs) and the broadcast   *)
(* thread it feeds (stream/src/worker.rs), with the bounded channel        *)
(* between them.  A tick is offered with try_send and becomes owed silence *)
(* when the channel is full; rosters, heartbeats, host requests and the    *)
(* shutdown are sent with send, which waits.                               *)
(*                                                                         *)
(* The thread takes a message when it gets to it: ffmpeg that reads slowly *)
(* is a thread that takes none.  Audio is reduced to how many ticks of it  *)
(* there are, a roster to its epoch.                                       *)
(***************************************************************************)
EXTENDS Integers, Sequences, Tally

CONSTANTS
    FEED_QUEUE,    \* QUEUE_TICKS of worker.rs, 200
    MaxMixed,      \* bound: ticks offered
    MaxEpoch,      \* bound: roster changes
    MaxRequests    \* bound: host requests

ASSUME MixFeedAssumption ==
    FEED_QUEUE \in Nat \ {0} /\ MaxMixed \in Nat /\ MaxEpoch \in Nat /\ MaxRequests \in Nat

VARIABLES
    task,      \* where run() is: "select", "roster", "tick", "beat", "op", "drop", "join", "over"
    sending,   \* the request "op" sends
    channel,   \* messages the thread has not received
    owed,      \* StreamWorker::gap
    flag,      \* StreamWorker::started, as the mix tick reads it
    epoch,     \* the core's roster_epoch
    fedEpoch,  \* Server::stream_roster_epoch
    asks,      \* host requests so far
    thread,    \* the thread: [started, roster, pushed, ran]
    mixed,     \* history: ticks offered to the worker
    mismatch   \* history: a tick was drawn under a roster it was not mixed for

feedVars == <<task, sending, channel, owed, flag, epoch, fedEpoch, asks, thread, mixed, mismatch>>

FeedInit ==
    /\ task = "select" /\ sending = "start"
    /\ channel = <<>> /\ owed = 0 /\ flag = FALSE
    /\ epoch = 0 /\ fedEpoch = 0 /\ asks = 0
    /\ thread = [started |-> FALSE, roster |-> 0, pushed |-> 0, ran |-> FALSE]
    /\ mixed = 0 /\ mismatch = FALSE

Note(k) == [kind |-> k, silence |-> 0, epoch |-> 0]
TickOf(g) == [kind |-> "tick", silence |-> g, epoch |-> epoch]
RosterOf(e) == [kind |-> "roster", silence |-> 0, epoch |-> e]

Full == Len(channel) = FEED_QUEUE

\* SyncSender::send: waits for room.
SendWaits(msg) == ~Full /\ channel' = Append(channel, msg)

-----------------------------------------------------------------------------
(* Members join, leave and change: the core counts roster epochs.          *)
RoomChanges ==
    /\ task = "select" /\ epoch < MaxEpoch
    /\ epoch' = epoch + 1
    /\ UNCHANGED <<task, sending, channel, owed, flag, fedEpoch, asks, thread, mixed, mismatch>>

(* The tick branch up to feed_stream's first send; while the host wants no *)
(* stream nothing is fed.                                                  *)
MixTick ==
    /\ task = "select" /\ flag /\ mixed < MaxMixed
    /\ task' = IF epoch # fedEpoch THEN "roster" ELSE "tick"
    /\ UNCHANGED <<sending, channel, owed, flag, epoch, fedEpoch, asks, thread, mixed, mismatch>>

\* Fault: a roster the full channel refuses is forgotten.
SubmitRosterTries ==
    /\ task = "roster" /\ task' = "tick"
    /\ channel' = IF Full THEN channel ELSE Append(channel, RosterOf(epoch))
    /\ fedEpoch' = epoch
    /\ UNCHANGED <<sending, owed, flag, epoch, asks, thread, mixed, mismatch>>

(* submit_roster, from feed_stream: the mix tick goes on once it is in.    *)
SubmitRoster ==
    /\ task = "roster" /\ task' = "tick"
    /\ SendWaits(RosterOf(epoch))
    /\ fedEpoch' = epoch
    /\ UNCHANGED <<sending, owed, flag, epoch, asks, thread, mixed, mismatch>>

\* Fault: the gap taken for a refused tick is not put back.
OwedAfterForgets == 1
(* A refused tick puts back the gap it carried, and itself.                *)
OwedAfter == owed + 1

SubmitTick ==
    /\ task = "tick" /\ task' = "select"
    /\ mixed' = mixed + 1
    /\ IF Full THEN UNCHANGED channel /\ owed' = OwedAfter
               ELSE channel' = Append(channel, TickOf(owed)) /\ owed' = 0
    /\ UNCHANGED <<sending, flag, epoch, fedEpoch, asks, thread, mismatch>>

(* The heartbeat, and a host request the tick or a datagram produced: each *)
(* goes to the worker with send.                                           *)
Heartbeat ==
    /\ task = "select"
    /\ task' = "beat"
    /\ UNCHANGED <<sending, channel, owed, flag, epoch, fedEpoch, asks, thread, mixed, mismatch>>

beat ==
    /\ task = "beat" /\ task' = "select"
    /\ SendWaits(Note("beat"))
    /\ UNCHANGED <<sending, owed, flag, epoch, fedEpoch, asks, thread, mixed, mismatch>>

route_stream_ctl(op) ==
    /\ task = "select" /\ asks < MaxRequests
    /\ task' = "op" /\ sending' = op /\ asks' = asks + 1
    /\ UNCHANGED <<channel, owed, flag, epoch, fedEpoch, thread, mixed, mismatch>>

apply ==
    /\ task = "op" /\ task' = "select"
    /\ SendWaits(Note(sending))
    /\ UNCHANGED <<sending, owed, flag, epoch, fedEpoch, asks, thread, mixed, mismatch>>

(* run() breaks out of its loop, says goodbye and drops the worker, which  *)
(* sends Shutdown and joins the thread.                                    *)
BreaksOut ==
    /\ task = "select" /\ task' = "drop"
    /\ UNCHANGED <<sending, channel, owed, flag, epoch, fedEpoch, asks, thread, mixed, mismatch>>

\* Fault: the shutdown is offered like a tick, and lost to a full channel.
DropWorkerTries ==
    /\ task = "drop" /\ task' = "join"
    /\ channel' = IF Full THEN channel ELSE Append(channel, Note("shutdown"))
    /\ UNCHANGED <<sending, owed, flag, epoch, fedEpoch, asks, thread, mixed, mismatch>>

DropWorker ==
    /\ task = "drop" /\ task' = "join"
    /\ SendWaits(Note("shutdown"))
    /\ UNCHANGED <<sending, owed, flag, epoch, fedEpoch, asks, thread, mixed, mismatch>>

Join ==
    /\ task = "join" /\ thread.ran /\ task' = "over"
    /\ UNCHANGED <<sending, channel, owed, flag, epoch, fedEpoch, asks, thread, mixed, mismatch>>

-----------------------------------------------------------------------------
(* push_tick for every tick of owed silence, then for the tick itself.     *)
Pushes(msg) == msg.silence + 1

HandleMsg(msg) ==
    /\ thread' =
         CASE msg.kind = "tick" -> [thread EXCEPT !.pushed = @ + Pushes(msg)]
           [] msg.kind = "roster" -> [thread EXCEPT !.roster = msg.epoch]
           [] msg.kind = "start" -> [thread EXCEPT !.started = TRUE]
           [] msg.kind = "stop" -> [thread EXCEPT !.started = FALSE]
           [] msg.kind = "shutdown" -> [thread EXCEPT !.ran = TRUE]
           [] OTHER -> thread
    /\ flag' = CASE msg.kind \in {"start", "stop"} -> thread'.started
                 [] msg.kind = "shutdown" -> FALSE
                 [] OTHER -> flag
    /\ mismatch' = (mismatch \/ (msg.kind = "tick" /\ msg.epoch # thread.roster))

(* One turn of the thread's loop.                                          *)
ThreadTurn ==
    /\ channel # <<>> /\ ~thread.ran
    /\ HandleMsg(Head(channel))
    /\ channel' = Tail(channel)
    /\ UNCHANGED <<task, sending, owed, epoch, fedEpoch, asks, mixed>>

FeedNext ==
    \/ RoomChanges \/ MixTick \/ SubmitRoster \/ SubmitTick
    \/ Heartbeat \/ beat \/ apply
    \/ \E op \in {"start", "stop"} : route_stream_ctl(op)
    \/ BreaksOut \/ DropWorker \/ Join
    \/ ThreadTurn

FeedSpec == FeedInit /\ [][FeedNext]_feedVars

-----------------------------------------------------------------------------
(* worker.rs: "the audio and video clocks stay locked to each other": no   *)
(* tick offered is lost, each is pushed, on its way, or owed as silence.   *)
TicksOf(m) == IF m.kind = "tick" THEN m.silence + 1 ELSE 0
OnTheWay == Total([i \in DOMAIN channel |-> TicksOf(channel[i])])
KeepsTime == mixed = thread.pushed + OnTheWay + owed

(* The levels of a tick are drawn on the cards of the roster they were     *)
(* measured for: a tick never overtakes, and never outlives, its roster.   *)
LevelsMatchRoster == ~mismatch

(* stream/src/worker.rs: "The session's 2.5 ms mix tick cannot wait for    *)
(* anything".                                                              *)
MixTickNeverWaits == ~(task = "roster" /\ Full)

(* A session that ends is not held by its broadcast: the worker is told,   *)
(* joined and gone.                                                        *)
EndsOnceAsked == task = "drop" ~> task = "over"
=============================================================================
