------------------------------ MODULE Recorder ------------------------------
(***************************************************************************)
(* Session recording (server/src/record.rs): the run loop hands each mix   *)
(* tick to a recorder thread over a bounded channel, the thread writes a   *)
(* take (the mix and one stem per musician heard) to a sink, disk or       *)
(* bucket.  Audio is reduced to how many ticks of it there are; a file is  *)
(* its name, which carries the minute the take was started in.  Any call   *)
(* of the sink may fail.                                                   *)
(***************************************************************************)
EXTENDS Integers, Sequences, FiniteSets, Tally

CONSTANTS
    Musicians,      \* who may be heard in a tick
    QUEUE_TICKS,    \* capacity of the channel
    Uploads,        \* RecordingSink::uploads
    MaxStarts,      \* bound: Record presses
    MaxStops,       \* bound: Stop presses
    MaxTicks,       \* bound: ticks submitted to one take
    MaxMinute       \* bound: wall clock, in minutes

ASSUME QueueAssumption == QUEUE_TICKS \in Nat \ {0} /\ Uploads \in BOOLEAN

NoTake == [open |-> FALSE]
Ops == {"start", "stop", "shutdown"}

VARIABLES
    queue,      \* the channel
    gap,        \* ticks the channel refused since it last took one
    recording,  \* the flag the mix tick reads
    slot,       \* the state the server reports to the room
    state,      \* Recorder::state
    take,       \* Recorder::take
    closing,    \* the thread is inside Recorder::stop
    waiting,    \* the message the run loop is blocked on sending, if any
    exited,     \* the run loop is over
    minute,     \* the wall clock
    shelf,      \* finished mix files: their name and which take each holds
    starts, stops, finished,
    elapsed, repeated   \* ticks since the last Record; it repeated another

worker == <<recording, slot, state, take, closing, shelf, finished>>
ghosts == <<elapsed, repeated>>
recordVars == <<queue, gap, worker, waiting, exited, minute, starts, stops, ghosts>>

RecordInit ==
    /\ queue = <<>> /\ gap = 0 /\ recording = FALSE
    /\ slot = "Idle" /\ state = "Idle" /\ take = NoTake /\ closing = FALSE
    /\ waiting = <<>> /\ exited = FALSE /\ minute = 0 /\ shelf = {}
    /\ starts = 0 /\ stops = 0 /\ finished = 0
    /\ elapsed = 0 /\ repeated = FALSE

-----------------------------------------------------------------------------
(* The run loop.  A control message is sent blocking: with the channel     *)
(* full the loop waits, and no tick is mixed until there is room.          *)
Running == waiting = <<>> /\ ~exited
HasRoom == Len(queue) < QUEUE_TICKS

Send(op) ==
    LET msg == [op |-> op, at |-> minute]
    IN IF HasRoom THEN queue' = Append(queue, msg) /\ UNCHANGED waiting
                  ELSE waiting' = <<msg>> /\ UNCHANGED queue

(* The last the thread was asked, or else what it is at, is a take.        *)
NoOpAfter(q, k) == \A j \in k + 1 .. Len(q) : q[j].op = "tick"
TakeAsked ==
    \/ \E k \in DOMAIN queue : queue[k].op = "start" /\ NoOpAfter(queue, k)
    \/ NoOpAfter(queue, 0) /\ take.open /\ ~closing

\* Fault: what the last take owed is carried into the next one.
StartGapKept == gap
StartGap == 0

PressRecord ==
    /\ Running /\ starts < MaxStarts
    /\ gap' = StartGap
    /\ Send("start")
    /\ starts' = starts + 1
    /\ elapsed' = IF TakeAsked THEN elapsed ELSE 0
    /\ repeated' = TakeAsked
    /\ UNCHANGED <<worker, exited, minute, stops>>

PressStop ==
    /\ Running /\ stops < MaxStops
    /\ Send("stop")
    /\ stops' = stops + 1
    /\ UNCHANGED <<gap, worker, exited, minute, starts, ghosts>>

\* Fault: the worker is dropped without being told.
ExitUnannounced ==
    /\ Running
    /\ exited' = TRUE
    /\ UNCHANGED <<queue, waiting, gap, worker, minute, starts, stops, ghosts>>

(* Dropping the worker: it is asked to shut down, then joined.             *)
Exit ==
    /\ Running
    /\ exited' = TRUE
    /\ Send("shutdown")
    /\ UNCHANGED <<gap, worker, minute, starts, stops, ghosts>>

Resume ==
    /\ waiting # <<>> /\ HasRoom
    /\ queue' = queue \o waiting /\ waiting' = <<>>
    /\ UNCHANGED <<gap, worker, exited, minute, starts, stops, ghosts>>

(* feed_record and submit_tick: never blocks.                              *)
Refused == gap + 1

RecordTick(heard) ==
    /\ Running /\ recording /\ elapsed < MaxTicks
    /\ IF HasRoom
         THEN queue' = Append(queue, [op |-> "tick", gap |-> gap, heard |-> heard]) /\ gap' = 0
         ELSE gap' = Refused /\ UNCHANGED queue
    /\ elapsed' = elapsed + 1
    /\ UNCHANGED <<worker, waiting, exited, minute, starts, stops, repeated>>

Minute ==
    /\ minute < MaxMinute
    /\ minute' = minute + 1
    /\ UNCHANGED <<queue, gap, worker, waiting, exited, starts, stops, ghosts>>

-----------------------------------------------------------------------------
(* The recorder thread.  What it publishes after every message.            *)
Publish ==
    /\ recording' = (state' = "Recording")
    /\ slot' = state'

Serves(op) == ~closing /\ queue # <<>> /\ Head(queue).op = op /\ queue' = Tail(queue)

idle == <<gap, waiting, exited, minute, starts, stops, ghosts>>

WorkStart ==
    /\ Serves("start")
    /\ \/ take.open /\ UNCHANGED <<take, state>>
       \/ /\ ~take.open /\ state' = "Recording"
          /\ take' = [open |-> TRUE, name |-> Head(queue).at, ticks |-> 0, stems |-> <<>>, n |-> starts]
       \/ ~take.open /\ state' = "Failed" /\ UNCHANGED take
    /\ Publish
    /\ UNCHANGED <<closing, shelf, finished, idle>>

(* A stem opened late starts with silence up to where the mix is.          *)
Backfill(t) == t.ticks

Feed(t, heard) ==
    [t EXCEPT !.ticks = @ + 1,
              !.stems = [m \in DOMAIN t.stems \cup heard |->
                           (IF m \in DOMAIN t.stems THEN t.stems[m] ELSE Backfill(t)) + 1]]

Silence(t, n) == [t EXCEPT !.ticks = @ + n, !.stems = [m \in DOMAIN t.stems |-> t.stems[m] + n]]

WorkTick ==
    /\ Serves("tick")
    /\ \/ ~take.open /\ UNCHANGED <<take, state>>
       \/ take.open /\ take' = Feed(Silence(take, Head(queue).gap), Head(queue).heard) /\ UNCHANGED state
       \/ take.open /\ take' = NoTake /\ state' = "Failed"
    /\ Publish
    /\ UNCHANGED <<closing, shelf, finished, idle>>

(* Recorder::stop blocks until every object is finished; what the room is  *)
(* told meanwhile depends on the sink.  The flag stays up until it is done. *)
WorkStop(op) ==
    /\ Serves(op)
    /\ \/ /\ take.open /\ closing' = TRUE
          /\ slot' = IF Uploads /\ op = "stop" THEN "Uploading" ELSE slot
          /\ UNCHANGED <<recording, state, take>>
       \/ ~take.open /\ UNCHANGED <<state, take, closing>> /\ Publish
    /\ UNCHANGED <<shelf, finished, idle>>

(* A finished object takes the name of an earlier one.                     *)
WorkFinish ==
    /\ closing /\ closing' = FALSE
    /\ take' = NoTake
    /\ \/ /\ state' = "Idle"
          /\ shelf' = {f \in shelf : f.name # take.name} \cup {[name |-> take.name, n |-> take.n]}
          /\ finished' = finished + 1
       \/ state' = "Failed" /\ UNCHANGED <<shelf, finished>>
    /\ Publish
    /\ UNCHANGED <<queue, idle>>

ThreadTakes == WorkStart \/ WorkTick \/ WorkStop("stop") \/ WorkStop("shutdown") \/ WorkFinish

RecordNext ==
    \/ PressRecord \/ PressStop \/ Exit \/ Resume \/ Minute
    \/ \E heard \in SUBSET Musicians : RecordTick(heard)
    \/ ThreadTakes

RecordSpec == RecordInit /\ [][RecordNext]_recordVars

(* The recorder thread runs while it has something to do, and a sink       *)
(* answers every call sooner or later.                                     *)
ThreadRuns == WF_recordVars(ThreadTakes) /\ WF_recordVars(Resume)

-----------------------------------------------------------------------------
Worth(m) == IF m.op = "tick" THEN m.gap + 1 ELSE 0
QueuedTicks(q) == Total([i \in DOMAIN q |-> Worth(q[i])])
Pending(op) == \E i \in DOMAIN queue : queue[i].op = op

(* While a take runs, what it holds, what is queued for it and what it is  *)
(* still owed add up to the ticks mixed since Record was pressed: ticks    *)
(* the channel refused come back as silence, so the recording keeps true   *)
(* time.  A Record pressed again during a take forfeits what was owed.     *)
(* And every stem is as long as the mix, whenever its musician came in and *)
(* whatever the channel refused.                                           *)
StemsAligned == take.open => \A m \in DOMAIN take.stems : take.stems[m] = take.ticks
KeepsTrueTime ==
    /\ (take.open /\ ~closing /\ ~repeated /\ ~Pending("start") /\ ~Pending("stop") /\ Running)
         => take.ticks + QueuedTicks(queue) + gap = elapsed
    /\ StemsAligned

(* A server that exits finishes the take it was recording.                 *)
ExitFinishesTake == exited ~> (~take.open /\ queue = <<>> /\ waiting = <<>>)

(* Each Record to Stop is one take: as many mixes are kept as takes were   *)
(* finished.                                                               *)
EachRecordToStopIsOneTake == Cardinality(shelf) = finished
=============================================================================
