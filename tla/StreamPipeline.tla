--------------------------- MODULE StreamPipeline ---------------------------
(***************************************************************************)
(* The broadcast supervisor (stream/src/pipeline.rs): one encoder and one  *)
(* pusher per destination, both child processes that may die at any time,  *)
(* restarted after a delay.  A destination is called Live only once its    *)
(* own pusher has reported that its output is open, through a progress     *)
(* file that outlives the process that wrote it.                           *)
(*                                                                         *)
(* A process is its owner and a generation.  Delays and throttles are      *)
(* reduced to whether they have run out when the pipeline is polled (the   *)
(* parties in "late" still wait); the ways a spawn can fail (progress file,*)
(* key file, exec) to one.                                                 *)
(***************************************************************************)
EXTENDS Integers, FiniteSets, Functions

CONSTANTS
    Destinations,       \* destination ids
    MAX_DESTINATIONS,
    MaxFaults,          \* bound: children that die or stop reading
    MaxOps              \* bound: host requests

Encoder == "encoder"
Parties == Destinations \cup {Encoder}

ASSUME PipelineAssumption ==
    /\ MAX_DESTINATIONS \in Nat /\ MaxFaults \in Nat /\ MaxOps \in Nat
    /\ Encoder \notin Destinations

VARIABLES
    started,  \* the host wants to broadcast
    encoder,  \* the encoder: its process, whether a delay runs, whether a failure is kept
    dests,    \* the rows: a pusher's process, its state, whether a delay runs
    host,     \* of each party: children not reaped yet, those still running, those
              \* whose output opened, whose report the progress file holds, spawns so far
    ops,      \* host requests applied
    faults    \* children lost

pipeVars == <<started, encoder, dests, host, ops, faults>>

NewDest == [proc |-> 0, state |-> "Idle", retry |-> FALSE]

PipeInit ==
    /\ started = FALSE
    /\ encoder = [proc |-> 0, retry |-> FALSE, reason |-> FALSE]
    /\ dests = [d \in {} |-> NewDest]
    /\ host = [w \in Parties |-> [procs |-> {}, alive |-> {}, opened |-> {}, report |-> 0, gen |-> 0]]
    /\ ops = 0 /\ faults = 0

Configured == DOMAIN dests

-----------------------------------------------------------------------------
(* ProcessHost of one party.  kill reaps, so a killed child writes nothing *)
(* afterwards; one that was never started is nothing to kill.              *)
Kill(h, proc) == [h EXCEPT !.procs = @ \ {proc}, !.alive = @ \ {proc}]

Spawn(h) ==
    LET proc == h.gen + 1
    IN  [h EXCEPT !.procs = @ \cup {proc}, !.alive = @ \cup {proc}, !.gen = proc]

ClearProgress(h) == [h EXCEPT !.report = 0]

(* A party with its part of the host.                                      *)
With(row, h) == [row |-> row, host |-> h]

EncoderFailed == With([proc |-> 0, retry |-> TRUE, reason |-> TRUE], Kill(host[Encoder], encoder.proc))

PollEncoder(enc, late, bad) ==
    LET h == host[Encoder]
    IN  IF enc.proc # 0
          THEN IF enc.proc \in h.alive THEN With(enc, h) ELSE EncoderFailed
        ELSE IF enc.retry /\ Encoder \in late THEN With(enc, h)
        ELSE IF Encoder \in bad THEN With([proc |-> 0, retry |-> TRUE, reason |-> TRUE], h)
        ELSE With([proc |-> h.gen + 1, retry |-> FALSE, reason |-> FALSE], Spawn(h))

\* Fault: the file is trimmed before it is read.
ReadReportTrimsFirst(row, h) == With(row, ClearProgress(h))

(* A running pusher's report: the first block makes it Live, the rest is   *)
(* trimmed away.                                                           *)
ReadReport(row, h) ==
    IF row.state = "Connecting" /\ h.report # 0 THEN With([row EXCEPT !.state = "Live"], h)
    ELSE IF row.state = "Live" THEN With(row, ClearProgress(h))
    ELSE With(row, h)

SpawnPusher(h, fails) ==
    IF fails THEN With([proc |-> 0, state |-> "Failed", retry |-> TRUE], h)
    ELSE With([proc |-> h.gen + 1, state |-> "Connecting", retry |-> FALSE], Spawn(ClearProgress(h)))

PollDestination(row, h, enc, waits, fails) ==
    IF row.proc # 0
      THEN IF row.proc \in h.alive
             THEN IF waits THEN With(row, h) ELSE ReadReport(row, h)
             ELSE With([proc |-> 0, state |-> "Failed", retry |-> TRUE], Kill(h, row.proc))
    ELSE IF enc.proc = 0 THEN With(IF enc.reason THEN [row EXCEPT !.state = "Failed"] ELSE row, h)
    ELSE IF row.retry /\ waits THEN With(row, h)
    ELSE SpawnPusher(h, fails)

(* Pipeline::poll of some rows, whose pushers have their part of at: the   *)
(* encoder first, then each destination, which reads no other row.         *)
Polled(enc, rows, at, late, bad) ==
    IF started'
      THEN LET up   == PollEncoder(enc, late, bad)
               each == [d \in DOMAIN rows |-> PollDestination(rows[d], at[d], up.row, d \in late, d \in bad)]
           IN  /\ encoder' = up.row
               /\ dests' = [d \in DOMAIN rows |-> each[d].row]
               /\ host' = [w \in Parties |-> IF w = Encoder THEN up.host
                                             ELSE IF w \in DOMAIN rows THEN each[w].host ELSE at[w]]
      ELSE encoder' = enc /\ dests' = rows /\ host' = at

-----------------------------------------------------------------------------
(* stop_destination: what it leaves of a destination's pusher.             *)
\* Fault: the pusher is forgotten, not killed.
StopDestinationForgets(d) == ClearProgress(host[d])
StopDestination(d) ==
    ClearProgress(IF dests[d].proc # 0 THEN Kill(host[d], dests[d].proc) ELSE host[d])

(* One more request of the host.                                           *)
Asked == ops < MaxOps /\ ops' = ops + 1 /\ UNCHANGED faults

AddDestination(d, late, bad) ==
    /\ Asked
    /\ d \in Configured \/ Cardinality(Configured) < MAX_DESTINATIONS
    /\ UNCHANGED started
    /\ Polled(encoder,
              [e \in Configured \cup {d} |-> IF e = d THEN NewDest ELSE dests[e]],
              IF d \in Configured THEN [host EXCEPT ![d] = StopDestination(d)] ELSE host, late, bad)

RemoveDestination(d) ==
    /\ Asked
    /\ d \in Configured
    /\ dests' = Restrict(dests, Configured \ {d})
    /\ host' = [host EXCEPT ![d] = StopDestination(d)]
    /\ UNCHANGED <<started, encoder>>

Start(late, bad) ==
    /\ Asked
    /\ started' = TRUE
    /\ Polled([encoder EXCEPT !.retry = FALSE], dests, host, late, bad)

Stop ==
    /\ Asked
    /\ started' = FALSE
    /\ encoder' = [encoder EXCEPT !.proc = 0]
    /\ dests' = [d \in Configured |-> NewDest]
    /\ host' = [w \in Parties |-> IF w \in Configured THEN StopDestination(w)
                                  ELSE IF w = Encoder /\ encoder.proc # 0 THEN Kill(host[w], encoder.proc)
                                  ELSE host[w]]

(* Once a tick while audio flows, once a second otherwise.                 *)
Poll(late, bad) ==
    /\ started
    /\ UNCHANGED <<started, ops, faults>>
    /\ Polled(encoder, dests, host, late, bad)

(* push_tick: a write to the encoder fails, because it is gone or because  *)
(* it stopped reading.                                                     *)
FeedFails ==
    /\ encoder.proc # 0 /\ faults < MaxFaults
    /\ faults' = faults + 1
    /\ encoder' = EncoderFailed.row
    /\ host' = [host EXCEPT ![Encoder] = EncoderFailed.host]
    /\ UNCHANGED <<started, dests, ops>>

-----------------------------------------------------------------------------
(* A child dies.                                                           *)
Dies(w, proc) ==
    /\ proc \in host[w].alive /\ faults < MaxFaults
    /\ faults' = faults + 1
    /\ host' = [host EXCEPT ![w].alive = @ \ {proc}]
    /\ UNCHANGED <<started, encoder, dests, ops>>

(* A pusher's output opens, and it reports so from then on.                *)
Reports(d, proc) ==
    /\ proc \in host[d].alive
    /\ host' = [host EXCEPT ![d].opened = @ \cup {proc}, ![d].report = proc]
    /\ UNCHANGED <<started, encoder, dests, ops, faults>>

PipeNext ==
    \/ \E late, bad \in SUBSET Parties :
         \/ Poll(late, bad) \/ Start(late, bad)
         \/ \E d \in Destinations : AddDestination(d, late, bad)
    \/ \E d \in Destinations : RemoveDestination(d)
    \/ Stop \/ FeedFails
    \/ \E w \in Parties : \E proc \in host[w].procs : Dies(w, proc)
    \/ \E d \in Destinations : \E proc \in host[d].procs : Reports(d, proc)

PipeSpec == PipeInit /\ [][PipeNext]_pipeVars

(* The worker polls on every tick and every heartbeat, delays run out, and *)
(* a pusher left alone reaches its platform.                               *)
PollsOn == Poll({}, {})
ReportsOn(d) == d \in Configured /\ Reports(d, dests[d].proc)
PipeFairness == WF_pipeVars(PollsOn) /\ \A d \in Destinations : WF_pipeVars(ReportsOn(d))

-----------------------------------------------------------------------------
(* The process the pipeline knows of a party, 0 for none.                  *)
Known(w) ==
    IF w = Encoder THEN encoder.proc ELSE IF w \in Configured THEN dests[w].proc ELSE 0

(* The children that run are exactly the encoder and the pushers the       *)
(* pipeline knows, each row with a pusher says Connecting or Live, Live is *)
(* never said of a pusher that has not reached its platform, not even      *)
(* right after another of the same destination did, and a stopped          *)
(* broadcast leaves nothing running.                                       *)
RowsMatchChildren ==
    /\ \A w \in Parties : host[w].procs = {Known(w)} \ {0}
    /\ \A d \in Configured : dests[d].proc # 0 <=> dests[d].state \in {"Connecting", "Live"}
    /\ \A d \in Configured : dests[d].state = "Live" => dests[d].proc \in host[d].opened
    /\ ~started => \A w \in Parties : host[w].procs = {}

(* A destination of a started broadcast goes Live once failures stop,      *)
(* however the encoder and its pushers failed before.                      *)
GoesLive ==
    \A d \in Destinations :
       (started /\ d \in Configured) ~> (~started \/ d \notin Configured \/ dests[d].state = "Live")
=============================================================================
