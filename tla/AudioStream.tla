---------------------------- MODULE AudioStream ----------------------------
(***************************************************************************)
(* The client's audio device and the loop that keeps it open: check_stream,*)
(* attempt_open and reconfigure of client/src/live/mod.rs, ReopenEpisode   *)
(* and EpisodeWatch of watch.rs.  A stream may refuse to open, and an open *)
(* one may die at any time.                                                *)
(*                                                                         *)
(* Time runs in units of REOPEN_INTERVAL.  The worker steps many times in  *)
(* each: a step takes no time or one unit.  Instants are kept as ages, up  *)
(* to the largest one any comparison tells apart.                          *)
(***************************************************************************)
EXTENDS Integers, Sequences, SequencesExt, FiniteSetsExt

CONSTANTS
    REOPEN_BACKOFF_MAX,      \* longest wait between two attempts
    REOPEN_ATTEMPTS_MAX,     \* attempts an episode gets
    STREAM_SETTLED_AFTER,    \* a stream that ran this long has recovered
    CUTTING_OUT_COUNT, CUTTING_OUT_WINDOW,
    MaxPicks                 \* bound: devices picked by the musician

ASSUME AudioAssumption ==
    {REOPEN_BACKOFF_MAX, REOPEN_ATTEMPTS_MAX, STREAM_SETTLED_AFTER, CUTTING_OUT_COUNT,
     CUTTING_OUT_WINDOW} \subseteq Nat \ {0}

NoAge == -1     \* Option::None of an Instant

VARIABLES
    audio,      \* [stream, opened, reopened, attempts, faulted, shown, refused]
    cutting,    \* EpisodeWatch over the stops: [since, built, last, active]
    picks,      \* devices picked
    holes       \* history: ages of the latest stops

audioVars == <<audio, cutting, picks, holes>>

(* start opened the first stream.                                          *)
AudioInit ==
    /\ audio = [stream |-> "open", opened |-> 0, reopened |-> NoAge, attempts |-> 0,
                faulted |-> FALSE, shown |-> "None", refused |-> FALSE]
    /\ cutting = [since |-> NoAge, built |-> 0, last |-> NoAge, active |-> FALSE]
    /\ picks = 0 /\ holes = <<>>

Older(age, dt, most) == IF age = NoAge THEN NoAge ELSE Min({age + dt, most})

Aged(a, dt) ==
    [a EXCEPT !.opened = Older(@, dt, STREAM_SETTLED_AFTER),
              !.reopened = Older(@, dt, REOPEN_BACKOFF_MAX)]

-----------------------------------------------------------------------------
(* ReopenEpisode::backoff: nothing before the first attempt, then doubling. *)
Backoff(a) == IF a.attempts = 0 THEN 0 ELSE Min({2 ^ (a.attempts - 1), REOPEN_BACKOFF_MAX})
Spent(a) == a.attempts >= REOPEN_ATTEMPTS_MAX

(* attempt_open and try_open: the attempt counts, and restarts the wait,   *)
(* whether or not the device opens.                                        *)
AttemptOpen(a, ok) ==
    [a EXCEPT !.reopened = 0, !.attempts = @ + 1,
              !.stream = IF ok THEN "open" ELSE "none",
              !.opened = IF ok THEN 0 ELSE @,
              !.refused = ~ok]

(* reconfigure: a pick is a fresh start.                                   *)
Reconfigured(a, ok) ==
    AttemptOpen([a EXCEPT !.stream = "none", !.opened = NoAge, !.attempts = 0, !.faulted = FALSE],
                ok)

Closed(a) == [a EXCEPT !.stream = "none", !.opened = NoAge, !.faulted = TRUE]

Settled(a) ==
    IF a.opened >= STREAM_SETTLED_AFTER
      THEN [a EXCEPT !.opened = NoAge, !.attempts = 0, !.faulted = FALSE] ELSE a

\* Fault: the wait is measured from the loss, which the next attempt does not move.
WantsOpenOnce(a) == a.stream = "none" /\ ~Spent(a) /\ a.attempts = 0
WantsOpen(a) == a.stream = "none" /\ ~Spent(a) /\ (a.reopened = NoAge \/ a.reopened >= Backoff(a))

(* audio_fault.                                                            *)
AudioFault(a) ==
    IF a.stream # "none" THEN "None"
    ELSE IF Spent(a) THEN "GaveUp"
    ELSE IF a.faulted THEN "Retrying" ELSE "None"

(* check_stream.                                                           *)
Checked(a, ok) ==
    LET b == Settled(IF a.stream = "dead" THEN Closed(a) ELSE a)
        c == IF WantsOpen(b) THEN AttemptOpen(b, ok) ELSE b
    IN [c EXCEPT !.shown = AudioFault(c)]

-----------------------------------------------------------------------------
(* EpisodeWatch::observe, as publish_cutting_out calls it with the number  *)
(* of stops so far; fresh says one was added.                              *)
\* Fault: a step without a stop forgets the stops before it.
StaleWindowAtOnce(v) == [v EXCEPT !.since = NoAge, !.built = 0]
StaleWindow(v) == IF v.since > CUTTING_OUT_WINDOW THEN [v EXCEPT !.since = NoAge, !.built = 0] ELSE v

FreshStop(v) ==
    IF v.built + 1 >= CUTTING_OUT_COUNT
      THEN [since |-> NoAge, built |-> 0, last |-> 0, active |-> TRUE]
      ELSE [since |-> Max({v.since, 0}), built |-> v.built + 1, last |-> 0, active |-> FALSE]

Observed(w, dt, fresh) ==
    LET v == [w EXCEPT !.since = Older(@, dt, CUTTING_OUT_WINDOW + 1),
                       !.last = IF fresh THEN 0 ELSE Older(@, dt, CUTTING_OUT_WINDOW)]
    IN CASE v.active -> [v EXCEPT !.active = v.last < CUTTING_OUT_WINDOW]
         [] ~v.active /\ fresh -> FreshStop(v)
         [] ~v.active /\ ~fresh -> StaleWindow(v)

-----------------------------------------------------------------------------
Dense == 2 * CUTTING_OUT_COUNT - 1

(* publish_cutting_out, and the history it is judged by.                   *)
Publish(dt, stopped) ==
    /\ cutting' = Observed(cutting, dt, stopped)
    /\ holes' = LET older == [i \in DOMAIN holes |-> Min({holes[i] + dt, CUTTING_OUT_WINDOW + 1})]
                IN IF stopped THEN SubSeq(<<0>> \o older, 1, Min({Dense, Len(holes) + 1})) ELSE older

(* One Worker::step, dt units after the last; ok says whether the device   *)
(* opens if it is asked to.                                                *)
Step(dt, ok) ==
    /\ audio' = Checked(Aged(audio, dt), ok)
    /\ Publish(dt, audio.stream = "dead")
    /\ UNCHANGED picks

(* A step that finds a new pick first.                                     *)
Pick(ok) ==
    /\ picks < MaxPicks /\ picks' = picks + 1
    /\ audio' = Checked(Reconfigured(audio, ok), ok)
    /\ Publish(0, FALSE)

(* The stream latches an error.                                            *)
Dies ==
    /\ audio.stream = "open"
    /\ audio' = [audio EXCEPT !.stream = "dead"]
    /\ UNCHANGED <<cutting, picks, holes>>

AudioNext ==
    \/ \E dt \in 0 .. 1, ok \in BOOLEAN : Step(dt, ok)
    \/ \E ok \in BOOLEAN : Pick(ok)
    \/ Dies

AudioSpec == AudioInit /\ [][AudioNext]_audioVars

(* The worker's thread keeps stepping, and time passes.                    *)
TimePasses == \E ok \in BOOLEAN : Step(1, ok)

-----------------------------------------------------------------------------
(* Silence ends: a lost stream is open again, or the musician is told the  *)
(* client gave up.                                                         *)
TriesUntilTold == (audio.stream # "open") ~> (audio.stream = "open" \/ audio.shown = "GaveUp")

(* A device that keeps stopping is called out although each stop heals at  *)
(* once: no stretch shorter than the window holds so many stops unshown,   *)
(* wherever the watch's own windows happen to start.                       *)
DenseStopsAreShown ==
    (Len(holes) = Dense /\ holes[Dense] < CUTTING_OUT_WINDOW) => cutting.active
=============================================================================
