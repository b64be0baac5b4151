# JamStream: TLA+ models, checks and proofs

JamStream lets a band play together over the Internet. A host provisions a small
server; musicians and listeners connect to it over UDP with signed invites; the server
mixes everyone's audio, sends each member a personal mix, and can record the session
and broadcast it. This directory models the parts of that program whose correctness
depends on the order in which things happen: who is in the room and who only believes to
be, what a lossy network may do to control messages and audio, what survives a crash,
what the threads, child processes and bounded channels of the server owe each other, and
what the host's programs may leave running, or shut, on a cloud account.

`PROJECT.json` is the index: components, runs, the map from definitions to source lines,
mutants, hazards, findings and theorems. All source paths below are relative to
`src/crates/` unless they begin with `src/`.

## 1. Inventory

| Part | State it keeps | Operations | What makes it correct |
|---|---|---|---|
| Transport session and replay window (`protocol/src/transport.rs`, `replay.rs`) | send counter; highest counter seen and a 64-bit bitmap | `seal_into`, `open`, `ReplayWindow::accept` | at most one delivery per counter; a datagram is refused unseen only if it is a window late; a forgery moves nothing |
| Control link (`protocol/src/control.rs`) | queued frames with their send counts, out-of-order buffer, "need ack" and dead flags | `send`, `poll`, `receive` | in-order, exactly-once delivery, or a link that is declared dead |
| Handshake admission (`session/src/server.rs`, `client.rs`, `limits.rs`) | token buckets, cookie rotation, reject ration; the client's resend and retry clocks | init, cookie challenge and answer, reject, resend | an honest client gets in under a crowd, or is told why not |
| Server membership (`session/src/server.rs`) | members, their sessions and clocks, the revoked set, the roster flag, the musician count | `admit`, `handle_transport`, `handle_control`, `tick`, `drop_peer`, `shutdown`, `restore_revoked` | capacity; a revoked invite is out; rosters and counts never go stale |
| Client session core (`session/src/client.rs`) | handshake, session, state, "session full", clocks, its link | `connect`, `reconnect`, `handle_datagram`, `poll` | never stays joined to nothing; a full session is waited out |
| Revocation file (`server/src/revocations.rs`, `runtime.rs`) | the file; events not yet drained | `append`, `load`, `drain_events`, `run` | what a restart reads back is what was promised |
| Avatar transfer (`session/src/avatar.rs` and the handlers) | trains being sent and received, waiters, caches | `set_avatar`, `AvatarRequest`, `AvatarChunk`, the pacing in `poll` and `tick`, `sync_avatars` | a picture that is kept reaches the bandmates; an honest client is not charged |
| Server log feed (`session/src/logtail.rs`, `feed_server_log`) | a ring shared by logging threads, a drop count, a budget | `push`, `pop`, `feed_server_log` | in order, nothing made up, losses said |
| Jitter buffer (`engine/src/jitter.rs`) | buffered frames, playout position, target depth, stuck counter | `push`, `pull` | no frame plays twice; a stuck position recovers |
| Audio device supervision and playout cushion (`client/src/live/mod.rs`, `watch.rs`) | the stream, the reopen episode, the watch over stops; the ring's depth | `check_stream`, `attempt_open`, `reconfigure`; `CushionControl::observe`, `set_auto` | silence ends or is announced; the depth moves gently and settles |
| Recorder (`server/src/record.rs`) | worker thread, bounded channel, owed ticks, a take | `push`, `start`, `stop`, exit | a recording keeps true time; an exit finishes the take |
| Upload of a take (`server/src/cloud_sink.rs`, `cloud/src/storage.rs`, `storage/sink.rs`) | the sink's queue, the marker file, the multipart driver, the bucket | write, finish, abort, retried requests | an object is whole or absent; the marker covers the upload |
| Stream pipeline and mix feed (`stream/src/pipeline.rs`, `worker.rs`) | one encoder, a pusher per destination, progress files; a bounded channel | `poll`, the host's requests; `submit_roster`, `submit_tick`, drop | a status row tells the truth; a destination comes back; audio and levels stay aligned |
| Session machine (`cloud/src/cloudinit.rs`, `server/src/runtime.rs`) | power, stamps under `/run`, two clocks, idle and duration limits | bootstrap, guard, self-destruct, heartbeat | the machine ends by itself, and not during a jam |
| Hosting (`cli/src/host.rs`, `end.rs`, `sweep.rs`, `cloud/src/sweeper.rs`, providers) | machines, firewalls, session records | launch, end, sweep, cleanup | nothing is left running unseen; nothing live is shut |
| Local provider (`cloud/src/providers/local.rs`) | processes, a registry file, a lock file | launch, list, destroy | no server is lost, no stranger is killed |
| Hosting wizard (`client/src/screens/host.rs`, `exec.rs`) | the wizard, the keychain, the executor's queue | pick, check, survey, launch, back | an answer is applied to what it was asked for |
| Retention (`cloud/src/retention.rs`, `storage.rs`, `cli/src/host.rs`) | the bucket's lifecycle rules | probe, read, merge, write | a promised rule stands; the host's own rules are kept |
| Mixer, codec, broadcast picture, device backends, invites and wire format, the rest of the user interface and command line, harness | | | see section 9 |

**How the parts interact.** A UDP datagram reaches `Server::run`, which calls
`ServerCore::handle_datagram`. A handshake init passes the gate and goes to `admit`;
anything else is tried against the transport sessions, whose `open` consults the replay
window. What opens is media (for the jitter buffers and the mixer) or a control payload,
which the member's `ControlLink` turns into an ordered batch for `handle_control`. The
replies of the call, which carry the link's acks, are sent before `drain_events` hands
the core's events (revocations, stream and record control, the musician count) to the
driver. Every 2.5 ms `tick` flushes a stale roster, mixes, offers the mix to the recorder
and broadcast threads over bounded channels, and scans for silent and dead members. The
run loop's heartbeat writes the stamp that the machine's guard reads; uploads leave
marker files the guard also reads. The client core is the mirror image, driven by
`handle_datagram` and `poll`; its worker thread keeps the audio device open. Outside, the
app and the command line launch, end and sweep machines over the providers' APIs, with
nothing but session records and names to agree on.

**What is hard here.** The network loses, repeats, delays and reorders. A control link
may die while media still flows. The server may crash between an acknowledgement and the
write it acknowledges. Bounded channels refuse, or block. Child processes die and leave
files behind that describe their predecessors. Clocks are stepped. A sweep lists, acts and
then reads records that a launch writes meanwhile. Pids are reused. Answers come back to
a screen that shows something else. All of these are listed, each with its line and the
property that would catch it, under `hazards`.

## 2. Plan

Modelled: everything in section 3. Proved: every safety property the passing runs check
(section 7). What is left, most useful first.

*Proofs.* What remains of the properties under fairness when fairness is taken away: each
rests on a fact of the kind "something that can still do it is present", as `Hope` is for
the handshake gate, and such a fact is an invariant.

*Models.* `MemberLink`: one member's control queue at `MAX_PENDING`, with batches of
messages, so that which queue refuses a roster follows from what was sent (in `Members` it
is any choice), and messages after the sender's own Bye become reachable. The client's failover to a migrated server. The download of takes by the command line and the
Takes screen.

## 3. Modules and how they correspond to the code

Variables have the source's names where TLA+ allows it. Variables marked "history" in a
module record what happened for a property to speak about; no guard reads them.

### The room and the wire

**`Transport`** models `Session::seal_into`, `Session::open` and `ReplayWindow::accept`.
The bitmap is the set of offsets whose bit is set, its width `WINDOW`. A datagram is its
counter; the network keeps everything ever sealed, so loss, repetition and reordering are
all present. `OpenForged` is a datagram whose authentication fails.

**`FifoChannel`** is what a control link promises: a sequence sent, a growing prefix of
it delivered. **`ControlLink`** models both ends of the code's `ControlLink`: `send`,
`poll` (which frames are due is a choice, because no property depends on the timers'
values; the send count is kept because it declares the link dead) and `receive` with the
cumulative ack, the selective ack bits and the out-of-order buffer.

**`HandshakeGate`** models what stands between a client's init and `admit`: the cookie
trigger, challenge and rotation, the init budget and a network's share of it, the rationed
rejects, and the client's offers, answers, resends, backoff, timeout and reconnect. Time
is in beats of `INIT_RESEND_MS`, longer than a round trip. The crowd is a choice of what
it takes from the shared buckets.

**`Members`** models the room as `ServerCore` keeps it. An invite is a token and a seat a
member id; several tokens may name a seat because a revoked seat is minted into again
(`client/src/screens/invites.rs`). `admit` is the whole admission including the response
cache, the silence a rejoin requires, the capacity count and the spent violation budget;
`ReceiveName`, `ReceiveBye`, `ReceiveRevoke`, `violation` and `ReceiveData` are
`handle_transport` by what the packet carried; `Tick` is the roster flush, the reap scan
and the quiet scan in the order of `tick`; `drop_peer`, `Shutdown` and `Restart` are the
other ways out. Clients are any environment, and so are the control queues: each flush may
find any of the connected members' queues full, and since the code takes the flag before it
sends and ignores the `LinkFull` (`server.rs:2059`, `2076`) such a member has no roster of
this change and nothing is left to send it again. `missed` is the history of that:
`RosterCurrent` asks, once no roster is owed, that every connected member's last roster is
the room unless its queue refused it. The next change reaches that member like the others, if its
queue has room by then.

**`Session`** composes `Members` with one `ClientCore` per token: the state, the init it
is offering, the session it holds, "session full" and its clock, with the responses,
packets and uplink messages in flight.

### The server's process

**`RevocationLog`** models the receive branch of `Server::run` in three phases (handle,
send the replies, drain the events), `Revocations::append` with each way it can fall
short, and `load`, with a crash at each point. A restart may also fail to read a file that
is there: the code logs "revoked invites may work again" and serves on with an empty list
(`revocations.rs:48-55`). `unread` is the history of what the file named then, and
`FileKeepsFaith` claims what is left: the file loses nothing by it, and the running server
refuses all the file names but what it could not read.

**`ServerLog`** models the ring and `feed_server_log` with each lock it takes as a step,
so that other threads log in between.

**`AvatarUpload`** models `set_avatar`, the pacing loop of the client's `poll`, the
server's `SetAvatar`, `AvatarChunk` and the request of a bandmate, with `AvatarRx::push`
and the violation charge, over a control queue of `MAX_PENDING`. **`AvatarFanout`** adds
the rest of the way to one bandmate: the roster that announces the picture, the request and
the waiters, the tick's pacer under its high-water mark, the bandmate's reassembly and
cache, eviction on either cache, and either of the two losing its connection and coming
back. Where the upload's action has a meaning for everyone else, `AvatarFanout` conjoins
it (`OwnerHeard` is `ServerHears` with the stale roster and the waiters it serves).

**`Recorder`** models `RecordWorker` and its thread: the channel and its debt of silence,
start, ticks, stems that open late, stop in its two steps, the published state and the
join at exit. Any call of the sink may fail.

**`TakeUpload`** models one object's way into a bucket: the recorder's `write`, `finish`
and `abort`, the queue of the sink and its marker file, `drive_upload` and `feed_parts`
with the escalation from one put to a multipart upload, the limit on parts, and each
request with its retries, refusals, lost answers and timeouts, for S3 and for GCS; the
machine may die at any point. A request that timed out acts before it is given up or never.

**`StreamPipeline`** models `Pipeline`: the encoder, a pusher per destination, progress
files that outlive the process that wrote them, the status rows, restarts and every
request of the host. A row is polled by a function of the row and of its part of the host
(its children, its progress file), because the code's loop over the rows shares nothing
between them but the encoder's state, which it has settled before. **`MixFeed`** models the run loop's side of the broadcast thread: the
channel, `try_send` for ticks, blocking sends for the rest, the roster epochs and the drop
that shuts the thread down.

**`SessionVm`** models the machine: the bootstrap, the guard's timer and script, the
self-destruct of each provider, the restart of a crashed server, `IdleExit` and
`MaxDuration` on a monotonic clock and a wall clock that is stepped.

### The client and the host's side

**`JitterBuffer`** models `push` and `pull` whole: anchoring, stream restarts, stepping
back for a packet just concealed, redundancy, the depth cap, holding, shrinking,
concealing and giving up a position. A wild phase in which any packet may arrive is
followed by a stream that flows. **`Cushion`** models `CushionControl`; **`AudioStream`**
the loop that reopens a device, its episode limits and the watch over dense stops.

**`Hosting`** models one account and everyone who changes it: a launch (firewall, create
with retries, wait, record), `end`, `sweep` with partial listings, the cleanup of orphaned
firewalls with its double listing, `reconcile`, and machines that destroy themselves. Each
request is a step. **`LocalServer`** models the local provider with its registry cycle
(lock, read, write, unlock) over processes whose pids are reused and host programs that
are killed anywhere. A lock that `create_new` found may be judged stale whoever holds it,
because one that cannot be stat'ed, as when its holder has just let go, counts as stale
(`local.rs:887-893`); a cycle may go ahead without the lock at once, when the file cannot be
made (`875-881`), or after `LOCK_WAIT`; and a registry that does not parse is set aside and
an empty one begun (`SetsAside`, `399-417`), after which whatever it named is in no list. **`HostWizard`** models the wizard and the executor thread.
**`BucketRules`** models `set_retention`: reading the whole rule list, merging, writing it
back, with writes that are retried and may be carried out late.

### Composition and proofs

`MCRoom`, `MCMedia`, `MCServer` and `MCCloud` instantiate several modules at once. Their
modules share no variables in the model because they share no state in the code; a
behaviour exercises the part it starts with (`part`) while the others stand still, so the
state count is a sum. `MCSession` instantiates `Session`, where server and clients do
interact; `MCControlLink` bounds the frames of each direction of a link.

`TransportProofs` (the replay window and the handshake gate), `ControlLinkProofs`,
`MembersProofs` (the room, alone and with its clients), `HostingProofs`, `ServerProofs` (the revocation file, the log feed, the mix feed, the
uploads of takes and of pictures, the recorder, the broadcast's children), `CloudProofs`
(the session machine, the wizard, the local provider, the retention rules) and
`MediaProofs` (the cushion, the jitter buffer, the watch over a stopping device) hold the
theorems. `Tally` holds the two recursions along a sequence that
several modules need, a total and a filter, as recursive functions; `DataLemmas` proves
what they compute, and a few facts about `Min` and `Max`. Operators whose comment begins with "Fault:" are plausible mistakes in the
definition that follows them. No specification uses them; they show that each property
fails when the code is wrong (`mutants` in `PROJECT.json`).

## 4. Runs and what they show

| Run | Checks | Shows |
|---|---|---|
| `room` | `NoOfferWasted`, `CapacityRespected`, `RevokedHasNoSeat`, `RosterCurrent`, `RetiredWasReceived`, `RevokeSparesOthers` | an honest offer under a crowd leads in or to the truth; a seat changes hands and role; no frame is retired that the peer lacks |
| `control_link_live` | `ImplementsFifo`, `DeliveredOrDead` | refinement of `FifoChannel`; each message is delivered or the link is dead |
| `session_heals` | `SplitHeals`, `GhostReaped` | neither side goes on believing in a session the other does not have |
| `session_full` | `FreedSeatIsTaken` | a client told "full" gets in |
| `media` | `AtMostOnce`, `RefusedOnlyWhenLate`, `NeverPlayedTwice`, `HealsInTime`, `DenseStopsAreShown`, `MovesGently`, `TriesUntilTold` | the way of the sound: window, buffer, cushion, device |
| `server` | `FileKeepsFaith`, `NothingMadeUp`, `ChargedOnlyForCrossedTrains`, `KeepsTrueTime`, `RowsMatchChildren`, `KeepsTime`, `LevelsMatchRoster`, `TakeIsWholeOrAbsent`, `MarkerCoversUpload`, `PictureArrives`, `ExitFinishesTake`, `GoesLive`, `EndsOnceAsked` | what a server keeps beside the room, through crashes, full channels, failed requests and dead children |
| `cloud` | `EveryMachineEnds`, `GuardIsFair`, `CleanSweepLeavesNothing`, `ForgottenKeyMeansGone`, `LiveKeepsItsWall`, `StrangersSpared`, `RunningIsListed`, `LaunchesItsOwnRegion`, `PromisedRulesStand` | what a host starts and must be able to stop |
| `revocation_told` | `ToldIsRefused`, violated | finding 1 |
| `avatar_backlog` | `HonestClientNotCharged`, violated | finding 2 |
| `take_overwritten` | `EachRecordToStopIsOneTake`, violated | finding 3 |
| `sweep_closes_live` | `ClosedMeansGone`, violated | finding 4 |
| `saved_was_checked` | `SavedWasChecked`, violated | finding 5 |

Deadlock is not checked: every model bounds some counter (counters, messages, inits,
lines, requests, minutes), and a run that has used up its bound stops.

## 5. Bounds and why they are enough

- `room`, link part: a window and a queue of 2 against 3 frames with 2 sends each, so the
  window must slide for the last; one reverse frame, so that acks ride on frames and
  alone. Room part: three tokens over two seats, one place per role, three admissions: a
  join, a rejoin and a takeover; ages are counted to the last threshold; every flush may be
  refused by any set of the connected members' queues. Gate part:
  buckets of 1 and 2 and a rotation of 3 beats in an attempt of 8, so a rotation falls
  anywhere in a round trip and a cookie goes stale; a retry backoff doubles once.
- `control_link_live`: 4 distinguishable frames in one direction, a queue of 3.
- `session_heals`: one member, two inits, three admissions, so that an init is answered
  twice and a reconnect follows. `session_full`: two musicians and one place.
- `media`: a window of 3 and counters to 6, so that each offset, a jump of exactly the
  width and a jump beyond it occur; a buffer of 3 with sequence numbers to 4 before the
  stream settles and more ticks after than the `HealBound` of these constants (11); a cushion of 7 units between
  floor and ceiling with steps of 2, so that the last step is cut short; 3 attempts with a
  doubling wait, and a watch of 3 stops in 5 units.
- `server`: three tokens and three lines (a torn append, its victim and a third), with any
  start unable to read them; a ring
  and a budget of 2 against 5 lines; two pictures of two chunks fed one at a time, caches that hold one picture (so that a
  replacement evicts, also in mid-train), and three moves among calls of `set_avatar` and
  connections made (replace and put back with nobody looking; replace before a bandmate;
  a bandmate or an owner that comes back); a recorder channel of 2 against 4 ticks, two takes; two destinations, two
  faults, three requests; a feed channel of 2, four ticks, two roster changes; uploads of
  up to 6 bytes in parts of 2 with at most 2 parts, so that a single put, a multipart
  upload and the limit on parts all occur, with two attempts per request.
- `cloud`: two sessions, one end and one sweep on each of three clouds, a lost create
  answer on DigitalOcean; two pids, two programs, three processes, so a pid is reused and
  two cycles meet, with any lock found judged stale and any registry read found damaged; an idle window of 3 minutes, a cap of 5, steps of the clock by -2, 0 and 3
  minutes, on both sides of the window; two cloud accounts and one credential, three jobs; two sessions arming rules and
  two rules of the host's under a cap of 2, so eviction and refusal both occur.
- Larger instances checked separately: the inductive invariants of section 7 on the
  instances of the runs or somewhat larger ones, among them that of the composition with
  three invites over two seats (2.2 million states), that of the recorder with a
  channel of 3 and four takes (1.3 million states) and that of the gate (0.8 million); the
  inductive invariant of `HostingProofs` with
  lost creates on all clouds (5.06 million states), `BucketRules` with three sessions and a
  cap of 3 (20.2 million), and `AvatarFanout` with a fourth move and pictures of one chunk,
  where a picture is put back before a bandmate.

## 6. Fairness

- `control_link_live`: weak fairness, per queued frame, of a `poll` that sends it while
  the window admits it: both drivers poll on a timer and a frame falls due again after
  each backoff. Nothing is assumed of the network.
- `session_heals`: the clock advances, the server ticks, and a client's driver calls
  `poll`. Nothing is assumed of the network or of the users.
- `session_full`: besides, strong fairness of the admission of the init a client is
  offering, and weak fairness of taking the response: a datagram that is resent for ever
  arrives eventually. The client stops offering when it leaves the connecting state, and
  so does the assumption.
- `media`: the engine's step runs on a timer, whatever the device does.
- `server`: a picture's clients poll, the server ticks and their links deliver (which
  `control_link_live` shows of a link that is not dead; a connection that is lost takes its
  messages with it); the recorder's and the broadcast's threads take what
  is queued for them (an operating system schedules a runnable thread); the pipeline is
  polled with its delays run out, and a pusher left alone reports that its output is open.
  The last is the meaning of "failures stop" in `GoesLive`.

## 7. Proofs

All theorems hold for every value of the constants under the named assumptions of the
modules.

**Transport.** `AtMostOnce` is not inductive: a duplicate is recognised only because the
bitmap still holds its bit. `IInv` adds that the bitmap is exactly the delivery record of
the last `WINDOW` counters (`BitmapIsRecord`) and that nothing newer than `highest` was
delivered. The step that matters is the slide. Proved: `TransportTypeOK`,
`TransportAtMostOnce`, `TransportRefusedOnlyWhenLate`, `TransportBitmapIsRecord`.

**Control link.** `IInv` says, for each direction (`Dir`), how the sender's queue, the
sequence numbers, the receiver's position and out-of-order buffer and every datagram in
flight relate: a frame in flight carries the message sent under its number, an ack in
flight never claims more than the receiver has (receivers only gain, so a stale ack is
weaker, never wrong), and every number that was sent and is not queued is held by the
receiver. From it follow `LinkTypeOK`, `LinkRetiredWasReceived`, `LinkWindowRespected` (no
frame runs past the peer's window), `LinkBaseStaysQueued` (the window cannot close for
good), and the step simulation of `LinkImplementsFifo`.

**Members.** The five invariants are inductive together. Capacity needs an entry to sit
in the seat its token names, because `admit` leaves the joiner's own seat out of the
count. Every step other than `admit` is shown to let nobody in (`OnlyLeaves`), or to leave
what a roster shows alone (`SameRoom`), and the rest of the argument is made once for each
shape. `RosterNeverStale` is about the members whose queues took the last roster: a flush
leaves every connected member with the room or marked as having missed it, whatever the
queues do; `Told` alone sets the mark, and the next roster that is taken clears it. Proved: `MembersTypeCorrect`, `CapacityHolds`, `RevokedStaysOut`,
`RosterNeverStale`, `CountNeverStale`, and the action property `RevocationIsPrecise`.

**Hosting.** The properties compare what a caller read earlier with what exists now, so
the argument is about what cannot come back. `Fresh` says that every
machine anyone has seen has a number its launch has used up, so that a machine that is
gone stays gone; `SavedOnce` that a record appears once, when its launch is done, and
nothing ends or reconciles it before; `EndingIsGone` that a teardown goes past its destroy
only when that succeeded; `SweepAccounts` that each machine a sweep found is still to be
destroyed, destroyed, or reported as failed, and that a complete listing found all there
were; `WallsSpared` that the firewalls a cleanup has doomed belong to no machine that
existed when it began. With these `IInv` is inductive. Proved: `HostInvariant`, `CleanSweepHolds`,
`ForgottenKeyHolds`, `WallsHold`, for any number of sessions and any set of clouds.

**The room with its clients** (`MembersProofs`). `Members` lets the clients do anything;
`Session` has them as the code has them. Each step of `Session` is a step of the room or
leaves it alone (`StepOfRoom`), so every property of the room is one of the composition.
The step that takes an argument is a Revoke, which is the room's only because what is in
flight to a seat is what its client could send. The invariant (`SessionIInv`) says what a
session is: both sides hold only sessions made for the invite and the init they hold them
for (`SeatFits`, `ClientFits`), numbered by the admissions so far, and what is in flight to
a seat belongs to the session it has now (`QueueFits`). From it follows `SpeaksForItself`:
although a seat is reissued to another invite, one init may be answered twice and responses
arrive late, what the server opens under a seat's session comes from the client whose
invite sits there. Proved: `SessionTypeCorrect`, `SessionKeepsRoom`, `SessionRoomInOrder`,
`NobodySpeaksForAnother`.

**Handshake gate** (`TransportProofs`). `NoOfferWasted` rests on two facts no test looks at
together. The trigger never holds more than the init budget (`TriggerFirst`, from the
constants: burst and rate of the one are at most the other's), so an init that is read
without a cookie always finds the budget. And while an offer is out something in flight
will do for it (`Hope`): an answer, the plain init where it will be answered or challenged
to some purpose, a cookie of this rotation or the one before, or a challenge the client
has yet to heed. Every step keeps one of these, spoils the offer for a stated reason, or
answers it; a rotation turns a cookie of this rotation into one of the last and cannot
fall twice in a beat. Proved: `OffersCount`.

**Revocation file** (`ServerProofs`). `FileKeepsFaith` needs that the file never outgrows
what the loader takes (the bound is an assumption of the module and the subject of an
observation below), that the run loop drains only events the core took in, and that what
was synced on a line of its own is on a finished line (`RevokeIInv`). What the file names is
always within what the core refuses and what it could not read when it started: appends add
only what the core refuses, and a restart splits the whole file between the two. Proved:
`RevokeTypeCorrect`, `FileFaith`.

**Mix feed.** The channel's ticks, its silence and what is owed add up to the ticks mixed
(`KeepsTime`), and every tick in the channel is behind the roster it was mixed for, the
next one to be queued too (`RostersLead`, over every place of the channel). Proved:
`TimeIsKept`, `RostersMatch`.

**Upload of a take.** Every byte written is in the queue, in the source, in the driver's
hands or in the parts the store has taken (`Counted`, a sum along the queue by `Total`),
and none is left behind the last part (`NoneBehind`); an upload that is open is the running
driver's or one it was never told of or could not abort (`DriverPlace`, `NoneLoose`), with requests that timed
out still able to act. Proved: `WholeOrAbsent`, `MarkerCovers`.

**Server log.** The copy, what the feed has in its hand and the ring are in the order of
the log, and the lines sent, in hand, counted as dropped and in the ring are no more than
were logged (`LogIInv`); the second is a sum along the copy, by `Total`. Proved:
`CopyIsHonest`.

**Recorder.** All that has been asked of the thread is one sequence, the channel and the
message the run loop is blocked on. `KeptInTime` says that a start still in it owes its
take every tick mixed since, provided the thread is at no take when the start comes up,
which a stop before it, or no take open now, guarantees (`StopsFirst`); when the start is
taken this becomes the claim on the running take. Proved: `TakesKeepTrueTime`.

**Session machine** (`CloudProofs`). `EveryMachineEnds` needs the order of the boot and
that past the cap the guard has been putting the end off for less than an upload's ceiling
(`CapHolds`). `GuardIsFair` needs that every run of the guard since it first put the end
off has been counted (`WaitsCounted`), and a reckoning of its stamp (`QuietCounted`): the
minutes not played are at least those since the guard last saw the stamp move, less two
for each step of the wall clock that landed it on its old second. Proved:
`MachinesEnd`, `GuardEndsFairly`.

**Wizard, local provider, retention.** `WizardIInv`: an answer on its way fits what the
wizard asked, and past the provider step a table is the picked provider's. `LocalIInv`:
tokens are never reused and none is a stranger's; and while no two cycles ran at once and
no pid named two servers (`unfenced`, the races `RunningIsListed` excepts), a program that
writes has the lock and a copy that is still the file, a call about a pid is about the
server there, and a server being dropped from the file has ended. A registry that is set
aside is no exception to these: the program that found it holds the lock and goes on with
an empty copy of an empty file, and the servers it named count as recorded no longer
(`listed`), which is all that `RunningListed` gives up. `RulesIInv`: what a session will write holds every
promised rule but those a stated race or the cap exposed, and so does a late write. Proved:
`LaunchesStayHome`, `StrangersLive`, `RunningListed`, `RulesStand`.

**Sound** (`MediaProofs`). `DepthMovesGently` is an action property: after a frame was
given back the depth is all that is wanted, the dip leaves it above the line, and the
window now filling shows that or will not be read. `NothingPlayedTwice`: without a
position nothing counts as played, and with one everything still buffered lies after what
was played, through stream restarts, steps back and redundancy. `CuttingOutIsShown`:
`Fits` relates the history of stops to the watch's counter and ages: while the watch is
quiet, the stops of the window before its own are too few and the earlier ones too old for
the stretch to be dense.

**A stream that flows is heard again** (`MediaProofs`). `HealsInTime` bounds the ticks
without sound by `HealBound`. Once the stream has settled, arrivals and ticks alternate,
so a gap is as long as the frames that came in it, and `HealIInv` says where those are.
Without a position, they are a run at the end of the buffer that fills it up to the target
(`Refilling`). With a position before them, the run is as long as the gap, so the position
reaches it or the depth cap gives the position up (`Ahead`). With a position past the
stream, each tick since a frame came too late is counted by the watchdog, or is a hold
for growth that a skip makes room for, and a skip takes `SHRINK_PATIENCE` ticks to earn
(`Blamed`, with `Credit`); before a frame has come too late the gap is a few ticks
(`Unblamed`). Two parts of the bound came out of the proof. The watchdog does not count
the holds for growth, so `REANCHOR_PATIENCE` alone is short by one tick in
`SHRINK_PATIENCE`; an earlier bound without that term held on the run's constants and is
false for larger ones. And the deepest target has to fit under the depth cap with room for
one arrival (`HealAssumption`, 24 of 64 in the code). Proved: `StreamHeals`.

**The broadcast's children** (`ServerProofs`). A row alone cannot be shown to tell the
truth: "Live" is read from a progress file that outlives the process that wrote it.
`RowFits` relates a row to its part of the host: it runs the one process the row names or
none, the row is connecting or live exactly while it names one, and what the file says
while a pusher runs was written by that pusher. The last holds because every way to a new
pusher empties the file first (`ClearProgress` before `Spawn`). A poll leaves every row fitting, whatever it finds (`PolledFits`). Proved: `RowsTellTruth`.

**The upload of a picture** (`ServerProofs`). `ChargedOnlyForCrossedTrains` says that a
chunk the receiver does not wait for means that the queue had refused a message or that the
owner had gone back to a picture just replaced. Until either happens, `Uncrossed` holds of
everything between the two: what is in flight is in the order of announcement and chunk,
the chunks of at most one picture can still be taken, the receiver waits for the first of
those in flight, and the rest come from one place, the train being fed or the one request
that will start it (`Source`). Each handler of either side keeps it (`ChunkInOrder`,
`SetInOrder` and the lemmas beside them); once a refusal or a return has happened nothing
more is claimed. Proved: `ChargesAreExplained`.

`CountCurrent`, `WindowRespected`, `BaseStaysQueued`, `BitmapIsRecord` and
`SpeaksForItself` are stated only as theorems. `RoomTypeOK`, `LinkTypeOK`, `TypeOK` and the type invariants inside the other
inductive invariants are proved with them.

**Assumptions.** The theorems hold under the `ASSUME`s of the modules, which ask for
numbers and finite sets and, where the code has such a relation, for it: a trigger no
larger than the budget (`GateAssumption`), a guard armed before its cap and a cap of more
than a minute (`VmAssumption`), a loader that takes what the file can hold
(`RevocationLogAssumption`), a target that fits under the depth cap (`HealAssumption`), an
encoder that is no destination (`PipelineAssumption`), the host's rules disjoint from the sessions' and finitely
many (`RulesAssumption`), pid 1 among the pids and the lock's words not the name of a
program (`LocalAssumption`).

**Sums and filters.** A recursion along a sequence is proved about by counting up: the
prefixes for which the claim holds include the empty one and with each the next, so by
well-foundedness they are all of it (`CountsUp` in `DataLemmas`). This works for recursive
functions (`Tally`), which is why the modules use `Total` and `Sifted` where a fold or
`SelectSeq` would also do: the provers cannot unfold those.

**Only model-checked.** The properties under fairness, which the proof system does not
reach: `DeliveredOrDead`, `SplitHeals`, `GhostReaped`, `FreedSeatIsTaken`,
`PictureArrives`, `TriesUntilTold`, `ExitFinishesTake`, `GoesLive`, `EndsOnceAsked`. So are
the properties the five findings refute, which no proof could hold of.

## 8. Findings and observations

Each finding compares what the code does with what a comment, a document or a constant of
the repository says; `PROJECT.json` quotes the lines. The first five have a run of their
own. Of the others, those that name a definition were found by checking it against the
module's specification with the bounds of section 5.

1. **A revocation is acknowledged before it is on disk** (`revocation_told`,
   `server/src/runtime.rs:695`). The replies, which carry the ack of the Revoke, are sent
   before the events are drained. A crash in between restarts with the invite working.
2. **A large picture costs its owner violations** (`avatar_backlog`,
   `session/src/client.rs:845`). The client's pacing loop ignores the link's backlog and
   drops the error of a full queue while its cursor moves on.
3. **Two takes started within one minute share a name** (`take_overwritten`,
   `server/src/record.rs:487`), and the second replaces the first.
4. **A sweep can close the record of a running session** (`sweep_closes_live`,
   `cli/src/sweep.rs:167`): it reads the records after it listed the machines.
5. **An unchecked credential reaches the keychain** (`saved_was_checked`,
   `client/src/screens/host.rs:484`): the answer to a check saves the fields of the
   moment it arrives.
6. `client/src/exec.rs:22`: the wizard can have two network jobs outstanding
   (`NeverTwoJobs`).
7. `stream/src/worker.rs:132`: the mix tick waits when a roster changes while the channel
   is full (`MixTickNeverWaits`).
8. `server/src/runtime.rs:130`: a wall clock stepped forwards and back lengthens the idle
   countdown (`EmptyServerExits`, with two steps of the clock). The guard still ends the
   machine.
9. `session/src/server.rs:2030`: a log line the budget refuses is neither sent nor
   counted, and drops between two locks are forgotten (`EveryLossIsSaid`).
10. `cloud/src/providers/digitalocean.rs:631`: a cleanup between firewall and droplet
    leaves the droplet without its firewall (`DropletBehindWall`).
11. `cloud/src/providers/local.rs:743`: destroying a dead entry whose pid was reused by
    another of the provider's servers removes both entries.
12. `session/src/client.rs:594`: a rejected client ignores cookie challenges
    (`RejectedAnswers`), and joins only once the load is gone.
13. `cli/src/recordings.rs:465`: a download whose flush fails leaves its short file behind
    (read in the code; not modelled).

Observations:

- *Revocations.* An append that fails halfway leaves no newline, so the next revocation
  lands on the same line and is not read back; `SyncedIsLoaded` excludes exactly those and
  shows that the damage reaches no further. The loader reads `MAX_ENTRIES` lines while
  `append` has no limit. A start that cannot read the file refuses none of its tokens until
  one that can, while appends may go on; no one but the log is told.
- *Avatars.* A member who goes back to a picture just replaced is charged for the second
  train (`ChargedOnlyForCrossedTrains` names the case). A train whose last chunks were
  refused by a full queue leaves a half-filled receiver that announcing again does not
  restart. A bandmate whose request for a picture found nobody announcing it, because the
  owner had just replaced it, does not ask again when the owner goes back to it: the
  picture stays missing for the rest of that connection (`putBack` in `PictureArrives`).
- *Room.* A roster refused by a full control queue is lost, and the member shows an older
  room until the next change: the comment at `session/src/server.rs:785` keeps the avatar
  trains from filling the queue so that "a roster or a chat always has room", but other
  control messages can. Messages after a Bye in one
  batch are still handled. After a timeout a client still opens packets of its session, so
  a Bye may turn `TimedOut` into `Ejected`.
- *Jitter buffer.* Stepping back for a late packet can take the depth one past
  `MAX_BUFFERED`. A position given up at the depth cap rather than by the watchdog heals in
  up to 89 ticks, a little over the published `HEAL_TICKS` (84); with the growth holds
  `StreamHeals` allows for, the limit proved at the code's constants is 92.
- *Machine.* A clock step that lands the stamp on its old second hides up to two minutes
  of playing from the guard, and no more, however long the silence before it (`GuardIsFair`). After a failed API call a powered-off droplet still bills. After a reboot
  nothing recreates `/run/jamstream`.
- *Hosting.* `end` does not look at the completeness of the listing. A create that is
  retried after a lost answer can leave a second machine; a launch that fails after its
  create leaves one without a record; both are a sweep's to find, and it runs when it is
  asked for, though the head of `cloud/src/sweeper.rs` says "on every app and CLI
  launch". A sweep counts a machine that was already gone as a failure.
- *Local provider.* Two programs that judge the same lock stale can both break it, and
  so can one that found a lock just before its holder let go and another took it. A
  registry that does not parse costs the ability to list or end every server it named
  (tested, `local.rs:2077`; they keep their own limits). A registry write that fails after the spawn leaves an unrecorded server. An abandoned
  launch shares the phase display, and the executor thread, with the next.
- *Uploads.* A `CompleteMultipartUpload` whose answer is lost is sent again and can report
  a stored take as failed. The range GCS returns with a 308 is not read. A marker that
  cannot be written leaves the guard unaware of the upload; the model assumes it can be.
- *Retention.* A rule the host removes in the console between a session's read and its
  write is put back.

## 9. What is not modelled and why

The map covers the control logic of the modules above, about 9 % of the 89 thousand lines
of implementation. Most of the rest has no state a property of this kind is about:

- User interface (the largest part of the implementation by lines), drawing, themes,
  strings, and the command line's arguments and printing.
- Mixing, codec, drift estimation, limiter, metronome, resampling, and the rendering of the
  broadcast picture: numeric code without concurrency. The target depth of the jitter
  buffer is a choice within its limits for the same reason.
- The Noise handshake, invites' signatures and the wire format: pure functions on bytes
  whose correctness is cryptographic or a matter of layout. A session is an identity; a
  packet opens if and only if both ends hold the same one.
- Providers' HTTP requests, their signing, pricing and region tables: their other side is
  external; what their answers may do to the caller is in `Hosting`, `TakeUpload` and
  `BucketRules`.
- Device backends, ffmpeg's arguments, process spawning, packaging, the test harness, and
  the tests kept inside source files.
- Chat, faders, stream and record status: relayed and forgotten.

Control logic that is still missing is in the plan of section 2: full member queues and
batches, the failover to a migrated server, the download of takes.
