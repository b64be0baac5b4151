----------------------------- MODULE SessionVm -----------------------------
(***************************************************************************)
(* The session machine and what ends it: the bootstrap, the guard and the  *)
(* self-destruct scripts cloud-init writes (cloud/src/cloudinit.rs), the   *)
(* unit that restarts jamstreamd, and the server's own idle and duration   *)
(* limits (server/src/runtime.rs).                                         *)
(*                                                                         *)
(* Time runs in guard periods of one minute.  In each, the server's        *)
(* heartbeat and the guard both run, in either order.  The wall clock is   *)
(* the uptime plus a skew that may be stepped; files under /run hold the   *)
(* stamps, as a set of at most one (no file).                              *)
(***************************************************************************)
EXTENDS Integers, FiniteSetsExt

CONSTANTS
    Providers,        \* subset of {"aws", "do", "gcp"}: how the machine may end
    IDLE_MIN,         \* idle_shutdown_min
    MAX_MIN,          \* max_duration_min
    CEILING_MIN,      \* UPLOAD_DEFER_CEILING_SECS, in minutes
    ARM_MIN,          \* longest the bootstrap takes to arm the guard (apt-get's timeouts)
    Skews,            \* bound: wall clock offsets
    MaxSteps,         \* bound: clock steps
    MaxCrashes        \* bound: crashes of jamstreamd

ASSUME VmAssumption ==
    /\ Providers \subseteq {"aws", "do", "gcp"}
    /\ IDLE_MIN \in Nat \ {0} /\ MAX_MIN \in Nat \ {0, 1} /\ CEILING_MIN \in Nat
    /\ ARM_MIN \in Nat /\ ARM_MIN < MAX_MIN   \* minutes, under a cap set in hours
    /\ Skews \subseteq Int /\ MaxSteps \in Nat /\ MaxCrashes \in Nat

VARIABLES
    vm,       \* [provider, power, boot, guarded, up, due]
    files,    \* /run/jamstream: [stamp, guardStamp, activeUp, deferUp, uploads]
    server,   \* jamstreamd: [run, mono, skew0, idleSince, band]
    clock,    \* [skew, steps, crashes]
    past      \* history: minutes the band has not played since the guard last saw the stamp
              \* move (quiet), minutes since a musician (empty), deferrals (waited), and
              \* whether the guard ended a jam early or an upload short of its ceiling

vmVars == <<vm, files, server, clock, past>>

Fresh(skew) == [run |-> "up", mono |-> 0, skew0 |-> skew, idleSince |-> {0}, band |-> FALSE]
Stopped == [run |-> "down", mono |-> 0, skew0 |-> 0, idleSince |-> {}, band |-> FALSE]

VmInit ==
    /\ \E k \in Providers :
         vm = [provider |-> k, power |-> "on", boot |-> "begin", guarded |-> FALSE, up |-> 0, due |-> {}]
    /\ files = [stamp |-> {}, guardStamp |-> {}, activeUp |-> {}, deferUp |-> {}, uploads |-> FALSE]
    /\ server = Stopped
    /\ clock = [skew |-> 0, steps |-> 0, crashes |-> 0]
    /\ past = [quiet |-> 0, waited |-> 0, empty |-> 0, early |-> FALSE, short |-> FALSE]

On == vm.power = "on"
Wall == vm.up + clock.skew

-----------------------------------------------------------------------------
(* self_destruct_script.  An AWS shutdown terminates; a droplet deletes    *)
(* itself, or powers off when the API refuses; a Compute Engine instance   *)
(* only stops serving, and its provider deletes it.                        *)
AfterSelfDestruct ==
    CASE vm.provider = "aws" -> {"gone"}
      [] vm.provider = "do" -> {"gone", "off"}
      [] vm.provider = "gcp" -> {"on"}

SelfDestruct(due, boot) ==
    /\ \E power \in AfterSelfDestruct :
         vm' = [vm EXCEPT !.power = power, !.due = due \ {"beat"}, !.boot = boot]
    /\ server' = Stopped

(* bootstrap_script: the guard timer is armed before anything that can     *)
(* fail slowly, and a failure anywhere runs the self-destruct trap.        *)
\* Fault: the guard is armed only by a bootstrap that ran to its end.
BootArmsUnguarded ==
    /\ On /\ vm.boot = "begin"
    /\ vm' = [vm EXCEPT !.boot = "armed"]
    /\ files' = [files EXCEPT !.stamp = {Wall}]
    /\ UNCHANGED <<server, clock, past>>
BootArms ==
    /\ On /\ vm.boot = "begin"
    /\ vm' = [vm EXCEPT !.boot = "armed", !.guarded = TRUE]
    /\ files' = [files EXCEPT !.stamp = {Wall}]
    /\ UNCHANGED <<server, clock, past>>

BootServes ==
    /\ On /\ vm.boot = "armed"
    /\ vm' = [vm EXCEPT !.boot = "done"]
    /\ server' = Fresh(clock.skew)
    /\ past' = [past EXCEPT !.empty = 0]
    /\ UNCHANGED <<files, clock>>

BootFails ==
    /\ On /\ vm.boot \in {"begin", "armed"}
    /\ SelfDestruct(vm.due, "failed")
    /\ UNCHANGED <<files, clock, past>>

-----------------------------------------------------------------------------
(* touch, from the heartbeat: the activity file takes the wall clock.      *)
TouchedStamp == IF server.band THEN {Wall} ELSE files.stamp

\* session_elapsed: the wall reading counts when it is ahead.
SessionElapsed == server.mono + Max({0, clock.skew - server.skew0})

(* IdleExit::observe: what idle_since is after this heartbeat, and whether *)
(* the window has run out.                                                 *)
IdleSince ==
    IF server.band THEN {} ELSE IF server.idleSince = {} THEN {SessionElapsed} ELSE server.idleSince
IdleRunsOut == \E since \in IdleSince : SessionElapsed - since >= IDLE_MIN

Exits == IdleRunsOut \/ SessionElapsed >= MAX_MIN

(* One heartbeat of Server::run.  A clean exit is not restarted.           *)
Beat ==
    /\ On /\ "beat" \in vm.due
    /\ vm' = [vm EXCEPT !.due = @ \ {"beat"}]
    /\ files' = [files EXCEPT !.stamp = TouchedStamp]
    /\ server' = IF Exits THEN Stopped ELSE [server EXCEPT !.idleSince = IdleSince]
    /\ past' = [past EXCEPT !.quiet = IF server.band THEN @ - 1 ELSE @,
                            !.empty = IF server.band THEN 0 ELSE @]
    /\ UNCHANGED clock

(* jamstreamd dies; systemd starts it again, unless it gave up on it.  An  *)
(* upload marker outlives the process that left it.                        *)
Crash(restarts) ==
    /\ On /\ server.run = "up" /\ clock.crashes < MaxCrashes
    /\ server' = IF restarts THEN Fresh(clock.skew) ELSE Stopped
    /\ vm' = [vm EXCEPT !.due = @ \ {"beat"}]
    /\ clock' = [clock EXCEPT !.crashes = @ + 1]
    /\ past' = [past EXCEPT !.empty = 0]
    /\ UNCHANGED files

BandChanges ==
    /\ On /\ server.run = "up"
    /\ server' = [server EXCEPT !.band = ~@]
    /\ UNCHANGED <<vm, files, clock, past>>

UploadChanges ==
    /\ On /\ (server.run = "up" \/ files.uploads)
    /\ files' = [files EXCEPT !.uploads = ~@]
    /\ UNCHANGED <<vm, server, clock, past>>

-----------------------------------------------------------------------------
(* guard_script_at.                                                        *)
Moved == files.stamp # files.guardStamp

\* Fault: the idle time is the age of the stamp on the wall clock.
GuardIdleByWall == \E s \in files.stamp : Wall - s >= IDLE_MIN
(* The uptime since the guard last saw the stamp move.                     *)
GuardIdle == ~Moved /\ vm.up - Max(files.activeUp \cup {0}) >= IDLE_MIN

GuardReason == GuardIdle \/ vm.up >= MAX_MIN

DeferredSince == IF files.deferUp = {} THEN {vm.up} ELSE files.deferUp

NoReasonDefer == {}

Defers == files.uploads /\ \E since \in DeferredSince : vm.up - since < CEILING_MIN

GuardFiles ==
    [files EXCEPT !.guardStamp = files.stamp,
                  !.activeUp = IF Moved THEN {vm.up} ELSE @,
                  !.deferUp = IF ~GuardReason THEN NoReasonDefer
                              ELSE IF files.uploads THEN DeferredSince ELSE @]

Guard ==
    /\ On /\ "guard" \in vm.due
    /\ files' = GuardFiles
    /\ IF GuardReason /\ ~Defers
         THEN /\ SelfDestruct(vm.due \ {"guard"}, vm.boot)
              /\ past' = [past EXCEPT
                            !.quiet = IF Moved THEN 0 ELSE @,
                            !.early = @ \/ (vm.up < MAX_MIN /\ past.quiet + 2 * clock.steps < IDLE_MIN),
                            !.short = @ \/ (files.uploads /\ past.waited < CEILING_MIN)]
         ELSE /\ vm' = [vm EXCEPT !.due = @ \ {"guard"}]
              /\ past' = [past EXCEPT !.quiet = IF Moved THEN 0 ELSE @,
                                      !.waited = IF GuardReason THEN @ + 1 ELSE 0]
              /\ UNCHANGED server
    /\ UNCHANGED clock

-----------------------------------------------------------------------------
(* maxRunDuration of Compute Engine, set to the hard cap at launch.        *)
ProviderDeletes ==
    /\ On /\ "provider" \in vm.due
    /\ vm' = [vm EXCEPT !.power = "gone"]
    /\ server' = Stopped
    /\ UNCHANGED <<files, clock, past>>

ClockSteps(skew) ==
    /\ On /\ clock.steps < MaxSteps /\ skew # clock.skew
    /\ clock' = [clock EXCEPT !.skew = skew, !.steps = @ + 1]
    /\ UNCHANGED <<vm, files, server, past>>

(* A minute passes once all that runs every minute has run; the guard      *)
(* first runs two minutes into the boot, or when it is armed after that.   *)
Minute ==
    /\ On /\ vm.due = {} /\ (vm.boot = "begin" => vm.up < ARM_MIN)
    /\ vm' = [vm EXCEPT !.up = @ + 1,
                        !.due = (IF server.run = "up" THEN {"beat"} ELSE {})
                                  \cup (IF vm.guarded /\ vm.up >= 1 THEN {"guard"} ELSE {})
                                  \cup (IF vm.provider = "gcp" /\ vm.up + 1 >= MAX_MIN THEN {"provider"} ELSE {})]
    /\ server' = IF server.run = "up" THEN [server EXCEPT !.mono = @ + 1] ELSE server
    /\ past' = [past EXCEPT !.quiet = @ + 1, !.empty = @ + 1]
    /\ UNCHANGED <<files, clock>>

VmNext ==
    \/ BootArms \/ BootServes \/ BootFails
    \/ Beat \/ BandChanges \/ UploadChanges
    \/ \E restarts \in BOOLEAN : Crash(restarts)
    \/ Guard \/ ProviderDeletes \/ Minute
    \/ \E skew \in Skews : ClockSteps(skew)

VmSpec == VmInit /\ [][VmNext]_vmVars

-----------------------------------------------------------------------------
(* However it boots, crashes, uploads or loses track of time, a machine is *)
(* deleted within its cap and one upload ceiling; a Compute Engine one is  *)
(* never merely powered off, which would stop the timer that deletes it.   *)
EveryMachineEnds ==
    /\ On => vm.up <= MAX_MIN + CEILING_MIN
    /\ vm.power = "off" => vm.provider = "do"

(* The guard ends a machine for idleness only after that many minutes not  *)
(* played, on a clock nobody can step: a step of the wall clock that lands *)
(* the stamp on its old second, after whatever silence, hides two minutes  *)
(* of playing at the most.  An upload it gives up on was given the whole   *)
(* ceiling, counted from the run that found this reason to end, not an     *)
(* earlier one.                                                            *)
GuardIsFair == ~past.early /\ ~past.short

(* runtime.rs, session_elapsed: a wall clock "stepped forwards can only    *)
(* end a session sooner": an empty server is gone once the window has      *)
(* passed on the monotonic clock.                                          *)
EmptyServerExits == server.run = "up" /\ "beat" \notin vm.due => past.empty <= IDLE_MIN
=============================================================================
