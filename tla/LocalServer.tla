---------------------------- MODULE LocalServer ----------------------------
(***************************************************************************)
(* The local provider (cloud/src/providers/local.rs): sessions are child   *)
(* processes, and a registry file shared by every host program on the      *)
(* machine says which.  A host program is the app or one run of the CLI;   *)
(* it does one thing at a time, may be killed at any point, and its        *)
(* servers outlive it.  A registry cycle (with_registry) takes a lock      *)
(* file, reads, writes and lets go, each a step of its own.                *)
(*                                                                         *)
(* Pids are handed out again.  A process is told from its successor by     *)
(* its start token, here the number of processes started before it.  No    *)
(* pid changes hands between a probe and the signal sent right after it.   *)
(* This is the unix half; an entry of an older build has no token.         *)
(***************************************************************************)
EXTENDS Integers, Sequences, FiniteSets, SequencesExt, Tally

CONSTANTS
    Pids,
    Programs,       \* host programs
    MaxStarted,     \* bound: processes started
    MaxOperations   \* bound: launches, teardowns and listings begun

ASSUME LocalAssumption ==
    /\ 1 \in Pids /\ {"init", "free", "stale"} \cap Programs = {}
    /\ MaxStarted \in Nat /\ MaxOperations \in Nat

NoToken == 0                        \* an entry that an older build wrote
Nobody == [kind |-> "none"]
Unowned == "init"                   \* the parent of an orphan, which reaps at once

VARIABLES
    process,    \* per pid: Nobody or [kind, token, parent, dead, listed]; a dead child
                \* keeps its pid until its parent looks, listed says its entry was written
                \* to the file now in place
    started,    \* processes started so far
    registry,   \* the file: a sequence of [pid, token]
    lockfile,   \* "free", a program, or "stale": older than LOCK_STALE
    prog,       \* per program: where it is (see Rests)
    operations,
    unfenced,   \* history: a cycle ran without its lock, or a pid named two processes
    murdered    \* history: a forced kill reached a process no host program started

localVars == <<process, started, registry, lockfile, prog, operations, unfenced, murdered>>

(* at: what it does next; edit: what its registry cycle is for; copy: what *)
(* the cycle read; pid, token: the entry it is about; ours: pid_liveness   *)
(* when the teardown began.                                                *)
Rests == [at |-> "idle", edit |-> "none", copy |-> <<>>, pid |-> 0,
          token |-> NoToken, ours |-> FALSE, held |-> FALSE]

LocalInit ==
    /\ \E old \in {Nobody, [kind |-> "server", token |-> 1, parent |-> Unowned, dead |-> FALSE, listed |-> TRUE]} :
         process = [n \in Pids |-> IF n = 1 THEN old ELSE Nobody]
    /\ registry \in {<<>>, <<[pid |-> 1, token |-> NoToken]>>}
    /\ process[1] # Nobody => registry # <<>>
    /\ started = 1 /\ lockfile = "free" /\ operations = 0
    /\ prog = [h \in Programs |-> Rests]
    /\ unfenced = FALSE /\ murdered = FALSE

Entry(n, t) == [pid |-> n, token |-> t]
Alive(n) == process[n] # Nobody /\ ~process[n].dead
Goes(h, change) == prog' = [prog EXCEPT ![h] = change]

(* A program enters a registry cycle.                                      *)
Cycle(h, edit) == Goes(h, [prog[h] EXCEPT !.at = "acquire", !.edit = edit, !.copy = <<>>, !.held = FALSE])
Ends(h) == Goes(h, Rests)
Begins == operations < MaxOperations /\ operations' = operations + 1

-----------------------------------------------------------------------------
(* pid_liveness of an entry: its own live child is ours beyond doubt, and  *)
(* a token decides for the rest.  Without one the image and the start time *)
(* may contradict the entry or not.                                        *)
\* Fault: a live pid is taken for the entry's process.
ClassifyByPid(h, e) == {IF Alive(e.pid) THEN "Ours" ELSE "Dead"}
Classify(h, e) ==
    IF ~Alive(e.pid) THEN {"Dead"}
    ELSE IF process[e.pid].parent = h THEN {"Ours"}
    ELSE IF e.token = process[e.pid].token THEN {"Ours"}
    ELSE IF e.token # NoToken THEN {"Dead"}
    ELSE IF process[e.pid].token = 1 THEN {"Unverified"} ELSE {"Unverified", "Dead"}

(* try_wait: looking at a dead child of one's own frees its pid.           *)
Reaped(h, n) ==
    IF process[n] # Nobody /\ process[n].dead /\ process[n].parent = h
      THEN [process EXCEPT ![n] = Nobody] ELSE process

-----------------------------------------------------------------------------
(* FileLock::acquire.  A lock taken for stale is removed, by a second call *)
(* after the one that judged it, and the attempt starts over.              *)
\* Fault: no lock between programs, only the mutex inside each.
AcquireUnlocked(h) ==
    /\ prog[h].at = "acquire"
    /\ lockfile' = h
    /\ Goes(h, [prog[h] EXCEPT !.at = "read", !.held = TRUE])
    /\ UNCHANGED <<process, started, registry, operations, unfenced, murdered>>

AcquireFree(h) ==
    /\ prog[h].at = "acquire" /\ lockfile = "free"
    /\ lockfile' = h
    /\ Goes(h, [prog[h] EXCEPT !.at = "read", !.held = TRUE])
    /\ UNCHANGED <<process, started, registry, operations, unfenced, murdered>>

(* create_new found a lock, and then it is past LOCK_STALE, or cannot be   *)
(* looked at: whoever held it has just let go, or no program may stat it.  *)
AcquireFindsStale(h) ==
    /\ prog[h].at = "acquire" /\ lockfile # "free"
    /\ Goes(h, [prog[h] EXCEPT !.at = "break"])
    /\ UNCHANGED <<process, started, registry, lockfile, operations, unfenced, murdered>>

AcquireBreaks(h) ==
    /\ prog[h].at = "break"
    /\ lockfile' = "free"
    /\ unfenced' = (unfenced \/ lockfile \in Programs)
    /\ Goes(h, [prog[h] EXCEPT !.at = "acquire"])
    /\ UNCHANGED <<process, started, registry, operations, murdered>>

(* LOCK_WAIT runs out, or the lock file cannot be made, held elsewhere or  *)
(* not: the cycle goes ahead without the lock.                             *)
AcquireGivesUp(h) ==
    /\ prog[h].at = "acquire"
    /\ unfenced' = TRUE
    /\ Goes(h, [prog[h] EXCEPT !.at = "read"])
    /\ UNCHANGED <<process, started, registry, lockfile, operations, murdered>>

LockGoesStale ==
    /\ lockfile \in Programs /\ prog[lockfile].at = "dead"
    /\ lockfile' = "stale"
    /\ UNCHANGED <<process, started, registry, prog, operations, unfenced, murdered>>

(* with_registry, the load: a file that parses, or none.                   *)
ReadRegistry(h) ==
    /\ prog[h].at = "read"
    /\ Goes(h, [prog[h] EXCEPT !.at = "write", !.copy = registry])
    /\ UNCHANGED <<process, started, registry, lockfile, operations, unfenced, murdered>>

(* A file damaged since it was written does not parse: it is renamed       *)
(* aside, a new one is started, and whatever it named nothing can destroy. *)
SetsAside(h) ==
    /\ prog[h].at = "read"
    /\ registry' = <<>>
    /\ process' = [n \in Pids |-> IF process[n] = Nobody THEN Nobody
                                  ELSE [process[n] EXCEPT !.listed = FALSE]]
    /\ Goes(h, [prog[h] EXCEPT !.at = "write", !.copy = <<>>])
    /\ UNCHANGED <<started, lockfile, operations, unfenced, murdered>>

(* The change, and the save by rename.                                     *)
Without(s, n) == Sifted(s, {e \in ToSet(s) : e.pid # n})
Found(h) == Sifted(prog[h].copy, {e \in ToSet(prog[h].copy) : e.pid = prog[h].pid})

Edited(h) ==
    CASE prog[h].edit = "push" -> {Append(prog[h].copy, Entry(prog[h].pid, prog[h].token))}
      [] prog[h].edit = "find" -> {prog[h].copy}
      [] prog[h].edit = "remove" -> {Without(prog[h].copy, prog[h].pid)}
      [] prog[h].edit = "prune" ->
           LET kept == {e \in ToSet(prog[h].copy) : Classify(h, e) # {"Dead"}}
               sure == {e \in kept : "Dead" \notin Classify(h, e)}
           IN {Sifted(prog[h].copy, kept), Sifted(prog[h].copy, sure)}

WriteRegistry(h) ==
    /\ prog[h].at = "write"
    /\ registry' \in Edited(h)
    /\ process' = IF prog[h].edit = "push" /\ process[prog[h].pid].kind = "server"
                       /\ process[prog[h].pid].token = prog[h].token
                    THEN [process EXCEPT ![prog[h].pid].listed = TRUE] ELSE process
    /\ LET found == Found(h)
       IN Goes(h, [prog[h] EXCEPT
                     !.at = "release", !.copy = <<>>,
                     !.token = IF prog[h].edit = "find" /\ found # <<>> THEN Head(found).token ELSE @,
                     !.edit = IF prog[h].edit = "find" /\ found = <<>> THEN "absent" ELSE @])
    /\ UNCHANGED <<started, lockfile, operations, unfenced, murdered>>

(* A disk that refuses: the call ends there, and a server just spawned     *)
(* stays, in no registry.                                                  *)
WriteFails(h) ==
    /\ prog[h].at \in {"read", "write"}
    /\ Goes(h, [prog[h] EXCEPT !.at = "release", !.edit = "absent", !.copy = <<>>])
    /\ UNCHANGED <<process, started, registry, lockfile, operations, unfenced, murdered>>

(* Drop of the lock removes whatever file is there; then on with the call. *)
Release(h) ==
    /\ prog[h].at = "release"
    /\ lockfile' = IF prog[h].held THEN "free" ELSE lockfile
    /\ CASE prog[h].edit = "push" -> Goes(h, [prog[h] EXCEPT !.at = "starting"])
         [] prog[h].edit = "find" -> Goes(h, [prog[h] EXCEPT !.at = "probe"])
         [] OTHER -> Ends(h)
    /\ unfenced' = (unfenced \/ (prog[h].held /\ lockfile \in Programs \ {h}))
    /\ UNCHANGED <<process, started, registry, operations, murdered>>

-----------------------------------------------------------------------------
(* launch: spawn, record, wait for the marker.                             *)
Named(n) == (\E i \in DOMAIN registry : registry[i].pid = n) \/ (\E h \in Programs : prog[h].pid = n)

Spawns(h, n) ==
    /\ prog[h].at = "idle" /\ process[n] = Nobody /\ started < MaxStarted
    /\ Begins
    /\ started' = started + 1
    /\ process' = [process EXCEPT ![n] = [kind |-> "server", token |-> started + 1, parent |-> h,
                                          dead |-> FALSE, listed |-> FALSE]]
    /\ Goes(h, [Rests EXCEPT !.at = "acquire", !.edit = "push", !.pid = n, !.token = started + 1])
    /\ unfenced' = (unfenced \/ Named(n))
    /\ UNCHANGED <<registry, lockfile, murdered>>

(* Ready, gone already, or never ready: a server that leaves no marker     *)
(* within READY_TIMEOUT is destroyed.                                      *)
StartsUp(h) ==
    LET n == prog[h].pid
    IN /\ prog[h].at = "starting"
       /\ process' = Reaped(h, n)
       /\ \/ Alive(n) /\ Ends(h)
          \/ Alive(n) /\ Cycle(h, "find")
          \/ ~Alive(n) /\ Cycle(h, "remove")
       /\ UNCHANGED <<started, registry, lockfile, operations, unfenced, murdered>>

(* destroy, of a pid some record names.                                    *)
Destroys(h, n) ==
    /\ prog[h].at = "idle"
    /\ Begins
    /\ Goes(h, [Rests EXCEPT !.at = "acquire", !.edit = "find", !.pid = n])
    /\ UNCHANGED <<process, started, registry, lockfile, unfenced, murdered>>

(* A dead entry is dropped.  A live one is asked: the sentinel, SIGTERM.   *)
Probes(h) ==
    LET e == Entry(prog[h].pid, prog[h].token)
    IN /\ prog[h].at = "probe"
       /\ process' = Reaped(h, e.pid)
       /\ \E l \in Classify(h, e) :
            IF l = "Dead" THEN Cycle(h, "remove")
                          ELSE Goes(h, [prog[h] EXCEPT !.at = "wait", !.ours = (l = "Ours")])
       /\ UNCHANGED <<started, registry, lockfile, operations, unfenced, murdered>>

(* wait_dead sees the process go, or somebody else under its pid.          *)
SeesDead(h) ==
    LET e == Entry(prog[h].pid, prog[h].token)
    IN /\ prog[h].at \in {"wait", "killed"} /\ "Dead" \in Classify(h, e)
       /\ process' = Reaped(h, e.pid)
       /\ Cycle(h, "remove")
       /\ UNCHANGED <<started, registry, lockfile, operations, unfenced, murdered>>

(* The grace runs out with the last look finding it alive.                 *)
RunsOut(h) ==
    LET e == Entry(prog[h].pid, prog[h].token)
    IN /\ prog[h].at = "wait" /\ Classify(h, e) # {"Dead"}
       /\ IF prog[h].ours
            THEN /\ murdered' = (murdered \/ process[e.pid].kind = "stranger")
                 /\ process' = [process EXCEPT ![e.pid].dead = TRUE]
                 /\ Goes(h, [prog[h] EXCEPT !.at = "killed"])
            ELSE Ends(h) /\ UNCHANGED <<process, murdered>>
       /\ UNCHANGED <<started, registry, lockfile, operations, unfenced>>

(* list_tagged prunes as it reads.                                         *)
Lists(h) ==
    /\ prog[h].at = "idle"
    /\ Begins
    /\ Goes(h, [Rests EXCEPT !.at = "acquire", !.edit = "prune"])
    /\ UNCHANGED <<process, started, registry, lockfile, unfenced, murdered>>

-----------------------------------------------------------------------------
(* The machine around them.  A process ends by itself, asked or not; an    *)
(* orphan's pid is free at once.  A free pid may go to any other program.  *)
ProcessEnds(n) ==
    /\ Alive(n)
    /\ process' = [process EXCEPT ![n] = IF @.parent = Unowned THEN Nobody ELSE [@ EXCEPT !.dead = TRUE]]
    /\ UNCHANGED <<started, registry, lockfile, prog, operations, unfenced, murdered>>

InitReaps(n) ==
    /\ process[n] # Nobody /\ process[n].dead /\ process[n].parent = Unowned
    /\ process' = [process EXCEPT ![n] = Nobody]
    /\ UNCHANGED <<started, registry, lockfile, prog, operations, unfenced, murdered>>

StrangerStarts(n) ==
    /\ process[n] = Nobody /\ started < MaxStarted
    /\ started' = started + 1
    /\ process' = [process EXCEPT ![n] = [kind |-> "stranger", token |-> started + 1, parent |-> Unowned,
                                          dead |-> FALSE, listed |-> FALSE]]
    /\ UNCHANGED <<registry, lockfile, prog, operations, unfenced, murdered>>

(* A host program returns or is killed: its children become orphans and a  *)
(* lock it held stays.                                                     *)
ProgramEnds(h) ==
    /\ prog[h].at # "dead"
    /\ Goes(h, [Rests EXCEPT !.at = "dead"])
    /\ process' = [n \in Pids |-> IF process[n] # Nobody /\ process[n].parent = h
                                    THEN [process[n] EXCEPT !.parent = Unowned] ELSE process[n]]
    /\ UNCHANGED <<started, registry, lockfile, operations, unfenced, murdered>>

ProgramStarts(h) ==
    /\ prog[h].at = "dead" /\ lockfile # h
    /\ Ends(h)
    /\ UNCHANGED <<process, started, registry, lockfile, operations, unfenced, murdered>>

LocalNext ==
    \/ \E h \in Programs :
         \/ AcquireFree(h) \/ AcquireFindsStale(h) \/ AcquireBreaks(h) \/ AcquireGivesUp(h)
         \/ ReadRegistry(h) \/ SetsAside(h) \/ WriteRegistry(h) \/ WriteFails(h) \/ Release(h)
         \/ StartsUp(h) \/ Probes(h) \/ SeesDead(h) \/ RunsOut(h) \/ Lists(h)
         \/ ProgramEnds(h) \/ ProgramStarts(h)
         \/ \E n \in Pids : Spawns(h, n) \/ Destroys(h, n)
    \/ \E n \in Pids : ProcessEnds(n) \/ InitReaps(n) \/ StrangerStarts(n)
    \/ LockGoesStale

LocalSpec == LocalInit /\ [][LocalNext]_localVars

-----------------------------------------------------------------------------
(* "killing it on the strength of the number alone is how a sweeper        *)
(* murders a stranger's process": whatever a pid has been handed on to     *)
(* since the entry was written, the SIGKILL of destroy never reaches a     *)
(* process that no host program started.                                   *)
StrangersSpared == ~murdered

(* FileLock: "the loser's entry disappears, leaving a server nothing will  *)
(* ever destroy".  A server that was recorded and still runs is in the     *)
(* registry, whoever lists, launches and tears down beside it, unless a    *)
(* cycle ever ran without the lock, had it broken while it held it, or one *)
(* pid named two processes.  Servers of a registry that was set aside are  *)
(* lost with it, as the code says there; the property is of those recorded *)
(* since.                                                                  *)
RunningIsListed ==
    unfenced \/ \A n \in Pids :
      (Alive(n) /\ process[n].kind = "server" /\ process[n].listed) =>
        \E i \in DOMAIN registry : registry[i].pid = n /\ registry[i].token \in {NoToken, process[n].token}
=============================================================================
