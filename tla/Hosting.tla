------------------------------ MODULE Hosting ------------------------------
(***************************************************************************)
(* One cloud account and everyone who changes it: launches (cli/src/host.rs*)
(* and the app's launch_session), `end` (cli/src/end.rs, the app's         *)
(* end_session), `sweep` (cloud/src/sweeper.rs, cli/src/sweep.rs) and the  *)
(* machines' own self-destruct, with the session records on the host's     *)
(* disk.  Each request to the provider is a step: anyone else's may come   *)
(* between two of them.                                                    *)
(*                                                                         *)
(* A session has a firewall and machines; a second machine is what a       *)
(* create request leaves when its answer is lost and it is sent again.     *)
(* A machine's region matters only in that a listing may miss regions.     *)
(***************************************************************************)
EXTENDS Integers, FiniteSets

CONSTANTS
    Clouds,         \* subset of {"aws", "do", "gcp"}
    Hosted,         \* session ids
    MAX_ATTEMPTS,   \* requests one call makes
    MaxLost,        \* bound, per cloud: create requests that fail, or whose answer is lost
    MaxEnds,        \* bound: teardowns
    MaxSweeps       \* bound: sweeps

ASSUME HostingAssumption ==
    /\ Clouds \subseteq {"aws", "do", "gcp"}
    /\ MAX_ATTEMPTS \in Nat \ {0} /\ MaxLost \in [Clouds -> Nat] /\ MaxEnds \in Nat /\ MaxSweeps \in Nat

Sweeper == "sweeper"
Cleaners == Hosted \cup {Sweeper}
Machine(s, n) == [session |-> s, no |-> n]
Machines == {Machine(s, n) : s \in Hosted, n \in 1 .. MAX_ATTEMPTS}

VARIABLES
    cloud,      \* which provider this account is with
    live,       \* machines that exist
    walls,      \* sessions whose firewall exists
    launch,     \* per session: [at, tries, no]
    record,     \* per session: [status, no, key]
    ender,      \* per session: where its teardown is
    cleaner,    \* destroy_orphan_firewalls, per caller: [at, alive, doomed, had]
    sweep,      \* [at, found, todo, destroyed, failed, complete, read], and as history what
                \* it had to find (had) and what a clean report then vouched for (cleared)
    lost, ends, sweeps,
    shut        \* history: a cleanup took the firewall of a machine it found there

hostVars == <<cloud, live, walls, launch, record, ender, cleaner, sweep, lost, ends, sweeps, shut>>
account == <<live, walls>>

NoCleanup == [at |-> "idle", alive |-> {}, doomed |-> {}, had |-> {}]
NoSweep == [at |-> "idle", found |-> {}, todo |-> {}, destroyed |-> {}, failed |-> {},
            complete |-> TRUE, read |-> {}, had |-> {}, cleared |-> {}]

HostInit ==
    /\ cloud \in Clouds
    /\ live = {} /\ walls = {}
    /\ launch = [s \in Hosted |-> [at |-> "idle", tries |-> 0, no |-> 0]]
    /\ record = [s \in Hosted |-> [status |-> "none", no |-> 0, key |-> FALSE]]
    /\ ender = [s \in Hosted |-> "idle"]
    /\ cleaner = [w \in Cleaners |-> NoCleanup]
    /\ sweep = NoSweep
    /\ lost = 0 /\ ends = 0 /\ sweeps = 0 /\ shut = FALSE

Of(s) == {m \in live : m.session = s}

-----------------------------------------------------------------------------
(* A launch.  The firewall goes in first.                                  *)
EnsureFirewall(s) ==
    /\ launch[s].at = "idle"
    /\ walls' = walls \cup {s}
    /\ launch' = [launch EXCEPT ![s].at = "create"]
    /\ UNCHANGED <<cloud, lost, live, record, ender, cleaner, sweep, ends, sweeps, shut>>

(* One attempt at the create request.  A security group that is gone, and  *)
(* an instance name that exists, are refusals; anything else that goes     *)
(* wrong is tried again, whether or not the machine was made.              *)
GroupGone(s) == cloud = "aws" /\ s \notin walls
NameTaken(s) == cloud = "gcp" /\ Of(s) # {}
Refuses(s) == GroupGone(s) \/ NameTaken(s)

Retried(s) ==
    /\ lost < MaxLost[cloud] /\ lost' = lost + 1
    /\ launch' = [launch EXCEPT ![s].tries = @ + 1,
                                ![s].at = IF launch[s].tries + 1 >= MAX_ATTEMPTS THEN "failed" ELSE "create"]

Create(s) ==
    LET n == launch[s].tries + 1
    IN /\ launch[s].at = "create" /\ ~Refuses(s)
       /\ \/ /\ live' = live \cup {Machine(s, n)}
             /\ launch' = [launch EXCEPT ![s].at = "wait", ![s].no = n]
             /\ UNCHANGED lost
          \/ live' = live \cup {Machine(s, n)} /\ Retried(s)
          \/ Retried(s) /\ UNCHANGED live
       /\ UNCHANGED <<cloud, walls, record, ender, cleaner, sweep, ends, sweeps, shut>>

(* Anything that ends a launch before its record is saved: a refusal, no   *)
(* address, no answer from the server, the host program closed.            *)
LaunchFails(s) ==
    /\ \/ launch[s].at = "wait"
       \/ launch[s].at = "create" /\ Refuses(s)
    /\ launch' = [launch EXCEPT ![s].at = "failed"]
    /\ UNCHANGED <<cloud, lost, account, record, ender, cleaner, sweep, ends, sweeps, shut>>

SaveRecord(s) ==
    /\ launch[s].at = "wait"
    /\ launch' = [launch EXCEPT ![s].at = "done"]
    /\ record' = [record EXCEPT ![s] = [status |-> "running", no |-> launch[s].no, key |-> TRUE]]
    /\ UNCHANGED <<cloud, lost, account, ender, cleaner, sweep, ends, sweeps, shut>>

(* A machine's own timers delete it, long after its launch.                *)
SelfDestructs(m) ==
    /\ m \in live /\ launch[m.session].at \in {"done", "failed"}
    /\ live' = live \ {m}
    /\ UNCHANGED <<cloud, lost, walls, launch, record, ender, cleaner, sweep, ends, sweeps, shut>>

-----------------------------------------------------------------------------
(* list_tagged: what it may answer about the machines in M.  A droplet     *)
(* listing is one query; the others leave out the regions that failed.     *)
Listings(M) ==
    {[seen |-> M, complete |-> TRUE]}
      \cup (IF cloud = "do" THEN {} ELSE {[seen |-> S, complete |-> FALSE] : S \in SUBSET M})

(* destroy_orphan_firewalls.  Compute Engine is asked which sessions have  *)
(* machines, and the cleanup is dropped when a zone did not answer.        *)
\* Fault: a partial listing is good enough.
TrustsListingAlways(l) == TRUE
TrustsListing(l) == l.complete

CleanBegins(w, at) == cleaner' = [cleaner EXCEPT ![w] = [NoCleanup EXCEPT !.at = at, !.had = live]]

CleanSessions(w) ==
    /\ cleaner[w].at = "begin"
    /\ \E l \in IF cloud = "gcp" THEN Listings(live) ELSE {[seen |-> {}, complete |-> TRUE]} :
         cleaner' = [cleaner EXCEPT ![w] =
                       IF TrustsListing(l) THEN [@ EXCEPT !.at = "walls", !.alive = {m.session : m \in l.seen}]
                                           ELSE [NoCleanup EXCEPT !.at = "over"]]
    /\ UNCHANGED <<cloud, lost, account, launch, record, ender, sweep, ends, sweeps, shut>>

(* The firewalls to try: every group on AWS, those without droplets on     *)
(* DigitalOcean, those of other sessions than the live ones on Compute     *)
(* Engine.                                                                 *)
Dropletless == {s \in walls : Of(s) = {}}
Deserted(w) == walls \ cleaner[w].alive
Doomed(w) ==
    CASE cloud = "aws" -> walls
      [] cloud = "do" -> Dropletless
      [] cloud = "gcp" -> Deserted(w)

CleanWalls(w) ==
    /\ cleaner[w].at = "walls"
    /\ cleaner' = [cleaner EXCEPT ![w].at = "delete", ![w].doomed = Doomed(w)]
    /\ UNCHANGED <<cloud, lost, account, launch, record, ender, sweep, ends, sweeps, shut>>

(* One deletion; AWS refuses while an instance uses the group, and any     *)
(* other failure is passed over.                                           *)
CleanDelete(w, s) ==
    /\ cleaner[w].at = "delete" /\ s \in cleaner[w].doomed
    /\ cleaner' = [cleaner EXCEPT ![w].doomed = @ \ {s}]
    /\ \/ /\ ~(cloud = "aws" /\ Of(s) # {})
          /\ walls' = walls \ {s}
          /\ shut' = (shut \/ (s \in walls /\ Of(s) \cap cleaner[w].had # {}))
       \/ UNCHANGED <<walls, shut>>
    /\ UNCHANGED <<cloud, lost, live, launch, record, ender, sweep, ends, sweeps>>

Cleaned(w) == cleaner[w].at = "over" \/ (cleaner[w].at = "delete" /\ cleaner[w].doomed = {})

-----------------------------------------------------------------------------
(* end: destroy, verify, close the firewall, mark the record.              *)
EndDestroys(s) ==
    /\ ender[s] = "idle" /\ record[s].status = "running" /\ ends < MaxEnds
    /\ ends' = ends + 1
    /\ \/ live' = live \ {Machine(s, record[s].no)} /\ ender' = [ender EXCEPT ![s] = "verify"]
       \/ UNCHANGED <<live, ender>>
    /\ UNCHANGED <<cloud, lost, walls, launch, record, cleaner, sweep, sweeps, shut>>

EndVerifies(s) ==
    /\ ender[s] = "verify"
    /\ \E l \in Listings(Of(s)) :
         IF l.seen = {}
           THEN ender' = [ender EXCEPT ![s] = "close"] /\ CleanBegins(s, "begin")
           ELSE ender' = [ender EXCEPT ![s] = "idle"] /\ UNCHANGED cleaner
    /\ UNCHANGED <<cloud, lost, account, launch, record, sweep, ends, sweeps, shut>>

(* close_session_firewall asks again until the session has no ingress.     *)
EndRetries(s) ==
    /\ ender[s] = "close" /\ Cleaned(s) /\ s \in walls
    /\ CleanBegins(s, "begin")
    /\ UNCHANGED <<cloud, lost, account, launch, record, ender, sweep, ends, sweeps, shut>>

EndMarks(s) ==
    /\ ender[s] = "close" /\ Cleaned(s)
    /\ ender' = [ender EXCEPT ![s] = "idle"]
    /\ cleaner' = [cleaner EXCEPT ![s] = NoCleanup]
    /\ record' = [record EXCEPT ![s].status = "ended", ![s].key = FALSE]
    /\ UNCHANGED <<cloud, lost, account, launch, sweep, ends, sweeps, shut>>

-----------------------------------------------------------------------------
(* sweep: list, destroy what was listed, clean up, reconcile the records.  *)
SweepLists ==
    /\ sweep.at = "idle" /\ sweeps < MaxSweeps
    /\ sweeps' = sweeps + 1
    /\ \E l \in Listings(live) :
         sweep' = [NoSweep EXCEPT !.at = "destroy", !.found = l.seen, !.todo = l.seen,
                                  !.complete = l.complete, !.had = live]
    /\ UNCHANGED <<cloud, lost, account, launch, record, ender, cleaner, ends, shut>>

(* A machine already gone is a failure too.                                *)
SweepDestroys(m) ==
    /\ sweep.at = "destroy" /\ m \in sweep.todo
    /\ \/ /\ m \in live /\ live' = live \ {m}
          /\ sweep' = [sweep EXCEPT !.todo = @ \ {m}, !.destroyed = @ \cup {m}]
       \/ sweep' = [sweep EXCEPT !.todo = @ \ {m}, !.failed = @ \cup {m}] /\ UNCHANGED live
    /\ UNCHANGED <<cloud, lost, walls, launch, record, ender, cleaner, ends, sweeps, shut>>

SweepCleans ==
    /\ sweep.at = "destroy" /\ sweep.todo = {}
    /\ sweep' = [sweep EXCEPT !.at = "clean"]
    /\ CleanBegins(Sweeper, "begin")
    /\ UNCHANGED <<cloud, lost, account, launch, record, ender, ends, sweeps, shut>>

(* state::list, then one write for each record that no longer holds.       *)
SweepReads ==
    /\ sweep.at = "clean" /\ Cleaned(Sweeper)
    /\ sweep' = [sweep EXCEPT !.at = "reconcile", !.read = {s \in Hosted : record[s].status = "running"}]
    /\ cleaner' = [cleaner EXCEPT ![Sweeper] = NoCleanup]
    /\ UNCHANGED <<cloud, lost, account, launch, record, ender, ends, sweeps, shut>>

Recorded(s) == Machine(s, record[s].no)
IsDestroyed(s) == Recorded(s) \in sweep.destroyed
IsUnlisted(s) == ~IsDestroyed(s) /\ sweep.complete /\ Recorded(s) \notin sweep.found

\* Fault: a record closed for want of a listing loses its key too.
UnlistedKeyForgotten == FALSE
(* mark_ended_unlisted keeps the key the record was read with.             *)
UnlistedKey == TRUE

SweepReconciles(s) ==
    /\ sweep.at = "reconcile" /\ s \in sweep.read
    /\ sweep' = [sweep EXCEPT !.read = @ \ {s}]
    /\ record' = IF IsDestroyed(s) THEN [record EXCEPT ![s].status = "ended", ![s].key = FALSE]
                 ELSE IF IsUnlisted(s) THEN [record EXCEPT ![s].status = "ended", ![s].key = UnlistedKey]
                 ELSE record
    /\ UNCHANGED <<cloud, lost, account, launch, ender, cleaner, ends, sweeps, shut>>

\* Fault: a search that left regions out counts as a search.
IsCleanPartly == sweep.failed = {}
(* SweepReport::is_clean.                                                  *)
IsClean == sweep.failed = {} /\ sweep.complete

SweepReports ==
    /\ sweep.at = "reconcile" /\ sweep.read = {}
    /\ sweep' = [NoSweep EXCEPT !.cleared = IF IsClean THEN sweep.had ELSE {}]
    /\ UNCHANGED <<cloud, lost, account, launch, record, ender, cleaner, ends, sweeps, shut>>

HostNext ==
    \/ \E s \in Hosted :
         \/ EnsureFirewall(s) \/ Create(s) \/ LaunchFails(s) \/ SaveRecord(s)
         \/ EndDestroys(s) \/ EndVerifies(s) \/ EndRetries(s) \/ EndMarks(s)
         \/ SweepReconciles(s)
    \/ \E m \in Machines : SelfDestructs(m) \/ SweepDestroys(m)
    \/ \E w \in Cleaners : CleanSessions(w) \/ CleanWalls(w) \/ (\E s \in Hosted : CleanDelete(w, s))
    \/ SweepLists \/ SweepCleans \/ SweepReads \/ SweepReports

HostSpec == HostInit /\ [][HostNext]_hostVars

-----------------------------------------------------------------------------
(* A sweep that promises nothing is left billing is right: every machine   *)
(* that existed when it looked is gone, whoever else was at work.          *)
CleanSweepLeavesNothing == sweep.cleared \cap live = {}

(* state.rs, mark_ended: the issuer key, the one way to shut every invite  *)
(* out, is forgotten only on "evidence that does not come back wrong": the *)
(* machine the record names no longer exists.                              *)
ForgottenKeyMeansGone ==
    \A s \in Hosted : (record[s].status = "ended" /\ ~record[s].key) => Recorded(s) \notin live

(* gcp.rs: "deleting its rule shuts the musicians out of a jam that is     *)
(* still playing": no cleanup, of a sweep or of another session's end,     *)
(* takes the firewall of a machine that existed when the cleanup began.    *)
LiveKeepsItsWall == ~shut

(* cli/src/sweep.rs, reconcile: "A record is only closed on positive       *)
(* evidence that its instance is gone".                                    *)
ClosedMeansGone == \A s \in Hosted : record[s].status = "ended" => Recorded(s) \notin live

(* digitalocean.rs, launch: "the droplet is behind it from the moment      *)
(* DigitalOcean creates it".                                               *)
DropletBehindWall == cloud = "do" => \A m \in live : m.session \in walls
=============================================================================
