--------------------------- MODULE HostingProofs ---------------------------
(***************************************************************************)
(* What a clean sweep, a forgotten key and a firewall left standing        *)
(* promise, for every set of sessions, every cloud and every bound on      *)
(* requests, teardowns and sweeps.                                         *)
(*                                                                         *)
(* All three rest on one fact: a machine that is gone never comes back, so *)
(* what a sweep or a cleanup saw goes on being true of the machines it     *)
(* saw.  Fresh states it: while a session is still being created, whatever *)
(* anyone has seen of it is older than its next machine.                   *)
(***************************************************************************)
EXTENDS Hosting, TLAPS

Cleanups == [at : {"idle", "begin", "walls", "delete", "over"}, alive : SUBSET Hosted,
             doomed : SUBSET Hosted, had : SUBSET Machines]

HostTypeOK ==
    /\ cloud \in Clouds
    /\ live \subseteq Machines /\ walls \subseteq Hosted
    /\ launch \in [Hosted -> [at : {"idle", "create", "wait", "done", "failed"},
                              tries : 0 .. MAX_ATTEMPTS, no : 0 .. MAX_ATTEMPTS]]
    /\ record \in [Hosted -> [status : {"none", "running", "ended"}, no : 0 .. MAX_ATTEMPTS, key : BOOLEAN]]
    /\ ender \in [Hosted -> {"idle", "verify", "close"}]
    /\ cleaner \in [Cleaners -> Cleanups]
    /\ sweep \in [at : {"idle", "destroy", "clean", "reconcile"}, found : SUBSET Machines,
                  todo : SUBSET Machines, destroyed : SUBSET Machines, failed : SUBSET Machines,
                  complete : BOOLEAN, read : SUBSET Hosted, had : SUBSET Machines, cleared : SUBSET Machines]
    /\ shut \in BOOLEAN

(* A record appears once, when the launch is done, and nothing is ended or *)
(* reconciled before it does.                                              *)
SavedOnce ==
    \A s \in Hosted :
      /\ launch[s].at # "done" => record[s].status = "none"
      /\ record[s].status = "none" => ender[s] = "idle" /\ s \notin sweep.read

(* Every machine anyone has seen.                                          *)
Seen(m) ==
    \/ m \in live \cup sweep.had \cup sweep.destroyed \cup sweep.cleared
    \/ \E w \in Cleaners : m \in cleaner[w].had

Launching(s) == launch[s].at \in {"idle", "create"}

Fresh ==
    \A s \in Hosted : Launching(s) =>
      /\ launch[s].tries < MAX_ATTEMPTS
      /\ \A m \in Machines : Seen(m) /\ m.session = s => m.no <= launch[s].tries

(* A teardown goes past its destroy only when that succeeded.              *)
EndingIsGone == \A s \in Hosted : ender[s] \in {"verify", "close"} => Recorded(s) \notin live

(* What a sweep found is still to do, destroyed or failed; a complete      *)
(* listing found all there was.                                            *)
SweepAccounts ==
    /\ sweep.destroyed \cap live = {}
    /\ sweep.found \subseteq sweep.todo \cup sweep.destroyed \cup sweep.failed
    /\ sweep.complete => sweep.found = sweep.had
    /\ sweep.at \in {"clean", "reconcile"} => sweep.todo = {}

(* A firewall about to be deleted belongs to no machine the cleanup found  *)
(* (on AWS the deletion itself makes sure).                                *)
WallsSpared ==
    \A w \in Cleaners :
      /\ cleaner[w].at = "walls" /\ cloud = "gcp" =>
           \A m \in live \cap cleaner[w].had : m.session \in cleaner[w].alive
      /\ cleaner[w].at = "delete" /\ cloud # "aws" =>
           \A m \in live \cap cleaner[w].had : m.session \notin cleaner[w].doomed

IInv ==
    /\ HostTypeOK /\ SavedOnce /\ Fresh /\ EndingIsGone /\ SweepAccounts /\ WallsSpared
    /\ CleanSweepLeavesNothing /\ ForgottenKeyMeansGone /\ LiveKeepsItsWall

USE HostingAssumption DEF HostingAssumption

-----------------------------------------------------------------------------
(* An account with nothing in it.                                          *)
LEMMA InitInv == HostInit => IInv
<1> SUFFICES ASSUME HostInit PROVE IInv
  OBVIOUS
<1>1. HostTypeOK
  <2>1. /\ cloud \in Clouds /\ live \subseteq Machines /\ walls \subseteq Hosted
        /\ ender \in [Hosted -> {"idle", "verify", "close"}] /\ shut \in BOOLEAN
    BY DEF HostInit
  <2>2. launch \in [Hosted -> [at : {"idle", "create", "wait", "done", "failed"},
                               tries : 0 .. MAX_ATTEMPTS, no : 0 .. MAX_ATTEMPTS]]
    BY DEF HostInit
  <2>3. record \in [Hosted -> [status : {"none", "running", "ended"}, no : 0 .. MAX_ATTEMPTS, key : BOOLEAN]]
    BY DEF HostInit
  <2>4. cleaner \in [Cleaners -> Cleanups]
    BY DEF HostInit, NoCleanup, Cleanups
  <2>5. sweep \in [at : {"idle", "destroy", "clean", "reconcile"}, found : SUBSET Machines,
                   todo : SUBSET Machines, destroyed : SUBSET Machines, failed : SUBSET Machines,
                   complete : BOOLEAN, read : SUBSET Hosted, had : SUBSET Machines, cleared : SUBSET Machines]
    BY DEF HostInit, NoSweep
  <2> QED BY <2>1, <2>2, <2>3, <2>4, <2>5 DEF HostTypeOK
<1>2. SavedOnce /\ EndingIsGone /\ SweepAccounts /\ WallsSpared
  BY DEF HostInit, SavedOnce, EndingIsGone, SweepAccounts, WallsSpared, NoCleanup, NoSweep
<1>3. \A m \in Machines : ~Seen(m)
  BY DEF HostInit, Seen, NoCleanup, NoSweep
<1>4. Fresh
  BY <1>3 DEF HostInit, Fresh
<1>5. CleanSweepLeavesNothing /\ ForgottenKeyMeansGone /\ LiveKeepsItsWall
  BY DEF HostInit, CleanSweepLeavesNothing, ForgottenKeyMeansGone, LiveKeepsItsWall, NoSweep
<1> QED BY <1>1, <1>2, <1>4, <1>5 DEF IInv

(* Machines are told apart by session and number.                          *)
LEMMA MachineFacts ==
    /\ \A m \in Machines : m.session \in Hosted /\ m.no \in 1 .. MAX_ATTEMPTS
    /\ \A s \in Hosted, n \in 1 .. MAX_ATTEMPTS :
         Machine(s, n) \in Machines /\ Machine(s, n).session = s /\ Machine(s, n).no = n
BY DEF Machines, Machine

(* The machine a create request makes has been seen by nobody.             *)
LEMMA CreatedIsFresh ==
    ASSUME IInv, NEW s \in Hosted, launch[s].at = "create"
    PROVE  /\ Machine(s, launch[s].tries + 1) \in Machines
           /\ ~Seen(Machine(s, launch[s].tries + 1))
<1> DEFINE n == launch[s].tries + 1
<1>1. launch[s].tries \in Nat /\ n \in 1 .. MAX_ATTEMPTS /\ n > launch[s].tries
  BY DEF IInv, HostTypeOK, Fresh, Launching
<1>2. Machine(s, n) \in Machines /\ Machine(s, n).session = s /\ Machine(s, n).no = n
  BY <1>1, MachineFacts
<1>3. ~(Seen(Machine(s, n)) /\ n <= launch[s].tries)
  BY <1>1
<1> QED BY <1>1, <1>2 DEF IInv, Fresh, Launching

-----------------------------------------------------------------------------
(* The launch.                                                             *)
LEMMA EnsureFirewallInv == ASSUME IInv, NEW s \in Hosted, EnsureFirewall(s) PROVE IInv'
<1>1. HostTypeOK'
  BY DEF IInv, HostTypeOK, EnsureFirewall, account
<1>2. /\ \A t \in Hosted : /\ launch'[t].tries = launch[t].tries
                           /\ Launching(t)' => Launching(t)
                           /\ launch'[t].at # "done" => launch[t].at # "done"
  BY DEF IInv, HostTypeOK, EnsureFirewall, Launching
<1>3. \A m \in Machines : Seen(m)' => Seen(m)
  BY DEF EnsureFirewall, Seen
<1>4. Fresh'
  BY <1>2, <1>3 DEF IInv, Fresh
<1>5. SavedOnce'
  BY <1>2 DEF IInv, SavedOnce, EnsureFirewall
<1>6. (EndingIsGone /\ SweepAccounts /\ WallsSpared)'
  BY DEF IInv, EndingIsGone, SweepAccounts, WallsSpared, EnsureFirewall, Recorded
<1>7. (CleanSweepLeavesNothing /\ ForgottenKeyMeansGone /\ LiveKeepsItsWall)'
  BY DEF IInv, CleanSweepLeavesNothing, ForgottenKeyMeansGone, LiveKeepsItsWall, EnsureFirewall, Recorded
<1> QED BY <1>1, <1>4, <1>5, <1>6, <1>7 DEF IInv

LEMMA CreateInv == ASSUME IInv, NEW s \in Hosted, Create(s) PROVE IInv'
<1> DEFINE n == launch[s].tries + 1
           new == Machine(s, n)
<1>1. /\ launch[s].at = "create" /\ n \in 1 .. MAX_ATTEMPTS
      /\ UNCHANGED <<cloud, walls, record, ender, cleaner, sweep, ends, sweeps, shut>>
  BY DEF IInv, HostTypeOK, Fresh, Launching, Create
<1>2. new \in Machines /\ new.session = s /\ new.no = n /\ ~Seen(new)
  BY <1>1, CreatedIsFresh, MachineFacts
<1>3. live' \subseteq live \cup {new}
  BY DEF Create
<1>4. \/ launch' = [launch EXCEPT ![s].at = "wait", ![s].no = n]
      \/ launch' = [launch EXCEPT ![s].tries = n,
                                  ![s].at = IF n >= MAX_ATTEMPTS THEN "failed" ELSE "create"]
  BY DEF Create, Retried
<1>5. launch' \in [Hosted -> [at : {"idle", "create", "wait", "done", "failed"},
                              tries : 0 .. MAX_ATTEMPTS, no : 0 .. MAX_ATTEMPTS]]
  BY <1>1, <1>4 DEF IInv, HostTypeOK
<1>6. HostTypeOK'
  BY <1>1, <1>2, <1>3, <1>5 DEF IInv, HostTypeOK
<1>7. \A t \in Hosted \ {s} : launch'[t] = launch[t]
  BY <1>4 DEF IInv, HostTypeOK
<1>8. /\ launch'[s].at \in {"wait", "failed", "create"}
      /\ launch'[s].at = "create" => n < MAX_ATTEMPTS /\ launch'[s].tries = n
  BY <1>1, <1>4 DEF IInv, HostTypeOK
<1>9. Fresh'
  <2> SUFFICES ASSUME NEW t \in Hosted, Launching(t)'
               PROVE  /\ launch'[t].tries < MAX_ATTEMPTS
                      /\ \A m \in Machines : Seen(m)' /\ m.session = t => m.no <= launch'[t].tries
    BY DEF Fresh
  <2>1. \A m \in Machines : Seen(m)' => Seen(m) \/ m = new
    BY <1>1, <1>3 DEF Seen
  <2>2. CASE t = s
    <3>1. launch'[s].tries = n /\ n < MAX_ATTEMPTS /\ launch[s].tries \in Nat
      BY <1>8, <2>2 DEF Launching, IInv, HostTypeOK
    <3>2. \A m \in Machines : Seen(m) /\ m.session = s => m.no <= launch[s].tries
      BY <1>1 DEF IInv, Fresh, Launching
    <3>3. \A m \in Machines : Seen(m)' /\ m.session = s => m.no <= n
      BY <2>1, <3>1, <3>2, <1>2, MachineFacts
    <3> QED BY <2>2, <3>1, <3>3
  <2>3. CASE t # s
    BY <2>1, <2>3, <1>2, <1>7 DEF IInv, Fresh, Launching
  <2> QED BY <2>2, <2>3
<1>10. SavedOnce'
  BY <1>1, <1>7, <1>8 DEF IInv, SavedOnce
<1>11. EndingIsGone'
  <2> SUFFICES ASSUME NEW t \in Hosted, ender[t] \in {"verify", "close"}
               PROVE  Recorded(t)' \notin live'
    BY <1>1 DEF EndingIsGone
  <2>1. Recorded(t)' = Recorded(t) /\ Recorded(t) \notin live
    BY <1>1 DEF IInv, EndingIsGone, Recorded
  <2>2. t # s
    BY <1>1 DEF IInv, SavedOnce
  <2>3. Recorded(t).session = t
    BY DEF Recorded, Machine
  <2> QED BY <1>2, <1>3, <2>1, <2>2, <2>3
<1>12. SweepAccounts'
  BY <1>1, <1>2, <1>3 DEF IInv, SweepAccounts, Seen
<1>13. \A w \in Cleaners : live' \cap cleaner'[w].had \subseteq live \cap cleaner[w].had
  BY <1>1, <1>2, <1>3 DEF Seen
<1>14. WallsSpared'
  BY <1>1, <1>13 DEF IInv, WallsSpared
<1>15. (CleanSweepLeavesNothing /\ LiveKeepsItsWall)'
  BY <1>1, <1>2, <1>3 DEF IInv, CleanSweepLeavesNothing, LiveKeepsItsWall, Seen
<1>16. ForgottenKeyMeansGone'
  <2> SUFFICES ASSUME NEW t \in Hosted, record[t].status = "ended", ~record[t].key
               PROVE  Recorded(t)' \notin live'
    BY <1>1 DEF ForgottenKeyMeansGone
  <2>1. Recorded(t)' = Recorded(t) /\ Recorded(t) \notin live
    BY <1>1 DEF IInv, ForgottenKeyMeansGone, Recorded
  <2>2. t # s
    BY <1>1 DEF IInv, SavedOnce
  <2>3. Recorded(t).session = t
    BY DEF Recorded, Machine
  <2> QED BY <1>2, <1>3, <2>1, <2>2, <2>3
<1> QED BY <1>6, <1>9, <1>10, <1>11, <1>12, <1>14, <1>15, <1>16 DEF IInv

LEMMA LaunchFailsInv == ASSUME IInv, NEW s \in Hosted, LaunchFails(s) PROVE IInv'
<1>1. HostTypeOK'
  BY DEF IInv, HostTypeOK, LaunchFails, account
<1>2. \A t \in Hosted : /\ launch'[t].tries = launch[t].tries
                        /\ Launching(t)' => Launching(t)
                        /\ launch'[t].at # "done" => launch[t].at # "done"
  BY DEF IInv, HostTypeOK, LaunchFails, Launching
<1>3. \A m \in Machines : Seen(m)' => Seen(m)
  BY DEF LaunchFails, account, Seen
<1>4. Fresh'
  BY <1>2, <1>3 DEF IInv, Fresh
<1>5. SavedOnce'
  BY <1>2 DEF IInv, SavedOnce, LaunchFails
<1>6. (EndingIsGone /\ SweepAccounts /\ WallsSpared)'
  BY DEF IInv, EndingIsGone, SweepAccounts, WallsSpared, LaunchFails, account, Recorded
<1>7. (CleanSweepLeavesNothing /\ ForgottenKeyMeansGone /\ LiveKeepsItsWall)'
  BY DEF IInv, CleanSweepLeavesNothing, ForgottenKeyMeansGone, LiveKeepsItsWall, LaunchFails, account, Recorded
<1> QED BY <1>1, <1>4, <1>5, <1>6, <1>7 DEF IInv

LEMMA SaveRecordInv == ASSUME IInv, NEW s \in Hosted, SaveRecord(s) PROVE IInv'
<1>1. HostTypeOK'
  BY DEF IInv, HostTypeOK, SaveRecord, account
<1>2. \A t \in Hosted : /\ launch'[t].tries = launch[t].tries
                        /\ Launching(t)' => Launching(t)
  BY DEF IInv, HostTypeOK, SaveRecord, Launching
<1>3. \A m \in Machines : Seen(m)' => Seen(m)
  BY DEF SaveRecord, account, Seen
<1>4. Fresh'
  BY <1>2, <1>3 DEF IInv, Fresh
<1>5. /\ launch'[s].at = "done" /\ record'[s].status = "running"
      /\ \A t \in Hosted \ {s} : launch'[t] = launch[t] /\ record'[t] = record[t] /\ Recorded(t)' = Recorded(t)
      /\ launch[s].at = "wait"
      /\ UNCHANGED <<live, ender, sweep, cleaner, cloud, shut>>
  BY DEF IInv, HostTypeOK, SaveRecord, Recorded, account
<1>6. SavedOnce'
  BY <1>5 DEF IInv, SavedOnce
<1>7. EndingIsGone'
  BY <1>5 DEF IInv, SavedOnce, EndingIsGone
<1>8. SweepAccounts' /\ WallsSpared'
  BY <1>5 DEF IInv, SweepAccounts, WallsSpared
<1>9. (CleanSweepLeavesNothing /\ ForgottenKeyMeansGone /\ LiveKeepsItsWall)'
  BY <1>5 DEF IInv, CleanSweepLeavesNothing, ForgottenKeyMeansGone, LiveKeepsItsWall
<1> QED BY <1>1, <1>4, <1>6, <1>7, <1>8, <1>9 DEF IInv

(* A machine goes, by its own timer or at a teardown's request.            *)
LEMMA SelfDestructsInv == ASSUME IInv, NEW m \in Machines, SelfDestructs(m) PROVE IInv'
<1>1. HostTypeOK'
  BY DEF IInv, HostTypeOK, SelfDestructs
<1>2. /\ live' \subseteq live
      /\ UNCHANGED <<launch, record, ender, sweep, cleaner, cloud, shut>>
  BY DEF SelfDestructs
<1>3. \A k \in Machines : Seen(k)' => Seen(k)
  BY <1>2 DEF Seen
<1>4. Fresh' /\ SavedOnce'
  BY <1>2, <1>3 DEF IInv, Fresh, SavedOnce, Launching
<1>5. EndingIsGone' /\ SweepAccounts' /\ WallsSpared'
  BY <1>2 DEF IInv, EndingIsGone, SweepAccounts, WallsSpared, Recorded
<1>6. (CleanSweepLeavesNothing /\ ForgottenKeyMeansGone /\ LiveKeepsItsWall)'
  BY <1>2 DEF IInv, CleanSweepLeavesNothing, ForgottenKeyMeansGone, LiveKeepsItsWall, Recorded
<1> QED BY <1>1, <1>4, <1>5, <1>6 DEF IInv

-----------------------------------------------------------------------------
(* The cleanup of firewalls.                                               *)
LEMMA CleanSessionsInv == ASSUME IInv, NEW w \in Cleaners, CleanSessions(w) PROVE IInv'
<1>1. /\ UNCHANGED <<cloud, live, walls, launch, record, ender, sweep, shut>>
      /\ cleaner[w].at = "begin"
      /\ \E alive \in SUBSET Hosted :
           \/ /\ cleaner' = [cleaner EXCEPT ![w] = [@ EXCEPT !.at = "walls", !.alive = alive]]
              /\ cloud = "gcp" => \A m \in live : m.session \in alive
           \/ cleaner' = [cleaner EXCEPT ![w] = [NoCleanup EXCEPT !.at = "over"]]
  <2>1. /\ UNCHANGED <<cloud, live, walls, launch, record, ender, sweep, shut>>
        /\ cleaner[w].at = "begin"
    BY DEF CleanSessions, account
  <2>2. PICK l \in IF cloud = "gcp" THEN Listings(live) ELSE {[seen |-> {}, complete |-> TRUE]} :
          cleaner' = [cleaner EXCEPT ![w] =
                        IF TrustsListing(l) THEN [@ EXCEPT !.at = "walls", !.alive = {m.session : m \in l.seen}]
                                            ELSE [NoCleanup EXCEPT !.at = "over"]]
    BY DEF CleanSessions
  <2>3. l.seen \subseteq live /\ (cloud = "gcp" /\ l.complete => l.seen = live)
    BY <2>2 DEF Listings
  <2>4. {m.session : m \in l.seen} \in SUBSET Hosted
    BY <2>3, MachineFacts DEF IInv, HostTypeOK
  <2>5. cloud = "gcp" /\ l.complete => \A m \in live : m.session \in {k.session : k \in l.seen}
    BY <2>3
  <2>6. CASE l.complete
    BY <2>1, <2>2, <2>4, <2>5, <2>6 DEF TrustsListing
  <2>7. CASE ~l.complete
    BY <2>1, <2>2, <2>7 DEF TrustsListing
  <2> QED BY <2>6, <2>7
<1>2. PICK alive \in SUBSET Hosted :
        \/ /\ cleaner' = [cleaner EXCEPT ![w] = [@ EXCEPT !.at = "walls", !.alive = alive]]
           /\ cloud = "gcp" => \A m \in live : m.session \in alive
        \/ cleaner' = [cleaner EXCEPT ![w] = [NoCleanup EXCEPT !.at = "over"]]
  BY <1>1
<1>3. cleaner \in [Cleaners -> Cleanups] /\ cleaner[w] \in Cleanups
  BY DEF IInv, HostTypeOK
<1>4. /\ cleaner' \in [Cleaners -> Cleanups]
      /\ \A v \in Cleaners \ {w} : cleaner'[v] = cleaner[v]
      /\ cleaner'[w].had \in {{}, cleaner[w].had}
      /\ cleaner'[w].at \in {"walls", "over"}
      /\ cleaner'[w].at = "walls" /\ cloud = "gcp" => \A m \in live : m.session \in cleaner'[w].alive
  <2>1. CASE cleaner' = [cleaner EXCEPT ![w] = [NoCleanup EXCEPT !.at = "over"]]
    <3>1. PICK d : d = [NoCleanup EXCEPT !.at = "over"]
      OBVIOUS
    <3>2. d \in Cleanups /\ d.at = "over" /\ d.had = {}
      BY <3>1 DEF Cleanups, NoCleanup
    <3>3. cleaner' = [cleaner EXCEPT ![w] = d]
      BY <2>1, <3>1
    <3> QED BY <1>3, <3>2, <3>3
  <2>2. CASE /\ cleaner' = [cleaner EXCEPT ![w] = [@ EXCEPT !.at = "walls", !.alive = alive]]
             /\ cloud = "gcp" => \A m \in live : m.session \in alive
    <3>1. PICK c \in Cleanups : c = cleaner[w]
      BY <1>3
    <3>2. PICK d : d = [c EXCEPT !.at = "walls", !.alive = alive]
      OBVIOUS
    <3>3. d \in Cleanups /\ d.at = "walls" /\ d.alive = alive /\ d.had = cleaner[w].had
      BY <3>1, <3>2 DEF Cleanups
    <3>4. cleaner' = [cleaner EXCEPT ![w] = d]
      BY <2>2, <3>1, <3>2
    <3> QED BY <1>3, <2>2, <3>3, <3>4
  <2> QED BY <1>2, <2>1, <2>2
<1>5. HostTypeOK'
  BY <1>1, <1>4 DEF IInv, HostTypeOK
<1>6. \A m \in Machines : Seen(m)' => Seen(m)
  BY <1>1, <1>4 DEF Seen
<1>7. Fresh' /\ SavedOnce'
  BY <1>1, <1>6 DEF IInv, Fresh, SavedOnce, Launching
<1>8. WallsSpared'
  BY <1>1, <1>4 DEF IInv, WallsSpared
<1>9. EndingIsGone' /\ SweepAccounts'
  BY <1>1 DEF IInv, EndingIsGone, SweepAccounts, Recorded
<1>10. (CleanSweepLeavesNothing /\ ForgottenKeyMeansGone /\ LiveKeepsItsWall)'
  BY <1>1 DEF IInv, CleanSweepLeavesNothing, ForgottenKeyMeansGone, LiveKeepsItsWall, Recorded
<1> QED BY <1>5, <1>7, <1>8, <1>9, <1>10 DEF IInv

(* What is doomed belongs to none of the machines there when it began.     *)
LEMMA CleanWallsInv == ASSUME IInv, NEW w \in Cleaners, CleanWalls(w) PROVE IInv'
<1>1. /\ UNCHANGED <<cloud, live, walls, launch, record, ender, sweep, shut>>
      /\ cleaner[w].at = "walls"
      /\ cleaner' = [cleaner EXCEPT ![w].at = "delete", ![w].doomed = Doomed(w)]
  BY DEF CleanWalls, account
<1>2. cloud \in {"aws", "do", "gcp"} /\ Doomed(w) \subseteq Hosted
  BY DEF IInv, HostTypeOK, Doomed, Dropletless, Deserted
<1>3. cleaner \in [Cleaners -> Cleanups] /\ cleaner[w] \in Cleanups
  BY DEF IInv, HostTypeOK
<1>4. /\ cleaner' \in [Cleaners -> Cleanups]
      /\ \A v \in Cleaners \ {w} : cleaner'[v] = cleaner[v]
      /\ cleaner'[w].had = cleaner[w].had
      /\ cleaner'[w].at = "delete" /\ cleaner'[w].doomed = Doomed(w)
  <2>1. PICK c \in Cleanups : c = cleaner[w]
    BY <1>3
  <2>2. PICK d : d = [c EXCEPT !.at = "delete", !.doomed = Doomed(w)]
    OBVIOUS
  <2>3. d \in Cleanups /\ d.at = "delete" /\ d.doomed = Doomed(w) /\ d.had = cleaner[w].had
    BY <1>2, <2>1, <2>2 DEF Cleanups
  <2>4. cleaner' = [cleaner EXCEPT ![w] = [cleaner[w] EXCEPT !.at = "delete", !.doomed = Doomed(w)]]
    BY <1>1, <1>3
  <2>5. cleaner' = [cleaner EXCEPT ![w] = d]
    BY <2>1, <2>2, <2>4
  <2> QED BY <1>3, <2>3, <2>5
<1>5. cloud # "aws" => \A m \in live \cap cleaner[w].had : m.session \notin Doomed(w)
  <2> SUFFICES ASSUME cloud # "aws", NEW m \in live \cap cleaner[w].had PROVE m.session \notin Doomed(w)
    OBVIOUS
  <2>1. CASE cloud = "do"
    BY <2>1 DEF Doomed, Dropletless, Of
  <2>2. CASE cloud = "gcp"
    <3>1. m.session \in cleaner[w].alive
      BY <1>1, <2>2 DEF IInv, WallsSpared
    <3> QED BY <2>2, <3>1 DEF Doomed, Deserted
  <2> QED BY <1>2, <2>1, <2>2
<1>6. HostTypeOK'
  BY <1>1, <1>4 DEF IInv, HostTypeOK
<1>7. \A m \in Machines : Seen(m)' => Seen(m)
  BY <1>1, <1>4 DEF Seen
<1>8. Fresh' /\ SavedOnce'
  BY <1>1, <1>7 DEF IInv, Fresh, SavedOnce, Launching
<1>9. WallsSpared'
  BY <1>1, <1>4, <1>5 DEF IInv, WallsSpared
<1>10. EndingIsGone' /\ SweepAccounts'
  BY <1>1 DEF IInv, EndingIsGone, SweepAccounts, Recorded
<1>11. (CleanSweepLeavesNothing /\ ForgottenKeyMeansGone /\ LiveKeepsItsWall)'
  BY <1>1 DEF IInv, CleanSweepLeavesNothing, ForgottenKeyMeansGone, LiveKeepsItsWall, Recorded
<1> QED BY <1>6, <1>8, <1>9, <1>10, <1>11 DEF IInv

LEMMA CleanDeleteInv ==
    ASSUME IInv, NEW w \in Cleaners, NEW s \in Hosted, CleanDelete(w, s) PROVE IInv'
<1>1. /\ UNCHANGED <<cloud, live, launch, record, ender, sweep>>
      /\ cleaner[w].at = "delete" /\ s \in cleaner[w].doomed
      /\ cleaner' = [cleaner EXCEPT ![w].doomed = @ \ {s}]
      /\ walls' \subseteq walls
  BY DEF CleanDelete
<1>2. ~shut' /\ shut' \in BOOLEAN
  <2>1. ~shut /\ shut \in BOOLEAN
    BY DEF IInv, LiveKeepsItsWall, HostTypeOK
  <2>2. CASE cloud = "aws"
    BY <2>1, <2>2 DEF CleanDelete
  <2>3. CASE cloud # "aws"
    <3>1. \A m \in live \cap cleaner[w].had : m.session # s
      BY <1>1, <2>3 DEF IInv, WallsSpared
    <3>2. Of(s) \cap cleaner[w].had = {}
      BY <3>1 DEF Of
    <3> QED BY <2>1, <3>2 DEF CleanDelete
  <2> QED BY <2>2, <2>3
<1>3. cleaner \in [Cleaners -> Cleanups] /\ cleaner[w] \in Cleanups
  BY DEF IInv, HostTypeOK
<1>4. /\ cleaner' \in [Cleaners -> Cleanups]
      /\ \A v \in Cleaners : /\ cleaner'[v].at = cleaner[v].at /\ cleaner'[v].alive = cleaner[v].alive
                             /\ cleaner'[v].had = cleaner[v].had /\ cleaner'[v].doomed \subseteq cleaner[v].doomed
  <2> DEFINE rest == cleaner[w].doomed \ {s}
  <2>1. cleaner' = [cleaner EXCEPT ![w] = [cleaner[w] EXCEPT !.doomed = rest]] /\ rest \in SUBSET Hosted
    BY <1>1, <1>3 DEF Cleanups
  <2>2. PICK c \in Cleanups : c = cleaner[w]
    BY <1>3
  <2>3. PICK d : d = [c EXCEPT !.doomed = rest]
    OBVIOUS
  <2>4. /\ d \in Cleanups /\ d.at = c.at /\ d.alive = c.alive
        /\ d.doomed \subseteq c.doomed /\ d.had = c.had
    BY <2>1, <2>2, <2>3 DEF Cleanups
  <2>5. cleaner' = [cleaner EXCEPT ![w] = d]
    BY <2>1, <2>2, <2>3
  <2> QED BY <1>3, <2>2, <2>4, <2>5
<1>5. HostTypeOK'
  BY <1>1, <1>2, <1>4 DEF IInv, HostTypeOK
<1>6. \A m \in Machines : Seen(m)' => Seen(m)
  BY <1>1, <1>4 DEF Seen
<1>7. Fresh' /\ SavedOnce'
  BY <1>1, <1>6 DEF IInv, Fresh, SavedOnce, Launching
<1>8. WallsSpared'
  BY <1>1, <1>4 DEF IInv, WallsSpared
<1>9. EndingIsGone' /\ SweepAccounts'
  BY <1>1 DEF IInv, EndingIsGone, SweepAccounts, Recorded
<1>10. (CleanSweepLeavesNothing /\ ForgottenKeyMeansGone /\ LiveKeepsItsWall)'
  BY <1>1, <1>2 DEF IInv, CleanSweepLeavesNothing, ForgottenKeyMeansGone, LiveKeepsItsWall, Recorded
<1> QED BY <1>5, <1>7, <1>8, <1>9, <1>10 DEF IInv

-----------------------------------------------------------------------------
(* A cleanup that begins has found the machines there are.                 *)
LEMMA CleanBegun ==
    ASSUME HostTypeOK, NEW w \in Cleaners, CleanBegins(w, "begin")
    PROVE  /\ cleaner' \in [Cleaners -> Cleanups]
           /\ cleaner'[w].at = "begin" /\ cleaner'[w].had = live
           /\ \A v \in Cleaners \ {w} : cleaner'[v] = cleaner[v]
<1>1. PICK d : d = [NoCleanup EXCEPT !.at = "begin", !.had = live]
  OBVIOUS
<1>2. d \in Cleanups /\ d.at = "begin" /\ d.had = live
  BY <1>1 DEF HostTypeOK, Cleanups, NoCleanup
<1>3. cleaner \in [Cleaners -> Cleanups] /\ cleaner' = [cleaner EXCEPT ![w] = d]
  BY <1>1 DEF HostTypeOK, CleanBegins
<1> QED BY <1>2, <1>3

(* A step that only begins or ends a cleanup shows nobody anything new and *)
(* dooms no firewall.                                                      *)
LEMMA CleanupTurns ==
    ASSUME IInv, UNCHANGED <<cloud, live, launch, record>>,
           sweep'.had \subseteq live \cup sweep.had, sweep'.destroyed = sweep.destroyed,
           sweep'.cleared = sweep.cleared,
           cleaner' \in [Cleaners -> Cleanups],
           \A v \in Cleaners :
             \/ cleaner'[v] = cleaner[v]
             \/ cleaner'[v].at \in {"idle", "begin"} /\ cleaner'[v].had \subseteq live
    PROVE  Fresh' /\ WallsSpared'
<1>1. \A m \in Machines : Seen(m)' => Seen(m)
  BY DEF Seen
<1> QED BY <1>1 DEF IInv, Fresh, WallsSpared, Launching

(* The teardown of one session.                                            *)
LEMMA EndDestroysInv == ASSUME IInv, NEW s \in Hosted, EndDestroys(s) PROVE IInv'
<1>1. /\ UNCHANGED <<cloud, walls, launch, record, cleaner, sweep, shut>>
      /\ live' \subseteq live
      /\ ender' \in [Hosted -> {"idle", "verify", "close"}]
      /\ \A t \in Hosted \ {s} : ender'[t] = ender[t]
      /\ ender[s] = "idle" /\ record[s].status = "running"
      /\ ender'[s] = "idle" \/ Recorded(s) \notin live'
  BY DEF IInv, HostTypeOK, EndDestroys, Recorded
<1>2. HostTypeOK'
  BY <1>1 DEF IInv, HostTypeOK
<1>3. \A m \in Machines : Seen(m)' => Seen(m)
  BY <1>1 DEF Seen
<1>4. Fresh' /\ SavedOnce'
  BY <1>1, <1>3 DEF IInv, Fresh, SavedOnce, Launching
<1>5. EndingIsGone' /\ SweepAccounts' /\ WallsSpared'
  BY <1>1 DEF IInv, EndingIsGone, SweepAccounts, WallsSpared, Recorded
<1>6. (CleanSweepLeavesNothing /\ ForgottenKeyMeansGone /\ LiveKeepsItsWall)'
  BY <1>1 DEF IInv, CleanSweepLeavesNothing, ForgottenKeyMeansGone, LiveKeepsItsWall, Recorded
<1> QED BY <1>2, <1>4, <1>5, <1>6 DEF IInv

LEMMA EndVerifiesInv == ASSUME IInv, NEW s \in Hosted, EndVerifies(s) PROVE IInv'
<1>1. /\ UNCHANGED <<cloud, live, walls, launch, record, sweep, shut>>
      /\ ender[s] = "verify"
      /\ \/ ender' = [ender EXCEPT ![s] = "close"] /\ CleanBegins(s, "begin")
         \/ ender' = [ender EXCEPT ![s] = "idle"] /\ UNCHANGED cleaner
  BY DEF EndVerifies, account
<1>2. /\ cleaner' \in [Cleaners -> Cleanups]
      /\ \A v \in Cleaners : \/ cleaner'[v] = cleaner[v]
                             \/ cleaner'[v].at \in {"idle", "begin"} /\ cleaner'[v].had \subseteq live
  BY <1>1, CleanBegun DEF IInv, HostTypeOK, Cleaners
<1>3. /\ ender' \in [Hosted -> {"idle", "verify", "close"}]
      /\ \A t \in Hosted : ender'[t] # "idle" => ender[t] # "idle"
  BY <1>1 DEF IInv, HostTypeOK
<1>4. HostTypeOK'
  BY <1>1, <1>2, <1>3 DEF IInv, HostTypeOK
<1>5. Fresh' /\ WallsSpared'
  BY <1>1, <1>2, CleanupTurns
<1>6. SavedOnce' /\ EndingIsGone' /\ SweepAccounts'
  BY <1>1, <1>3 DEF IInv, HostTypeOK, SavedOnce, EndingIsGone, SweepAccounts, Recorded
<1>7. (CleanSweepLeavesNothing /\ ForgottenKeyMeansGone /\ LiveKeepsItsWall)'
  BY <1>1 DEF IInv, CleanSweepLeavesNothing, ForgottenKeyMeansGone, LiveKeepsItsWall, Recorded
<1> QED BY <1>4, <1>5, <1>6, <1>7 DEF IInv

LEMMA EndRetriesInv == ASSUME IInv, NEW s \in Hosted, EndRetries(s) PROVE IInv'
<1>1. UNCHANGED <<cloud, live, walls, launch, record, ender, sweep, shut>> /\ CleanBegins(s, "begin")
  BY DEF EndRetries, account
<1>2. /\ cleaner' \in [Cleaners -> Cleanups]
      /\ \A v \in Cleaners : \/ cleaner'[v] = cleaner[v]
                             \/ cleaner'[v].at \in {"idle", "begin"} /\ cleaner'[v].had \subseteq live
  BY <1>1, CleanBegun DEF IInv, Cleaners
<1>3. HostTypeOK'
  BY <1>1, <1>2 DEF IInv, HostTypeOK
<1>4. Fresh' /\ WallsSpared'
  BY <1>1, <1>2, CleanupTurns
<1>5. SavedOnce' /\ EndingIsGone' /\ SweepAccounts'
  BY <1>1 DEF IInv, SavedOnce, EndingIsGone, SweepAccounts, Recorded
<1>6. (CleanSweepLeavesNothing /\ ForgottenKeyMeansGone /\ LiveKeepsItsWall)'
  BY <1>1 DEF IInv, CleanSweepLeavesNothing, ForgottenKeyMeansGone, LiveKeepsItsWall, Recorded
<1> QED BY <1>3, <1>4, <1>5, <1>6 DEF IInv

(* Closing a record leaves the machine it names, and the others, alone.    *)
LEMMA RecordCloses ==
    ASSUME HostTypeOK, NEW s \in Hosted, NEW k \in BOOLEAN,
           record' = [record EXCEPT ![s].status = "ended", ![s].key = k]
    PROVE  /\ record' \in [Hosted -> [status : {"none", "running", "ended"}, no : 0 .. MAX_ATTEMPTS, key : BOOLEAN]]
           /\ record'[s].status = "ended" /\ record'[s].key = k
           /\ \A t \in Hosted : record'[t].no = record[t].no
           /\ \A t \in Hosted \ {s} : record'[t] = record[t]
<1> DEFINE Records == [status : {"none", "running", "ended"}, no : 0 .. MAX_ATTEMPTS, key : BOOLEAN]
<1>1. record \in [Hosted -> Records] /\ record[s] \in Records
  BY DEF HostTypeOK
<1>2. PICK c \in Records : c = record[s]
  BY <1>1
<1>3. PICK d : d = [c EXCEPT !.status = "ended", !.key = k]
  OBVIOUS
<1>4. d \in Records /\ d.status = "ended" /\ d.key = k /\ d.no = c.no
  BY <1>2, <1>3
<1>5. record' = [record EXCEPT ![s] = [record[s] EXCEPT !.status = "ended", !.key = k]]
  BY <1>1
<1>6. record' = [record EXCEPT ![s] = d]
  BY <1>2, <1>3, <1>5
<1> HIDE DEF Records
<1>7. record' \in [Hosted -> Records] /\ record'[s] = d /\ \A t \in Hosted \ {s} : record'[t] = record[t]
  BY <1>1, <1>4, <1>6
<1>8. \A t \in Hosted : record'[t].no = record[t].no
  BY <1>2, <1>4, <1>7
<1> QED BY <1>4, <1>7, <1>8 DEF Records

(* The key goes with the record of a machine the teardown destroyed.       *)
LEMMA EndMarksInv == ASSUME IInv, NEW s \in Hosted, EndMarks(s) PROVE IInv'
<1>1. /\ UNCHANGED <<cloud, live, walls, launch, sweep, shut>>
      /\ ender[s] = "close"
      /\ ender' = [ender EXCEPT ![s] = "idle"]
      /\ cleaner' = [cleaner EXCEPT ![s] = NoCleanup]
      /\ record' = [record EXCEPT ![s].status = "ended", ![s].key = FALSE]
  BY DEF EndMarks, account
<1>2. /\ record' \in [Hosted -> [status : {"none", "running", "ended"}, no : 0 .. MAX_ATTEMPTS, key : BOOLEAN]]
      /\ record'[s].status = "ended"
      /\ \A t \in Hosted : record'[t].no = record[t].no
      /\ \A t \in Hosted \ {s} : record'[t] = record[t]
  BY <1>1, RecordCloses DEF IInv
<1>3. /\ cleaner' \in [Cleaners -> Cleanups]
      /\ \A v \in Cleaners : \/ cleaner'[v] = cleaner[v]
                             \/ cleaner'[v].at \in {"idle", "begin"} /\ cleaner'[v].had \subseteq live
  BY <1>1 DEF IInv, HostTypeOK, Cleaners, Cleanups, NoCleanup
<1>4. /\ ender' \in [Hosted -> {"idle", "verify", "close"}] /\ ender'[s] = "idle"
      /\ \A t \in Hosted \ {s} : ender'[t] = ender[t]
  BY <1>1 DEF IInv, HostTypeOK
<1>5. HostTypeOK'
  BY <1>1, <1>2, <1>3, <1>4 DEF IInv, HostTypeOK
<1>6. \A m \in Machines : Seen(m)' => Seen(m)
  BY <1>1, <1>3 DEF Seen
<1>7. Fresh' /\ WallsSpared'
  BY <1>1, <1>3, <1>6 DEF IInv, Fresh, WallsSpared, Launching
<1>8. \A t \in Hosted : Recorded(t)' = Recorded(t)
  BY <1>2 DEF Recorded
<1>9. launch[s].at = "done"
  BY <1>1 DEF IInv, SavedOnce
<1>10. SavedOnce' /\ EndingIsGone' /\ SweepAccounts'
  BY <1>1, <1>2, <1>4, <1>8, <1>9 DEF IInv, SavedOnce, EndingIsGone, SweepAccounts
<1>11. ForgottenKeyMeansGone'
  BY <1>1, <1>2, <1>8 DEF IInv, EndingIsGone, ForgottenKeyMeansGone
<1>12. (CleanSweepLeavesNothing /\ LiveKeepsItsWall)'
  BY <1>1 DEF IInv, CleanSweepLeavesNothing, LiveKeepsItsWall
<1> QED BY <1>5, <1>7, <1>10, <1>11, <1>12 DEF IInv

-----------------------------------------------------------------------------
(* The sweep.                                                              *)
Sweeps == [at : {"idle", "destroy", "clean", "reconcile"}, found : SUBSET Machines,
           todo : SUBSET Machines, destroyed : SUBSET Machines, failed : SUBSET Machines,
           complete : BOOLEAN, read : SUBSET Hosted, had : SUBSET Machines, cleared : SUBSET Machines]

LEMMA SweepListsInv == ASSUME IInv, SweepLists PROVE IInv'
<1>1. UNCHANGED <<cloud, live, walls, launch, record, ender, cleaner, shut>>
  BY DEF SweepLists, account
<1>2. PICK l \in Listings(live) :
        sweep' = [NoSweep EXCEPT !.at = "destroy", !.found = l.seen, !.todo = l.seen,
                                 !.complete = l.complete, !.had = live]
  BY DEF SweepLists
<1>3. l.seen \in SUBSET live /\ l.complete \in BOOLEAN /\ (l.complete => l.seen = live)
  <2>1. \/ l = [seen |-> live, complete |-> TRUE]
        \/ \E S \in SUBSET live : l = [seen |-> S, complete |-> FALSE]
    BY <1>2 DEF Listings
  <2>2. CASE l = [seen |-> live, complete |-> TRUE]
    BY <2>2
  <2>3. CASE \E S \in SUBSET live : l = [seen |-> S, complete |-> FALSE]
    <3>1. PICK S \in SUBSET live : l = [seen |-> S, complete |-> FALSE]
      BY <2>3
    <3>2. l.seen = S /\ l.complete = FALSE
      BY <3>1
    <3> QED BY <3>2
  <2> QED BY <2>1, <2>2, <2>3
<1>4. /\ sweep' \in Sweeps
      /\ sweep'.at = "destroy" /\ sweep'.found = l.seen /\ sweep'.todo = l.seen /\ sweep'.destroyed = {}
      /\ sweep'.complete = l.complete /\ sweep'.had = live /\ sweep'.read = {} /\ sweep'.cleared = {}
  BY <1>2, <1>3 DEF Sweeps, NoSweep, IInv, HostTypeOK
<1>5. HostTypeOK'
  BY <1>1, <1>4 DEF IInv, HostTypeOK, Sweeps
<1>6. \A m \in Machines : Seen(m)' => Seen(m)
  BY <1>1, <1>4 DEF Seen
<1>7. Fresh' /\ WallsSpared'
  BY <1>1, <1>6 DEF IInv, Fresh, WallsSpared, Launching
<1>8. SavedOnce' /\ EndingIsGone'
  BY <1>1, <1>4 DEF IInv, SavedOnce, EndingIsGone, Recorded
<1>9. SweepAccounts'
  BY <1>1, <1>3, <1>4 DEF SweepAccounts
<1>10. (CleanSweepLeavesNothing /\ ForgottenKeyMeansGone /\ LiveKeepsItsWall)'
  BY <1>1, <1>4 DEF IInv, CleanSweepLeavesNothing, ForgottenKeyMeansGone, LiveKeepsItsWall, Recorded
<1> QED BY <1>5, <1>7, <1>8, <1>9, <1>10 DEF IInv

LEMMA SweepDestroysInv == ASSUME IInv, NEW m \in Machines, SweepDestroys(m) PROVE IInv'
<1>1. /\ UNCHANGED <<cloud, walls, launch, record, ender, cleaner, shut>>
      /\ live' \subseteq live /\ sweep.at = "destroy"
      /\ \/ /\ m \in live /\ live' = live \ {m}
            /\ sweep' = [sweep EXCEPT !.todo = @ \ {m}, !.destroyed = @ \cup {m}]
         \/ sweep' = [sweep EXCEPT !.todo = @ \ {m}, !.failed = @ \cup {m}]
  BY DEF SweepDestroys
<1>2. sweep \in Sweeps
  BY DEF IInv, HostTypeOK, Sweeps
<1>3. /\ sweep' \in Sweeps
      /\ sweep'.at = "destroy" /\ sweep'.found = sweep.found /\ sweep'.todo = sweep.todo \ {m}
      /\ sweep'.complete = sweep.complete /\ sweep'.had = sweep.had
      /\ sweep'.read = sweep.read /\ sweep'.cleared = sweep.cleared
      /\ \/ m \in live /\ m \notin live' /\ sweep'.destroyed = sweep.destroyed \cup {m} /\ sweep'.failed = sweep.failed
         \/ sweep'.destroyed = sweep.destroyed /\ sweep'.failed = sweep.failed \cup {m}
  <2>1. CASE /\ m \in live /\ live' = live \ {m}
             /\ sweep' = [sweep EXCEPT !.todo = @ \ {m}, !.destroyed = @ \cup {m}]
    <3>1. sweep' \in Sweeps
      BY <1>2, <2>1 DEF Sweeps
    <3> QED BY <1>1, <1>2, <2>1, <3>1 DEF Sweeps
  <2>2. CASE sweep' = [sweep EXCEPT !.todo = @ \ {m}, !.failed = @ \cup {m}]
    <3>1. sweep' \in Sweeps
      BY <1>2, <2>2 DEF Sweeps
    <3> QED BY <1>1, <1>2, <2>2, <3>1 DEF Sweeps
  <2> QED BY <1>1, <2>1, <2>2
<1>4. HostTypeOK'
  BY <1>1, <1>3 DEF IInv, HostTypeOK, Sweeps
<1>5. \A k \in Machines : Seen(k)' => Seen(k)
  BY <1>1, <1>3 DEF Seen
<1>6. Fresh' /\ WallsSpared'
  BY <1>1, <1>5 DEF IInv, Fresh, WallsSpared, Launching
<1>7. SavedOnce' /\ EndingIsGone'
  BY <1>1, <1>3 DEF IInv, SavedOnce, EndingIsGone, Recorded
<1>8. SweepAccounts'
  BY <1>1, <1>3 DEF IInv, SweepAccounts
<1>9. (CleanSweepLeavesNothing /\ ForgottenKeyMeansGone /\ LiveKeepsItsWall)'
  BY <1>1, <1>3 DEF IInv, CleanSweepLeavesNothing, ForgottenKeyMeansGone, LiveKeepsItsWall, Recorded
<1> QED BY <1>4, <1>6, <1>7, <1>8, <1>9 DEF IInv

LEMMA SweepCleansInv == ASSUME IInv, SweepCleans PROVE IInv'
<1>1. /\ UNCHANGED <<cloud, live, walls, launch, record, ender, shut>>
      /\ sweep.todo = {} /\ sweep' = [sweep EXCEPT !.at = "clean"]
      /\ CleanBegins(Sweeper, "begin")
  BY DEF SweepCleans, account
<1>2. /\ cleaner' \in [Cleaners -> Cleanups]
      /\ \A v \in Cleaners : \/ cleaner'[v] = cleaner[v]
                             \/ cleaner'[v].at \in {"idle", "begin"} /\ cleaner'[v].had \subseteq live
  BY <1>1, CleanBegun DEF IInv, Cleaners
<1>3. /\ sweep' \in Sweeps
      /\ sweep'.at = "clean" /\ sweep'.found = sweep.found /\ sweep'.todo = sweep.todo
      /\ sweep'.complete = sweep.complete /\ sweep'.had = sweep.had
      /\ sweep'.read = sweep.read /\ sweep'.cleared = sweep.cleared
      /\ sweep'.destroyed = sweep.destroyed /\ sweep'.failed = sweep.failed
  BY <1>1 DEF IInv, HostTypeOK, Sweeps
<1>4. HostTypeOK'
  BY <1>1, <1>2, <1>3 DEF IInv, HostTypeOK, Sweeps
<1>5. Fresh' /\ WallsSpared'
  BY <1>1, <1>2, <1>3, CleanupTurns
<1>6. SavedOnce' /\ EndingIsGone' /\ SweepAccounts'
  BY <1>1, <1>3 DEF IInv, SavedOnce, EndingIsGone, SweepAccounts, Recorded
<1>7. (CleanSweepLeavesNothing /\ ForgottenKeyMeansGone /\ LiveKeepsItsWall)'
  BY <1>1, <1>3 DEF IInv, CleanSweepLeavesNothing, ForgottenKeyMeansGone, LiveKeepsItsWall, Recorded
<1> QED BY <1>4, <1>5, <1>6, <1>7 DEF IInv

LEMMA SweepReadsInv == ASSUME IInv, SweepReads PROVE IInv'
<1> DEFINE running == {s \in Hosted : record[s].status = "running"}
<1>1. /\ UNCHANGED <<cloud, live, walls, launch, record, ender, shut>>
      /\ sweep.at = "clean" /\ sweep' = [sweep EXCEPT !.at = "reconcile", !.read = running]
      /\ cleaner' = [cleaner EXCEPT ![Sweeper] = NoCleanup]
  BY DEF SweepReads, account
<1>2. /\ cleaner' \in [Cleaners -> Cleanups]
      /\ \A v \in Cleaners : \/ cleaner'[v] = cleaner[v]
                             \/ cleaner'[v].at \in {"idle", "begin"} /\ cleaner'[v].had \subseteq live
  BY <1>1 DEF IInv, HostTypeOK, Cleaners, Cleanups, NoCleanup
<1>3. /\ sweep' \in Sweeps
      /\ sweep'.at = "reconcile" /\ sweep'.found = sweep.found /\ sweep'.todo = sweep.todo
      /\ sweep'.complete = sweep.complete /\ sweep'.had = sweep.had
      /\ sweep'.read = running /\ sweep'.cleared = sweep.cleared
      /\ sweep'.destroyed = sweep.destroyed /\ sweep'.failed = sweep.failed
  BY <1>1 DEF IInv, HostTypeOK, Sweeps
<1>4. HostTypeOK'
  BY <1>1, <1>2, <1>3 DEF IInv, HostTypeOK, Sweeps
<1>5. Fresh' /\ WallsSpared'
  BY <1>1, <1>2, <1>3, CleanupTurns
<1>6. SavedOnce' /\ EndingIsGone' /\ SweepAccounts'
  BY <1>1, <1>3 DEF IInv, SavedOnce, EndingIsGone, SweepAccounts, Recorded
<1>7. (CleanSweepLeavesNothing /\ ForgottenKeyMeansGone /\ LiveKeepsItsWall)'
  BY <1>1, <1>3 DEF IInv, CleanSweepLeavesNothing, ForgottenKeyMeansGone, LiveKeepsItsWall, Recorded
<1> QED BY <1>4, <1>5, <1>6, <1>7 DEF IInv

(* A key is forgotten only for a machine this sweep destroyed itself.      *)
LEMMA SweepReconcilesInv == ASSUME IInv, NEW s \in Hosted, SweepReconciles(s) PROVE IInv'
<1>1. /\ UNCHANGED <<cloud, live, walls, launch, ender, cleaner, shut>>
      /\ s \in sweep.read /\ sweep' = [sweep EXCEPT !.read = @ \ {s}]
  BY DEF SweepReconciles, account
<1>2. /\ sweep' \in Sweeps
      /\ sweep'.at = sweep.at /\ sweep'.found = sweep.found /\ sweep'.todo = sweep.todo
      /\ sweep'.complete = sweep.complete /\ sweep'.had = sweep.had
      /\ sweep'.read \subseteq sweep.read /\ sweep'.cleared = sweep.cleared
      /\ sweep'.destroyed = sweep.destroyed /\ sweep'.failed = sweep.failed
  BY <1>1 DEF IInv, HostTypeOK, Sweeps
<1>3. /\ record' \in [Hosted -> [status : {"none", "running", "ended"}, no : 0 .. MAX_ATTEMPTS, key : BOOLEAN]]
      /\ \A t \in Hosted : record'[t].no = record[t].no
      /\ \A t \in Hosted \ {s} : record'[t] = record[t]
      /\ \/ record' = record
         \/ record'[s].status = "ended" /\ (record'[s].key \/ IsDestroyed(s))
  <2>1. CASE IsDestroyed(s)
    <3>1. record' = [record EXCEPT ![s].status = "ended", ![s].key = FALSE]
      BY <2>1 DEF SweepReconciles
    <3> QED BY <2>1, <3>1, RecordCloses DEF IInv
  <2>2. CASE ~IsDestroyed(s) /\ IsUnlisted(s)
    <3>1. record' = [record EXCEPT ![s].status = "ended", ![s].key = TRUE]
      BY <2>2 DEF SweepReconciles, UnlistedKey
    <3> QED BY <3>1, RecordCloses DEF IInv
  <2>3. CASE ~IsDestroyed(s) /\ ~IsUnlisted(s)
    <3>1. record' = record
      BY <2>3 DEF SweepReconciles
    <3> QED BY <3>1 DEF IInv, HostTypeOK
  <2> QED BY <2>1, <2>2, <2>3
<1>4. HostTypeOK'
  BY <1>1, <1>2, <1>3 DEF IInv, HostTypeOK, Sweeps
<1>5. \A m \in Machines : Seen(m)' => Seen(m)
  BY <1>1, <1>2 DEF Seen
<1>6. Fresh' /\ WallsSpared'
  BY <1>1, <1>5 DEF IInv, Fresh, WallsSpared, Launching
<1>7. \A t \in Hosted : Recorded(t)' = Recorded(t)
  BY <1>3 DEF Recorded
<1>8. launch[s].at = "done"
  BY <1>1 DEF IInv, SavedOnce
<1>9. SavedOnce'
  BY <1>1, <1>2, <1>3, <1>8 DEF IInv, SavedOnce
<1>10. EndingIsGone' /\ SweepAccounts'
  BY <1>1, <1>2, <1>7 DEF IInv, EndingIsGone, SweepAccounts
<1>11. ForgottenKeyMeansGone'
  <2>1. IsDestroyed(s) => Recorded(s) \notin live
    BY DEF IInv, SweepAccounts, IsDestroyed
  <2> QED BY <1>1, <1>3, <1>7, <2>1 DEF IInv, ForgottenKeyMeansGone
<1>12. (CleanSweepLeavesNothing /\ LiveKeepsItsWall)'
  BY <1>1, <1>2 DEF IInv, CleanSweepLeavesNothing, LiveKeepsItsWall
<1> QED BY <1>4, <1>6, <1>9, <1>10, <1>11, <1>12 DEF IInv

(* Complete, with nothing to do and nothing failed: all it had is destroyed. *)
LEMMA SweepReportsInv == ASSUME IInv, SweepReports PROVE IInv'
<1>1. /\ UNCHANGED <<cloud, live, walls, launch, record, ender, cleaner, shut>>
      /\ sweep.at = "reconcile"
      /\ sweep' = [NoSweep EXCEPT !.cleared = IF IsClean THEN sweep.had ELSE {}]
  BY DEF SweepReports, account
<1>2. PICK gone : gone = IF IsClean THEN sweep.had ELSE {}
  OBVIOUS
<1>3. gone \in SUBSET Machines /\ gone \subseteq sweep.had /\ gone \cap live = {}
  BY <1>1, <1>2 DEF IInv, HostTypeOK, SweepAccounts, IsClean
<1>4. sweep' = [NoSweep EXCEPT !.cleared = gone]
  BY <1>1, <1>2
<1>5. /\ sweep' \in Sweeps
      /\ sweep'.at = "idle" /\ sweep'.found = {} /\ sweep'.todo = {} /\ sweep'.destroyed = {}
      /\ sweep'.had = {} /\ sweep'.read = {} /\ sweep'.cleared = gone
  BY <1>3, <1>4 DEF Sweeps, NoSweep
<1>6. HostTypeOK'
  BY <1>1, <1>5 DEF IInv, HostTypeOK, Sweeps
<1>7. \A m \in Machines : Seen(m)' => Seen(m)
  BY <1>1, <1>3, <1>5 DEF Seen
<1>8. Fresh' /\ WallsSpared'
  BY <1>1, <1>7 DEF IInv, Fresh, WallsSpared, Launching
<1>9. SavedOnce' /\ EndingIsGone' /\ SweepAccounts'
  BY <1>1, <1>5 DEF IInv, SavedOnce, EndingIsGone, SweepAccounts, Recorded
<1>10. (CleanSweepLeavesNothing /\ ForgottenKeyMeansGone /\ LiveKeepsItsWall)'
  BY <1>1, <1>3, <1>5 DEF IInv, CleanSweepLeavesNothing, ForgottenKeyMeansGone, LiveKeepsItsWall, Recorded
<1> QED BY <1>6, <1>8, <1>9, <1>10 DEF IInv

-----------------------------------------------------------------------------
LEMMA StutterInv == ASSUME IInv, UNCHANGED hostVars PROVE IInv'
<1>1. UNCHANGED <<cloud, live, walls, launch, record, ender, cleaner, sweep, shut>>
  BY DEF hostVars
<1>2. \A m \in Machines : Seen(m)' => Seen(m)
  BY <1>1 DEF Seen
<1>3. HostTypeOK' /\ SavedOnce'
  BY <1>1 DEF IInv, HostTypeOK, SavedOnce
<1>4. Fresh' /\ WallsSpared'
  BY <1>1, <1>2 DEF IInv, Fresh, WallsSpared, Launching
<1>5. EndingIsGone' /\ SweepAccounts'
  BY <1>1 DEF IInv, EndingIsGone, SweepAccounts, Recorded
<1>6. (CleanSweepLeavesNothing /\ ForgottenKeyMeansGone /\ LiveKeepsItsWall)'
  BY <1>1 DEF IInv, CleanSweepLeavesNothing, ForgottenKeyMeansGone, LiveKeepsItsWall, Recorded
<1> QED BY <1>3, <1>4, <1>5, <1>6 DEF IInv

(* No step of a launch, a teardown, a sweep, a cleanup or a machine breaks *)
(* the invariant, in whatever order their requests reach the provider.     *)
THEOREM HostInvariant == HostSpec => []IInv
<1>1. IInv /\ [HostNext]_hostVars => IInv'
  <2> SUFFICES ASSUME IInv, [HostNext]_hostVars PROVE IInv'
    OBVIOUS
  <2>1. ASSUME NEW s \in Hosted,
               \/ EnsureFirewall(s) \/ Create(s) \/ LaunchFails(s) \/ SaveRecord(s)
               \/ EndDestroys(s) \/ EndVerifies(s) \/ EndRetries(s) \/ EndMarks(s)
               \/ SweepReconciles(s)
        PROVE  IInv'
    BY <2>1, EnsureFirewallInv, CreateInv, LaunchFailsInv, SaveRecordInv,
       EndDestroysInv, EndVerifiesInv, EndRetriesInv, EndMarksInv, SweepReconcilesInv
  <2>2. ASSUME NEW m \in Machines, SelfDestructs(m) \/ SweepDestroys(m) PROVE IInv'
    BY <2>2, SelfDestructsInv, SweepDestroysInv
  <2>3. ASSUME NEW w \in Cleaners,
               CleanSessions(w) \/ CleanWalls(w) \/ (\E s \in Hosted : CleanDelete(w, s))
        PROVE  IInv'
    BY <2>3, CleanSessionsInv, CleanWallsInv, CleanDeleteInv
  <2>4. ASSUME SweepLists \/ SweepCleans \/ SweepReads \/ SweepReports PROVE IInv'
    BY <2>4, SweepListsInv, SweepCleansInv, SweepReadsInv, SweepReportsInv
  <2>5. ASSUME UNCHANGED hostVars PROVE IInv'
    BY <2>5, StutterInv
  <2> QED BY <2>1, <2>2, <2>3, <2>4, <2>5 DEF HostNext
<1> QED BY <1>1, InitInv, PTL DEF HostSpec

(* A sweep that reports a clean account is right: whatever launches,       *)
(* teardowns and timers did meanwhile, no machine that existed when it     *)
(* listed the account exists once it has reported (sweeper.rs, is_clean).  *)
THEOREM CleanSweepHolds == HostSpec => []CleanSweepLeavesNothing
<1>1. IInv => CleanSweepLeavesNothing
  BY DEF IInv
<1> QED BY <1>1, HostInvariant, PTL

(* The issuer key of a session is forgotten only once the machine its      *)
(* record names is gone, and it stays gone (state.rs, mark_ended).         *)
THEOREM ForgottenKeyHolds == HostSpec => []ForgottenKeyMeansGone
<1>1. IInv => ForgottenKeyMeansGone
  BY DEF IInv
<1> QED BY <1>1, HostInvariant, PTL

(* No cleanup takes the firewall of a machine that was there when it began *)
(* (the three destroy_orphan_firewalls).                                   *)
THEOREM WallsHold == HostSpec => []LiveKeepsItsWall
<1>1. IInv => LiveKeepsItsWall
  BY DEF IInv
<1> QED BY <1>1, HostInvariant, PTL
=============================================================================
