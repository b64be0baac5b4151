---------------------------- MODULE CloudProofs ----------------------------
(***************************************************************************)
(* What a host starts and must be able to stop.  A session machine ends    *)
(* within its cap and is never ended early, for every cap, window and      *)
(* ceiling; the wizard launches what it surveyed; the local provider kills *)
(* no stranger and loses no server, for any number of host programs; a     *)
(* bucket's rules stand, for any number of sessions.                       *)
(***************************************************************************)
EXTENDS SessionVm, HostWizard, LocalServer, BucketRules, DataLemmas, FiniteSetTheorems, TLAPS

AtMostOne(S) == {{}} \cup {{x} : x \in S}

VmTypeOK ==
    /\ vm \in [provider : Providers, power : {"on", "off", "gone"},
               boot : {"begin", "armed", "done", "failed"}, guarded : BOOLEAN,
               up : Nat, due : SUBSET {"beat", "guard", "provider"}]
    /\ files \in [stamp : AtMostOne(Int), guardStamp : AtMostOne(Int), activeUp : AtMostOne(Nat),
                  deferUp : AtMostOne(Nat), uploads : BOOLEAN]
    /\ server \in [run : {"up", "down"}, mono : Nat, skew0 : Int, idleSince : SUBSET Int, band : BOOLEAN]
    /\ clock \in [skew : Int, steps : Nat, crashes : Nat]
    /\ past \in [quiet : Int, waited : Nat, empty : Nat, early : BOOLEAN, short : BOOLEAN]

(* What is due belongs to what runs, and what runs to how far the boot is. *)
(* Only a Compute Engine machine outlives a bootstrap that failed.         *)
BootOrder ==
    /\ vm.boot \in {"armed", "done"} => vm.guarded
    /\ vm.boot = "failed" => vm.provider = "gcp"
    /\ vm.boot = "begin" => vm.up <= ARM_MIN /\ ~vm.guarded
    /\ server.run = "up" \/ files.uploads => vm.boot = "done"
    /\ "beat" \in vm.due => server.run = "up"
    /\ "guard" \in vm.due => vm.guarded /\ vm.up >= 2
    /\ vm.guarded => files.stamp # {}
    /\ files.guardStamp # {} \/ files.deferUp # {} => vm.guarded /\ vm.up >= 2
    /\ files.deferUp # {} => vm.boot = "done"

(* The provider's own limit is due at the cap; otherwise the guard ran at  *)
(* the cap and has been putting the end off since then at the latest.      *)
CapHolds ==
    /\ vm.provider = "gcp" => vm.up <= MAX_MIN /\ (vm.up = MAX_MIN => "provider" \in vm.due)
    /\ \A since \in files.deferUp : since <= vm.up
    /\ vm.provider # "gcp" /\ vm.up >= MAX_MIN /\ ~(vm.up = MAX_MIN /\ "guard" \in vm.due) =>
         \E since \in files.deferUp :
           /\ since <= MAX_MIN /\ vm.up - since <= CEILING_MIN
           /\ "guard" \notin vm.due => vm.up - since < CEILING_MIN

(* Every run of the guard since the first to find its reason has waited,   *)
(* unless it has waited out the ceiling or has nothing left to wait for.   *)
WaitsCounted ==
    \A since \in files.deferUp :
      \/ past.waited >= CEILING_MIN
      \/ server.run = "down" /\ ~files.uploads
      \/ past.waited >= vm.up - since /\ ("guard" \notin vm.due => past.waited > vm.up - since)

(* A stamp was put down at minute b with the wall clock at skew d, after k *)
(* of its steps.  A heartbeat still due will put down a later one.         *)
PutDown(stamp, b, d, k) ==
    /\ stamp = {b + d}
    /\ b <= vm.up /\ ("beat" \in vm.due => b < vm.up)
    /\ k <= clock.steps /\ (k = clock.steps => d = clock.skew)

(* The band has played in c minutes since the guard ran, if it has played  *)
(* the stamp is a later one, and every other minute is counted as quiet:   *)
(* all but two for each step of the clock that hid the playing.            *)
Accounted(a, b0, d0, k0, b, d, k, c) ==
    /\ PutDown(files.guardStamp, b0, d0, k0) /\ PutDown(files.stamp, b, d, k)
    /\ c <= (IF "guard" \in vm.due THEN 1 ELSE 0) + (IF "beat" \in vm.due THEN 0 ELSE 1)
    /\ c > 0 => b0 < b /\ k0 <= k /\ (k0 = k => d0 = d)
    /\ c = 0 => b0 = b /\ d0 = d /\ k0 = k
    /\ files.activeUp = {a} /\ past.quiet >= vm.up - a - (2 * k0 + c)

QuietCounted ==
    /\ files.stamp # {} => \E b \in Nat, d \in Int, k \in Nat : PutDown(files.stamp, b, d, k)
    /\ files.guardStamp # {} =>
         \E a, b0, k0, b, k \in Nat, d0, d \in Int, c \in 0 .. 2 : Accounted(a, b0, d0, k0, b, d, k, c)

VmIInv ==
    /\ VmTypeOK /\ GuardIsFair
    /\ vm.power = "off" => vm.provider = "do"
    /\ On => BootOrder /\ CapHolds /\ WaitsCounted /\ QuietCounted

LEMMA VmInitial == VmInit => VmIInv
<1> SUFFICES ASSUME VmInit PROVE VmIInv
  OBVIOUS
<1> USE VmAssumption
<1>1. VmTypeOK
  BY DEF VmInit, VmTypeOK, AtMostOne, Stopped
<1>2. BootOrder
  BY DEF VmInit, BootOrder, Stopped
<1>3. CapHolds
  BY DEF VmInit, CapHolds
<1>4. WaitsCounted /\ QuietCounted
  BY DEF VmInit, WaitsCounted, QuietCounted
<1>5. GuardIsFair /\ vm.power = "on"
  BY DEF VmInit, GuardIsFair
<1> QED BY <1>1, <1>2, <1>3, <1>4, <1>5 DEF VmIInv

(* Whatever leaves the stamps, the guard's count and the clocks alone      *)
(* keeps the account of the quiet minutes, a heartbeat taken away too.     *)
LEMMA QuietKept ==
  ASSUME VmTypeOK, QuietCounted,
         files'.stamp = files.stamp, files'.guardStamp = files.guardStamp,
         files'.activeUp = files.activeUp, clock'.skew = clock.skew, clock'.steps = clock.steps, past'.quiet = past.quiet,
         vm'.up = vm.up, vm'.due \in {vm.due, vm.due \ {"beat"}}
  PROVE  QuietCounted'
<1>1. ASSUME NEW s, NEW b \in Nat, NEW d \in Int, NEW k \in Nat, PutDown(s, b, d, k)
      PROVE  PutDown(s, b, d, k)'
  BY <1>1 DEF PutDown
<1>2. ASSUME NEW a \in Nat, NEW b0 \in Nat, NEW d0 \in Int, NEW k0 \in Nat,
             NEW b \in Nat, NEW d \in Int, NEW k \in Nat, NEW c \in 0 .. 2,
             Accounted(a, b0, d0, k0, b, d, k, c)
      PROVE  Accounted(a, b0, d0, k0, b, d, k, c)'
  BY <1>1, <1>2 DEF Accounted, PutDown
<1>3. files.stamp # {} => \E b \in Nat, d \in Int, k \in Nat : PutDown(files.stamp, b, d, k)'
  BY <1>1 DEF QuietCounted
<1>4. files.guardStamp # {} =>
        \E a, b0, k0, b, k \in Nat, d0, d \in Int, c \in 0 .. 2 : Accounted(a, b0, d0, k0, b, d, k, c)'
  <2> SUFFICES ASSUME files.guardStamp # {}
               PROVE  \E a, b0, k0, b, k \in Nat, d0, d \in Int, c \in 0 .. 2 :
                        Accounted(a, b0, d0, k0, b, d, k, c)'
    OBVIOUS
  <2>1. PICK a \in Nat, b0 \in Nat, k0 \in Nat, b \in Nat, k \in Nat,
             d0 \in Int, d \in Int, c \in 0 .. 2 : Accounted(a, b0, d0, k0, b, d, k, c)
    BY DEF QuietCounted
  <2>2. Accounted(a, b0, d0, k0, b, d, k, c)'
    BY <1>2, <2>1
  <2> QED BY <2>2
<1> QED BY <1>3, <1>4 DEF QuietCounted, PutDown

LEMMA BootArmsKeeps == ASSUME VmIInv, BootArms PROVE VmIInv'
<1> USE VmAssumption
<1>0. VmTypeOK /\ GuardIsFair /\ BootOrder /\ CapHolds /\ WaitsCounted /\ QuietCounted
  BY DEF VmIInv, BootArms
<1>1. /\ vm.power = "on" /\ vm.boot = "begin" /\ "beat" \notin vm.due /\ "guard" \notin vm.due
      /\ files.guardStamp = {} /\ files.deferUp = {} /\ vm.up <= ARM_MIN /\ ~files.uploads
  BY <1>0 DEF BootArms, BootOrder, On
<1>2. /\ vm'.power = "on" /\ vm'.boot = "armed" /\ vm'.guarded /\ vm'.up = vm.up /\ vm'.due = vm.due
      /\ vm'.provider = vm.provider /\ files' = [files EXCEPT !.stamp = {Wall}]
      /\ server' = server /\ clock' = clock /\ past' = past
  BY <1>0, <1>1 DEF BootArms, VmTypeOK
<1>3. /\ files'.stamp = {vm.up + clock.skew} /\ files'.guardStamp = {} /\ files'.deferUp = {}
      /\ files'.uploads = files.uploads
  BY <1>0, <1>1, <1>2 DEF VmTypeOK, Wall
<1>4. VmTypeOK'
  <2>1. {Wall} \in AtMostOne(Int)
    BY <1>0 DEF VmTypeOK, AtMostOne, Wall
  <2>2. vm' \in [provider : Providers, power : {"on", "off", "gone"},
                 boot : {"begin", "armed", "done", "failed"}, guarded : BOOLEAN,
                 up : Nat, due : SUBSET {"beat", "guard", "provider"}]
    BY <1>0 DEF VmTypeOK, BootArms
  <2>3. files' \in [stamp : AtMostOne(Int), guardStamp : AtMostOne(Int), activeUp : AtMostOne(Nat),
                    deferUp : AtMostOne(Nat), uploads : BOOLEAN]
    BY <1>0, <1>2, <2>1 DEF VmTypeOK
  <2> QED BY <1>0, <1>2, <2>2, <2>3 DEF VmTypeOK
<1>5. BootOrder'
  BY <1>0, <1>1, <1>2, <1>3 DEF BootOrder
<1>6. CapHolds'
  BY <1>0, <1>1, <1>2, <1>3 DEF CapHolds, VmTypeOK
<1>7. WaitsCounted'
  BY <1>3 DEF WaitsCounted
<1>8. QuietCounted'
  <2>1. PICK b \in Nat, d \in Int, k \in Nat : b = vm.up /\ d = clock.skew /\ k = clock.steps
    BY <1>0 DEF VmTypeOK
  <2>2. files'.stamp = {b + d}
    BY <2>1, <1>3
  <2>3. b = vm'.up /\ "beat" \notin vm'.due /\ k = clock'.steps /\ d = clock'.skew
    BY <2>1, <1>1, <1>2
  <2>4. PutDown(files.stamp, b, d, k)'
    BY <2>2, <2>3 DEF PutDown
  <2> QED BY <2>1, <2>4, <1>3 DEF QuietCounted
<1> QED BY <1>0, <1>2, <1>4, <1>5, <1>6, <1>7, <1>8 DEF VmIInv, GuardIsFair

LEMMA BootServesKeeps == ASSUME VmIInv, BootServes PROVE VmIInv'
<1> USE VmAssumption
<1>0. VmTypeOK /\ GuardIsFair /\ BootOrder /\ CapHolds /\ WaitsCounted /\ QuietCounted
  BY DEF VmIInv, BootServes
<1>1. /\ vm'.power = "on" /\ vm'.boot = "done" /\ vm'.guarded = vm.guarded /\ vm'.up = vm.up
      /\ vm'.due = vm.due /\ vm'.provider = vm.provider /\ vm.boot = "armed"
      /\ files' = files /\ clock' = clock /\ server'.run = "up"
      /\ past'.quiet = past.quiet /\ past'.waited = past.waited
      /\ past'.early = past.early /\ past'.short = past.short
  BY <1>0 DEF BootServes, VmTypeOK, On, Fresh
<1>2. VmTypeOK'
  BY <1>0 DEF VmTypeOK, BootServes, Fresh
<1>3. BootOrder' /\ CapHolds'
  BY <1>0, <1>1 DEF BootOrder, CapHolds
<1>4. WaitsCounted'
  BY <1>0, <1>1 DEF BootOrder, WaitsCounted
<1>5. QuietCounted'
  BY <1>0, <1>1, QuietKept
<1> QED BY <1>0, <1>1, <1>2, <1>3, <1>4, <1>5 DEF VmIInv, GuardIsFair

(* A machine its self-destruct leaves on is a Compute Engine one.          *)
LEMMA AfterIt ==
  ASSUME VmTypeOK, NEW due \in SUBSET {"beat", "guard", "provider"},
         NEW boot \in {"begin", "armed", "done", "failed"}, SelfDestruct(due, boot)
  PROVE  /\ vm' \in [provider : Providers, power : {"on", "off", "gone"},
                    boot : {"begin", "armed", "done", "failed"}, guarded : BOOLEAN,
                    up : Nat, due : SUBSET {"beat", "guard", "provider"}]
         /\ vm'.provider = vm.provider /\ vm'.guarded = vm.guarded /\ vm'.up = vm.up
         /\ vm'.due = due \ {"beat"} /\ vm'.boot = boot /\ server' = Stopped
         /\ vm'.power \in {"on", "off", "gone"}
         /\ vm'.power = "on" => vm.provider = "gcp"
         /\ vm'.power = "off" => vm.provider = "do"
<1>1. vm.provider \in {"aws", "do", "gcp"}
  BY VmAssumption DEF VmTypeOK
<1>2. PICK power \in AfterSelfDestruct :
        vm' = [vm EXCEPT !.power = power, !.due = due \ {"beat"}, !.boot = boot]
  BY DEF SelfDestruct
<1>3. /\ power \in {"on", "off", "gone"}
      /\ power = "on" => vm.provider = "gcp"
      /\ power = "off" => vm.provider = "do"
  BY <1>1, <1>2 DEF AfterSelfDestruct
<1> QED BY <1>2, <1>3 DEF VmTypeOK, SelfDestruct

LEMMA BootFailsKeeps == ASSUME VmIInv, BootFails PROVE VmIInv'
<1> USE VmAssumption
<1>0. VmTypeOK /\ GuardIsFair /\ BootOrder /\ CapHolds /\ WaitsCounted /\ QuietCounted
  BY DEF VmIInv, BootFails
<1>1. /\ vm' \in [provider : Providers, power : {"on", "off", "gone"},
                 boot : {"begin", "armed", "done", "failed"}, guarded : BOOLEAN,
                 up : Nat, due : SUBSET {"beat", "guard", "provider"}]
      /\ vm'.provider = vm.provider /\ vm'.guarded = vm.guarded /\ vm'.up = vm.up
      /\ vm'.due = vm.due \ {"beat"} /\ vm'.boot = "failed" /\ server' = Stopped
      /\ vm'.power \in {"on", "off", "gone"}
      /\ vm'.power = "on" => vm.provider = "gcp"
      /\ vm'.power = "off" => vm.provider = "do"
      /\ vm.boot \in {"begin", "armed"} /\ files' = files /\ clock' = clock /\ past' = past
  <2>1. vm.due \in SUBSET {"beat", "guard", "provider"}
    BY <1>0 DEF VmTypeOK
  <2> QED BY <1>0, <2>1, AfterIt DEF BootFails
<1>2. VmTypeOK'
  BY <1>0, <1>1 DEF VmTypeOK, Stopped
<1>3. ASSUME vm'.power = "on" PROVE BootOrder' /\ CapHolds' /\ WaitsCounted'
  BY <1>0, <1>1, <1>3 DEF BootOrder, CapHolds, WaitsCounted, Stopped
<1>4. QuietCounted'
  BY <1>0, <1>1, QuietKept
<1> QED BY <1>0, <1>1, <1>2, <1>3, <1>4 DEF VmIInv, GuardIsFair, On

LEMMA CrashKeeps == ASSUME VmIInv, NEW restarts \in BOOLEAN, Crash(restarts) PROVE VmIInv'
<1> USE VmAssumption
<1>0. VmTypeOK /\ GuardIsFair /\ BootOrder /\ CapHolds /\ WaitsCounted /\ QuietCounted
  BY DEF VmIInv, Crash
<1>1. /\ vm'.power = "on" /\ vm'.provider = vm.provider /\ vm'.guarded = vm.guarded
      /\ vm'.up = vm.up /\ vm'.due = vm.due \ {"beat"} /\ vm'.boot = vm.boot /\ files' = files
      /\ clock'.skew = clock.skew /\ clock'.steps = clock.steps /\ server.run = "up"
      /\ past'.quiet = past.quiet /\ past'.waited = past.waited
      /\ past'.early = past.early /\ past'.short = past.short
  BY <1>0 DEF Crash, VmTypeOK, On
<1>2. VmTypeOK'
  <2>1. server' \in [run : {"up", "down"}, mono : Nat, skew0 : Int, idleSince : SUBSET Int, band : BOOLEAN]
    BY <1>0 DEF Crash, Fresh, Stopped, VmTypeOK
  <2> QED BY <1>0, <2>1 DEF VmTypeOK, Crash
<1>3. BootOrder' /\ CapHolds'
  BY <1>0, <1>1 DEF BootOrder, CapHolds
<1>4. WaitsCounted'
  BY <1>0, <1>1 DEF WaitsCounted
<1>5. QuietCounted'
  BY <1>0, <1>1, QuietKept DEF PutDown
<1> QED BY <1>0, <1>1, <1>2, <1>3, <1>4, <1>5 DEF VmIInv, GuardIsFair

LEMMA BeatKeeps == ASSUME VmIInv, Beat PROVE VmIInv'
<1> USE VmAssumption
<1>0. VmTypeOK /\ GuardIsFair /\ BootOrder /\ CapHolds /\ WaitsCounted /\ QuietCounted
  BY DEF VmIInv, Beat
<1>1. /\ vm'.power = "on" /\ vm'.provider = vm.provider /\ vm'.guarded = vm.guarded
      /\ vm'.up = vm.up /\ vm'.due = vm.due \ {"beat"} /\ vm'.boot = vm.boot /\ clock' = clock
      /\ files'.guardStamp = files.guardStamp /\ files'.activeUp = files.activeUp
      /\ files'.deferUp = files.deferUp /\ files'.uploads = files.uploads
      /\ past'.waited = past.waited /\ past'.early = past.early /\ past'.short = past.short
      /\ "beat" \in vm.due /\ server.run = "up"
  BY <1>0 DEF Beat, VmTypeOK, On, BootOrder
<1>2. /\ server.band => files'.stamp = {vm.up + clock.skew} /\ past'.quiet = past.quiet - 1
      /\ ~server.band => files'.stamp = files.stamp /\ past'.quiet = past.quiet
  BY <1>0 DEF Beat, VmTypeOK, TouchedStamp, Wall
<1>3. VmTypeOK'
  <2>1. SessionElapsed \in Int
    <3>1. clock.skew - server.skew0 \in Int /\ 0 \in Int /\ server.mono \in Nat
      BY <1>0 DEF VmTypeOK
    <3>2. Max({0, clock.skew - server.skew0}) \in Int
      BY <3>1, MaxOfTwo
    <3> QED BY <3>1, <3>2 DEF SessionElapsed
  <2>2. server' \in [run : {"up", "down"}, mono : Nat, skew0 : Int, idleSince : SUBSET Int, band : BOOLEAN]
    <3>1. IdleSince \subseteq Int
      BY <1>0, <2>1 DEF IdleSince, VmTypeOK
    <3> QED BY <1>0, <3>1 DEF Beat, Stopped, VmTypeOK
  <2>3. files' \in [stamp : AtMostOne(Int), guardStamp : AtMostOne(Int), activeUp : AtMostOne(Nat),
                    deferUp : AtMostOne(Nat), uploads : BOOLEAN]
    <3>1. TouchedStamp \in AtMostOne(Int)
      BY <1>0 DEF TouchedStamp, Wall, AtMostOne, VmTypeOK
    <3> QED BY <1>0, <3>1 DEF Beat, VmTypeOK
  <2>4. vm' \in [provider : Providers, power : {"on", "off", "gone"},
                 boot : {"begin", "armed", "done", "failed"}, guarded : BOOLEAN,
                 up : Nat, due : SUBSET {"beat", "guard", "provider"}]
    BY <1>0 DEF Beat, VmTypeOK
  <2>5. past' \in [quiet : Int, waited : Nat, empty : Nat, early : BOOLEAN, short : BOOLEAN]
    <3>1. past.quiet \in Int /\ past.quiet - 1 \in Int /\ past.empty \in Nat /\ 0 \in Nat
      BY <1>0 DEF VmTypeOK
    <3>2. CASE server.band
      <4>1. past' = [past EXCEPT !.quiet = past.quiet - 1, !.empty = 0]
        BY <1>0, <3>2 DEF Beat, VmTypeOK
      <4> QED BY <1>0, <3>1, <4>1 DEF VmTypeOK
    <3>3. CASE ~server.band
      <4>1. past' = past
        BY <1>0, <3>3 DEF Beat, VmTypeOK
      <4> QED BY <1>0, <4>1 DEF VmTypeOK
    <3> QED BY <3>2, <3>3
  <2> QED BY <1>0, <1>1, <2>2, <2>3, <2>4, <2>5 DEF VmTypeOK
<1>4. BootOrder'
  BY <1>0, <1>1, <1>2 DEF BootOrder
<1>5. CapHolds' /\ WaitsCounted'
  BY <1>0, <1>1 DEF CapHolds, WaitsCounted
<1>6. QuietCounted'
  <2>1. CASE ~server.band
    BY <1>0, <1>1, <1>2, <2>1, QuietKept
  <2>2. CASE server.band
    <3>1. PICK bn \in Nat, dn \in Int, kn \in Nat : bn = vm.up /\ dn = clock.skew /\ kn = clock.steps
      BY <1>0 DEF VmTypeOK
    <3>2. files'.stamp = {bn + dn}
      BY <2>2, <3>1, <1>2
    <3>3. bn = vm'.up /\ "beat" \notin vm'.due /\ kn = clock'.steps /\ dn = clock'.skew
      BY <3>1, <1>1
    <3>4. PutDown(files.stamp, bn, dn, kn)'
      BY <3>2, <3>3 DEF PutDown
    <3>5. ASSUME files'.guardStamp # {}
          PROVE  \E a, b0, k0, b, k \in Nat, d0, d \in Int, c \in 0 .. 2 :
                   Accounted(a, b0, d0, k0, b, d, k, c)'
      <4>1. PICK a \in Nat, b0 \in Nat, k0 \in Nat, b \in Nat, k \in Nat,
                 d0 \in Int, d \in Int, c \in 0 .. 2 : Accounted(a, b0, d0, k0, b, d, k, c)
        BY <1>0, <1>1, <3>5 DEF QuietCounted
      <4>2. c + 1 \in 0 .. 2 /\ c <= (IF "guard" \in vm.due THEN 1 ELSE 0)
        BY <4>1, <1>1 DEF Accounted
      <4>3. PutDown(files.guardStamp, b0, d0, k0)'
        BY <4>1, <1>1 DEF Accounted, PutDown
      <4>4. b0 < bn /\ k0 <= kn /\ (k0 = kn => d0 = dn)
        BY <4>1, <1>1, <3>1 DEF Accounted, PutDown
      <4>5. files'.activeUp = {a} /\ past'.quiet >= vm'.up - a - (2 * k0 + (c + 1))
        <5>1. past.quiet >= bn - a - (2 * k0 + c) /\ files.activeUp = {a}
          BY <4>1, <3>1 DEF Accounted
        <5>2. past.quiet - 1 >= bn - a - (2 * k0 + (c + 1))
          BY <5>1, <1>0 DEF VmTypeOK
        <5> QED BY <5>1, <5>2, <1>1, <1>2, <2>2, <3>1
      <4>6. c + 1 <= (IF "guard" \in vm'.due THEN 1 ELSE 0) + (IF "beat" \in vm'.due THEN 0 ELSE 1)
        BY <4>2, <1>1
      <4>7. Accounted(a, b0, d0, k0, bn, dn, kn, c + 1)'
        BY <3>4, <4>2, <4>3, <4>4, <4>5, <4>6 DEF Accounted
      <4> QED BY <4>2, <4>7, <3>1
    <3> QED BY <3>1, <3>4, <3>5 DEF QuietCounted
  <2> QED BY <2>1, <2>2
<1> QED BY <1>0, <1>1, <1>3, <1>4, <1>5, <1>6 DEF VmIInv, GuardIsFair

LEMMA ChangesKeep == ASSUME VmIInv, BandChanges \/ UploadChanges PROVE VmIInv'
<1> USE VmAssumption
<1>0. VmTypeOK /\ GuardIsFair /\ BootOrder /\ CapHolds /\ WaitsCounted /\ QuietCounted /\ vm.power = "on"
  BY DEF VmIInv, BandChanges, UploadChanges, On
<1>1. /\ vm' = vm /\ clock' = clock /\ past' = past /\ server'.run = server.run
      /\ files'.guardStamp = files.guardStamp /\ files'.activeUp = files.activeUp
      /\ files'.deferUp = files.deferUp /\ files'.stamp = files.stamp
  BY <1>0 DEF BandChanges, UploadChanges, VmTypeOK
<1>2. VmTypeOK'
  <2>1. CASE BandChanges
    <3>1. server' = [server EXCEPT !.band = ~server.band] /\ files' = files
      BY <1>0, <2>1 DEF BandChanges, VmTypeOK
    <3> QED BY <1>0, <1>1, <3>1 DEF VmTypeOK
  <2>2. CASE UploadChanges
    <3>1. files' = [files EXCEPT !.uploads = ~files.uploads] /\ server' = server
      BY <1>0, <2>2 DEF UploadChanges, VmTypeOK
    <3> QED BY <1>0, <1>1, <3>1 DEF VmTypeOK
  <2> QED BY <2>1, <2>2
<1>3. /\ files'.uploads => server.run = "up" \/ files.uploads
      /\ server.run = "down" /\ ~files.uploads => ~files'.uploads
  BY <1>0 DEF BandChanges, UploadChanges, VmTypeOK
<1>4. BootOrder'
  BY <1>0, <1>1, <1>3 DEF BootOrder
<1>5. CapHolds' /\ WaitsCounted'
  BY <1>0, <1>1, <1>3 DEF CapHolds, WaitsCounted
<1>6. QuietCounted'
  BY <1>0, <1>1, QuietKept
<1> QED BY <1>0, <1>1, <1>2, <1>4, <1>5, <1>6 DEF VmIInv, GuardIsFair

LEMMA ProviderDeletesKeeps == ASSUME VmIInv, ProviderDeletes PROVE VmIInv'
<1>0. VmTypeOK
  BY DEF VmIInv
<1>1. VmTypeOK'
  <2>1. /\ vm' \in [provider : Providers, power : {"on", "off", "gone"},
                    boot : {"begin", "armed", "done", "failed"}, guarded : BOOLEAN,
                    up : Nat, due : SUBSET {"beat", "guard", "provider"}]
        /\ server' \in [run : {"up", "down"}, mono : Nat, skew0 : Int, idleSince : SUBSET Int, band : BOOLEAN]
    BY <1>0 DEF VmTypeOK, ProviderDeletes, Stopped
  <2> QED BY <1>0, <2>1 DEF VmTypeOK, ProviderDeletes
<1>2. vm'.power = "gone"
  BY <1>0 DEF VmTypeOK, ProviderDeletes
<1> QED BY <1>1, <1>2 DEF VmIInv, ProviderDeletes, GuardIsFair, On

LEMMA ClockStepsKeeps == ASSUME VmIInv, NEW skew \in Skews, ClockSteps(skew) PROVE VmIInv'
<1> USE VmAssumption
<1>0. VmTypeOK /\ GuardIsFair /\ BootOrder /\ CapHolds /\ WaitsCounted /\ QuietCounted
  BY DEF VmIInv, ClockSteps
<1>1. /\ vm' = vm /\ files' = files /\ server' = server /\ past' = past
      /\ clock'.steps = clock.steps + 1 /\ clock.steps \in Nat
  BY <1>0 DEF ClockSteps, VmTypeOK
<1>2. VmTypeOK'
  <2>1. clock' \in [skew : Int, steps : Nat, crashes : Nat]
    <3>1. skew \in Int /\ clock.steps + 1 \in Nat
      BY <1>0, <1>1
    <3>2. clock' = [clock EXCEPT !.skew = skew, !.steps = clock.steps + 1]
      BY <1>0 DEF ClockSteps, VmTypeOK
    <3> QED BY <1>0, <3>1, <3>2 DEF VmTypeOK
  <2> QED BY <1>0, <1>1, <2>1 DEF VmTypeOK
<1>3. BootOrder' /\ CapHolds' /\ WaitsCounted'
  BY <1>0, <1>1 DEF BootOrder, CapHolds, WaitsCounted
<1>4. ASSUME NEW s, NEW b \in Nat, NEW d \in Int, NEW k \in Nat, PutDown(s, b, d, k)
      PROVE  b <= vm'.up /\ k <= clock'.steps /\ k # clock'.steps
  BY <1>1, <1>4 DEF PutDown
<1>5. files'.stamp # {} => \E b \in Nat, d \in Int, k \in Nat : PutDown(files.stamp, b, d, k)'
  <2> SUFFICES ASSUME files.stamp # {}
               PROVE  \E b \in Nat, d \in Int, k \in Nat : PutDown(files.stamp, b, d, k)'
    BY <1>1
  <2>1. PICK b \in Nat, d \in Int, k \in Nat : PutDown(files.stamp, b, d, k)
    BY <1>0 DEF QuietCounted
  <2>2. PutDown(files.stamp, b, d, k)'
    BY <2>1, <1>1, <1>4 DEF PutDown
  <2> QED BY <2>2
<1>6. files'.guardStamp # {} =>
        \E a, b0, k0, b, k \in Nat, d0, d \in Int, c \in 0 .. 2 : Accounted(a, b0, d0, k0, b, d, k, c)'
  <2> SUFFICES ASSUME files.guardStamp # {}
               PROVE  \E a, b0, k0, b, k \in Nat, d0, d \in Int, c \in 0 .. 2 :
                        Accounted(a, b0, d0, k0, b, d, k, c)'
    BY <1>1
  <2>1. PICK a \in Nat, b0 \in Nat, k0 \in Nat, b \in Nat, k \in Nat,
             d0 \in Int, d \in Int, c \in 0 .. 2 : Accounted(a, b0, d0, k0, b, d, k, c)
    BY <1>0 DEF QuietCounted
  <2>2. PutDown(files.stamp, b, d, k)' /\ PutDown(files.guardStamp, b0, d0, k0)'
    BY <2>1, <1>1, <1>4 DEF PutDown, Accounted
  <2>3. Accounted(a, b0, d0, k0, b, d, k, c)'
    BY <2>1, <2>2, <1>1 DEF Accounted
  <2> QED BY <2>3
<1> QED BY <1>0, <1>1, <1>2, <1>3, <1>5, <1>6 DEF VmIInv, GuardIsFair, QuietCounted, ClockSteps, On

LEMMA MinuteKeeps == ASSUME VmIInv, Minute PROVE VmIInv'
<1> USE VmAssumption
<1>0. VmTypeOK /\ GuardIsFair /\ BootOrder /\ CapHolds /\ WaitsCounted /\ QuietCounted
  BY DEF VmIInv, Minute
<1>1. /\ vm'.power = "on" /\ vm'.provider = vm.provider /\ vm'.guarded = vm.guarded
      /\ vm'.up = vm.up + 1 /\ vm'.boot = vm.boot /\ vm.up \in Nat
      /\ clock' = clock /\ files' = files /\ server'.run = server.run /\ past'.quiet = past.quiet + 1
      /\ past'.waited = past.waited /\ past'.early = past.early /\ past'.short = past.short
      /\ vm.due = {} /\ (vm.boot = "begin" => vm.up < ARM_MIN) /\ past.quiet \in Int
  BY <1>0 DEF Minute, VmTypeOK, On
<1>2. /\ "beat" \in vm'.due <=> server.run = "up"
      /\ "guard" \in vm'.due <=> vm.guarded /\ vm.up >= 1
      /\ "provider" \in vm'.due <=> vm.provider = "gcp" /\ vm.up + 1 >= MAX_MIN
  BY <1>0 DEF Minute, VmTypeOK
<1>3. VmTypeOK'
  <2>1. vm' \in [provider : Providers, power : {"on", "off", "gone"},
                 boot : {"begin", "armed", "done", "failed"}, guarded : BOOLEAN,
                 up : Nat, due : SUBSET {"beat", "guard", "provider"}]
    <3>1. PICK due \in SUBSET {"beat", "guard", "provider"}, up \in Nat :
            vm' = [vm EXCEPT !.up = up, !.due = due]
      <4>1. vm.up + 1 \in Nat
        BY <1>1
      <4> QED BY <1>0, <4>1 DEF Minute, VmTypeOK
    <3> QED BY <1>0, <3>1 DEF VmTypeOK
  <2>2. server' \in [run : {"up", "down"}, mono : Nat, skew0 : Int, idleSince : SUBSET Int, band : BOOLEAN]
    BY <1>0 DEF Minute, VmTypeOK
  <2>3. past' \in [quiet : Int, waited : Nat, empty : Nat, early : BOOLEAN, short : BOOLEAN]
    <3>1. past.quiet + 1 \in Int /\ past.empty + 1 \in Nat
      BY <1>0 DEF VmTypeOK
    <3>2. past' = [past EXCEPT !.quiet = past.quiet + 1, !.empty = past.empty + 1]
      BY <1>0 DEF Minute, VmTypeOK
    <3> QED BY <1>0, <3>1, <3>2 DEF VmTypeOK
  <2> QED BY <1>0, <1>1, <2>1, <2>2, <2>3 DEF VmTypeOK
<1>4. BootOrder'
  BY <1>0, <1>1, <1>2 DEF BootOrder
<1>5. CapHolds'
  <2>1. vm.provider = "gcp" => vm.up < MAX_MIN
    BY <1>0, <1>1 DEF CapHolds
  <2>2. \A since \in files.deferUp : since \in Nat /\ since <= vm.up
    BY <1>0 DEF CapHolds, VmTypeOK, AtMostOne
  <2>3. ASSUME vm.provider # "gcp", vm.up + 1 >= MAX_MIN PROVE "guard" \in vm'.due
    BY <1>0, <1>1, <1>2, <2>3 DEF BootOrder, VmTypeOK
  <2>4. ASSUME vm.provider # "gcp", vm.up + 1 > MAX_MIN
        PROVE  \E since \in files.deferUp : since <= MAX_MIN /\ vm.up + 1 - since <= CEILING_MIN
    <3>1. PICK since \in files.deferUp : since <= MAX_MIN /\ vm.up - since < CEILING_MIN
      BY <1>0, <1>1, <2>4 DEF CapHolds
    <3> QED BY <3>1, <2>2, <1>1
  <2> QED BY <1>1, <1>2, <2>1, <2>2, <2>3, <2>4 DEF CapHolds
<1>6. WaitsCounted'
  <2>1. ASSUME NEW since \in files.deferUp
        PROVE  /\ since \in Nat /\ past.waited \in Nat /\ "guard" \in vm'.due
               /\ past.waited > vm.up - since => past.waited >= vm.up + 1 - since
    BY <1>0, <1>1, <1>2, <2>1 DEF VmTypeOK, AtMostOne, BootOrder
  <2> QED BY <1>0, <1>1, <2>1 DEF WaitsCounted
<1>7. QuietCounted'
  <2>1. ASSUME NEW s, NEW b \in Nat, NEW d \in Int, NEW k \in Nat, PutDown(s, b, d, k)
        PROVE  b <= vm'.up /\ b < vm'.up /\ k <= clock'.steps /\ (k = clock'.steps => d = clock'.skew)
    BY <1>1, <2>1 DEF PutDown
  <2>2. files'.stamp # {} => \E b \in Nat, d \in Int, k \in Nat : PutDown(files.stamp, b, d, k)'
    <3> SUFFICES ASSUME files.stamp # {}
                 PROVE  \E b \in Nat, d \in Int, k \in Nat : PutDown(files.stamp, b, d, k)'
      BY <1>1
    <3>1. PICK b \in Nat, d \in Int, k \in Nat : PutDown(files.stamp, b, d, k)
      BY <1>0 DEF QuietCounted
    <3>2. PutDown(files.stamp, b, d, k)'
      BY <3>1, <2>1, <1>1 DEF PutDown
    <3> QED BY <3>2
  <2>3. files'.guardStamp # {} =>
          \E a, b0, k0, b, k \in Nat, d0, d \in Int, c \in 0 .. 2 : Accounted(a, b0, d0, k0, b, d, k, c)'
    <3> SUFFICES ASSUME files.guardStamp # {}
                 PROVE  \E a, b0, k0, b, k \in Nat, d0, d \in Int, c \in 0 .. 2 :
                          Accounted(a, b0, d0, k0, b, d, k, c)'
      BY <1>1
    <3>1. PICK a \in Nat, b0 \in Nat, k0 \in Nat, b \in Nat, k \in Nat,
               d0 \in Int, d \in Int, c \in 0 .. 2 : Accounted(a, b0, d0, k0, b, d, k, c)
      BY <1>0 DEF QuietCounted
    <3>2. PutDown(files.stamp, b, d, k)' /\ PutDown(files.guardStamp, b0, d0, k0)'
      BY <3>1, <2>1, <1>1 DEF PutDown, Accounted
    <3>3. c <= 1 /\ "guard" \in vm'.due
      BY <3>1, <1>0, <1>1, <1>2 DEF Accounted, BootOrder
    <3>4. past'.quiet >= vm'.up - a - (2 * k0 + c)
      BY <3>1, <1>1 DEF Accounted
    <3>5. Accounted(a, b0, d0, k0, b, d, k, c)'
      BY <3>1, <3>2, <3>3, <3>4, <1>1 DEF Accounted
    <3> QED BY <3>5
  <2> QED BY <2>2, <2>3 DEF QuietCounted
<1> QED BY <1>0, <1>1, <1>3, <1>4, <1>5, <1>6, <1>7 DEF VmIInv, GuardIsFair, On

(* The stamp the guard compares with is the one it last read; when the two *)
(* are equal, playing since then was hidden by a step of the clock.        *)
LEMMA StillStamp ==
  ASSUME VmTypeOK, QuietCounted, files.guardStamp # {}, ~Moved
  PROVE  \E a, b, k \in Nat, d \in Int :
           /\ PutDown(files.stamp, b, d, k)
           /\ files.activeUp = {a} /\ past.quiet >= vm.up - a - 2 * k
<1>1. PICK a \in Nat, b0 \in Nat, k0 \in Nat, b \in Nat, k \in Nat,
           d0 \in Int, d \in Int, c \in 0 .. 2 : Accounted(a, b0, d0, k0, b, d, k, c)
  BY DEF QuietCounted
<1>2. b0 + d0 = b + d
  BY <1>1 DEF Accounted, PutDown, Moved
<1>3. ASSUME c > 0 PROVE k0 + 1 <= k
  <2>1. b0 < b /\ k0 <= k /\ (k0 = k => d0 = d)
    BY <1>1, <1>3 DEF Accounted
  <2>2. d0 # d
    BY <2>1, <1>2
  <2> QED BY <2>1, <2>2
<1>4. ASSUME c = 0 PROVE k0 = k
  BY <1>1, <1>4 DEF Accounted
<1>5. 2 * k0 + c <= 2 * k
  BY <1>3, <1>4
<1>6. past.quiet >= vm.up - a - (2 * k0 + c) /\ past.quiet \in Int /\ vm.up \in Nat
  BY <1>1 DEF Accounted, VmTypeOK
<1>7. past.quiet >= vm.up - a - 2 * k
  BY <1>5, <1>6
<1>8. PutDown(files.stamp, b, d, k) /\ files.activeUp = {a}
  BY <1>1 DEF Accounted
<1> QED BY <1>7, <1>8

LEMMA GuardKeeps == ASSUME VmIInv, Guard PROVE VmIInv'
<1> USE VmAssumption
<1>0. VmTypeOK /\ GuardIsFair /\ BootOrder /\ CapHolds /\ WaitsCounted /\ QuietCounted
  BY DEF VmIInv, Guard
<1> DEFINE Over == GuardReason /\ ~Defers
<1>1. /\ "guard" \in vm.due /\ vm.guarded /\ vm.up >= 2 /\ vm.up \in Nat /\ files.stamp # {}
      /\ files'.stamp = files.stamp /\ files'.guardStamp = files.stamp /\ files'.uploads = files.uploads
      /\ (Moved => files'.activeUp = {vm.up}) /\ (~Moved => files'.activeUp = files.activeUp)
      /\ (~GuardReason => files'.deferUp = {})
      /\ (GuardReason /\ files.uploads => files'.deferUp = DeferredSince)
      /\ (GuardReason /\ ~files.uploads => files'.deferUp = files.deferUp)
      /\ clock' = clock
  BY <1>0 DEF Guard, GuardFiles, VmTypeOK, BootOrder, NoReasonDefer
<1>2. /\ vm' \in [provider : Providers, power : {"on", "off", "gone"},
                  boot : {"begin", "armed", "done", "failed"}, guarded : BOOLEAN,
                  up : Nat, due : SUBSET {"beat", "guard", "provider"}]
      /\ vm'.provider = vm.provider /\ vm'.guarded = vm.guarded /\ vm'.up = vm.up /\ vm'.boot = vm.boot
      /\ "guard" \notin vm'.due /\ ("beat" \in vm'.due => "beat" \in vm.due)
      /\ ("provider" \in vm'.due <=> "provider" \in vm.due)
      /\ (vm'.power = "off" => vm.provider = "do")
      /\ Over => (vm'.power = "on" => vm.provider = "gcp") /\ server' = Stopped /\ "beat" \notin vm'.due
      /\ ~Over => vm'.power = "on" /\ server' = server
  <2>1. CASE Over
    <3>1. SelfDestruct(vm.due \ {"guard"}, vm.boot)
      BY <2>1 DEF Guard
    <3>2. vm.due \ {"guard"} \in SUBSET {"beat", "guard", "provider"} /\ vm.boot \in {"begin", "armed", "done", "failed"}
      BY <1>0 DEF VmTypeOK
    <3> HIDE DEF Over
    <3> QED BY <1>0, <2>1, <3>1, <3>2, AfterIt
  <2>2. CASE ~Over
    <3>1. vm' = [vm EXCEPT !.due = vm.due \ {"guard"}] /\ server' = server /\ vm.power = "on"
      BY <1>0, <2>2 DEF Guard, VmTypeOK, On
    <3> HIDE DEF Over
    <3> QED BY <1>0, <2>2, <3>1 DEF VmTypeOK
  <2> QED BY <2>1, <2>2
<1>3. /\ (Moved => past'.quiet = 0) /\ (~Moved => past'.quiet = past.quiet)
      /\ Over => /\ past'.waited = past.waited
                 /\ past'.early => vm.up < MAX_MIN /\ past.quiet + 2 * clock.steps < IDLE_MIN
                 /\ past'.short => files.uploads /\ past.waited < CEILING_MIN
      /\ ~Over => /\ GuardReason => past'.waited = past.waited + 1
                  /\ ~past'.early /\ ~past'.short
      /\ past' \in [quiet : Int, waited : Nat, empty : Nat, early : BOOLEAN, short : BOOLEAN]
  <2>1. /\ ~past.early /\ ~past.short /\ past.quiet \in Int /\ past.waited \in Nat /\ past.waited + 1 \in Nat
        /\ 0 \in Nat /\ 0 \in Int
    BY <1>0 DEF GuardIsFair, VmTypeOK
  <2>2. PICK q \in Int : (Moved => q = 0) /\ (~Moved => q = past.quiet) /\ q = IF Moved THEN 0 ELSE past.quiet
    BY <2>1
  <2>3. CASE Over
    <3>1. PICK e \in BOOLEAN, s \in BOOLEAN :
            /\ e = (past.early \/ (vm.up < MAX_MIN /\ past.quiet + 2 * clock.steps < IDLE_MIN))
            /\ s = (past.short \/ (files.uploads /\ past.waited < CEILING_MIN))
      OBVIOUS
    <3>2. past' = [past EXCEPT !.quiet = q, !.early = e, !.short = s]
      BY <1>0, <2>2, <2>3, <3>1 DEF Guard, VmTypeOK
    <3>3. /\ past' \in [quiet : Int, waited : Nat, empty : Nat, early : BOOLEAN, short : BOOLEAN]
          /\ past'.quiet = q /\ past'.waited = past.waited /\ past'.early = e /\ past'.short = s
      BY <1>0, <3>2 DEF VmTypeOK
    <3> HIDE DEF Over
    <3> QED BY <2>1, <2>2, <2>3, <3>1, <3>3
  <2>4. CASE ~Over
    <3>1. PICK n \in Nat : (GuardReason => n = past.waited + 1) /\ n = IF GuardReason THEN past.waited + 1 ELSE 0
      BY <2>1
    <3>2. past' = [past EXCEPT !.quiet = q, !.waited = n]
      BY <1>0, <2>2, <2>4, <3>1 DEF Guard, VmTypeOK
    <3> HIDE DEF Over
    <3> QED BY <1>0, <2>1, <2>2, <2>4, <3>1, <3>2 DEF VmTypeOK
  <2> QED BY <2>3, <2>4
<1> HIDE DEF Over
<1>4. \A since \in files'.deferUp :
        /\ since \in Nat /\ since <= vm.up
        /\ since \in files.deferUp \/ (files.deferUp = {} /\ since = vm.up)
        /\ GuardReason /\ (since \notin files.deferUp => files.uploads)
        /\ files'.deferUp = {since}
  BY <1>0, <1>1 DEF VmTypeOK, AtMostOne, CapHolds, DeferredSince
<1>5. VmTypeOK'
  <2>1. files' \in [stamp : AtMostOne(Int), guardStamp : AtMostOne(Int), activeUp : AtMostOne(Nat),
                    deferUp : AtMostOne(Nat), uploads : BOOLEAN]
    <3>0. /\ {vm.up} \in AtMostOne(Nat) /\ {} \in AtMostOne(Nat)
          /\ files.activeUp \in AtMostOne(Nat) /\ files.deferUp \in AtMostOne(Nat)
      BY <1>0, <1>1 DEF VmTypeOK, AtMostOne
    <3>1. PICK act \in AtMostOne(Nat), def \in AtMostOne(Nat) :
            /\ act = (IF Moved THEN {vm.up} ELSE files.activeUp)
            /\ def = (IF ~GuardReason THEN NoReasonDefer
                        ELSE IF files.uploads THEN DeferredSince ELSE files.deferUp)
      BY <3>0 DEF NoReasonDefer, DeferredSince
    <3>2. files' = [files EXCEPT !.guardStamp = files.stamp, !.activeUp = act, !.deferUp = def]
      BY <3>1, <1>0 DEF Guard, GuardFiles, VmTypeOK
    <3> QED BY <1>0, <3>1, <3>2 DEF VmTypeOK
  <2>2. server' \in [run : {"up", "down"}, mono : Nat, skew0 : Int, idleSince : SUBSET Int, band : BOOLEAN]
    <3>0. Stopped \in [run : {"up", "down"}, mono : Nat, skew0 : Int, idleSince : SUBSET Int, band : BOOLEAN]
      BY DEF Stopped
    <3>1. CASE Over
      BY <3>0, <3>1, <1>2
    <3>2. CASE ~Over
      BY <3>2, <1>0, <1>2 DEF VmTypeOK
    <3> QED BY <3>1, <3>2
  <2> QED BY <1>0, <1>1, <1>2, <1>3, <2>1, <2>2 DEF VmTypeOK
<1>6. ASSUME vm'.power = "on" PROVE BootOrder'
  <2>1. server'.run = "up" => server.run = "up" /\ server' = server
    BY <1>2 DEF Stopped
  <2>2. "beat" \in vm'.due => server'.run = "up"
    BY <1>0, <1>2 DEF BootOrder
  <2>3. files'.deferUp # {} => vm.boot = "done"
    BY <1>0, <1>4 DEF BootOrder
  <2> QED BY <1>0, <1>1, <1>2, <2>1, <2>2, <2>3 DEF BootOrder
<1>7. ASSUME vm'.power = "on" PROVE CapHolds'
  <2>1. ASSUME vm.provider # "gcp", vm.up >= MAX_MIN
        PROVE  \E since \in files'.deferUp :
                 since <= MAX_MIN /\ vm.up - since <= CEILING_MIN /\ vm.up - since < CEILING_MIN
    <3>1. GuardReason /\ Defers
      BY <1>2, <1>7, <2>1 DEF Over, GuardReason
    <3>2. PICK since \in files'.deferUp : vm.up - since < CEILING_MIN
      BY <3>1, <1>1 DEF Defers
    <3>3. since <= MAX_MIN
      <4>1. CASE since \in files.deferUp /\ vm.up > MAX_MIN
        <5>1. PICK old \in files.deferUp : old <= MAX_MIN
          BY <1>0, <1>1, <2>1, <4>1 DEF CapHolds
        <5>2. old = since
          BY <1>0, <4>1 DEF VmTypeOK, AtMostOne
        <5> QED BY <5>1, <5>2
      <4>2. CASE since \in files.deferUp /\ ~(vm.up > MAX_MIN)
        BY <4>2, <1>1, <1>4
      <4>3. CASE since \notin files.deferUp
        <5>1. files.deferUp = {} /\ since = vm.up
          BY <1>4, <4>3
        <5> QED BY <5>1, <1>0, <1>1, <2>1 DEF CapHolds
      <4> QED BY <4>1, <4>2, <4>3
    <3> QED BY <3>2, <3>3, <1>1, <1>4
  <2>2. vm.provider = "gcp" => vm.up <= MAX_MIN /\ (vm.up = MAX_MIN => "provider" \in vm.due)
    BY <1>0 DEF CapHolds
  <2> QED BY <1>2, <1>4, <2>1, <2>2 DEF CapHolds
<1>8. WaitsCounted'
  <2> SUFFICES ASSUME NEW since \in files'.deferUp
               PROVE  \/ past'.waited >= CEILING_MIN
                      \/ server'.run = "down" /\ ~files'.uploads
                      \/ past'.waited >= vm.up - since /\ past'.waited > vm.up - since
    BY <1>2 DEF WaitsCounted
  <2>1. /\ since \in Nat /\ GuardReason /\ past.waited \in Nat
        /\ since \in files.deferUp \/ (files.deferUp = {} /\ since = vm.up)
    BY <1>0, <1>4 DEF VmTypeOK
  <2>2. CASE Over
    <3>1. CASE ~files.uploads
      BY <3>1, <2>2, <1>1, <1>2 DEF Stopped
    <3>2. CASE files.uploads
      <4>1. vm.up - since >= CEILING_MIN
        BY <3>2, <2>2, <2>1, <1>1 DEF Over, Defers
      <4>2. past.waited >= CEILING_MIN
        <5>1. CASE since \in files.deferUp
          BY <5>1, <4>1, <3>2, <2>1, <1>0, <1>1 DEF WaitsCounted
        <5>2. CASE since = vm.up
          BY <5>2, <4>1, <2>1, <1>1
        <5> QED BY <5>1, <5>2, <2>1
      <4> QED BY <4>2, <2>2, <1>3
    <3> QED BY <3>1, <3>2
  <2>3. CASE ~Over
    <3>1. files.uploads /\ past'.waited = past.waited + 1
      BY <2>1, <2>3, <1>3 DEF Over, Defers
    <3>2. CASE since \in files.deferUp
      BY <3>1, <3>2, <2>1, <1>0, <1>1 DEF WaitsCounted
    <3>3. CASE since = vm.up
      BY <3>1, <3>3, <2>1, <1>1
    <3> QED BY <3>2, <3>3, <2>1
  <2> QED BY <2>2, <2>3
<1>9. PICK a \in Nat, b \in Nat, k \in Nat, d \in Int :
        /\ PutDown(files.stamp, b, d, k) /\ files'.activeUp = {a}
        /\ past'.quiet >= vm.up - a - 2 * k
        /\ ~Moved => files.activeUp = {a} /\ past.quiet >= vm.up - a - 2 * k
  <2>1. CASE Moved
    <3>1. PICK b \in Nat, d \in Int, k \in Nat : PutDown(files.stamp, b, d, k)
      BY <1>0, <1>1 DEF QuietCounted
    <3>2. past'.quiet >= vm.up - vm.up - 2 * k
      BY <1>1, <1>3, <2>1
    <3> QED BY <1>1, <2>1, <3>1, <3>2
  <2>2. CASE ~Moved
    <3>1. files.guardStamp # {}
      BY <1>1, <2>2 DEF Moved
    <3>2. PICK a \in Nat, b \in Nat, k \in Nat, d \in Int :
            /\ PutDown(files.stamp, b, d, k)
            /\ files.activeUp = {a} /\ past.quiet >= vm.up - a - 2 * k
      BY <1>0, <2>2, <3>1, StillStamp
    <3> QED BY <1>1, <1>3, <2>2, <3>2
  <2> QED BY <2>1, <2>2
<1>10. QuietCounted'
  <2>1. PutDown(files.stamp, b, d, k)' /\ PutDown(files.guardStamp, b, d, k)'
    BY <1>1, <1>2, <1>9 DEF PutDown
  <2>2. past'.quiet >= vm'.up - a - (2 * k + 0)
    BY <1>1, <1>2, <1>9
  <2>3. 0 <= (IF "guard" \in vm'.due THEN 1 ELSE 0) + (IF "beat" \in vm'.due THEN 0 ELSE 1)
    OBVIOUS
  <2>4. Accounted(a, b, d, k, b, d, k, 0)'
    BY <2>1, <2>2, <2>3, <1>9 DEF Accounted
  <2>5. 0 \in 0 .. 2
    OBVIOUS
  <2> QED BY <2>1, <2>4, <2>5 DEF QuietCounted
<1>11. GuardIsFair'
  <2>1. ~past'.early
    <3> SUFFICES ASSUME Over, vm.up < MAX_MIN, past.quiet + 2 * clock.steps < IDLE_MIN PROVE FALSE
      BY <1>3
    <3>1. ~Moved /\ vm.up - Max(files.activeUp \cup {0}) >= IDLE_MIN
      BY <1>1 DEF Over, GuardReason, GuardIdle
    <3>2. files.activeUp \cup {0} = {a, 0}
      BY <1>9, <3>1
    <3>3. Max({a, 0}) = a
      BY MaxOfTwo
    <3>4. k <= clock.steps /\ clock.steps \in Nat /\ past.quiet \in Int
      BY <1>0, <1>9 DEF PutDown, VmTypeOK
    <3>5. vm.up - a >= IDLE_MIN /\ past.quiet >= vm.up - a - 2 * k
      BY <1>9, <3>1, <3>2, <3>3
    <3> QED BY <3>4, <3>5, <1>1
  <2>2. ~past'.short
    <3> SUFFICES ASSUME Over, files.uploads, past.waited < CEILING_MIN PROVE FALSE
      BY <1>3
    <3>1. PICK since \in DeferredSince : vm.up - since >= CEILING_MIN /\ since \in Nat
      BY <1>0, <1>1 DEF Over, Defers, DeferredSince, VmTypeOK, AtMostOne
    <3>2. past.waited \in Nat
      BY <1>0 DEF VmTypeOK
    <3>3. CASE since \in files.deferUp
      BY <3>1, <3>2, <3>3, <1>0, <1>1 DEF WaitsCounted
    <3>4. CASE since = vm.up
      BY <3>1, <3>2, <3>4, <1>1
    <3> QED BY <3>1, <3>3, <3>4 DEF DeferredSince
  <2> QED BY <2>1, <2>2 DEF GuardIsFair
<1> QED BY <1>2, <1>5, <1>6, <1>7, <1>8, <1>10, <1>11 DEF VmIInv, On

LEMMA VmStep == VmIInv /\ [VmNext]_vmVars => VmIInv'
<1> SUFFICES ASSUME VmIInv, [VmNext]_vmVars PROVE VmIInv'
  OBVIOUS
<1>1. CASE VmNext
  BY <1>1, BootArmsKeeps, BootServesKeeps, BootFailsKeeps, BeatKeeps, ChangesKeep, CrashKeeps,
     GuardKeeps, ProviderDeletesKeeps, MinuteKeeps, ClockStepsKeeps DEF VmNext
<1>2. CASE UNCHANGED vmVars
  <2>1. vm' = vm /\ files' = files /\ server' = server /\ clock' = clock /\ past' = past
    BY <1>2 DEF vmVars
  <2>2. VmTypeOK' /\ GuardIsFair' /\ (On' <=> On) /\ (vm'.power = "off" => vm'.provider = "do")
    BY <2>1 DEF VmIInv, VmTypeOK, GuardIsFair, On
  <2>3. ASSUME On PROVE BootOrder' /\ CapHolds' /\ WaitsCounted'
    BY <2>1, <2>3 DEF VmIInv, BootOrder, CapHolds, WaitsCounted
  <2>4. ASSUME On PROVE QuietCounted'
    BY <2>1, <2>4, QuietKept DEF VmIInv
  <2> QED BY <2>2, <2>3, <2>4 DEF VmIInv
<1> QED BY <1>1, <1>2

(* cloudinit.rs: however a machine boots, crashes, uploads or loses track  *)
(* of time, it is deleted within its cap and one upload ceiling, and only  *)
(* a droplet is ever left merely powered off.                              *)
THEOREM MachinesEnd == VmSpec => []EveryMachineEnds
<1>1. VmIInv => EveryMachineEnds
  <2> SUFFICES ASSUME VmIInv PROVE EveryMachineEnds
    OBVIOUS
  <2>1. ASSUME On PROVE vm.up <= MAX_MIN + CEILING_MIN
    <3>1. VmTypeOK /\ CapHolds
      BY <2>1 DEF VmIInv
    <3>2. \A since \in files.deferUp : since \in Nat
      BY <3>1 DEF VmTypeOK, AtMostOne
    <3>3. vm.up \in Nat
      BY <3>1 DEF VmTypeOK
    <3> QED BY <3>1, <3>2, <3>3, VmAssumption DEF CapHolds
  <2> QED BY <2>1 DEF EveryMachineEnds, VmIInv
<1> QED BY <1>1, VmInitial, VmStep, PTL DEF VmSpec

(* guard_script_at: the guard ends a machine as idle only after the window *)
(* has passed unplayed, up to two minutes hidden by each step of the wall  *)
(* clock, and gives up on an upload only after the whole ceiling.          *)
THEOREM GuardEndsFairly == VmSpec => []GuardIsFair
<1>1. VmIInv => GuardIsFair
  BY DEF VmIInv
<1> QED BY <1>1, VmInitial, VmStep, PTL DEF VmSpec
-----------------------------------------------------------------------------
(* The wizard.                                                             *)
WizardJobs == [what : {"check", "survey", "launch"}, kind : Rows, secret : Secrets \cup {Empty},
               region : Rows \cup {NoRow}, kept : BOOLEAN]

Wizards == [step : {"Provider", "Region", "Preview", "Launching", "Left"}, picked : Rows \cup {NoRow},
            open : BOOLEAN, ready : [Rows -> BOOLEAN], fields : [Accounts -> Secrets \cup {Empty}],
            rows : Rows \cup {NoRow}, chosen : BOOLEAN, failed : BOOLEAN]

WizardTypeOK ==
    /\ w \in Wizards
    /\ vault \in [Accounts -> Secrets \cup {Empty}]
    /\ exec \in Seq(WizardJobs)

(* One survey and one launch are waited for at the most, each where its    *)
(* answer belongs.                                                         *)
Alone(q) ==
    \A what \in {"survey", "launch"} : \A i, j \in 1 .. Len(q) :
      q[i].what = what /\ q[i].kept /\ q[j].what = what /\ q[j].kept => i = j
JobFits(job, s) ==
    /\ job.what = "survey" /\ job.kept => s.step = "Region" /\ ~s.chosen /\ job.kind = s.picked
    /\ job.what = "launch" /\ job.kept => s.step = "Launching" /\ ~s.failed
    /\ job.what = "launch" => job.region = job.kind
AnswersFit(q, s) == Alone(q) /\ \A i \in 1 .. Len(q) : JobFits(q[i], s)

(* Past the provider step a table, or a choice, is the picked provider's.  *)
TableFits(s) == s.step # "Provider" /\ (s.chosen \/ s.rows # NoRow) => s.rows = s.picked

WizardIInv == WizardTypeOK /\ AnswersFit(exec, w) /\ TableFits(w)

LEMMA WizardIsNew ==
  ASSUME NEW v \in [Accounts -> Secrets \cup {Empty}]
  PROVE  /\ NewWizard(v) \in Wizards /\ TableFits(NewWizard(v))
         /\ NewWizard(v).step = "Provider"
<1>1. [k \in Rows |-> Buildable(v, k)] \in [Rows -> BOOLEAN]
  BY DEF Buildable
<1>2. [k \in Accounts |-> Empty] \in [Accounts -> Secrets \cup {Empty}]
  OBVIOUS
<1> QED BY <1>1, <1>2 DEF NewWizard, Wizards, TableFits

LEMMA WizardInitial == WizardInit => WizardIInv
<1> SUFFICES ASSUME WizardInit PROVE WizardIInv
  OBVIOUS
<1>1. exec = <<>> /\ exec \in Seq(WizardJobs) /\ Len(exec) = 0
  BY DEF WizardInit
<1> QED BY <1>1, WizardIsNew DEF WizardInit, WizardIInv, WizardTypeOK, AnswersFit, Alone

(* What each step makes of the executor's queue.                           *)
LEMMA JobSubmitted ==
  ASSUME exec \in Seq(WizardJobs), NEW job \in WizardJobs, Submits(job), NEW s,
         Alone(exec), \A i \in 1 .. Len(exec) : JobFits(exec[i], s), JobFits(job, s),
         \A i \in 1 .. Len(exec) : exec[i].kept /\ exec[i].what = job.what => job.what = "check"
  PROVE  exec' \in Seq(WizardJobs) /\ AnswersFit(exec', s)
<1>1. /\ exec' = Append(exec, job) /\ Len(exec) \in Nat /\ exec' \in Seq(WizardJobs)
      /\ Len(exec') = Len(exec) + 1 /\ exec'[Len(exec) + 1] = job
      /\ \A i \in 1 .. Len(exec) : exec'[i] = exec[i]
  BY DEF Submits
<1>2. \A i \in 1 .. Len(exec') : i = Len(exec) + 1 \/ i \in 1 .. Len(exec)
  BY <1>1
<1>3. Alone(exec')
  BY <1>1, <1>2 DEF Alone
<1>4. \A i \in 1 .. Len(exec') : JobFits(exec'[i], s)
  BY <1>1, <1>2
<1> QED BY <1>1, <1>3, <1>4 DEF AnswersFit

LEMMA JobFinished ==
  ASSUME exec \in Seq(WizardJobs), NEW what, Finishes(what), Alone(exec)
  PROVE  /\ Head(exec) \in WizardJobs /\ Head(exec) = exec[1] /\ 1 \in 1 .. Len(exec) /\ Head(exec).what = what
         /\ exec' \in Seq(WizardJobs) /\ Alone(exec')
         /\ \A i \in 1 .. Len(exec') :
              /\ i + 1 \in 1 .. Len(exec) /\ exec'[i] = exec[i + 1]
              /\ what # "check" /\ Head(exec).kept => ~(exec'[i].what = what /\ exec'[i].kept)
<1>1. /\ exec # <<>> /\ exec' = Tail(exec) /\ Head(exec).what = what /\ Len(exec) \in Nat
      /\ Head(exec) \in WizardJobs /\ Head(exec) = exec[1] /\ 1 \in 1 .. Len(exec)
  BY DEF Finishes
<1>2. /\ exec' \in Seq(WizardJobs) /\ Len(exec') = Len(exec) - 1
      /\ \A i \in 1 .. Len(exec') : exec'[i] = exec[i + 1]
  BY <1>1, HeadTailProperties
<1>3. \A i \in 1 .. Len(exec') : i + 1 \in 1 .. Len(exec) /\ i + 1 # 1
  BY <1>1, <1>2
<1>4. Alone(exec')
  BY <1>2, <1>3 DEF Alone
<1>5. what # "check" => what \in {"survey", "launch"}
  BY <1>1 DEF WizardJobs
<1>6. ASSUME NEW i \in 1 .. Len(exec'), what # "check", Head(exec).kept
      PROVE  ~(exec'[i].what = what /\ exec'[i].kept)
  BY <1>1, <1>2, <1>3, <1>5, <1>6 DEF Alone
<1> QED BY <1>1, <1>2, <1>3, <1>4, <1>6

LEMMA JobsForgotten ==
  ASSUME exec \in Seq(WizardJobs), NEW whats, Forgets(whats), Alone(exec)
  PROVE  /\ exec' \in Seq(WizardJobs) /\ Alone(exec') /\ Len(exec') = Len(exec)
         /\ \A i \in 1 .. Len(exec) :
              /\ exec'[i].what = exec[i].what /\ exec'[i].kind = exec[i].kind /\ exec'[i].region = exec[i].region
              /\ exec'[i].kept => exec[i].kept /\ exec[i].what \notin whats
<1> DEFINE Left(i) == IF exec[i].what \in whats THEN [exec[i] EXCEPT !.kept = FALSE] ELSE exec[i]
<1>1. DOMAIN exec = 1 .. Len(exec) /\ Len(exec) \in Nat /\ \A i \in 1 .. Len(exec) : exec[i] \in WizardJobs
  OBVIOUS
<1>2. \A i \in 1 .. Len(exec) : Left(i) \in WizardJobs
  BY <1>1 DEF WizardJobs
<1>3. exec' = [i \in 1 .. Len(exec) |-> Left(i)]
  BY <1>1 DEF Forgets
<1>4. \A i \in 1 .. Len(exec) :
        /\ Left(i).what = exec[i].what /\ Left(i).kind = exec[i].kind /\ Left(i).region = exec[i].region
        /\ Left(i).kept => exec[i].kept /\ exec[i].what \notin whats
  BY <1>1 DEF WizardJobs
<1> HIDE DEF Left
<1>5. exec' \in Seq(WizardJobs) /\ Len(exec') = Len(exec) /\ \A i \in 1 .. Len(exec) : exec'[i] = Left(i)
  BY <1>1, <1>2, <1>3, IsASeq
<1>6. Alone(exec')
  BY <1>4, <1>5 DEF Alone
<1> QED BY <1>4, <1>5, <1>6

(* A step that leaves the queue alone and no answer out of place.          *)
LEMMA QueueStays ==
  ASSUME WizardIInv, exec' = exec, vault' \in [Accounts -> Secrets \cup {Empty}],
         w' \in Wizards, TableFits(w'),
         \A i \in 1 .. Len(exec) : exec[i] \in WizardJobs /\ JobFits(exec[i], w) => JobFits(exec[i], w')
  PROVE  WizardIInv'
<1>1. \A i \in 1 .. Len(exec) : exec[i] \in WizardJobs
  BY DEF WizardIInv, WizardTypeOK
<1>2. AnswersFit(exec, w')
  BY <1>1 DEF WizardIInv, AnswersFit
<1> QED BY <1>2 DEF WizardIInv, WizardTypeOK

LEMMA WizardStep == WizardIInv /\ [WizardNext]_wizardVars => WizardIInv'
<1> SUFFICES ASSUME WizardIInv, [WizardNext]_wizardVars PROVE WizardIInv'
  OBVIOUS
<1>0. /\ w \in Wizards /\ vault \in [Accounts -> Secrets \cup {Empty}] /\ exec \in Seq(WizardJobs)
      /\ Alone(exec) /\ TableFits(w) /\ DOMAIN exec = 1 .. Len(exec)
      /\ \A i \in 1 .. Len(exec) : exec[i] \in WizardJobs /\ JobFits(exec[i], w)
  BY DEF WizardIInv, WizardTypeOK, AnswersFit
<1>1. ASSUME NEW k \in Rows, SelectProvider(k) PROVE WizardIInv'
  <2>1. PICK open \in BOOLEAN : w' = [w EXCEPT !.picked = k, !.open = open]
    <3>1. (~w.ready[k]) \in BOOLEAN
      OBVIOUS
    <3> QED BY <1>1, <3>1 DEF SelectProvider
  <2>2. /\ w' \in Wizards /\ w'.step = w.step /\ w'.failed = w.failed
    BY <1>0, <2>1 DEF Wizards
  <2> QED BY <1>0, <1>1, <2>1, <2>2, QueueStays DEF SelectProvider, JobFits, TableFits
<1>2. ASSUME NEW x \in Secrets \cup {Empty}, Types(x) PROVE WizardIInv'
  <2>1. w' = [w EXCEPT !.fields[w.picked] = x] /\ w.picked \in Accounts
    BY <1>2 DEF Types, PaneShown
  <2>2. /\ w' \in Wizards /\ w'.step = w.step /\ w'.failed = w.failed /\ w'.picked = w.picked
        /\ w'.chosen = w.chosen /\ w'.rows = w.rows
    BY <1>0, <2>1 DEF Wizards
  <2> QED BY <1>0, <1>2, <2>2, QueueStays DEF Types, JobFits, TableFits
<1>3. ASSUME BeginCheck PROVE WizardIInv'
  <2>1. w.picked \in Rows /\ w.fields[w.picked] \in Secrets \cup {Empty}
    BY <1>0, <1>3 DEF BeginCheck, PaneShown, Wizards, Rows
  <2>2. PICK job \in WizardJobs : job.what = "check" /\ Submits(job)
    BY <1>3, <2>1 DEF BeginCheck, Job, WizardJobs
  <2>3. exec' \in Seq(WizardJobs) /\ AnswersFit(exec', w)
    BY <1>0, <2>2, JobSubmitted DEF JobFits
  <2> QED BY <1>0, <1>3, <2>3 DEF BeginCheck, WizardIInv, WizardTypeOK
<1>4. ASSUME NEW works \in BOOLEAN, NEW saves \in BOOLEAN, CheckLands(works, saves) PROVE WizardIInv'
  <2>1. /\ exec' \in Seq(WizardJobs) /\ Alone(exec')
        /\ \A i \in 1 .. Len(exec') : i + 1 \in 1 .. Len(exec) /\ exec'[i] = exec[i + 1]
    BY <1>0, <1>4, JobFinished DEF CheckLands
  <2>2. /\ w' \in Wizards /\ vault' \in [Accounts -> Secrets \cup {Empty}]
        /\ w'.step = w.step /\ w'.failed = w.failed /\ w'.picked = w.picked
        /\ w'.chosen = w.chosen /\ w'.rows = w.rows
    <3>1. CASE ~(works /\ Head(exec).kept)
      BY <1>0, <1>4, <3>1 DEF CheckLands
    <3>2. CASE works /\ Head(exec).kept
      <4>1. ApplyCheckResult(saves)
        BY <1>4, <3>2 DEF CheckLands
      <4>2. vault' \in [Accounts -> Secrets \cup {Empty}]
        BY <1>0, <4>1 DEF ApplyCheckResult, Written, Wizards
      <4>3. CASE w.picked = NoRow
        BY <1>0, <4>1, <4>2, <4>3 DEF ApplyCheckResult
      <4>4. CASE w.picked # NoRow
        <5>0. Buildable(vault', w.picked) \in BOOLEAN
          BY DEF Buildable
        <5>1. PICK yes \in BOOLEAN : w' = [w EXCEPT !.ready[w.picked] = yes]
          BY <4>1, <4>4, <5>0 DEF ApplyCheckResult
        <5> QED BY <1>0, <4>2, <4>4, <5>1 DEF Wizards
      <4> QED BY <4>3, <4>4
    <3> QED BY <3>1, <3>2
  <2>3. \A i \in 1 .. Len(exec') : JobFits(exec'[i], w')
    BY <1>0, <2>1, <2>2 DEF JobFits
  <2>4. TableFits(w')
    BY <1>0, <2>2 DEF TableFits
  <2> QED BY <2>1, <2>2, <2>3, <2>4 DEF WizardIInv, WizardTypeOK, AnswersFit
<1>5. ASSUME Advance PROVE WizardIInv'
  <2>1. w.step = "Provider" /\ w.picked # NoRow /\ w.picked \in Rows /\ vault' = vault
    BY <1>0, <1>5 DEF Advance, Wizards
  <2>2. \A i \in 1 .. Len(exec) : exec[i].kept => exec[i].what = "check"
    BY <1>0, <2>1 DEF JobFits, WizardJobs
  <2>3. CASE w.picked = "local"
    <3>1. w' = [w EXCEPT !.rows = "local", !.chosen = TRUE, !.step = "Preview"] /\ exec' = exec
      BY <1>5, <2>3 DEF Advance
    <3>2. w' \in Wizards /\ w'.step = "Preview" /\ w'.rows = "local" /\ w'.picked = "local"
      BY <1>0, <2>1, <2>3, <3>1 DEF Wizards
    <3> QED BY <1>0, <2>1, <2>2, <3>1, <3>2, QueueStays DEF JobFits, TableFits
  <2>4. CASE w.picked # "local" /\ Buildable(vault, w.picked)
    <3>1. w' = [NewTable(w) EXCEPT !.step = "Region"] /\ Submits(Job("survey", w.picked, Empty, NoRow))
      BY <1>5, <2>4 DEF Advance
    <3>2. w' \in Wizards /\ w'.step = "Region" /\ ~w'.chosen /\ w'.picked = w.picked /\ w'.rows = NoRow
      BY <1>0, <3>1 DEF Wizards, NewTable
    <3>3. PICK job \in WizardJobs : /\ job.what = "survey" /\ job.kept /\ job.kind = w.picked
                                    /\ Submits(job)
      BY <2>1, <3>1 DEF Job, WizardJobs
    <3>4. \A i \in 1 .. Len(exec) : JobFits(exec[i], w')
      BY <1>0, <2>2 DEF JobFits
    <3>5. JobFits(job, w')
      BY <3>2, <3>3 DEF JobFits
    <3>6. exec' \in Seq(WizardJobs) /\ AnswersFit(exec', w')
      BY <1>0, <2>2, <3>3, <3>4, <3>5, JobSubmitted
    <3> QED BY <1>0, <2>1, <3>2, <3>6 DEF WizardIInv, WizardTypeOK, TableFits
  <2>5. CASE w.picked # "local" /\ ~Buildable(vault, w.picked)
    <3>1. w' = [w EXCEPT !.ready[w.picked] = FALSE, !.open = TRUE] /\ exec' = exec
      BY <1>5, <2>5 DEF Advance
    <3>2. w' \in Wizards /\ w'.step = "Provider"
      BY <1>0, <2>1, <3>1 DEF Wizards
    <3> QED BY <1>0, <2>1, <2>2, <3>1, <3>2, QueueStays DEF JobFits, TableFits
  <2> QED BY <2>3, <2>4, <2>5
<1>6. ASSUME NEW found \in BOOLEAN, NEW measured \in BOOLEAN, SurveyLands(found, measured) PROVE WizardIInv'
  <2>1. /\ Head(exec) \in WizardJobs /\ Head(exec) = exec[1] /\ 1 \in 1 .. Len(exec) /\ Head(exec).what = "survey"
        /\ exec' \in Seq(WizardJobs) /\ Alone(exec')
        /\ \A i \in 1 .. Len(exec') :
             /\ i + 1 \in 1 .. Len(exec) /\ exec'[i] = exec[i + 1]
             /\ Head(exec).kept => ~(exec'[i].what = "survey" /\ exec'[i].kept)
    BY <1>0, <1>6, JobFinished DEF SurveyLands
  <2>2. vault' = vault
    BY <1>6 DEF SurveyLands
  <2>3. CASE ~(Head(exec).kept /\ found)
    <3>1. w' = w
      BY <1>6, <2>3 DEF SurveyLands
    <3>2. \A i \in 1 .. Len(exec') : JobFits(exec'[i], w')
      BY <1>0, <2>1, <3>1
    <3> QED BY <1>0, <2>1, <2>2, <3>1, <3>2 DEF WizardIInv, WizardTypeOK, AnswersFit
  <2>4. CASE Head(exec).kept /\ found
    <3>1. w' = [w EXCEPT !.rows = Head(exec).kind, !.chosen = measured]
      BY <1>6, <2>4 DEF SurveyLands
    <3>2. w.step = "Region" /\ Head(exec).kind = w.picked /\ Head(exec).kind \in Rows
      BY <1>0, <2>1, <2>4 DEF JobFits, WizardJobs
    <3>3. /\ w' \in Wizards /\ w'.step = "Region" /\ w'.picked = w.picked /\ w'.rows = w.picked
      BY <1>0, <3>1, <3>2 DEF Wizards
    <3>4. \A i \in 1 .. Len(exec') : JobFits(exec'[i], w')
      BY <1>0, <2>1, <2>4, <3>2, <3>3 DEF JobFits
    <3> QED BY <1>0, <2>1, <2>2, <3>3, <3>4 DEF WizardIInv, WizardTypeOK, AnswersFit, TableFits
  <2> QED BY <2>3, <2>4
<1>7. ASSUME SelectRegion PROVE WizardIInv'
  <2>1. /\ w.step = "Region" /\ w.rows # NoRow /\ w' = [w EXCEPT !.chosen = TRUE]
        /\ \A i \in 1 .. Len(exec) : ~(exec[i].what = "survey" /\ exec[i].kept)
    BY <1>0, <1>7 DEF SelectRegion, Waiting
  <2>2. w' \in Wizards /\ w'.step = "Region" /\ w'.picked = w.picked /\ w'.rows = w.rows
    BY <1>0, <2>1 DEF Wizards
  <2>3. TableFits(w')
    BY <1>0, <2>1, <2>2 DEF TableFits
  <2>4. \A i \in 1 .. Len(exec) : JobFits(exec[i], w')
    BY <1>0, <2>1 DEF JobFits
  <2> QED BY <1>0, <1>7, <2>2, <2>3, <2>4, QueueStays DEF SelectRegion
<1>8. ASSUME ContinueToPreview PROVE WizardIInv'
  <2>1. w.step = "Region" /\ w.chosen /\ w' = [w EXCEPT !.step = "Preview"]
    BY <1>8 DEF ContinueToPreview
  <2>2. w' \in Wizards /\ w'.step = "Preview" /\ w'.picked = w.picked /\ w'.rows = w.rows
    BY <1>0, <2>1 DEF Wizards
  <2> QED BY <1>0, <1>8, <2>1, <2>2, QueueStays DEF ContinueToPreview, JobFits, TableFits
<1>9. ASSUME NEW refused \in BOOLEAN, BeginLaunch(refused) PROVE WizardIInv'
  <2>1. w.step = "Preview" /\ w.chosen /\ w' = [w EXCEPT !.step = "Launching", !.failed = refused]
    BY <1>9 DEF BeginLaunch
  <2>2. /\ w' \in Wizards /\ w'.step = "Launching" /\ w'.failed = refused /\ w'.picked = w.picked
        /\ w'.rows = w.rows /\ w.rows = w.picked /\ TableFits(w')
    BY <1>0, <2>1 DEF Wizards, TableFits
  <2>3. \A i \in 1 .. Len(exec) : exec[i].kept => exec[i].what = "check"
    BY <1>0, <2>1 DEF JobFits, WizardJobs
  <2>4. \A i \in 1 .. Len(exec) : JobFits(exec[i], w')
    BY <1>0, <2>3 DEF JobFits
  <2>5. CASE refused
    BY <1>0, <1>9, <2>2, <2>4, <2>5, QueueStays DEF BeginLaunch
  <2>6. CASE ~refused
    <3>0. w.picked \in Rows
      BY <1>9, <2>6, HostWizardAssumption DEF BeginLaunch, Buildable, Rows
    <3>1. PICK job \in WizardJobs : /\ job.what = "launch" /\ job.kept /\ job.kind = w.picked
                                    /\ job.region = w.picked /\ Submits(job)
      BY <1>9, <2>2, <2>6, <3>0 DEF BeginLaunch, Job, WizardJobs
    <3>2. JobFits(job, w')
      BY <2>2, <2>6, <3>1 DEF JobFits
    <3>3. exec' \in Seq(WizardJobs) /\ AnswersFit(exec', w')
      BY <1>0, <2>3, <2>4, <3>1, <3>2, JobSubmitted
    <3> QED BY <1>0, <1>9, <2>2, <3>3 DEF BeginLaunch, WizardIInv, WizardTypeOK
  <2> QED BY <2>5, <2>6
<1>10. ASSUME NEW up \in BOOLEAN, LaunchLands(up) PROVE WizardIInv'
  <2>1. /\ Head(exec) \in WizardJobs /\ Head(exec) = exec[1] /\ 1 \in 1 .. Len(exec) /\ Head(exec).what = "launch"
        /\ exec' \in Seq(WizardJobs) /\ Alone(exec')
        /\ \A i \in 1 .. Len(exec') :
             /\ i + 1 \in 1 .. Len(exec) /\ exec'[i] = exec[i + 1]
             /\ Head(exec).kept => ~(exec'[i].what = "launch" /\ exec'[i].kept)
    BY <1>0, <1>10, JobFinished DEF LaunchLands
  <2>2. vault' = vault
    BY <1>10 DEF LaunchLands
  <2>3. CASE ~Head(exec).kept
    <3>1. w' = w
      BY <1>10, <2>3 DEF LaunchLands
    <3>2. \A i \in 1 .. Len(exec') : JobFits(exec'[i], w')
      BY <1>0, <2>1, <3>1
    <3> QED BY <1>0, <2>1, <2>2, <3>1, <3>2 DEF WizardIInv, WizardTypeOK, AnswersFit
  <2>4. CASE Head(exec).kept
    <3>1. w' = [w EXCEPT !.step = "Left"] \/ w' = [w EXCEPT !.failed = TRUE]
      BY <1>10, <2>4 DEF LaunchLands
    <3>2. w.step = "Launching"
      BY <1>0, <2>1, <2>4 DEF JobFits
    <3>3. /\ w' \in Wizards /\ w'.picked = w.picked /\ w'.rows = w.rows /\ w'.chosen = w.chosen
      BY <1>0, <3>1 DEF Wizards
    <3>4. \A i \in 1 .. Len(exec') : JobFits(exec'[i], w')
      <4>1. \A i \in 1 .. Len(exec') : JobFits(exec'[i], w)
        BY <1>0, <2>1
      <4> QED BY <2>1, <2>4, <3>2, <4>1 DEF JobFits
    <3>5. TableFits(w')
      BY <1>0, <3>2, <3>3 DEF TableFits
    <3> QED BY <1>0, <2>1, <2>2, <3>3, <3>4, <3>5 DEF WizardIInv, WizardTypeOK, AnswersFit
  <2> QED BY <2>3, <2>4
<1>11. ASSUME AbandonLaunch PROVE WizardIInv'
  <2>1. /\ exec' \in Seq(WizardJobs) /\ Alone(exec') /\ Len(exec') = Len(exec)
        /\ \A i \in 1 .. Len(exec) :
             /\ exec'[i].what = exec[i].what /\ exec'[i].kind = exec[i].kind /\ exec'[i].region = exec[i].region
             /\ exec'[i].kept => exec[i].kept /\ exec[i].what \notin {"launch"}
    BY <1>0, <1>11, JobsForgotten DEF AbandonLaunch
  <2>2. w.step = "Launching" /\ w' = [w EXCEPT !.step = "Preview"] /\ vault' = vault
    BY <1>11 DEF AbandonLaunch
  <2>3. w' \in Wizards /\ w'.step = "Preview" /\ w'.picked = w.picked /\ w'.rows = w.rows /\ w'.chosen = w.chosen
    BY <1>0, <2>2 DEF Wizards
  <2>4. \A i \in 1 .. Len(exec') : JobFits(exec'[i], w')
    BY <1>0, <2>1, <2>2 DEF JobFits
  <2> QED BY <1>0, <2>1, <2>2, <2>3, <2>4 DEF WizardIInv, WizardTypeOK, AnswersFit, TableFits
<1>12. ASSUME Back PROVE WizardIInv'
  <2>1. exec' = exec /\ vault' = vault
    BY <1>12 DEF Back
  <2>2. CASE w.step = "Region" /\ ~Waiting("survey") /\ w' = [w EXCEPT !.step = "Provider"]
    <3>1. w' \in Wizards /\ w'.step = "Provider"
      BY <1>0, <2>2 DEF Wizards
    <3>2. \A i \in 1 .. Len(exec) : ~(exec[i].what = "survey" /\ exec[i].kept)
      BY <1>0, <2>2 DEF Waiting
    <3>3. \A i \in 1 .. Len(exec) : JobFits(exec[i], w')
      BY <1>0, <2>2, <3>2 DEF JobFits
    <3> QED BY <1>0, <2>1, <3>1, <3>3, QueueStays DEF TableFits
  <2>3. CASE w.step = "Preview" /\ w' = [w EXCEPT !.step = IF w.picked = "local" THEN "Provider" ELSE "Region"]
    <3>1. w' \in Wizards /\ w'.picked = w.picked /\ w'.rows = w.rows /\ w'.chosen = w.chosen
      BY <1>0, <2>3 DEF Wizards
    <3>2. TableFits(w')
      BY <1>0, <2>3, <3>1 DEF TableFits
    <3>3. \A i \in 1 .. Len(exec) : JobFits(exec[i], w')
      BY <1>0, <2>3 DEF JobFits
    <3> QED BY <1>0, <2>1, <3>1, <3>2, <3>3, QueueStays
  <2>4. CASE w.step = "Launching" /\ w.failed /\ w' = [w EXCEPT !.step = "Preview", !.failed = FALSE]
    <3>1. w' \in Wizards /\ w'.picked = w.picked /\ w'.rows = w.rows /\ w'.chosen = w.chosen
      BY <1>0, <2>4 DEF Wizards
    <3>2. TableFits(w')
      BY <1>0, <2>4, <3>1 DEF TableFits
    <3>3. \A i \in 1 .. Len(exec) : JobFits(exec[i], w')
      BY <1>0, <2>4 DEF JobFits
    <3> QED BY <1>0, <2>1, <3>1, <3>2, <3>3, QueueStays
  <2> QED BY <1>12, <2>2, <2>3, <2>4 DEF Back
<1>13. ASSUME Reopens PROVE WizardIInv'
  <2>1. /\ exec' \in Seq(WizardJobs) /\ Alone(exec') /\ Len(exec') = Len(exec)
        /\ \A i \in 1 .. Len(exec) :
             /\ exec'[i].what = exec[i].what /\ exec'[i].kind = exec[i].kind /\ exec'[i].region = exec[i].region
             /\ exec'[i].kept => exec[i].kept /\ exec[i].what \notin {"check", "survey", "launch"}
    BY <1>0, <1>13, JobsForgotten DEF Reopens
  <2>2. w' = NewWizard(vault) /\ vault' = vault
    BY <1>13 DEF Reopens
  <2>3. w' \in Wizards /\ TableFits(w')
    BY <1>0, <2>2, WizardIsNew
  <2>4. \A i \in 1 .. Len(exec') : JobFits(exec'[i], w')
    BY <1>0, <2>1 DEF JobFits, WizardJobs
  <2> QED BY <1>0, <2>1, <2>2, <2>3, <2>4 DEF WizardIInv, WizardTypeOK, AnswersFit
<1>14. ASSUME NEW k \in Accounts, EntryVanishes(k) PROVE WizardIInv'
  <2>1. vault' \in [Accounts -> Secrets \cup {Empty}] /\ w' = w /\ exec' = exec
    BY <1>0, <1>14 DEF EntryVanishes
  <2> QED BY <1>0, <2>1, QueueStays
<1>15. CASE UNCHANGED wizardVars
  BY <1>15 DEF wizardVars, WizardIInv, WizardTypeOK
<1> QED BY <1>1, <1>2, <1>3, <1>4, <1>5, <1>6, <1>7, <1>8, <1>9, <1>10, <1>11, <1>12, <1>13, <1>14, <1>15
        DEF WizardNext

(* screens/host.rs: whatever is picked, gone back from, abandoned or still *)
(* being surveyed, a launch is never queued for a region of a provider     *)
(* other than the one it is asked of.                                      *)
THEOREM LaunchesStayHome == WizardSpec => []LaunchesItsOwnRegion
<1>1. WizardIInv => LaunchesItsOwnRegion
  BY DEF WizardIInv, WizardTypeOK, AnswersFit, JobFits, LaunchesItsOwnRegion
<1> QED BY <1>1, WizardInitial, WizardStep, PTL DEF WizardSpec
-----------------------------------------------------------------------------
(* The local provider.                                                     *)
Processes == [kind : {"server", "stranger"}, token : Nat, parent : Programs \cup {Unowned},
              dead : BOOLEAN, listed : BOOLEAN]
Listings == [pid : Pids, token : Nat]
Places == [at : {"idle", "acquire", "break", "read", "write", "release", "starting", "probe",
                 "wait", "killed", "dead"},
           edit : {"none", "push", "find", "remove", "prune", "absent"}, copy : Seq(Listings),
           pid : Pids \cup {0}, token : Nat, ours : BOOLEAN, held : BOOLEAN]

LocalTypeOK ==
    /\ process \in [Pids -> Processes \cup {Nobody}] /\ started \in Nat
    /\ registry \in Seq(Listings) /\ lockfile \in Programs \cup {"free", "stale"}
    /\ prog \in [Programs -> Places] /\ unfenced \in BOOLEAN /\ murdered \in BOOLEAN

Server(n) == process[n] # Nobody /\ process[n].kind = "server"
Stranger(n) == process[n] # Nobody /\ process[n].kind = "stranger"

(* Tokens count up, and no entry was ever written for a stranger's.        *)
Unclaimed(t) == t <= started /\ \A n \in Pids : Stranger(n) => process[n].token # t
TokensCount ==
    /\ \A n \in Pids : /\ process[n] # Nobody => process[n].token \in 1 .. started
                       /\ Stranger(n) => process[n].parent = Unowned
    /\ \A i \in 1 .. Len(registry) : Unclaimed(registry[i].token)

(* Where a call is says what its cycle is for.  A teardown that is sure of *)
(* its process knows it by its token, or has it for a child.               *)
CallFits(h, c) ==
    /\ c.at \in {"acquire", "break", "read", "write"} => c.edit \in {"push", "find", "remove", "prune"}
    /\ c.at = "starting" => c.edit = "push"
    /\ c.at \in {"probe", "wait", "killed"} => c.edit = "find"
    /\ c.edit \in {"push", "find", "remove"} => c.pid \in Pids
    /\ Unclaimed(c.token)
    /\ \A i \in 1 .. Len(c.copy) : Unclaimed(c.copy[i].token)
    /\ c.at = "wait" /\ c.ours /\ c.token = NoToken =>
         Server(c.pid) /\ process[c.pid].parent = h

(* While no two cycles ran at once and no pid named two processes: an      *)
(* entry for a server's pid is that server's, a cycle has the lock and     *)
(* what it read is still the file, a call about a pid is about the server  *)
(* there, and a server being dropped from the file has ended.              *)
Its(n, t) == t = process[n].token \/ (t = NoToken /\ process[n].token = 1)
EntriesFit ==
    \A n \in Pids : Server(n) => \A i \in 1 .. Len(registry) : registry[i].pid = n => Its(n, registry[i].token)
Fenced(h, c) ==
    /\ c.at \in {"read", "write", "release"} => lockfile = h /\ c.held
    /\ c.at = "write" => c.copy = registry
    /\ c.edit = "push" /\ Server(c.pid) => c.token = process[c.pid].token
    /\ c.edit = "find" /\ c.at \in {"release", "probe", "wait", "killed"} /\ Server(c.pid) =>
         Its(c.pid, c.token)
    /\ c.edit = "remove" /\ Server(c.pid) => process[c.pid].dead

LocalIInv ==
    /\ LocalTypeOK /\ TokensCount /\ StrangersSpared /\ RunningIsListed
    /\ \A h \in Programs : CallFits(h, prog[h])
    /\ unfenced \/ (EntriesFit /\ \A h \in Programs : Fenced(h, prog[h]))

(* Processes that only end, or lose their parent; and those of a program   *)
(* that stay its children.                                                 *)
Fades ==
    \A n \in Pids :
      \/ process'[n] = Nobody
      \/ /\ process[n] # Nobody /\ process'[n] # Nobody
         /\ process'[n].kind = process[n].kind /\ process'[n].token = process[n].token
         /\ process'[n].listed = process[n].listed /\ (process[n].dead => process'[n].dead)
         /\ process'[n].parent \in {process[n].parent, Unowned}
Reared(k) ==
    \A n \in Pids : process[n] # Nobody /\ process[n].parent = k =>
                      process'[n] # Nobody /\ process'[n].parent = k

LEMMA LocalInitial == LocalInit => LocalIInv
<1> SUFFICES ASSUME LocalInit PROVE LocalIInv
  OBVIOUS
<1> USE LocalAssumption
<1>1. PICK old \in {Nobody, [kind |-> "server", token |-> 1, parent |-> Unowned, dead |-> FALSE, listed |-> TRUE]} :
        process = [n \in Pids |-> IF n = 1 THEN old ELSE Nobody]
  BY DEF LocalInit
<1>2. /\ \A n \in Pids : process[n] # Nobody =>
           /\ n = 1 /\ process[n] \in Processes /\ process[n].kind = "server" /\ process[n].token = 1
           /\ registry # <<>>
      /\ process \in [Pids -> Processes \cup {Nobody}]
  <2>1. [kind |-> "server", token |-> 1, parent |-> Unowned, dead |-> FALSE, listed |-> TRUE] \in Processes
    BY DEF Processes
  <2>2. \A n \in Pids : process[n] = IF n = 1 THEN old ELSE Nobody
    BY <1>1
  <2>3. old \in Processes \cup {Nobody} /\ (old # Nobody => old.kind = "server" /\ old.token = 1 /\ old \in Processes)
    <3>1. PICK one : one = [kind |-> "server", token |-> 1, parent |-> Unowned, dead |-> FALSE, listed |-> TRUE]
      OBVIOUS
    <3>2. one \in Processes /\ one.kind = "server" /\ one.token = 1
      BY <2>1, <3>1
    <3>3. old = Nobody \/ old = one
      BY <1>1, <3>1
    <3> QED BY <3>2, <3>3
  <2>4. process[1] # Nobody => registry # <<>>
    BY DEF LocalInit
  <2>5. process \in [Pids -> Processes \cup {Nobody}]
    BY <1>1, <2>3
  <2> QED BY <2>2, <2>3, <2>4, <2>5
<1>3. /\ started = 1 /\ lockfile = "free" /\ unfenced = FALSE /\ murdered = FALSE
      /\ \A h \in Programs : prog[h] = Rests
      /\ prog = [h \in Programs |-> Rests]
      /\ registry \in {<<>>, <<[pid |-> 1, token |-> NoToken]>>}
  BY DEF LocalInit
<1>4. registry \in Seq(Listings) /\ \A i \in 1 .. Len(registry) : registry[i].pid = 1 /\ registry[i].token = 0
  <2>1. [pid |-> 1, token |-> NoToken] \in Listings
    BY DEF Listings, NoToken
  <2>2. CASE registry = <<>>
    BY <2>2
  <2>3. CASE registry = <<[pid |-> 1, token |-> NoToken]>>
    BY <2>1, <2>3 DEF NoToken
  <2> QED BY <1>3, <2>2, <2>3
<1>5. Rests \in Places /\ Rests.at = "idle" /\ Rests.edit = "none" /\ Rests.token = 0 /\ Len(Rests.copy) = 0
  BY DEF Rests, Places, NoToken
<1>6. LocalTypeOK
  BY <1>2, <1>3, <1>4, <1>5 DEF LocalTypeOK
<1>7. \A n \in Pids : ~Stranger(n)
  BY <1>2 DEF Stranger
<1>8. TokensCount
  BY <1>2, <1>3, <1>4, <1>7 DEF TokensCount, Unclaimed
<1>9. \A h \in Programs : CallFits(h, prog[h])
  BY <1>3, <1>5, <1>7 DEF CallFits, Unclaimed
<1>10. EntriesFit
  BY <1>2, <1>4 DEF EntriesFit, Its, NoToken, Server
<1>11. \A h \in Programs : Fenced(h, prog[h])
  BY <1>3, <1>5 DEF Fenced
<1>12. RunningIsListed
  <2>1. CASE registry = <<>>
    BY <1>2, <2>1 DEF RunningIsListed, Alive
  <2>2. CASE registry = <<[pid |-> 1, token |-> NoToken]>>
    <3>1. 1 \in DOMAIN registry /\ registry[1].pid = 1 /\ registry[1].token = NoToken
      BY <2>2
    <3> QED BY <1>2, <3>1 DEF RunningIsListed, Alive
  <2> QED BY <1>3, <2>1, <2>2
<1> QED BY <1>3, <1>6, <1>8, <1>9, <1>10, <1>11, <1>12 DEF LocalIInv, StrangersSpared

(* Where a program goes.                                                   *)
LEMMA GoesThere ==
  ASSUME prog \in [Programs -> Places], NEW h \in Programs, NEW c \in Places, Goes(h, c)
  PROVE  /\ prog' \in [Programs -> Places] /\ prog'[h] = c
         /\ \A k \in Programs \ {h} : prog'[k] = prog[k]
BY DEF Goes

(* Steps that leave the file alone: the calls that move fit where they     *)
(* come to, and the others keep their lock and their children.             *)
LEMMA CallsMove ==
  ASSUME LocalIInv, LocalTypeOK', NEW M \in SUBSET Programs,
         registry' = registry, started' = started, murdered' = murdered, Fades, unfenced => unfenced',
         \A k \in Programs \ M : prog'[k] = prog[k] /\ Reared(k),
         \A h \in M : CallFits(h, prog[h])' /\ (unfenced' \/ Fenced(h, prog[h])'),
         unfenced' \/ \A k \in Programs \ M : lockfile = k => lockfile' = k
  PROVE  LocalIInv'
<1>0. LocalTypeOK /\ TokensCount /\ ~murdered /\ RunningIsListed
  BY DEF LocalIInv, StrangersSpared
<1>1. \A n \in Pids : /\ Stranger(n)' => Stranger(n) /\ process'[n].token = process[n].token
                      /\ Server(n)' => /\ Server(n) /\ process'[n].token = process[n].token
                                       /\ process[n].dead => process'[n].dead
  BY DEF Fades, Stranger, Server
<1>2. \A t : Unclaimed(t) => Unclaimed(t)'
  BY <1>1 DEF Unclaimed
<1>3. TokensCount'
  <2>1. ASSUME NEW n \in Pids, process'[n] # Nobody PROVE process'[n].token \in 1 .. started
    BY <1>0, <2>1 DEF Fades, TokensCount
  <2>2. ASSUME NEW n \in Pids, Stranger(n)' PROVE process'[n].parent = Unowned
    BY <1>0, <1>1, <2>2 DEF Fades, TokensCount, Stranger
  <2>3. \A i \in 1 .. Len(registry) : Unclaimed(registry[i].token)'
    BY <1>0, <1>2 DEF TokensCount
  <2> QED BY <2>1, <2>2, <2>3 DEF TokensCount
<1>4. ASSUME NEW k \in Programs \ M PROVE CallFits(k, prog[k])'
  <2>1. CallFits(k, prog[k]) /\ prog'[k] = prog[k] /\ Reared(k)
    BY DEF LocalIInv
  <2>2. ASSUME prog[k].at = "wait", prog[k].ours, prog[k].token = NoToken
        PROVE  Server(prog[k].pid)' /\ process'[prog[k].pid].parent = k
    <3>1. Server(prog[k].pid) /\ process[prog[k].pid].parent = k /\ prog[k].pid \in Pids
      BY <2>1, <2>2 DEF CallFits
    <3> QED BY <2>1, <3>1 DEF Reared, Fades, Server
  <2>3. Unclaimed(prog[k].token)' /\ \A i \in 1 .. Len(prog[k].copy) : Unclaimed(prog[k].copy[i].token)'
    BY <1>2, <2>1 DEF CallFits
  <2> QED BY <2>1, <2>2, <2>3 DEF CallFits
<1>5. ASSUME ~unfenced' PROVE EntriesFit'
  BY <1>1, <1>5 DEF LocalIInv, EntriesFit, Its
<1>6. ASSUME ~unfenced', NEW k \in Programs \ M PROVE Fenced(k, prog[k])'
  <2>1. Fenced(k, prog[k]) /\ CallFits(k, prog[k]) /\ prog'[k] = prog[k]
    BY <1>6 DEF LocalIInv
  <2>2. prog[k].edit \in {"push", "find", "remove"} => prog[k].pid \in Pids
    BY <2>1 DEF CallFits
  <2> QED BY <1>1, <1>6, <2>1, <2>2 DEF Fenced, Its
<1>7. RunningIsListed'
  <2>1. ASSUME ~unfenced', NEW n \in Pids, Alive(n)', process'[n].kind = "server", process'[n].listed
        PROVE  /\ Alive(n) /\ process[n].kind = "server" /\ process[n].listed
               /\ process'[n].token = process[n].token
    BY <1>0, <2>1 DEF Fades, Alive, LocalTypeOK, Processes
  <2> QED BY <1>0, <2>1 DEF RunningIsListed
<1> QED BY <1>0, <1>3, <1>4, <1>5, <1>6, <1>7 DEF LocalIInv, StrangersSpared

LEMMA OneCallMoves ==
  ASSUME LocalIInv, LocalTypeOK', NEW h \in Programs,
         registry' = registry, started' = started, murdered' = murdered, Fades, unfenced => unfenced',
         \A k \in Programs \ {h} : prog'[k] = prog[k] /\ Reared(k),
         CallFits(h, prog[h])', unfenced' \/ Fenced(h, prog[h])',
         unfenced' \/ \A k \in Programs \ {h} : lockfile = k => lockfile' = k
  PROVE  LocalIInv'
<1>1. PICK M \in SUBSET Programs : M = {h}
  OBVIOUS
<1>2. /\ \A k \in Programs \ M : prog'[k] = prog[k] /\ Reared(k)
      /\ unfenced' \/ \A k \in Programs \ M : lockfile = k => lockfile' = k
  BY <1>1
<1>3. \A k \in M : CallFits(k, prog[k])' /\ (unfenced' \/ Fenced(k, prog[k])')
  BY <1>1
<1> QED BY <1>2, <1>3, CallsMove

(* Nothing changes about any process.                                      *)
LEMMA SameProcesses == process' = process => Fades /\ \A k : Reared(k)
BY DEF Fades, Reared

LEMMA CallGoes ==
  ASSUME LocalIInv, NEW h \in Programs, NEW c \in Places, Goes(h, c),
         registry' = registry, started' = started, murdered' = murdered,
         process' \in [Pids -> Processes \cup {Nobody}], Fades, \A k \in Programs \ {h} : Reared(k),
         lockfile' \in Programs \cup {"free", "stale"},
         unfenced' \in BOOLEAN, unfenced => unfenced', CallFits(h, c)', unfenced' \/ Fenced(h, c)',
         unfenced' \/ \A k \in Programs \ {h} : lockfile = k => lockfile' = k
  PROVE  LocalIInv'
<1>1. LocalTypeOK
  BY DEF LocalIInv
<1>2. prog' \in [Programs -> Places] /\ prog'[h] = c /\ \A k \in Programs \ {h} : prog'[k] = prog[k]
  BY <1>1, GoesThere DEF LocalTypeOK
<1>3. LocalTypeOK'
  BY <1>1, <1>2 DEF LocalTypeOK
<1>4. CallFits(h, prog[h])' /\ (unfenced' \/ Fenced(h, prog[h])')
  BY <1>2 DEF CallFits, Fenced
<1>5. \A k \in Programs \ {h} : prog'[k] = prog[k] /\ Reared(k)
  BY <1>2
<1> QED BY <1>3, <1>4, <1>5, OneCallMoves

LEMMA LockSteps ==
  ASSUME LocalIInv, NEW h \in Programs,
         AcquireFree(h) \/ AcquireFindsStale(h) \/ AcquireBreaks(h) \/ AcquireGivesUp(h) \/ ReadRegistry(h)
  PROVE  LocalIInv'
<1> USE LocalAssumption
<1>0. LocalTypeOK /\ CallFits(h, prog[h]) /\ prog[h] \in Places /\ (unfenced \/ Fenced(h, prog[h])) /\ unfenced \in BOOLEAN
  BY DEF LocalIInv, LocalTypeOK
<1>1. process' = process /\ started' = started /\ registry' = registry /\ murdered' = murdered
  BY DEF AcquireFree, AcquireFindsStale, AcquireBreaks, AcquireGivesUp, ReadRegistry
<1>2. ASSUME NEW c \in Places, Goes(h, c), c.edit = prog[h].edit, c.pid = prog[h].pid, c.token = prog[h].token,
             prog[h].at \in {"acquire", "break", "read"}, c.at \in {"acquire", "break", "read", "write"},
             \A i \in 1 .. Len(c.copy) : Unclaimed(c.copy[i].token),
             lockfile' \in Programs \cup {"free", "stale"}, unfenced' \in BOOLEAN, unfenced => unfenced',
             ~unfenced' => /\ c.at \in {"read", "write"} => lockfile' = h /\ c.held
                           /\ c.at = "write" => c.copy = registry
                           /\ \A k \in Programs \ {h} : lockfile = k => lockfile' = k
      PROVE  LocalIInv'
  <2>1. process' \in [Pids -> Processes \cup {Nobody}]
    BY <1>0, <1>1 DEF LocalTypeOK
  <2>2. \A t : Unclaimed(t)' <=> Unclaimed(t)
    BY <1>1 DEF Unclaimed, Stranger
  <2>3. CallFits(h, c)'
    BY <1>0, <1>2, <2>2 DEF CallFits
  <2>4. unfenced' \/ Fenced(h, c)'
    BY <1>0, <1>1, <1>2 DEF Fenced, Its, Server
  <2>5. Fades /\ \A k \in Programs \ {h} : Reared(k)
    BY <1>1, SameProcesses
  <2>6. unfenced' \/ \A k \in Programs \ {h} : lockfile = k => lockfile' = k
    BY <1>2
  <2> QED BY <1>1, <1>2, <2>1, <2>3, <2>4, <2>5, <2>6, CallGoes
<1>3. \A i \in 1 .. Len(prog[h].copy) : Unclaimed(prog[h].copy[i].token)
  BY <1>0 DEF CallFits
<1>4. CASE AcquireFree(h)
  <2>1. PICK c \in Places : c = [prog[h] EXCEPT !.at = "read", !.held = TRUE]
    BY <1>0 DEF Places
  <2>2. /\ Goes(h, c) /\ c.edit = prog[h].edit /\ c.pid = prog[h].pid /\ c.token = prog[h].token
        /\ c.at = "read" /\ c.held /\ c.copy = prog[h].copy
    BY <1>0, <1>4, <2>1 DEF AcquireFree, Places
  <2>3. prog[h].at = "acquire" /\ lockfile = "free" /\ lockfile' = h /\ unfenced' = unfenced
    BY <1>4 DEF AcquireFree
  <2> QED BY <1>0, <1>2, <1>3, <2>2, <2>3
<1>5. CASE AcquireFindsStale(h)
  <2>1. PICK c \in Places : c = [prog[h] EXCEPT !.at = "break"]
    BY <1>0 DEF Places
  <2>2. /\ Goes(h, c) /\ c.edit = prog[h].edit /\ c.pid = prog[h].pid /\ c.token = prog[h].token
        /\ c.at = "break" /\ c.copy = prog[h].copy
    BY <1>0, <1>5, <2>1 DEF AcquireFindsStale, Places
  <2>3. prog[h].at = "acquire" /\ lockfile' = lockfile /\ unfenced' = unfenced
    BY <1>5 DEF AcquireFindsStale
  <2>4. lockfile \in Programs \cup {"free", "stale"}
    BY <1>0 DEF LocalTypeOK
  <2> QED BY <1>0, <1>2, <1>3, <2>2, <2>3, <2>4
<1>6. CASE AcquireBreaks(h)
  <2>1. PICK c \in Places : c = [prog[h] EXCEPT !.at = "acquire"]
    BY <1>0 DEF Places
  <2>2. /\ Goes(h, c) /\ c.edit = prog[h].edit /\ c.pid = prog[h].pid /\ c.token = prog[h].token
        /\ c.at = "acquire" /\ c.copy = prog[h].copy
    BY <1>0, <1>6, <2>1 DEF AcquireBreaks, Places
  <2>3. /\ prog[h].at = "break" /\ lockfile' = "free" /\ unfenced' \in BOOLEAN /\ (unfenced => unfenced')
        /\ (lockfile \in Programs => unfenced')
    BY <1>0, <1>6 DEF AcquireBreaks
  <2> QED BY <1>0, <1>2, <1>3, <2>2, <2>3
<1>7. CASE AcquireGivesUp(h)
  <2>1. PICK c \in Places : c = [prog[h] EXCEPT !.at = "read"]
    BY <1>0 DEF Places
  <2>2. /\ Goes(h, c) /\ c.edit = prog[h].edit /\ c.pid = prog[h].pid /\ c.token = prog[h].token
        /\ c.at = "read" /\ c.copy = prog[h].copy
    BY <1>0, <1>7, <2>1 DEF AcquireGivesUp, Places
  <2>3. prog[h].at = "acquire" /\ lockfile' = lockfile /\ unfenced' = TRUE
    BY <1>7 DEF AcquireGivesUp
  <2>4. lockfile \in Programs \cup {"free", "stale"}
    BY <1>0 DEF LocalTypeOK
  <2> QED BY <1>0, <1>2, <1>3, <2>2, <2>3, <2>4
<1>8. CASE ReadRegistry(h)
  <2>0. registry \in Seq(Listings) /\ \A i \in 1 .. Len(registry) : Unclaimed(registry[i].token)
    BY <1>0 DEF LocalIInv, LocalTypeOK, TokensCount
  <2>1. PICK c \in Places : c = [prog[h] EXCEPT !.at = "write", !.copy = registry]
    BY <1>0, <2>0 DEF Places
  <2>2. /\ Goes(h, c) /\ c.edit = prog[h].edit /\ c.pid = prog[h].pid /\ c.token = prog[h].token
        /\ c.at = "write" /\ c.copy = registry /\ c.held = prog[h].held
    BY <1>0, <1>8, <2>1 DEF ReadRegistry, Places
  <2>3. prog[h].at = "read" /\ lockfile' = lockfile /\ unfenced' = unfenced
    BY <1>8 DEF ReadRegistry
  <2>4. lockfile \in Programs \cup {"free", "stale"} /\ (~unfenced => lockfile = h /\ prog[h].held)
    BY <1>0, <2>3 DEF LocalTypeOK, Fenced
  <2> QED BY <1>0, <1>2, <2>0, <2>2, <2>3, <2>4
<1> QED BY <1>4, <1>5, <1>6, <1>7, <1>8

(* A call that rests, or is at the start of a cycle of its own.            *)
LEMMA TokensStay ==
  ASSUME LocalIInv, started' = started, Fades
  PROVE  Unclaimed(NoToken) /\ \A t : Unclaimed(t) => Unclaimed(t)'
<1>1. \A n \in Pids : Stranger(n)' => Stranger(n) /\ process'[n].token = process[n].token
  BY DEF Fades, Stranger
<1>2. started \in Nat /\ \A n \in Pids : Stranger(n) => process[n].token \in 1 .. started
  BY DEF LocalIInv, LocalTypeOK, TokensCount, Stranger
<1> QED BY <1>1, <1>2 DEF Unclaimed, NoToken

LEMMA CallRests ==
  ASSUME LocalIInv, NEW h \in Programs, NEW c \in Places, Goes(h, c), c.at \in {"idle", "dead"},
         c.edit = "none", c.token = NoToken, c.copy = <<>>,
         registry' = registry, started' = started, murdered' = murdered,
         process' \in [Pids -> Processes \cup {Nobody}], Fades, \A k \in Programs \ {h} : Reared(k),
         lockfile' \in Programs \cup {"free", "stale"}, unfenced' \in BOOLEAN, unfenced => unfenced',
         unfenced' \/ \A k \in Programs \ {h} : lockfile = k => lockfile' = k
  PROVE  LocalIInv'
<1>1. Unclaimed(NoToken)'
  BY TokensStay
<1>2. CallFits(h, c)' /\ Fenced(h, c)'
  BY <1>1 DEF CallFits, Fenced
<1> QED BY <1>2, CallGoes

LEMMA CycleStarts ==
  ASSUME LocalIInv, NEW h \in Programs, NEW c \in Places, Goes(h, c), c.at = "acquire",
         c.edit \in {"find", "remove", "prune"}, c.edit # "prune" => c.pid \in Pids,
         c.copy = <<>>, Unclaimed(c.token),
         registry' = registry, started' = started, murdered' = murdered, lockfile' = lockfile,
         unfenced' = unfenced,
         process' \in [Pids -> Processes \cup {Nobody}], Fades, \A k \in Programs \ {h} : Reared(k),
         unfenced \/ (c.edit = "remove" /\ Server(c.pid)' => process'[c.pid].dead)
  PROVE  LocalIInv'
<1>1. Unclaimed(c.token)'
  BY TokensStay
<1>2. lockfile' \in Programs \cup {"free", "stale"} /\ unfenced' \in BOOLEAN
  BY DEF LocalIInv, LocalTypeOK
<1>3. CallFits(h, c)' /\ (unfenced' \/ Fenced(h, c)')
  BY <1>1 DEF CallFits, Fenced
<1> QED BY <1>2, <1>3, CallGoes

LEMMA RestsThere ==
  /\ <<>> \in Seq(Listings)
  /\ Rests \in Places /\ Rests.at = "idle" /\ Rests.edit = "none" /\ Rests.token = NoToken
  /\ Rests.copy = <<>> /\ Rests.pid = 0 /\ ~Rests.held
BY DEF Rests, Places, NoToken

(* What try_wait frees is a dead child of the one that looks.              *)
LEMMA LooksOnly ==
  ASSUME LocalTypeOK, NEW h \in Programs, NEW n \in Pids, process' = Reaped(h, n)
  PROVE  /\ process' \in [Pids -> Processes \cup {Nobody}] /\ Fades
         /\ \A k \in Programs \ {h} : Reared(k)
         /\ Alive(n) => process' = process
         /\ ~Alive(n) /\ Server(n)' => process'[n].dead
<1>1. CASE process[n] # Nobody /\ process[n].dead /\ process[n].parent = h
  <2>1. process' = [process EXCEPT ![n] = Nobody]
    BY <1>1 DEF Reaped
  <2>2. process' \in [Pids -> Processes \cup {Nobody}] /\ process'[n] = Nobody
        /\ \A m \in Pids \ {n} : process'[m] = process[m]
    BY <2>1 DEF LocalTypeOK
  <2> QED BY <1>1, <2>2 DEF Fades, Reared, Alive, Server
<1>2. CASE ~(process[n] # Nobody /\ process[n].dead /\ process[n].parent = h)
  <2>1. process' = process
    BY <1>2 DEF Reaped
  <2> QED BY <2>1, SameProcesses DEF LocalTypeOK, Alive, Server
<1> QED BY <1>1, <1>2

LEMMA LockGoesStaleKeeps == ASSUME LocalIInv, LockGoesStale PROVE LocalIInv'
<1>1. PICK h \in Programs : h = lockfile
  BY DEF LockGoesStale
<1>2. /\ prog[h].at = "dead" /\ lockfile' = "stale" /\ prog' = prog /\ process' = process
      /\ started' = started /\ registry' = registry /\ unfenced' = unfenced /\ murdered' = murdered
  BY <1>1 DEF LockGoesStale
<1>3. LocalTypeOK /\ CallFits(h, prog[h]) /\ (unfenced \/ Fenced(h, prog[h]))
  BY DEF LocalIInv
<1>4. LocalTypeOK' /\ CallFits(h, prog[h])'
  BY <1>2, <1>3 DEF LocalTypeOK, CallFits, Unclaimed, Stranger, Server
<1>5. unfenced' \/ Fenced(h, prog[h])'
  BY <1>2, <1>3 DEF Fenced, Its, Server
<1>6. Fades /\ \A k : Reared(k)
  BY <1>2, SameProcesses
<1> QED BY <1>1, <1>2, <1>4, <1>5, <1>6, OneCallMoves

(* A registry set aside leaves nothing recorded, and what the one that     *)
(* found it damaged read is the new file.                                  *)
LEMMA SetsAsideKeeps == ASSUME LocalIInv, NEW h \in Programs, SetsAside(h) PROVE LocalIInv'
<1>0. /\ LocalTypeOK /\ TokensCount /\ prog[h] \in Places /\ prog[h].at = "read"
      /\ started' = started /\ lockfile' = lockfile /\ unfenced' = unfenced /\ murdered' = murdered
      /\ registry' = <<>>
  BY DEF LocalIInv, LocalTypeOK, SetsAside
<1>1. ASSUME NEW n \in Pids
      PROVE  \/ process[n] = Nobody /\ process'[n] = Nobody
             \/ /\ process[n] # Nobody /\ process'[n] # Nobody /\ process'[n] \in Processes
                /\ process'[n].kind = process[n].kind /\ process'[n].token = process[n].token
                /\ process'[n].parent = process[n].parent /\ process'[n].dead = process[n].dead
                /\ process'[n].listed = FALSE
  <2>1. CASE process[n] = Nobody
    BY <2>1 DEF SetsAside
  <2>2. CASE process[n] # Nobody
    <3>1. PICK p \in Processes : p = process[n]
      BY <1>0, <2>2 DEF LocalTypeOK
    <3>2. PICK q : q = [p EXCEPT !.listed = FALSE]
      OBVIOUS
    <3>3. /\ q \in Processes /\ q.kind = p.kind /\ q.token = p.token /\ q.parent = p.parent
          /\ q.dead = p.dead /\ q.listed = FALSE
      BY <3>2 DEF Processes
    <3>4. process'[n] = q
      BY <2>2, <3>1, <3>2 DEF SetsAside
    <3>5. q # Nobody
      BY <3>1, <3>3 DEF Processes, Nobody
    <3> QED BY <2>2, <3>1, <3>3, <3>4, <3>5
  <2> QED BY <2>1, <2>2
<1>2. process' \in [Pids -> Processes \cup {Nobody}]
  <2>1. process' = [n \in Pids |-> process'[n]]
    BY DEF SetsAside
  <2> QED BY <1>1, <2>1
<1>3. \A n \in Pids : /\ Server(n)' <=> Server(n)
                      /\ Stranger(n)' <=> Stranger(n)
                      /\ Server(n) \/ Stranger(n) => /\ process'[n].token = process[n].token
                                                     /\ process'[n].parent = process[n].parent
                                                     /\ process'[n].dead = process[n].dead
  BY <1>1 DEF Server, Stranger
<1>4. \A t : Unclaimed(t) => Unclaimed(t)'
  BY <1>0, <1>3 DEF Unclaimed
<1>5. PICK c : c = [prog[h] EXCEPT !.at = "write", !.copy = <<>>]
  OBVIOUS
<1>6. /\ c \in Places /\ c.at = "write" /\ c.copy = <<>> /\ c.edit = prog[h].edit /\ c.pid = prog[h].pid
      /\ c.token = prog[h].token /\ c.held = prog[h].held
  BY <1>0, <1>5, RestsThere DEF Places
<1>7. prog' \in [Programs -> Places] /\ prog'[h] = c /\ \A k \in Programs \ {h} : prog'[k] = prog[k]
  BY <1>0, <1>5, <1>6, GoesThere DEF SetsAside, LocalTypeOK
<1>8. LocalTypeOK'
  BY <1>0, <1>2, <1>7, RestsThere DEF LocalTypeOK
<1>9. TokensCount'
  <2>1. \A n \in Pids : /\ process'[n] # Nobody => process'[n].token \in 1 .. started
                        /\ Stranger(n)' => process'[n].parent = Unowned
    BY <1>0, <1>1, <1>3 DEF TokensCount
  <2>2. 1 .. Len(registry') = {}
    BY <1>0
  <2> QED BY <1>0, <2>1, <2>2 DEF TokensCount
<1>10. ASSUME NEW k \in Programs PROVE CallFits(k, prog[k])'
  <2>1. CallFits(k, prog[k])
    BY DEF LocalIInv
  <2>2. CASE k = h
    <3>1. 1 .. Len(c.copy) = {}
      BY <1>6
    <3>2. CallFits(h, c)'
      BY <1>0, <1>4, <1>6, <2>1, <2>2, <3>1 DEF CallFits
    <3> QED BY <1>7, <2>2, <3>2
  <2>3. CASE k # h
    <3>1. prog'[k] = prog[k]
      BY <1>7, <2>3
    <3>2. prog[k].edit \in {"push", "find", "remove"} => prog[k].pid \in Pids
      BY <2>1 DEF CallFits
    <3> QED BY <1>3, <1>4, <2>1, <3>1, <3>2 DEF CallFits
  <2> QED BY <2>2, <2>3
<1>11. ASSUME ~unfenced PROVE EntriesFit' /\ \A k \in Programs : Fenced(k, prog[k])'
  <2>1. 1 .. Len(registry') = {}
    BY <1>0
  <2>2. EntriesFit'
    BY <2>1 DEF EntriesFit
  <2>3. ASSUME NEW k \in Programs PROVE Fenced(k, prog[k])'
    <3>1. /\ Fenced(k, prog[k]) /\ Fenced(h, prog[h])
          /\ prog[k].edit \in {"push", "find", "remove"} => prog[k].pid \in Pids
      BY <1>11 DEF LocalIInv, CallFits
    <3>2. lockfile = h /\ prog[h].held
      BY <1>0, <3>1 DEF Fenced
    <3>3. CASE k = h
      <4>1. lockfile' = h /\ c.held /\ c.copy = registry'
        BY <1>0, <1>6, <3>2
      <4>2. c.at = "write" /\ c.edit = prog[h].edit /\ c.pid = prog[h].pid /\ c.token = prog[h].token
        BY <1>6
      <4>3. c.edit \in {"push", "find", "remove"} => c.pid \in Pids
        BY <3>1, <3>3, <4>2
      <4>4. c.edit = "push" /\ Server(c.pid)' => c.token = process'[c.pid].token
        BY <1>3, <3>1, <4>2, <4>3 DEF Fenced
      <4>5. c.edit = "remove" /\ Server(c.pid)' => process'[c.pid].dead
        BY <1>3, <3>1, <4>2, <4>3 DEF Fenced
      <4>6. Fenced(h, c)'
        BY <4>1, <4>2, <4>4, <4>5 DEF Fenced
      <4> QED BY <1>7, <3>3, <4>6
    <3>4. CASE k # h
      BY <1>0, <1>3, <1>7, <3>1, <3>2, <3>4 DEF Fenced, Its
    <3> QED BY <3>3, <3>4
  <2> QED BY <2>2, <2>3
<1>12. RunningIsListed'
  BY <1>1 DEF RunningIsListed, Alive
<1> QED BY <1>0, <1>8, <1>9, <1>10, <1>11, <1>12 DEF LocalIInv, StrangersSpared

LEMMA LetsGo == ASSUME LocalIInv, NEW h \in Programs, WriteFails(h) \/ Release(h) PROVE LocalIInv'
<1> USE LocalAssumption
<1>0. /\ LocalTypeOK /\ CallFits(h, prog[h]) /\ prog[h] \in Places /\ (unfenced \/ Fenced(h, prog[h]))
      /\ lockfile \in Programs \cup {"free", "stale"} /\ unfenced \in BOOLEAN
  BY DEF LocalIInv, LocalTypeOK
<1>1. process' = process /\ started' = started /\ registry' = registry /\ murdered' = murdered
  BY DEF WriteFails, Release
<1>2. process' \in [Pids -> Processes \cup {Nobody}] /\ Fades /\ \A k \in Programs \ {h} : Reared(k)
  BY <1>0, <1>1, SameProcesses DEF LocalTypeOK
<1>3. \A t : Unclaimed(t) => Unclaimed(t)'
  BY <1>1, <1>2, TokensStay
<1>4. \A n \in Pids : (Server(n)' <=> Server(n)) /\ \A t : Its(n, t)' <=> Its(n, t)
  BY <1>1 DEF Its, Server
<1>5. CASE WriteFails(h)
  <2>1. PICK c \in Places : c = [prog[h] EXCEPT !.at = "release", !.edit = "absent", !.copy = <<>>]
    BY <1>0, RestsThere DEF Places
  <2>2. Goes(h, c) /\ c.at = "release" /\ c.edit = "absent" /\ c.copy = <<>> /\ c.token = prog[h].token /\ c.held = prog[h].held
    BY <1>0, <1>5, <2>1 DEF WriteFails, Places
  <2>3. prog[h].at \in {"read", "write"} /\ lockfile' = lockfile /\ unfenced' = unfenced
    BY <1>5 DEF WriteFails
  <2>4. CallFits(h, c)'
    BY <1>0, <1>3, <2>2 DEF CallFits
  <2>5. unfenced' \/ Fenced(h, c)'
    BY <1>0, <2>2, <2>3 DEF Fenced
  <2> QED BY <1>0, <1>1, <1>2, <2>2, <2>3, <2>4, <2>5, CallGoes
<1>6. CASE Release(h)
  <2>1. /\ prog[h].at = "release" /\ lockfile' \in Programs \cup {"free", "stale"}
        /\ unfenced' \in BOOLEAN /\ (unfenced => unfenced')
        /\ ~unfenced' => \A k \in Programs \ {h} : lockfile = k => lockfile' = k
    BY <1>0, <1>6 DEF Release
  <2>2. ~unfenced' => Fenced(h, prog[h])
    BY <1>0, <2>1
  <2>3. CASE prog[h].edit = "push"
    <3>1. PICK c \in Places : c = [prog[h] EXCEPT !.at = "starting"]
      BY <1>0 DEF Places
    <3>2. Goes(h, c) /\ c.at = "starting" /\ c.edit = "push" /\ c.copy = prog[h].copy /\ c.token = prog[h].token /\ c.pid = prog[h].pid
      BY <1>0, <1>6, <2>3, <3>1 DEF Release, Places
    <3>3. CallFits(h, c)'
      BY <1>0, <1>3, <2>3, <3>2 DEF CallFits
    <3>4. c.pid \in Pids
      BY <1>0, <2>3, <3>2 DEF CallFits
    <3>5. unfenced' \/ Fenced(h, c)'
      BY <1>1, <1>4, <2>2, <2>3, <3>2, <3>4 DEF Fenced
    <3> QED BY <1>0, <1>1, <1>2, <2>1, <3>2, <3>3, <3>5, CallGoes
  <2>4. CASE prog[h].edit = "find"
    <3>1. PICK c \in Places : c = [prog[h] EXCEPT !.at = "probe"]
      BY <1>0 DEF Places
    <3>2. Goes(h, c) /\ c.at = "probe" /\ c.edit = "find" /\ c.copy = prog[h].copy /\ c.token = prog[h].token /\ c.pid = prog[h].pid
      BY <1>0, <1>6, <2>4, <3>1 DEF Release, Places
    <3>3. CallFits(h, c)'
      BY <1>0, <1>3, <2>4, <3>2 DEF CallFits
    <3>4. c.pid \in Pids
      BY <1>0, <2>4, <3>2 DEF CallFits
    <3>5. unfenced' \/ Fenced(h, c)'
      BY <1>1, <1>4, <2>1, <2>2, <2>4, <3>2, <3>4 DEF Fenced
    <3> QED BY <1>0, <1>1, <1>2, <2>1, <3>2, <3>3, <3>5, CallGoes
  <2>5. CASE prog[h].edit \notin {"push", "find"}
    <3>1. PICK c \in Places : c = Rests
      BY RestsThere
    <3>2. Goes(h, c) /\ c.at = "idle" /\ c.edit = "none" /\ c.token = NoToken /\ c.copy = <<>>
      BY <1>6, <2>5, <3>1 DEF Release, Ends, Rests
    <3> QED BY <1>0, <1>1, <1>2, <2>1, <3>2, CallRests
  <2> QED BY <2>3, <2>4, <2>5
<1> QED BY <1>5, <1>6

LEMMA CallsBegin ==
  ASSUME LocalIInv, NEW h \in Programs, Lists(h) \/ (\E n \in Pids : Destroys(h, n)) \/ ProgramStarts(h)
  PROVE  LocalIInv'
<1>0. LocalTypeOK /\ lockfile' \in Programs \cup {"free", "stale"} /\ unfenced' \in BOOLEAN
  BY DEF LocalIInv, LocalTypeOK, Lists, Destroys, ProgramStarts
<1>1. /\ process' = process /\ started' = started /\ registry' = registry /\ murdered' = murdered
      /\ lockfile' = lockfile /\ unfenced' = unfenced
  BY DEF Lists, Destroys, ProgramStarts
<1>2. process' \in [Pids -> Processes \cup {Nobody}] /\ Fades /\ \A k \in Programs \ {h} : Reared(k)
  BY <1>0, <1>1, SameProcesses DEF LocalTypeOK
<1>3. Unclaimed(NoToken)
  BY <1>1, <1>2, TokensStay
<1>4. CASE Lists(h)
  <2>1. PICK c \in Places : c = [Rests EXCEPT !.at = "acquire", !.edit = "prune"]
    BY RestsThere DEF Places
  <2>2. Goes(h, c) /\ c.at = "acquire" /\ c.edit = "prune" /\ c.token = NoToken /\ c.copy = <<>>
    BY <1>4, <2>1 DEF Lists, Rests
  <2> QED BY <1>0, <1>1, <1>2, <1>3, <2>2, CycleStarts
<1>5. ASSUME NEW n \in Pids, Destroys(h, n) PROVE LocalIInv'
  <2>1. PICK c \in Places : c = [Rests EXCEPT !.at = "acquire", !.edit = "find", !.pid = n]
    BY RestsThere DEF Places
  <2>2. Goes(h, c) /\ c.at = "acquire" /\ c.edit = "find" /\ c.pid = n /\ c.token = NoToken /\ c.copy = <<>>
    BY <1>5, <2>1 DEF Destroys, Rests
  <2> QED BY <1>0, <1>1, <1>2, <1>3, <2>2, CycleStarts
<1>6. CASE ProgramStarts(h)
  <2>1. PICK c \in Places : c = Rests
    BY RestsThere
  <2>2. Goes(h, c) /\ c.at = "idle" /\ c.edit = "none" /\ c.token = NoToken /\ c.copy = <<>>
    BY <1>6, <2>1 DEF ProgramStarts, Ends, Rests
  <2> QED BY <1>0, <1>1, <1>2, <2>2, CallRests
<1> QED BY <1>4, <1>5, <1>6

(* What a look at the pid of an entry may say.                             *)
LEMMA LookingSays ==
  ASSUME LocalIInv, NEW h \in Programs, NEW e \in Listings, Unclaimed(e.token)
  PROVE  /\ Classify(h, e) # {"Dead"} => Alive(e.pid)
         /\ "Dead" \in Classify(h, e) /\ Alive(e.pid) => ~(Server(e.pid) /\ Its(e.pid, e.token))
         /\ "Ours" \in Classify(h, e) => Server(e.pid) /\ (e.token # NoToken \/ process[e.pid].parent = h)
         /\ Classify(h, e) # {"Dead"} /\ e.token # NoToken => Server(e.pid)
<1> USE LocalAssumption
<1>1. /\ e.pid \in Pids /\ process[e.pid] \in Processes \cup {Nobody}
      /\ process[e.pid] # Nobody => process[e.pid].token \in 1 .. started
      /\ Stranger(e.pid) => process[e.pid].parent = Unowned /\ process[e.pid].token # e.token
  BY DEF LocalIInv, LocalTypeOK, TokensCount, Unclaimed, Listings
<1>2. Stranger(e.pid) => process[e.pid].parent # h
  BY <1>1 DEF Unowned
<1>3. Alive(e.pid) => Server(e.pid) \/ Stranger(e.pid)
  BY <1>1 DEF Alive, Server, Stranger, Processes
<1>4. ~Alive(e.pid) => Classify(h, e) = {"Dead"}
  BY DEF Classify
<1>5. Alive(e.pid) /\ process[e.pid].parent = h => Classify(h, e) = {"Ours"}
  BY DEF Classify
<1>6. Alive(e.pid) /\ process[e.pid].parent # h /\ e.token = process[e.pid].token => Classify(h, e) = {"Ours"}
  BY DEF Classify
<1>7. Alive(e.pid) /\ process[e.pid].parent # h /\ e.token # process[e.pid].token /\ e.token # NoToken
        => Classify(h, e) = {"Dead"}
  BY DEF Classify
<1>8. Alive(e.pid) /\ process[e.pid].parent # h /\ e.token # process[e.pid].token /\ e.token = NoToken
        => /\ "Ours" \notin Classify(h, e)
           /\ "Dead" \in Classify(h, e) => process[e.pid].token # 1
  BY DEF Classify
<1>9. e.token = NoToken => ~(Alive(e.pid) /\ e.token = process[e.pid].token)
  BY <1>1 DEF Alive, NoToken
<1> QED
  <2>1. Classify(h, e) # {"Dead"} => Alive(e.pid)
    BY <1>4
  <2>2. "Dead" \in Classify(h, e) /\ Alive(e.pid) => ~(Server(e.pid) /\ Its(e.pid, e.token))
    BY <1>5, <1>6, <1>7, <1>8 DEF Its
  <2>3. "Ours" \in Classify(h, e) => Server(e.pid) /\ (e.token # NoToken \/ process[e.pid].parent = h)
    BY <1>1, <1>2, <1>3, <1>4, <1>7, <1>8, <1>9
  <2>4. Classify(h, e) # {"Dead"} /\ e.token # NoToken => Server(e.pid)
    BY <1>1, <1>2, <1>3, <1>4, <1>7
  <2> QED BY <2>1, <2>2, <2>3, <2>4

LEMMA StartsUpKeeps == ASSUME LocalIInv, NEW h \in Programs, StartsUp(h) PROVE LocalIInv'
<1>0. /\ LocalTypeOK /\ CallFits(h, prog[h]) /\ prog[h] \in Places /\ Unclaimed(prog[h].token)
      /\ lockfile \in Programs \cup {"free", "stale"} /\ unfenced \in BOOLEAN
  BY DEF LocalIInv, LocalTypeOK, CallFits
<1>1. /\ prog[h].at = "starting" /\ process' = Reaped(h, prog[h].pid)
      /\ started' = started /\ registry' = registry /\ murdered' = murdered
      /\ lockfile' = lockfile /\ unfenced' = unfenced
  BY DEF StartsUp
<1>2. PICK n \in Pids : n = prog[h].pid
  BY <1>0, <1>1 DEF CallFits
<1>3. /\ process' \in [Pids -> Processes \cup {Nobody}] /\ Fades /\ \A k \in Programs \ {h} : Reared(k)
      /\ ~Alive(n) /\ Server(n)' => process'[n].dead
  BY <1>0, <1>1, <1>2, LooksOnly
<1>4. CASE Ends(h)
  <2>1. PICK c \in Places : c = Rests
    BY RestsThere
  <2>2. Goes(h, c) /\ c.at = "idle" /\ c.edit = "none" /\ c.token = NoToken /\ c.copy = <<>>
    BY <1>4, <2>1, RestsThere DEF Ends
  <2> QED BY <1>0, <1>1, <1>3, <2>2, CallRests
<1>5. ASSUME NEW edit \in {"find", "remove"}, Cycle(h, edit), edit = "remove" => ~Alive(n) PROVE LocalIInv'
  <2>1. PICK c \in Places : c = [prog[h] EXCEPT !.at = "acquire", !.edit = edit, !.copy = <<>>, !.held = FALSE]
    BY <1>0, RestsThere DEF Places
  <2>2. Goes(h, c) /\ c.at = "acquire" /\ c.edit = edit /\ c.copy = <<>> /\ c.token = prog[h].token /\ c.pid = n
    BY <1>0, <1>2, <1>5, <2>1 DEF Cycle, Places
  <2>3. c.edit = "remove" /\ Server(c.pid)' => process'[c.pid].dead
    BY <1>3, <1>5, <2>2
  <2> QED BY <1>0, <1>1, <1>2, <1>3, <2>2, <2>3, CycleStarts
<1> QED BY <1>2, <1>4, <1>5 DEF StartsUp

(* What finds the process of its entry gone goes on to drop the entry.     *)
LEMMA DropsTheEntry ==
  ASSUME LocalIInv, NEW h \in Programs, prog[h].at \in {"probe", "wait", "killed"},
         "Dead" \in Classify(h, Entry(prog[h].pid, prog[h].token)),
         process' = Reaped(h, prog[h].pid), Cycle(h, "remove"),
         UNCHANGED <<started, registry, lockfile, operations, unfenced, murdered>>
  PROVE  LocalIInv'
<1>0. /\ LocalTypeOK /\ CallFits(h, prog[h]) /\ prog[h] \in Places /\ Unclaimed(prog[h].token)
      /\ unfenced \in BOOLEAN /\ (unfenced \/ Fenced(h, prog[h]))
  BY DEF LocalIInv, LocalTypeOK, CallFits
<1>1. PICK n \in Pids : n = prog[h].pid /\ prog[h].edit = "find"
  BY <1>0 DEF CallFits
<1>2. PICK e \in Listings : e = Entry(prog[h].pid, prog[h].token)
  BY <1>0, <1>1 DEF Entry, Listings, Places
<1>3. e.pid = n /\ e.token = prog[h].token
  BY <1>1, <1>2 DEF Entry
<1>4. /\ process' \in [Pids -> Processes \cup {Nobody}] /\ Fades /\ \A k \in Programs \ {h} : Reared(k)
      /\ Alive(n) => process' = process
      /\ ~Alive(n) /\ Server(n)' => process'[n].dead
  BY <1>0, <1>1, LooksOnly
<1>5. PICK c \in Places : c = [prog[h] EXCEPT !.at = "acquire", !.edit = "remove", !.copy = <<>>, !.held = FALSE]
  BY <1>0, RestsThere DEF Places
<1>6. Goes(h, c) /\ c.at = "acquire" /\ c.edit = "remove" /\ c.copy = <<>> /\ c.token = prog[h].token /\ c.pid = n
  BY <1>0, <1>1, <1>5 DEF Cycle, Places
<1>7. unfenced \/ (Server(c.pid)' => process'[c.pid].dead)
  <2>1. CASE Alive(e.pid)
    <3>1. ~(Server(e.pid) /\ Its(e.pid, e.token))
      BY <1>0, <1>2, <1>3, <2>1, LookingSays
    <3>2. Server(e.pid)' => Server(e.pid)
      BY <1>3, <1>4, <2>1 DEF Server
    <3>3. unfenced \/ (Server(e.pid) => Its(e.pid, e.token))
      BY <1>0, <1>1, <1>3 DEF Fenced
    <3> QED BY <1>3, <1>6, <3>1, <3>2, <3>3
  <2> QED BY <1>3, <1>4, <1>6, <2>1
<1> QED BY <1>0, <1>1, <1>4, <1>6, <1>7, CycleStarts

LEMMA ProbesKeeps == ASSUME LocalIInv, NEW h \in Programs, Probes(h) PROVE LocalIInv'
<1>0. /\ LocalTypeOK /\ CallFits(h, prog[h]) /\ prog[h] \in Places /\ Unclaimed(prog[h].token)
      /\ lockfile \in Programs \cup {"free", "stale"} /\ unfenced \in BOOLEAN /\ (unfenced \/ Fenced(h, prog[h]))
  BY DEF LocalIInv, LocalTypeOK, CallFits
<1>1. /\ prog[h].at = "probe" /\ process' = Reaped(h, prog[h].pid)
      /\ started' = started /\ registry' = registry /\ murdered' = murdered
      /\ lockfile' = lockfile /\ unfenced' = unfenced /\ operations' = operations
  BY DEF Probes, Entry
<1>2. PICK n \in Pids : n = prog[h].pid /\ prog[h].edit = "find"
  BY <1>0, <1>1 DEF CallFits
<1>3. PICK e \in Listings : e = Entry(prog[h].pid, prog[h].token)
  BY <1>0, <1>2 DEF Entry, Listings, Places
<1>4. e.pid = n /\ e.token = prog[h].token
  BY <1>2, <1>3 DEF Entry
<1>5. PICK l \in Classify(h, e) :
        IF l = "Dead" THEN Cycle(h, "remove")
                      ELSE Goes(h, [prog[h] EXCEPT !.at = "wait", !.ours = (l = "Ours")])
  BY <1>3 DEF Probes
<1>6. CASE l = "Dead"
  BY <1>1, <1>3, <1>5, <1>6, DropsTheEntry
<1>7. CASE l # "Dead"
  <2>1. PICK sure \in BOOLEAN : sure = (l = "Ours")
    OBVIOUS
  <2>2. PICK c \in Places : c = [prog[h] EXCEPT !.at = "wait", !.ours = sure]
    BY <1>0, <2>1 DEF Places
  <2>3. Goes(h, [prog[h] EXCEPT !.at = "wait", !.ours = sure])
    BY <1>5, <1>7, <2>1
  <2>4. /\ Goes(h, c) /\ c.at = "wait" /\ c.edit = "find" /\ c.pid = n /\ c.token = prog[h].token
        /\ c.copy = prog[h].copy /\ c.ours = sure
    BY <1>0, <1>2, <2>2, <2>3 DEF Places
  <2>5. Alive(n)
    BY <1>0, <1>4, <1>5, <1>7, LookingSays
  <2>6. process' = process /\ Fades /\ (\A k \in Programs \ {h} : Reared(k))
    BY <1>0, <1>1, <1>2, <2>5, LooksOnly
  <2>7. sure => Server(n) /\ (c.token # NoToken \/ process[n].parent = h)
    BY <1>0, <1>4, <1>5, <2>1, <2>4, LookingSays
  <2>8. \A t : Unclaimed(t) => Unclaimed(t)'
    BY <1>1, <2>6, TokensStay
  <2>9. CallFits(h, c)'
    BY <1>0, <2>4, <2>6, <2>7, <2>8 DEF CallFits, Server
  <2>10. unfenced' \/ Fenced(h, c)'
    BY <1>0, <1>1, <1>2, <2>4, <2>6 DEF Fenced, Server, Its
  <2> QED BY <1>0, <1>1, <2>4, <2>6, <2>9, <2>10, CallGoes DEF LocalTypeOK
<1> QED BY <1>6, <1>7

LEMMA SeesDeadKeeps == ASSUME LocalIInv, NEW h \in Programs, SeesDead(h) PROVE LocalIInv'
<1>1. process' = Reaped(h, prog[h].pid)
  BY DEF SeesDead, Entry
<1> QED BY <1>1, DropsTheEntry DEF SeesDead

(* The forced kill: only a server is sure to be the process of an entry.   *)
LEMMA RunsOutKeeps == ASSUME LocalIInv, NEW h \in Programs, RunsOut(h) PROVE LocalIInv'
<1>0. /\ LocalTypeOK /\ CallFits(h, prog[h]) /\ prog[h] \in Places /\ Unclaimed(prog[h].token)
      /\ lockfile \in Programs \cup {"free", "stale"} /\ unfenced \in BOOLEAN /\ (unfenced \/ Fenced(h, prog[h]))
  BY DEF LocalIInv, LocalTypeOK, CallFits
<1>1. /\ prog[h].at = "wait" /\ started' = started /\ registry' = registry
      /\ lockfile' = lockfile /\ unfenced' = unfenced
  BY DEF RunsOut
<1>2. PICK n \in Pids : n = prog[h].pid /\ prog[h].edit = "find"
  BY <1>0, <1>1 DEF CallFits
<1>3. PICK e \in Listings : e = Entry(prog[h].pid, prog[h].token)
  BY <1>0, <1>2 DEF Entry, Listings, Places
<1>4. e.pid = n /\ e.token = prog[h].token /\ Classify(h, e) # {"Dead"}
  BY <1>2, <1>3 DEF Entry, RunsOut
<1>5. Alive(n)
  BY <1>0, <1>4, LookingSays
<1>6. CASE prog[h].ours
  <2>1. Server(n)
    BY <1>0, <1>1, <1>2, <1>4, <1>6, LookingSays DEF CallFits
  <2>2. murdered' = (murdered \/ process[n].kind = "stranger") /\ process' = [process EXCEPT ![n].dead = TRUE]
    BY <1>3, <1>4, <1>6 DEF RunsOut
  <2>3. murdered' = murdered
    BY <1>0, <2>1, <2>2 DEF LocalTypeOK, LocalIInv, StrangersSpared, Server
  <2>4. PICK p \in Processes : p = [process[n] EXCEPT !.dead = TRUE]
    BY <1>0, <2>1 DEF LocalTypeOK, Processes, Server
  <2>5. /\ process[n] # Nobody /\ process[n] \in Processes /\ p # Nobody /\ p.kind = process[n].kind
        /\ p.token = process[n].token /\ p.parent = process[n].parent /\ p.listed = process[n].listed /\ p.dead
    BY <1>0, <2>1, <2>4 DEF LocalTypeOK, Processes, Server, Nobody
  <2>6. process' \in [Pids -> Processes \cup {Nobody}] /\ process'[n] = p /\ \A m \in Pids \ {n} : process'[m] = process[m]
    BY <1>0, <2>2, <2>4 DEF LocalTypeOK
  <2>7. Fades /\ \A k : Reared(k)
    BY <2>5, <2>6 DEF Fades, Reared
  <2>8. PICK c \in Places : c = [prog[h] EXCEPT !.at = "killed"]
    BY <1>0 DEF Places
  <2>9. Goes(h, c) /\ c.at = "killed" /\ c.edit = "find" /\ c.pid = n /\ c.token = prog[h].token /\ c.copy = prog[h].copy
    BY <1>0, <1>2, <1>6, <2>8 DEF RunsOut, Places
  <2>10. \A t : Unclaimed(t) => Unclaimed(t)'
    BY <1>1, <2>7, TokensStay
  <2>11. CallFits(h, c)'
    BY <1>0, <2>9, <2>10 DEF CallFits
  <2>12. unfenced' \/ Fenced(h, c)'
    BY <1>0, <1>1, <1>2, <2>1, <2>5, <2>6, <2>9 DEF Fenced, Server, Its
  <2> QED BY <1>0, <1>1, <2>3, <2>6, <2>7, <2>9, <2>11, <2>12, CallGoes
<1>7. CASE ~prog[h].ours
  <2>1. Ends(h) /\ process' = process /\ murdered' = murdered
    BY <1>7 DEF RunsOut
  <2>2. process' \in [Pids -> Processes \cup {Nobody}] /\ Fades /\ \A k \in Programs \ {h} : Reared(k)
    BY <1>0, <2>1, SameProcesses DEF LocalTypeOK
  <2>3. PICK c \in Places : c = Rests
    BY RestsThere
  <2>4. Goes(h, c) /\ c.at = "idle" /\ c.edit = "none" /\ c.token = NoToken /\ c.copy = <<>>
    BY <2>1, <2>3, RestsThere DEF Ends
  <2> QED BY <1>0, <1>1, <2>1, <2>2, <2>4, CallRests
<1> QED BY <1>6, <1>7

(* The end of a program orphans its children and nobody else's.            *)
LEMMA ProgramEndsKeeps == ASSUME LocalIInv, NEW h \in Programs, ProgramEnds(h) PROVE LocalIInv'
<1> USE LocalAssumption
<1>0. LocalTypeOK
  BY DEF LocalIInv
<1>1. \A n \in Pids : process'[n] = IF process[n] # Nobody /\ process[n].parent = h
                                       THEN [process[n] EXCEPT !.parent = Unowned] ELSE process[n]
  BY DEF ProgramEnds
<1>2. ASSUME NEW n \in Pids
      PROVE  /\ process'[n] \in Processes \cup {Nobody}
             /\ process[n] = Nobody => process'[n] = Nobody
             /\ process[n] # Nobody =>
                  /\ process'[n] # Nobody
                  /\ process'[n].kind = process[n].kind /\ process'[n].token = process[n].token
                  /\ process'[n].listed = process[n].listed /\ process'[n].dead = process[n].dead
                  /\ process'[n].parent \in {process[n].parent, Unowned}
                  /\ process[n].parent # h => process'[n] = process[n]
  <2>1. CASE process[n] # Nobody /\ process[n].parent = h
    <3>1. process[n] \in Processes
      BY <1>0, <2>1 DEF LocalTypeOK
    <3>2. PICK p \in Processes : p = [process[n] EXCEPT !.parent = Unowned]
      BY <3>1 DEF Processes
    <3>3. p # Nobody /\ p.kind = process[n].kind /\ p.token = process[n].token /\ p.listed = process[n].listed
          /\ p.dead = process[n].dead /\ p.parent = Unowned
      BY <3>1, <3>2 DEF Processes, Nobody
    <3>4. process'[n] = p
      BY <1>1, <2>1, <3>2
    <3> QED BY <2>1, <3>3, <3>4
  <2>2. CASE ~(process[n] # Nobody /\ process[n].parent = h)
    <3>1. process'[n] = process[n]
      BY <1>1, <2>2
    <3> QED BY <1>0, <2>2, <3>1 DEF LocalTypeOK
  <2> QED BY <2>1, <2>2
<1>3. process' \in [Pids -> Processes \cup {Nobody}]
  <2>1. process' = [n \in Pids |-> process'[n]]
    BY DEF ProgramEnds
  <2> QED BY <1>2, <2>1
<1>4. Fades
  BY <1>2 DEF Fades
<1>5. \A k \in Programs \ {h} : Reared(k)
  BY <1>2 DEF Reared
<1>6. PICK c \in Places : c = [Rests EXCEPT !.at = "dead"]
  BY RestsThere DEF Places
<1>7. Goes(h, c) /\ c.at = "dead" /\ c.edit = "none" /\ c.token = NoToken /\ c.copy = <<>>
  BY <1>6 DEF ProgramEnds, Rests
<1> QED BY <1>0, <1>3, <1>4, <1>5, <1>7, CallRests DEF ProgramEnds, LocalTypeOK

LEMMA ProcessesGo ==
  ASSUME LocalIInv, NEW n \in Pids, ProcessEnds(n) \/ InitReaps(n) PROVE LocalIInv'
<1> USE LocalAssumption
<1>0. LocalTypeOK /\ process[n] # Nobody /\ process[n] \in Processes
  BY DEF LocalIInv, LocalTypeOK, ProcessEnds, InitReaps, Alive
<1>1. /\ started' = started /\ registry' = registry /\ murdered' = murdered /\ prog' = prog
      /\ lockfile' = lockfile /\ unfenced' = unfenced
  BY DEF ProcessEnds, InitReaps
<1>2. PICK p \in Processes \cup {Nobody} :
        /\ process' = [process EXCEPT ![n] = p]
        /\ p = Nobody => process[n].parent = Unowned
        /\ p # Nobody => /\ p.kind = process[n].kind /\ p.token = process[n].token /\ p.listed = process[n].listed
                         /\ p.parent = process[n].parent /\ p.dead
  <2>1. CASE InitReaps(n) \/ process[n].parent = Unowned
    BY <1>0, <2>1 DEF InitReaps, ProcessEnds, LocalTypeOK
  <2>2. CASE ProcessEnds(n) /\ process[n].parent # Unowned
    <3>1. PICK p \in Processes : p = [process[n] EXCEPT !.dead = TRUE]
      BY <1>0 DEF Processes
    <3>2. process' = [process EXCEPT ![n] = p]
      BY <1>0, <2>2, <3>1 DEF ProcessEnds, LocalTypeOK
    <3>3. p.kind = process[n].kind /\ p.token = process[n].token /\ p.listed = process[n].listed
          /\ p.parent = process[n].parent /\ p.dead /\ p # Nobody
      BY <1>0, <3>1 DEF Processes, Nobody
    <3> QED BY <3>2, <3>3
  <2> QED BY <2>1, <2>2
<1>3. process' \in [Pids -> Processes \cup {Nobody}] /\ process'[n] = p /\ \A m \in Pids \ {n} : process'[m] = process[m]
  BY <1>0, <1>2 DEF LocalTypeOK
<1>4. LocalTypeOK'
  BY <1>0, <1>1, <1>3 DEF LocalTypeOK
<1>5. Fades
  BY <1>0, <1>2, <1>3 DEF Fades
<1>6. \A k \in Programs : Reared(k)
  BY <1>0, <1>2, <1>3 DEF Reared, Unowned
<1>7. PICK M \in SUBSET Programs : M = {}
  OBVIOUS
<1> QED BY <1>1, <1>4, <1>5, <1>6, <1>7, CallsMove

LEMMA EntriesTyped ==
  ASSUME NEW q \in Seq(Listings), NEW i \in 1 .. Len(q)
  PROVE  q[i] \in Listings /\ q[i].pid \in Pids /\ q[i].token \in Nat
<1>1. q[i] \in Listings
  OBVIOUS
<1> QED BY <1>1 DEF Listings

(* A process that starts has a token no entry and no call has, and no one  *)
(* has a child under its pid.                                              *)
LEMMA Appears ==
  ASSUME LocalIInv, NEW n \in Pids, NEW p \in Processes, process[n] = Nobody,
         process' = [process EXCEPT ![n] = p], p.token = started + 1, started' = started + 1,
         p.kind = "stranger" => p.parent = Unowned,
         ~p.listed, registry' = registry, lockfile' = lockfile, murdered' = murdered
  PROVE  /\ process' \in [Pids -> Processes \cup {Nobody}] /\ started' \in Nat
         /\ p # Nobody /\ process'[n] = p /\ \A m \in Pids \ {n} : process'[m] = process[m]
         /\ \A m \in Pids : m # n => (Server(m)' <=> Server(m)) /\ (\A t : Its(m, t)' <=> Its(m, t))
         /\ \A t \in Nat : Unclaimed(t) => Unclaimed(t)'
         /\ p.kind = "server" => Unclaimed(p.token)'
         /\ TokensCount' /\ (unfenced' => RunningIsListed')
         /\ (~unfenced => RunningIsListed')
         /\ \A k \in Programs, c \in Places : CallFits(k, c) => CallFits(k, c)'
<1>0. /\ LocalTypeOK /\ TokensCount /\ RunningIsListed /\ started \in Nat
      /\ registry \in Seq(Listings)
  BY DEF LocalIInv, LocalTypeOK
<1>1. p # Nobody /\ p.kind \in {"server", "stranger"} /\ p.token \in Nat
  BY DEF Processes, Nobody
<1>2. /\ process' \in [Pids -> Processes \cup {Nobody}] /\ started' \in Nat
      /\ process'[n] = p /\ \A m \in Pids \ {n} : process'[m] = process[m]
  BY <1>0 DEF LocalTypeOK
<1>3. \A m \in Pids : m # n => /\ Server(m)' <=> Server(m)
                               /\ Stranger(m)' <=> Stranger(m)
                               /\ \A t : Its(m, t)' <=> Its(m, t)
  BY <1>2 DEF Server, Stranger, Its
<1>4. ASSUME NEW t \in Nat, Unclaimed(t) PROVE Unclaimed(t)'
  <2>0. t <= started
    BY <1>4 DEF Unclaimed
  <2>1. t <= started' /\ t # p.token
    BY <1>0, <2>0
  <2> QED BY <1>2, <1>3, <1>4, <2>1 DEF Unclaimed
<1>5. ASSUME p.kind = "server" PROVE Unclaimed(p.token)'
  <2>1. ~Stranger(n)'
    BY <1>2, <1>5 DEF Stranger
  <2>2. \A m \in Pids : m # n /\ Stranger(m)' => process'[m].token # p.token
    BY <1>0, <1>2, <1>3 DEF TokensCount, Stranger
  <2>3. p.token <= started'
    BY <1>0
  <2> QED BY <2>1, <2>2, <2>3 DEF Unclaimed
<1>6. TokensCount'
  <2>1. \A m \in Pids : /\ process'[m] # Nobody => process'[m].token \in 1 .. started'
                        /\ Stranger(m)' => process'[m].parent = Unowned
    BY <1>0, <1>2, <1>3 DEF TokensCount, Stranger
  <2>2. ASSUME NEW i \in 1 .. Len(registry) PROVE Unclaimed(registry[i].token)'
    <3>1. PICK t \in Nat : t = registry[i].token
      BY <1>0, EntriesTyped
    <3>2. Unclaimed(t)
      BY <1>0, <3>1 DEF TokensCount
    <3> QED BY <1>4, <3>1, <3>2
  <2> QED BY <2>1, <2>2 DEF TokensCount
<1>7. ASSUME ~unfenced PROVE RunningIsListed'
  BY <1>0, <1>2, <1>7 DEF RunningIsListed, Alive
<1>8. ASSUME NEW k \in Programs, NEW c \in Places, CallFits(k, c) PROVE CallFits(k, c)'
  <2>1. Unclaimed(c.token)'
    BY <1>4, <1>8 DEF CallFits, Places
  <2>3. ASSUME NEW i \in 1 .. Len(c.copy) PROVE Unclaimed(c.copy[i].token)'
    <3>1. c.copy \in Seq(Listings)
      BY DEF Places
    <3>2. c.copy[i].token \in Nat
      BY <3>1, EntriesTyped
    <3> QED BY <1>4, <1>8, <3>2 DEF CallFits
  <2>2. ASSUME c.at = "wait", c.ours, c.token = NoToken PROVE Server(c.pid)' /\ process'[c.pid].parent = k
    <3>1. Server(c.pid) /\ process[c.pid].parent = k
      BY <1>8, <2>2 DEF CallFits
    <3>2. c.pid \in Pids
      BY <1>8, <2>2 DEF CallFits
    <3>3. c.pid # n
      BY <3>1 DEF Server
    <3> QED BY <1>2, <1>3, <3>1, <3>2, <3>3
  <2> QED BY <1>8, <2>1, <2>2, <2>3 DEF CallFits
<1> QED BY <1>1, <1>2, <1>3, <1>4, <1>5, <1>6, <1>7, <1>8 DEF RunningIsListed

LEMMA StrangerStartsKeeps == ASSUME LocalIInv, NEW n \in Pids, StrangerStarts(n) PROVE LocalIInv'
<1>0. LocalTypeOK /\ started + 1 \in Nat
  BY DEF LocalIInv, LocalTypeOK
<1>1. PICK p : p = [kind |-> "stranger", token |-> started + 1, parent |-> Unowned, dead |-> FALSE, listed |-> FALSE]
  OBVIOUS
<1>2. p \in Processes /\ p.kind = "stranger" /\ p.token = started + 1 /\ p.parent = Unowned /\ ~p.listed /\ ~p.dead
  BY <1>0, <1>1 DEF Processes
<1>3. /\ process[n] = Nobody /\ process' = [process EXCEPT ![n] = p] /\ started' = started + 1
      /\ registry' = registry /\ lockfile' = lockfile /\ murdered' = murdered /\ prog' = prog /\ unfenced' = unfenced
  BY <1>1 DEF StrangerStarts
<1>4. /\ process' \in [Pids -> Processes \cup {Nobody}] /\ started' \in Nat
      /\ process'[n] = p /\ \A m \in Pids \ {n} : process'[m] = process[m]
      /\ \A m \in Pids : m # n => (Server(m)' <=> Server(m)) /\ (\A t : Its(m, t)' <=> Its(m, t))
      /\ TokensCount' /\ (~unfenced => RunningIsListed')
      /\ \A k \in Programs, c \in Places : CallFits(k, c) => CallFits(k, c)'
  BY <1>2, <1>3, Appears
<1>5. ~Server(n)'
  BY <1>2, <1>4 DEF Server
<1>6. LocalTypeOK' /\ StrangersSpared'
  BY <1>0, <1>3, <1>4 DEF LocalTypeOK, LocalIInv, StrangersSpared
<1>7. RunningIsListed'
  BY <1>3, <1>4 DEF RunningIsListed
<1>8. ASSUME NEW k \in Programs PROVE CallFits(k, prog[k])'
  <2>1. PICK c \in Places : c = prog[k]
    BY <1>0 DEF LocalTypeOK
  <2>2. CallFits(k, c)
    BY <2>1 DEF LocalIInv
  <2>3. CallFits(k, c)'
    BY <1>4, <2>2
  <2> QED BY <1>3, <2>1, <2>3 DEF CallFits
<1>9. ASSUME ~unfenced PROVE EntriesFit'
  BY <1>3, <1>4, <1>5, <1>9 DEF LocalIInv, EntriesFit
<1>10. ASSUME ~unfenced, NEW k \in Programs PROVE Fenced(k, prog[k])'
  <2>1. PICK c \in Places : c = prog[k]
    BY <1>0 DEF LocalTypeOK
  <2>2. Fenced(k, c) /\ CallFits(k, c)
    BY <1>10, <2>1 DEF LocalIInv
  <2>3. c.edit \in {"push", "find", "remove"} => c.pid \in Pids
    BY <2>2 DEF CallFits
  <2>4. Fenced(k, c)'
    BY <1>3, <1>4, <1>5, <2>2, <2>3 DEF Fenced
  <2> QED BY <1>3, <2>1, <2>4 DEF Fenced
<1> QED BY <1>3, <1>4, <1>6, <1>7, <1>8, <1>9, <1>10 DEF LocalIInv

(* A pid the file or a call still names is out of the fence; any other is  *)
(* new to every call.                                                      *)
LEMMA SpawnsKeeps == ASSUME LocalIInv, NEW h \in Programs, NEW n \in Pids, Spawns(h, n) PROVE LocalIInv'
<1>0. LocalTypeOK /\ started + 1 \in Nat /\ unfenced \in BOOLEAN
  BY DEF LocalIInv, LocalTypeOK
<1>1. PICK p : p = [kind |-> "server", token |-> started + 1, parent |-> h, dead |-> FALSE, listed |-> FALSE]
  OBVIOUS
<1>2. p \in Processes /\ p.kind = "server" /\ p.token = started + 1 /\ p.parent = h /\ ~p.listed /\ ~p.dead
  BY <1>0, <1>1 DEF Processes
<1>3. /\ process[n] = Nobody /\ process' = [process EXCEPT ![n] = p] /\ started' = started + 1
      /\ registry' = registry /\ lockfile' = lockfile /\ murdered' = murdered
      /\ unfenced' \in BOOLEAN /\ (unfenced => unfenced') /\ (Named(n) => unfenced')
  BY <1>0, <1>1 DEF Spawns
<1>4. /\ process' \in [Pids -> Processes \cup {Nobody}] /\ started' \in Nat
      /\ process'[n] = p /\ p # Nobody /\ \A m \in Pids \ {n} : process'[m] = process[m]
      /\ \A m \in Pids : m # n => (Server(m)' <=> Server(m)) /\ (\A t : Its(m, t)' <=> Its(m, t))
      /\ TokensCount' /\ (~unfenced => RunningIsListed') /\ Unclaimed(p.token)'
      /\ \A k \in Programs, c \in Places : CallFits(k, c) => CallFits(k, c)'
  BY <1>2, <1>3, Appears
<1>5. PICK mine \in Places : mine = [Rests EXCEPT !.at = "acquire", !.edit = "push", !.pid = n, !.token = started + 1]
  BY <1>0, RestsThere DEF Places
<1>6. /\ Goes(h, mine) /\ mine.at = "acquire" /\ mine.edit = "push" /\ mine.pid = n /\ mine.token = p.token
      /\ mine.copy = <<>>
  BY <1>2, <1>5 DEF Spawns, Rests
<1>7. prog' \in [Programs -> Places] /\ prog'[h] = mine /\ \A k \in Programs \ {h} : prog'[k] = prog[k]
  BY <1>0, <1>6, GoesThere DEF LocalTypeOK
<1>8. LocalTypeOK' /\ StrangersSpared'
  BY <1>0, <1>3, <1>4, <1>7 DEF LocalTypeOK, LocalIInv, StrangersSpared
<1>9. RunningIsListed'
  BY <1>3, <1>4 DEF RunningIsListed
<1>10. ASSUME NEW k \in Programs PROVE CallFits(k, prog[k])'
  <2>1. CASE k = h
    <3>1. CallFits(h, mine)'
      BY <1>4, <1>6 DEF CallFits
    <3> QED BY <1>7, <2>1, <3>1 DEF CallFits
  <2>2. CASE k # h
    <3>1. PICK c \in Places : c = prog[k]
      BY <1>0 DEF LocalTypeOK
    <3>2. CallFits(k, c)
      BY <3>1 DEF LocalIInv
    <3>3. CallFits(k, c)'
      BY <1>4, <3>2
    <3> QED BY <1>7, <2>2, <3>1, <3>3 DEF CallFits
  <2> QED BY <2>1, <2>2
<1>11. ASSUME ~unfenced' PROVE EntriesFit'
  <2>1. \A i \in 1 .. Len(registry) : registry[i].pid # n
    BY <1>0, <1>3, <1>11 DEF Named, LocalTypeOK
  <2> QED BY <1>3, <1>4, <1>11, <2>1 DEF LocalIInv, EntriesFit
<1>12. ASSUME ~unfenced', NEW k \in Programs PROVE Fenced(k, prog[k])'
  <2>1. CASE k = h
    <3>1. Fenced(h, mine)'
      BY <1>4, <1>6 DEF Fenced
    <3> QED BY <1>7, <2>1, <3>1 DEF Fenced
  <2>2. CASE k # h
    <3>1. PICK c \in Places : c = prog[k]
      BY <1>0 DEF LocalTypeOK
    <3>2. Fenced(k, c) /\ CallFits(k, c) /\ c.pid # n
      BY <1>3, <1>12, <3>1 DEF LocalIInv, Named
    <3>3. c.edit \in {"push", "find", "remove"} => c.pid \in Pids
      BY <3>2 DEF CallFits
    <3>4. Fenced(k, c)'
      BY <1>3, <1>4, <3>2, <3>3 DEF Fenced
    <3> QED BY <1>7, <2>2, <3>1, <3>4 DEF Fenced
  <2> QED BY <2>1, <2>2
<1> QED BY <1>3, <1>4, <1>8, <1>9, <1>10, <1>11, <1>12 DEF LocalIInv

(* What with_registry's changes leave of the file that was read.           *)
LEMMA EditingKeeps ==
  ASSUME LocalIInv, NEW h \in Programs, prog[h].at = "write", NEW s \in Edited(h)
  PROVE  /\ s \in Seq(Listings)
         /\ \A j \in 1 .. Len(s) :
              \/ \E i \in 1 .. Len(prog[h].copy) : prog[h].copy[i] = s[j]
              \/ prog[h].edit = "push" /\ s[j] = Entry(prog[h].pid, prog[h].token)
         /\ \A i \in 1 .. Len(prog[h].copy) :
              /\ prog[h].edit = "remove" => prog[h].copy[i].pid # prog[h].pid
              /\ prog[h].edit = "prune" => "Dead" \notin Classify(h, prog[h].copy[i])
              => \E j \in 1 .. Len(s) : s[j] = prog[h].copy[i]
         /\ prog[h].edit = "push" => \E j \in 1 .. Len(s) : s[j] = Entry(prog[h].pid, prog[h].token)
<1>0. CallFits(h, prog[h]) /\ prog[h].edit \in {"push", "find", "remove", "prune"} /\ prog[h] \in Places
  BY DEF LocalIInv, LocalTypeOK, CallFits
<1>1. PICK q \in Seq(Listings) : q = prog[h].copy
  BY <1>0 DEF Places
<1>2. CASE prog[h].edit = "push"
  <2>1. PICK e : e = Entry(prog[h].pid, prog[h].token)
    OBVIOUS
  <2>2. e \in Listings
    BY <1>0, <1>2, <2>1 DEF CallFits, Entry, Listings, Places
  <2>3. s = Append(q, e)
    BY <1>1, <1>2, <2>1 DEF Edited
  <2>4. /\ s \in Seq(Listings) /\ Len(s) = Len(q) + 1 /\ s[Len(q) + 1] = e
        /\ \A i \in 1 .. Len(q) : s[i] = q[i]
    BY <2>2, <2>3
  <2>5. \A j \in 1 .. Len(s) : (\E i \in 1 .. Len(q) : q[i] = s[j]) \/ s[j] = e
    <3>1. ASSUME NEW j \in 1 .. Len(s) PROVE (\E i \in 1 .. Len(q) : q[i] = s[j]) \/ s[j] = e
      <4>1. j \in 1 .. Len(q) \/ j = Len(q) + 1
        BY <2>4
      <4> QED BY <2>4, <4>1
    <3> QED BY <3>1
  <2>6. \A i \in 1 .. Len(q) : \E j \in 1 .. Len(s) : s[j] = q[i]
    <3>1. \A i \in 1 .. Len(q) : i \in 1 .. Len(s)
      BY <2>4
    <3> QED BY <2>4, <3>1
  <2>7. \E j \in 1 .. Len(s) : s[j] = e
    BY <2>4
  <2> QED BY <1>1, <1>2, <2>1, <2>4, <2>5, <2>6, <2>7
<1>3. CASE prog[h].edit = "find"
  <2>1. s = q
    BY <1>1, <1>3 DEF Edited
  <2> QED BY <1>1, <1>3, <2>1
<1>4. ASSUME NEW S, s = Sifted(q, S), prog[h].edit \in {"remove", "prune"},
             \A i \in 1 .. Len(q) :
               /\ prog[h].edit = "remove" => q[i].pid # prog[h].pid
               /\ prog[h].edit = "prune" => "Dead" \notin Classify(h, q[i])
               => q[i] \in S
      PROVE  /\ s \in Seq(Listings)
             /\ \A j \in 1 .. Len(s) : \E i \in 1 .. Len(q) : q[i] = s[j]
             /\ \A i \in 1 .. Len(q) :
                  /\ prog[h].edit = "remove" => q[i].pid # prog[h].pid
                  /\ prog[h].edit = "prune" => "Dead" \notin Classify(h, q[i])
                  => \E j \in 1 .. Len(s) : s[j] = q[i]
  <2>1. /\ s \in Seq(Listings)
        /\ \A j \in 1 .. Len(s) : \E i \in 1 .. Len(q) : q[i] = s[j]
        /\ \A i \in 1 .. Len(q) : q[i] \in S => \E j \in 1 .. Len(s) : s[j] = q[i]
    <3>0. PICK T : T = Listings
      OBVIOUS
    <3>1. q \in Seq(T)
      BY <3>0
    <3>2. /\ Sifted(q, S) \in Seq(T)
          /\ \A j \in 1 .. Len(Sifted(q, S)) :
               Sifted(q, S)[j] \in S /\ \E i \in 1 .. Len(q) : q[i] = Sifted(q, S)[j]
          /\ \A i \in 1 .. Len(q) : q[i] \in S => \E j \in 1 .. Len(Sifted(q, S)) : Sifted(q, S)[j] = q[i]
      BY <3>1, SiftedHas
    <3> QED BY <1>4, <3>0, <3>2
  <2> QED BY <1>4, <2>1
<1>5. CASE prog[h].edit = "remove"
  <2>1. PICK S : S = {e \in ToSet(q) : e.pid # prog[h].pid}
    OBVIOUS
  <2>2. s = Sifted(q, S)
    BY <1>1, <1>5, <2>1 DEF Edited, Without
  <2>3. \A i \in 1 .. Len(q) : q[i].pid # prog[h].pid => q[i] \in S
    BY <1>1, <2>1 DEF ToSet
  <2> QED BY <1>1, <1>4, <1>5, <2>2, <2>3
<1>6. CASE prog[h].edit = "prune"
  <2>1. PICK kept : kept = {e \in ToSet(q) : Classify(h, e) # {"Dead"}}
    OBVIOUS
  <2>2. PICK sure : sure = {e \in kept : "Dead" \notin Classify(h, e)}
    OBVIOUS
  <2>3. s = Sifted(q, kept) \/ s = Sifted(q, sure)
    BY <1>1, <1>6, <2>1, <2>2 DEF Edited
  <2>4. \A i \in 1 .. Len(q) : "Dead" \notin Classify(h, q[i]) => q[i] \in kept /\ q[i] \in sure
    BY <1>1, <2>1, <2>2 DEF ToSet
  <2> QED BY <1>1, <1>4, <1>6, <2>3, <2>4
<1> QED BY <1>0, <1>2, <1>3, <1>5, <1>6

(* The entry a teardown finds is one it read.                              *)
LEMMA FoundIsRead ==
  ASSUME LocalIInv, NEW h \in Programs, Found(h) # <<>>
  PROVE  \E i \in 1 .. Len(prog[h].copy) : prog[h].copy[i] = Head(Found(h)) /\ prog[h].copy[i].pid = prog[h].pid
<1>1. PICK q \in Seq(Listings) : q = prog[h].copy
  BY DEF LocalIInv, LocalTypeOK, Places
<1>2. PICK S : S = {e \in ToSet(q) : e.pid = prog[h].pid}
  OBVIOUS
<1>3. Found(h) = Sifted(q, S)
  BY <1>1, <1>2 DEF Found
<1>4. PICK T : T = Listings
  OBVIOUS
<1>5. q \in Seq(T)
  BY <1>4
<1>6. /\ Sifted(q, S) \in Seq(T)
      /\ \A j \in 1 .. Len(Sifted(q, S)) :
           Sifted(q, S)[j] \in S /\ \E i \in 1 .. Len(q) : q[i] = Sifted(q, S)[j]
  BY <1>5, SiftedHas
<1>7. PICK f \in Seq(T) : f = Found(h)
  BY <1>3, <1>6
<1>8. Head(f) = f[1] /\ 1 \in 1 .. Len(f)
  BY <1>7
<1>9. f[1] \in S /\ \E i \in 1 .. Len(q) : q[i] = f[1]
  BY <1>3, <1>6, <1>7, <1>8
<1>10. f[1].pid = prog[h].pid
  BY <1>2, <1>9
<1> QED BY <1>1, <1>7, <1>8, <1>9, <1>10

LEMMA WriteRegistryKeeps == ASSUME LocalIInv, NEW h \in Programs, WriteRegistry(h) PROVE LocalIInv'
<1> USE LocalAssumption
<1>0. /\ LocalTypeOK /\ CallFits(h, prog[h]) /\ prog[h] \in Places /\ TokensCount /\ RunningIsListed
      /\ unfenced \in BOOLEAN /\ prog[h].at = "write" /\ prog[h].copy \in Seq(Listings)
      /\ prog[h].edit \in {"push", "find", "remove", "prune"} /\ StrangersSpared
  BY DEF LocalIInv, LocalTypeOK, CallFits, Places, WriteRegistry
<1>1. /\ started' = started /\ lockfile' = lockfile /\ unfenced' = unfenced /\ murdered' = murdered
      /\ registry' \in Edited(h)
  BY DEF WriteRegistry
<1>2. PICK mine : mine = prog[h]
  OBVIOUS
<1>3. \/ process' = process
      \/ /\ mine.edit = "push" /\ process[mine.pid].kind = "server" /\ process[mine.pid].token = mine.token
         /\ process' = [process EXCEPT ![mine.pid].listed = TRUE]
  BY <1>2 DEF WriteRegistry
<1>4. mine \in Places /\ CallFits(h, mine) /\ (unfenced \/ Fenced(h, mine)) /\ mine.at = "write"
  BY <1>0, <1>2 DEF LocalIInv
<1>5. mine.edit \in {"push", "find", "remove"} => mine.pid \in Pids
  BY <1>4 DEF CallFits
<1>6. /\ process' \in [Pids -> Processes \cup {Nobody}]
      /\ \A n \in Pids : /\ process[n] = Nobody <=> process'[n] = Nobody
                         /\ process[n] # Nobody =>
                              /\ process'[n].kind = process[n].kind /\ process'[n].token = process[n].token
                              /\ process'[n].parent = process[n].parent /\ process'[n].dead = process[n].dead
                              /\ \/ process'[n].listed = process[n].listed
                                 \/ mine.edit = "push" /\ n = mine.pid /\ process[n].token = mine.token
  <2>1. CASE process' = process
    BY <1>0, <2>1 DEF LocalTypeOK
  <2>2. CASE /\ mine.edit = "push" /\ process[mine.pid].kind = "server" /\ process[mine.pid].token = mine.token
             /\ process' = [process EXCEPT ![mine.pid].listed = TRUE]
    <3>1. PICK n \in Pids : n = mine.pid
      BY <1>5, <2>2
    <3>2. CASE process[n] \in Processes
      <4>1. PICK p \in Processes : p = [process[n] EXCEPT !.listed = TRUE]
        BY <3>2 DEF Processes
      <4>2. /\ p.kind = process[n].kind /\ p.token = process[n].token /\ p.parent = process[n].parent
            /\ p.dead = process[n].dead /\ p # Nobody /\ process[n] # Nobody
        BY <3>2, <4>1 DEF Processes, Nobody
      <4>3. process' \in [Pids -> Processes \cup {Nobody}] /\ process'[n] = p
            /\ \A m \in Pids \ {n} : process'[m] = process[m]
        BY <1>0, <2>2, <3>1, <4>1 DEF LocalTypeOK
      <4> QED BY <2>2, <3>1, <4>2, <4>3
    <3>3. CASE process[n] = Nobody
      BY <2>2, <3>1, <3>3 DEF Nobody
    <3> QED BY <1>0, <3>2, <3>3 DEF LocalTypeOK
  <2> QED BY <1>3, <2>1, <2>2
<1>7. \A n \in Pids : /\ Server(n)' <=> Server(n)
                      /\ Stranger(n)' <=> Stranger(n)
                      /\ Alive(n)' <=> Alive(n)
                      /\ \A t : Server(n) => (Its(n, t)' <=> Its(n, t))
  BY <1>6 DEF Server, Stranger, Alive, Its
<1>8. \A t : Unclaimed(t) => Unclaimed(t)'
  BY <1>1, <1>6, <1>7 DEF Unclaimed, Stranger
<1>9. /\ registry' \in Seq(Listings)
      /\ \A j \in 1 .. Len(registry') :
           \/ \E i \in 1 .. Len(mine.copy) : mine.copy[i] = registry'[j]
           \/ mine.edit = "push" /\ registry'[j] = Entry(mine.pid, mine.token)
      /\ \A i \in 1 .. Len(mine.copy) :
           /\ mine.edit = "remove" => mine.copy[i].pid # mine.pid
           /\ mine.edit = "prune" => "Dead" \notin Classify(h, mine.copy[i])
           => \E j \in 1 .. Len(registry') : registry'[j] = mine.copy[i]
      /\ mine.edit = "push" => \E j \in 1 .. Len(registry') : registry'[j] = Entry(mine.pid, mine.token)
  BY <1>0, <1>1, <1>2, EditingKeeps
<1>10. PICK goesTo \in Places :
         /\ Goes(h, goesTo) /\ goesTo.at = "release" /\ goesTo.copy = <<>> /\ goesTo.pid = mine.pid
         /\ goesTo.held = mine.held
         /\ \/ goesTo.edit = "absent" /\ goesTo.token = mine.token
            \/ goesTo.edit = mine.edit /\ mine.edit # "find" /\ goesTo.token = mine.token
            \/ /\ goesTo.edit = "find" /\ mine.edit = "find"
               /\ \E i \in 1 .. Len(mine.copy) : mine.copy[i].token = goesTo.token /\ mine.copy[i].pid = mine.pid
  <2>1. CASE mine.edit = "find" /\ Found(h) # <<>>
    <3>1. PICK i \in 1 .. Len(mine.copy) : mine.copy[i] = Head(Found(h)) /\ mine.copy[i].pid = mine.pid
      BY <1>2, <2>1, FoundIsRead
    <3>2. PICK t \in Nat : t = Head(Found(h)).token
      BY <1>0, <1>2, <3>1, EntriesTyped
    <3>3. PICK c \in Places : c = [mine EXCEPT !.at = "release", !.copy = <<>>, !.token = t]
      BY <1>4, RestsThere DEF Places
    <3>4. /\ c.at = "release" /\ c.copy = <<>> /\ c.pid = mine.pid /\ c.held = mine.held /\ c.edit = "find" /\ c.token = t
      BY <1>4, <2>1, <3>3 DEF Places
    <3>5. [prog[h] EXCEPT !.at = "release", !.copy = <<>>,
                          !.token = IF prog[h].edit = "find" /\ Found(h) # <<>> THEN Head(Found(h)).token ELSE @,
                          !.edit = IF prog[h].edit = "find" /\ Found(h) = <<>> THEN "absent" ELSE @] = c
      BY <1>2, <1>4, <2>1, <3>2, <3>3 DEF Places
    <3>6. Goes(h, c)
      BY <3>5 DEF WriteRegistry
    <3> QED BY <2>1, <3>1, <3>2, <3>4, <3>6
  <2>2. CASE mine.edit = "find" /\ Found(h) = <<>>
    <3>1. PICK c \in Places : c = [mine EXCEPT !.at = "release", !.copy = <<>>, !.edit = "absent"]
      BY <1>4, RestsThere DEF Places
    <3>2. /\ c.at = "release" /\ c.copy = <<>> /\ c.pid = mine.pid /\ c.held = mine.held /\ c.edit = "absent"
          /\ c.token = mine.token
      BY <1>4, <2>2, <3>1 DEF Places
    <3>3. [prog[h] EXCEPT !.at = "release", !.copy = <<>>,
                          !.token = IF prog[h].edit = "find" /\ Found(h) # <<>> THEN Head(Found(h)).token ELSE @,
                          !.edit = IF prog[h].edit = "find" /\ Found(h) = <<>> THEN "absent" ELSE @] = c
      BY <1>2, <1>4, <2>2, <3>1 DEF Places
    <3>4. Goes(h, c)
      BY <3>3 DEF WriteRegistry
    <3> QED BY <3>2, <3>4
  <2>3. CASE mine.edit # "find"
    <3>1. PICK c \in Places : c = [mine EXCEPT !.at = "release", !.copy = <<>>]
      BY <1>4, RestsThere DEF Places
    <3>2. /\ c.at = "release" /\ c.copy = <<>> /\ c.pid = mine.pid /\ c.held = mine.held /\ c.edit = mine.edit
          /\ c.token = mine.token
      BY <1>4, <2>3, <3>1 DEF Places
    <3>3. [prog[h] EXCEPT !.at = "release", !.copy = <<>>,
                          !.token = IF prog[h].edit = "find" /\ Found(h) # <<>> THEN Head(Found(h)).token ELSE @,
                          !.edit = IF prog[h].edit = "find" /\ Found(h) = <<>> THEN "absent" ELSE @] = c
      BY <1>2, <1>4, <2>3, <3>1 DEF Places
    <3>4. Goes(h, c)
      BY <3>3 DEF WriteRegistry
    <3> QED BY <2>3, <3>2, <3>4
  <2> QED BY <2>1, <2>2, <2>3
<1>11. prog' \in [Programs -> Places] /\ prog'[h] = goesTo /\ \A k \in Programs \ {h} : prog'[k] = prog[k]
  BY <1>0, <1>10, GoesThere DEF LocalTypeOK
<1>12. LocalTypeOK' /\ StrangersSpared'
  BY <1>0, <1>1, <1>6, <1>9, <1>11 DEF LocalTypeOK, StrangersSpared
<1>13. \A i \in 1 .. Len(mine.copy) : Unclaimed(mine.copy[i].token)
  BY <1>4 DEF CallFits
<1>14. Unclaimed(mine.token) /\ Unclaimed(goesTo.token)
  BY <1>4, <1>10, <1>13 DEF CallFits
<1>15. TokensCount'
  <2>1. ASSUME NEW j \in 1 .. Len(registry') PROVE Unclaimed(registry'[j].token)
    <3>1. Entry(mine.pid, mine.token).token = mine.token
      BY DEF Entry
    <3> QED BY <1>9, <1>13, <1>14, <3>1
  <2>2. \A j \in 1 .. Len(registry') : Unclaimed(registry[j].token)'
    BY <1>8, <2>1 DEF Unclaimed
  <2>3. \A n \in Pids : /\ process'[n] # Nobody => process'[n].token \in 1 .. started'
                        /\ Stranger(n)' => process'[n].parent = Unowned
    BY <1>0, <1>1, <1>6, <1>7 DEF TokensCount, Stranger
  <2> QED BY <2>2, <2>3 DEF TokensCount
<1>16. ASSUME NEW k \in Programs PROVE CallFits(k, prog[k])'
  <2>1. CASE k = h
    <3>1. CallFits(h, goesTo)'
      BY <1>5, <1>8, <1>10, <1>14 DEF CallFits
    <3> QED BY <1>11, <2>1, <3>1 DEF CallFits
  <2>2. CASE k # h
    <3>1. PICK c \in Places : c = prog[k]
      BY <1>0 DEF LocalTypeOK
    <3>2. CallFits(k, c)
      BY <3>1 DEF LocalIInv
    <3>3. c.at = "wait" /\ c.ours /\ c.token = NoToken => Server(c.pid)' /\ process'[c.pid].parent = k
      <4>1. SUFFICES ASSUME c.at = "wait" /\ c.ours /\ c.token = NoToken
                     PROVE  Server(c.pid)' /\ process'[c.pid].parent = k
        OBVIOUS
      <4>2. Server(c.pid) /\ process[c.pid].parent = k /\ c.pid \in Pids
        BY <3>2, <4>1 DEF CallFits
      <4> QED BY <1>6, <1>7, <4>2 DEF Server
    <3>4. CallFits(k, c)'
      BY <1>8, <3>2, <3>3 DEF CallFits
    <3> QED BY <1>11, <2>2, <3>1, <3>4 DEF CallFits
  <2> QED BY <2>1, <2>2
<1>17. ASSUME ~unfenced
       PROVE  /\ lockfile = h /\ mine.held /\ mine.copy = registry /\ EntriesFit
              /\ mine.edit = "push" /\ Server(mine.pid) => mine.token = process[mine.pid].token
              /\ mine.edit = "remove" /\ Server(mine.pid) => process[mine.pid].dead
  BY <1>4, <1>17 DEF LocalIInv, Fenced
<1>18. ASSUME ~unfenced' PROVE EntriesFit'
  <2>1. ASSUME NEW n \in Pids, Server(n), NEW j \in 1 .. Len(registry'), registry'[j].pid = n
        PROVE  Its(n, registry'[j].token)
    <3>1. CASE \E i \in 1 .. Len(mine.copy) : mine.copy[i] = registry'[j]
      BY <1>1, <1>17, <1>18, <2>1, <3>1 DEF EntriesFit
    <3>2. CASE mine.edit = "push" /\ registry'[j] = Entry(mine.pid, mine.token)
      <4>1. n = mine.pid /\ registry'[j].token = mine.token
        BY <2>1, <3>2 DEF Entry
      <4> QED BY <1>1, <1>17, <1>18, <2>1, <3>2, <4>1 DEF Its
    <3> QED BY <1>9, <3>1, <3>2
  <2>2. ASSUME NEW n \in Pids, Server(n)', NEW j \in 1 .. Len(registry'), registry'[j].pid = n
        PROVE  Its(n, registry[j].token)'
    <3>1. Server(n) /\ Its(n, registry'[j].token)
      BY <1>7, <2>1, <2>2
    <3> QED BY <1>6, <3>1 DEF Its, Server
  <2> QED BY <2>2 DEF EntriesFit
<1>19. ASSUME ~unfenced', NEW k \in Programs PROVE Fenced(k, prog[k])'
  <2>1. CASE k = h
    <3>1. goesTo.edit = "push" /\ Server(goesTo.pid)' => goesTo.token = process'[goesTo.pid].token
      BY <1>1, <1>5, <1>6, <1>7, <1>10, <1>17, <1>19 DEF Server
    <3>2. goesTo.edit = "remove" /\ Server(goesTo.pid)' => process'[goesTo.pid].dead
      BY <1>1, <1>5, <1>6, <1>7, <1>10, <1>17, <1>19 DEF Server
    <3>3. ASSUME goesTo.edit = "find", Server(goesTo.pid)' PROVE Its(goesTo.pid, goesTo.token)'
      <4>1. PICK i \in 1 .. Len(mine.copy) : mine.copy[i].token = goesTo.token /\ mine.copy[i].pid = mine.pid
        BY <1>10, <3>3
      <4>2. Server(mine.pid) /\ mine.pid \in Pids /\ mine.pid = goesTo.pid
        BY <1>5, <1>7, <1>10, <3>3
      <4>3. Its(mine.pid, goesTo.token)
        BY <1>1, <1>17, <1>19, <4>1, <4>2 DEF EntriesFit
      <4> QED BY <1>7, <4>2, <4>3
    <3>4. Fenced(h, goesTo)'
      BY <1>1, <1>10, <1>17, <1>19, <3>1, <3>2, <3>3 DEF Fenced
    <3> QED BY <1>11, <2>1, <3>4 DEF Fenced
  <2>2. CASE k # h
    <3>1. PICK c \in Places : c = prog[k]
      BY <1>0 DEF LocalTypeOK
    <3>2. Fenced(k, c) /\ CallFits(k, c)
      BY <1>1, <1>19, <3>1 DEF LocalIInv
    <3>3. c.at \notin {"read", "write", "release"}
      BY <1>1, <1>17, <1>19, <2>2, <3>2 DEF Fenced
    <3>4. c.edit \in {"push", "find", "remove"} => c.pid \in Pids
      BY <3>2 DEF CallFits
    <3>5. Fenced(k, c)'
      BY <1>6, <1>7, <3>2, <3>3, <3>4 DEF Fenced, Server
    <3> QED BY <1>11, <2>2, <3>1, <3>5 DEF Fenced
  <2> QED BY <2>1, <2>2
<1>20. RunningIsListed'
  <2>1. SUFFICES ASSUME ~unfenced', NEW n \in Pids, Alive(n)', process'[n].kind = "server", process'[n].listed
                 PROVE  \E j \in DOMAIN registry' : registry'[j].pid = n /\ registry'[j].token \in {NoToken, process'[n].token}
    BY DEF RunningIsListed
  <2>2. /\ Alive(n) /\ Server(n) /\ process[n] # Nobody /\ ~unfenced /\ process[n].kind = "server"
        /\ process'[n].token = process[n].token
    BY <1>1, <1>6, <1>7, <2>1 DEF Alive, Server
  <2>3. DOMAIN registry' = 1 .. Len(registry')
    BY <1>9
  <2>4. CASE mine.edit = "push" /\ n = mine.pid /\ process[n].token = mine.token
    <3>1. PICK j \in 1 .. Len(registry') : registry'[j] = Entry(mine.pid, mine.token)
      BY <1>9, <2>4
    <3>2. registry'[j].pid = n /\ registry'[j].token = process'[n].token
      BY <2>2, <2>4, <3>1 DEF Entry
    <3> QED BY <2>3, <3>2
  <2>5. CASE process[n].listed
    <3>1. PICK i \in DOMAIN registry : registry[i].pid = n /\ registry[i].token \in {NoToken, process[n].token}
      BY <1>0, <2>2, <2>5 DEF RunningIsListed
    <3>0. registry \in Seq(Listings)
      BY <1>0 DEF LocalTypeOK
    <3>2. mine.copy = registry /\ i \in 1 .. Len(registry) /\ registry \in Seq(Listings) /\ EntriesFit
      BY <1>17, <2>2, <3>0, <3>1
    <3>3. PICK e \in Listings : e = registry[i]
      BY <3>2, EntriesTyped
    <3>4. mine.edit = "remove" => e.pid # mine.pid
      BY <1>17, <2>2, <3>1, <3>3 DEF Alive
    <3>5. "Dead" \notin Classify(h, e)
      <4>1. Its(n, e.token) /\ e.pid = n
        BY <2>2, <3>1, <3>2, <3>3 DEF EntriesFit
      <4>2. Unclaimed(e.token)
        BY <1>0, <3>2, <3>3 DEF TokensCount
      <4> QED BY <2>2, <3>2, <3>3, <4>1, <4>2, LookingSays
    <3>6. PICK j \in 1 .. Len(registry') : registry'[j] = e
      BY <1>9, <3>2, <3>3, <3>4, <3>5
    <3> QED BY <2>2, <2>3, <3>1, <3>3, <3>6
  <2> QED BY <1>6, <2>1, <2>2, <2>4, <2>5
<1> QED BY <1>1, <1>12, <1>15, <1>16, <1>18, <1>19, <1>20 DEF LocalIInv

LEMMA LocalStep == LocalIInv /\ [LocalNext]_localVars => LocalIInv'
<1> SUFFICES ASSUME LocalIInv, [LocalNext]_localVars PROVE LocalIInv'
  OBVIOUS
<1>1. ASSUME NEW h \in Programs,
             \/ AcquireFree(h) \/ AcquireFindsStale(h) \/ AcquireBreaks(h) \/ AcquireGivesUp(h)
             \/ ReadRegistry(h)
      PROVE  LocalIInv'
  BY <1>1, LockSteps
<1>2. ASSUME NEW h \in Programs, WriteRegistry(h) PROVE LocalIInv'
  BY <1>2, WriteRegistryKeeps
<1>3. ASSUME NEW h \in Programs, WriteFails(h) \/ Release(h) PROVE LocalIInv'
  BY <1>3, LetsGo
<1>4. ASSUME NEW h \in Programs, NEW n \in Pids, Spawns(h, n) PROVE LocalIInv'
  BY <1>4, SpawnsKeeps
<1>5. ASSUME NEW h \in Programs, StartsUp(h) PROVE LocalIInv'
  BY <1>5, StartsUpKeeps
<1>6. ASSUME NEW h \in Programs, Lists(h) \/ (\E n \in Pids : Destroys(h, n)) \/ ProgramStarts(h)
      PROVE  LocalIInv'
  BY <1>6, CallsBegin
<1>7. ASSUME NEW h \in Programs, Probes(h) PROVE LocalIInv'
  BY <1>7, ProbesKeeps
<1>8. ASSUME NEW h \in Programs, SeesDead(h) PROVE LocalIInv'
  BY <1>8, SeesDeadKeeps
<1>9. ASSUME NEW h \in Programs, RunsOut(h) PROVE LocalIInv'
  BY <1>9, RunsOutKeeps
<1>10. ASSUME NEW h \in Programs, ProgramEnds(h) PROVE LocalIInv'
  BY <1>10, ProgramEndsKeeps
<1>11. ASSUME NEW n \in Pids, ProcessEnds(n) \/ InitReaps(n) PROVE LocalIInv'
  BY <1>11, ProcessesGo
<1>12. ASSUME NEW n \in Pids, StrangerStarts(n) PROVE LocalIInv'
  BY <1>12, StrangerStartsKeeps
<1>13. CASE LockGoesStale
  BY <1>13, LockGoesStaleKeeps
<1>14. ASSUME NEW h \in Programs, SetsAside(h) PROVE LocalIInv'
  BY <1>14, SetsAsideKeeps
<1>15. CASE UNCHANGED localVars
  <2>1. LocalTypeOK' = LocalTypeOK /\ TokensCount' = TokensCount /\ StrangersSpared' = StrangersSpared
    BY <1>15 DEF localVars, LocalTypeOK, TokensCount, StrangersSpared, Unclaimed, Stranger
  <2>2. RunningIsListed' = RunningIsListed /\ EntriesFit' = EntriesFit /\ unfenced' = unfenced
    BY <1>15 DEF localVars, RunningIsListed, EntriesFit, Its, Alive, Server
  <2>3. \A h \in Programs : CallFits(h, prog[h])' = CallFits(h, prog[h]) /\ Fenced(h, prog[h])' = Fenced(h, prog[h])
    BY <1>15 DEF localVars, CallFits, Fenced, Its, Server, Unclaimed, Stranger
  <2> QED BY <2>1, <2>2, <2>3 DEF LocalIInv
<1> QED BY <1>1, <1>2, <1>3, <1>4, <1>5, <1>6, <1>7, <1>8, <1>9, <1>10, <1>11, <1>12, <1>13, <1>14, <1>15
        DEF LocalNext

(* Whatever a pid has been handed on to since an entry was written, the    *)
(* SIGKILL of destroy reaches no process that no host program started:     *)
(* Classify takes only a token that matches, or a child, for the entry's.  *)
THEOREM StrangersLive == LocalSpec => []StrangersSpared
<1>1. LocalIInv => StrangersSpared
  BY DEF LocalIInv
<1> QED BY <1>1, LocalInitial, LocalStep, PTL DEF LocalSpec

(* A server that was recorded in the file now in place and still runs      *)
(* stays in it through every cycle of with_registry, of however many host  *)
(* programs, while every cycle had and kept the lock and no pid named two  *)
(* processes.                                                              *)
THEOREM RunningListed == LocalSpec => []RunningIsListed
<1>1. LocalIInv => RunningIsListed
  BY DEF LocalIInv
<1> QED BY <1>1, LocalInitial, LocalStep, PTL DEF LocalSpec
-----------------------------------------------------------------------------
(* The rules of the bucket.                                                *)
Ruled == Armed \cup OwnRules
RulesTypeOK ==
    /\ api \in {"s3", "gcs"} /\ forever \in SUBSET Armed /\ rules \in Seq(Ruled)
    /\ arming \in [Armed -> [pc : {"idle", "probed", "writing", "enforced", "failed", "manual"},
                             list : Seq(Ruled), tries : Nat]]
    /\ late \in SUBSET [by : Armed, list : Seq(Ruled)]
    /\ own \in SUBSET OwnRules /\ exposed \in SUBSET Ruled

(* A list to write has a place for its session's rule, holds no rule for a *)
(* session that has none, and lacks nothing of the bucket's but what a     *)
(* known race or the cap may cost.                                         *)
Within(q) == Len(q) <= MAX_RULES /\ \A t \in ToSet(q) \cap Armed : HasRule(t)
ListFits(s, q) ==
    /\ Within(q)
    /\ ToSet(rules) \subseteq ToSet(q) \cup exposed
    /\ HasRule(s) => s \in ToSet(q)

RulesIInv ==
    /\ RulesTypeOK /\ PromisedRulesStand /\ Within(rules)
    /\ \A s \in Armed : Out(s) => ListFits(s, arming[s].list)
    /\ \A doc \in late : doc.list = arming[doc.by].list /\ arming[doc.by].pc \in {"writing", "enforced", "failed"}

(* A list without some of its elements.                                    *)
LEMMA SiftedSet ==
  ASSUME NEW q \in Seq(Ruled), NEW S
  PROVE  /\ Sifted(q, S) \in Seq(Ruled) /\ ToSet(Sifted(q, S)) = ToSet(q) \cap S
         /\ Len(Sifted(q, S)) <= Len(q)
         /\ ~(ToSet(q) \subseteq S) => Len(Sifted(q, S)) < Len(q)
<1>1. PICK T : T = Ruled
  OBVIOUS
<1>2. q \in Seq(T)
  BY <1>1
<1>3. /\ Sifted(q, S) \in Seq(T)
      /\ \A j \in 1 .. Len(Sifted(q, S)) :
           Sifted(q, S)[j] \in S /\ \E i \in 1 .. Len(q) : q[i] = Sifted(q, S)[j]
      /\ \A i \in 1 .. Len(q) : q[i] \in S => \E j \in 1 .. Len(Sifted(q, S)) : Sifted(q, S)[j] = q[i]
      /\ Len(Sifted(q, S)) <= Len(q)
      /\ (\E i \in 1 .. Len(q) : q[i] \notin S) => Len(Sifted(q, S)) < Len(q)
  BY <1>2, SiftedHas
<1>4. PICK l \in Seq(Ruled) : l = Sifted(q, S)
  BY <1>1, <1>3
<1>5. ToSet(l) = ToSet(q) \cap S
  <2>1. DOMAIN l = 1 .. Len(l) /\ DOMAIN q = 1 .. Len(q)
    OBVIOUS
  <2>2. ToSet(l) \subseteq ToSet(q) \cap S
    BY <1>3, <1>4, <2>1 DEF ToSet
  <2>3. ASSUME NEW r \in ToSet(q) \cap S PROVE r \in ToSet(l)
    <3>1. PICK i \in 1 .. Len(q) : q[i] = r
      BY <2>1 DEF ToSet
    <3>2. PICK j \in 1 .. Len(l) : l[j] = r
      BY <1>3, <1>4, <3>1
    <3> QED BY <2>1, <3>2 DEF ToSet
  <2> QED BY <2>2, <2>3
<1>6. ~(ToSet(q) \subseteq S) => \E i \in 1 .. Len(q) : q[i] \notin S
  BY DEF ToSet
<1> QED BY <1>1, <1>3, <1>4, <1>5, <1>6

(* The document to write keeps every rule but the session's own, which it  *)
(* adds, and one of the sessions' when the list is full.                   *)
LEMMA MergingKeeps ==
  ASSUME NEW q \in Seq(Ruled), Within(q), NEW s \in Armed, NEW l \in Merged(q, s)
  PROVE  /\ l \in Seq(Ruled) /\ Within(l) /\ (HasRule(s) => s \in ToSet(l))
         /\ ToSet(q) \subseteq ToSet(l) \cup Evicted(q, s) /\ Evicted(q, s) \subseteq Ruled
<1> USE RulesAssumption
<1>1. PICK kept \in Seq(Ruled) : kept = Kept(q, s) /\ ToSet(kept) = ToSet(q) \ {s} /\ Len(kept) <= Len(q)
  <2>1. PICK S : S = ToSet(q) \ {s}
    OBVIOUS
  <2>2. Kept(q, s) = Sifted(q, S)
    BY <2>1 DEF Kept
  <2> QED BY <2>1, <2>2, SiftedSet
<1>2. PICK gone : gone = Evicted(q, s)
  OBVIOUS
<1>3. gone \subseteq ToSet(kept) /\ (gone # {} => Full(q, s)) /\ gone \subseteq Ruled
  <2>1. PICK S : S = {r \in ToSet(q) : IsOurs(r)}
    OBVIOUS
  <2>2. PICK ours \in Seq(Ruled) : ours = Sifted(kept, S) /\ ToSet(ours) = ToSet(kept) \cap S
    BY SiftedSet
  <2>3. gone = IF Full(q, s) THEN (IF ours = <<>> THEN {} ELSE {Head(ours)}) ELSE {}
    BY <1>1, <1>2, <2>1, <2>2 DEF Evicted
  <2>4. ours # <<>> => Head(ours) \in ToSet(ours) /\ Head(ours) \in Ruled
    BY DEF ToSet
  <2> QED BY <2>2, <2>3, <2>4
<1>4. PICK S : S = ToSet(q) \ gone
  OBVIOUS
<1>5. PICK room \in Seq(Ruled) : /\ room = Sifted(kept, S) /\ ToSet(room) = ToSet(kept) \cap S
                                 /\ Len(room) <= Len(kept)
                                 /\ ~(ToSet(kept) \subseteq S) => Len(room) < Len(kept)
  BY SiftedSet
<1>6. ~(Full(q, s) /\ gone = {}) /\ l = room \o (IF HasRule(s) THEN <<s>> ELSE <<>>)
  BY <1>1, <1>2, <1>4, <1>5 DEF Merged
<1>7. Len(q) \in Nat /\ Len(kept) \in Nat /\ Len(room) \in Nat /\ Len(q) <= MAX_RULES
  BY DEF Within
<1>8. HasRule(s) => Len(room) < MAX_RULES
  <2>1. CASE Full(q, s)
    <3>1. gone # {} /\ ~(ToSet(kept) \subseteq S)
      BY <1>3, <1>4, <1>6, <2>1
    <3> QED BY <1>1, <1>5, <1>7, <3>1
  <2>2. CASE ~Full(q, s)
    BY <1>1, <1>5, <1>7, <2>2 DEF Full
  <2> QED BY <2>1, <2>2
<1>9. ToSet(room) = ToSet(q) \ ({s} \cup gone)
  BY <1>1, <1>4, <1>5
<1>10. CASE HasRule(s)
  <2>1. l = Append(room, s)
    <3>1. l = room \o <<s>> /\ s \in Ruled
      BY <1>6, <1>10 DEF Ruled
    <3> QED BY <3>1
  <2>2. l \in Seq(Ruled) /\ Len(l) = Len(room) + 1 /\ ToSet(l) = ToSet(room) \cup {s}
    <3>1. s \in Ruled
      BY DEF Ruled
    <3>2. l \in Seq(Ruled) /\ Len(l) = Len(room) + 1 /\ l[Len(room) + 1] = s
          /\ \A i \in 1 .. Len(room) : l[i] = room[i]
      BY <2>1, <3>1
    <3>3. \A r \in ToSet(l) : r \in ToSet(room) \cup {s}
      <4>1. ASSUME NEW i \in 1 .. Len(l) PROVE l[i] \in ToSet(room) \cup {s}
        <5>1. i \in 1 .. Len(room) \/ i = Len(room) + 1
          BY <3>2
        <5> QED BY <3>2, <5>1 DEF ToSet
      <4> QED BY <3>2, <4>1 DEF ToSet
    <3>4. \A r \in ToSet(room) \cup {s} : r \in ToSet(l)
      <4>1. \A i \in 1 .. Len(room) : i \in 1 .. Len(l) /\ l[i] = room[i]
        BY <3>2
      <4>2. \A i \in 1 .. Len(l) : l[i] \in ToSet(l)
        BY <3>2 DEF ToSet
      <4>3. s \in ToSet(l)
        BY <3>2, <4>2
      <4> QED BY <4>1, <4>2, <4>3 DEF ToSet
    <3> QED BY <3>2, <3>3, <3>4
  <2>3. Within(l)
    <3>1. Len(l) <= MAX_RULES
      BY <1>7, <1>8, <1>10, <2>2
    <3>2. \A t \in ToSet(l) \cap Armed : HasRule(t)
      BY <1>9, <1>10, <2>2 DEF Within
    <3> QED BY <3>1, <3>2 DEF Within
  <2> QED BY <1>2, <1>3, <1>9, <2>2, <2>3
<1>11. CASE ~HasRule(s)
  <2>1. l = room
    BY <1>6, <1>11
  <2>2. s \notin ToSet(q)
    BY <1>11 DEF Within
  <2>3. Within(l)
    BY <1>1, <1>5, <1>7, <1>9, <2>1 DEF Within
  <2> QED BY <1>2, <1>3, <1>9, <1>11, <2>1, <2>2, <2>3
<1> QED BY <1>10, <1>11

LEMMA RulesInitial == RulesInit => RulesIInv
<1> SUFFICES ASSUME RulesInit PROVE RulesIInv
  OBVIOUS
<1> USE RulesAssumption
<1>1. /\ own \in SUBSET OwnRules /\ rules \in SetToSeqs(own) /\ Len(rules) <= MAX_RULES
      /\ late = {} /\ exposed = {} /\ api \in {"s3", "gcs"} /\ forever \in SUBSET Armed
      /\ arming = [s \in Armed |-> [pc |-> "idle", list |-> <<>>, tries |-> 0]]
  BY DEF RulesInit
<1>2. IsFiniteSet(own) /\ Cardinality(own) \in Nat
  BY <1>1, FS_Subset, FS_CardinalityType
<1>3. PICK D : D = 1 .. Cardinality(own)
  OBVIOUS
<1>4. rules \in [D -> own] /\ \A i, j \in D : i # j => rules[i] # rules[j]
  BY <1>1, <1>3 DEF SetToSeqs
<1>5. rules \in Injection(D, own)
  BY <1>4 DEF Injection, IsInjective
<1>6. Cardinality(D) = Cardinality(own)
  BY <1>2, <1>3, FS_Interval
<1>7. rules \in Surjection(D, own)
  BY <1>2, <1>5, <1>6, FS_Injection
<1>8. rules \in Seq(Ruled) /\ DOMAIN rules = D
  BY <1>1, <1>2, <1>3, <1>4 DEF Ruled
<1>9. ToSet(rules) = own
  BY <1>4, <1>7, <1>8 DEF ToSet, Surjection
<1>10. [pc |-> "idle", list |-> <<>>, tries |-> 0] \in
         [pc : {"idle", "probed", "writing", "enforced", "failed", "manual"}, list : Seq(Ruled), tries : Nat]
  OBVIOUS
<1>11. RulesTypeOK
  BY <1>1, <1>8, <1>10 DEF RulesTypeOK
<1>12. \A s \in Armed : arming[s].pc = "idle" /\ ~Out(s)
  BY <1>1 DEF Out, At
<1> QED BY <1>1, <1>9, <1>11, <1>12 DEF RulesIInv, PromisedRulesStand, Within, At

(* Steps that leave the bucket's list alone.                               *)
LEMMA RulesUntouched ==
  ASSUME RulesIInv, RulesTypeOK', rules' = rules, own' = own, api' = api, forever' = forever,
         exposed \subseteq exposed',
         \A s \in Armed : /\ At(s, "enforced")' => At(s, "enforced")
                          /\ Out(s)' => ListFits(s, arming[s].list)',
         \A doc \in late' : doc.list = arming'[doc.by].list /\ arming'[doc.by].pc \in {"writing", "enforced", "failed"}
  PROVE  RulesIInv'
<1>1. \A s \in Armed : HasRule(s)' = HasRule(s)
  BY DEF HasRule
<1>2. PromisedRulesStand'
  BY <1>1 DEF RulesIInv, PromisedRulesStand
<1>3. Within(rules)'
  BY <1>1 DEF RulesIInv, Within
<1> QED BY <1>2, <1>3 DEF RulesIInv

(* A write that is carried out: what it takes from the list was exposed,   *)
(* and what it adds is exposed if another list was read without it.        *)
LEMMA LandingKeeps ==
  ASSUME RulesIInv, RulesTypeOK', NEW s \in Armed, Out(s), Lands(s, arming[s].list),
         own' = own, api' = api, forever' = forever, late' \subseteq late,
         \A t \in Armed : /\ arming'[t].list = arming[t].list
                          /\ Out(t)' => Out(t)
                          /\ At(t, "enforced")' => At(t, "enforced") \/ t = s,
         \A doc \in late' : arming'[doc.by].pc \in {"writing", "enforced", "failed"}
  PROVE  RulesIInv'
<1>1. \A t \in Armed : HasRule(t)' = HasRule(t)
  BY DEF HasRule
<1>2. RulesTypeOK /\ PromisedRulesStand /\ ListFits(s, arming[s].list) /\ rules' = arming[s].list
  BY DEF RulesIInv, Lands
<1>3. /\ exposed \subseteq exposed'
      /\ (\E t \in Armed \ {s} : Out(t)) => ToSet(rules') \subseteq ToSet(rules) \cup exposed'
  BY <1>2 DEF Lands
<1>4. ToSet(rules) \subseteq ToSet(rules') \cup exposed'
  BY <1>2, <1>3 DEF ListFits
<1>5. PromisedRulesStand'
  <2>1. \A t \in Armed : At(t, "enforced")' /\ HasRule(t)' => t \in ToSet(rules') \cup exposed'
    <3>1. ASSUME NEW t \in Armed, At(t, "enforced")', HasRule(t)' PROVE t \in ToSet(rules') \cup exposed'
      <4>1. CASE t = s
        BY <1>1, <1>2, <3>1, <4>1 DEF ListFits
      <4>2. CASE t # s
        <5>1. t \in ToSet(rules) \cup exposed
          BY <1>1, <1>2, <3>1, <4>2 DEF PromisedRulesStand
        <5> QED BY <1>3, <1>4, <5>1
      <4> QED BY <4>1, <4>2
    <3> QED BY <3>1
  <2>2. own' \subseteq ToSet(rules') \cup exposed'
    BY <1>2, <1>3, <1>4 DEF PromisedRulesStand
  <2>3. Len(rules') <= MAX_RULES
    BY <1>2 DEF ListFits, Within
  <2> QED BY <2>1, <2>2, <2>3 DEF PromisedRulesStand
<1>6. Within(rules)'
  BY <1>1, <1>2 DEF ListFits, Within
<1>7. ASSUME NEW t \in Armed, Out(t)' PROVE ListFits(t, arming[t].list)'
  <2>1. Out(t) /\ ListFits(t, arming[t].list) /\ arming'[t].list = arming[t].list
    BY <1>7 DEF RulesIInv
  <2>2. ToSet(rules') \subseteq ToSet(arming[t].list) \cup exposed'
    BY <1>2, <1>3, <2>1 DEF ListFits
  <2> QED BY <1>1, <2>1, <2>2 DEF ListFits, Within
<1>8. \A doc \in late' : doc.list = arming'[doc.by].list
  BY <1>2 DEF RulesIInv, RulesTypeOK
<1> QED BY <1>5, <1>6, <1>7, <1>8 DEF RulesIInv

(* A call moves on within what it read.                                    *)
LEMMA TurnsTo ==
  ASSUME RulesTypeOK, NEW s \in Armed, NEW a,
         a \in [pc : {"idle", "probed", "writing", "enforced", "failed", "manual"}, list : Seq(Ruled), tries : Nat],
         arming' = [arming EXCEPT ![s] = a]
  PROVE  /\ arming' \in [Armed -> [pc : {"idle", "probed", "writing", "enforced", "failed", "manual"},
                                   list : Seq(Ruled), tries : Nat]]
         /\ arming'[s] = a /\ \A t \in Armed \ {s} : arming'[t] = arming[t]
BY DEF RulesTypeOK

LEMMA ArmingOnly ==
  ASSUME RulesIInv, NEW s \in Armed, NEW pc \in {"probed", "failed", "manual"}, Turns(s, pc),
         At(s, "idle") \/ At(s, "probed"), UNCHANGED <<api, forever, rules, late, own, exposed>>
  PROVE  RulesIInv'
<1>1. RulesTypeOK /\ arming[s].pc \in {"idle", "probed"}
  BY DEF RulesIInv, At
<1>2. PICK a : a = [arming[s] EXCEPT !.pc = pc]
  OBVIOUS
<1>3. a \in [pc : {"idle", "probed", "writing", "enforced", "failed", "manual"}, list : Seq(Ruled), tries : Nat]
      /\ a.pc = pc
  BY <1>1, <1>2 DEF RulesTypeOK
<1>4. /\ arming' \in [Armed -> [pc : {"idle", "probed", "writing", "enforced", "failed", "manual"},
                                list : Seq(Ruled), tries : Nat]]
      /\ arming'[s] = a /\ \A t \in Armed \ {s} : arming'[t] = arming[t]
  BY <1>1, <1>2, <1>3, TurnsTo DEF Turns
<1>5. RulesTypeOK'
  BY <1>1, <1>4 DEF RulesTypeOK
<1>6. \A doc \in late : doc.by \in Armed /\ doc.by # s
  BY <1>1 DEF RulesIInv, RulesTypeOK
<1>7. \A doc \in late' : doc.list = arming'[doc.by].list /\ arming'[doc.by].pc \in {"writing", "enforced", "failed"}
  BY <1>4, <1>6 DEF RulesIInv
<1>8. ASSUME NEW t \in Armed
      PROVE  (At(t, "enforced")' => At(t, "enforced")) /\ (Out(t)' => ListFits(t, arming[t].list)')
  <2>1. CASE t = s
    <3>1. ~Out(t)' /\ ~At(t, "enforced")'
      BY <1>3, <1>4, <1>6, <2>1 DEF Out, At
    <3> QED BY <3>1
  <2>2. CASE t # s
    <3>1. arming'[t] = arming[t] /\ (Out(t)' => Out(t))
      BY <1>4, <2>2 DEF Out, At
    <3> QED BY <3>1 DEF RulesIInv, ListFits, Within, HasRule, At
  <2> QED BY <2>1, <2>2
<1> QED BY <1>5, <1>7, <1>8, RulesUntouched

LEMMA ReadListKeeps == ASSUME RulesIInv, NEW s \in Armed, ReadList(s) PROVE RulesIInv'
<1>1. RulesTypeOK /\ Within(rules) /\ arming[s].pc = "probed" /\ rules \in Seq(Ruled)
  BY DEF RulesIInv, RulesTypeOK, ReadList, At
<1>2. CASE Merged(rules, s) = {}
  BY <1>2, ArmingOnly DEF ReadList
<1>3. CASE Merged(rules, s) # {}
  <2>1. PICK l \in Merged(rules, s) : l = CHOOSE q \in Merged(rules, s) : TRUE
    BY <1>3
  <2>2. /\ l \in Seq(Ruled) /\ Within(l) /\ (HasRule(s) => s \in ToSet(l))
        /\ ToSet(rules) \subseteq ToSet(l) \cup Evicted(rules, s) /\ Evicted(rules, s) \subseteq Ruled
    BY <1>1, MergingKeeps
  <2>3. PICK a : a = [pc |-> "writing", tries |-> 0, list |-> l]
    OBVIOUS
  <2>4. a \in [pc : {"idle", "probed", "writing", "enforced", "failed", "manual"}, list : Seq(Ruled), tries : Nat]
        /\ a.pc = "writing" /\ a.list = l
    BY <2>2, <2>3
  <2>5. arming' = [arming EXCEPT ![s] = a]
    BY <1>3, <2>1, <2>3 DEF ReadList
  <2>6. /\ arming' \in [Armed -> [pc : {"idle", "probed", "writing", "enforced", "failed", "manual"},
                                  list : Seq(Ruled), tries : Nat]]
        /\ arming'[s] = a /\ \A t \in Armed \ {s} : arming'[t] = arming[t]
    BY <1>1, <2>4, <2>5, TurnsTo
  <2>7. /\ exposed' = exposed \cup Evicted(rules, s)
        /\ api' = api /\ forever' = forever /\ rules' = rules /\ late' = late /\ own' = own
    BY <1>3 DEF ReadList
  <2>8. RulesTypeOK'
    BY <1>1, <2>2, <2>6, <2>7 DEF RulesTypeOK
  <2>9. \A doc \in late : doc.by \in Armed /\ doc.by # s
    BY <1>1 DEF RulesIInv, RulesTypeOK
  <2>10. \A doc \in late' : doc.list = arming'[doc.by].list /\ arming'[doc.by].pc \in {"writing", "enforced", "failed"}
    BY <2>6, <2>7, <2>9 DEF RulesIInv
  <2>11. ASSUME NEW t \in Armed
         PROVE  (At(t, "enforced")' => At(t, "enforced")) /\ (Out(t)' => ListFits(t, arming[t].list)')
    <3>1. CASE t = s
      <4>1. ~At(t, "enforced")'
        BY <2>4, <2>6, <3>1 DEF At
      <4>2. ListFits(s, l)'
        BY <2>2, <2>7 DEF ListFits, Within, HasRule
      <4> QED BY <2>4, <2>6, <3>1, <4>1, <4>2 DEF ListFits, Within
    <3>2. CASE t # s
      <4>1. arming'[t] = arming[t] /\ (Out(t)' => Out(t))
        BY <2>6, <2>7, <3>2 DEF Out, At
      <4> QED BY <2>7, <4>1 DEF RulesIInv, ListFits, Within, HasRule, At
    <3> QED BY <3>1, <3>2
  <2> QED BY <2>7, <2>8, <2>10, <2>11, RulesUntouched
<1> QED BY <1>2, <1>3

LEMMA AnsweredKeeps == ASSUME RulesIInv, NEW s \in Armed, Answered(s) PROVE RulesIInv'
<1>1. RulesTypeOK /\ arming[s].pc = "writing" /\ Out(s) /\ Lands(s, arming[s].list)
  BY DEF RulesIInv, Answered, At, Out
<1>2. PICK a : a = [arming[s] EXCEPT !.pc = "enforced"]
  OBVIOUS
<1>3. a \in [pc : {"idle", "probed", "writing", "enforced", "failed", "manual"}, list : Seq(Ruled), tries : Nat]
      /\ a.pc = "enforced" /\ a.list = arming[s].list
  BY <1>1, <1>2 DEF RulesTypeOK
<1>4. /\ arming' \in [Armed -> [pc : {"idle", "probed", "writing", "enforced", "failed", "manual"},
                                list : Seq(Ruled), tries : Nat]]
      /\ arming'[s] = a /\ \A t \in Armed \ {s} : arming'[t] = arming[t]
  BY <1>1, <1>2, <1>3, TurnsTo DEF Answered, Turns
<1>5. late' = late /\ own' = own /\ api' = api /\ forever' = forever
  BY DEF Answered
<1>6. rules' \in Seq(Ruled) /\ exposed' \in SUBSET Ruled
  <2>1. PICK q \in Seq(Ruled) : q = arming[s].list
    BY <1>1 DEF RulesTypeOK
  <2>2. ToSet(q) \subseteq Ruled
    BY DEF ToSet
  <2> QED BY <1>1, <2>1, <2>2 DEF Lands, RulesTypeOK
<1>7. RulesTypeOK'
  BY <1>1, <1>4, <1>5, <1>6 DEF RulesTypeOK
<1>8. \A t \in Armed : /\ arming'[t].list = arming[t].list
                       /\ Out(t)' => Out(t)
                       /\ At(t, "enforced")' => At(t, "enforced") \/ t = s
  BY <1>3, <1>4, <1>5 DEF Out, At
<1>9. \A doc \in late' : arming'[doc.by].pc \in {"writing", "enforced", "failed"}
  BY <1>1, <1>3, <1>4, <1>5 DEF RulesIInv, RulesTypeOK
<1> QED BY <1>1, <1>5, <1>7, <1>8, <1>9, LandingKeeps

(* A write without an answer, tried again or given up.                     *)
LEMMA PutsKeep == ASSUME RulesIInv, NEW s \in Armed, PutAgain(s) \/ PutFails(s) PROVE RulesIInv'
<1>1. RulesTypeOK /\ arming[s].pc = "writing" /\ Out(s) /\ MayLand(s)
  BY DEF RulesIInv, PutAgain, PutFails, At, Out
<1>2. PICK a : /\ arming' = [arming EXCEPT ![s] = a]
               /\ a \in [pc : {"idle", "probed", "writing", "enforced", "failed", "manual"}, list : Seq(Ruled), tries : Nat]
               /\ a.pc \in {"writing", "failed"} /\ a.list = arming[s].list
  <2>1. CASE PutAgain(s)
    <3>0. PICK m \in Nat : m = arming[s].tries + 1
      BY <1>1 DEF RulesTypeOK
    <3>1. PICK a : a = [arming[s] EXCEPT !.tries = m]
      OBVIOUS
    <3>2. a \in [pc : {"idle", "probed", "writing", "enforced", "failed", "manual"}, list : Seq(Ruled), tries : Nat]
      BY <1>1, <3>1 DEF RulesTypeOK
    <3>3. a.pc = "writing" /\ a.list = arming[s].list
      BY <1>1, <3>1 DEF RulesTypeOK
    <3>4. arming' = [arming EXCEPT ![s] = a]
      BY <1>1, <2>1, <3>0, <3>1 DEF PutAgain
    <3> QED BY <3>2, <3>3, <3>4
  <2>2. CASE PutFails(s)
    <3>1. PICK a : a = [arming[s] EXCEPT !.pc = "failed"]
      OBVIOUS
    <3>2. a \in [pc : {"idle", "probed", "writing", "enforced", "failed", "manual"}, list : Seq(Ruled), tries : Nat]
      BY <1>1, <3>1 DEF RulesTypeOK
    <3>3. a.pc = "failed" /\ a.list = arming[s].list
      BY <1>1, <3>1 DEF RulesTypeOK
    <3>4. arming' = [arming EXCEPT ![s] = a]
      BY <1>1, <2>2, <3>1 DEF PutFails, Turns
    <3> QED BY <3>2, <3>3, <3>4
  <2> QED BY <2>1, <2>2
<1>3. /\ arming' \in [Armed -> [pc : {"idle", "probed", "writing", "enforced", "failed", "manual"},
                                list : Seq(Ruled), tries : Nat]]
      /\ arming'[s] = a /\ \A t \in Armed \ {s} : arming'[t] = arming[t]
  BY <1>1, <1>2, TurnsTo
<1>4. own' = own /\ api' = api /\ forever' = forever
  BY DEF PutAgain, PutFails
<1>5. PICK q \in Seq(Ruled) : q = arming[s].list
  BY <1>1 DEF RulesTypeOK
<1>6. ToSet(q) \subseteq Ruled
  BY DEF ToSet
<1>7. /\ rules' \in Seq(Ruled) /\ exposed' \in SUBSET Ruled /\ late' \in SUBSET [by : Armed, list : Seq(Ruled)]
  BY <1>1, <1>5, <1>6 DEF MayLand, Lands, RulesTypeOK
<1>8. RulesTypeOK'
  BY <1>1, <1>3, <1>4, <1>7 DEF RulesTypeOK
<1>9. \A t \in Armed : /\ arming'[t].list = arming[t].list
                       /\ At(t, "enforced")' => At(t, "enforced")
  BY <1>2, <1>3 DEF At
<1>10. \A t \in Armed : Out(t)' => Out(t)
  <2>1. \A doc \in late' : doc \in late \/ doc.by = s
    BY <1>1 DEF MayLand
  <2>2. \A t \in Armed : At(t, "writing")' => At(t, "writing")
    BY <1>1, <1>3 DEF At
  <2> QED BY <1>1, <2>1, <2>2 DEF Out
<1>11. \A doc \in late' : /\ doc.list = arming'[doc.by].list
                        /\ arming'[doc.by].pc \in {"writing", "enforced", "failed"}
  <2>1. ASSUME NEW doc \in late'
        PROVE  doc.list = arming'[doc.by].list /\ arming'[doc.by].pc \in {"writing", "enforced", "failed"}
    <3>1. CASE doc \in late
      BY <1>1, <1>2, <1>3, <3>1 DEF RulesIInv, RulesTypeOK
    <3>2. CASE doc = [by |-> s, list |-> arming[s].list]
      BY <1>2, <1>3, <3>2
    <3> QED BY <1>1, <3>1, <3>2 DEF MayLand
  <2> QED BY <2>1
<1>12. CASE Lands(s, arming[s].list) /\ UNCHANGED late
  BY <1>1, <1>4, <1>8, <1>9, <1>10, <1>11, <1>12, LandingKeeps
<1>13. CASE UNCHANGED <<rules, exposed>>
  <2>1. ASSUME NEW t \in Armed, Out(t)' PROVE ListFits(t, arming[t].list)'
    <3>1. ListFits(t, arming[t].list) /\ arming'[t].list = arming[t].list
      BY <1>9, <1>10, <2>1 DEF RulesIInv
    <3> QED BY <1>4, <1>13, <3>1 DEF ListFits, Within, HasRule
  <2> QED BY <1>4, <1>8, <1>9, <1>11, <1>13, <2>1, RulesUntouched
<1> QED BY <1>1, <1>12, <1>13 DEF MayLand

LEMMA LandsLateKeeps == ASSUME RulesIInv, LandsLate PROVE RulesIInv'
<1>1. PICK doc \in late : Lands(doc.by, doc.list) /\ late' = late \ {doc}
  BY DEF LandsLate
<1>2. PICK s \in Armed : s = doc.by
  BY DEF RulesIInv, RulesTypeOK
<1>3. Out(s) /\ Lands(s, arming[s].list) /\ RulesTypeOK
  BY <1>1, <1>2 DEF RulesIInv, Out
<1>4. own' = own /\ api' = api /\ forever' = forever /\ arming' = arming /\ late' \subseteq late
  BY <1>1 DEF LandsLate
<1>5. PICK q \in Seq(Ruled) : q = arming[s].list
  BY <1>3 DEF RulesTypeOK
<1>6. ToSet(q) \subseteq Ruled
  BY DEF ToSet
<1>7. RulesTypeOK'
  BY <1>3, <1>4, <1>5, <1>6 DEF RulesTypeOK, Lands
<1>8. \A t \in Armed : (Out(t)' => Out(t)) /\ (At(t, "enforced")' => At(t, "enforced"))
  BY <1>4 DEF Out, At
<1> QED BY <1>3, <1>4, <1>7, <1>8, LandingKeeps DEF RulesIInv

(* The host's own hand.                                                    *)
LEMMA HostSetsKeeps == ASSUME RulesIInv, NEW r \in OwnRules, HostSets(r) PROVE RulesIInv'
<1> USE RulesAssumption
<1>1. /\ RulesTypeOK /\ rules \in Seq(Ruled) /\ r \in Ruled /\ r \notin Armed
      /\ rules' = Append(rules, r) /\ own' = own \cup {r} /\ Len(rules) < MAX_RULES
      /\ api' = api /\ forever' = forever /\ arming' = arming /\ late' = late
      /\ exposed \subseteq exposed' /\ exposed' \subseteq exposed \cup {r}
      /\ (\E t \in Armed : Out(t)) => r \in exposed'
  BY DEF RulesIInv, RulesTypeOK, Ruled, HostSets
<1>2. rules' \in Seq(Ruled) /\ Len(rules') = Len(rules) + 1 /\ rules'[Len(rules) + 1] = r
      /\ \A i \in 1 .. Len(rules) : rules'[i] = rules[i]
  BY <1>1
<1>3. ToSet(rules') = ToSet(rules) \cup {r}
  <2>1. \A i \in 1 .. Len(rules') : i \in 1 .. Len(rules) \/ i = Len(rules) + 1
    BY <1>1, <1>2
  <2>2. \A i \in 1 .. Len(rules) : i \in 1 .. Len(rules')
    BY <1>1, <1>2
  <2>3. Len(rules) + 1 \in 1 .. Len(rules')
    BY <1>1, <1>2
  <2>4. DOMAIN rules = 1 .. Len(rules) /\ DOMAIN rules' = 1 .. Len(rules')
    BY <1>1, <1>2
  <2>5. ToSet(rules') \subseteq ToSet(rules) \cup {r}
    BY <1>2, <2>1, <2>4 DEF ToSet
  <2>6. ToSet(rules) \subseteq ToSet(rules') /\ r \in ToSet(rules')
    BY <1>2, <2>2, <2>3, <2>4 DEF ToSet
  <2> QED BY <2>5, <2>6
<1>4. RulesTypeOK'
  BY <1>1, <1>2 DEF RulesTypeOK
<1>5. \A t \in Armed : HasRule(t)' = HasRule(t) /\ Out(t)' = Out(t) /\ At(t, "enforced")' = At(t, "enforced")
  BY <1>1 DEF HasRule, Out, At
<1>6. Len(rules') <= MAX_RULES
  BY <1>1, <1>2
<1>7. PromisedRulesStand'
  BY <1>1, <1>3, <1>5, <1>6 DEF RulesIInv, PromisedRulesStand
<1>8. Within(rules)'
  BY <1>1, <1>3, <1>5, <1>6 DEF RulesIInv, Within
<1>9. ASSUME NEW t \in Armed, Out(t) PROVE ListFits(t, arming[t].list)'
  BY <1>1, <1>3, <1>5, <1>9 DEF RulesIInv, ListFits, Within
<1> QED BY <1>1, <1>4, <1>5, <1>7, <1>8, <1>9 DEF RulesIInv

LEMMA HostDropsKeeps == ASSUME RulesIInv, NEW r \in OwnRules, HostDrops(r) PROVE RulesIInv'
<1> USE RulesAssumption
<1>1. /\ RulesTypeOK /\ rules \in Seq(Ruled) /\ r \notin Armed /\ own' = own \ {r}
      /\ api' = api /\ forever' = forever /\ arming' = arming /\ late' = late /\ exposed' = exposed
  BY DEF RulesIInv, RulesTypeOK, HostDrops
<1>2. rules' \in Seq(Ruled) /\ ToSet(rules') = ToSet(rules) \ {r} /\ Len(rules') <= Len(rules)
  <2>1. PICK S : S = ToSet(rules) \ {r}
    OBVIOUS
  <2>2. rules' = Sifted(rules, S)
    BY <2>1 DEF HostDrops, Kept
  <2>3. PICK l \in Seq(Ruled) : l = Sifted(rules, S) /\ ToSet(l) = ToSet(rules) \cap S /\ Len(l) <= Len(rules)
    BY <1>1, SiftedSet
  <2> QED BY <2>1, <2>2, <2>3
<1>3. RulesTypeOK'
  BY <1>1, <1>2 DEF RulesTypeOK
<1>4. \A t \in Armed : HasRule(t)' = HasRule(t) /\ Out(t)' = Out(t) /\ At(t, "enforced")' = At(t, "enforced")
  BY <1>1 DEF HasRule, Out, At
<1>5. Len(rules') <= MAX_RULES
  BY <1>1, <1>2 DEF RulesIInv, Within
<1>6. PromisedRulesStand'
  BY <1>1, <1>2, <1>4, <1>5 DEF RulesIInv, PromisedRulesStand
<1>7. Within(rules)'
  BY <1>1, <1>2, <1>4, <1>5 DEF RulesIInv, Within
<1>8. ASSUME NEW t \in Armed, Out(t) PROVE ListFits(t, arming[t].list)'
  BY <1>1, <1>2, <1>4, <1>8 DEF RulesIInv, ListFits, Within
<1> QED BY <1>1, <1>3, <1>4, <1>6, <1>7, <1>8 DEF RulesIInv

LEMMA RulesStep == RulesIInv /\ [RulesNext]_ruleVars => RulesIInv'
<1> SUFFICES ASSUME RulesIInv, [RulesNext]_ruleVars PROVE RulesIInv'
  OBVIOUS
<1>1. ASSUME NEW s \in Armed, Probe(s) \/ ReadRefused(s) PROVE RulesIInv'
  BY <1>1, ArmingOnly DEF Probe, ReadRefused, Unread
<1>2. ASSUME NEW s \in Armed, ReadList(s) PROVE RulesIInv'
  BY <1>2, ReadListKeeps
<1>3. ASSUME NEW s \in Armed, Answered(s) PROVE RulesIInv'
  BY <1>3, AnsweredKeeps
<1>4. ASSUME NEW s \in Armed, PutAgain(s) \/ PutFails(s) PROVE RulesIInv'
  BY <1>4, PutsKeep
<1>5. CASE LandsLate
  BY <1>5, LandsLateKeeps
<1>6. ASSUME NEW r \in OwnRules, HostSets(r) \/ HostDrops(r) PROVE RulesIInv'
  BY <1>6, HostSetsKeeps, HostDropsKeeps
<1>7. CASE UNCHANGED ruleVars
  BY <1>7 DEF ruleVars, RulesIInv, RulesTypeOK, PromisedRulesStand, Within, ListFits, HasRule, Out, At
<1> QED BY <1>1, <1>2, <1>3, <1>4, <1>5, <1>6, <1>7 DEF RulesNext

(* A rule that arming reported as enforced, or that the host set by hand,  *)
(* is in the bucket's list through every read, rewrite, retry and late     *)
(* write of every other session, unless it came while another list was out *)
(* or made room under the provider's cap, which the list never passes.     *)
THEOREM RulesStand == RulesSpec => []PromisedRulesStand
<1>1. RulesIInv => PromisedRulesStand
  BY DEF RulesIInv
<1> QED BY <1>1, RulesInitial, RulesStep, PTL DEF RulesSpec
=============================================================================
