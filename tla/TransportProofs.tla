-------------------------- MODULE TransportProofs --------------------------
(***************************************************************************)
(* The replay window delivers each counter at most once and refuses unseen *)
(* only what is a whole window late, for every WINDOW and every bound on   *)
(* the counters.                                                           *)
(*                                                                         *)
(* AtMostOnce alone is not inductive: a duplicate is caught only because   *)
(* the bitmap still holds its bit, so the invariant carries the equality   *)
(* between the bitmap and the delivery record across every slide.          *)
(*                                                                         *)
(* And in front of the room, no offer of a connecting client is wasted,    *)
(* whatever the budgets.                                                   *)
(***************************************************************************)
EXTENDS Transport, HandshakeGate, TLAPS

(* The window starts empty, and so does the record of deliveries.          *)
LEMMA InitInv == Init => IInv
<1> SUFFICES ASSUME Init PROVE IInv
  OBVIOUS
<1> USE WindowAssumption, MaxCounterAssumption
<1>1. ~any
  BY DEF Init
<1>2. TypeOK
  <2>1. sendCounter \in 0 .. (MaxCounter + 1) /\ highest \in Counters
    BY DEF Init, Counters
  <2>2. opened \in [Counters -> Nat]
    BY DEF Init
  <2>3. any \in BOOLEAN /\ sealed = {} /\ bitmap = {} /\ late = {}
    BY DEF Init
  <2> QED BY <2>1, <2>2, <2>3 DEF TypeOK
<1>3. \A c \in Counters : opened[c] = 0
  BY DEF Init
<1>4. BitmapIsRecord /\ AtMostOnce /\ RefusedOnlyWhenLate
  BY <1>1, <1>3 DEF Init, BitmapIsRecord, AtMostOnce, RefusedOnlyWhenLate
<1> QED BY <1>1, <1>2, <1>3, <1>4 DEF IInv, WindowInv

(* Sealing touches only the sender; a datagram that fails authentication   *)
(* and a step that changes nothing leave the invariant alone.              *)
LEMMA SealInv == ASSUME IInv, NEW ok \in BOOLEAN, Seal(ok) PROVE IInv'
BY WindowAssumption, MaxCounterAssumption
   DEF IInv, TypeOK, WindowInv, Counters, BitmapIsRecord, AtMostOnce,
       RefusedOnlyWhenLate, Seal

LEMMA StutterInv == ASSUME IInv, UNCHANGED vars PROVE IInv'
BY DEF IInv, TypeOK, WindowInv, BitmapIsRecord, AtMostOnce,
       RefusedOnlyWhenLate, vars

(* A refusal by the window of something never delivered happens only past  *)
(* its edge, because inside it the bitmap is the delivery record.          *)
LEMMA ReplayInv ==
    ASSUME IInv, NEW counter \in Counters, OpenReplay(counter)
    PROVE  IInv'
<1> USE WindowAssumption, MaxCounterAssumption
<1>1. TypeOK'
  BY DEF IInv, TypeOK, OpenReplay, Counters
<1>2. RefusedOnlyWhenLate'
  <2>1. CASE opened[counter] = 0
    <3>1. any /\ opened[highest] > 0 /\ counter <= highest
      BY DEF IInv, WindowInv, TypeOK, OpenReplay, Accepts, Counters
    <3>2. highest - counter >= WINDOW
      <4> SUFFICES ASSUME highest - counter < WINDOW PROVE FALSE
        BY <3>1 DEF IInv, TypeOK, Counters
      <4>1. highest - counter \in 0 .. (WINDOW - 1)
        BY <3>1 DEF IInv, TypeOK, Counters
      <4>2. highest - counter \in bitmap
        BY <3>1 DEF OpenReplay, Accepts
      <4>3. highest - (highest - counter) = counter
        BY DEF IInv, TypeOK, Counters
      <4>4. opened[highest - (highest - counter)] > 0
        BY <3>1, <4>1, <4>2 DEF IInv, WindowInv, BitmapIsRecord
      <4> QED BY <4>3, <4>4, <2>1
    <3> QED
      BY <3>1, <3>2, <2>1
         DEF IInv, WindowInv, RefusedOnlyWhenLate, OpenReplay, TypeOK, Counters
  <2>2. CASE opened[counter] # 0
    BY <2>2 DEF IInv, WindowInv, RefusedOnlyWhenLate, OpenReplay
  <2> QED BY <2>1, <2>2
<1>3. QED
  BY <1>1, <1>2
     DEF IInv, WindowInv, OpenReplay, BitmapIsRecord, AtMostOnce

(* What the window accepts was never delivered before: newer than          *)
(* everything delivered, or inside the window with its bit clear.          *)
LEMMA AcceptedIsFresh ==
    ASSUME IInv, NEW counter \in Counters, Accepts(counter)
    PROVE  opened[counter] = 0
<1>1. CASE ~any
  BY <1>1 DEF IInv, WindowInv
<1>2. CASE any /\ counter > highest
  BY <1>2 DEF IInv, WindowInv, TypeOK, Counters
<1>3. CASE any /\ counter <= highest
  <2>1. /\ highest - counter \in 0 .. (WINDOW - 1)
        /\ highest - counter \notin bitmap
    BY <1>3, WindowAssumption DEF Accepts, IInv, TypeOK, Counters
  <2>2. highest - (highest - counter) = counter /\ highest - counter <= highest
    BY DEF IInv, TypeOK, Counters
  <2>3. ~(opened[highest - (highest - counter)] > 0)
    BY <1>3, <2>1, <2>2 DEF IInv, WindowInv, BitmapIsRecord
  <2> QED BY <2>2, <2>3 DEF IInv, TypeOK
<1> QED BY <1>1, <1>2, <1>3 DEF IInv, TypeOK, Counters

(* Delivery keeps the bitmap equal to the record in each of accept's three *)
(* branches: first packet, slide, bit inside the window.                   *)
LEMMA AcceptInv ==
    ASSUME IInv, NEW counter \in Counters, OpenAccepted(counter)
    PROVE  IInv'
<1> USE WindowAssumption, MaxCounterAssumption
<1>0. opened[counter] = 0
  BY AcceptedIsFresh DEF OpenAccepted
<1>1. /\ opened' = [opened EXCEPT ![counter] = 1]
      /\ opened'[counter] = 1
      /\ \A c \in Counters : c # counter => opened'[c] = opened[c]
  BY <1>0 DEF OpenAccepted, IInv, TypeOK
<1>2. TypeOK'
  <2>1. opened' \in [Counters -> Nat]
    BY <1>1 DEF IInv, TypeOK
  <2>2. highest' \in Counters /\ any' \in BOOLEAN
    BY DEF IInv, TypeOK, OpenAccepted, Slide
  <2>3. bitmap' \subseteq 0 .. (WINDOW - 1)
    <3>1. Shifted(bitmap, counter - highest) \subseteq 0 .. (WINDOW - 1)
      BY DEF Shifted
    <3>2. CASE ~any
      BY <3>2 DEF OpenAccepted, Slide
    <3>3. CASE any /\ counter > highest
      BY <3>1, <3>3 DEF OpenAccepted, Slide
    <3>4. CASE any /\ ~(counter > highest)
      <4>1. highest - counter \in 0 .. (WINDOW - 1)
        BY <3>4 DEF IInv, TypeOK, OpenAccepted, Accepts, Counters
      <4>2. bitmap' = bitmap \cup {highest - counter}
        BY <3>4 DEF OpenAccepted, Slide
      <4> QED BY <4>1, <4>2 DEF IInv, TypeOK
    <3> QED BY <3>2, <3>3, <3>4
  <2> QED BY <2>1, <2>2, <2>3 DEF IInv, TypeOK, OpenAccepted
<1>3. AtMostOnce'
  BY <1>1, <1>2 DEF AtMostOnce, IInv, WindowInv, TypeOK
<1>4. RefusedOnlyWhenLate'
  <2> SUFFICES ASSUME NEW c \in late
               PROVE  \E d \in Counters : opened'[d] > 0 /\ d - c >= WINDOW
    BY DEF RefusedOnlyWhenLate, OpenAccepted
  <2>1. PICK d \in Counters : opened[d] > 0 /\ d - c >= WINDOW
    BY DEF IInv, WindowInv, RefusedOnlyWhenLate
  <2>2. opened'[d] > 0
    BY <1>1, <2>1
  <2> QED BY <2>1, <2>2
<1>5. /\ any' /\ opened'[highest'] > 0
      /\ \A c \in Counters : opened'[c] > 0 => c <= highest'
  BY <1>0, <1>1, <1>2 DEF IInv, WindowInv, TypeOK, OpenAccepted, Slide, Counters
<1>6. BitmapIsRecord'
  <2> SUFFICES ASSUME NEW b \in 0 .. (WINDOW - 1)
               PROVE  b \in bitmap' <=> (b <= highest' /\ opened'[highest' - b] > 0)
    BY DEF BitmapIsRecord
  <2>1. CASE ~any
    <3>1. highest' = counter /\ bitmap' = {0}
      BY <2>1 DEF OpenAccepted, Slide
    <3>2. \A c \in Counters : c # counter => opened'[c] = 0
      BY <2>1, <1>1 DEF IInv, WindowInv
    <3>3. b <= counter => counter - b \in Counters /\ (counter - b = counter <=> b = 0)
      BY DEF Counters
    <3>4. CASE b = 0
      <4>1. b <= counter /\ counter - b = counter
        BY <3>4 DEF Counters
      <4> QED BY <3>1, <3>4, <4>1, <1>1
    <3>5. CASE b # 0
      BY <3>1, <3>2, <3>3, <3>5
    <3> QED BY <3>4, <3>5
  <2>2. CASE any /\ counter > highest
    <3>1. /\ highest' = counter
          /\ bitmap' = Shifted(bitmap, counter - highest) \cup {0}
      BY <2>2 DEF OpenAccepted, Slide
    <3>2. CASE b = 0
      <4>1. b \in bitmap'
        BY <3>1, <3>2
      <4>2. counter - b = counter /\ b <= counter
        BY <3>2 DEF Counters
      <4> QED BY <3>1, <4>1, <4>2, <1>1
    <3>3. CASE b > 0 /\ b < counter - highest
      <4>1. b \notin bitmap'
        BY <3>1, <3>3 DEF Shifted, IInv, TypeOK, Counters
      <4>2. b <= counter =>
              /\ counter - b \in Counters
              /\ counter - b > highest
              /\ counter - b # counter
        BY <3>3 DEF IInv, TypeOK, Counters
      <4>3. b <= counter => ~(opened'[counter - b] > 0)
        BY <4>2, <1>1 DEF IInv, WindowInv, TypeOK, Counters
      <4> QED BY <3>1, <4>1, <4>3
    <3>4. CASE b > 0 /\ b >= counter - highest
      <4> DEFINE k == b - (counter - highest)
      <4>1. k \in 0 .. (WINDOW - 1) /\ counter - b = highest - k
        BY <3>4, <2>2 DEF IInv, TypeOK, Counters
      <4>2. b \in bitmap' <=> k \in bitmap
        <5>1. counter - highest < WINDOW
          BY <3>4 DEF IInv, TypeOK, Counters
        <5> QED BY <3>1, <3>4, <5>1 DEF Shifted, IInv, TypeOK, Counters
      <4>3. k \in bitmap <=> (k <= highest /\ opened[highest - k] > 0)
        BY <4>1, <2>2 DEF IInv, WindowInv, BitmapIsRecord
      <4>4. k <= highest <=> b <= counter
        BY DEF IInv, TypeOK, Counters
      <4>5. k <= highest => highest - k \in Counters /\ highest - k # counter
        BY <4>1, <2>2 DEF IInv, TypeOK, Counters
      <4>6. k <= highest => opened'[highest - k] = opened[highest - k]
        BY <4>5, <1>1
      <4> QED BY <3>1, <4>1, <4>2, <4>3, <4>4, <4>6
    <3> QED BY <3>2, <3>3, <3>4 DEF IInv, TypeOK, Counters
  <2>3. CASE any /\ counter <= highest
    <3>1. highest' = highest /\ bitmap' = bitmap \cup {highest - counter}
      BY <2>3 DEF OpenAccepted, Slide, IInv, TypeOK, Counters
    <3>2. b \in bitmap <=> (b <= highest /\ opened[highest - b] > 0)
      BY <2>3 DEF IInv, WindowInv, BitmapIsRecord
    <3>3. CASE b = highest - counter
      <4>1. highest - b = counter /\ b <= highest
        BY <3>3 DEF IInv, TypeOK, Counters
      <4> QED BY <3>1, <3>3, <4>1, <1>1
    <3>4. CASE b # highest - counter
      <4>1. b <= highest => highest - b \in Counters /\ highest - b # counter
        BY <3>4 DEF IInv, TypeOK, Counters
      <4>2. b <= highest => opened'[highest - b] = opened[highest - b]
        BY <4>1, <1>1
      <4> QED BY <3>1, <3>2, <3>4, <4>2
    <3> QED BY <3>3, <3>4
  <2> QED BY <2>1, <2>2, <2>3 DEF IInv, TypeOK, Counters
<1> QED BY <1>2, <1>3, <1>4, <1>5, <1>6 DEF IInv, WindowInv

LEMMA NextInv == IInv /\ [Next]_vars => IInv'
<1> SUFFICES ASSUME IInv, [Next]_vars PROVE IInv'
  OBVIOUS
<1>1. CASE UNCHANGED vars
  BY <1>1, StutterInv
<1>2. CASE \E ok \in BOOLEAN : Seal(ok)
  BY <1>2, SealInv
<1>3. CASE \E counter \in Counters : OpenAccepted(counter)
  BY <1>3, AcceptInv
<1>4. CASE \E counter \in Counters : OpenReplay(counter)
  BY <1>4, ReplayInv
<1>5. CASE \E counter \in Counters : OpenForged(counter)
  BY <1>5, StutterInv DEF OpenForged
<1> QED BY <1>1, <1>2, <1>3, <1>4, <1>5 DEF Next

(* The transport's fields stay in their ranges: the window never holds a   *)
(* bit outside its word (replay.rs, ReplayWindow).                         *)
THEOREM TransportTypeOK == Spec => []TypeOK
<1>1. IInv => TypeOK
  BY DEF IInv
<1> QED BY <1>1, InitInv, NextInv, PTL DEF Spec

(* No counter is delivered twice, whatever the network repeats and         *)
(* reorders (replay.rs, ReplayWindow::accept behind Session::open).        *)
THEOREM TransportAtMostOnce == Spec => []AtMostOnce
<1>1. IInv => AtMostOnce
  BY DEF IInv, WindowInv
<1> QED BY <1>1, InitInv, NextInv, PTL DEF Spec

(* An authentic datagram is refused unseen only when one WINDOW newer was  *)
(* already delivered: garbage cannot move the window (transport.rs,        *)
(* Session::open authenticates before it consults the window).             *)
THEOREM TransportRefusedOnlyWhenLate == Spec => []RefusedOnlyWhenLate
<1>1. IInv => RefusedOnlyWhenLate
  BY DEF IInv, WindowInv
<1> QED BY <1>1, InitInv, NextInv, PTL DEF Spec

(* The bitmap is the delivery record of the last WINDOW counters after     *)
(* every slide (replay.rs, the shift in ReplayWindow::accept).             *)
THEOREM TransportBitmapIsRecord == Spec => []BitmapIsRecord
<1>1. IInv => BitmapIsRecord
  BY DEF IInv, WindowInv
<1> QED BY <1>1, InitInv, NextInv, PTL DEF Spec
-----------------------------------------------------------------------------
(* The gate (HandshakeGate).  An offer that is out always has something in *)
(* flight that will do: an answer, the plain init where it is answered or  *)
(* challenged to some purpose, a cookie still good when it lands, or a     *)
(* challenge the client has yet to heed.  Beats wait for what is in flight *)
(* and a cookie made in a beat survives the one rotation of it.            *)
Joiners ==
    [state : {"Connecting", "Rejected", "Joined", "TimedOut"}, full : BOOLEAN,
     cookie : 0 .. None, answers : Int, waited : Int, since : Int, resend : Int]

GateTypeOK ==
    /\ gate \in [trigger : Nat, init : Nat, slot : Nat, rejects : Nat]
    /\ phase \in 0 .. COOKIE_ROTATION
    /\ server \in {"open", "full", "other"} /\ held \in {"no", "this", "before"}
    /\ joiner \in Joiners

GoodWhenItLands(c) == c = 0 \/ (c = 1 /\ phase < COOKIE_ROTATION)

AnswerComes == \E k \in {"resp", "capacity", "version"} : Answer(k) \in flying
VersionWillTell == server = "other" /\ Plain \in flying
CookieWillDo == \E c \in 0 .. 1 : GoodWhenItLands(c) /\ Cookied(c) \in flying
ChallengeHelps == \E c \in 0 .. 1 : GoodWhenItLands(c) /\ c # joiner.cookie /\ Challenge(c) \in flying
PlainWillDo == joiner.cookie # 0 /\ Plain \in flying

Hope ==
    \/ AnswerComes
    \/ VersionWillTell
    \/ server # "other" /\ (CookieWillDo \/ ChallengeHelps \/ PlainWillDo)

OffersHaveHope == offer = "out" => joiner.state = "Connecting" /\ Hope

(* Cookies come on before the budget is gone.                              *)
TriggerFirst == gate.trigger <= gate.init

GateIInv ==
    /\ GateTypeOK
    /\ TriggerFirst
    /\ OffersHaveHope
    /\ NoOfferWasted

LEMMA GateNumbers ==
    /\ TRIGGER_BURST \in Nat /\ TRIGGER_RATE \in Nat /\ INIT_BURST \in Nat /\ INIT_RATE \in Nat
    /\ INIT_SLOT_BURST \in Nat /\ INIT_SLOT_RATE \in Nat /\ REJECT_BURST \in Nat /\ REJECT_RATE \in Nat
    /\ COOKIE_ANSWER_BURST \in Nat /\ ANSWER_BEATS \in Nat
    /\ COOKIE_ROTATION \in Nat /\ COOKIE_ROTATION > 0
    /\ REJECT_INTERVAL \in Nat /\ INIT_RESEND_MAX \in Nat /\ REJECT_RETRY \in Nat
    /\ REJECT_RETRY_MAX \in Nat /\ CONNECTION_TIMEOUT \in Nat
    /\ TRIGGER_BURST <= INIT_BURST /\ TRIGGER_RATE <= INIT_RATE
BY GateAssumption

(* The kinds of datagram are told apart.                                   *)
LEMMA Datagrams ==
    /\ \A k \in {"resp", "capacity", "version"} :
          /\ Answer(k) # Plain
          /\ \A c \in 0 .. Stale : Answer(k) # Cookied(c) /\ Answer(k) # Challenge(c)
    /\ \A c \in 0 .. Stale : Plain # Cookied(c) /\ Plain # Challenge(c)
    /\ \A c, d \in 0 .. Stale : Cookied(c) # Challenge(d)
    /\ \A c, d \in 0 .. Stale : c # d => Cookied(c) # Cookied(d) /\ Challenge(c) # Challenge(d)
BY DEF Answer, Plain, Cookied, Challenge, None, Stale

(* The gate's levels.                                                      *)
LEMMA SpentLevels ==
    ASSUME NEW g \in [trigger : Nat, init : Nat, slot : Nat, rejects : Nat]
    PROVE  /\ Spent(g) \in [trigger : Nat, init : Nat, slot : Nat, rejects : Nat]
           /\ Spent(g).init = g.init /\ Spent(g).slot = g.slot /\ Spent(g).rejects = g.rejects
           /\ Spent(g).trigger <= g.trigger
           /\ g.trigger > 0 => Spent(g).trigger = g.trigger - 1
           /\ g.trigger = 0 => Spent(g).trigger = 0
BY DEF Spent, Less

LEMMA ReadLevels ==
    ASSUME NEW g \in [trigger : Nat, init : Nat, slot : Nat, rejects : Nat], g.init > 0, g.slot > 0
    PROVE  /\ Read(g) \in [trigger : Nat, init : Nat, slot : Nat, rejects : Nat]
           /\ Read(g).init = g.init - 1 /\ Read(g).trigger = g.trigger
<1>1. PICK h : h = [g EXCEPT !.slot = g.slot - 1]
  OBVIOUS
<1>2. /\ h \in [trigger : Nat, init : Nat, slot : Nat, rejects : Nat]
      /\ h.init = g.init /\ h.trigger = g.trigger
  BY <1>1
<1>3. Read(g) = [h EXCEPT !.init = h.init - 1]
  BY <1>1 DEF Read
<1> QED BY <1>2, <1>3

(* A reject goes out, or its offer is spoilt.                              *)
LEMMA RejectKeeps ==
    ASSUME NEW msg, NEW k \in {"capacity", "version"},
           NEW g \in [trigger : Nat, init : Nat, slot : Nat, rejects : Nat],
           g.trigger <= g.init, Rejects(msg, k, g)
    PROVE  /\ gate' \in [trigger : Nat, init : Nat, slot : Nat, rejects : Nat]
           /\ gate'.trigger <= gate'.init
           /\ held' = held
           /\ offer' = "out" => offer = "out" /\ Answer(k) \in flying'
<1>1. CASE quiet >= REJECT_INTERVAL /\ g.rejects > 0
  <2>1. gate' = [g EXCEPT !.rejects = @ - 1] /\ held' = held /\ offer' = offer
        /\ flying' = (flying \ {msg}) \cup {Answer(k)}
    BY <1>1, Zenon DEF Rejects
  <2> QED BY <1>1, <2>1
<1>2. CASE ~(quiet >= REJECT_INTERVAL /\ g.rejects > 0)
  <2>1. gate' = g /\ held' = held /\ Noted("spoilt")
    BY <1>2, Zenon DEF Rejects
  <2> QED BY <2>1 DEF Noted
<1> QED BY <1>1, <1>2

(* What is admitted is answered, or its offer is spoilt: with cookies off  *)
(* the budget is there, and with cookies on its lack is the whole budget's.*)
LEMMA AdmitKeeps ==
    ASSUME GateTypeOK, TriggerFirst, NEW msg, Admits(msg, Spent(gate))
    PROVE  /\ gate' \in [trigger : Nat, init : Nat, slot : Nat, rejects : Nat]
           /\ gate'.trigger <= gate'.init
           /\ held' \in {"no", "this", "before"}
           /\ offer' = "out" => offer = "out" /\ AnswerComes'
<1> PICK g : g = Spent(gate)
  OBVIOUS
<1>1. /\ g \in [trigger : Nat, init : Nat, slot : Nat, rejects : Nat]
      /\ g.init = gate.init /\ g.slot = gate.slot
      /\ g.trigger <= gate.trigger
      /\ gate.trigger > 0 => g.trigger = gate.trigger - 1
      /\ gate.trigger = 0 => g.trigger = 0
      /\ gate \in [trigger : Nat, init : Nat, slot : Nat, rejects : Nat]
  BY SpentLevels DEF GateTypeOK
<1>2. gate.trigger <= gate.init /\ g.trigger <= g.init
  BY <1>1 DEF TriggerFirst
<1>3. ASSUME Affordable(g)
      PROVE  /\ Read(g) \in [trigger : Nat, init : Nat, slot : Nat, rejects : Nat]
             /\ Read(g).trigger <= Read(g).init
  <2>1. g.init > 0 /\ g.slot > 0
    BY <1>3 DEF Affordable
  <2>2. /\ Read(g) \in [trigger : Nat, init : Nat, slot : Nat, rejects : Nat]
        /\ Read(g).init = g.init - 1 /\ Read(g).trigger = g.trigger
    BY <1>1, <2>1, ReadLevels
  <2>3. g.trigger <= g.init - 1
    BY <1>1, <1>2, <2>1
  <2> QED BY <2>2, <2>3
<1>4. CASE /\ ~Affordable(g) /\ gate' = g
           /\ (IF g.slot = 0 \/ gate.trigger = 0 THEN Noted("spoilt") ELSE UNCHANGED offer)
           /\ UNCHANGED <<quiet, held>>
  <2>1. g.slot = 0 \/ g.init = 0
    BY <1>1, <1>4 DEF Affordable
  <2>2. g.slot = 0 \/ gate.trigger = 0
    BY <1>1, <1>2, <2>1
  <2>3. Noted("spoilt")
    BY <1>4, <2>2
  <2> QED BY <1>1, <1>2, <1>4, <2>3 DEF Noted, GateTypeOK
<1>5. CASE /\ Affordable(g) /\ gate' = Read(g) /\ Noted("spoilt") /\ UNCHANGED held
  BY <1>3, <1>5 DEF Noted, GateTypeOK
<1>6. CASE Affordable(g) /\ Rejects(msg, "capacity", Read(g))
  <2>1. /\ gate' \in [trigger : Nat, init : Nat, slot : Nat, rejects : Nat]
        /\ gate'.trigger <= gate'.init
        /\ held' = held
        /\ offer' = "out" => offer = "out" /\ Answer("capacity") \in flying'
    BY <1>3, <1>6, RejectKeeps
  <2> QED BY <2>1 DEF AnswerComes, GateTypeOK
<1>7. CASE /\ Affordable(g) /\ gate' = Read(g) /\ held' = "this"
           /\ flying' = (flying \ {msg}) \cup {Answer("resp")} /\ UNCHANGED offer
  BY <1>3, <1>7 DEF AnswerComes
<1> QED BY <1>4, <1>5, <1>6, <1>7, Zenon DEF Admits

(* An answer in flight is hope enough, and hope is in what flies on.       *)
LEMMA HopeFliesOn ==
    ASSUME GateTypeOK, Hope, UNCHANGED <<phase, server, joiner>>,
           NEW msg, flying \ {msg} \subseteq flying',
           \A k \in {"resp", "capacity", "version"} : msg # Answer(k),
           msg = Plain => server # "other" /\ (joiner.cookie = 0 \/ Challenge(0) \in flying'),
           \A c \in 0 .. 1 : msg = Cookied(c) => server = "other",
           \A c \in 0 .. 1 : msg = Challenge(c) => c = joiner.cookie
    PROVE  Hope'
<1> USE DEF GoodWhenItLands
<1>1. CASE AnswerComes
  <2>1. PICK k \in {"resp", "capacity", "version"} : Answer(k) \in flying
    BY <1>1 DEF AnswerComes
  <2>2. Answer(k) \in flying'
    BY <2>1
  <2> QED BY <2>2 DEF Hope, AnswerComes
<1>2. CASE VersionWillTell
  BY <1>2 DEF Hope, VersionWillTell
<1>3. CASE server # "other" /\ CookieWillDo
  <2>1. PICK c \in 0 .. 1 : GoodWhenItLands(c) /\ Cookied(c) \in flying
    BY <1>3 DEF CookieWillDo
  <2>2. Cookied(c) \in flying' /\ GoodWhenItLands(c)'
    BY <1>3, <2>1
  <2> QED BY <1>3, <2>2 DEF Hope, CookieWillDo
<1>4. CASE server # "other" /\ ChallengeHelps
  <2>1. PICK c \in 0 .. 1 : GoodWhenItLands(c) /\ c # joiner.cookie /\ Challenge(c) \in flying
    BY <1>4 DEF ChallengeHelps
  <2>2. Challenge(c) \in flying' /\ GoodWhenItLands(c)'
    BY <2>1
  <2> QED BY <1>4, <2>1, <2>2 DEF Hope, ChallengeHelps
<1>5. CASE server # "other" /\ PlainWillDo
  <2>1. CASE msg # Plain
    BY <1>5, <2>1 DEF Hope, PlainWillDo
  <2>2. CASE msg = Plain
    <3>1. joiner.cookie # 0 /\ Challenge(0) \in flying'
      BY <1>5, <2>2 DEF PlainWillDo
    <3>2. ChallengeHelps'
      BY <3>1 DEF ChallengeHelps
    <3> QED BY <1>5, <3>2 DEF Hope
  <2> QED BY <2>1, <2>2
<1> QED BY <1>1, <1>2, <1>3, <1>4, <1>5 DEF Hope

-----------------------------------------------------------------------------
(* The gate, step by step.                                                 *)
LEMMA GateInitKept == GateInit => GateIInv
<1> SUFFICES ASSUME GateInit PROVE GateIInv
  OBVIOUS
<1>1. GateTypeOK
  BY GateNumbers DEF GateInit, GateTypeOK, AllFull, Connecting, None, Joiners
<1>2. TriggerFirst
  BY GateNumbers DEF GateInit, AllFull, TriggerFirst
<1>3. OffersHaveHope /\ NoOfferWasted
  BY DEF GateInit, OffersHaveHope, NoOfferWasted, Hope, PlainWillDo, VersionWillTell, Connecting, None
<1> QED BY <1>1, <1>2, <1>3 DEF GateIInv

(* What the server does with an init, seen from the invariant.             *)
LEMMA GateTypeOnServer ==
    ASSUME GateIInv, UNCHANGED <<phase, server, joiner, wasted>>,
           gate' \in [trigger : Nat, init : Nat, slot : Nat, rejects : Nat],
           gate'.trigger <= gate'.init, held' \in {"no", "this", "before"},
           offer' = "out" => offer = "out" /\ (Hope => Hope')
    PROVE  GateIInv'
BY DEF GateIInv, GateTypeOK, TriggerFirst, OffersHaveHope, NoOfferWasted

LEMMA HandleInitKeeps == ASSUME GateIInv, HandleInit PROVE GateIInv'
<1>1. GateTypeOK /\ TriggerFirst
  BY DEF GateIInv
<1>2. UNCHANGED <<phase, server, joiner, wasted>>
  BY DEF HandleInit
<1>3. CASE server = "other" /\ Rejects(Plain, "version", gate)
  <2>1. /\ gate' \in [trigger : Nat, init : Nat, slot : Nat, rejects : Nat]
        /\ gate'.trigger <= gate'.init
        /\ held' = held
        /\ offer' = "out" => offer = "out" /\ Answer("version") \in flying'
    BY <1>1, <1>3, RejectKeeps DEF GateTypeOK, TriggerFirst
  <2>2. Answer("version") \in flying' => Hope'
    BY DEF Hope, AnswerComes
  <2> QED BY <1>1, <1>2, <2>1, <2>2, GateTypeOnServer DEF GateTypeOK
<1>4. CASE /\ server # "other" /\ gate.trigger = 0
           /\ \/ flying' = (flying \ {Plain}) \cup {Challenge(0)} /\ UNCHANGED offer
              \/ flying' = flying \ {Plain} /\ Noted("spoilt")
           /\ UNCHANGED <<gate, quiet, held>>
  <2>1. ASSUME offer' = "out" PROVE offer = "out" /\ (Hope => Hope')
    <3>1. flying' = (flying \ {Plain}) \cup {Challenge(0)} /\ UNCHANGED offer
      BY <1>4, <2>1 DEF Noted
    <3>2. Hope => Hope'
      BY <1>1, <1>2, <1>4, <3>1, HopeFliesOn, Datagrams DEF Stale
    <3> QED BY <2>1, <3>1, <3>2
  <2> QED BY <1>1, <1>2, <1>4, <2>1, GateTypeOnServer DEF GateTypeOK, TriggerFirst
<1>5. CASE server # "other" /\ gate.trigger > 0 /\ Admits(Plain, Spent(gate))
  <2>1. /\ gate' \in [trigger : Nat, init : Nat, slot : Nat, rejects : Nat]
        /\ gate'.trigger <= gate'.init
        /\ held' \in {"no", "this", "before"}
        /\ offer' = "out" => offer = "out" /\ AnswerComes'
    BY <1>1, <1>5, AdmitKeeps
  <2> QED BY <1>2, <2>1, GateTypeOnServer DEF Hope
<1> QED BY <1>3, <1>4, <1>5, Zenon DEF HandleInit

LEMMA HandleCookiedKeeps == ASSUME GateIInv, NEW c \in 0 .. Stale, HandleCookied(c) PROVE GateIInv'
<1>1. GateTypeOK /\ TriggerFirst
  BY DEF GateIInv
<1>2. UNCHANGED <<phase, server, joiner, wasted>>
  BY DEF HandleCookied
<1>3. CASE server # "other" /\ CookieValid(c)
  <2>1. Admits(Cookied(c), Spent(gate))
    BY <1>3 DEF HandleCookied
  <2>2. /\ gate' \in [trigger : Nat, init : Nat, slot : Nat, rejects : Nat]
        /\ gate'.trigger <= gate'.init
        /\ held' \in {"no", "this", "before"}
        /\ offer' = "out" => offer = "out" /\ AnswerComes'
    BY <1>1, <2>1, AdmitKeeps
  <2> QED BY <1>2, <2>2, GateTypeOnServer DEF Hope
<1>4. CASE ~(server # "other" /\ CookieValid(c))
  <2>1. gate' = Spent(gate) /\ flying' = flying \ {Cookied(c)} /\ UNCHANGED <<quiet, held, offer>>
    BY <1>4 DEF HandleCookied
  <2>2. /\ gate' \in [trigger : Nat, init : Nat, slot : Nat, rejects : Nat]
        /\ gate'.trigger <= gate'.init
    <3>1. gate \in [trigger : Nat, init : Nat, slot : Nat, rejects : Nat] /\ gate.trigger <= gate.init
      BY <1>1 DEF GateTypeOK, TriggerFirst
    <3>2. /\ Spent(gate) \in [trigger : Nat, init : Nat, slot : Nat, rejects : Nat]
          /\ Spent(gate).init = gate.init /\ Spent(gate).trigger <= gate.trigger
      BY <3>1, SpentLevels
    <3> QED BY <2>1, <3>1, <3>2
  <2>3. c \in 0 .. 1 => server = "other"
    BY <1>4 DEF CookieValid, Stale
  <2>4. \A d \in 0 .. 1 : Cookied(c) = Cookied(d) => server = "other"
    BY <2>3, Datagrams DEF Stale
  <2>5. Hope => Hope'
    BY <1>1, <1>2, <2>1, <2>4, HopeFliesOn, Datagrams DEF Stale
  <2> QED BY <1>1, <1>2, <2>1, <2>2, <2>5, GateTypeOnServer DEF GateTypeOK
<1> QED BY <1>3, <1>4

LEMMA CrowdKeeps == ASSUME GateIInv, Crowd PROVE GateIInv'
<1>1. gate \in [trigger : Nat, init : Nat, slot : Nat, rejects : Nat] /\ gate.trigger <= gate.init
  BY DEF GateIInv, GateTypeOK, TriggerFirst
<1> PICK g : g = Spent(gate)
  OBVIOUS
<1>2. /\ g \in [trigger : Nat, init : Nat, slot : Nat, rejects : Nat]
      /\ g.init = gate.init /\ g.slot = gate.slot
      /\ g.trigger <= gate.trigger
      /\ gate.trigger > 0 => g.trigger = gate.trigger - 1
      /\ gate.trigger = 0 => g.trigger = 0
  BY <1>1, SpentLevels
<1>3. /\ gate' \in [trigger : Nat, init : Nat, slot : Nat, rejects : Nat]
      /\ gate'.trigger <= gate'.init
  <2>1. CASE gate.init > 0 /\ gate' = [g EXCEPT !.init = @ - 1]
    <3>1. g.trigger <= g.init - 1
      BY <1>1, <1>2, <2>1
    <3> QED BY <1>2, <2>1, <3>1
  <2>2. CASE gate' = g
    BY <1>1, <1>2, <2>2
  <2>3. CASE Affordable(gate) /\ gate' = Read(g)
    <3>1. g.init > 0 /\ g.slot > 0 /\ g.trigger <= g.init - 1
      BY <1>1, <1>2, <2>3 DEF Affordable
    <3> QED BY <1>2, <2>3, <3>1, ReadLevels
  <2>4. CASE gate.rejects > 0 /\ gate' = [gate EXCEPT !.rejects = @ - 1]
    BY <1>1, <2>4
  <2> QED BY <2>1, <2>2, <2>3, <2>4 DEF Crowd
<1>4. UNCHANGED <<phase, server, held, joiner, flying, offer, wasted>>
  BY DEF Crowd
<1>5. Hope => Hope'
  BY <1>4 DEF Hope, AnswerComes, VersionWillTell, CookieWillDo, ChallengeHelps, PlainWillDo, GoodWhenItLands
<1> QED BY <1>3, <1>4, <1>5, GateTypeOnServer DEF GateIInv, GateTypeOK

LEMMA JoinerWaits ==
    ASSUME NEW j \in Joiners, NEW d \in Nat
    PROVE  /\ [j EXCEPT !.full = TRUE, !.since = 0, !.resend = d] \in Joiners
           /\ [j EXCEPT !.state = "Rejected", !.since = 0, !.resend = d] \in Joiners
<1>1. [j EXCEPT !.since = 0] \in Joiners
  BY DEF Joiners
<1>2. PICK k \in Joiners : k = [j EXCEPT !.since = 0]
  BY <1>1
<1>3. [k EXCEPT !.resend = d] \in Joiners
  BY DEF Joiners
<1>4. PICK l \in Joiners : l = [k EXCEPT !.resend = d]
  BY <1>3
<1>5. [l EXCEPT !.full = TRUE] \in Joiners /\ [l EXCEPT !.state = "Rejected"] \in Joiners
  BY DEF Joiners
<1>6. /\ [j EXCEPT !.full = TRUE, !.since = 0, !.resend = d] = [l EXCEPT !.full = TRUE]
      /\ [j EXCEPT !.state = "Rejected", !.since = 0, !.resend = d] = [l EXCEPT !.state = "Rejected"]
  BY <1>2, <1>4 DEF Joiners
<1> QED BY <1>5, <1>6

LEMMA AnswerKeeps == ASSUME GateIInv, TakeResp \/ TakeVersion \/ TakeCapacity PROVE GateIInv'
<1>1. UNCHANGED <<gate, phase, server, held, wasted>> /\ offer' = "answered"
  BY DEF TakeResp, TakeVersion, TakeCapacity
<1>2. GateTypeOK
  BY DEF GateIInv
<1>3. joiner' \in Joiners
  <2>1. CASE TakeResp
    BY <1>2, <2>1 DEF TakeResp, GateTypeOK, Joiners
  <2>2. CASE TakeVersion
    BY <1>2, <2>2, GateNumbers, JoinerWaits DEF TakeVersion, GateTypeOK, Joiners
  <2>3. CASE TakeCapacity
    BY <1>2, <2>3, GateNumbers, JoinerWaits DEF TakeCapacity, GateTypeOK
  <2> QED BY <2>1, <2>2, <2>3
<1> QED BY <1>1, <1>3 DEF GateIInv, GateTypeOK, TriggerFirst, OffersHaveHope, NoOfferWasted

LEMMA TakeChallengeKeeps == ASSUME GateIInv, NEW c \in 0 .. Stale, TakeChallenge(c) PROVE GateIInv'
<1>1. GateTypeOK /\ TriggerFirst /\ OffersHaveHope /\ ~wasted
  BY DEF GateIInv, NoOfferWasted
<1>2. UNCHANGED <<gate, quiet, phase, server, held, wasted>>
  BY DEF TakeChallenge
<1>3. joiner \in Joiners
  BY <1>1 DEF GateTypeOK
<1>4. CASE joiner.state # "Connecting" \/ joiner.cookie = c
  <2>1. flying' = flying \ {Challenge(c)} /\ UNCHANGED <<joiner, offer>>
    BY <1>4 DEF TakeChallenge
  <2>2. ASSUME offer = "out" PROVE joiner.state = "Connecting" /\ Hope'
    <3>1. joiner.state = "Connecting" /\ Hope /\ joiner.cookie = c
      BY <1>1, <1>4, <2>2 DEF OffersHaveHope
    <3>2. \A d \in 0 .. 1 : Challenge(c) = Challenge(d) => d = joiner.cookie
      BY <3>1, Datagrams DEF Stale
    <3>3. Hope'
      BY <1>1, <1>2, <2>1, <3>1, <3>2, HopeFliesOn, Datagrams DEF Stale
    <3> QED BY <3>1, <3>3
  <2> QED BY <1>1, <1>2, <2>1, <2>2 DEF GateIInv, GateTypeOK, TriggerFirst, OffersHaveHope, NoOfferWasted
<1>5. CASE ~(joiner.state # "Connecting" \/ joiner.cookie = c) /\ joiner.answers < ANSWER_BEATS
  <2>1. Noted("spoilt") /\ UNCHANGED joiner
    BY <1>5 DEF TakeChallenge
  <2> QED BY <1>1, <1>2, <2>1 DEF GateIInv, GateTypeOK, TriggerFirst, OffersHaveHope, NoOfferWasted, Noted
<1>6. CASE ~(joiner.state # "Connecting" \/ joiner.cookie = c) /\ ~(joiner.answers < ANSWER_BEATS)
  <2>1. /\ joiner' = [joiner EXCEPT !.cookie = c, !.answers = @ - ANSWER_BEATS]
        /\ flying' = (flying \ {Challenge(c)}) \cup Answers(c)
        /\ UNCHANGED offer
    BY <1>6 DEF TakeChallenge
  <2>2. c \in 0 .. None
    BY DEF Stale, None
  <2>3. joiner' \in Joiners /\ joiner'.cookie = c /\ joiner'.state = joiner.state
    <3>1. joiner.answers - ANSWER_BEATS \in Int
      BY <1>3, GateNumbers DEF Joiners
    <3>2. PICK n \in Int : n = joiner.answers - ANSWER_BEATS
      BY <3>1
    <3>3. joiner' = [joiner EXCEPT !.cookie = c, !.answers = n]
      BY <2>1, <3>2
    <3> QED BY <1>3, <2>2, <3>3 DEF Joiners
  <2>4. Plain \in flying' /\ Cookied(c) \in flying'
    BY <2>1 DEF Answers
  <2>5. Hope'
    <3>1. CASE server = "other"
      BY <1>2, <2>4, <3>1 DEF Hope, VersionWillTell
    <3>2. CASE server # "other" /\ c = 0
      BY <1>2, <2>4, <3>2 DEF Hope, CookieWillDo, GoodWhenItLands
    <3>3. CASE server # "other" /\ c # 0
      BY <1>2, <2>3, <2>4, <3>3 DEF Hope, PlainWillDo
    <3> QED BY <3>1, <3>2, <3>3
  <2> QED BY <1>1, <1>2, <2>1, <2>3, <2>5
          DEF GateIInv, GateTypeOK, TriggerFirst, OffersHaveHope, NoOfferWasted
<1> QED BY <1>4, <1>5, <1>6

LEMMA LoseKeeps == ASSUME GateIInv, NEW msg, Lose(msg) PROVE GateIInv'
BY DEF GateIInv, GateTypeOK, TriggerFirst, OffersHaveHope, NoOfferWasted, Lose, Noted

(* The client's bookkeeping at the end of a beat.                          *)
LEMMA PolledType ==
    ASSUME joiner \in Joiners
    PROVE  /\ Polled \in Joiners
           /\ Polled.cookie = joiner.cookie
           /\ ~GivesUp => Polled.state = joiner.state
<1>1. PICK a \in Int : a = AtMost(joiner.answers + 1, COOKIE_ANSWER_BURST * ANSWER_BEATS)
  BY GateNumbers DEF Joiners, AtMost
<1>2. PICK w \in Int : w = AtMost(joiner.waited + 1, CONNECTION_TIMEOUT)
  BY GateNumbers DEF Joiners, AtMost
<1>3. PICK s \in Int : s = IF Due THEN 0 ELSE AtMost(joiner.since + 1, REJECT_RETRY_MAX)
  BY GateNumbers DEF Joiners, AtMost
<1>4. PICK r \in Int : r = IF Due THEN AtMost(joiner.resend * 2, BackoffCap) ELSE joiner.resend
  BY GateNumbers DEF Joiners, AtMost, BackoffCap
<1>5. PICK st \in {"Connecting", "Rejected", "Joined", "TimedOut"} :
          st = IF GivesUp THEN "TimedOut" ELSE joiner.state
  BY DEF Joiners
<1>6. Polled = [joiner EXCEPT !.state = st, !.answers = a, !.waited = w, !.since = s, !.resend = r]
  BY <1>1, <1>2, <1>3, <1>4, <1>5, Zenon DEF Polled
<1>7. Polled = [state |-> st, full |-> joiner.full, cookie |-> joiner.cookie, answers |-> a,
                waited |-> w, since |-> s, resend |-> r]
  BY <1>6 DEF Joiners
<1> QED BY <1>5, <1>7 DEF Joiners

LEMMA BeatKeeps == ASSUME GateIInv, Beat PROVE GateIInv'
<1>1. GateTypeOK /\ TriggerFirst /\ OffersHaveHope /\ ~wasted
  BY DEF GateIInv, NoOfferWasted
<1>2. /\ flying = {} /\ phase < COOKIE_ROTATION /\ gate' = Refilled
      /\ phase' = phase + 1 /\ joiner' = Polled
      /\ flying' = IF Due THEN Offered ELSE {}
      /\ offer' = IF Due /\ joiner.state = "Connecting" THEN "out" ELSE "none"
      /\ wasted' = (wasted \/ offer = "out")
      /\ UNCHANGED <<server, held>>
  BY DEF Beat
<1>3. ~wasted'
  <2>1. ~Hope
    BY <1>2 DEF Hope, AnswerComes, VersionWillTell, CookieWillDo, ChallengeHelps, PlainWillDo
  <2> QED BY <1>1, <1>2, <2>1 DEF OffersHaveHope
<1>4. gate' \in [trigger : Nat, init : Nat, slot : Nat, rejects : Nat] /\ gate'.trigger <= gate'.init
  <2>1. gate \in [trigger : Nat, init : Nat, slot : Nat, rejects : Nat] /\ gate.trigger <= gate.init
    BY <1>1 DEF GateTypeOK, TriggerFirst
  <2> QED BY <1>2, <2>1, GateNumbers DEF Refilled, AtMost
<1>5. joiner \in Joiners
  BY <1>1 DEF GateTypeOK
<1>6. /\ joiner' \in Joiners /\ joiner'.cookie = joiner.cookie
      /\ ~GivesUp => joiner'.state = joiner.state
  BY <1>2, <1>5, PolledType
<1>7. GateTypeOK'
  BY <1>1, <1>2, <1>4, <1>6, GateNumbers DEF GateTypeOK
<1>8. ASSUME offer' = "out" PROVE joiner'.state = "Connecting" /\ Hope'
  <2>1. Due /\ joiner.state = "Connecting" /\ joiner'.state = "Connecting"
    BY <1>2, <1>6, <1>8 DEF Due
  <2>2. Plain \in flying'
    BY <1>2, <2>1 DEF Offered
  <2>3. CASE joiner.cookie = 0
    <3>1. Cookied(0) \in flying'
      BY <1>2, <2>1, <2>3 DEF Offered, None
    <3>2. CookieWillDo'
      BY <3>1 DEF CookieWillDo, GoodWhenItLands
    <3> QED BY <1>2, <2>1, <2>2, <3>2 DEF Hope, VersionWillTell
  <2>4. CASE joiner.cookie # 0
    BY <1>2, <1>6, <2>1, <2>2, <2>4 DEF Hope, VersionWillTell, PlainWillDo
  <2> QED BY <2>1, <2>3, <2>4
<1> QED BY <1>3, <1>4, <1>7, <1>8 DEF GateIInv, TriggerFirst, OffersHaveHope, NoOfferWasted

(* A rotation leaves a datagram of this rotation good until the next.      *)
LEMMA RotateKeeps == ASSUME GateIInv, Rotate PROVE GateIInv'
<1>1. GateTypeOK /\ TriggerFirst /\ OffersHaveHope /\ ~wasted
  BY DEF GateIInv, NoOfferWasted
<1>2. /\ phase = COOKIE_ROTATION /\ phase' = 0
      /\ joiner' = [joiner EXCEPT !.cookie = Rotated(@)]
      /\ flying' = {[m EXCEPT !.cookie = Rotated(@)] : m \in flying}
      /\ UNCHANGED <<gate, quiet, server, held, offer, wasted>>
  BY DEF Rotate
<1>3. joiner \in Joiners /\ Rotated(joiner.cookie) \in 0 .. None /\ Rotated(joiner.cookie) # 0
      /\ (joiner.cookie # 0 => Rotated(joiner.cookie) # 1)
  BY <1>1 DEF GateTypeOK, Joiners, Rotated, None, Stale
<1>4. PICK d \in 0 .. None : d = Rotated(joiner.cookie)
  BY <1>3
<1>5. joiner' \in Joiners /\ joiner'.cookie = d /\ joiner'.state = joiner.state
  BY <1>2, <1>3, <1>4 DEF Joiners
<1>6. \A k \in {"resp", "capacity", "version"} : Answer(k) \in flying => Answer(k) \in flying'
  <2> SUFFICES ASSUME NEW k \in {"resp", "capacity", "version"}, Answer(k) \in flying PROVE Answer(k) \in flying'
    OBVIOUS
  <2>1. Answer(k) = [Answer(k) EXCEPT !.cookie = Rotated(@)]
    BY DEF Answer, Rotated, None
  <2> QED BY <1>2, <2>1
<1>7. Plain \in flying => Plain \in flying'
  <2>1. Plain = [Plain EXCEPT !.cookie = Rotated(@)]
    BY DEF Plain, Rotated, None
  <2> QED BY <1>2, <2>1
<1>8. Cookied(0) \in flying => Cookied(1) \in flying'
  <2>1. Cookied(1) = [Cookied(0) EXCEPT !.cookie = Rotated(@)]
    BY DEF Cookied, Rotated
  <2> QED BY <1>2, <2>1
<1>9. Challenge(0) \in flying => Challenge(1) \in flying'
  <2>1. Challenge(1) = [Challenge(0) EXCEPT !.cookie = Rotated(@)]
    BY DEF Challenge, Rotated
  <2> QED BY <1>2, <2>1
<1>10. GoodWhenItLands(1)' /\ \A c \in 0 .. 1 : GoodWhenItLands(c) => c = 0
  BY <1>2, GateNumbers DEF GoodWhenItLands
<1>11. ASSUME Hope PROVE Hope'
  <2>1. CASE AnswerComes
    BY <1>6, <2>1 DEF Hope, AnswerComes
  <2>2. CASE VersionWillTell
    BY <1>2, <1>7, <2>2 DEF Hope, VersionWillTell
  <2>3. CASE server # "other" /\ CookieWillDo
    <3>1. CookieWillDo'
      BY <1>8, <1>10, <2>3 DEF CookieWillDo
    <3> QED BY <1>2, <2>3, <3>1 DEF Hope
  <2>4. CASE server # "other" /\ ChallengeHelps
    <3>1. Challenge(0) \in flying /\ joiner.cookie # 0
      BY <1>10, <2>4 DEF ChallengeHelps
    <3>2. Challenge(1) \in flying' /\ joiner'.cookie # 1
      BY <1>3, <1>4, <1>5, <1>9, <3>1
    <3>3. ChallengeHelps'
      BY <1>10, <3>2 DEF ChallengeHelps
    <3> QED BY <1>2, <2>4, <3>3 DEF Hope
  <2>5. CASE server # "other" /\ PlainWillDo
    <3>1. PlainWillDo'
      BY <1>3, <1>4, <1>5, <1>7, <2>5 DEF PlainWillDo
    <3> QED BY <1>2, <2>5, <3>1 DEF Hope
  <2> QED BY <1>11, <2>1, <2>2, <2>3, <2>4, <2>5 DEF Hope
<1> QED BY <1>1, <1>2, <1>5, <1>11, GateNumbers
        DEF GateIInv, GateTypeOK, TriggerFirst, OffersHaveHope, NoOfferWasted

LEMMA ReconnectKeeps == ASSUME GateIInv, reconnect PROVE GateIInv'
<1>1. GateTypeOK /\ TriggerFirst /\ ~wasted
  BY DEF GateIInv, NoOfferWasted
<1>2. /\ joiner' = Connecting(joiner.answers)
      /\ held' = IF held = "no" THEN "no" ELSE "before"
      /\ flying' = {Plain} /\ offer' = "out"
      /\ UNCHANGED <<gate, quiet, phase, server, wasted>>
  BY DEF reconnect
<1>3. joiner' \in Joiners /\ joiner'.cookie # 0 /\ joiner'.state = "Connecting"
  BY <1>1, <1>2 DEF GateTypeOK, Joiners, Connecting, None
<1>4. Hope'
  BY <1>2, <1>3 DEF Hope, VersionWillTell, PlainWillDo
<1> QED BY <1>1, <1>2, <1>3, <1>4 DEF GateIInv, GateTypeOK, TriggerFirst, OffersHaveHope, NoOfferWasted

LEMMA SurroundingsKeep ==
    ASSUME GateIInv, RoleFills \/ Lapse \/ UNCHANGED gateVars PROVE GateIInv'
<1>1. GateTypeOK /\ TriggerFirst /\ OffersHaveHope /\ ~wasted
  BY DEF GateIInv, NoOfferWasted
<1>2. /\ UNCHANGED <<gate, quiet, phase, joiner, flying, offer, wasted>>
      /\ server' \in {"open", "full", "other"} /\ held' \in {"no", "this", "before"}
      /\ server' = "other" <=> server = "other"
  BY <1>1 DEF RoleFills, Lapse, gateVars, GateTypeOK
<1>3. Hope => Hope'
  BY <1>2 DEF Hope, AnswerComes, VersionWillTell, CookieWillDo, ChallengeHelps, PlainWillDo, GoodWhenItLands
<1> QED BY <1>1, <1>2, <1>3 DEF GateIInv, GateTypeOK, TriggerFirst, OffersHaveHope, NoOfferWasted

LEMMA RedeployKeeps == ASSUME GateIInv, NEW v \in {"open", "other"}, Redeploy(v) PROVE GateIInv'
BY GateNumbers
   DEF GateIInv, GateTypeOK, TriggerFirst, OffersHaveHope, NoOfferWasted, Redeploy, Noted, AllFull

LEMMA GateStep == ASSUME GateIInv, [GateNext]_gateVars PROVE GateIInv'
<1>1. CASE HandleInit
  BY <1>1, HandleInitKeeps
<1>2. CASE \E c \in 0 .. Stale : HandleCookied(c) \/ TakeChallenge(c)
  BY <1>2, HandleCookiedKeeps, TakeChallengeKeeps
<1>3. CASE Crowd
  BY <1>3, CrowdKeeps
<1>4. CASE TakeResp \/ TakeVersion \/ TakeCapacity
  BY <1>4, AnswerKeeps
<1>5. CASE \E msg \in flying : Lose(msg)
  BY <1>5, LoseKeeps
<1>6. CASE Beat
  BY <1>6, BeatKeeps
<1>7. CASE Rotate
  BY <1>7, RotateKeeps
<1>8. CASE reconnect
  BY <1>8, ReconnectKeeps
<1>9. CASE RoleFills \/ Lapse \/ UNCHANGED gateVars
  BY <1>9, SurroundingsKeep
<1>10. CASE \E v \in {"open", "other"} : Redeploy(v)
  BY <1>10, RedeployKeeps
<1> QED BY <1>1, <1>2, <1>3, <1>4, <1>5, <1>6, <1>7, <1>8, <1>9, <1>10, Zenon DEF GateNext

(* No offer of a connecting client comes to nothing for no reason: while   *)
(* one is out something in flight will do for it, whatever the crowd has   *)
(* left of the budgets, however a rotation falls in the middle of a round  *)
(* trip and whatever the room does meanwhile, for every size of the        *)
(* budgets with the cookie trigger below the init budget.                  *)
THEOREM OffersCount == GateSpec => []NoOfferWasted
<1>1. GateInit => GateIInv
  BY GateInitKept
<1>2. GateIInv /\ [GateNext]_gateVars => GateIInv'
  BY GateStep
<1>3. GateIInv => NoOfferWasted
  BY DEF GateIInv
<1> QED BY <1>1, <1>2, <1>3, PTL DEF GateSpec
=============================================================================
