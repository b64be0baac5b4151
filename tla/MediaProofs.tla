---------------------------- MODULE MediaProofs ----------------------------
(***************************************************************************)
(* Proofs about the path of the sound, for every depth, count and window   *)
(* the code could be built with: the playout cushion moves a frame at a    *)
(* time, the jitter buffer plays no frame twice and is heard again once    *)
(* its stream flows, and a device that keeps stopping is reported.         *)
(***************************************************************************)
EXTENDS JitterBuffer, Cushion, AudioStream, DataLemmas, FiniteSetTheorems, TLAPS

-----------------------------------------------------------------------------
(* The cushion                                                             *)

Cushions == [target : Floor .. Ceiling, wanted : Floor .. Ceiling, auto : BOOLEAN,
             catching_up : BOOLEAN, quiet : NotQuiet .. CUSHION_QUIET, out_of_room : BOOLEAN]

CushionTypeOK ==
    /\ cushion \in Cushions
    /\ dip \in 0 .. MaxDip
    /\ steady \in BOOLEAN /\ gave \in BOOLEAN

(* The depth is only ever walked up to what is wanted, since a frame given *)
(* back is given in one tick.  After one was given back for this dip, the  *)
(* depth is all that is wanted and the dip leaves it above the line, and   *)
(* the window now filling shows that, or it will not be read.              *)
CushionIInv ==
    /\ CushionTypeOK
    /\ cushion.wanted >= cushion.target
    /\ gave => /\ cushion.wanted = cushion.target
               /\ cushion.target - dip >= Line
               /\ steady \/ cushion.catching_up

(* The other fields of a cushion that was advanced, and how far it went.   *)
LEMMA AdvancedFields ==
  ASSUME NEW c \in Cushions
  PROVE  LET a == Advanced(c) IN
         /\ a \in Cushions
         /\ a.wanted = c.wanted /\ a.auto = c.auto
         /\ a.target <= c.target + CUSHION_STEP
         /\ a.target >= c.target - CUSHION_STEP
         /\ c.wanted >= c.target => a.target >= c.target /\ c.wanted >= a.target
         /\ c.wanted < c.target /\ c.target - c.wanted <= CUSHION_STEP => a.target = c.wanted
         /\ c.wanted = c.target => a = c
         /\ c.wanted # c.target => a.catching_up = TRUE
<1> USE CushionAssumption
<1>1. PICK t \in Floor .. Ceiling, w \in Floor .. Ceiling : t = c.target /\ w = c.wanted
  BY DEF Cushions
<1>2. CASE t = w
  <2>1. Advanced(c) = c
    BY <1>1, <1>2 DEF Advanced
  <2>2. c.target \in Int /\ c.wanted = c.target
    BY <1>1, <1>2
  <2> QED BY <2>1, <2>2
<1>3. ASSUME NEW m \in Floor .. Ceiling
      PROVE  LET a == [c EXCEPT !.target = m, !.catching_up = TRUE] IN
             /\ a \in Cushions
             /\ a.target = m /\ a.wanted = c.wanted /\ a.auto = c.auto /\ a.catching_up = TRUE
  BY DEF Cushions
<1>4. CASE t < w
  <2>1. Min({t + CUSHION_STEP, w}) = IF t + CUSHION_STEP <= w THEN t + CUSHION_STEP ELSE w
    BY MinOfTwo
  <2>2. PICK m \in Floor .. Ceiling : m = Min({t + CUSHION_STEP, w})
    BY <2>1, <1>4
  <2>3. PICK a : a = [c EXCEPT !.target = m, !.catching_up = TRUE]
    OBVIOUS
  <2>4. Advanced(c) = a
    BY <1>1, <1>4, <2>2, <2>3 DEF Advanced, SkipsWindow, Cushions
  <2>5. m <= t + CUSHION_STEP /\ m >= t /\ w >= m /\ m >= t - CUSHION_STEP
    BY <2>1, <2>2, <1>4
  <2>6. a \in Cushions /\ a.target = m /\ a.wanted = c.wanted /\ a.auto = c.auto /\ a.catching_up = TRUE
    BY <2>3, <1>3
  <2> QED BY <1>1, <1>4, <2>4, <2>5, <2>6
<1>5. CASE t > w
  <2>1. Max({t - CUSHION_STEP, w}) = IF t - CUSHION_STEP >= w THEN t - CUSHION_STEP ELSE w
    BY MaxOfTwo
  <2>2. PICK m \in Floor .. Ceiling : m = Max({t - CUSHION_STEP, w})
    BY <2>1, <1>5
  <2>3. PICK a : a = [c EXCEPT !.target = m, !.catching_up = TRUE]
    OBVIOUS
  <2>4. Advanced(c) = a
    <3>1. c.target # c.wanted /\ ~(c.target < c.wanted)
      BY <1>1, <1>5
    <3>2. Advanced(c) = [c EXCEPT !.target = Max({c.target - CUSHION_STEP, c.wanted}), !.catching_up = TRUE]
      BY <3>1 DEF Advanced, SkipsWindow, Cushions
    <3> QED BY <1>1, <2>2, <2>3, <3>2
  <2>5. m <= t + CUSHION_STEP /\ m >= t - CUSHION_STEP /\ (t - w <= CUSHION_STEP => m = w)
    BY <2>1, <2>2, <1>5
  <2>6. a \in Cushions /\ a.target = m /\ a.wanted = c.wanted /\ a.auto = c.auto /\ a.catching_up = TRUE
    BY <2>3, <1>3
  <2> QED BY <1>1, <1>5, <2>4, <2>5, <2>6
<1>6. t = w \/ t < w \/ t > w
  OBVIOUS
<1> QED BY <1>2, <1>4, <1>5, <1>6, Zenon

LEMMA TimePassedFields ==
  ASSUME NEW c \in Cushions
  PROVE  /\ TimePassed(c) \in Cushions
         /\ TimePassed(c).target = c.target /\ TimePassed(c).wanted = c.wanted
         /\ TimePassed(c).auto = c.auto /\ TimePassed(c).catching_up = c.catching_up
<1> USE CushionAssumption
<1>1. PICK q \in NotQuiet .. CUSHION_QUIET : q = c.quiet
  BY DEF Cushions
<1>2. CASE q = NotQuiet
  BY <1>1, <1>2 DEF TimePassed
<1>3. CASE q # NotQuiet
  <2>1. Min({q + 1, CUSHION_QUIET}) = IF q + 1 <= CUSHION_QUIET THEN q + 1 ELSE CUSHION_QUIET
    BY MinOfTwo DEF NotQuiet
  <2>2. PICK m \in NotQuiet .. CUSHION_QUIET : m = Min({q + 1, CUSHION_QUIET})
    BY <2>1, <1>3 DEF NotQuiet
  <2>3. TimePassed(c) = [c EXCEPT !.quiet = m]
    BY <1>1, <1>3, <2>2 DEF TimePassed
  <2> QED BY <2>3 DEF Cushions
<1> QED BY <1>2, <1>3

(* A cushion grows by a frame at most, and is not walked past its want.    *)
LEMMA GrownFields ==
  ASSUME NEW c \in Cushions, NEW low \in Int, c.wanted = c.target
  PROVE  /\ Grown(c, low) \in Cushions /\ Grown(c, low).auto = c.auto
         /\ Grown(c, low).target >= c.target /\ Grown(c, low).target <= c.target + CUSHION_STEP
         /\ Grown(c, low).wanted >= Grown(c, low).target
<1> USE CushionAssumption
<1>1. CASE ~c.auto \/ c.target >= Ceiling
  <2>1. Grown(c, low) = [c EXCEPT !.out_of_room = TRUE]
    BY <1>1 DEF Grown
  <2>2. [c EXCEPT !.out_of_room = TRUE] \in Cushions
    BY DEF Cushions
  <2>3. Grown(c, low).target = c.target /\ Grown(c, low).wanted = c.wanted /\ Grown(c, low).auto = c.auto
    BY <2>1 DEF Cushions
  <2>4. c.target \in Int
    BY DEF Cushions
  <2> QED BY <2>1, <2>2, <2>3, <2>4
<1>2. CASE ~(~c.auto \/ c.target >= Ceiling)
  <2>1. PICK t \in Floor .. Ceiling : t = c.target
    BY DEF Cushions
  <2>2. PICK steps \in Int : steps >= 1 /\ steps = FramesShort(c, low)
    <3>1. PICK x \in Int : x = Max({c.target - low, 0})
      BY <2>1, MaxOfTwo
    <3>2. Line \in Int
      BY DEF Line
    <3>3. ((Line + x) - t + CUSHION_STEP - 1) \div CUSHION_STEP \in Int
      BY <3>2
    <3> DEFINE k == ((Line + Max({c.target - low, 0})) - c.target + CUSHION_STEP - 1) \div CUSHION_STEP
    <3>6. k \in Int
      BY <2>1, <3>1, <3>3
    <3> HIDE DEF k
    <3>4. Max({1, k}) = IF 1 >= k THEN 1 ELSE k
      BY <3>6, MaxOfTwo
    <3>5. FramesShort(c, low) = Max({1, k})
      BY Zenon DEF FramesShort, k
    <3> QED BY <3>4, <3>5, <3>6
  <2>3. steps * CUSHION_STEP \in Int /\ steps * CUSHION_STEP >= CUSHION_STEP
    <3>1. steps - 1 \in Nat /\ CUSHION_STEP \in Nat
      BY <2>2
    <3>2. (steps - 1) * CUSHION_STEP \in Nat
      BY <3>1
    <3>3. (steps - 1) * CUSHION_STEP = steps * CUSHION_STEP - CUSHION_STEP
      BY <3>1
    <3> QED BY <3>1, <3>2, <3>3
  <2>4. PICK r \in Int : r = steps * CUSHION_STEP /\ r >= CUSHION_STEP
    BY <2>3
  <2>5. Min({t + r, Ceiling}) = IF t + r <= Ceiling THEN t + r ELSE Ceiling
    BY MinOfTwo
  <2>6. PICK w \in Floor .. Ceiling : w = Min({t + r, Ceiling}) /\ w >= t
    BY <2>1, <2>4, <2>5
  <2>7. PICK d : d = [c EXCEPT !.wanted = w]
    OBVIOUS
  <2>8. Grown(c, low) = Advanced(d)
    <3>1. Grown(c, low) = Advanced([c EXCEPT !.wanted = Min({c.target + FramesShort(c, low) * CUSHION_STEP, Ceiling})])
      BY <1>2 DEF Grown
    <3> QED BY <3>1, <2>1, <2>2, <2>4, <2>6, <2>7
  <2>9. d \in Cushions /\ d.target = t /\ d.wanted = w /\ d.auto = c.auto
    BY <2>1, <2>7 DEF Cushions
  <2>10. Advanced(d) \in Cushions /\ Advanced(d).auto = d.auto /\ Advanced(d).target <= t + CUSHION_STEP
         /\ Advanced(d).target >= t /\ Advanced(d).wanted >= Advanced(d).target
    BY <2>6, <2>9, AdvancedFields
  <2> QED BY <2>1, <2>8, <2>9, <2>10
<1> QED BY <1>1, <1>2

(* A frame given back is at most a frame, is taken in one tick, and leaves *)
(* the depth above the line by as much as the reading was.                 *)
LEMMA GivenBackFields ==
  ASSUME NEW c \in Cushions, NEW low \in Int, low >= Line, c.wanted = c.target
  PROVE  LET g == GivenBack(c, low) IN
         /\ g \in Cushions /\ g.auto = c.auto
         /\ g.target <= c.target /\ g.target >= c.target - CUSHION_STEP
         /\ g.wanted = g.target
         /\ g.target # c.target => g.catching_up = TRUE /\ low - (c.target - g.target) >= Line
<1> USE CushionAssumption
<1>1. PICK t \in Floor .. Ceiling, q \in NotQuiet .. CUSHION_QUIET : t = c.target /\ q = c.quiet
  BY DEF Cushions
<1>2. Max({q, 0}) = IF q >= 0 THEN q ELSE 0
  BY MaxOfTwo DEF NotQuiet
<1>3. PICK m \in 0 .. CUSHION_QUIET : m = Max({q, 0})
  BY <1>2 DEF NotQuiet
<1>4. CASE c.target <= Floor \/ ~SparesStep(c, low)
  <2>1. GivenBack(c, low) = [c EXCEPT !.quiet = NotQuiet]
    BY <1>4 DEF GivenBack
  <2> QED BY <2>1, <1>1 DEF Cushions, NotQuiet
<1>5. CASE ~(c.target <= Floor \/ ~SparesStep(c, low)) /\ m < CUSHION_QUIET
  <2>1. GivenBack(c, low) = [c EXCEPT !.quiet = m]
    BY <1>1, <1>3, <1>5 DEF GivenBack
  <2> QED BY <2>1, <1>1 DEF Cushions, NotQuiet
<1>6. CASE ~(c.target <= Floor \/ ~SparesStep(c, low)) /\ ~(m < CUSHION_QUIET)
  <2>1. Min({CUSHION_STEP, t - Floor}) = IF CUSHION_STEP <= t - Floor THEN CUSHION_STEP ELSE t - Floor
    BY MinOfTwo
  <2>2. PICK k \in Int : k = Min({CUSHION_STEP, t - Floor}) /\ k >= 1 /\ k <= CUSHION_STEP /\ k <= t - Floor
    BY <2>1, <1>1, <1>6
  <2>3. low >= Line + k
    BY <1>1, <1>6, <2>2 DEF SparesStep
  <2>4. PICK d : d = [c EXCEPT !.wanted = t - k, !.quiet = 0]
    OBVIOUS
  <2>5. GivenBack(c, low) = Advanced(d)
    BY <1>1, <1>3, <1>6, <2>2, <2>4 DEF GivenBack
  <2>6. t - k \in Floor .. Ceiling
    BY <2>2
  <2>7. d \in Cushions /\ d.target = t /\ d.wanted = t - k /\ d.auto = c.auto
    <3>1. 0 \in NotQuiet .. CUSHION_QUIET
      BY DEF NotQuiet
    <3> QED BY <1>1, <2>4, <2>6, <3>1 DEF Cushions
  <2>8. Advanced(d) \in Cushions /\ Advanced(d).auto = d.auto /\ Advanced(d).target = t - k
        /\ Advanced(d).wanted = t - k /\ Advanced(d).catching_up = TRUE
    <3>1. d.wanted < d.target /\ d.target - d.wanted <= CUSHION_STEP /\ d.wanted # d.target
      BY <2>2, <2>7
    <3> QED BY <2>7, <3>1, AdvancedFields
  <2>9. Line \in Int
    BY DEF Line
  <2> QED BY <1>1, <2>2, <2>3, <2>5, <2>7, <2>8, <2>9
<1> QED BY <1>4, <1>5, <1>6

(* What observing a window's reading does to a cushion that the tick did   *)
(* not have to advance; one it had to advance only lets the reading pass.  *)
MovedByReading(c, low, r) ==
    /\ r \in Cushions /\ r.auto = c.auto
    /\ r.target <= c.target + CUSHION_STEP /\ r.target >= c.target - CUSHION_STEP
    /\ r.wanted >= r.target
    /\ r.target < c.target => r.wanted = r.target /\ r.catching_up = TRUE /\ low # NoReading
                                    /\ low - (c.target - r.target) >= Line
    /\ low >= Line \/ low = NoReading \/ c.catching_up = TRUE => r.target <= c.target
                                    /\ (c.wanted = c.target => r.wanted = r.target)
    /\ c.catching_up = TRUE => r.target = c.target

LEMMA ReadFields ==
  ASSUME NEW c \in Cushions, NEW low \in Int, NEW held \in BOOLEAN,
         c.wanted >= c.target, c.wanted = c.target \/ c.catching_up = TRUE, low = NoReading \/ low >= 0,
         NEW r, r = Read(c, low, held)
  PROVE  MovedByReading(c, low, r)
<1> USE CushionAssumption DEF MovedByReading
<1>0. Line \in Int /\ Line >= 1 /\ NoReading = -1 /\ c.target \in Int /\ c.wanted \in Int /\ NotQuiet \in NotQuiet .. CUSHION_QUIET
  BY DEF Line, NoReading, NotQuiet, Cushions
<1>1. CASE low = NoReading
  <2>1. PICK v : v = [c EXCEPT !.quiet = NotQuiet]
    OBVIOUS
  <2>2. r = v
    BY <1>1, <1>0, <2>1 DEF Read
  <2>3. v \in Cushions /\ v.target = c.target /\ v.wanted = c.wanted /\ v.auto = c.auto
    BY <1>0, <2>1 DEF Cushions
  <2> QED BY <1>0, <1>1, <2>2, <2>3
<1>2. CASE low # NoReading /\ c.catching_up = TRUE
  <2>1. PICK v : v = [c EXCEPT !.catching_up = FALSE, !.quiet = NotQuiet]
    OBVIOUS
  <2>2. r = v
    BY <1>2, <1>0, <2>1 DEF Read
  <2>3. v \in Cushions /\ v.target = c.target /\ v.wanted = c.wanted /\ v.auto = c.auto
    BY <1>0, <2>1 DEF Cushions
  <2> QED BY <1>0, <1>2, <2>2, <2>3
<1>3. CASE low # NoReading /\ c.catching_up = FALSE /\ low < Line
  <2>1. PICK d : d = [c EXCEPT !.quiet = NotQuiet]
    OBVIOUS
  <2>2. Read(c, low, held) = Grown(d, low)
    BY <1>3, <1>0, <2>1 DEF Read
  <2>3. d \in Cushions /\ d.target = c.target /\ d.wanted = c.wanted /\ d.auto = c.auto
    BY <1>0, <2>1 DEF Cushions
  <2>4. d.wanted = d.target
    BY <1>3, <2>3
  <2>5. PICK v : v = Grown(d, low)
    OBVIOUS
  <2>6. v \in Cushions /\ v.auto = d.auto /\ v.target >= d.target
        /\ v.target <= d.target + CUSHION_STEP /\ v.wanted >= v.target
    BY <2>3, <2>4, <2>5, GrownFields
  <2>7. v.target \in Int /\ v.wanted \in Int
    BY <2>6 DEF Cushions
  <2>8. /\ v.auto = c.auto /\ v.target >= c.target /\ v.target <= c.target + CUSHION_STEP
        /\ ~(v.target < c.target) /\ v.target >= c.target - CUSHION_STEP
        /\ ~(low >= Line \/ low = NoReading \/ c.catching_up = TRUE)
    <3>1. v.auto = c.auto /\ v.target >= c.target /\ v.target <= c.target + CUSHION_STEP
      BY <2>3, <2>6
    <3>2. ~(v.target < c.target) /\ v.target >= c.target - CUSHION_STEP
      BY <3>1, <1>0, <2>7
    <3>3. ~(low >= Line)
      BY <1>0, <1>3
    <3> QED BY <1>3, <3>1, <3>2, <3>3
  <2>9. r = v
    BY <2>2, <2>5
  <2> QED BY <1>3, <2>6, <2>8, <2>9, Zenon
<1>4. CASE low # NoReading /\ c.catching_up = FALSE /\ low >= Line /\ held
  <2>1. PICK v : v = [c EXCEPT !.out_of_room = FALSE, !.quiet = NotQuiet]
    OBVIOUS
  <2>2. r = v
    BY <1>4, <1>0, <2>1 DEF Read
  <2>3. v \in Cushions /\ v.target = c.target /\ v.wanted = c.wanted /\ v.auto = c.auto
    BY <1>0, <2>1 DEF Cushions
  <2>4. /\ ~(v.target < c.target) /\ v.target <= c.target /\ v.target >= c.target - CUSHION_STEP
        /\ v.target <= c.target + CUSHION_STEP /\ v.wanted >= v.target
    BY <1>0, <2>3
  <2>5. c.wanted = c.target => v.wanted = v.target
    BY <2>3
  <2> QED BY <2>2, <2>3, <2>4, <2>5, Zenon
<1>5. CASE low # NoReading /\ c.catching_up = FALSE /\ low >= Line /\ ~held
  <2>1. PICK d : d = [c EXCEPT !.out_of_room = FALSE]
    OBVIOUS
  <2>2. Read(c, low, held) = GivenBack(d, low)
    BY <1>5, <1>0, <2>1 DEF Read
  <2>3. d \in Cushions /\ d.target = c.target /\ d.wanted = c.wanted /\ d.auto = c.auto
    BY <1>0, <2>1 DEF Cushions
  <2>4. d.wanted = d.target
    BY <1>5, <2>3
  <2>5. PICK v : v = GivenBack(d, low)
    OBVIOUS
  <2>6. /\ v \in Cushions /\ v.auto = d.auto
        /\ v.target <= d.target /\ v.target >= d.target - CUSHION_STEP
        /\ v.wanted = v.target
        /\ v.target # d.target => v.catching_up = TRUE /\ low - (d.target - v.target) >= Line
    BY <1>5, <2>3, <2>4, <2>5, GivenBackFields
  <2>7. v.target \in Int
    BY <2>6 DEF Cushions
  <2> QED BY <1>0, <1>5, <2>2, <2>3, <2>4, <2>5, <2>6, <2>7
<1>6. c.catching_up = TRUE \/ c.catching_up = FALSE
  BY DEF Cushions
<1>7. low < Line \/ low >= Line
  BY <1>0
<1> HIDE CushionAssumption DEF MovedByReading
<1> QED BY <1>1, <1>2, <1>3, <1>4, <1>5, <1>6, <1>7, Zenon

(* What a step does to the depth.                                          *)
GentleMove ==
    /\ cushion'.target <= cushion.target + CUSHION_STEP
    /\ cushion'.target >= cushion.target - CUSHION_STEP \/ cushion'.auto # cushion.auto
    /\ gave /\ gave' => cushion'.target <= cushion.target

LEMMA CushionStep ==
  ASSUME CushionIInv, [CushionNext]_cushionVars
  PROVE  CushionIInv' /\ (GentleMove \/ UNCHANGED cushionVars)
<1> USE CushionAssumption
<1>0. /\ cushion \in Cushions /\ dip \in 0 .. MaxDip /\ steady \in BOOLEAN /\ gave \in BOOLEAN
      /\ cushion.target \in Floor .. Ceiling /\ cushion.wanted \in Floor .. Ceiling /\ cushion.wanted >= cushion.target
      /\ cushion.auto \in BOOLEAN /\ cushion.catching_up \in BOOLEAN /\ Line \in Int /\ Line >= 1
      /\ gave => cushion.wanted = cushion.target /\ cushion.target - dip >= Line /\ (steady \/ cushion.catching_up)
  BY DEF CushionIInv, CushionTypeOK, Cushions, Line
<1> HIDE CushionAssumption
<1>A. PICK a : a = Advanced(cushion)
  OBVIOUS
<1>B. /\ a \in Cushions /\ a.wanted = cushion.wanted /\ a.auto = cushion.auto
      /\ a.target \in Floor .. Ceiling
      /\ a.target <= cushion.target + CUSHION_STEP /\ a.target >= cushion.target /\ a.wanted >= a.target
      /\ cushion.wanted = cushion.target => a = cushion
      /\ cushion.wanted # cushion.target => a.catching_up = TRUE
  <2>1. a \in Cushions
    BY <1>0, <1>A, AdvancedFields
  <2>2. a.target \in Floor .. Ceiling
    BY <2>1 DEF Cushions
  <2> QED BY <1>0, <1>A, <2>1, <2>2, AdvancedFields
<1>C. CUSHION_STEP \in Nat /\ CUSHION_STEP >= 1 /\ Floor \in Nat /\ Ceiling \in Nat /\ MaxDip \in Nat
  BY CushionAssumption
<1>1. CASE Walk
  <2>1. cushion' = a /\ steady' = (steady /\ cushion'.target = cushion.target) /\ dip' = dip /\ gave' = gave
    BY <1>1, <1>A DEF Walk
  <2>2. GentleMove
    BY <1>0, <1>B, <1>C, <2>1 DEF GentleMove
  <2>3. CushionTypeOK'
    BY <1>0, <1>B, <2>1 DEF CushionTypeOK
  <2>4. ASSUME gave'
        PROVE  (cushion.wanted = cushion.target /\ cushion.target - dip >= Line /\ (steady \/ cushion.catching_up))'
    BY <1>0, <1>B, <2>1, <2>4
  <2>5. (cushion.wanted >= cushion.target)'
    BY <1>B, <2>1
  <2> QED BY <2>2, <2>3, <2>4, <2>5 DEF CushionIInv
<1>2. ASSUME NEW low \in {NoReading} \cup 0 .. Ceiling, NEW held \in BOOLEAN, CloseWindow(low, held)
      PROVE  CushionIInv' /\ GentleMove
  <2>1. PICK c : c = TimePassed(a)
    OBVIOUS
  <2>2. c \in Cushions /\ c.target = a.target /\ c.wanted = a.wanted /\ c.auto = a.auto /\ c.catching_up = a.catching_up
    BY <1>B, <2>1, TimePassedFields
  <2>3. PICK r : r = Read(c, low, held)
    OBVIOUS
  <2>4. /\ cushion' = r /\ steady' = (r.target = a.target)
        /\ gave' = (gave \/ (steady /\ r.target < cushion.target)) /\ dip' = dip /\ low \in Readings
    BY <1>2, <1>A, <2>1, <2>3 DEF CloseWindow
  <2>5. low \in Int /\ (low = NoReading \/ low >= 0) /\ NoReading = -1
    BY <1>C DEF NoReading
  <2>6. c.wanted >= c.target /\ (c.wanted = c.target \/ c.catching_up = TRUE)
    <3>1. CASE cushion.wanted = cushion.target
      BY <1>0, <1>B, <2>2, <3>1
    <3>2. CASE cushion.wanted # cushion.target
      BY <1>B, <2>2, <3>2
    <3> QED BY <3>1, <3>2
  <2>7. /\ r \in Cushions /\ r.auto = c.auto
        /\ r.target <= c.target + CUSHION_STEP /\ r.target >= c.target - CUSHION_STEP
        /\ r.wanted >= r.target
        /\ r.target < c.target => r.wanted = r.target /\ r.catching_up = TRUE /\ low # NoReading
                                  /\ low - (c.target - r.target) >= Line
        /\ low >= Line \/ low = NoReading \/ c.catching_up = TRUE => r.target <= c.target
                                  /\ (c.wanted = c.target => r.wanted = r.target)
        /\ c.catching_up = TRUE => r.target = c.target
    <3>1. c \in Cushions /\ low \in Int /\ held \in BOOLEAN /\ r = Read(c, low, held)
      BY <2>2, <2>3, <2>5
    <3> HIDE DEF Cushions
    <3>2. c.wanted >= c.target
      BY <2>6
    <3>3. c.wanted = c.target \/ c.catching_up = TRUE
      BY <2>6
    <3>4. low = NoReading \/ low >= 0
      BY <2>5
    <3>5. MovedByReading(c, low, r)
      BY <3>1, <3>2, <3>3, <3>4, ReadFields
    <3> QED BY <3>5 DEF MovedByReading
  <2>8. r.target \in Floor .. Ceiling /\ r.wanted \in Int
    BY <1>C, <2>7 DEF Cushions
  <2>9. steady => low = NoReading \/ low = IF 0 >= cushion.target - dip THEN 0 ELSE cushion.target - dip
    <3>1. dip \in Int /\ cushion.target \in Int
      BY <1>0, <1>C
    <3>2. PICK k \in Int : k = cushion.target - dip
      BY <3>1
    <3>3. Max({0, k}) = IF 0 >= k THEN 0 ELSE k
      BY MaxOfTwo
    <3>4. steady => low \in {Max({0, cushion.target - dip}), NoReading}
      BY <2>4 DEF Readings
    <3> QED BY <3>2, <3>3, <3>4
  <2>10. cushion.target # a.target => r.target = a.target
    BY <1>B, <2>2, <2>7
  <2>11. gave => cushion.target = a.target /\ r.target <= cushion.target
    <3>1. SUFFICES ASSUME gave PROVE cushion.target = a.target /\ r.target <= cushion.target
      OBVIOUS
    <3>2. a = cushion
      BY <1>0, <1>B, <3>1
    <3>3. CASE cushion.catching_up
      BY <1>0, <1>C, <2>2, <2>7, <2>8, <3>2, <3>3
    <3>4. CASE ~cushion.catching_up
      <4>1. steady /\ cushion.target - dip >= Line
        BY <1>0, <3>1, <3>4
      <4>2. low = NoReading \/ low >= Line
        BY <1>0, <1>C, <2>9, <4>1
      <4> QED BY <2>2, <2>7, <3>2, <4>2
    <3> QED BY <3>2, <3>3, <3>4
  <2>12. GentleMove
    <3>1. r.target <= cushion.target + CUSHION_STEP /\ r.target >= cushion.target - CUSHION_STEP
      <4>1. CASE cushion.target # a.target
        BY <1>0, <1>B, <1>C, <2>10, <4>1
      <4>2. CASE cushion.target = a.target
        BY <2>2, <2>7, <4>2
      <4> QED BY <4>1, <4>2
    <3> QED BY <2>4, <2>11, <3>1 DEF GentleMove
  <2>13. CushionTypeOK'
    BY <1>0, <2>4, <2>7 DEF CushionTypeOK
  <2>14. ASSUME gave'
         PROVE  r.wanted = r.target /\ r.target - dip >= Line /\ ((r.target = a.target) \/ r.catching_up)
    <3>1. CASE r.target < cushion.target /\ steady
      <4>1. cushion.target = a.target /\ r.target < c.target
        BY <1>0, <1>B, <2>2, <2>8, <2>10, <3>1, <1>C
      <4>2. r.wanted = r.target /\ r.catching_up = TRUE /\ low # NoReading /\ low - (c.target - r.target) >= Line
        BY <2>7, <4>1
      <4>3. low = cushion.target - dip
        BY <1>0, <1>C, <2>2, <2>8, <2>9, <3>1, <4>1, <4>2
      <4> QED BY <1>0, <1>C, <2>2, <2>8, <4>1, <4>2, <4>3
    <3>2. CASE gave /\ ~(r.target < cushion.target /\ steady)
      <4>1. cushion.target = a.target /\ r.target <= cushion.target /\ a = cushion
        BY <1>0, <1>B, <2>11, <3>2
      <4>2. CASE cushion.catching_up
        <5>1. r.target = cushion.target /\ r.wanted = r.target
          BY <1>0, <2>2, <2>7, <3>2, <4>1, <4>2
        <5> QED BY <1>0, <3>2, <4>1, <5>1
      <4>3. CASE ~cushion.catching_up
        <5>1. steady /\ r.target = cushion.target
          BY <1>0, <1>C, <2>8, <3>2, <4>1, <4>3
        <5>2. low = NoReading \/ low >= Line
          BY <1>0, <1>C, <2>9, <3>2, <5>1
        <5>3. r.wanted = r.target
          BY <1>0, <2>2, <2>7, <3>2, <4>1, <5>2
        <5> QED BY <1>0, <3>2, <4>1, <5>1, <5>3
      <4> QED BY <4>2, <4>3
    <3> QED BY <2>4, <2>14, <3>1, <3>2
  <2> QED BY <2>4, <2>7, <2>12, <2>13, <2>14 DEF CushionIInv
<1>3. CASE SetAuto
  <2>1. PICK b : b = ~cushion.auto
    OBVIOUS
  <2>2. cushion' = [Fresh(b) EXCEPT !.catching_up = TRUE] /\ steady' = FALSE /\ gave' = FALSE /\ dip' = dip
    BY <1>3, <2>1 DEF SetAuto
  <2>3. cushion' = [target |-> Floor, wanted |-> Floor, auto |-> b, catching_up |-> TRUE,
                    quiet |-> NotQuiet, out_of_room |-> FALSE]
    BY <2>2 DEF Fresh
  <2>4. Floor \in Floor .. Ceiling /\ NotQuiet \in NotQuiet .. CUSHION_QUIET /\ b \in BOOLEAN
    BY <1>0, <2>1, CushionAssumption DEF NotQuiet
  <2>5. cushion' \in Cushions
    BY <2>3, <2>4 DEF Cushions
  <2>6. cushion'.target = Floor /\ cushion'.wanted = Floor /\ cushion'.auto = b
    BY <2>3
  <2>7. CushionTypeOK'
    BY <1>0, <2>2, <2>5 DEF CushionTypeOK
  <2>8. cushion'.auto # cushion.auto
    BY <1>0, <2>1, <2>6
  <2>9. CushionIInv'
    BY <1>C, <2>2, <2>6, <2>7 DEF CushionIInv
  <2>10. GentleMove
    BY <1>0, <1>C, <2>2, <2>6, <2>8 DEF GentleMove
  <2> QED BY <2>9, <2>10
<1>4. ASSUME NEW d \in 0 .. MaxDip, DipChanges(d)
      PROVE  CushionIInv' /\ GentleMove
  <2>1. cushion' = cushion /\ dip' = d /\ steady' = FALSE /\ gave' = FALSE
    BY <1>4 DEF DipChanges
  <2>2. CushionTypeOK'
    BY <1>0, <2>1 DEF CushionTypeOK
  <2>3. CushionIInv'
    BY <1>0, <2>1, <2>2 DEF CushionIInv
  <2>4. GentleMove
    BY <1>0, <1>C, <2>1 DEF GentleMove
  <2> QED BY <2>3, <2>4
<1>5. CASE UNCHANGED cushionVars
  BY <1>5 DEF CushionIInv, CushionTypeOK, cushionVars, Line
<1> QED BY <1>1, <1>2, <1>3, <1>4, <1>5 DEF CushionNext

LEMMA CushionStarts == CushionInit => CushionIInv
<1> USE CushionAssumption
<1>1. SUFFICES ASSUME CushionInit PROVE CushionIInv
  OBVIOUS
<1>2. PICK b \in BOOLEAN : cushion = Fresh(b)
  BY <1>1 DEF CushionInit
<1>3. Floor \in Floor .. Ceiling /\ NotQuiet \in NotQuiet .. CUSHION_QUIET
  BY DEF NotQuiet
<1>4. cushion \in Cushions /\ cushion.target = Floor /\ cushion.wanted = Floor
  BY <1>2, <1>3 DEF Fresh, Cushions
<1>5. dip \in 0 .. MaxDip /\ steady = FALSE /\ gave = FALSE
  BY <1>1 DEF CushionInit
<1>6. CushionTypeOK
  BY <1>4, <1>5 DEF CushionTypeOK
<1> QED BY <1>4, <1>5, <1>6 DEF CushionIInv

LEMMA CushionInvariant == CushionSpec => []CushionIInv
<1>1. CushionIInv /\ [CushionNext]_cushionVars => CushionIInv'
  BY CushionStep
<1> QED BY <1>1, CushionStarts, PTL DEF CushionSpec

(* The depth moves by a frame a tick at most unless it is pinned or freed, *)
(* and a frame given back is not taken again while the device dips as it   *)
(* does: observe, advance, grow and give_back of CushionControl, for every *)
(* bound of the depth, length of a frame and dip.                          *)
THEOREM DepthMovesGently == CushionSpec => MovesGently
<1>1. CushionIInv /\ [CushionNext]_cushionVars =>
        [/\ cushion'.target <= cushion.target + CUSHION_STEP
         /\ cushion'.target >= cushion.target - CUSHION_STEP \/ cushion'.auto # cushion.auto
         /\ gave /\ gave' => cushion'.target <= cushion.target]_cushionVars
  BY CushionStep DEF GentleMove
<1> QED BY <1>1, CushionInvariant, PTL DEF CushionSpec, MovesGently

-----------------------------------------------------------------------------
(* The jitter buffer                                                       *)

(* Nothing counts as played while the buffer has no position.              *)
BufferIInv ==
    /\ frames \subseteq Nat
    /\ nextSeq \in Nat \cup {Absent} /\ played \in Nat \cup {Absent} /\ concealed \in Nat \cup {Absent}
    /\ source \in Nat \cup {Absent}
    /\ ~running => played = Absent /\ concealed = Absent
    /\ NeverPlayedTwice

LEMMA BufferStarts == BufferInit => BufferIInv
  BY DEF BufferInit, BufferIInv, running, Absent, NeverPlayedTwice

LEMMA ResetKeeps ==
  ASSUME Reset, played' = Absent, source' \in Nat \cup {Absent}
  PROVE  BufferIInv'
  BY DEF Reset, BufferIInv, running, Absent, NeverPlayedTwice

LEMMA PushKeeps ==
  ASSUME BufferIInv, NEW s \in Nat, NEW red \in BOOLEAN, push(s, red), source' \in Nat \cup {Absent}
  PROVE  BufferIInv'
<1> USE DEF BufferIInv, running, Absent, NeverPlayedTwice
<1>1. CASE PushRestart(s, red)
  BY <1>1 DEF PushRestart
<1>2. CASE running /\ s < nextSeq /\ Resurrects(s) /\ PushResurrect(s)
  BY <1>2 DEF PushResurrect, Resurrects
<1>3. CASE PushLate(s)
  BY <1>3 DEF PushLate
<1>4. CASE (running => s >= nextSeq) /\ PushBuffer(s, red)
  <2>1. CASE Reset /\ played' = Absent
    BY <2>1, ResetKeeps
  <2>2. CASE frames' = frames \cup {s} /\ UNCHANGED <<nextSeq, concealed, played>>
    <3>1. \A f \in frames' : f = s \/ f \in frames
      BY <2>2
    <3>2. running => played < s
      BY <1>4
    <3>3. running => \A f \in frames : f > played
      OBVIOUS
    <3>4. ~running => played = -1
      OBVIOUS
    <3>5. played \in Int /\ frames' \subseteq Nat
      BY <2>2
    <3>6. running => \A f \in frames' : f > played
      <4> HIDE DEF running, BufferIInv, NeverPlayedTwice
      <4> QED BY <3>1, <3>2, <3>3, <3>5
    <3>7. running' = running
      BY <2>2
    <3> QED BY <2>2, <3>5, <3>6, <3>7
  <2> QED BY <1>4, <2>1, <2>2 DEF PushBuffer
<1>5. running /\ ~(s < nextSeq) => s >= nextSeq
  OBVIOUS
<1> QED BY <1>1, <1>2, <1>3, <1>4, <1>5 DEF push

(* A pull starts from a position that everything played lies before.       *)
LEMMA StartsAfterPlayed ==
  ASSUME BufferIInv, running \/ Fills
  PROVE  Start \in Nat /\ Slot \in Nat /\ Slot >= Start /\ played < Start /\ played \in Int
<1>1. Start \in Nat /\ played < Start /\ played \in Int
  <2>1. CASE running
    BY <2>1 DEF Start, BufferIInv, running, Absent, NeverPlayedTwice
  <2>2. CASE ~running
    <3>1. frames # {} /\ frames \subseteq Nat /\ played = -1
      BY <2>2 DEF BufferIInv, Fills, Absent
    <3>2. Min(frames) \in Nat
      BY <3>1, LeastOfSet
    <3> QED BY <2>2, <3>1, <3>2 DEF Start
  <2> QED BY <2>1, <2>2
<1> QED BY <1>1 DEF Slot

LEMMA PullKeeps ==
  ASSUME BufferIInv, pull, source' \in Nat \cup {Absent}
  PROVE  BufferIInv'
<1>1. CASE PullWaiting
  BY <1>1 DEF PullWaiting, anchor, BufferIInv, running, NeverPlayedTwice
<1>2. CASE PullHold
  <2>1. Start \in Nat /\ played < Start /\ played \in Int
    BY <1>2, StartsAfterPlayed DEF PullHold
  <2>2. nextSeq' = Start /\ frames' = frames /\ concealed' = concealed /\ played' = played
    BY <1>2 DEF PullHold
  <2>3. CASE running
    BY <2>1, <2>2, <2>3 DEF BufferIInv, running, NeverPlayedTwice, Start, Absent
  <2>4. CASE ~running
    <3>1. played = -1 /\ concealed = -1 /\ frames \subseteq Nat
      BY <2>4 DEF BufferIInv, Absent
    <3>2. \A f \in frames : f > -1
      BY <3>1
    <3> QED BY <2>1, <2>2, <3>1, <3>2 DEF BufferIInv, running, NeverPlayedTwice, Absent
  <2> QED BY <2>3, <2>4
<1>3. CASE PullSlot
  <2>1. Start \in Nat /\ Slot \in Nat /\ Slot >= Start /\ played < Start /\ played \in Int
    BY <1>3, StartsAfterPlayed DEF PullSlot
  <2>2. CASE GivesUp
    BY <1>3, <2>2, ResetKeeps DEF PullSlot
  <2>3. CASE ~GivesUp
    <3>1. PICK l \in Nat : l = Slot
      BY <2>1
    <3>2. /\ frames' = {f \in frames : f > l} /\ nextSeq' = l + 1
          /\ concealed' = (IF Outcome = "Missing" THEN l ELSE Absent)
          /\ played' = (IF Outcome \in Plays THEN l ELSE played)
      BY <1>3, <2>3, <3>1 DEF PullSlot
    <3>3. Outcome = "Missing" \/ Outcome \in Plays
      BY DEF Outcome, Plays
    <3>4. "Missing" \notin Plays
      BY DEF Plays
    <3>5. played < l /\ played \in Nat \cup {-1} /\ frames \subseteq Nat
      BY <2>1, <3>1 DEF BufferIInv, Absent
    <3>0. nextSeq' \in Nat /\ frames' \subseteq Nat /\ (\A f \in frames' : f > l) /\ -1 = Absent
      <4>1. frames' = {f \in frames : f > l} /\ nextSeq' = l + 1 /\ l \in Nat /\ frames \subseteq Nat
        BY <3>2, <3>5
      <4>2. frames' \subseteq Nat /\ \A f \in frames' : f > l
        BY <4>1
      <4>3. nextSeq' \in Nat
        BY <4>1
      <4> QED BY <4>2, <4>3 DEF Absent
    <3>6. CASE Outcome = "Missing"
      <4>1. concealed' = l /\ played' = played
        BY <3>2, <3>4, <3>6
      <4>2. \A f \in frames' : f > played'
        BY <3>0, <3>1, <3>5, <4>1
      <4> QED BY <3>0, <3>2, <3>5, <4>1, <4>2 DEF BufferIInv, running, NeverPlayedTwice, Absent
    <3>7. CASE Outcome # "Missing" /\ Outcome \in Plays
      <4>1. concealed' = Absent /\ played' = l
        BY <3>2, <3>7
      <4> QED BY <3>0, <3>2, <4>1 DEF BufferIInv, running, NeverPlayedTwice, Absent
    <3> QED BY <3>3, <3>6, <3>7
  <2> QED BY <2>2, <2>3
<1> QED BY <1>1, <1>2, <1>3 DEF pull

LEMMA BufferStep == BufferIInv /\ [BufferNext]_bufferVars => BufferIInv'
<1> USE BoundAssumption
<1>1. SUFFICES ASSUME BufferIInv, [BufferNext]_bufferVars PROVE BufferIInv'
  OBVIOUS
<1>2. source \in Nat \cup {Absent}
  BY <1>1 DEF BufferIInv
<1>3. ASSUME NEW s \in 0 .. MaxFrame, NEW red \in BOOLEAN, Arrive(s, red) PROVE BufferIInv'
  <2>1. push(s, red) /\ source' = source /\ s \in Nat
    BY <1>3 DEF Arrive
  <2> QED BY <1>1, <1>2, <2>1, PushKeeps
<1>4. CASE Tick
  <2>1. pull /\ source' = source
    BY <1>4 DEF Tick
  <2> QED BY <1>1, <1>2, <2>1, PullKeeps
<1>5. ASSUME NEW s \in 0 .. MaxFrame, Settle(s) PROVE BufferIInv'
  BY <1>1, <1>5 DEF Settle, anchor, BufferIInv, running, NeverPlayedTwice
<1>6. ASSUME NEW red \in BOOLEAN, ArriveInTurn(red) PROVE BufferIInv'
  <2>1. push(source, red) /\ source \in Nat /\ source' = source + 1
    BY <1>6 DEF ArriveInTurn
  <2> QED BY <1>1, <2>1, PushKeeps
<1>7. CASE TickInTurn
  <2>1. pull /\ source' = source
    BY <1>7 DEF TickInTurn
  <2> QED BY <1>1, <1>2, <2>1, PullKeeps
<1>8. CASE UNCHANGED bufferVars
  BY <1>1, <1>8 DEF bufferVars, anchor, BufferIInv, running, NeverPlayedTwice
<1> QED BY <1>1, <1>3, <1>4, <1>5, <1>6, <1>7, <1>8 DEF BufferNext

(* No frame is played twice and playout never runs backwards, whatever     *)
(* arrives and however deep the buffer is kept: push and pull of           *)
(* JitterBuffer, with the step back to a packet that was concealed.        *)
THEOREM NothingPlayedTwice == BufferSpec => []NeverPlayedTwice
<1>1. BufferIInv => NeverPlayedTwice
  BY DEF BufferIInv
<1> QED BY <1>1, BufferStarts, BufferStep, PTL DEF BufferSpec

-----------------------------------------------------------------------------
(* A stream that flows is heard again                                      *)
(*                                                                         *)
(* Once the stream is settled, an arrival and a tick alternate, so the     *)
(* ticks since a frame was played are the frames that came in that time,   *)
(* but for one.  Where those frames are decides what ends the gap.         *)

Excess == dry + flow                               \* arrivals since the last frame played
Run(g) == \A k \in source - g .. source - 1 : k \in frames   \* the last g of them are buffered
Near == \A k \in nextSeq .. source - 1 : k \in frames        \* nothing is missing up to the newest

(* The skips that are due or will be, and the ticks over the target that   *)
(* count towards them; after a growth hold the next tick is none.          *)
Skips == IF ~dropPending THEN 0 ELSE IF overTicks = SHRINK_PATIENCE - 1 THEN 2 ELSE 1
Credit == (IF dropPending THEN SHRINK_PATIENCE ELSE 0) + overTicks
Spared == IF heldLast THEN 1 ELSE 0

(* Without a position the buffer fills with the run that ends in the       *)
(* newest frame, and the gap was short enough before the run began to      *)
(* leave room for the deepest target.                                      *)
Refilling ==
    /\ lastArrival \in {Absent, source - 1} \/ Excess <= 0
    /\ dry = 0 \/ Cardinality(frames) <= MAX_TARGET + flow
    /\ \E g \in Nat : Run(g) /\ Excess + MAX_TARGET <= HealBound + g

(* The position is behind a run as long as the gap: it is reached in time, *)
(* or the depth cap gives the position up.                                 *)
Ahead == \E g \in 0 .. MAX_BUFFERED : Run(g) /\ nextSeq <= source - g /\ Excess <= g

(* The position is past the stream, and a frame came too late for it: each *)
(* tick either counts for the watchdog, or is a growth hold that a skip    *)
(* makes room for, and a skip takes SHRINK_PATIENCE ticks to earn.         *)
Blamed ==
    /\ Near /\ droppedSincePull
    /\ SHRINK_PATIENCE * (dry - stuckTicks - 3 - Spared) + Credit <= SHRINK_PATIENCE + stuckTicks

(* The position is past the stream, or just stepped back to it, and no     *)
(* frame came too late yet: the gap is no longer than a few ticks.         *)
Unblamed ==
    /\ Near /\ ~droppedSincePull /\ nextSeq # source
    /\ nextSeq > source + 1 \/ (nextSeq = source + 1 /\ concealed # source) =>
         SHRINK_PATIENCE * Excess + Credit + flow + 1 <= 3 * SHRINK_PATIENCE
    /\ nextSeq = source + 1 /\ concealed = source => Excess + Skips <= 2 /\ flow <= 0
    /\ nextSeq = source - 1 => Excess + Skips <= 3 /\ (~heldLast => flow >= 0)
    /\ nextSeq < source - 1 => dry + 1 - Spared <= 4

BufferTypes ==
    /\ IsFiniteSet(frames) /\ lastArrival \in Nat \cup {Absent}
    /\ target \in MIN_TARGET .. MAX_TARGET
    /\ overTicks \in 0 .. SHRINK_PATIENCE - 1 /\ stuckTicks \in 0 .. REANCHOR_PATIENCE - 1
    /\ heldLast \in BOOLEAN /\ dropPending \in BOOLEAN /\ droppedSincePull \in BOOLEAN
    /\ heldLast => running /\ nextSeq \in frames
    /\ ~running => ~dropPending

HealIInv ==
    /\ BufferIInv /\ BufferTypes
    /\ flow \in -1 .. 1 /\ dry \in Nat
    /\ source = Absent => dry = 0 /\ flow = 0
    /\ dry <= HealBound
    /\ source # Absent => IF running THEN Ahead \/ Blamed \/ Unblamed ELSE Refilling

(* Arithmetic that the solver is not left to find.                         *)
LEMMA Quotient ==
  ASSUME NEW a \in Nat, NEW b \in Nat \ {0}, NEW j \in Int, b * j <= a
  PROVE  a \div b \in Nat /\ j <= a \div b
<1>1. a \div b \in Nat /\ a % b \in 0 .. b - 1 /\ a = b * (a \div b) + (a % b)
  OBVIOUS
<1> DEFINE q == a \div b
           r == a % b
<1> HIDE DEF q, r
<1>2. q \in Nat /\ r \in 0 .. b - 1 /\ a = b * q + r
  BY <1>1 DEF q, r
<1>3. ASSUME j > q PROVE FALSE
  <2>1. PICK k \in Nat : j = q + 1 + k
    BY <1>2, <1>3
  <2>2. b * j = b * q + b + b * k
    BY <1>2, <2>1
  <2>3. b * k >= 0
    BY <2>1
  <2> QED BY <1>2, <2>2, <2>3
<1>4. j <= q
  BY <1>2, <1>3
<1> QED BY <1>2, <1>4 DEF q

LEMMA Times ==
  ASSUME NEW b \in Nat \ {0}, NEW j \in Int, NEW k \in Int, j <= k
  PROVE  b * j \in Int /\ b * k \in Int /\ b * j <= b * k
<1>1. PICK d \in Nat : k = j + d
  OBVIOUS
<1>2. b * k = b * j + b * d /\ b * d >= 0 /\ b * j \in Int /\ b * k \in Int /\ b * d \in Int
  BY <1>1
<1> QED BY <1>2

FewOf(b) ==
    /\ b * 0 = 0 /\ b * 1 = b /\ b * 2 = 2 * b /\ b * (-2) = -(2 * b)
    /\ 3 * b = b + 2 * b /\ 2 * b = b + b
    /\ b * (2 - 0) = 2 * b /\ b * (2 - 1) = b /\ b * (2 - 2) = 0

LEMMA FewTimes ==
  ASSUME NEW b \in Nat \ {0}
  PROVE  FewOf(b)
  BY DEF FewOf

LEMMA BoundIs ==
    LET P == SHRINK_PATIENCE
        R == REANCHOR_PATIENCE IN
    /\ P \in Nat /\ P >= 2 /\ R \in Nat /\ R >= 1 /\ MAX_BUFFERED \in Nat /\ MAX_TARGET \in Nat /\ MAX_TARGET >= 1
    /\ MAX_TARGET < MAX_BUFFERED /\ RESET_JUMP \in Nat /\ RESET_JUMP >= 1
    /\ R \div P \in Nat /\ HealBound \in Nat
    /\ MAX_BUFFERED + 1 + MAX_TARGET <= HealBound
    /\ R + R \div P + 5 + MAX_TARGET <= HealBound
<1> USE TargetAssumption, PatienceAssumption, DepthAssumption, HealAssumption
<1>0. SHRINK_PATIENCE \in Nat \ {0} /\ REANCHOR_PATIENCE \in Nat
  OBVIOUS
<1>1. REANCHOR_PATIENCE \div SHRINK_PATIENCE \in Nat
  <2>1. SHRINK_PATIENCE * 0 <= REANCHOR_PATIENCE
    OBVIOUS
  <2> QED BY <1>0, <2>1, Quotient
<1>2. HealTurns \in Int /\ HealTurns = REANCHOR_PATIENCE + REANCHOR_PATIENCE \div SHRINK_PATIENCE + 5
  BY <1>1 DEF HealTurns
<1>3. Max({MAX_BUFFERED + 1, HealTurns}) = IF MAX_BUFFERED + 1 >= HealTurns THEN MAX_BUFFERED + 1 ELSE HealTurns
  BY <1>2, MaxOfTwo
<1> QED BY <1>1, <1>2, <1>3 DEF HealBound

(* While the position is kept, the gap leaves room for a refill.         *)
LEMMA GapLeavesRoom ==
  ASSUME BufferTypes, flow \in -1 .. 1, dry \in Nat, source \in Nat, nextSeq \in Nat, Ahead \/ Blamed \/ Unblamed
  PROVE  /\ Excess + MAX_TARGET <= HealBound
         /\ flow <= 0 => Excess + 1 + MAX_TARGET <= HealBound
<1> DEFINE P == SHRINK_PATIENCE
           R == REANCHOR_PATIENCE
<1>0. /\ P \in Nat \ {0} /\ P >= 2 /\ R \in Nat /\ R >= 1 /\ R \div P \in Nat /\ HealBound \in Nat /\ MAX_TARGET \in Nat
      /\ MAX_BUFFERED \in Nat
      /\ MAX_BUFFERED + 1 + MAX_TARGET <= HealBound /\ R + R \div P + 5 + MAX_TARGET <= HealBound
  BY BoundIs
<1>1. /\ flow \in -1 .. 1 /\ dry \in Nat /\ stuckTicks \in 0 .. R - 1 /\ overTicks \in 0 .. P - 1
      /\ Spared \in 0 .. 1 /\ Credit \in Nat /\ Skips \in Nat /\ Excess = dry + flow
  BY <1>0 DEF BufferTypes, Spared, Credit, Skips, Excess
<1> DEFINE q == R \div P
<1> HIDE DEF P, R, q
<1>2. CASE Ahead
  BY <1>0, <1>1, <1>2 DEF Ahead, q
<1>3. CASE Blamed
  <2> DEFINE y == dry - stuckTicks - 3 - Spared
  <2>1. P * y + Credit <= P + stuckTicks /\ y \in Int
    BY <1>1, <1>3 DEF Blamed, P
  <2>2. y - 1 <= q
    <3>1. P * (y - 1) = P * y - P /\ P * y \in Int
      BY <1>0, <2>1
    <3>2. P * (y - 1) <= R
      BY <1>0, <1>1, <2>1, <3>1
    <3> QED BY <1>0, <2>1, <3>2, Quotient DEF q
  <2> QED BY <1>0, <1>1, <2>1, <2>2 DEF q
<1>4. CASE Unblamed
  <2>1. nextSeq > source + 1 \/ (nextSeq = source + 1 /\ concealed # source) \/ (nextSeq = source + 1 /\ concealed = source)
        \/ nextSeq = source - 1 \/ nextSeq < source - 1
    BY <1>4 DEF Unblamed
  <2>2. CASE nextSeq > source + 1 \/ (nextSeq = source + 1 /\ concealed # source)
    <3>1. P * Excess + Credit + flow + 1 <= 3 * P
      BY <1>4, <2>2 DEF Unblamed, P
    <3>2. ~(Excess >= 4)
      <4>1. SUFFICES ASSUME Excess >= 4 PROVE FALSE
        OBVIOUS
      <4>2. P * 4 <= P * Excess /\ P * Excess \in Int
        BY <1>0, <1>1, <4>1, Times
      <4>3. P * 4 = P + P + P + P /\ 3 * P = P + P + P
        BY <1>0
      <4> QED BY <1>0, <1>1, <3>1, <4>2, <4>3
    <3> QED BY <1>0, <1>1, <3>2 DEF q
  <2>3. CASE nextSeq = source + 1 /\ concealed = source
    BY <1>0, <1>1, <1>4, <2>3 DEF Unblamed, q
  <2>4. CASE nextSeq = source - 1
    BY <1>0, <1>1, <1>4, <2>4 DEF Unblamed, q
  <2>5. CASE nextSeq < source - 1
    BY <1>0, <1>1, <1>4, <2>5 DEF Unblamed, q
  <2> QED BY <2>1, <2>2, <2>3, <2>4, <2>5
<1> QED BY <1>2, <1>3, <1>4

LEMMA ResetTypes ==
  ASSUME Reset, target' \in MIN_TARGET .. MAX_TARGET
  PROVE  BufferTypes'
<1>1. IsFiniteSet(frames') /\ 0 \in 0 .. SHRINK_PATIENCE - 1 /\ 0 \in 0 .. REANCHOR_PATIENCE - 1
  <2>1. frames' = {}
    BY DEF Reset
  <2> QED BY <2>1, FS_EmptySet, BoundIs
<1> QED BY <1>1 DEF Reset, BufferTypes, running

LEMMA PushTypes ==
  ASSUME BufferIInv, BufferTypes, NEW s \in Nat, NEW red \in BOOLEAN, push(s, red)
  PROVE  BufferTypes'
<1> USE DEF running
<1>0. /\ target' \in MIN_TARGET .. MAX_TARGET
      /\ 0 \in 0 .. SHRINK_PATIENCE - 1 /\ 0 \in 0 .. REANCHOR_PATIENCE - 1
      /\ nextSeq \in Nat \cup {Absent} /\ Absent = -1
  BY BoundIs DEF push, BufferIInv, Absent
<1>1. CASE PushRestart(s, red)
  <2>1. IsFiniteSet(frames')
    <3>1. frames' = {s}
      BY <1>1 DEF PushRestart
    <3> QED BY <3>1, FS_Singleton
  <2> QED BY <1>0, <1>1, <2>1 DEF PushRestart, BufferTypes
<1>2. CASE PushResurrect(s)
  <2>1. IsFiniteSet(frames')
    <3>1. frames' = frames \cup {s}
      BY <1>2 DEF PushResurrect
    <3> QED BY <3>1, FS_AddElement DEF BufferTypes
  <2> QED BY <1>0, <1>2, <2>1 DEF PushResurrect, BufferTypes
<1>3. CASE PushLate(s)
  BY <1>0, <1>3 DEF PushLate, BufferTypes
<1>4. CASE PushBuffer(s, red)
  <2>1. CASE Reset
    BY <1>0, <2>1, ResetTypes
  <2>2. CASE /\ frames' = frames \cup {s} /\ lastArrival' = s
             /\ UNCHANGED <<nextSeq, overTicks, heldLast, dropPending, droppedSincePull, stuckTicks>>
    <3>1. IsFiniteSet(frames')
      BY <2>2, FS_AddElement DEF BufferTypes
    <3> QED BY <1>0, <2>2, <3>1 DEF BufferTypes
  <2> QED BY <1>4, <2>1, <2>2 DEF PushBuffer
<1> QED BY <1>1, <1>2, <1>3, <1>4 DEF push

(* A reset begins a refill.                                                *)
LEMMA Refills ==
  ASSUME source' \in Nat, frames' = {}, lastArrival' = Absent, dry' \in Nat, flow' \in -1 .. 1,
         (dry + flow)' + MAX_TARGET <= HealBound
  PROVE  Refilling'
<1>1. Cardinality(frames') = 0 /\ Cardinality(frames') <= MAX_TARGET + flow'
  BY FS_EmptySet, BoundIs
<1>2. \A k \in source' - 0 .. source' - 1 : k \in frames'
  <2>1. \A n \in Nat : n - 0 .. n - 1 = {}
    OBVIOUS
  <2> QED BY <2>1
<1>3. 0 \in Nat /\ (dry + flow)' + MAX_TARGET <= HealBound' + 0
  BY BoundIs DEF HealBound, HealTurns
<1> QED BY <1>1, <1>2, <1>3 DEF Refilling, Excess, Run

(* An arrival in turn, one case of push each.                              *)
LEMMA PushHeals ==
  ASSUME HealIInv, source \in Nat, flow <= 0, NEW red \in BOOLEAN, push(source, red),
         source' = source + 1, flow' = flow + 1, dry' = dry
  PROVE  IF running' THEN (Ahead \/ Blamed \/ Unblamed)' ELSE Refilling'
<1> DEFINE P == SHRINK_PATIENCE
           S == source
<1>0. /\ P \in Nat \ {0} /\ P >= 2 /\ HealBound \in Nat /\ MAX_TARGET \in Nat /\ MAX_TARGET >= 1
      /\ MAX_BUFFERED \in Nat /\ MAX_TARGET < MAX_BUFFERED /\ RESET_JUMP >= 1 /\ RESET_JUMP \in Nat
      /\ MAX_BUFFERED + 1 + MAX_TARGET <= HealBound
  BY BoundIs
<1>1. /\ S \in Nat /\ flow \in -1 .. 0 /\ dry \in Nat /\ frames \subseteq Nat /\ IsFiniteSet(frames)
      /\ Cardinality(frames) \in Nat
      /\ nextSeq \in Nat \cup {-1} /\ concealed \in Nat \cup {-1} /\ lastArrival \in Nat \cup {-1} /\ Absent = -1
      /\ heldLast \in BOOLEAN /\ overTicks \in 0 .. P - 1 /\ stuckTicks \in Nat
      /\ (running <=> nextSeq \in Nat) /\ S # Absent
      /\ IF running THEN Ahead \/ Blamed \/ Unblamed ELSE Refilling
  <2>1. REANCHOR_PATIENCE \in Nat
    BY BoundIs
  <2> QED BY <2>1, FS_CardinalityType DEF HealIInv, BufferTypes, BufferIInv, running, Absent
<1>2. /\ Excess = dry + flow /\ Excess' = Excess + 1 /\ HealBound' = HealBound
      /\ Credit \in Nat /\ Skips \in Nat /\ Spared \in 0 .. 1
  BY <1>0, <1>1 DEF Excess, HealBound, HealTurns, Credit, Skips, Spared
<1>3. running => Excess + 1 + MAX_TARGET <= HealBound
  BY <1>1, GapLeavesRoom, <1>2 DEF HealIInv
<1> HIDE DEF P
<1>4. CASE Jumps(S) /\ PushRestart(S, red)
  <2>1. frames' = {S} /\ nextSeq' = Absent /\ lastArrival' = S
    BY <1>4 DEF PushRestart
  <2>2. Excess + MAX_TARGET <= HealBound
    <3>1. CASE running
      BY <1>0, <1>1, <1>2, <1>3, <3>1
    <3>2. CASE ~running
      <4>1. lastArrival # Absent /\ Abs(S - lastArrival) > RESET_JUMP
        BY <1>4, <3>2 DEF Jumps, Anchor
      <4>2. lastArrival # S - 1
        BY <4>1, <1>0, <1>1 DEF Abs
      <4>3. Excess <= 0
        BY <1>1, <3>2, <4>1, <4>2 DEF Refilling
      <4> QED BY <1>0, <1>1, <1>2, <4>3
    <3> QED BY <3>1, <3>2
  <2>3. lastArrival' = source' - 1
    BY <1>1, <2>1
  <2>4. Cardinality(frames') <= MAX_TARGET + flow'
    <3>1. Cardinality(frames') = 1
      BY <2>1, FS_Singleton
    <3> QED BY <3>1, <1>0, <1>1
  <2>5. Run(1)'
    <3>1. \A k \in S + 1 - 1 .. S + 1 - 1 : k = S
      BY <1>1
    <3> QED BY <2>1, <3>1 DEF Run
  <2>6. Excess' + MAX_TARGET <= HealBound' + 1 /\ 1 \in Nat
    BY <1>0, <1>1, <1>2, <2>2
  <2>7. Refilling'
    BY <2>3, <2>4, <2>5, <2>6 DEF Refilling
  <2> QED BY <2>1, <2>7 DEF running
<1>5. CASE running /\ S < nextSeq /\ Resurrects(S) /\ PushResurrect(S)
  <2>1. frames' = frames \cup {S} /\ nextSeq' = S /\ concealed = S /\ S + 1 = nextSeq /\ concealed' = Absent
        /\ UNCHANGED <<overTicks, heldLast, dropPending, droppedSincePull, stuckTicks>>
    BY <1>5 DEF PushResurrect, Resurrects
  <2>2. Near'
    <3>1. \A k \in S .. S + 1 - 1 : k = S
      BY <1>1
    <3> QED BY <2>1, <3>1 DEF Near
  <2>3. ~Ahead
    BY <1>0, <1>1, <2>1 DEF Ahead
  <2>4. CASE Blamed
    BY <2>1, <2>2, <2>4, <1>1 DEF Blamed, Credit, Spared, running
  <2>5. CASE Unblamed
    <3>1. Excess + Skips <= 2 /\ ~droppedSincePull
      BY <2>1, <2>5 DEF Unblamed
    <3>2. nextSeq' = source' - 1 /\ ~droppedSincePull' /\ Skips' = Skips /\ Excess' + Skips' <= 3 /\ flow' >= 0
      BY <1>1, <1>2, <2>1, <3>1 DEF Skips
    <3>3. nextSeq' # source' /\ ~(nextSeq' > source' + 1) /\ nextSeq' # source' + 1 /\ ~(nextSeq' < source' - 1)
      BY <1>1, <2>1
    <3>4. Unblamed'
      BY <2>2, <3>2, <3>3 DEF Unblamed
    <3> QED BY <3>4, <3>2, <2>1, <1>1 DEF running
  <2> QED BY <1>1, <1>5, <2>1, <2>3, <2>4, <2>5 DEF running
<1>6. CASE running /\ S < nextSeq /\ ~Resurrects(S) /\ PushLate(S)
  <2>1. droppedSincePull' = TRUE
        /\ UNCHANGED <<frames, nextSeq, overTicks, heldLast, dropPending, concealed, stuckTicks>>
    BY <1>6 DEF PushLate
  <2>2. Near'
    <3>1. \A k \in nextSeq .. S + 1 - 1 : FALSE
      BY <1>1, <1>6
    <3> QED BY <2>1, <3>1 DEF Near
  <2>3. ~Ahead
    BY <1>0, <1>1, <1>6 DEF Ahead
  <2>4. CASE Blamed
    <3>1. Blamed'
      BY <2>1, <2>2, <2>4, <1>1 DEF Blamed, Credit, Spared
    <3> QED BY <3>1, <2>1, <1>6 DEF running
  <2>5. CASE Unblamed
    <3>1. nextSeq > S + 1 \/ (nextSeq = S + 1 /\ concealed # S)
      BY <1>1, <1>6 DEF Resurrects
    <3>2. P * Excess + Credit + flow + 1 <= 3 * P
      BY <2>5, <3>1 DEF Unblamed, P
    <3>3. P * (dry - stuckTicks - 3 - Spared) <= P * (Excess - flow - 3)
      <4>1. dry - stuckTicks - 3 - Spared \in Int /\ Excess - flow - 3 \in Int /\ dry - stuckTicks - 3 - Spared <= Excess - flow - 3
        BY <1>1, <1>2
      <4> QED BY <1>0, <4>1, Times
    <3>4. P * (Excess - flow - 3) + Credit <= P
      <4>1. P * Excess \in Int /\ Excess \in Int
        BY <1>0, <1>1, <1>2
      <4>2. CASE flow = 0
        <5>1. P * (Excess - flow - 3) = P * Excess - 3 * P
          BY <1>0, <4>1, <4>2
        <5> QED BY <1>0, <1>1, <1>2, <3>2, <4>1, <4>2, <5>1
      <4>3. CASE flow = -1
        <5>1. P * (Excess - flow - 3) = P * Excess - 2 * P
          BY <1>0, <4>1, <4>3
        <5> QED BY <1>0, <1>1, <1>2, <3>2, <4>1, <4>3, <5>1
      <4> QED BY <1>1, <4>2, <4>3
    <3>5. P * (dry - stuckTicks - 3 - Spared) + Credit <= P + stuckTicks
      <4>1. P * (dry - stuckTicks - 3 - Spared) \in Int /\ P * (Excess - flow - 3) \in Int
        BY <1>0, <1>1, <1>2
      <4> QED BY <1>0, <1>1, <1>2, <3>3, <3>4, <4>1
    <3>6. Blamed'
      BY <2>1, <2>2, <3>5 DEF Blamed, Credit, Spared, P
    <3> QED BY <3>6, <2>1, <1>6 DEF running
  <2> QED BY <1>1, <1>6, <2>1, <2>3, <2>4, <2>5 DEF running
<1>7. CASE (running => S >= nextSeq) /\ Cardinality(frames \cup {S}) > MAX_BUFFERED /\ Reset
  <2>1. Excess + 1 + MAX_TARGET <= HealBound
    <3>1. CASE ~running
      <4>1. Cardinality(frames \cup {S}) <= Cardinality(frames) + 1
        BY <1>1, FS_AddElement
      <4>2. ~(Cardinality(frames) <= MAX_TARGET + flow)
        <5>1. Cardinality(frames \cup {S}) \in Nat
          BY <1>1, FS_AddElement, FS_CardinalityType
        <5> QED BY <1>0, <1>1, <1>7, <4>1, <5>1
      <4>3. dry = 0
        BY <1>1, <3>1, <4>2 DEF Refilling
      <4> QED BY <1>0, <1>1, <1>2, <4>3
    <3> QED BY <1>3, <3>1
  <2>2. Refilling'
    <3>1. source' \in Nat /\ frames' = {} /\ lastArrival' = Absent /\ dry' \in Nat /\ flow' \in -1 .. 1
          /\ (dry + flow)' + MAX_TARGET <= HealBound
      BY <1>0, <1>1, <1>2, <1>7, <2>1 DEF Reset
    <3> QED BY <3>1, Refills
  <2> QED BY <2>2, <1>7 DEF Reset, running
<1>8. CASE /\ running => S >= nextSeq
           /\ ~(Cardinality(frames \cup {S}) > MAX_BUFFERED)
           /\ frames' = frames \cup {S} /\ lastArrival' = S
           /\ UNCHANGED <<nextSeq, overTicks, heldLast, dropPending, concealed, droppedSincePull, stuckTicks>>
  <2>0. \A g \in Nat : Run(g) => Run(g + 1)'
    <3> TAKE g \in Nat
    <3>1. HAVE Run(g)
    <3>2. \A k \in S + 1 - (g + 1) .. S + 1 - 1 : k = S \/ k \in S - g .. S - 1
      BY <1>1
    <3> QED BY <1>8, <3>1, <3>2 DEF Run
  <2>1. CASE ~running
    <3>1. Cardinality(frames') <= Cardinality(frames) + 1 /\ Cardinality(frames') \in Nat
      <4>1. IsFiniteSet(frames')
            /\ Cardinality(frames') = IF S \in frames THEN Cardinality(frames) ELSE Cardinality(frames) + 1
        BY <1>1, <1>8, FS_AddElement
      <4> QED BY <1>1, <4>1, FS_CardinalityType
    <3>2. dry' = 0 \/ Cardinality(frames') <= MAX_TARGET + flow'
      BY <1>0, <1>1, <2>1, <3>1 DEF Refilling
    <3>3. PICK g \in Nat : Run(g) /\ Excess + MAX_TARGET <= HealBound + g
      BY <1>1, <2>1 DEF Refilling
    <3>4. g + 1 \in Nat /\ Run(g + 1)' /\ Excess' + MAX_TARGET <= HealBound' + (g + 1)
      BY <1>0, <1>1, <1>2, <2>0, <3>3
    <3>5. lastArrival' = source' - 1
      BY <1>1, <1>8
    <3>6. Refilling'
      BY <3>2, <3>4, <3>5 DEF Refilling
    <3> QED BY <3>6, <1>8, <2>1 DEF running
  <2>2. CASE running /\ Ahead
    <3>1. PICK g \in 0 .. MAX_BUFFERED : Run(g) /\ nextSeq <= S - g /\ Excess <= g
      BY <2>2 DEF Ahead
    <3>2. Run(g + 1)' /\ g \in Nat
      BY <1>0, <2>0, <3>1
    <3>3. g + 1 \in 0 .. MAX_BUFFERED
      <4>1. S - g .. S \subseteq frames'
        <5>1. \A k \in S - g .. S : k \in S + 1 - (g + 1) .. S + 1 - 1
          BY <1>1, <3>2
        <5> QED BY <3>2, <5>1 DEF Run
      <4>2. IsFiniteSet(frames') /\ Cardinality(frames') \in Nat /\ Cardinality(frames') <= MAX_BUFFERED
        <5>1. IsFiniteSet(frames')
          BY <1>1, <1>8, FS_AddElement
        <5>2. Cardinality(frames') \in Nat
          BY <5>1, FS_CardinalityType
        <5> QED BY <1>0, <1>8, <5>1, <5>2
      <4>3. Cardinality(S - g .. S) <= Cardinality(frames')
        BY <4>1, <4>2, FS_Subset
      <4>4. Cardinality(S - g .. S) = g + 1
        <5>1. S - g \in Int /\ S \in Int /\ ~(S - g > S) /\ S - (S - g) + 1 = g + 1
          BY <1>1, <3>2
        <5> QED BY <5>1, FS_Interval
      <4> QED BY <1>0, <3>2, <4>2, <4>3, <4>4
    <3>4. nextSeq' <= source' - (g + 1) /\ Excess' <= g + 1
      BY <1>1, <1>2, <1>8, <2>2, <3>1, <3>2
    <3>5. Ahead'
      BY <3>2, <3>3, <3>4 DEF Ahead
    <3> QED BY <3>5, <1>8, <2>2 DEF running
  <2>3. ASSUME running, Near PROVE Near'
    <3>1. \A k \in nextSeq .. S + 1 - 1 : k = S \/ k \in nextSeq .. S - 1
      BY <1>1, <2>3
    <3> QED BY <1>8, <2>3, <3>1 DEF Near
  <2>4. CASE running /\ Blamed
    BY <1>8, <2>3, <2>4 DEF Blamed, Credit, Spared, running
  <2>5. CASE running /\ Unblamed
    <3>1. nextSeq < S /\ ~droppedSincePull /\ Near /\ nextSeq \in Nat
      BY <1>1, <1>8, <2>5 DEF Unblamed
    <3>2. dry + 1 - Spared <= 4
      <4>1. CASE nextSeq = S - 1
        <5>1. Excess + Skips <= 3 /\ (~heldLast => flow >= 0)
          BY <2>5, <4>1 DEF Unblamed
        <5> QED BY <1>1, <1>2, <5>1 DEF Spared
      <4>2. CASE nextSeq < S - 1
        BY <2>5, <4>2 DEF Unblamed
      <4> QED BY <1>1, <3>1, <4>1, <4>2
    <3>3. nextSeq' # source' /\ ~(nextSeq' > source' + 1) /\ nextSeq' # source' + 1 /\ nextSeq' # source' - 1
      BY <1>1, <1>8, <3>1
    <3>4. Near' /\ ~droppedSincePull' /\ (dry + 1 - Spared)' <= 4
      BY <1>8, <2>3, <2>5, <3>1, <3>2 DEF Spared
    <3>5. Unblamed'
      BY <3>3, <3>4 DEF Unblamed
    <3> QED BY <3>5, <1>8, <2>5 DEF running
  <2> QED BY <1>1, <1>8, <2>1, <2>2, <2>4, <2>5 DEF running
<1>9. (running => S >= nextSeq) \/ (running /\ S < nextSeq)
  BY <1>1
<1>10. CASE PushBuffer(S, red) /\ (running => S >= nextSeq)
  BY <1>7, <1>8, <1>10 DEF PushBuffer
<1> QED BY <1>4, <1>5, <1>6, <1>9, <1>10 DEF push

(* The slot a pull that keeps its position plays or conceals.            *)
Moves(l) ==
    /\ l = Slot /\ nextSeq' = l + 1 /\ frames' = {f \in frames : f > l} /\ heldLast' = FALSE
    /\ lastArrival' = lastArrival
    /\ concealed' = (IF Outcome = "Missing" THEN l ELSE Absent)
    /\ droppedSincePull' = (Outcome = "Missing" /\ droppedSincePull)
    /\ Outcome = "Missing" => l \notin frames /\ stuckTicks' = (IF droppedSincePull THEN stuckTicks + 1 ELSE stuckTicks)

LEMMA SlotMoves ==
  ASSUME BufferIInv, BufferTypes, PullSlot, ~GivesUp
  PROVE  /\ \E l \in Nat : Moves(l)
         /\ overTicks' \in 0 .. SHRINK_PATIENCE - 1 /\ dropPending' \in BOOLEAN
         /\ stuckTicks' \in 0 .. REANCHOR_PATIENCE - 1 /\ nextSeq' # Absent
         /\ ~Shrinks => Credit' <= Credit + 1
         /\ Shrinks => /\ Credit' <= Credit + 1 - SHRINK_PATIENCE
                       /\ Skips >= 1 /\ Skips' <= Skips - 1 /\ Skips' <= 1
         /\ Credit' \in Nat /\ Credit' <= 2 * SHRINK_PATIENCE - 1 /\ Skips' \in 0 .. 2
<1> DEFINE P == SHRINK_PATIENCE
<1>1. PICK l \in Nat : l = Slot
  BY StartsAfterPlayed DEF PullSlot
<1>2. PICK over \in BOOLEAN : over <=> Cardinality({f \in frames : f > Slot}) > target + 1
  <2>1. CASE Cardinality({f \in frames : f > Slot}) > target + 1
    <3> WITNESS TRUE \in BOOLEAN
    <3> QED BY <2>1
  <2>2. CASE ~(Cardinality({f \in frames : f > Slot}) > target + 1)
    <3> WITNESS FALSE \in BOOLEAN
    <3> QED BY <2>2
  <2> QED BY <2>1, <2>2
<1>3. /\ frames' = {f \in frames : f > l} /\ nextSeq' = l + 1 /\ heldLast' = FALSE /\ lastArrival' = lastArrival
      /\ concealed' = (IF Outcome = "Missing" THEN l ELSE Absent)
      /\ droppedSincePull' = (Outcome = "Missing" /\ droppedSincePull)
      /\ stuckTicks' = (IF Stuck THEN stuckTicks + 1 ELSE IF Outcome \in Plays THEN 0 ELSE stuckTicks)
      /\ overTicks' = (IF over /\ overTicks + 1 < P THEN overTicks + 1 ELSE 0)
      /\ dropPending' = ((dropPending /\ ~Shrinks) \/ (over /\ overTicks + 1 >= P))
  BY <1>1, <1>2 DEF PullSlot, KeepsDropped
<1>4. /\ P \in Nat /\ P >= 2 /\ overTicks \in 0 .. P - 1 /\ REANCHOR_PATIENCE \in Nat /\ REANCHOR_PATIENCE >= 1
      /\ stuckTicks \in 0 .. REANCHOR_PATIENCE - 1 /\ dropPending \in BOOLEAN /\ droppedSincePull \in BOOLEAN
  BY BoundIs DEF BufferTypes
<1>5. Outcome = "Missing" => Outcome \notin Plays /\ l \notin frames
  BY <1>1 DEF Outcome, Plays
<1>6. Moves(l)
  <2>1. Outcome = "Missing" => stuckTicks' = (IF droppedSincePull THEN stuckTicks + 1 ELSE stuckTicks)
    BY <1>3, <1>5 DEF Stuck
  <2> QED BY <1>1, <1>3, <1>5, <2>1 DEF Moves
<1>7. stuckTicks' \in 0 .. REANCHOR_PATIENCE - 1
  <2>1. Stuck => stuckTicks + 1 < REANCHOR_PATIENCE
    BY <1>4 DEF GivesUp
  <2> QED BY <1>3, <1>4, <2>1
<1>8. overTicks' \in 0 .. P - 1 /\ dropPending' \in BOOLEAN
  BY <1>3, <1>4
<1>9. nextSeq' # Absent
  BY <1>3 DEF Absent
<1>10. PICK o \in 0 .. P - 1, d \in BOOLEAN, c \in Nat, k \in Nat :
         /\ o = overTicks' /\ d = dropPending' /\ c = Credit' /\ k = Skips'
         /\ d => c = P + o /\ k = (IF o = P - 1 THEN 2 ELSE 1)
         /\ ~d => c = o /\ k = 0
  <2>1. PICK o \in 0 .. P - 1, d \in BOOLEAN : o = overTicks' /\ d = dropPending'
    BY <1>8
  <2>2. Credit' = (IF d THEN P ELSE 0) + o /\ Skips' = (IF ~d THEN 0 ELSE IF o = P - 1 THEN 2 ELSE 1)
    BY <2>1 DEF Credit, Skips
  <2>3. CASE d
    <3>1. Credit' = P + o /\ Skips' = (IF o = P - 1 THEN 2 ELSE 1)
      BY <2>2, <2>3
    <3>2. P + o \in Nat /\ (IF o = P - 1 THEN 2 ELSE 1) \in Nat
      BY <1>4
    <3> QED BY <2>1, <2>3, <3>1, <3>2
  <2>4. CASE ~d
    <3>1. Credit' = 0 + o /\ Skips' = 0 /\ 0 + o = o /\ o \in Nat
      BY <2>2, <2>4, <1>4
    <3> QED BY <2>1, <2>4, <3>1
  <2> QED BY <2>3, <2>4
<1>14. /\ Credit = (IF dropPending THEN P ELSE 0) + overTicks
       /\ Skips = (IF ~dropPending THEN 0 ELSE IF overTicks = P - 1 THEN 2 ELSE 1)
       /\ Shrinks => dropPending
  BY DEF Credit, Skips, Shrinks
<1>15. /\ o = (IF over /\ overTicks + 1 < P THEN overTicks + 1 ELSE 0)
       /\ d <=> (dropPending /\ ~Shrinks) \/ (over /\ overTicks + 1 >= P)
  BY <1>3, <1>10
<1> HIDE DEF P
<1>11. ~Shrinks => c <= Credit + 1
  BY <1>4, <1>10, <1>14, <1>15
<1>12. Shrinks => c <= Credit + 1 - P /\ Skips >= 1 /\ k <= Skips - 1 /\ k <= 1
  BY <1>4, <1>10, <1>14, <1>15
<1>13. c <= 2 * P - 1 /\ k \in 0 .. 2
  <2>1. P \in Nat /\ P >= 2 /\ o \in Nat /\ o <= P - 1
    BY <1>4, <1>10
  <2>2. CASE d
    <3>1. c = P + o /\ k = (IF o = P - 1 THEN 2 ELSE 1)
      BY <1>10, <2>2
    <3>2. P + o <= 2 * P - 1
      BY <2>1
    <3>3. k \in 0 .. 2
      BY <3>1
    <3> QED BY <3>1, <3>2, <3>3
  <2>3. CASE ~d
    BY <1>10, <2>1, <2>3
  <2> QED BY <2>2, <2>3
<1> QED BY <1>6, <1>7, <1>8, <1>9, <1>10, <1>11, <1>12, <1>13 DEF P

LEMMA PullTypes ==
  ASSUME BufferIInv, BufferTypes, pull
  PROVE  BufferTypes'
<1>0. target' \in MIN_TARGET .. MAX_TARGET
  BY DEF pull, BufferTypes
<1>1. CASE PullWaiting
  BY <1>0, <1>1 DEF PullWaiting, anchor, BufferTypes, running
<1>2. CASE PullHold
  <2>1. Start \in Nat /\ Start \in frames
    BY <1>2, StartsAfterPlayed DEF PullHold, Holds
  <2>2. nextSeq' \in frames' /\ nextSeq' # Absent
    BY <1>2, <2>1 DEF PullHold, Absent
  <2> QED BY <1>0, <1>2, <2>2 DEF PullHold, BufferTypes, running
<1>3. CASE PullSlot /\ GivesUp
  BY <1>0, <1>3, ResetTypes DEF PullSlot
<1>4. CASE PullSlot /\ ~GivesUp
  <2>1. PICK l \in Nat : Moves(l)
    BY <1>4, SlotMoves
  <2>2. IsFiniteSet(frames')
    <3>1. frames' \in SUBSET frames
      BY <2>1 DEF Moves
    <3> QED BY <3>1, FS_Subset DEF BufferTypes
  <2>3. lastArrival' = lastArrival /\ heldLast' = FALSE /\ droppedSincePull' \in BOOLEAN
    BY <2>1 DEF Moves
  <2>4. /\ overTicks' \in 0 .. SHRINK_PATIENCE - 1 /\ dropPending' \in BOOLEAN
        /\ stuckTicks' \in 0 .. REANCHOR_PATIENCE - 1 /\ nextSeq' # Absent
    BY <1>4, SlotMoves
  <2> QED BY <1>0, <2>2, <2>3, <2>4 DEF BufferTypes, running
<1> QED BY <1>1, <1>2, <1>3, <1>4 DEF pull

LEMMA Sums ==
  ASSUME NEW a \in Nat, NEW p \in Int, NEW c \in Nat, NEW t \in Nat,
         \/ p <= -(2 * a) /\ c <= 2 * a - 1
         \/ \E q \in Int, d \in Nat : p - a <= q /\ q + d <= a + t /\ c <= d + 1 - a
  PROVE  p + c <= a + t + 1
OBVIOUS

(* A pull that conceals its slot and keeps the position.                 *)
LEMMA MissingHeals ==
  ASSUME HealIInv, source \in Nat, flow \in 0 .. 1, running, PullSlot, ~GivesUp, Outcome = "Missing",
         source' = source, flow' = flow - 1, dry' = dry + 1
  PROVE  (Ahead \/ Blamed \/ Unblamed)'
<1> DEFINE P == SHRINK_PATIENCE
           S == source
           e == dry + flow
<1>0. P \in Nat \ {0} /\ P \in Nat /\ P >= 2 /\ MAX_BUFFERED \in Nat
  BY BoundIs
<1>1. /\ S \in Nat /\ dry \in Nat /\ frames \subseteq Nat /\ nextSeq \in Nat /\ concealed \in Nat \cup {-1} /\ Absent = -1
      /\ heldLast \in BOOLEAN /\ droppedSincePull \in BOOLEAN /\ stuckTicks \in Nat
      /\ overTicks \in 0 .. P - 1 /\ dropPending \in BOOLEAN
      /\ heldLast => nextSeq \in frames
      /\ Ahead \/ Blamed \/ Unblamed
  <2>1. REANCHOR_PATIENCE \in Nat
    BY BoundIs
  <2> QED BY <2>1 DEF HealIInv, BufferTypes, BufferIInv, running, Absent
<1>2. PICK l \in Nat : Moves(l)
  BY SlotMoves DEF HealIInv
<1>3. /\ nextSeq' = l + 1 /\ frames' = {f \in frames : f > l} /\ heldLast' = FALSE /\ concealed' = l /\ l \notin frames
      /\ droppedSincePull' = droppedSincePull
      /\ stuckTicks' = (IF droppedSincePull THEN stuckTicks + 1 ELSE stuckTicks)
  BY <1>2, <1>1 DEF Moves
<1>4. PICK c \in Nat, k \in 0 .. 2 :
        /\ c = Credit' /\ k = Skips' /\ c <= 2 * P - 1
        /\ ~Shrinks => c <= Credit + 1
        /\ Shrinks => c <= Credit + 1 - P /\ Skips >= 1 /\ k <= Skips - 1 /\ k <= 1
  BY SlotMoves DEF HealIInv
<1>5. /\ Shrinks => l = nextSeq + 1 /\ nextSeq \in frames
      /\ ~Shrinks => l = nextSeq /\ ~heldLast
  <2>1. Start = nextSeq
    BY DEF Start
  <2>2. Shrinks => l = nextSeq + 1 /\ nextSeq \in frames
    BY <1>2, <2>1 DEF Moves, Slot, Shrinks
  <2>3. ~Shrinks => l = nextSeq
    BY <1>2, <2>1 DEF Moves, Slot
  <2> QED BY <1>1, <1>3, <2>2, <2>3
<1>6. /\ Credit \in Nat /\ Credit = (IF dropPending THEN P ELSE 0) + overTicks
      /\ Skips = (IF ~dropPending THEN 0 ELSE IF overTicks = P - 1 THEN 2 ELSE 1)
      /\ Spared = (IF heldLast THEN 1 ELSE 0) /\ Spared' = 0 /\ e \in Int /\ dry <= e
      /\ Excess = e /\ Excess' = e
  BY <1>0, <1>1, <1>3 DEF Credit, Skips, Spared, Excess
<1> HIDE DEF P
<1>7. ASSUME Near', droppedSincePull, P * (dry - stuckTicks - 3) + c <= P + stuckTicks + 1
      PROVE  Blamed'
  <2>1. stuckTicks' = stuckTicks + 1
    BY <1>3, <1>7
  <2>2. dry' - stuckTicks' - 3 - Spared' = dry - stuckTicks - 3
    BY <1>1, <1>6, <2>1
  <2>3. P * (dry' - stuckTicks' - 3 - Spared') + Credit' <= P + stuckTicks'
    <3>1. PICK t : t = stuckTicks'
      OBVIOUS
    <3>2. t = stuckTicks + 1
      BY <2>1, <3>1
    <3>3. P * (dry - stuckTicks - 3) + c <= P + t
      <4>1. P + t = P + stuckTicks + 1
        BY <1>0, <1>1, <3>2
      <4> QED BY <1>7, <4>1
    <3> QED BY <1>4, <2>2, <3>1, <3>3
  <2> QED BY <1>3, <1>7, <2>3 DEF Blamed, P
<1>8. ASSUME Near', ~droppedSincePull, l >= S,
             l > S => P * e + c + flow <= 3 * P,
             l = S => e + k <= 2
      PROVE  Unblamed'
  <2>1. nextSeq' # source' /\ nextSeq' # source' - 1 /\ ~(nextSeq' < source' - 1)
    BY <1>1, <1>3, <1>8
  <2>2. nextSeq' > source' + 1 \/ (nextSeq' = source' + 1 /\ concealed' # source') => l > S
    BY <1>1, <1>3, <1>8
  <2>3. l > S => P * Excess' + Credit' + flow' + 1 <= 3 * P
    <3>1. P * e \in Int /\ 3 * P \in Int
      BY <1>0, <1>6
    <3> QED BY <1>4, <1>6, <1>8, <3>1
  <2>4. nextSeq' = source' + 1 /\ concealed' = source' => Excess' + Skips' <= 2 /\ flow' <= 0
    <3>1. ASSUME nextSeq' = source' + 1 PROVE l = S
      <4>1. l + 1 = S + 1
        BY <1>3, <3>1
      <4> QED BY <1>1, <4>1
    <3>2. l = S => Excess' + Skips' <= 2
      <4>1. l = S => e + k <= 2
        BY <1>8
      <4> QED BY <1>4, <1>6, <4>1
    <3>3. flow' <= 0
      OBVIOUS
    <3> QED BY <3>1, <3>2, <3>3
  <2> QED BY <1>3, <1>8, <2>1, <2>2, <2>3, <2>4 DEF Unblamed, P
<1>9. Near => Near'
  <2>1. SUFFICES ASSUME Near PROVE Near'
    OBVIOUS
  <2>2. \A j \in l + 1 .. S - 1 : j \in nextSeq .. S - 1 /\ j > l
    BY <1>1, <1>5
  <2> QED BY <1>3, <2>1, <2>2 DEF Near
<1>10. FewOf(P)
  BY <1>0, FewTimes DEF FewOf
<1>11. CASE Ahead
  <2>1. PICK g \in 0 .. MAX_BUFFERED : Run(g) /\ nextSeq <= S - g /\ e <= g
    BY <1>6, <1>11 DEF Ahead
  <2>2. CASE l < S - g
    <3>1. \A j \in S - g .. S - 1 : j \in frames'
      <4>1. \A j \in S - g .. S - 1 : j > l
        BY <1>0, <1>1, <2>2
      <4> QED BY <1>3, <2>1, <4>1 DEF Run
    <3>2. nextSeq' <= source' - g /\ Excess' <= g
      BY <1>0, <1>1, <1>3, <1>6, <2>1, <2>2
    <3>3. Run(g)'
      BY <3>1 DEF Run
    <3> QED BY <2>1, <3>2, <3>3 DEF Ahead
  <2>3. CASE ~(l < S - g)
    <3>1. l >= S
      <4>1. ~(l \in S - g .. S - 1)
        BY <1>3, <2>1 DEF Run
      <4> QED BY <1>0, <1>1, <2>3, <4>1
    <3>2. Near'
      <4>1. \A j \in l + 1 .. S - 1 : FALSE
        BY <1>1, <3>1
      <4> QED BY <1>3, <4>1 DEF Near
    <3>3. g \in 0 .. 1 /\ (g = 1 => Shrinks /\ l = S) /\ (l > S => g = 0)
      BY <1>0, <1>1, <1>5, <2>1, <3>1
    <3>4. e <= 1 /\ dry <= 1 /\ (l > S => e <= 0) /\ (~Shrinks => e <= 0)
      BY <1>1, <1>6, <2>1, <3>3
    <3>5. CASE droppedSincePull
      <4>1. P * (dry - stuckTicks - 3) <= P * (-2) /\ P * (dry - stuckTicks - 3) \in Int
        <5>1. dry - stuckTicks - 3 \in Int /\ dry - stuckTicks - 3 <= -2 /\ -2 \in Int
          BY <1>1, <3>4
        <5> QED BY <1>0, <5>1, Times
      <4>2. PICK p \in Int : p = P * (dry - stuckTicks - 3) /\ p <= -(2 * P)
        BY <1>10, <4>1 DEF FewOf
      <4>3. p + c <= P + stuckTicks + 1
        BY <1>0, <1>1, <1>4, <4>2, Sums
      <4> QED BY <1>7, <3>2, <3>5, <4>2, <4>3
    <3>6. CASE ~droppedSincePull
      <4>1. l > S => P * e + c + flow <= 3 * P
        <5>1. SUFFICES ASSUME l > S PROVE P * e + c + flow <= 3 * P
          OBVIOUS
        <5>2. P * e <= P * 0 /\ P * e \in Int
          BY <1>0, <1>6, <3>4, <5>1, Times
        <5> QED BY <1>0, <1>4, <1>10, <5>2 DEF FewOf
      <4>2. l = S => e + k <= 2
        BY <1>4, <1>6, <3>4
      <4> QED BY <1>8, <3>1, <3>2, <3>6, <4>1, <4>2
    <3> QED BY <1>1, <3>5, <3>6
  <2> QED BY <2>2, <2>3
<1>12. CASE Blamed
  <2> DEFINE y == dry - stuckTicks - 3
  <2>1. P * (y - Spared) + Credit <= P + stuckTicks /\ Near /\ droppedSincePull /\ y \in Int
    BY <1>1, <1>12 DEF Blamed, P
  <2>2. P * y + c <= P + stuckTicks + 1
    <3>1. CASE ~Shrinks
      <4>1. y - Spared = y
        BY <1>5, <1>6, <2>1, <3>1
      <4>2. P * y \in Int
        BY <1>0, <2>1
      <4>3. P * y + Credit <= P + stuckTicks
        BY <2>1, <4>1
      <4> HIDE DEF y
      <4> QED BY <1>0, <1>1, <1>4, <1>6, <3>1, <4>2, <4>3
    <3>2. CASE Shrinks
      <4>1. P * (y - 1) <= P * (y - Spared) /\ P * (y - 1) \in Int /\ P * (y - Spared) \in Int
        <5>1. y - 1 \in Int /\ y - Spared \in Int /\ y - 1 <= y - Spared
          BY <1>1, <1>6, <2>1
        <5> QED BY <1>0, <5>1, Times
      <4>2. P * (y - 1) = P * y - P /\ P * y \in Int
        BY <1>0, <2>1
      <4>3. PICK p \in Int, q \in Int : p = P * y /\ q = P * (y - Spared)
        BY <4>1, <4>2
      <4>4. p - P <= q /\ q + Credit <= P + stuckTicks /\ c <= Credit + 1 - P
        BY <1>4, <2>1, <3>2, <4>1, <4>2, <4>3
      <4>5. p + c <= P + stuckTicks + 1
        BY <1>0, <1>1, <1>4, <1>6, <4>3, <4>4, Sums
      <4> QED BY <4>3, <4>5
    <3> QED BY <3>1, <3>2
  <2> QED BY <1>7, <1>9, <2>1, <2>2
<1>13. CASE Unblamed
  <2>0. Near /\ ~droppedSincePull /\ nextSeq # S
    BY <1>13 DEF Unblamed
  <2>1. CASE nextSeq > S + 1 \/ (nextSeq = S + 1 /\ concealed # S)
    <3>1. P * e + Credit + flow + 1 <= 3 * P /\ P * e \in Int /\ 3 * P \in Int
      BY <1>0, <1>6, <1>13, <2>1 DEF Unblamed, P
    <3>2. P * e + c + flow <= 3 * P
      BY <1>0, <1>4, <1>6, <3>1
    <3>3. l > S
      BY <1>1, <1>5, <2>1
    <3> QED BY <1>1, <1>8, <1>9, <2>0, <3>2, <3>3
  <2>2. CASE nextSeq = S + 1 /\ concealed = S
    <3>1. e + Skips <= 2 /\ flow = 0
      BY <1>6, <1>13, <2>2 DEF Unblamed
    <3>2. PICK j \in 0 .. 2 : j = Skips
      BY <1>6
    <3>3. P * e <= P * (2 - j) /\ P * e \in Int
      BY <1>0, <1>6, <3>1, <3>2, Times
    <3>4. P * e + c <= 3 * P
      <4>1. CASE j = 0
        <5>1. ~Shrinks /\ ~dropPending
          BY <1>4, <1>6, <3>2, <4>1
        <5>2. c <= P
          BY <1>0, <1>1, <1>4, <1>6, <5>1
        <5> QED BY <1>0, <1>10, <3>3, <4>1, <5>2 DEF FewOf
      <4>2. CASE j = 1
        BY <1>0, <1>4, <1>10, <3>3, <4>2 DEF FewOf
      <4>3. CASE j = 2
        BY <1>0, <1>4, <1>10, <3>3, <4>3 DEF FewOf
      <4> QED BY <3>2, <4>1, <4>2, <4>3
    <3>5. l > S
      BY <1>1, <1>5, <2>2
    <3>6. P * e + c + flow <= 3 * P
      BY <3>1, <3>3, <3>4, <1>0
    <3> QED BY <1>1, <1>8, <1>9, <2>0, <3>5, <3>6
  <2>3. CASE nextSeq = S - 1
    <3>1. nextSeq \in frames
      BY <1>1, <2>0, <2>3 DEF Near
    <3>2. Shrinks /\ l = S
      BY <1>1, <1>3, <1>5, <2>3, <3>1
    <3>3. e + Skips <= 3
      BY <1>6, <1>13, <2>3 DEF Unblamed
    <3>4. e + k <= 2
      BY <1>4, <1>6, <3>2, <3>3
    <3> QED BY <1>1, <1>8, <1>9, <2>0, <3>2, <3>4
  <2>4. CASE nextSeq < S - 1
    <3>1. nextSeq \in nextSeq .. S - 1 /\ nextSeq + 1 \in nextSeq .. S - 1
      BY <1>1, <2>4
    <3> QED BY <1>3, <1>5, <2>0, <3>1 DEF Near
  <2> QED BY <1>1, <2>0, <2>1, <2>2, <2>3, <2>4
<1> QED BY <1>1, <1>11, <1>12, <1>13

(* A pull that plays: whatever comes next, the gap starts from nothing.  *)
LEMMA PlayedHeals ==
  ASSUME HealIInv, source \in Nat, flow \in 0 .. 1, PullSlot, ~GivesUp, Outcome # "Missing",
         source' = source, flow' = flow - 1, dry' = 0
  PROVE  nextSeq' # Absent /\ (Ahead \/ Unblamed)'
<1> DEFINE P == SHRINK_PATIENCE
           S == source
<1>0. P \in Nat \ {0} /\ P \in Nat /\ P >= 2 /\ MAX_BUFFERED \in Nat
  BY BoundIs
<1>1. PICK l \in Nat : Moves(l)
  BY SlotMoves DEF HealIInv
<1>2. nextSeq' = l + 1 /\ concealed' = Absent /\ droppedSincePull' = FALSE
  BY <1>1 DEF Moves
<1>3. PICK c \in Nat : c = Credit' /\ c <= 2 * P - 1
  BY SlotMoves DEF HealIInv
<1>4. PICK e \in -1 .. 0 : e = flow - 1
  OBVIOUS
<1>5. Excess' = e /\ flow' = e
  BY <1>4 DEF Excess
<1>6. nextSeq' # Absent
  BY <1>2 DEF Absent
<1> HIDE DEF P
<1>7. CASE l + 1 <= S
  <2>1. nextSeq' <= source' - 0 /\ Excess' <= 0 /\ 0 \in 0 .. MAX_BUFFERED
    BY <1>0, <1>2, <1>5, <1>7
  <2>2. \A n \in Nat : n - 0 .. n - 1 = {}
    OBVIOUS
  <2>3. Run(0)'
    BY <2>2 DEF Run
  <2>4. Ahead'
    BY <2>1, <2>3 DEF Ahead
  <2> QED BY <1>6, <2>4
<1>8. CASE ~(l + 1 <= S)
  <2>1. Near'
    <3>1. \A j \in l + 1 .. S - 1 : FALSE
      BY <1>8
    <3> QED BY <1>2, <3>1 DEF Near
  <2>2. nextSeq' # source' /\ nextSeq' # source' - 1 /\ ~(nextSeq' < source' - 1) /\ concealed' # source'
    BY <1>2, <1>8 DEF Absent
  <2>3. P * Excess' + Credit' + flow' + 1 <= 3 * P
    <3>1. P * e <= P * 0 /\ P * e \in Int /\ P * 0 = 0
      BY <1>0, <1>4, Times
    <3>2. PICK p \in Int : p = P * e
      BY <3>1
    <3>3. p + c + e + 1 <= 3 * P
      <4>1. P \in Nat /\ e \in Int /\ e <= 0 /\ p <= 0 /\ c <= 2 * P - 1
        BY <1>0, <1>3, <1>4, <3>1, <3>2
      <4> QED BY <4>1
    <3> QED BY <1>3, <1>5, <3>2, <3>3
  <2>4. Unblamed'
    BY <1>2, <2>1, <2>2, <2>3 DEF Unblamed, P
  <2> QED BY <1>6, <2>4
<1> QED BY <1>7, <1>8

(* A tick in turn, one case of pull each.                                  *)
LEMMA PullHeals ==
  ASSUME HealIInv, source \in Nat, flow \in 0 .. 1, pull,
         source' = source, flow' = flow - 1, dry' = IF result' \in Plays THEN 0 ELSE dry + 1
  PROVE  /\ dry' <= HealBound
         /\ IF running' THEN (Ahead \/ Blamed \/ Unblamed)' ELSE Refilling'
<1> DEFINE S == source
<1>0. /\ HealBound \in Nat /\ MAX_TARGET \in Nat /\ MAX_TARGET >= 1 /\ MAX_BUFFERED \in Nat
      /\ HealBound' = HealBound
  BY BoundIs DEF HealBound, HealTurns
<1>1. /\ S \in Nat /\ S # Absent /\ dry \in Nat /\ frames \subseteq Nat /\ IsFiniteSet(frames) /\ Cardinality(frames) \in Nat
      /\ nextSeq \in Nat \cup {-1} /\ Absent = -1 /\ (running <=> nextSeq \in Nat)
      /\ heldLast \in BOOLEAN /\ droppedSincePull \in BOOLEAN
      /\ target \in Nat /\ target <= MAX_TARGET
      /\ heldLast => nextSeq \in frames
      /\ ~running => ~dropPending
      /\ IF running THEN Ahead \/ Blamed \/ Unblamed ELSE Refilling
  <2>1. \A t \in MIN_TARGET .. MAX_TARGET : t \in Nat /\ t <= MAX_TARGET
    BY TargetAssumption
  <2> QED BY <2>1, FS_CardinalityType DEF HealIInv, BufferTypes, BufferIInv, running, Absent
<1>2. running => Excess + MAX_TARGET <= HealBound
  BY <1>1, GapLeavesRoom DEF HealIInv
<1>3. "Waiting" \notin Plays /\ "Missing" \notin Plays /\ (Outcome = "Missing" \/ Outcome \in Plays)
  BY DEF Plays, Outcome
<1>4. running => dry + 1 <= HealBound
  BY <1>0, <1>1, <1>2 DEF Excess
<1>5. ~running /\ Fills => ~Holds /\ Outcome # "Missing"
  <2>1. SUFFICES ASSUME ~running, Fills PROVE ~Holds /\ Outcome # "Missing"
    OBVIOUS
  <2>2. ~Holds
    <3>1. Cardinality(frames) >= target
      BY <2>1 DEF Fills
    <3>2. ~(Cardinality(frames) < target)
      BY <1>1, <3>1
    <3> QED BY <3>2 DEF Holds
  <2>3. Start \in frames /\ ~Shrinks
    BY <1>1, <2>1, LeastOfSet DEF Start, Fills, Shrinks
  <2>4. Slot \in frames
    BY <2>3 DEF Slot
  <2> QED BY <2>2, <2>4 DEF Outcome
<1>6. CASE PullWaiting
  <2>1. ~running /\ ~Fills /\ dry' = dry + 1 /\ frames' = frames /\ lastArrival' = lastArrival /\ nextSeq' = nextSeq
    BY <1>3, <1>6 DEF PullWaiting, anchor
  <2>2. Cardinality(frames) <= MAX_TARGET - 1
    <3>1. CASE frames = {}
      BY <1>0, <3>1, FS_EmptySet
    <3>2. CASE ~(Cardinality(frames) >= target)
      BY <1>0, <1>1, <3>2
    <3> QED BY <2>1, <3>1, <3>2 DEF Fills
  <2>3. PICK g \in Nat : Run(g) /\ Excess + MAX_TARGET <= HealBound + g
    BY <1>1, <2>1 DEF Refilling
  <2>4. g <= Cardinality(frames)
    <3>1. \A k \in S - g .. S - 1 : k \in frames
      BY <2>3 DEF Run
    <3>2. S - g .. S - 1 \in SUBSET frames
      BY <3>1
    <3>3. Cardinality(S - g .. S - 1) <= Cardinality(frames)
      BY <1>1, <3>2, FS_Subset
    <3>4. Cardinality(S - g .. S - 1) = g
      <4>1. S - g \in Int /\ S - 1 \in Int /\ (IF S - g > S - 1 THEN 0 ELSE S - 1 - (S - g) + 1) = g
        BY <1>1
      <4>2. Cardinality(S - g .. S - 1) = IF S - g > S - 1 THEN 0 ELSE S - 1 - (S - g) + 1
        BY <4>1, FS_Interval
      <4> QED BY <4>1, <4>2
    <3> QED BY <3>3, <3>4
  <2>5. dry + 1 <= HealBound
    BY <1>0, <1>1, <2>2, <2>3, <2>4 DEF Excess
  <2>6. Excess' = Excess
    BY <1>1, <2>1 DEF Excess
  <2>7. Run(g)' /\ Excess' + MAX_TARGET <= HealBound' + g
    BY <1>0, <2>1, <2>3, <2>6 DEF Run
  <2>8. Cardinality(frames') <= MAX_TARGET + flow'
    <3>1. PICK n \in Nat : n = Cardinality(frames) /\ n <= MAX_TARGET - 1
      BY <1>1, <2>2
    <3>2. n <= MAX_TARGET + (flow - 1)
      BY <1>0, <3>1
    <3> QED BY <2>1, <3>1, <3>2
  <2>9. lastArrival' \in {Absent, source' - 1} \/ Excess' <= 0
    BY <1>1, <2>1, <2>6 DEF Refilling
  <2>10. Refilling'
    BY <2>7, <2>8, <2>9 DEF Refilling
  <2> QED BY <2>1, <2>5, <2>10 DEF running
<1>7. CASE PullHold
  <2>1. running /\ Start = nextSeq /\ ~heldLast /\ nextSeq \in frames
    <3>1. running
      BY <1>5, <1>7 DEF PullHold
    <3> QED BY <3>1, <1>7 DEF PullHold, Holds, Start
  <2>2. /\ heldLast' = TRUE /\ nextSeq' = nextSeq /\ dry' = dry + 1
        /\ UNCHANGED <<frames, overTicks, dropPending, concealed, droppedSincePull, stuckTicks>>
    BY <1>3, <1>7, <2>1 DEF PullHold
  <2>3. Excess' = Excess /\ Spared = 0 /\ Spared' = 1 /\ Credit' = Credit /\ Skips' = Skips /\ (Near <=> Near')
    BY <1>1, <2>1, <2>2 DEF Excess, Spared, Credit, Skips, Near
  <2>7. dry' <= HealBound /\ running'
    BY <1>4, <2>1, <2>2 DEF running
  <2>4. CASE Ahead
    <3>1. PICK g \in 0 .. MAX_BUFFERED : Run(g) /\ nextSeq <= source - g /\ Excess <= g
      BY <2>4 DEF Ahead
    <3>2. Run(g)' /\ nextSeq' <= source' - g /\ Excess' <= g
      BY <2>2, <2>3, <3>1 DEF Run
    <3>3. Ahead'
      BY <3>1, <3>2 DEF Ahead
    <3> QED BY <2>7, <3>3
  <2>5. CASE Blamed
    <3>1. stuckTicks \in Int
      BY BoundIs DEF HealIInv, BufferTypes
    <3>2. dry' - stuckTicks' - 3 - Spared' = dry - stuckTicks - 3 - Spared
      <4>2. PICK d, t, h : d = dry' /\ t = stuckTicks' /\ h = Spared'
        OBVIOUS
      <4>3. d = dry + 1 /\ t = stuckTicks /\ h = 1
        BY <2>2, <2>3, <4>2
      <4>4. d - t - 3 - h = dry - stuckTicks - 3 - 0
        BY <1>1, <3>1, <4>3
      <4> QED BY <2>3, <4>2, <4>4
    <3>3. Blamed'
      BY <2>2, <2>3, <2>5, <3>2 DEF Blamed
    <3> QED BY <2>7, <3>3
  <2>6. CASE Unblamed
    <3>1. PICK x \in Int : x = Excess
      BY <1>1 DEF Excess
    <3>2. nextSeq > source + 1 \/ (nextSeq = source + 1 /\ concealed # source) =>
            SHRINK_PATIENCE * x + Credit + (flow - 1) + 1 <= 3 * SHRINK_PATIENCE
      <4>1. SUFFICES ASSUME nextSeq > source + 1 \/ (nextSeq = source + 1 /\ concealed # source)
                     PROVE  SHRINK_PATIENCE * x + Credit + (flow - 1) + 1 <= 3 * SHRINK_PATIENCE
        OBVIOUS
      <4>2. SHRINK_PATIENCE * x + Credit + flow + 1 <= 3 * SHRINK_PATIENCE
        BY <2>6, <3>1, <4>1 DEF Unblamed
      <4>3. SHRINK_PATIENCE * x \in Int /\ Credit \in Int /\ SHRINK_PATIENCE \in Nat
        BY BoundIs DEF HealIInv, BufferTypes, Credit
      <4> QED BY <4>2, <4>3
    <3>3. nextSeq = source + 1 /\ concealed = source => x + Skips <= 2 /\ flow - 1 <= 0
      BY <2>6, <3>1 DEF Unblamed
    <3>4. nextSeq = source - 1 => x + Skips <= 3
      BY <2>6, <3>1 DEF Unblamed
    <3>5. nextSeq < source - 1 => (dry + 1) + 1 - 1 <= 4
      BY <1>1, <2>3, <2>6 DEF Unblamed
    <3>6. Near /\ ~droppedSincePull /\ nextSeq # source
      BY <2>6 DEF Unblamed
    <3>7. Unblamed'
      BY <2>2, <2>3, <3>1, <3>2, <3>3, <3>4, <3>5, <3>6 DEF Unblamed
    <3> QED BY <2>7, <3>7
  <2> QED BY <1>1, <2>1, <2>4, <2>5, <2>6
<1>8. CASE PullSlot /\ GivesUp
  <2>1. running /\ Outcome = "Missing" /\ Reset /\ result' = Outcome
    BY <1>5, <1>8 DEF PullSlot, GivesUp, Stuck
  <2>2. dry' = dry + 1
    BY <1>3, <2>1
  <2>3. (dry + flow)' + MAX_TARGET <= HealBound
    <3>1. (dry + 1) + (flow - 1) + MAX_TARGET <= HealBound
      BY <1>0, <1>1, <1>2, <2>1 DEF Excess
    <3> QED BY <2>2, <3>1
  <2>4. source' \in Nat /\ frames' = {} /\ lastArrival' = Absent /\ dry' \in Nat /\ flow' \in -1 .. 1 /\ nextSeq' = Absent
    BY <1>1, <2>1, <2>2 DEF Reset
  <2>5. Refilling'
    BY <2>3, <2>4, Refills
  <2> QED BY <1>4, <2>1, <2>2, <2>4, <2>5 DEF running
<1>9. CASE PullSlot /\ ~GivesUp /\ Outcome = "Missing"
  <2>1. running
    BY <1>5, <1>9 DEF PullSlot
  <2>2. dry' = dry + 1
    BY <1>3, <1>9 DEF PullSlot
  <2>3. (Ahead \/ Blamed \/ Unblamed)'
    BY <1>9, <2>1, <2>2, MissingHeals
  <2>4. running'
    BY <1>9, SlotMoves DEF HealIInv, running
  <2> QED BY <1>4, <2>1, <2>2, <2>3, <2>4
<1>10. CASE PullSlot /\ ~GivesUp /\ Outcome # "Missing"
  <2>1. dry' = 0
    BY <1>3, <1>10 DEF PullSlot
  <2>2. nextSeq' # Absent /\ (Ahead \/ Unblamed)'
    BY <1>10, <2>1, PlayedHeals
  <2> QED BY <1>0, <2>1, <2>2 DEF running
<1> QED BY <1>6, <1>7, <1>8, <1>9, <1>10 DEF pull

LEMMA HealStarts == BufferInit => HealIInv
<1>1. SUFFICES ASSUME BufferInit PROVE HealIInv
  OBVIOUS
<1>2. BufferIInv
  BY <1>1, BufferStarts
<1>3. BufferTypes
  <2>1. MIN_TARGET \in MIN_TARGET .. MAX_TARGET /\ 0 \in 0 .. SHRINK_PATIENCE - 1 /\ 0 \in 0 .. REANCHOR_PATIENCE - 1
    BY BoundIs, TargetAssumption
  <2> QED BY <1>1, <2>1, FS_EmptySet DEF BufferInit, BufferTypes, running
<1> QED BY <1>1, <1>2, <1>3, BoundIs DEF BufferInit, HealIInv, Absent

(* The gap starts from nothing when the stream settles.                    *)
LEMMA SettleHeals ==
  ASSUME HealIInv, NEW s \in Nat, Settle(s)
  PROVE  IF running' THEN (Ahead \/ Blamed \/ Unblamed)' ELSE Refilling'
<1> DEFINE P == SHRINK_PATIENCE
<1>0. P \in Nat \ {0} /\ P \in Nat /\ P >= 2 /\ MAX_BUFFERED \in Nat /\ HealBound \in Nat /\ HealBound' = HealBound
      /\ MAX_TARGET \in Nat /\ MAX_TARGET <= HealBound
  BY BoundIs DEF HealBound, HealTurns
<1>1. /\ source' = s /\ dry = 0 /\ flow = 0 /\ UNCHANGED <<dry, flow, frames, nextSeq, lastArrival, concealed>>
      /\ UNCHANGED <<overTicks, heldLast, dropPending, droppedSincePull, stuckTicks>>
  BY DEF Settle, HealIInv, anchor
<1>2. /\ nextSeq \in Nat \cup {-1} /\ Absent = -1 /\ stuckTicks \in Nat
      /\ overTicks \in 0 .. P - 1 /\ heldLast \in BOOLEAN /\ dropPending \in BOOLEAN /\ droppedSincePull \in BOOLEAN
  <2>1. REANCHOR_PATIENCE \in Nat
    BY BoundIs
  <2> QED BY <2>1 DEF HealIInv, BufferTypes, BufferIInv, Absent
<1>3. Excess' = 0 /\ Credit' = Credit /\ Skips' = Skips /\ Spared' = Spared
  BY <1>1 DEF Excess, Credit, Skips, Spared
<1>4. Credit \in Nat /\ Credit <= 2 * P - 1 /\ Skips \in 0 .. 2 /\ Spared \in 0 .. 1
  <2>1. CASE dropPending
    BY <1>0, <1>2, <2>1 DEF Credit, Skips, Spared
  <2>2. CASE ~dropPending
    BY <1>0, <1>2, <2>2 DEF Credit, Skips, Spared
  <2> QED BY <2>1, <2>2
<1>5. FewOf(P)
  BY <1>0, FewTimes DEF FewOf
<1>6. Run(0)'
  <2>1. \A n \in Nat : n - 0 .. n - 1 = {}
    OBVIOUS
  <2> QED BY <1>1, <2>1 DEF Run
<1> HIDE DEF P
<1>7. CASE ~running
  <2>1. Excess' <= 0 /\ dry' = 0 /\ Excess' + MAX_TARGET <= HealBound' + 0 /\ 0 \in Nat
    BY <1>0, <1>1, <1>3
  <2>2. Refilling'
    BY <1>6, <2>1 DEF Refilling
  <2> QED BY <1>1, <1>7, <2>2 DEF running
<1>8. CASE running /\ nextSeq <= s
  <2>1. 0 \in 0 .. MAX_BUFFERED /\ nextSeq' <= source' - 0 /\ Excess' <= 0
    BY <1>0, <1>1, <1>3, <1>8
  <2>2. Ahead'
    BY <1>6, <2>1 DEF Ahead
  <2> QED BY <1>1, <1>8, <2>2 DEF running
<1>9. CASE running /\ ~(nextSeq <= s)
  <2>1. nextSeq \in Nat /\ nextSeq > s
    BY <1>2, <1>9 DEF running
  <2>2. Near'
    <3>1. \A j \in nextSeq .. s - 1 : FALSE
      BY <2>1
    <3> QED BY <1>1, <3>1 DEF Near
  <2>3. CASE droppedSincePull
    <3>1. PICK h \in 0 .. 1 : h = Spared
      BY <1>4
    <3>2. P * (0 - stuckTicks - 3 - h) <= P * (-2)
      <4>1. 0 - stuckTicks - 3 - h \in Int /\ 0 - stuckTicks - 3 - h <= -2 /\ -2 \in Int
        BY <1>2, <3>1
      <4> QED BY <1>0, <4>1, Times
    <3>3. PICK p \in Int : p = P * (0 - stuckTicks - 3 - h) /\ p <= -(2 * P)
      <4>1. P * (0 - stuckTicks - 3 - h) \in Int
        BY <1>0, <1>2, <3>1
      <4> QED BY <1>5, <3>2, <4>1 DEF FewOf
    <3>4. p + Credit <= P + stuckTicks
      <4>1. P \in Nat /\ Credit \in Int /\ Credit <= 2 * P - 1 /\ stuckTicks \in Nat
        BY <1>0, <1>2, <1>4
      <4> QED BY <3>3, <4>1
    <3>5. Blamed'
      BY <1>1, <1>3, <2>2, <2>3, <3>1, <3>3, <3>4 DEF Blamed, P
    <3> QED BY <1>1, <1>9, <3>5 DEF running
  <2>4. CASE ~droppedSincePull
    <3>1. P * 0 + Credit + 0 + 1 <= 3 * P
      BY <1>0, <1>4, <1>5 DEF FewOf
    <3>2. 0 + Skips <= 2
      BY <1>4
    <3>3. nextSeq # s /\ nextSeq # s - 1 /\ ~(nextSeq < s - 1)
      BY <2>1
    <3>4. flow' <= 0
      BY <1>1
    <3>5. Unblamed'
      BY <1>1, <1>3, <2>2, <2>4, <3>1, <3>2, <3>3, <3>4 DEF Unblamed, P
    <3> QED BY <1>1, <1>9, <3>5 DEF running
  <2> QED BY <2>3, <2>4
<1> QED BY <1>7, <1>8, <1>9

LEMMA HealStep == HealIInv /\ [BufferNext]_bufferVars => HealIInv'
<1> USE BoundAssumption
<1>1. SUFFICES ASSUME HealIInv, [BufferNext]_bufferVars PROVE HealIInv'
  OBVIOUS
<1>2. BufferIInv' /\ BufferIInv /\ BufferTypes
  BY <1>1, BufferStep DEF HealIInv
<1>3. /\ source \in Nat \cup {Absent} /\ flow \in -1 .. 1 /\ dry \in Nat /\ dry <= HealBound /\ HealBound' = HealBound
      /\ (source = Absent => dry = 0 /\ flow = 0) /\ \A n \in Nat : n # Absent
  BY <1>1 DEF HealIInv, BufferIInv, HealBound, HealTurns, Absent
<1>4. ASSUME NEW s \in 0 .. MaxFrame, NEW red \in BOOLEAN, Arrive(s, red) PROVE HealIInv'
  <2>1. push(s, red) /\ source = Absent /\ source' = source /\ flow' = flow /\ dry' = dry /\ s \in Nat
    BY <1>4 DEF Arrive
  <2>2. BufferTypes'
    BY <1>2, <2>1, PushTypes
  <2> QED BY <1>2, <1>3, <2>1, <2>2 DEF HealIInv
<1>5. CASE Tick
  <2>1. pull /\ source = Absent /\ source' = source /\ flow' = flow /\ dry' = dry
    BY <1>5 DEF Tick
  <2>2. BufferTypes'
    BY <1>2, <2>1, PullTypes
  <2> QED BY <1>2, <1>3, <2>1, <2>2 DEF HealIInv
<1>6. ASSUME NEW s \in 0 .. MaxFrame, Settle(s) PROVE HealIInv'
  <2>1. s \in Nat /\ source' = s /\ flow' = flow /\ dry' = dry
    BY <1>6 DEF Settle
  <2>2. BufferTypes'
    BY <1>2, <1>6 DEF Settle, anchor, BufferTypes, running
  <2>3. IF running' THEN (Ahead \/ Blamed \/ Unblamed)' ELSE Refilling'
    BY <1>1, <1>6, <2>1, SettleHeals
  <2> QED BY <1>2, <1>3, <2>1, <2>2, <2>3 DEF HealIInv
<1>7. ASSUME NEW red \in BOOLEAN, ArriveInTurn(red) PROVE HealIInv'
  <2>1. push(source, red) /\ source \in Nat /\ flow <= 0 /\ source' = source + 1 /\ flow' = flow + 1 /\ dry' = dry
    BY <1>3, <1>7 DEF ArriveInTurn
  <2>2. BufferTypes'
    BY <1>2, <2>1, PushTypes
  <2>3. IF running' THEN (Ahead \/ Blamed \/ Unblamed)' ELSE Refilling'
    BY <1>1, <2>1, PushHeals
  <2>4. flow' \in -1 .. 1 /\ source' \in Nat /\ dry' \in Nat /\ dry' <= HealBound'
    BY <1>3, <2>1
  <2> QED BY <1>2, <1>3, <2>2, <2>3, <2>4 DEF HealIInv
<1>8. CASE TickInTurn
  <2>1. /\ pull /\ source \in Nat /\ flow \in 0 .. 1 /\ source' = source /\ flow' = flow - 1
        /\ dry' = IF result' \in Plays THEN 0 ELSE dry + 1
    BY <1>3, <1>8 DEF TickInTurn
  <2>2. BufferTypes'
    BY <1>2, <2>1, PullTypes
  <2>3. dry' <= HealBound /\ IF running' THEN (Ahead \/ Blamed \/ Unblamed)' ELSE Refilling'
    BY <1>1, <2>1, PullHeals
  <2>4. flow' \in -1 .. 1 /\ source' \in Nat /\ dry' \in Nat
    BY <1>3, <2>1
  <2> QED BY <1>2, <1>3, <2>2, <2>3, <2>4 DEF HealIInv
<1>9. CASE UNCHANGED bufferVars
  <2>1. /\ UNCHANGED <<frames, nextSeq, lastArrival, target, overTicks, heldLast, dropPending, concealed, droppedSincePull, stuckTicks>>
        /\ UNCHANGED <<source, flow, dry>>
    BY <1>9 DEF bufferVars, anchor
  <2>2. BufferTypes' /\ (running' <=> running) /\ (Ahead' <=> Ahead) /\ (Blamed' <=> Blamed) /\ (Unblamed' <=> Unblamed)
        /\ (Refilling' <=> Refilling)
    BY <1>2, <1>3, <2>1 DEF BufferTypes, running, Ahead, Blamed, Unblamed, Refilling, Near, Run, Credit, Skips, Spared, Excess
  <2> QED BY <1>1, <1>2, <1>3, <2>1, <2>2 DEF HealIInv
<1> QED BY <1>1, <1>4, <1>5, <1>6, <1>7, <1>8, <1>9 DEF BufferNext

(* Whatever the stream did before, once it flows a frame is played within  *)
(* HealBound ticks: push and pull of JitterBuffer, for every depth, target *)
(* and patience with HealAssumption.                                       *)
THEOREM StreamHeals == BufferSpec => []HealsInTime
<1>1. HealIInv => HealsInTime
  BY DEF HealIInv, HealsInTime
<1> QED BY <1>1, HealStarts, HealStep, PTL DEF BufferSpec

-----------------------------------------------------------------------------
(* The watch over a device that keeps stopping                             *)

Ages == 0 .. CUTTING_OUT_WINDOW + 1
Watches == [since : NoAge .. CUTTING_OUT_WINDOW + 1, built : 0 .. CUTTING_OUT_COUNT - 1,
            last : NoAge .. CUTTING_OUT_WINDOW, active : BOOLEAN]

(* The stops h, the latest first, and a watch that opened its window since *)
(* ago, has built that many stops in it and saw the last one last ago.     *)
(* While it is not active, the stops of the window before its own are too  *)
(* few, and those of earlier windows too old, for the stretch to be dense. *)
Fits(h, since, built, last, active) ==
    /\ since \in NoAge .. CUTTING_OUT_WINDOW + 1 /\ built \in 0 .. CUTTING_OUT_COUNT - 1
    /\ last \in NoAge .. CUTTING_OUT_WINDOW /\ active \in BOOLEAN
    /\ h \in Seq(Ages) /\ Len(h) <= Dense
    /\ \A i, j \in 1 .. Len(h) : i <= j => h[i] <= h[j]
    /\ \A i \in 1 .. Len(h) : h[i] >= last
    /\ active => built = 0
    /\ since = NoAge <=> built = 0
    /\ built <= Len(h) /\ (built > 0 => h[built] = since)
    /\ ~active => \A i \in 1 .. Len(h) : i > built + CUTTING_OUT_COUNT - 1 => h[i] >= CUTTING_OUT_WINDOW

StopsIInv ==
    /\ cutting \in Watches
    /\ Fits(holes, cutting.since, cutting.built, cutting.last, cutting.active)

LEMMA StopBounds ==
    /\ CUTTING_OUT_WINDOW \in Nat /\ CUTTING_OUT_WINDOW >= 1
    /\ CUTTING_OUT_COUNT \in Nat /\ CUTTING_OUT_COUNT >= 1
    /\ Dense \in Nat /\ Dense >= 1 /\ Dense >= CUTTING_OUT_COUNT /\ Dense > 2 * (CUTTING_OUT_COUNT - 1)
  BY AudioAssumption DEF Dense

LEMMA OlderIs ==
  ASSUME NEW most \in Nat, NEW age \in NoAge .. most, NEW dt \in 0 .. 1
  PROVE  /\ Older(age, dt, most) \in NoAge .. most
         /\ Older(age, dt, most) = IF age = NoAge THEN NoAge
                                   ELSE IF age + dt <= most THEN age + dt ELSE most
<1>1. CASE age = NoAge
  BY <1>1 DEF Older, NoAge
<1>2. CASE age # NoAge
  <2>1. age \in 0 .. most
    BY <1>2 DEF NoAge
  <2>2. Min({age + dt, most}) = IF age + dt <= most THEN age + dt ELSE most
    BY <2>1, MinOfTwo
  <2> QED BY <1>2, <2>1, <2>2 DEF Older, NoAge
<1> QED BY <1>1, <1>2

(* Time passes and nothing stops.                                          *)
AgedHoles(h, dt) == [i \in DOMAIN h |-> Min({h[i] + dt, CUTTING_OUT_WINDOW + 1})]

LEMMA AgeingFits ==
  ASSUME NEW h, NEW s, NEW b, NEW l, NEW a, Fits(h, s, b, l, a), NEW dt \in 0 .. 1
  PROVE  Fits(AgedHoles(h, dt), Older(s, dt, CUTTING_OUT_WINDOW + 1), b, Older(l, dt, CUTTING_OUT_WINDOW), a)
<1> DEFINE W == CUTTING_OUT_WINDOW
<1>1. PICK o : o = AgedHoles(h, dt)
  OBVIOUS
<1>2. PICK s2 : s2 = Older(s, dt, W + 1)
  OBVIOUS
<1>3. PICK l2 : l2 = Older(l, dt, W)
  OBVIOUS
<1>0. W \in Nat /\ CUTTING_OUT_COUNT \in Nat /\ W + 1 \in Nat
  BY StopBounds
<1>4. /\ s \in NoAge .. W + 1 /\ b \in 0 .. CUTTING_OUT_COUNT - 1 /\ l \in NoAge .. W
      /\ h \in Seq(Ages) /\ Len(h) \in Nat /\ DOMAIN h = 1 .. Len(h) /\ \A i \in 1 .. Len(h) : h[i] \in 0 .. W + 1
  <2>1. s \in NoAge .. W + 1 /\ b \in 0 .. CUTTING_OUT_COUNT - 1 /\ l \in NoAge .. W /\ h \in Seq(Ages)
    BY DEF Fits
  <2>2. Len(h) \in Nat /\ DOMAIN h = 1 .. Len(h) /\ \A i \in 1 .. Len(h) : h[i] \in Ages
    BY <2>1
  <2> QED BY <2>1, <2>2 DEF Ages
<1>5. s2 \in NoAge .. W + 1 /\ s2 = (IF s = NoAge THEN NoAge ELSE IF s + dt <= W + 1 THEN s + dt ELSE W + 1)
  BY <1>0, <1>2, <1>4, OlderIs
<1>6. l2 \in NoAge .. W /\ l2 = (IF l = NoAge THEN NoAge ELSE IF l + dt <= W THEN l + dt ELSE W)
  BY <1>0, <1>3, <1>4, OlderIs
<1>7. \A i \in 1 .. Len(h) : Min({h[i] + dt, W + 1}) = IF h[i] + dt <= W + 1 THEN h[i] + dt ELSE W + 1
  BY <1>0, <1>4, MinOfTwo
<1>8. \A i \in 1 .. Len(h) : Min({h[i] + dt, W + 1}) \in 0 .. W + 1
  BY SMTT(30), <1>0, <1>4, <1>7
<1>9. o \in Seq(Ages) /\ Len(o) = Len(h)
      /\ \A i \in 1 .. Len(h) : o[i] = IF h[i] + dt <= W + 1 THEN h[i] + dt ELSE W + 1
  <2>1. o = [i \in 1 .. Len(h) |-> Min({h[i] + dt, W + 1})]
    BY <1>1, <1>4 DEF AgedHoles
  <2>2. o \in [1 .. Len(h) -> Ages]
    BY <1>8, <2>1 DEF Ages
  <2>3. o \in Seq(Ages) /\ Len(o) = Len(h)
    <3>1. Len(h) \in Nat
      BY <1>4
    <3> QED BY <2>2, <3>1
  <2> QED BY <1>7, <2>1, <2>3
<1> HIDE DEF W
<1>10. \A i, j \in 1 .. Len(o) : i <= j => o[i] <= o[j]
  <2>1. \A i, j \in 1 .. Len(h) : i <= j => h[i] <= h[j]
    BY DEF Fits
  <2> QED BY <1>0, <1>4, <1>9, <2>1
<1>11. \A i \in 1 .. Len(o) : o[i] >= l2
  <2>1. \A i \in 1 .. Len(h) : h[i] >= l
    BY DEF Fits
  <2> QED BY <1>0, <1>4, <1>6, <1>9, <2>1 DEF NoAge
<1>12. s2 = NoAge <=> b = 0
  <2>1. s = NoAge <=> b = 0
    BY DEF Fits
  <2> QED BY <1>0, <1>4, <1>5, <2>1 DEF NoAge
<1>13. b <= Len(o) /\ (b > 0 => o[b] = s2)
  <2>1. b <= Len(h) /\ (b > 0 => h[b] = s) /\ (s = NoAge <=> b = 0)
    BY DEF Fits
  <2>2. b > 0 => b \in 1 .. Len(h)
    BY <1>4, <2>1
  <2> QED BY <1>0, <1>4, <1>5, <1>9, <2>1, <2>2
<1>14. ~a => \A i \in 1 .. Len(o) : i > b + CUTTING_OUT_COUNT - 1 => o[i] >= W
  <2>1. ~a => \A i \in 1 .. Len(h) : i > b + CUTTING_OUT_COUNT - 1 => h[i] >= W
    BY DEF Fits, W
  <2> QED BY <1>0, <1>4, <1>9, <2>1
<1>15. a \in BOOLEAN /\ (a => b = 0) /\ Len(o) <= Dense
  BY <1>9 DEF Fits
<1>16. Fits(o, s2, b, l2, a)
  BY <1>4, <1>5, <1>6, <1>9, <1>10, <1>11, <1>12, <1>13, <1>14, <1>15 DEF Fits, W
<1> QED BY <1>1, <1>2, <1>3, <1>16 DEF W

(* A stop goes to the front of those kept.                                 *)
Pushed(h) == SubSeq(<<0>> \o h, 1, Min({Dense, Len(h) + 1}))

LEMMA PushedIs ==
  ASSUME NEW h \in Seq(Ages), Len(h) <= Dense
  PROVE  /\ Pushed(h) \in Seq(Ages) /\ Len(Pushed(h)) <= Dense
         /\ Len(Pushed(h)) = IF Dense <= Len(h) + 1 THEN Dense ELSE Len(h) + 1
         /\ Len(Pushed(h)) \in 1 .. Len(h) + 1 /\ Pushed(h)[1] = 0
         /\ \A i \in 2 .. Len(Pushed(h)) : Pushed(h)[i] = h[i - 1]
<1>1. Len(h) \in Nat /\ Dense \in Nat /\ Dense >= 1 /\ 0 \in Ages
  BY StopBounds DEF Ages
<1>2. PICK m \in Nat : m = Min({Dense, Len(h) + 1}) /\ m = IF Dense <= Len(h) + 1 THEN Dense ELSE Len(h) + 1
  BY <1>1, MinOfTwo
<1>3. PICK q : q = <<0>> \o h
  OBVIOUS
<1>4. q \in Seq(Ages) /\ Len(q) = Len(h) + 1 /\ q[1] = 0 /\ \A i \in 2 .. Len(h) + 1 : q[i] = h[i - 1]
  BY <1>1, <1>3
<1>5. m \in 1 .. Len(q)
  BY <1>1, <1>2, <1>4
<1>6. PICK p : p = SubSeq(q, 1, m)
  OBVIOUS
<1>7. p \in Seq(Ages) /\ Len(p) = m /\ \A i \in 1 .. m : p[i] = q[i]
  BY <1>4, <1>5, <1>6
<1>8. Pushed(h) = p
  BY <1>2, <1>3, <1>6 DEF Pushed
<1>9. \A i \in 2 .. m : p[i] = h[i - 1]
  BY <1>1, <1>4, <1>5, <1>7
<1>10. p[1] = 0
  BY <1>4, <1>5, <1>7
<1>11. m <= Dense
  BY <1>1, <1>2
<1> QED BY <1>2, <1>4, <1>5, <1>7, <1>8, <1>9, <1>10, <1>11

(* A stop that makes the watch active, or finds it so.                     *)
LEMMA ActiveStopFits ==
  ASSUME NEW h, NEW s, NEW b, NEW l, NEW a, Fits(h, s, b, l, a)
  PROVE  Fits(Pushed(h), NoAge, 0, 0, TRUE)
<1>1. PICK p : p = Pushed(h)
  OBVIOUS
<1>2. h \in Seq(Ages) /\ Len(h) \in Nat /\ \A i \in 1 .. Len(h) : h[i] \in Ages
  BY DEF Fits
<1>3. /\ p \in Seq(Ages) /\ Len(p) <= Dense /\ Len(p) \in 1 .. Len(h) + 1 /\ p[1] = 0
      /\ \A i \in 2 .. Len(p) : p[i] = h[i - 1]
  BY <1>1, <1>2, PushedIs DEF Fits
<1>4. \A i, j \in 1 .. Len(h) : i <= j => h[i] <= h[j]
  BY DEF Fits
<1>5. \A i \in 1 .. Len(p) : p[i] \in Nat
  BY <1>3, StopBounds DEF Ages
<1>6. ASSUME NEW i \in 1 .. Len(p), NEW j \in 1 .. Len(p), i <= j PROVE p[i] <= p[j]
  <2>1. CASE i = 1
    BY <1>3, <1>5, <2>1
  <2>2. CASE i # 1
    <3>1. i \in 2 .. Len(p) /\ j \in 2 .. Len(p) /\ i - 1 \in 1 .. Len(h) /\ j - 1 \in 1 .. Len(h) /\ i - 1 <= j - 1
      BY <1>2, <1>3, <1>6, <2>2
    <3> QED BY <1>3, <1>4, <3>1
  <2> QED BY <2>1, <2>2
<1>7. /\ NoAge \in NoAge .. CUTTING_OUT_WINDOW + 1 /\ 0 \in 0 .. CUTTING_OUT_COUNT - 1
      /\ 0 \in NoAge .. CUTTING_OUT_WINDOW /\ 0 <= Len(p) /\ \A i \in 1 .. Len(p) : p[i] >= 0
  BY <1>3, <1>5, StopBounds DEF NoAge
<1>8. Fits(p, NoAge, 0, 0, TRUE)
  BY <1>3, <1>6, <1>7 DEF Fits
<1> QED BY <1>1, <1>8

(* A stop that opens a window, or builds up in the one that is open.       *)
LEMMA QuietStopFits ==
  ASSUME NEW h, NEW s, NEW b, NEW l, Fits(h, s, b, l, FALSE), b + 1 < CUTTING_OUT_COUNT,
         NEW s2, s2 = IF s = NoAge THEN 0 ELSE s
  PROVE  Fits(Pushed(h), s2, b + 1, 0, FALSE)
<1>0. Fits(Pushed(h), NoAge, 0, 0, TRUE)
  BY ActiveStopFits
<1>1. PICK p : p = Pushed(h)
  OBVIOUS
<1>2. /\ h \in Seq(Ages) /\ Len(h) \in Nat /\ b \in Nat /\ b <= Len(h)
      /\ s \in NoAge .. CUTTING_OUT_WINDOW + 1 /\ (s = NoAge <=> b = 0)
      /\ (b > 0 => h[b] = s)
      /\ \A i \in 1 .. Len(h) : i > b + CUTTING_OUT_COUNT - 1 => h[i] >= CUTTING_OUT_WINDOW
  BY StopBounds DEF Fits
<1>3. /\ p \in Seq(Ages) /\ Len(p) <= Dense /\ Len(p) \in 1 .. Len(h) + 1 /\ p[1] = 0
      /\ \A i \in 2 .. Len(p) : p[i] = h[i - 1]
      /\ Len(p) = IF Dense <= Len(h) + 1 THEN Dense ELSE Len(h) + 1
  BY <1>1, <1>2, PushedIs DEF Fits
<1>4. /\ CUTTING_OUT_WINDOW \in Nat /\ CUTTING_OUT_COUNT \in Nat /\ Dense \in Nat /\ Dense >= CUTTING_OUT_COUNT
  BY StopBounds
<1>5. /\ s2 \in NoAge .. CUTTING_OUT_WINDOW + 1 /\ b + 1 \in 0 .. CUTTING_OUT_COUNT - 1 /\ b + 1 <= Len(p)
      /\ s2 # NoAge /\ b + 1 # 0 /\ b + 1 \in Nat
  BY <1>2, <1>3, <1>4 DEF NoAge
<1>6. p[b + 1] = s2
  <2>1. CASE b = 0
    BY <1>2, <1>3, <2>1
  <2>2. CASE b # 0
    <3>1. b + 1 \in 2 .. Len(p) /\ (b + 1) - 1 = b /\ b > 0
      BY <1>2, <1>3, <1>5, <2>2
    <3>2. p[b + 1] = h[(b + 1) - 1]
      BY <1>3, <3>1
    <3> QED BY <1>2, <3>1, <3>2
  <2> QED BY <2>1, <2>2
<1>7. ASSUME NEW i \in 1 .. Len(p), i > (b + 1) + CUTTING_OUT_COUNT - 1 PROVE p[i] >= CUTTING_OUT_WINDOW
  <2>1. i \in 2 .. Len(p) /\ i - 1 \in 1 .. Len(h) /\ i - 1 > b + CUTTING_OUT_COUNT - 1
    BY <1>2, <1>3, <1>4, <1>7
  <2> QED BY <1>2, <1>3, <2>1
<1>8. Fits(p, s2, b + 1, 0, FALSE)
  BY <1>0, <1>1, <1>5, <1>6, <1>7 DEF Fits
<1> QED BY <1>1, <1>8

(* A watch that nothing stopped within its window, or since it was active. *)
LEMMA ForgottenFits ==
  ASSUME NEW h, NEW s, NEW b, NEW l, NEW a, Fits(h, s, b, l, a),
         (~a /\ s > CUTTING_OUT_WINDOW) \/ (a /\ l >= CUTTING_OUT_WINDOW)
  PROVE  Fits(h, NoAge, 0, l, FALSE)
<1>1. /\ h \in Seq(Ages) /\ Len(h) \in Nat /\ b \in 0 .. CUTTING_OUT_COUNT - 1 /\ s \in NoAge .. CUTTING_OUT_WINDOW + 1
      /\ l \in NoAge .. CUTTING_OUT_WINDOW /\ \A i \in 1 .. Len(h) : h[i] \in Ages
  BY DEF Fits
<1>2. CUTTING_OUT_WINDOW \in Nat /\ CUTTING_OUT_COUNT \in Nat /\ CUTTING_OUT_COUNT >= 1 /\ NoAge = -1
  BY StopBounds DEF NoAge
<1>3. ASSUME NEW i \in 1 .. Len(h), i > 0 + CUTTING_OUT_COUNT - 1 PROVE h[i] >= CUTTING_OUT_WINDOW
  <2>1. CASE ~a /\ s > CUTTING_OUT_WINDOW
    <3>1. b > 0 /\ b <= Len(h) /\ h[b] = s
      BY <1>1, <1>2, <2>1 DEF Fits
    <3>2. b \in 1 .. Len(h) /\ b <= i
      BY <1>1, <1>2, <1>3, <3>1
    <3>3. h[b] <= h[i]
      BY <3>2 DEF Fits
    <3>4. h[i] \in Nat
      BY <1>1, <1>2 DEF Ages
    <3> QED BY <1>1, <1>2, <2>1, <3>1, <3>3, <3>4
  <2>2. CASE a /\ l >= CUTTING_OUT_WINDOW
    <3>1. h[i] >= l /\ h[i] \in Nat
      BY <1>1, <1>2 DEF Fits, Ages
    <3> QED BY <1>1, <1>2, <2>2, <3>1
  <2> QED BY <2>1, <2>2
<1>4. NoAge \in NoAge .. CUTTING_OUT_WINDOW + 1 /\ 0 \in 0 .. CUTTING_OUT_COUNT - 1 /\ 0 <= Len(h)
  BY <1>1, <1>2
<1> QED BY <1>3, <1>4 DEF Fits

(* The fields of a watch that observed a step, one case of EpisodeWatch::  *)
(* observe each.                                                           *)
IsWatch(n, since, built, last, active) ==
    n \in Watches /\ n.since = since /\ n.built = built /\ n.last = last /\ n.active = active

LEMMA ObservedFields ==
  ASSUME NEW c \in Watches, NEW dt \in 0 .. 1, NEW fresh \in BOOLEAN, NEW s, NEW l,
         s = Older(c.since, dt, CUTTING_OUT_WINDOW + 1),
         l = (IF fresh THEN 0 ELSE Older(c.last, dt, CUTTING_OUT_WINDOW))
  PROVE  LET n == Observed(c, dt, fresh) IN
         /\ c.active => \E x \in BOOLEAN : IsWatch(n, s, c.built, l, x) /\ (x <=> l < CUTTING_OUT_WINDOW)
         /\ ~c.active /\ fresh /\ c.built + 1 >= CUTTING_OUT_COUNT => IsWatch(n, NoAge, 0, 0, TRUE)
         /\ ~c.active /\ fresh /\ c.built + 1 < CUTTING_OUT_COUNT =>
              IsWatch(n, IF s = NoAge THEN 0 ELSE s, c.built + 1, 0, FALSE)
         /\ ~c.active /\ ~fresh /\ s > CUTTING_OUT_WINDOW => IsWatch(n, NoAge, 0, l, FALSE)
         /\ ~c.active /\ ~fresh /\ ~(s > CUTTING_OUT_WINDOW) => IsWatch(n, s, c.built, l, FALSE)
<1> DEFINE W == CUTTING_OUT_WINDOW
<1>0. W \in Nat /\ W + 1 \in Nat /\ CUTTING_OUT_COUNT \in Nat /\ CUTTING_OUT_COUNT >= 1 /\ NoAge = -1
  BY StopBounds DEF NoAge
<1>1. c.since \in NoAge .. W + 1 /\ c.built \in 0 .. CUTTING_OUT_COUNT - 1 /\ c.last \in NoAge .. W /\ c.active \in BOOLEAN
  BY DEF Watches
<1>2. s \in NoAge .. W + 1
  BY <1>0, <1>1, OlderIs
<1>3. l \in NoAge .. W
  <2>1. Older(c.last, dt, W) \in NoAge .. W
    BY <1>0, <1>1, OlderIs
  <2>2. 0 \in NoAge .. W
    BY <1>0
  <2> QED BY <2>1, <2>2
<1>4. PICK v : v = [c EXCEPT !.since = s, !.last = l]
  OBVIOUS
<1>5. v \in Watches /\ v.since = s /\ v.built = c.built /\ v.last = l /\ v.active = c.active
  BY <1>2, <1>3, <1>4 DEF Watches, W
<1>6. Observed(c, dt, fresh) = CASE v.active -> [v EXCEPT !.active = v.last < CUTTING_OUT_WINDOW]
                                 [] ~v.active /\ fresh -> FreshStop(v)
                                 [] ~v.active /\ ~fresh -> StaleWindow(v)
  <2>1. v = [c EXCEPT !.since = Older(@, dt, CUTTING_OUT_WINDOW + 1),
                      !.last = IF fresh THEN 0 ELSE Older(@, dt, CUTTING_OUT_WINDOW)]
    BY <1>4 DEF Watches
  <2> QED BY <2>1 DEF Observed
<1>7. PICK n : n = Observed(c, dt, fresh)
  OBVIOUS
<1>8. CASE c.active
  <2>1. PICK x \in BOOLEAN : x <=> l < W
    OBVIOUS
  <2>2. n = [v EXCEPT !.active = x]
    <3>1. n = [v EXCEPT !.active = v.last < CUTTING_OUT_WINDOW]
      BY <1>5, <1>6, <1>7, <1>8
    <3>2. (v.last < CUTTING_OUT_WINDOW) = x
      BY <1>5, <2>1 DEF W
    <3> QED BY <3>1, <3>2
  <2>3. IsWatch(n, s, c.built, l, x)
    BY <1>5, <2>2 DEF IsWatch, Watches
  <2> QED BY <1>7, <1>8, <2>1, <2>3
<1>9. CASE ~c.active /\ fresh
  <2>1. n = FreshStop(v)
    BY <1>5, <1>6, <1>7, <1>9
  <2>2. CASE c.built + 1 >= CUTTING_OUT_COUNT
    <3>1. n = [since |-> NoAge, built |-> 0, last |-> 0, active |-> TRUE]
      BY <1>5, <2>1, <2>2 DEF FreshStop
    <3>2. NoAge \in NoAge .. W + 1 /\ 0 \in 0 .. CUTTING_OUT_COUNT - 1 /\ 0 \in NoAge .. W
      BY <1>0
    <3>3. IsWatch(n, NoAge, 0, 0, TRUE)
      BY <3>1, <3>2 DEF IsWatch, Watches, W
    <3>4. ~(c.built + 1 < CUTTING_OUT_COUNT)
      BY <1>0, <1>1, <2>2
    <3> QED BY <1>7, <1>9, <2>2, <3>3, <3>4, Zenon
  <2>3. CASE c.built + 1 < CUTTING_OUT_COUNT
    <3>0. PICK k \in NoAge .. W + 1 : k = IF s = NoAge THEN 0 ELSE s
      BY <1>0, <1>2
    <3>1. Max({s, 0}) = k
      BY <1>0, <1>2, <3>0, MaxOfTwo
    <3>2. PICK b \in 0 .. CUTTING_OUT_COUNT - 1 : b = c.built + 1
      BY <1>0, <1>1, <2>3
    <3>3. ~(v.built + 1 >= CUTTING_OUT_COUNT)
      BY <1>0, <1>1, <1>5, <2>3
    <3>4. n = [since |-> k, built |-> b, last |-> 0, active |-> FALSE]
      BY <1>5, <2>1, <3>1, <3>2, <3>3 DEF FreshStop
    <3>5. 0 \in NoAge .. W
      BY <1>0
    <3>6. IsWatch(n, k, b, 0, FALSE)
      BY <3>4, <3>5 DEF IsWatch, Watches, W
    <3>7. ~(c.built + 1 >= CUTTING_OUT_COUNT)
      BY <1>0, <1>1, <2>3
    <3>8. IsWatch(n, IF s = NoAge THEN 0 ELSE s, c.built + 1, 0, FALSE)
      BY <3>0, <3>2, <3>6
    <3> QED BY <1>7, <1>9, <2>3, <3>7, <3>8, Zenon
  <2>4. c.built + 1 >= CUTTING_OUT_COUNT \/ c.built + 1 < CUTTING_OUT_COUNT
    BY <1>0, <1>1
  <2> QED BY <2>2, <2>3, <2>4, Zenon
<1>10. CASE ~c.active /\ ~fresh
  <2>1. n = StaleWindow(v)
    BY <1>5, <1>6, <1>7, <1>10
  <2>2. CASE s > W
    <3>1. n = [v EXCEPT !.since = NoAge, !.built = 0]
      BY <1>5, <2>1, <2>2 DEF StaleWindow
    <3>2. NoAge \in NoAge .. W + 1 /\ 0 \in 0 .. CUTTING_OUT_COUNT - 1
      BY <1>0
    <3>3. IsWatch(n, NoAge, 0, l, FALSE)
      BY <1>5, <1>10, <3>1, <3>2 DEF IsWatch, Watches, W
    <3> QED BY <1>7, <1>10, <2>2, <3>3
  <2>3. CASE ~(s > W)
    <3>1. n = v
      BY <1>5, <2>1, <2>3 DEF StaleWindow
    <3>2. IsWatch(n, s, c.built, l, FALSE)
      BY <1>5, <1>10, <3>1 DEF IsWatch
    <3> QED BY <1>7, <1>10, <2>3, <3>2
  <2> QED BY <2>2, <2>3
<1> QED BY <1>8, <1>9, <1>10

LEMMA PublishKeeps ==
  ASSUME StopsIInv, NEW dt \in 0 .. 1, NEW stopped \in BOOLEAN, Publish(dt, stopped)
  PROVE  StopsIInv'
<1>1. PICK s : s = Older(cutting.since, dt, CUTTING_OUT_WINDOW + 1)
  OBVIOUS
<1>2. PICK k : k = Older(cutting.last, dt, CUTTING_OUT_WINDOW)
  OBVIOUS
<1>3. PICK o : o = AgedHoles(holes, dt)
  OBVIOUS
<1>4. PICK b \in 0 .. CUTTING_OUT_COUNT - 1, a \in BOOLEAN : b = cutting.built /\ a = cutting.active
  BY DEF StopsIInv, Watches
<1>5. Fits(o, s, b, k, a)
  <2>1. Fits(holes, cutting.since, b, cutting.last, a)
    BY <1>4 DEF StopsIInv
  <2> QED BY <1>1, <1>2, <1>3, <2>1, AgeingFits
<1>6. holes' = IF stopped THEN Pushed(o) ELSE o
  <2>1. Len(o) = Len(holes)
    <3>1. holes \in Seq(Ages) /\ o \in Seq(Ages)
      BY <1>5 DEF StopsIInv, Fits
    <3>2. DOMAIN o = DOMAIN holes
      BY <1>3 DEF AgedHoles
    <3>3. DOMAIN holes = 1 .. Len(holes) /\ DOMAIN o = 1 .. Len(o) /\ Len(o) \in Nat /\ Len(holes) \in Nat
      BY <3>1
    <3> QED BY <3>2, <3>3
  <2>2. holes' = IF stopped THEN SubSeq(<<0>> \o o, 1, Min({Dense, Len(holes) + 1})) ELSE o
    BY <1>3 DEF Publish, AgedHoles
  <2> QED BY <2>1, <2>2 DEF Pushed
<1>7. PICK n : n = cutting' /\ n = Observed(cutting, dt, stopped)
  BY DEF Publish
<1>8. PICK l : l = (IF stopped THEN 0 ELSE k)
  OBVIOUS
<1>9. /\ a => \E x \in BOOLEAN : IsWatch(n, s, b, l, x) /\ (x <=> l < CUTTING_OUT_WINDOW)
      /\ ~a /\ stopped /\ b + 1 >= CUTTING_OUT_COUNT => IsWatch(n, NoAge, 0, 0, TRUE)
      /\ ~a /\ stopped /\ b + 1 < CUTTING_OUT_COUNT => IsWatch(n, IF s = NoAge THEN 0 ELSE s, b + 1, 0, FALSE)
      /\ ~a /\ ~stopped /\ s > CUTTING_OUT_WINDOW => IsWatch(n, NoAge, 0, l, FALSE)
      /\ ~a /\ ~stopped /\ ~(s > CUTTING_OUT_WINDOW) => IsWatch(n, s, b, l, FALSE)
  <2>1. cutting \in Watches
    BY DEF StopsIInv
  <2> QED BY ZenonT(30), <1>1, <1>2, <1>4, <1>7, <1>8, <2>1, ObservedFields
<1>10. SUFFICES ASSUME NEW h, h = holes'
                PROVE  \E s2, b2, l2, a2 : IsWatch(n, s2, b2, l2, a2) /\ Fits(h, s2, b2, l2, a2)
  BY <1>7 DEF StopsIInv, IsWatch
<1>11. CUTTING_OUT_WINDOW \in Nat /\ CUTTING_OUT_WINDOW >= 1 /\ CUTTING_OUT_COUNT \in Nat
  BY StopBounds
<1>12. CASE a /\ stopped
  <2>1. IsWatch(n, s, b, 0, TRUE)
    <3>1. PICK x \in BOOLEAN : IsWatch(n, s, b, 0, x) /\ (x <=> 0 < CUTTING_OUT_WINDOW)
      BY <1>8, <1>9, <1>12
    <3>2. x = TRUE
      BY <1>11, <3>1
    <3> QED BY <3>1, <3>2
  <2>2. b = 0 /\ s = NoAge
    BY <1>5, <1>12 DEF Fits
  <2>3. Fits(h, NoAge, 0, 0, TRUE)
    BY <1>5, <1>6, <1>10, <1>12, ActiveStopFits
  <2> QED BY <2>1, <2>2, <2>3
<1>13. CASE a /\ ~stopped
  <2>1. PICK x \in BOOLEAN : IsWatch(n, s, b, k, x) /\ (x <=> k < CUTTING_OUT_WINDOW)
    BY <1>8, <1>9, <1>13
  <2>2. b = 0 /\ s = NoAge /\ k \in NoAge .. CUTTING_OUT_WINDOW /\ a = TRUE
    BY <1>5, <1>13 DEF Fits
  <2>3. CASE x
    <3>1. Fits(h, s, b, k, x)
      BY <1>5, <1>6, <1>10, <1>13, <2>2, <2>3
    <3> QED BY <2>1, <3>1
  <2>4. CASE ~x
    <3>1. k >= CUTTING_OUT_WINDOW
      BY <1>11, <2>1, <2>2, <2>4 DEF NoAge
    <3>2. Fits(h, NoAge, 0, k, FALSE)
      BY <1>5, <1>6, <1>10, <1>13, <3>1, ForgottenFits
    <3> QED BY <2>1, <2>2, <2>4, <3>2
  <2> QED BY <2>3, <2>4
<1>14. CASE ~a /\ stopped /\ b + 1 >= CUTTING_OUT_COUNT
  <2>1. Fits(h, NoAge, 0, 0, TRUE)
    BY <1>5, <1>6, <1>10, <1>14, ActiveStopFits
  <2> QED BY <1>9, <1>14, <2>1
<1>15. CASE ~a /\ stopped /\ b + 1 < CUTTING_OUT_COUNT
  <2>1. PICK s2 : s2 = IF s = NoAge THEN 0 ELSE s
    OBVIOUS
  <2>2. Fits(o, s, b, k, FALSE)
    BY <1>5, <1>15
  <2>3. Fits(h, s2, b + 1, 0, FALSE)
    BY <1>6, <1>10, <1>15, <2>1, <2>2, QuietStopFits
  <2>4. IsWatch(n, s2, b + 1, 0, FALSE)
    BY <1>9, <1>15, <2>1
  <2> QED BY <2>3, <2>4
<1>16. CASE ~a /\ ~stopped /\ s > CUTTING_OUT_WINDOW
  <2>1. Fits(h, NoAge, 0, k, FALSE)
    BY <1>5, <1>6, <1>10, <1>16, ForgottenFits
  <2> QED BY <1>8, <1>9, <1>16, <2>1
<1>17. CASE ~a /\ ~stopped /\ ~(s > CUTTING_OUT_WINDOW)
  <2>1. Fits(h, s, b, k, FALSE)
    BY <1>5, <1>6, <1>10, <1>17
  <2> QED BY <1>8, <1>9, <1>17, <2>1
<1>18. b + 1 >= CUTTING_OUT_COUNT \/ b + 1 < CUTTING_OUT_COUNT
  BY <1>11
<1> QED BY <1>12, <1>13, <1>14, <1>15, <1>16, <1>17, <1>18

LEMMA StopsStart == AudioInit => StopsIInv
<1>1. SUFFICES ASSUME AudioInit PROVE StopsIInv
  OBVIOUS
<1>2. cutting = [since |-> NoAge, built |-> 0, last |-> NoAge, active |-> FALSE] /\ holes = <<>>
  BY <1>1 DEF AudioInit
<1>3. /\ NoAge \in NoAge .. CUTTING_OUT_WINDOW + 1 /\ NoAge \in NoAge .. CUTTING_OUT_WINDOW
      /\ 0 \in 0 .. CUTTING_OUT_COUNT - 1 /\ 0 <= Dense
  BY StopBounds DEF NoAge
<1>4. cutting \in Watches
  BY <1>2, <1>3 DEF Watches
<1>5. <<>> \in Seq(Ages) /\ Len(<<>>) = 0
  OBVIOUS
<1>6. Fits(<<>>, NoAge, 0, NoAge, FALSE)
  BY <1>3, <1>5 DEF Fits
<1> QED BY <1>2, <1>4, <1>6 DEF StopsIInv

LEMMA StopsStep == StopsIInv /\ [AudioNext]_audioVars => StopsIInv'
<1>1. SUFFICES ASSUME StopsIInv, [AudioNext]_audioVars PROVE StopsIInv'
  OBVIOUS
<1>2. ASSUME NEW dt \in 0 .. 1, NEW ok \in BOOLEAN, Step(dt, ok) PROVE StopsIInv'
  <2>1. PICK stopped \in BOOLEAN : stopped = (audio.stream = "dead")
    OBVIOUS
  <2>2. Publish(dt, stopped)
    BY <1>2, <2>1 DEF Step
  <2> QED BY <1>1, <2>2, PublishKeeps
<1>3. ASSUME NEW ok \in BOOLEAN, Pick(ok) PROVE StopsIInv'
  <2>1. PICK stopped \in BOOLEAN : stopped = FALSE
    OBVIOUS
  <2>2. Publish(0, stopped)
    BY <1>3, <2>1, Zenon DEF Pick
  <2>3. 0 \in 0 .. 1
    OBVIOUS
  <2> QED BY <1>1, <2>2, <2>3, PublishKeeps
<1>4. CASE Dies \/ UNCHANGED audioVars
  <2>1. cutting' = cutting /\ holes' = holes
    BY <1>4 DEF Dies, audioVars
  <2> QED BY <1>1, <2>1 DEF StopsIInv
<1> QED BY <1>1, <1>2, <1>3, <1>4 DEF AudioNext

(* A device that keeps stopping is called out: EpisodeWatch::observe on    *)
(* the stops, for every count and window.  No stretch shorter than the     *)
(* window holds 2 * count - 1 stops while nothing is shown, wherever the   *)
(* watch's own windows start.                                              *)
THEOREM CuttingOutIsShown == AudioSpec => []DenseStopsAreShown
<1>1. StopsIInv => DenseStopsAreShown
  <2>1. SUFFICES ASSUME StopsIInv, Len(holes) = Dense, holes[Dense] < CUTTING_OUT_WINDOW, ~cutting.active
                 PROVE  FALSE
    BY DEF DenseStopsAreShown, StopsIInv, Watches
  <2>2. PICK b \in 0 .. CUTTING_OUT_COUNT - 1 : b = cutting.built
    BY <2>1 DEF StopsIInv, Watches
  <2>3. \A i \in 1 .. Len(holes) : i > b + CUTTING_OUT_COUNT - 1 => holes[i] >= CUTTING_OUT_WINDOW
    BY <2>1, <2>2 DEF StopsIInv, Fits
  <2>4. Dense \in 1 .. Len(holes) /\ Dense > b + CUTTING_OUT_COUNT - 1
    BY <2>1, StopBounds
  <2>5. holes[Dense] >= CUTTING_OUT_WINDOW
    BY <2>3, <2>4
  <2>6. holes[Dense] \in Nat /\ CUTTING_OUT_WINDOW \in Nat
    <3>1. holes \in Seq(Ages)
      BY <2>1 DEF StopsIInv, Fits
    <3>2. holes[Dense] \in Ages
      BY <2>4, <3>1
    <3> QED BY <3>2, StopBounds DEF Ages
  <2> QED BY <2>1, <2>5, <2>6
<1> QED BY <1>1, StopsStart, StopsStep, PTL DEF AudioSpec
=============================================================================
