---------------------------- MODULE AvatarFanout ----------------------------
(***************************************************************************)
(* The whole way of a picture: AvatarUpload, and from the server to one    *)
(* bandmate who sees it announced on a roster, asks for it once and is     *)
(* sent the chunks as the server's tick paces them (server.rs, the         *)
(* AvatarRequest handler, tick, flush_roster; client.rs, sync_avatars and  *)
(* handle_avatar_chunk).  Either of them may lose its connection at any    *)
(* time and come back.                                                     *)
(*                                                                         *)
(* A message leaves the server's queue to the bandmate when it is taken:   *)
(* an ack that comes later only makes the pacer wait longer.               *)
(***************************************************************************)
EXTENDS AvatarUpload, SequencesExt

CONSTANTS
    AVATAR_FEED_HIGH_WATER,   \* queue depth at which the pacer stops
    MAX_WAITED,               \* pictures that are waited for; one per member
    MaxMoves                  \* bound: pictures set, and connections made

ASSUME FanoutAssumption ==
    {AVATAR_FEED_HIGH_WATER, MAX_WAITED} \subseteq Nat \ {0} /\ MaxMoves \in Nat

VARIABLES
    fan,     \* server: [dirty, tx, waiting]; waiting: what the bandmate waits for
    down,    \* the server's queue to the bandmate
    mateAsks,    \* the bandmate's AvatarRequests in flight
    mate,    \* the bandmate: [joined, roster, requested, rx, cache, ready]
    joins    \* connections made

fanVars == <<fan, down, mateAsks, mate, joins>>

Newcomer(held) ==
    [joined |-> TRUE, roster |-> {}, requested |-> {}, rx |-> {}, cache |-> held, ready |-> {}]

FanInit ==
    /\ Init
    /\ fan = [dirty |-> TRUE, tx |-> <<>>, waiting |-> {}]
    /\ down = <<>> /\ mateAsks = <<>> /\ joins = 0
    /\ mate = [Newcomer({}) EXCEPT !.joined = FALSE]

Roster(pics) == [kind |-> "roster", pics |-> pics]
Tx(p) == [pic |-> p, next |-> 0]

-----------------------------------------------------------------------------
(* Fault: whoever asked while the upload ran is forgotten.                 *)
ServedForgets(f, pics) == [f EXCEPT !.waiting = @ \ pics]

(* The end of a train in handle_control: everyone who asked meanwhile, and *)
(* is connected, is served.                                                *)
Served(f, pics) ==
    [f EXCEPT !.waiting = @ \ pics,
              !.tx = IF mate.joined THEN @ \o SetToSeq({Tx(p) : p \in f.waiting \cap pics}) ELSE @]

(* The owner's messages, with what they mean for everyone else: a change   *)
(* of picture makes the roster stale, and bytes that are complete go to    *)
(* those who wait for them.                                                *)
OwnerHeard ==
    /\ ServerHears
    /\ fan' = Served([fan EXCEPT !.dirty = @ \/ announced' # announced \/ connected' # connected],
                     cache' \ cache)
    /\ UNCHANGED <<down, mateAsks, mate, joins>>

(* tick: flush_roster, then the pacer.  A train that is out of chunks, or  *)
(* whose bytes were evicted, is dropped by the call that finds out.        *)
FeedOne(s) ==
    IF s.tx = <<>> \/ s.fed = CHUNKS_PER_POLL \/ Len(s.queue) >= AVATAR_FEED_HIGH_WATER THEN s
    ELSE LET t == Head(s.tx)
         IN  IF t.pic \in cache /\ t.next < TOTAL
             THEN [tx |-> <<[t EXCEPT !.next = @ + 1]>> \o Tail(s.tx), fed |-> s.fed + 1,
                   queue |-> Append(s.queue, Chunk(t.pic, t.next))]
             ELSE [s EXCEPT !.tx = Tail(@)]

tick ==
    /\ mate.joined
    /\ LET flushed == IF fan.dirty THEN Append(down, Roster(announced)) ELSE down
           turns == CHUNKS_PER_POLL + Len(fan.tx)
           fed[i \in 0 .. turns] ==
             IF i = 0 THEN [tx |-> fan.tx, fed |-> 0, queue |-> flushed] ELSE FeedOne(fed[i - 1])
       IN  down' = fed[turns].queue /\ fan' = [fan EXCEPT !.dirty = FALSE, !.tx = fed[turns].tx]
    /\ UNCHANGED <<vars, mateAsks, mate, joins>>

(* note_avatar_waiter: at the limit, what nobody announces is let go.      *)
Waiting(p) ==
    LET held == IF Cardinality(fan.waiting) >= MAX_WAITED /\ p \notin fan.waiting
                THEN fan.waiting \cap announced ELSE fan.waiting
    IN  IF Cardinality(held) >= MAX_WAITED THEN held ELSE held \cup {p}

(* handle_control of the bandmate's AvatarRequest: bytes at hand are sent, *)
(* others are waited for, and an owner that is not uploading is nudged.    *)
MateAsked ==
    /\ mateAsks # <<>>
    /\ LET p == Head(mateAsks)
       IN  \/ /\ p \in cache
              /\ fan' = IF \E i \in DOMAIN fan.tx : fan.tx[i].pic = p THEN fan
                        ELSE [fan EXCEPT !.tx = Append(@, Tx(p))]
              /\ UNCHANGED vars
           \/ /\ p \in announced \ cache
              /\ fan' = [fan EXCEPT !.waiting = Waiting(p)]
              /\ BandmateAsks(p) \/ ((rx # {} \/ ~connected) /\ UNCHANGED vars)
           \/ p \notin announced \cup cache /\ UNCHANGED <<fan, vars>>
    /\ mateAsks' = Tail(mateAsks)
    /\ UNCHANGED <<down, mate, joins>>

-----------------------------------------------------------------------------
(* handle_control of Roster, with sync_avatars: a picture at hand is shown,*)
(* another is asked for, once in a connection.                             *)
MateSeesRoster(pics) ==
    LET lacking == pics \ (mate.cache \cup mate.requested)
    IN  /\ mate' = [mate EXCEPT !.roster = pics, !.requested = @ \cup lacking,
                                !.ready = IF pics \subseteq mate.cache THEN pics ELSE @]
        /\ mateAsks' = mateAsks \o SetToSeq(lacking)

(* handle_avatar_chunk: the first chunk of a picture asked for starts a    *)
(* train over; what does not fit is dropped without a word.                *)
MateTakesChunk(p, i) ==
    LET into == IF i = 0 /\ p \in mate.requested THEN {Tx(p)} ELSE mate.rx
        fits == [pic |-> p, next |-> i] \in into
        own_train == \E r \in into : r.pic = p
    IN  /\ \/ /\ fits /\ i + 1 < TOTAL
              /\ mate' = [mate EXCEPT !.rx = {[pic |-> p, next |-> i + 1]}]
           \/ /\ fits /\ i + 1 = TOTAL
              /\ \E held \in Inserted(mate.cache, p, mate.roster) :
                   mate' = [mate EXCEPT !.rx = {}, !.requested = @ \ {p}, !.cache = held,
                                        !.ready = IF p \in mate.roster THEN {p} ELSE @]
           \/ ~fits /\ mate' = [mate EXCEPT !.rx = IF own_train THEN {} ELSE into]
        /\ UNCHANGED mateAsks

MateHears ==
    /\ down # <<>>
    /\ LET msg == Head(down)
       IN  \/ msg.kind = "roster" /\ MateSeesRoster(msg.pics)
           \/ msg.kind = "chunk" /\ MateTakesChunk(msg.pic, msg.index)
    /\ down' = Tail(down)
    /\ UNCHANGED <<vars, fan, joins>>

(* disconnect_member of the bandmate; both queues are the connection's.    *)
MateDrops ==
    /\ mate.joined
    /\ mate' = [Newcomer(mate.cache) EXCEPT !.joined = FALSE]
    /\ fan' = [fan EXCEPT !.tx = <<>>, !.dirty = TRUE]
    /\ down' = <<>> /\ mateAsks' = <<>>
    /\ UNCHANGED <<vars, joins>>

(* connect or reconnect, and admit: the bandmate's cache survives, its     *)
(* transfers do not, and everyone is sent a roster.                        *)
MateJoins ==
    /\ ~mate.joined /\ sets + joins < MaxMoves
    /\ mate' = Newcomer(mate.cache)
    /\ fan' = [fan EXCEPT !.dirty = TRUE]
    /\ joins' = joins + 1
    /\ UNCHANGED <<vars, down, mateAsks>>

(* The same of the owner: what it announced stays, and it announces its    *)
(* picture again when it is back.  One that spent its budget of violations *)
(* is not let in.                                                          *)
OwnerDrops ==
    /\ connected
    /\ connected' = FALSE
    /\ trains' = <<>> /\ pending' = <<>> /\ taken' = 0 /\ requests' = <<>> /\ rx' = {}
    /\ fan' = [fan EXCEPT !.dirty = TRUE]
    /\ UNCHANGED <<own, announced, cache, charged, sets, refused, history, down, mateAsks, mate, joins>>

OwnerJoins ==
    /\ ~connected /\ charged <= VIOLATION_BURST /\ sets + joins < MaxMoves
    /\ connected' = TRUE
    /\ pending' = SetToSeq({Announce(p) : p \in own})
    /\ fan' = [fan EXCEPT !.dirty = TRUE]
    /\ joins' = joins + 1
    /\ UNCHANGED <<clientVars, taken, requests, announced, rx, cache, charged, sets, refused, history,
                   down, mateAsks, mate>>

OwnerMoves ==
    (sets + joins < MaxMoves /\ \E p \in Pictures : set_avatar(p)) \/ ClientAsked \/ poll \/ Retire

FanNext ==
    \/ OwnerMoves /\ UNCHANGED fanVars
    \/ OwnerHeard
    \/ OwnerDrops
    \/ OwnerJoins
    \/ tick
    \/ MateAsked
    \/ MateHears
    \/ MateDrops
    \/ MateJoins

(* The drivers of both ends call poll and tick, and the links deliver.     *)
FanFairness ==
    /\ WF_vars(poll) /\ WF_vars(ClientAsked) /\ WF_vars(Retire) /\ WF_vars(OwnerHeard)
    /\ WF_fanVars(tick) /\ WF_fanVars(MateAsked) /\ WF_fanVars(MateHears)

FanSpec == FanInit /\ [][FanNext]_<<vars, fanVars>> /\ FanFairness

-----------------------------------------------------------------------------
(* A picture that is kept ends up on the bandmate's screen, whatever was   *)
(* replaced, crossed on the links, evicted or disconnected on the way,     *)
(* except over a link that refused a message of the owner; and if the      *)
(* owner went back to a picture just replaced it reaches the server, but a *)
(* bandmate whose first request for it found nobody is not asking again.   *)
PictureArrives ==
    [](~refused) => \A p \in Pictures :
       own = {p} ~> (own # {p} \/ ~connected \/ (p \in cache /\ (mate.ready = {p} \/ putBack \/ ~mate.joined)))
=============================================================================
