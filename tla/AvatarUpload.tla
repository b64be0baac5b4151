---------------------------- MODULE AvatarUpload ----------------------------
(***************************************************************************)
(* A member's picture on its way to the server: the announce, the server's *)
(* request for the bytes and the train of chunks that answers it           *)
(* (set_avatar, handle_control and poll of crates/session/src/client.rs,   *)
(* the avatar handlers of crates/session/src/server.rs, AvatarTx and       *)
(* AvatarRx of crates/session/src/avatar.rs).                              *)
(*                                                                         *)
(* Both directions of the control link are queues, as ControlLink shows;   *)
(* the client's is the one of ControlLink::send, whose entries leave when  *)
(* they are acknowledged and which refuses an entry past MAX_PENDING.      *)
(* Chunk contents are the picture and the index they came from.            *)
(***************************************************************************)
EXTENDS Integers, Sequences, FiniteSetsExt, Tally

CONSTANTS
    Pictures,          \* content hashes
    TOTAL,             \* chunk_total of a picture, at most 256
    CHUNKS_PER_POLL,   \* AVATAR_CHUNKS_PER_POLL
    MAX_PENDING,       \* queue cap of the client's link, 128
    VIOLATION_BURST,   \* violations charged before a member is ejected, 32
    MAX_CACHED,        \* pictures AVATAR_CACHE_BYTES holds
    MaxSets            \* bound: set_avatar calls, fewer than FANOUT_BURST

ASSUME AvatarAssumption ==
    /\ TOTAL \in Nat \ {0} /\ CHUNKS_PER_POLL \in Nat \ {0} /\ MAX_PENDING \in Nat
    /\ VIOLATION_BURST \in Nat /\ MAX_CACHED \in Nat \ {0} /\ MaxSets \in Nat

VARIABLES
    own,         \* client: own_avatar, as a set of at most one
    trains,      \* client: avatar_tx, a queue of [pic, next]
    pending,     \* client: the link's queue
    taken,       \* how many of pending the server has been handed
    requests,    \* AvatarRequests in flight to the client
    announced,   \* server: Member::avatar, as a set of at most one
    rx,          \* server: Member::avatar_rx, as a set of at most one
    cache,       \* server: avatar_cache
    charged,     \* server: violations charged to the member
    connected,   \* server: Member::connected
    sets,        \* set_avatar calls so far
    refused,     \* history: the client's link has answered LinkFull
    shown,       \* history: pictures the member has set
    putBack      \* history: the member went back to a replaced picture

clientVars == <<own, trains>>
serverVars == <<announced, rx, cache, charged, connected>>
history == <<shown, putBack>>
vars == <<clientVars, pending, taken, requests, serverVars, sets, refused, history>>

Init ==
    /\ own = {} /\ trains = <<>>
    /\ pending = <<>> /\ taken = 0 /\ requests = <<>>
    /\ announced = {} /\ rx = {} /\ cache = {} /\ charged = 0 /\ connected = TRUE
    /\ sets = 0 /\ refused = FALSE /\ shown = {} /\ putBack = FALSE

Announce(p) == [kind |-> "set", pic |-> p]
Chunk(p, i) == [kind |-> "chunk", pic |-> p, index |-> i]

(* ControlLink::send of each message; the callers drop what it answers.    *)
Queue(msgs) ==
    LET room == MAX_PENDING - Len(pending)
    IN  /\ pending' = pending \o SubSeq(msgs, 1, IF Len(msgs) < room THEN Len(msgs) ELSE room)
        /\ refused' = (refused \/ Len(msgs) > room)

-----------------------------------------------------------------------------
(* Fault: the trains of a replaced picture run on.                         *)
set_avatarKeepsTrains(p) ==
    /\ connected
    /\ sets < MaxSets
    /\ sets' = sets + 1
    /\ own' = {p}
    /\ shown' = shown \cup {p}
    /\ putBack' = (putBack \/ p \in shown \ own)
    /\ Queue(<<Announce(p)>>)
    /\ UNCHANGED <<trains, taken, requests, serverVars>>

(* set_avatar of a joined client: a replaced picture's trains are dropped. *)
(* A full link answers an error, after the change.                         *)
set_avatar(p) ==
    /\ connected
    /\ sets < MaxSets
    /\ sets' = sets + 1
    /\ own' = {p}
    /\ shown' = shown \cup {p}
    /\ putBack' = (putBack \/ p \in shown \ own)
    /\ trains' = Sifted(trains, [pic : {p}, next : Nat])
    /\ Queue(<<Announce(p)>>)
    /\ UNCHANGED <<taken, requests, serverVars>>

(* handle_control of AvatarRequest: a request for another picture than the *)
(* current one is stale, and one already being answered changes nothing.   *)
ClientAsked ==
    /\ connected
    /\ requests # <<>>
    /\ LET p == Head(requests)
       IN  trains' = IF p \in own /\ \A i \in DOMAIN trains : trains[i].pic # p
                     THEN Append(trains, [pic |-> p, next |-> 0]) ELSE trains
    /\ requests' = Tail(requests)
    /\ UNCHANGED <<own, pending, taken, serverVars, sets, refused, history>>

(* The pacing loop of poll.  The cursor moves on whatever send answers,    *)
(* and a train that has nothing left is dropped by the call that finds out.*)
(* A train only ever stands behind none: set_avatar drops the other ones.  *)
FeedTrain(t) ==
    LET last == IF t.next + CHUNKS_PER_POLL < TOTAL THEN t.next + CHUNKS_PER_POLL ELSE TOTAL
    IN  /\ Queue([i \in 1 .. (last - t.next) |-> Chunk(t.pic, t.next + i - 1)])
        /\ trains' = IF last < t.next + CHUNKS_PER_POLL THEN Tail(trains)
                     ELSE <<[pic |-> t.pic, next |-> last]>> \o Tail(trains)

poll ==
    /\ connected
    /\ trains # <<>>
    /\ FeedTrain(Head(trains))
    /\ UNCHANGED <<own, taken, requests, serverVars, sets, history>>

(* An acknowledgement reaches the client's link.                           *)
Retire ==
    /\ taken > 0
    /\ pending' = Tail(pending)
    /\ taken' = taken - 1
    /\ UNCHANGED <<clientVars, requests, serverVars, sets, refused, history>>

-----------------------------------------------------------------------------
Train(p) == {[pic |-> p, next |-> 0]}

(* handle_control of SetAvatar.                                            *)
ServerSetAvatar(p) ==
    /\ announced' = {p}
    /\ IF p \in cache
       THEN rx' = {} /\ UNCHANGED requests
       ELSE IF announced = {p} /\ \E r \in rx : r.pic = p
            THEN UNCHANGED <<rx, requests>>
            ELSE rx' = Train(p) /\ requests' = Append(requests, p)
    /\ UNCHANGED <<cache, charged, connected>>

(* AvatarCache::insert: over its budget the cache gives up pictures that   *)
(* are neither pinned nor the new one.  Which it referenced last is a      *)
(* choice.                                                                 *)
Inserted(held, p, pins) ==
    LET all == held \cup {p}
        kept == {p} \cup (held \cap pins)
        size == IF Cardinality(all) <= MAX_CACHED THEN Cardinality(all)
                ELSE Max({Cardinality(kept), MAX_CACHED})
    IN  {S \in SUBSET all : kept \subseteq S /\ Cardinality(S) = size}

(* handle_control of AvatarChunk, with AvatarRx::push: in order or not at  *)
(* all.  Any refusal ends the train and is charged as a violation; past    *)
(* the budget the member is ejected, which drops the connection.           *)
Fits(p, i) == [pic |-> p, next |-> i] \in rx

ServerChunk(p, i) ==
    /\ IF Fits(p, i)
       THEN /\ rx' = IF i + 1 < TOTAL THEN {[pic |-> p, next |-> i + 1]} ELSE {}
            /\ cache' \in IF i + 1 < TOTAL THEN {cache} ELSE Inserted(cache, p, announced)
            /\ UNCHANGED <<charged, connected>>
       ELSE /\ rx' = {}
            /\ charged' = charged + 1
            /\ connected' = (charged < VIOLATION_BURST)
            /\ UNCHANGED cache
    /\ UNCHANGED <<announced, requests>>

ServerHears ==
    /\ connected
    /\ taken < Len(pending)
    /\ taken' = taken + 1
    /\ LET msg == pending[taken + 1]
       IN  \/ msg.kind = "set" /\ ServerSetAvatar(msg.pic)
           \/ msg.kind = "chunk" /\ ServerChunk(msg.pic, msg.index)
    /\ UNCHANGED <<clientVars, pending, sets, refused, history>>

(* AvatarRequest of a bandmate for the announced picture: an owner not     *)
(* uploading is nudged.                                                    *)
BandmateAsks(p) ==
    /\ connected
    /\ p \in announced \ cache
    /\ rx = {}
    /\ rx' = Train(p)
    /\ requests' = Append(requests, p)
    /\ UNCHANGED <<clientVars, pending, taken, announced, cache, charged, connected, sets, refused, history>>

Next ==
    \/ \E p \in Pictures : set_avatar(p) \/ BandmateAsks(p)
    \/ ClientAsked
    \/ poll
    \/ Retire
    \/ ServerHears

Spec == Init /\ [][Next]_vars

-----------------------------------------------------------------------------
Messages == [kind : {"set"}, pic : Pictures]
            \cup [kind : {"chunk"}, pic : Pictures, index : 0 .. (TOTAL - 1)]

(* The two ends of an upload and the link between them have the source's   *)
(* types; at most one train runs at either end, of the picture in force.   *)
TypeOK ==
    /\ \E p \in Pictures : own \subseteq {p}
    /\ trains \in {<<>>} \cup {<<[pic |-> p, next |-> i]>> : p \in own, i \in 0 .. TOTAL}
    /\ pending \in Seq(Messages) /\ Len(pending) <= MAX_PENDING
    /\ taken \in 0 .. Len(pending)
    /\ requests \in Seq(Pictures)
    /\ \E p \in Pictures : announced \subseteq {p}
    /\ rx = {} \/ \E p \in announced, i \in 0 .. (TOTAL - 1) : rx = {[pic |-> p, next |-> i]}
    /\ cache \subseteq Pictures
    /\ charged \in 0 .. (VIOLATION_BURST + 1)
    /\ connected \in BOOLEAN /\ sets \in 0 .. MaxSets /\ refused \in BOOLEAN
    /\ shown \subseteq Pictures /\ putBack \in BOOLEAN

(* limits.rs: "An honest client sends none: every violation the server     *)
(* counts is something no shipped client does."                            *)
HonestClientNotCharged == charged = 0

(* What is left of it: the request, the replacement of a picture halfway   *)
(* through its upload and the train that answers cross in a way the server *)
(* charges for in two cases only, a link that refused a message of the     *)
(* client and a member who went back to a picture just replaced (whose     *)
(* first request is then answered late and whose second is answered too).  *)
ChargedOnlyForCrossedTrains == charged > 0 => refused \/ putBack
=============================================================================
