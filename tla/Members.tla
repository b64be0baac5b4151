------------------------------ MODULE Members ------------------------------
(***************************************************************************)
(* Membership of one jam session as ServerCore keeps it                    *)
(* (crates/session/src/server.rs): admission, the control handlers that    *)
(* change who is in the room, the reap and quiet scans of the tick, the    *)
(* coalesced roster, shutdown and restart.                                 *)
(*                                                                         *)
(* A seat is a MemberId and an invite is a token: a seat that was revoked  *)
(* is minted into again under a fresh token, of either role, so several    *)
(* tokens may name one seat.  A transport session is identified by the     *)
(* init it answers and by its admission, because answering the same init   *)
(* twice makes two sessions.                                               *)
(*                                                                         *)
(* The clients are any environment: an init may arrive at any time, again  *)
(* or late, and a connected member may send anything.  Time is abstracted  *)
(* to ages that Pass advances and a handler resets.  The mixer, avatars    *)
(* and handshake rate limits carry no property here: a refused budget is   *)
(* a lost datagram.  A datagram carries one control message: what follows  *)
(* the sender's own Bye or ejection inside one batch is left out.          *)
(***************************************************************************)
EXTENDS Integers, FiniteSets

CONSTANTS
    Tokens,            \* the invites of the session (jti)
    Seats,             \* member ids
    SeatOf,            \* [Tokens -> Seats], Token::member_id
    RoleOf,            \* [Tokens -> Roles], Token::role
    HostSeat,          \* HOST_MEMBER_ID
    Cap,               \* [Roles -> Nat], max_musicians and max_listeners
    Names,             \* names a member may choose
    REJOIN_SILENCE,    \* 2 s: a member heard more recently keeps its session
    RESP_CACHE,        \* 5 s: a repeated init draws the same response
    MEMBER_QUIET,      \* 2 s: the roster says quiet
    MEMBER_TIMEOUT,    \* 10 s: a silent member is reaped
    VIOLATION_BURST,   \* protocol violations a member may spend
    MaxInits,          \* bound: handshakes started with each token
    MaxAdmits          \* bound: admissions granted

Roles == {"musician", "listener"}

NoToken == "no token"

ASSUME MembersAssumption ==
    /\ IsFiniteSet(Seats)
    /\ NoToken \notin Tokens
    /\ SeatOf \in [Tokens -> Seats]
    /\ RoleOf \in [Tokens -> Roles]
    /\ HostSeat \in Seats
    /\ Cap \in [Roles -> Nat]
    /\ REJOIN_SILENCE \in Nat /\ RESP_CACHE \in Nat /\ MEMBER_QUIET \in Nat
    /\ MEMBER_TIMEOUT \in Nat /\ VIOLATION_BURST \in Nat
    /\ MaxInits \in Nat /\ MaxAdmits \in Nat

VARIABLES
    members,       \* ServerCore::members, Vacant where there is no entry
    revoked,       \* ServerCore::revoked
    rosterDirty,   \* roster_dirty
    lastCount,     \* last_musician_count
    admits,        \* admissions granted so far
    running        \* the server process has not said goodbye

roomVars == <<members, revoked, rosterDirty, lastCount, admits, running>>

(* n = 0 is the absence of a session.  roster is the last one queued to    *)
(* the member; missed is history: its queue had no room for a later one.   *)
NoSession == [tok |-> NoToken, init |-> 0, n |-> 0]

Vacant == [tok |-> NoToken, name |-> "hint", conn |-> FALSE, sess |-> NoSession,
           heard |-> 0, cached |-> 0, quiet |-> FALSE, budget |-> VIOLATION_BURST,
           roster |-> {}, missed |-> FALSE]

RoomInit ==
    /\ members = [id \in Seats |-> Vacant]
    /\ revoked = {}
    /\ rosterDirty = FALSE
    /\ lastCount = 0
    /\ admits = 0
    /\ running = TRUE

-----------------------------------------------------------------------------
Connected(mem) == {id \in Seats : mem[id].conn}

InRole(mem, role) == {id \in Connected(mem) : RoleOf[mem[id].tok] = role}

musicians_connected(mem) == Cardinality(InRole(mem, "musician"))

note_musician_count == lastCount' = musicians_connected(members')

(* disconnect_member: the entry, its name and its violation budget stay.   *)
Disconnected(m) ==
    [m EXCEPT !.conn = FALSE, !.quiet = FALSE, !.sess = NoSession,
              !.heard = 0, !.cached = 0, !.roster = {}, !.missed = FALSE]

(* What flush_roster lists.                                                *)
Line(mem, id) == [id |-> id, tok |-> mem[id].tok, name |-> mem[id].name,
                  conn |-> mem[id].conn, quiet |-> mem[id].quiet]

Roster(mem) == {Line(mem, id) : id \in {i \in Seats : mem[i].tok # NoToken}}

-----------------------------------------------------------------------------
(* Fault: admit does not ask whether the invite was revoked.               *)
WelcomeRevoked(t) ==
    /\ running
    /\ members[SeatOf[t]].tok # NoToken => members[SeatOf[t]].budget > 0

(***************************************************************************)
(* ServerCore::admit of the n-th init made with token t.                   *)
(***************************************************************************)
Welcome(t) ==
    /\ running
    /\ t \notin revoked
    /\ members[SeatOf[t]].tok # NoToken => members[SeatOf[t]].budget > 0

(* A repeat of the init behind the live session draws the cached response, *)
(* which pairs with that session, and makes no state.  Any other init is   *)
(* dropped while the member is being heard.                                *)
CacheHit(t, n) ==
    /\ members[SeatOf[t]].sess.tok = t
    /\ members[SeatOf[t]].sess.init = n
    /\ members[SeatOf[t]].cached <= RESP_CACHE

HoldsSeat(t, n) ==
    /\ members[SeatOf[t]].conn
    /\ CacheHit(t, n) \/ members[SeatOf[t]].heard <= REJOIN_SILENCE

(* Fault: one place too many.                                              *)
RoleFullOneMore(t) ==
    Cardinality(InRole(members, RoleOf[t]) \ {SeatOf[t]}) > Cap[RoleOf[t]]

RoleFull(t) ==
    Cardinality(InRole(members, RoleOf[t]) \ {SeatOf[t]}) >= Cap[RoleOf[t]]

(* A join, or a fast rejoin that replaces the session of a silent member.  *)
(* The violation budget outlives the entry; the name is rebuilt from the   *)
(* token and everything of the connection starts fresh.                    *)
Seated(t, s) ==
    [Vacant EXCEPT !.tok = t, !.conn = TRUE, !.sess = s, !.budget = members[SeatOf[t]].budget]

NextSession(t, n) == [tok |-> t, init |-> n, n |-> admits + 1]

admit(t, n) ==
    /\ Welcome(t)
    /\ ~HoldsSeat(t, n)
    /\ ~RoleFull(t)
    /\ admits < MaxAdmits
    /\ admits' = admits + 1
    /\ members' = [members EXCEPT ![SeatOf[t]] = Seated(t, NextSession(t, n))]
    /\ rosterDirty' = TRUE
    /\ note_musician_count
    /\ UNCHANGED <<revoked, running>>

-----------------------------------------------------------------------------
(***************************************************************************)
(* ServerCore::handle_transport of a packet that opened under the session  *)
(* of member id, by what it carried.                                       *)
(***************************************************************************)
Hears(id) == running /\ members[id].conn

Heard(id) == [members[id] EXCEPT !.heard = 0]

(* Media, pings, mixer settings: anything that leaves the room as it is.   *)
ReceiveData(id) ==
    /\ Hears(id)
    /\ members' = [members EXCEPT ![id] = Heard(id)]
    /\ UNCHANGED <<revoked, rosterDirty, lastCount, admits, running>>

ReceiveName(id, name) ==
    /\ Hears(id)
    /\ members' = [members EXCEPT ![id] = [Heard(id) EXCEPT !.name = name]]
    /\ rosterDirty' = (rosterDirty \/ name # members[id].name)
    /\ UNCHANGED <<revoked, lastCount, admits, running>>

ReceiveBye(id) ==
    /\ Hears(id)
    /\ members' = [members EXCEPT ![id] = Disconnected(members[id])]
    /\ rosterDirty' = TRUE
    /\ note_musician_count
    /\ UNCHANGED <<revoked, admits, running>>

(* violation, for a message the handlers refuse (a guest's Revoke among    *)
(* them): a spent budget ejects, and keeps the member out of admit until   *)
(* it has refilled.                                                        *)
violation(id) ==
    /\ Hears(id)
    /\ IF members[id].budget > 0
       THEN /\ members' = [members EXCEPT ![id] = [Heard(id) EXCEPT !.budget = @ - 1]]
            /\ UNCHANGED <<rosterDirty, lastCount>>
       ELSE /\ members' = [members EXCEPT ![id] = Disconnected(members[id])]
            /\ rosterDirty' = TRUE
            /\ note_musician_count
    /\ UNCHANGED <<revoked, admits, running>>

(* Fault: the seat is revoked, not the invite.                             *)
HeldBySeat(jti) == {i \in Seats : i = SeatOf[jti] /\ members[i].tok # NoToken}

(* Revoke: the token is refused from now on, and the member whose entry    *)
(* was made with it, the host too, is removed.                             *)
HeldBy(jti) == {i \in Seats : members[i].tok = jti}

ReceiveRevoke(jti) ==
    /\ Hears(HostSeat)
    /\ revoked' = revoked \cup {jti}
    /\ members' = [i \in Seats |-> IF i \in HeldBy(jti) THEN Vacant
                                   ELSE IF i = HostSeat THEN Heard(i) ELSE members[i]]
    /\ rosterDirty' = (rosterDirty \/ HeldBy(jti) # {})
    /\ note_musician_count
    /\ UNCHANGED <<admits, running>>

-----------------------------------------------------------------------------
(* Fault: only a dead control link is reaped.                              *)
ReapedDeadOnly(dead) == Connected(members) \cap dead

(***************************************************************************)
(* ServerCore::tick: the roster to every connected member if it is stale,  *)
(* then the reap scan (silence, or a control link that gave up, which is   *)
(* any of `dead'), then the quiet scan over the rest.                      *)
(*                                                                         *)
(* A member whose control queue is at its cap, which is any of `full',     *)
(* does not get the roster: flush_roster has spent the mark by then and    *)
(* drops the LinkFull of the send, so nothing sends it again.  Which older *)
(* roster such a member still shows is not kept.                           *)
(***************************************************************************)
Reaped(dead) == {id \in Connected(members) : members[id].heard >= MEMBER_TIMEOUT \/ id \in dead}

Owed == IF rosterDirty THEN Connected(members) ELSE {}

Told(id, full) ==
    IF id \notin Owed THEN members[id]
    ELSE IF id \in full THEN [members[id] EXCEPT !.roster = {}, !.missed = TRUE]
    ELSE [members[id] EXCEPT !.roster = Roster(members), !.missed = FALSE]

IsQuiet(id) == members[id].conn /\ members[id].heard >= MEMBER_QUIET

Scanned(id, dead, full) ==
    IF id \in Reaped(dead) THEN Disconnected(Told(id, full))
    ELSE [Told(id, full) EXCEPT !.quiet = IsQuiet(id)]

(* Fault: a reap does not make the roster stale.                           *)
MovedQuietOnly(dead) == \E id \in Seats \ Reaped(dead) : members[id].quiet # IsQuiet(id)

Moved(dead) ==
    \/ Reaped(dead) # {}
    \/ \E id \in Seats \ Reaped(dead) : members[id].quiet # IsQuiet(id)

Tick(dead, full) ==
    /\ running
    /\ members' = [id \in Seats |-> Scanned(id, dead, full)]
    /\ rosterDirty' = Moved(dead)
    /\ note_musician_count
    /\ UNCHANGED <<revoked, admits, running>>

(* drop_peer, after a panic on one of the member's datagrams.              *)
drop_peer(id) ==
    /\ running
    /\ members[id].conn
    /\ members' = [members EXCEPT ![id] = Disconnected(@)]
    /\ rosterDirty' = TRUE
    /\ note_musician_count
    /\ UNCHANGED <<revoked, admits, running>>

(* shutdown, after which the process is gone.                              *)
Shutdown ==
    /\ running
    /\ running' = FALSE
    /\ members' = [id \in Seats |-> IF members[id].conn THEN Disconnected(members[id]) ELSE members[id]]
    /\ note_musician_count
    /\ UNCHANGED <<revoked, rosterDirty, admits>>

(* A crash, and the unit's restart: a new core, to which restore_revoked   *)
(* hands what the file kept, the matter of RevocationLog.                  *)
Restart ==
    /\ running
    /\ revoked' \in SUBSET revoked
    /\ members' = [id \in Seats |-> Vacant]
    /\ rosterDirty' = FALSE
    /\ lastCount' = 0
    /\ UNCHANGED <<admits, running>>

(***************************************************************************)
(* The clock.  Ages past the last threshold are alike.                     *)
(***************************************************************************)
Older(age, limit) == IF age < limit THEN age + 1 ELSE age

Aged(m) == IF m.conn THEN [m EXCEPT !.heard = Older(@, MEMBER_TIMEOUT),
                                    !.cached = Older(@, RESP_CACHE + 1)] ELSE m

Pass ==
    /\ members' = [id \in Seats |-> Aged(members[id])]
    /\ UNCHANGED <<revoked, rosterDirty, lastCount, admits, running>>

(* The violation bucket refills at its own rate.                           *)
Refill(id) ==
    /\ members[id].budget < VIOLATION_BURST
    /\ members' = [members EXCEPT ![id].budget = @ + 1]
    /\ UNCHANGED <<revoked, rosterDirty, lastCount, admits, running>>

RoomNext ==
    \/ \E t \in Tokens : \E n \in 1 .. MaxInits : admit(t, n)
    \/ \E id \in Seats : ReceiveData(id) \/ ReceiveBye(id) \/ violation(id) \/ drop_peer(id) \/ Refill(id)
    \/ \E id \in Seats : \E name \in Names : ReceiveName(id, name)
    \/ \E jti \in Tokens : ReceiveRevoke(jti)
    \/ \E dead \in SUBSET Connected(members) : \E full \in SUBSET Owed : Tick(dead, full)
    \/ Shutdown
    \/ Restart
    \/ Pass

RoomSpec == RoomInit /\ [][RoomNext]_roomVars

-----------------------------------------------------------------------------
Sessions == [tok : Tokens \cup {NoToken}, init : 0 .. MaxInits, n : 0 .. MaxAdmits]

AllNames == Names \cup {"hint"}

RosterLine == [id : Seats, tok : Tokens \cup {NoToken}, name : AllNames, conn : BOOLEAN, quiet : BOOLEAN]

Member == [tok : Tokens \cup {NoToken}, name : AllNames, conn : BOOLEAN, sess : Sessions,
           heard : Nat, cached : Nat, quiet : BOOLEAN, budget : Nat, roster : SUBSET RosterLine,
           missed : BOOLEAN]

(* The core's fields have the types of the source, an entry sits in the    *)
(* seat its token names, and only an entry is connected.                   *)
RoomTypeOK ==
    /\ members \in [Seats -> Member]
    /\ \A id \in Seats : members[id].tok # NoToken => SeatOf[members[id].tok] = id
    /\ \A id \in Seats : members[id].conn => members[id].tok # NoToken
    /\ revoked \subseteq Tokens
    /\ rosterDirty \in BOOLEAN
    /\ lastCount \in Nat
    /\ admits \in 0 .. MaxAdmits
    /\ running \in BOOLEAN

(* max_musicians "is the size of the band, not the number of guests": no   *)
(* sequence of joins, fast rejoins, reissued invites of another role,      *)
(* ejections and restarts seats more of a role than the session has.       *)
CapacityRespected == \A role \in Roles : Cardinality(InRole(members, role)) <= Cap[role]

(* A revoked invite holds no entry, connected or not, for as long as the   *)
(* server remembers it: not through a rejoin that raced the revocation, a  *)
(* late init, a reissued seat, or a restart.                               *)
RevokedHasNoSeat == \A id \in Seats : members[id].tok \notin revoked

(* Coalescing rosters loses none: unless a flush is due, what a connected  *)
(* member was last sent is the room as it is, or its own queue refused the *)
(* last roster of all.  Every handler that changes the room must mark it   *)
(* stale, and the tick that flushes must not swallow what its own scans    *)
(* change afterwards.  A refused roster is not sent again, and the member  *)
(* shows an old room until the room changes next.                          *)
RosterCurrent ==
    ~rosterDirty =>
      \A id \in Connected(members) : members[id].missed \/ members[id].roster = Roster(members)

(* The count the driver is told by MusicianCountChanged is the count of    *)
(* the room, whichever path a musician came or went by.                    *)
CountCurrent == lastCount = musicians_connected(members)

(* Revoking an invite unseats nobody else: not the holder of the invite    *)
(* minted into the same seat since, who may already sit in it.             *)
RevokeSparesOthers ==
    [][~(revoked' \subseteq revoked) =>
         \A id \in Connected(members) :
            members[id].tok \notin revoked' =>
               members'[id].conn /\ members'[id].sess = members[id].sess]_roomVars
=============================================================================
