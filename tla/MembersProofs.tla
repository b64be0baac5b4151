--------------------------- MODULE MembersProofs ---------------------------
(***************************************************************************)
(* Whatever the clients send and in whatever order, the server never seats *)
(* more of a role than the session has, never keeps a revoked invite in    *)
(* the room, never lets a coalesced roster go missing but to a full queue  *)
(* and never reports a stale count of musicians: for every set of invites  *)
(* and seats and every value of the timers and limits.  Among the clients  *)
(* of Session it does nothing else, and nobody there speaks for another.   *)
(***************************************************************************)
EXTENDS Session, FiniteSetTheorems, TLAPS

(* The room's invariants are inductive together: capacity needs the seat   *)
(* of an entry to be the one its token names, and the roster needs the     *)
(* entries to have their types.                                            *)
IInv ==
    /\ RoomTypeOK
    /\ CapacityRespected
    /\ RevokedHasNoSeat
    /\ RosterCurrent
    /\ CountCurrent

-----------------------------------------------------------------------------
(* What a step may do to the room.                                         *)

(* Nobody comes in, and an entry keeps its token or is removed.            *)
OnlyLeaves ==
    \A id \in Seats :
        /\ members'[id].tok \in {members[id].tok, NoToken}
        /\ members'[id].conn => members[id].conn /\ members'[id].tok = members[id].tok

(* Nothing a roster shows changes, and no roster is sent.                  *)
SameRoom ==
    \A id \in Seats :
        /\ members'[id].tok = members[id].tok
        /\ members'[id].name = members[id].name
        /\ members'[id].conn = members[id].conn
        /\ members'[id].quiet = members[id].quiet
        /\ members'[id].roster = members[id].roster
        /\ members'[id].missed = members[id].missed

-----------------------------------------------------------------------------
(* Entries.                                                                *)

LEMMA VacantType ==
    /\ Vacant \in Member
    /\ Vacant.tok = NoToken
    /\ Vacant.conn = FALSE
BY MembersAssumption DEF Vacant, Member, NoSession, Sessions, AllNames

LEMMA DisconnectedType ==
    ASSUME NEW m \in Member
    PROVE  /\ Disconnected(m) \in Member
           /\ Disconnected(m).tok = m.tok
           /\ Disconnected(m).conn = FALSE
<1>1. NoSession \in Sessions
  BY MembersAssumption DEF NoSession, Sessions
<1> QED BY <1>1 DEF Disconnected, Member

(* Every roster is a set of lines about entries.                           *)
LEMMA RosterType ==
    ASSUME NEW mem \in [Seats -> Member] PROVE Roster(mem) \subseteq RosterLine
<1>1. ASSUME NEW id \in Seats PROVE Line(mem, id) \in RosterLine
  BY DEF Line, RosterLine, Member
<1> QED BY <1>1 DEF Roster

(* A roster is read off five fields of the entries.                        *)
LEMMA RosterSame ==
    ASSUME NEW mem, NEW mem2,
           \A id \in Seats : Line(mem2, id) = Line(mem, id) /\ mem2[id].tok = mem[id].tok
    PROVE  Roster(mem2) = Roster(mem)
BY DEF Roster

(* A role is a finite set of seats.                                        *)
LEMMA InRoleFinite ==
    ASSUME NEW mem, NEW role
    PROVE  /\ InRole(mem, role) \subseteq Seats
           /\ IsFiniteSet(InRole(mem, role))
           /\ Cardinality(InRole(mem, role)) \in Nat
<1>1. InRole(mem, role) \in SUBSET Seats
  BY DEF InRole, Connected
<1>2. IsFiniteSet(InRole(mem, role))
  BY <1>1, FS_Subset, MembersAssumption
<1> QED BY <1>1, <1>2, FS_CardinalityType

-----------------------------------------------------------------------------
(* A step by which nobody comes in leaves types, capacity and count right. *)
LEMMA LeavesKeepCapacity ==
    ASSUME CapacityRespected, OnlyLeaves PROVE CapacityRespected'
<1> SUFFICES ASSUME NEW role \in Roles
             PROVE  Cardinality(InRole(members', role)) <= Cap[role]
  BY DEF CapacityRespected
<1>1. InRole(members', role) \in SUBSET InRole(members, role)
  BY DEF InRole, Connected, OnlyLeaves
<1>2. Cardinality(InRole(members', role)) <= Cardinality(InRole(members, role))
  BY <1>1, InRoleFinite, FS_Subset
<1>3. /\ Cardinality(InRole(members', role)) \in Nat
      /\ Cardinality(InRole(members, role)) \in Nat
      /\ Cap[role] \in Nat
  BY InRoleFinite, MembersAssumption
<1> QED BY <1>2, <1>3 DEF CapacityRespected

(* The count is taken where the code takes it.                             *)
LEMMA CountTaken ==
    ASSUME note_musician_count PROVE CountCurrent' /\ lastCount' \in Nat
<1>1. Cardinality(InRole(members', "musician")) \in Nat
  BY InRoleFinite
<1> QED BY <1>1 DEF note_musician_count, CountCurrent, musicians_connected

(* A step that does not count leaves the same musicians in the room.       *)
LEMMA SameRoomCount ==
    ASSUME SameRoom, CountCurrent, UNCHANGED lastCount PROVE CountCurrent'
<1>1. InRole(members', "musician") = InRole(members, "musician")
  BY DEF InRole, Connected, SameRoom
<1> QED BY <1>1 DEF CountCurrent, musicians_connected

(* Nor does it make a roster out of date.                                  *)
LEMMA SameRoomRoster ==
    ASSUME SameRoom, RosterCurrent, rosterDirty' = rosterDirty PROVE RosterCurrent'
<1>1. \A id \in Seats : Line(members', id) = Line(members, id)
                        /\ members'[id].tok = members[id].tok
  BY DEF SameRoom, Line
<1>2. Roster(members') = Roster(members)
  BY <1>1, RosterSame
<1>3. Connected(members') = Connected(members)
  BY DEF Connected, SameRoom
<1>4. \A id \in Connected(members) : /\ members'[id].roster = members[id].roster
                                      /\ members'[id].missed = members[id].missed
  BY DEF Connected, SameRoom
<1> QED BY <1>2, <1>3, <1>4 DEF RosterCurrent

LEMMA SameRoomLeaves == ASSUME SameRoom PROVE OnlyLeaves
BY DEF SameRoom, OnlyLeaves

(* An entry stays in the seat its token names, and stays an entry while it *)
(* is connected.                                                           *)
LEMMA LeavesKeepSeats ==
    ASSUME RoomTypeOK, OnlyLeaves
    PROVE  /\ \A id \in Seats : members'[id].tok # NoToken => SeatOf[members'[id].tok] = id
           /\ \A id \in Seats : members'[id].conn => members'[id].tok # NoToken
BY DEF RoomTypeOK, OnlyLeaves

(* A member that only leaves takes no revoked token with it.               *)
LEMMA LeavesKeepRevoked ==
    ASSUME RoomTypeOK, RevokedHasNoSeat, OnlyLeaves, revoked' \subseteq revoked
    PROVE  RevokedHasNoSeat'
BY MembersAssumption DEF RoomTypeOK, OnlyLeaves, RevokedHasNoSeat

-----------------------------------------------------------------------------
(* The two shapes of most steps.                                           *)

LEMMA SameRoomInv ==
    ASSUME IInv, SameRoom, members' \in [Seats -> Member],
           UNCHANGED <<revoked, rosterDirty, lastCount, admits, running>>
    PROVE  IInv'
<1>1. OnlyLeaves
  BY SameRoomLeaves
<1>2. RoomTypeOK'
  BY <1>1, LeavesKeepSeats DEF IInv, RoomTypeOK
<1>3. CapacityRespected'
  BY <1>1, LeavesKeepCapacity DEF IInv
<1>4. RevokedHasNoSeat'
  BY <1>1, LeavesKeepRevoked DEF IInv
<1>5. RosterCurrent'
  BY SameRoomRoster DEF IInv
<1>6. CountCurrent'
  BY SameRoomCount DEF IInv
<1> QED BY <1>2, <1>3, <1>4, <1>5, <1>6 DEF IInv

LEMMA LeaveInv ==
    ASSUME IInv, OnlyLeaves, members' \in [Seats -> Member],
           rosterDirty' \in BOOLEAN, RosterCurrent', RevokedHasNoSeat',
           revoked' \subseteq Tokens, note_musician_count,
           UNCHANGED admits, running' \in BOOLEAN
    PROVE  IInv'
<1>1. RoomTypeOK'
  BY LeavesKeepSeats, CountTaken DEF IInv, RoomTypeOK
<1>2. CapacityRespected'
  BY LeavesKeepCapacity DEF IInv
<1>3. CountCurrent'
  BY CountTaken
<1> QED BY <1>1, <1>2, <1>3 DEF IInv

-----------------------------------------------------------------------------
(* A new core has an empty room.                                           *)
LEMMA EmptyRoom ==
    ASSUME NEW mem, mem = [id \in Seats |-> Vacant]
    PROVE  \A role : InRole(mem, role) = {} /\ Cardinality(InRole(mem, role)) = 0
<1>1. Connected(mem) = {}
  BY VacantType DEF Connected
<1> QED BY <1>1, FS_EmptySet DEF InRole

LEMMA InitInv == RoomInit => IInv
<1> SUFFICES ASSUME RoomInit PROVE IInv
  OBVIOUS
<1>1. members = [id \in Seats |-> Vacant]
  BY DEF RoomInit
<1>2. RoomTypeOK
  <2>1. members \in [Seats -> Member]
    BY <1>1, VacantType
  <2>2. \A id \in Seats : members[id].tok = NoToken /\ members[id].conn = FALSE
    BY <1>1, VacantType
  <2>3. lastCount \in Nat /\ admits \in 0 .. MaxAdmits
    BY MembersAssumption DEF RoomInit
  <2>4. revoked \subseteq Tokens /\ rosterDirty \in BOOLEAN /\ running \in BOOLEAN
    BY DEF RoomInit
  <2> QED BY <2>1, <2>2, <2>3, <2>4 DEF RoomTypeOK
<1>3. CapacityRespected /\ CountCurrent
  BY <1>1, EmptyRoom, MembersAssumption
     DEF RoomInit, CapacityRespected, CountCurrent, musicians_connected
<1>4. RevokedHasNoSeat
  BY DEF RoomInit, RevokedHasNoSeat
<1>5. RosterCurrent
  BY <1>1, VacantType DEF RosterCurrent, Connected
<1> QED BY <1>2, <1>3, <1>4, <1>5 DEF IInv

(* What a step that replaces one entry does to the others.                 *)
LEMMA Replaced ==
    ASSUME RoomTypeOK, NEW id \in Seats, NEW m \in Member, members' = [members EXCEPT ![id] = m]
    PROVE  /\ members' \in [Seats -> Member]
           /\ members'[id] = m
           /\ \A i \in Seats \ {id} : members'[i] = members[i]
BY DEF RoomTypeOK

(* Steps that leave the room as it is.                                     *)
LEMMA HeardType ==
    ASSUME RoomTypeOK, NEW id \in Seats
    PROVE  /\ Heard(id) \in Member
           /\ Heard(id).tok = members[id].tok
           /\ Heard(id).name = members[id].name
           /\ Heard(id).conn = members[id].conn
           /\ Heard(id).quiet = members[id].quiet
           /\ Heard(id).roster = members[id].roster
           /\ Heard(id).missed = members[id].missed
           /\ Heard(id).budget = members[id].budget
BY DEF RoomTypeOK, Heard, Member

LEMMA DataInv == ASSUME IInv, NEW id \in Seats, ReceiveData(id) PROVE IInv'
<1>1. RoomTypeOK
  BY DEF IInv
<1>2. members' = [members EXCEPT ![id] = Heard(id)]
  BY DEF ReceiveData
<1>3. /\ members' \in [Seats -> Member]
      /\ members'[id] = Heard(id)
      /\ \A i \in Seats \ {id} : members'[i] = members[i]
  BY <1>1, <1>2, HeardType, Replaced
<1>4. SameRoom
  BY <1>1, <1>3, HeardType DEF SameRoom
<1> QED BY <1>3, <1>4, SameRoomInv DEF ReceiveData

LEMMA RefillInv == ASSUME IInv, NEW id \in Seats, Refill(id) PROVE IInv'
<1>1. RoomTypeOK
  BY DEF IInv
<1>2. members[id] \in Member
  BY <1>1 DEF RoomTypeOK
<1> DEFINE m == [members[id] EXCEPT !.budget = @ + 1]
<1>3. m \in Member /\ m.tok = members[id].tok /\ m.name = members[id].name
      /\ m.conn = members[id].conn /\ m.quiet = members[id].quiet
      /\ m.roster = members[id].roster /\ m.missed = members[id].missed
  BY <1>2 DEF Member
<1>4. members' = [members EXCEPT ![id] = m]
  BY DEF Refill
<1> HIDE DEF m
<1>5. SameRoom /\ members' \in [Seats -> Member]
  BY <1>1, <1>3, <1>4, Replaced DEF SameRoom
<1> QED BY <1>5, SameRoomInv DEF Refill

LEMMA PassInv == ASSUME IInv, Pass PROVE IInv'
<1>1. \A id \in Seats : members[id] \in Member
  BY DEF IInv, RoomTypeOK
<1>2. ASSUME NEW m \in Member
      PROVE  /\ Aged(m) \in Member /\ Aged(m).tok = m.tok /\ Aged(m).name = m.name
             /\ Aged(m).conn = m.conn /\ Aged(m).quiet = m.quiet /\ Aged(m).roster = m.roster
             /\ Aged(m).missed = m.missed
  <2>1. Older(m.heard, MEMBER_TIMEOUT) \in Nat /\ Older(m.cached, RESP_CACHE + 1) \in Nat
    BY MembersAssumption DEF Older, Member
  <2>2. CASE m.conn
    BY <2>1, <2>2 DEF Aged, Member
  <2>3. CASE ~m.conn
    BY <2>3 DEF Aged
  <2> QED BY <2>2, <2>3
<1>3. SameRoom /\ members' \in [Seats -> Member]
  BY <1>1, <1>2 DEF Pass, SameRoom
<1> QED BY <1>3, SameRoomInv DEF Pass

(* A rename, which the roster shows.                                       *)
LEMMA NameInv ==
    ASSUME IInv, NEW id \in Seats, NEW name \in Names, ReceiveName(id, name) PROVE IInv'
<1>1. RoomTypeOK
  BY DEF IInv
<1> DEFINE m == [Heard(id) EXCEPT !.name = name]
<1>2. m \in Member /\ m.tok = members[id].tok /\ m.name = name
      /\ m.conn = members[id].conn /\ m.quiet = members[id].quiet
      /\ m.roster = members[id].roster /\ m.missed = members[id].missed
  BY <1>1, HeardType DEF Member, AllNames
<1>3. members' = [members EXCEPT ![id] = m]
  BY DEF ReceiveName
<1> HIDE DEF m
<1>4. members' \in [Seats -> Member] /\ members'[id] = m
      /\ \A i \in Seats \ {id} : members'[i] = members[i]
  BY <1>1, <1>2, <1>3, Replaced
<1>5. OnlyLeaves
  BY <1>2, <1>4 DEF OnlyLeaves
<1>6. InRole(members', "musician") = InRole(members, "musician")
  BY <1>2, <1>4 DEF InRole, Connected
<1>7. CountCurrent'
  BY <1>6 DEF IInv, CountCurrent, musicians_connected, ReceiveName
<1>8. RosterCurrent'
  <2>1. CASE name = members[id].name
    <3>1. SameRoom
      BY <1>2, <1>4, <2>1 DEF SameRoom
    <3>2. rosterDirty' = rosterDirty
      BY <2>1, <1>1 DEF ReceiveName, RoomTypeOK
    <3> QED BY <3>1, <3>2, SameRoomRoster DEF IInv
  <2>2. CASE name # members[id].name
    BY <2>2 DEF ReceiveName, RosterCurrent
  <2> QED BY <2>1, <2>2
<1>9. RoomTypeOK'
  BY <1>1, <1>4, <1>5, LeavesKeepSeats DEF RoomTypeOK, ReceiveName
<1>10. CapacityRespected' /\ RevokedHasNoSeat'
  BY <1>5, LeavesKeepCapacity, LeavesKeepRevoked DEF IInv, ReceiveName
<1> QED BY <1>7, <1>8, <1>9, <1>10 DEF IInv

(* A departure of one member: Bye, an ejection, a dropped peer.            *)
LEMMA DepartInv ==
    ASSUME IInv, NEW id \in Seats,
           members' = [members EXCEPT ![id] = Disconnected(members[id])],
           rosterDirty' = TRUE, note_musician_count, UNCHANGED <<revoked, admits, running>>
    PROVE  IInv'
<1>1. RoomTypeOK
  BY DEF IInv
<1>2. members[id] \in Member
  BY <1>1 DEF RoomTypeOK
<1>3. /\ Disconnected(members[id]) \in Member
      /\ Disconnected(members[id]).tok = members[id].tok
      /\ Disconnected(members[id]).conn = FALSE
  BY <1>2, DisconnectedType
<1>4. OnlyLeaves /\ members' \in [Seats -> Member]
  BY <1>1, <1>3, Replaced DEF OnlyLeaves
<1>5. RosterCurrent'
  BY DEF RosterCurrent
<1>6. RevokedHasNoSeat'
  BY <1>4, LeavesKeepRevoked DEF IInv
<1> QED BY <1>1, <1>4, <1>5, <1>6, LeaveInv DEF RoomTypeOK

LEMMA ByeInv == ASSUME IInv, NEW id \in Seats, ReceiveBye(id) PROVE IInv'
BY DepartInv DEF ReceiveBye

LEMMA DropPeerInv == ASSUME IInv, NEW id \in Seats, drop_peer(id) PROVE IInv'
BY DepartInv DEF drop_peer

LEMMA ViolationInv == ASSUME IInv, NEW id \in Seats, violation(id) PROVE IInv'
<1>1. CASE members[id].budget > 0
  <2>1. RoomTypeOK
    BY DEF IInv
  <2> DEFINE m == [Heard(id) EXCEPT !.budget = @ - 1]
  <2>2. members[id].budget - 1 \in Nat
    BY <1>1, <2>1 DEF RoomTypeOK, Member
  <2>3. m \in Member /\ m.tok = members[id].tok /\ m.name = members[id].name
        /\ m.conn = members[id].conn /\ m.quiet = members[id].quiet
        /\ m.roster = members[id].roster /\ m.missed = members[id].missed
    BY <2>1, <2>2, HeardType DEF Member
  <2>4. members' = [members EXCEPT ![id] = m]
    BY <1>1 DEF violation
  <2> HIDE DEF m
  <2>5. SameRoom /\ members' \in [Seats -> Member]
    BY <2>1, <2>3, <2>4, Replaced DEF SameRoom
  <2> QED BY <1>1, <2>5, SameRoomInv DEF violation
<1>2. CASE ~(members[id].budget > 0)
  BY <1>2, DepartInv DEF violation
<1> QED BY <1>1, <1>2

-----------------------------------------------------------------------------
(* An admission: the guard counted the others of the role, so the one who  *)
(* comes in fits, whatever role the seat's last entry had.                 *)
LEMMA AdmitInv ==
    ASSUME IInv, NEW t \in Tokens, NEW n \in 1 .. MaxInits, admit(t, n) PROVE IInv'
<1> DEFINE seat == SeatOf[t]
           m    == Seated(t, NextSession(t, n))
<1>1. RoomTypeOK
  BY DEF IInv
<1>2. seat \in Seats /\ t # NoToken /\ t \notin revoked /\ RoleOf[t] \in Roles
  BY MembersAssumption DEF admit, Welcome
<1>3. admits + 1 \in 0 .. MaxAdmits
  BY <1>1, MembersAssumption DEF RoomTypeOK, admit
<1>4. m \in Member /\ m.tok = t /\ m.conn = TRUE
  <2>1. NextSession(t, n) \in Sessions
    BY <1>3, MembersAssumption DEF NextSession, Sessions
  <2>2. members[seat].budget \in Nat
    BY <1>1, <1>2 DEF RoomTypeOK, Member
  <2>3. Vacant \in Member
    BY VacantType
  <2> QED BY <2>1, <2>2, <2>3 DEF Seated, Member
<1>5. members' = [members EXCEPT ![seat] = m]
  BY DEF admit
<1> HIDE DEF seat, m
<1>6. /\ members' \in [Seats -> Member]
      /\ members'[seat] = m
      /\ \A i \in Seats \ {seat} : members'[i] = members[i]
  BY <1>1, <1>2, <1>4, <1>5, Replaced
<1>7. RoomTypeOK'
  <2>1. \A id \in Seats : members'[id].tok # NoToken => SeatOf[members'[id].tok] = id
    BY <1>1, <1>4, <1>6 DEF RoomTypeOK, seat
  <2>2. \A id \in Seats : members'[id].conn => members'[id].tok # NoToken
    BY <1>1, <1>2, <1>4, <1>6 DEF RoomTypeOK
  <2>3. lastCount' \in Nat
    BY CountTaken DEF admit
  <2>4. revoked' \subseteq Tokens /\ rosterDirty' \in BOOLEAN /\ running' \in BOOLEAN
    BY <1>1 DEF admit, RoomTypeOK
  <2>5. admits' \in 0 .. MaxAdmits
    BY <1>3 DEF admit
  <2> QED BY <1>6, <2>1, <2>2, <2>3, <2>4, <2>5 DEF RoomTypeOK
<1>8. CapacityRespected'
  <2> SUFFICES ASSUME NEW role \in Roles
               PROVE  Cardinality(InRole(members', role)) <= Cap[role]
    BY DEF CapacityRespected
  <2> DEFINE others == InRole(members, role) \ {seat}
  <2>1. IsFiniteSet(others) /\ Cardinality(others) \in Nat
        /\ Cardinality(others) <= Cardinality(InRole(members, role))
    BY InRoleFinite, FS_Subset, FS_CardinalityType
  <2>2. Cap[role] \in Nat /\ Cardinality(InRole(members, role)) \in Nat
    BY InRoleFinite, MembersAssumption
  <2>3. CASE role = RoleOf[t]
    <3>1. InRole(members', role) = others \cup {seat}
      BY <1>2, <1>4, <1>6, <2>3 DEF InRole, Connected
    <3>2. ~(Cardinality(others) >= Cap[role])
      BY <2>3 DEF admit, RoleFull, seat
    <3>3. Cardinality(others \cup {seat}) = Cardinality(others) + 1
      BY <2>1, FS_AddElement
    <3> QED BY <2>1, <2>2, <3>1, <3>2, <3>3
  <2>4. CASE role # RoleOf[t]
    <3>1. InRole(members', role) = others
      BY <1>2, <1>4, <1>6, <2>4 DEF InRole, Connected
    <3> QED BY <2>1, <2>2, <3>1 DEF IInv, CapacityRespected
  <2> QED BY <2>3, <2>4
<1>9. RevokedHasNoSeat'
  BY <1>2, <1>4, <1>6 DEF IInv, RevokedHasNoSeat, admit
<1>10. RosterCurrent' /\ CountCurrent'
  BY CountTaken DEF RosterCurrent, admit
<1> QED BY <1>7, <1>8, <1>9, <1>10 DEF IInv

(* A revocation: whoever holds the token goes, and nobody else.            *)
LEMMA RevokeInv == ASSUME IInv, NEW jti \in Tokens, ReceiveRevoke(jti) PROVE IInv'
<1>1. RoomTypeOK
  BY DEF IInv
<1>2. \A i \in HeldBy(jti) : members'[i] = Vacant
  BY DEF ReceiveRevoke, HeldBy
<1>3. \A i \in Seats \ HeldBy(jti) :
        members'[i] = IF i = HostSeat THEN Heard(i) ELSE members[i]
  BY DEF ReceiveRevoke
<1>4. \A i \in Seats \ HeldBy(jti) :
        /\ members'[i] \in Member
        /\ members'[i].tok = members[i].tok /\ members'[i].name = members[i].name
        /\ members'[i].conn = members[i].conn /\ members'[i].quiet = members[i].quiet
        /\ members'[i].roster = members[i].roster /\ members'[i].missed = members[i].missed
  BY <1>1, <1>3, HeardType DEF RoomTypeOK
<1>5. members' \in [Seats -> Member]
  <2>1. \A i \in Seats : members'[i] \in Member
    BY <1>2, <1>4, VacantType
  <2>2. members' = [i \in Seats |-> members'[i]]
    BY DEF ReceiveRevoke
  <2> QED BY <2>1, <2>2
<1>6. OnlyLeaves
  BY <1>2, <1>4, VacantType DEF OnlyLeaves
<1>7. RevokedHasNoSeat'
  <2> SUFFICES ASSUME NEW i \in Seats PROVE members'[i].tok \notin revoked'
    BY DEF RevokedHasNoSeat
  <2>1. CASE i \in HeldBy(jti)
    BY <2>1, <1>1, <1>2, VacantType, MembersAssumption DEF ReceiveRevoke, RoomTypeOK
  <2>2. CASE i \notin HeldBy(jti)
    BY <2>2, <1>4 DEF ReceiveRevoke, HeldBy, IInv, RevokedHasNoSeat
  <2> QED BY <2>1, <2>2
<1>8. RosterCurrent'
  <2>1. CASE HeldBy(jti) = {}
    <3>1. SameRoom
      BY <2>1, <1>4 DEF SameRoom
    <3>2. rosterDirty' = rosterDirty
      BY <2>1, <1>1 DEF ReceiveRevoke, RoomTypeOK
    <3> QED BY <3>1, <3>2, SameRoomRoster DEF IInv
  <2>2. CASE HeldBy(jti) # {}
    BY <2>2 DEF ReceiveRevoke, RosterCurrent
  <2> QED BY <2>1, <2>2
<1>9. rosterDirty' \in BOOLEAN /\ revoked' \subseteq Tokens
  BY <1>1 DEF ReceiveRevoke, RoomTypeOK
<1>10. note_musician_count /\ UNCHANGED admits /\ running' \in BOOLEAN
  BY <1>1 DEF ReceiveRevoke, RoomTypeOK
<1> QED BY <1>5, <1>6, <1>7, <1>8, <1>9, <1>10, LeaveInv

(* The tick: the flush comes first, so a roster that is not marked stale   *)
(* afterwards is one the scans left true.                                  *)
LEMMA ToldType ==
    ASSUME RoomTypeOK, NEW id \in Seats, NEW full
    PROVE  /\ Told(id, full) \in Member
           /\ Told(id, full).tok = members[id].tok
           /\ Told(id, full).name = members[id].name
           /\ Told(id, full).conn = members[id].conn
           /\ Told(id, full).quiet = members[id].quiet
           /\ rosterDirty /\ members[id].conn =>
                 Told(id, full).missed \/ Told(id, full).roster = Roster(members)
           /\ ~rosterDirty => /\ Told(id, full).roster = members[id].roster
                              /\ Told(id, full).missed = members[id].missed
<1>1. members[id] \in Member /\ Roster(members) \in SUBSET RosterLine
  BY RosterType DEF RoomTypeOK
<1>2. CASE rosterDirty /\ members[id].conn /\ id \in full
  <2>1. Told(id, full) = [members[id] EXCEPT !.roster = {}, !.missed = TRUE]
    BY <1>2 DEF Told, Owed, Connected
  <2> QED BY <1>1, <1>2, <2>1 DEF Member
<1>3. CASE rosterDirty /\ members[id].conn /\ id \notin full
  <2>1. Told(id, full) = [members[id] EXCEPT !.roster = Roster(members), !.missed = FALSE]
    BY <1>3 DEF Told, Owed, Connected
  <2> QED BY <1>1, <1>3, <2>1 DEF Member
<1>4. CASE ~(rosterDirty /\ members[id].conn)
  BY <1>1, <1>4 DEF Told, Owed, Connected
<1> QED BY <1>2, <1>3, <1>4

LEMMA Scans ==
    ASSUME RoomTypeOK, NEW dead, NEW full, Tick(dead, full), NEW id \in Seats
    PROVE  /\ members'[id] \in Member
           /\ members'[id].tok = members[id].tok
           /\ members'[id].conn => members[id].conn
           /\ id \notin Reaped(dead) =>
                 /\ members'[id].name = members[id].name
                 /\ members'[id].conn = members[id].conn
                 /\ members'[id].quiet = IsQuiet(id)
                 /\ members'[id].roster = Told(id, full).roster
                 /\ members'[id].missed = Told(id, full).missed
<1>1. PICK m : m = Told(id, full)
  OBVIOUS
<1>2. m \in Member /\ m.tok = members[id].tok /\ m.name = members[id].name
      /\ m.conn = members[id].conn
  BY <1>1, ToldType
<1>3. IsQuiet(id) \in BOOLEAN
  BY DEF IsQuiet
<1>4. members'[id] = IF id \in Reaped(dead) THEN Disconnected(m) ELSE [m EXCEPT !.quiet = IsQuiet(id)]
  BY <1>1 DEF Tick, Scanned
<1>5. CASE id \in Reaped(dead)
  BY <1>2, <1>4, <1>5, DisconnectedType
<1>6. CASE id \notin Reaped(dead)
  <2>1. PICK d : d = [m EXCEPT !.quiet = IsQuiet(id)]
    OBVIOUS
  <2>2. /\ d \in Member /\ d.tok = m.tok /\ d.name = m.name /\ d.conn = m.conn
        /\ d.quiet = IsQuiet(id) /\ d.roster = m.roster /\ d.missed = m.missed
    BY <1>2, <1>3, <2>1 DEF Member
  <2> QED BY <1>1, <1>2, <1>4, <1>6, <2>1, <2>2
<1> QED BY <1>5, <1>6

LEMMA TickInv == ASSUME IInv, NEW dead, NEW full, Tick(dead, full) PROVE IInv'
<1>1. RoomTypeOK
  BY DEF IInv
<1>2. members' \in [Seats -> Member]
  <2>1. \A id \in Seats : members'[id] \in Member
    BY <1>1, Scans
  <2> QED BY <2>1 DEF Tick
<1>3. \A id \in Seats : members'[id].tok = members[id].tok
  BY <1>1, Scans
<1>4. OnlyLeaves
  <2> SUFFICES ASSUME NEW id \in Seats
               PROVE  members'[id].conn => members[id].conn
    BY <1>3 DEF OnlyLeaves
  <2> QED BY <1>1, Scans
<1>5. RosterCurrent'
  <2> SUFFICES ASSUME ~Moved(dead), NEW id \in Seats, members'[id].conn
               PROVE  members'[id].missed \/ members'[id].roster = Roster(members')
    BY DEF RosterCurrent, Connected, Tick
  <2>1. Reaped(dead) = {} /\ \A i \in Seats : members[i].quiet = IsQuiet(i)
    BY DEF Moved
  <2>2. \A i \in Seats :
          /\ members'[i].tok = members[i].tok /\ members'[i].name = members[i].name
          /\ members'[i].conn = members[i].conn /\ members'[i].quiet = members[i].quiet
          /\ members'[i].roster = Told(i, full).roster /\ members'[i].missed = Told(i, full).missed
    <3> SUFFICES ASSUME NEW i \in Seats
                 PROVE  /\ members'[i].tok = members[i].tok
                        /\ members'[i].name = members[i].name
                        /\ members'[i].conn = members[i].conn
                        /\ members'[i].quiet = members[i].quiet
                        /\ members'[i].roster = Told(i, full).roster
                        /\ members'[i].missed = Told(i, full).missed
      OBVIOUS
    <3>1. i \notin Reaped(dead) /\ members[i].quiet = IsQuiet(i)
      BY <2>1
    <3> QED BY <1>1, <3>1, Scans
  <2>3. Roster(members') = Roster(members)
    <3>1. \A i \in Seats : Line(members', i) = Line(members, i)
                           /\ members'[i].tok = members[i].tok
      BY <2>2 DEF Line
    <3> QED BY <3>1, RosterSame
  <2>4. members[id].conn
    BY <2>2
  <2>5. Told(id, full).missed \/ Told(id, full).roster = Roster(members)
    <3>1. CASE rosterDirty
      BY <1>1, <2>4, <3>1, ToldType
    <3>2. CASE ~rosterDirty
      <4>1. members[id].missed \/ members[id].roster = Roster(members)
        BY <2>4, <3>2 DEF IInv, RosterCurrent, Connected
      <4> QED BY <1>1, <3>2, <4>1, ToldType
    <3> QED BY <3>1, <3>2
  <2> QED BY <2>2, <2>3, <2>5
<1>6. rosterDirty' \in BOOLEAN
  BY DEF Tick, Moved
<1>7. RevokedHasNoSeat' /\ revoked' \subseteq Tokens
  BY <1>1, <1>4, LeavesKeepRevoked DEF IInv, Tick, RoomTypeOK
<1>8. note_musician_count /\ UNCHANGED admits /\ running' \in BOOLEAN
  BY <1>1 DEF Tick, RoomTypeOK
<1> QED BY <1>2, <1>4, <1>5, <1>6, <1>7, <1>8, LeaveInv

(* Shutdown leaves no one to owe a roster; a restart leaves no one at all. *)
LEMMA ShutdownInv == ASSUME IInv, Shutdown PROVE IInv'
<1>1. RoomTypeOK
  BY DEF IInv
<1>2. \A id \in Seats :
        /\ members'[id] \in Member
        /\ members'[id].tok = members[id].tok
        /\ members'[id].conn = FALSE
  <2> SUFFICES ASSUME NEW id \in Seats
               PROVE  /\ members'[id] \in Member
                      /\ members'[id].tok = members[id].tok
                      /\ members'[id].conn = FALSE
    OBVIOUS
  <2>1. members[id] \in Member /\ members[id].conn \in BOOLEAN
    BY <1>1 DEF RoomTypeOK, Member
  <2>2. members'[id] = IF members[id].conn THEN Disconnected(members[id]) ELSE members[id]
    BY DEF Shutdown
  <2>3. CASE members[id].conn
    BY <2>1, <2>2, <2>3, DisconnectedType
  <2>4. CASE ~members[id].conn
    BY <2>1, <2>2, <2>4
  <2> QED BY <2>3, <2>4
<1>3. members' \in [Seats -> Member]
  <2>1. members' = [id \in Seats |-> members'[id]]
    BY DEF Shutdown
  <2> QED BY <1>2, <2>1
<1>4. OnlyLeaves
  BY <1>2 DEF OnlyLeaves
<1>5. RosterCurrent'
  BY <1>2 DEF RosterCurrent, Connected
<1>6. RevokedHasNoSeat' /\ revoked' \subseteq Tokens
  BY <1>1, <1>4, LeavesKeepRevoked DEF IInv, Shutdown, RoomTypeOK
<1>7. note_musician_count /\ UNCHANGED admits /\ running' \in BOOLEAN /\ rosterDirty' \in BOOLEAN
  BY <1>1 DEF Shutdown, RoomTypeOK
<1> QED BY <1>3, <1>4, <1>5, <1>6, <1>7, LeaveInv

LEMMA RestartInv == ASSUME IInv, Restart PROVE IInv'
<1>1. RoomTypeOK
  BY DEF IInv
<1>2. members' = [id \in Seats |-> Vacant] /\ revoked' \subseteq Tokens
  BY <1>1 DEF Restart, RoomTypeOK
<1>3. \A id \in Seats : members'[id] = Vacant
  BY <1>2
<1>4. members' \in [Seats -> Member]
  BY <1>2, VacantType
<1>5. OnlyLeaves
  BY <1>3, VacantType DEF OnlyLeaves
<1>6. RosterCurrent'
  BY <1>3, VacantType DEF RosterCurrent, Connected
<1>7. RevokedHasNoSeat'
  BY <1>1, <1>5, LeavesKeepRevoked DEF IInv, Restart
<1>8. note_musician_count
  BY <1>2, EmptyRoom DEF Restart, note_musician_count, musicians_connected
<1>9. UNCHANGED admits /\ running' \in BOOLEAN /\ rosterDirty' \in BOOLEAN
  BY <1>1 DEF Restart, RoomTypeOK
<1> QED BY <1>2, <1>4, <1>5, <1>6, <1>7, <1>8, <1>9, LeaveInv

LEMMA StutterInv == ASSUME IInv, UNCHANGED roomVars PROVE IInv'
<1>1. SameRoom /\ members' \in [Seats -> Member]
  BY DEF roomVars, SameRoom, IInv, RoomTypeOK
<1> QED BY <1>1, SameRoomInv DEF roomVars

-----------------------------------------------------------------------------
LEMMA RoomStep == ASSUME IInv, [RoomNext]_roomVars PROVE IInv'
<1>1. ASSUME NEW t \in Tokens, NEW n \in 1 .. MaxInits, admit(t, n) PROVE IInv'
  BY <1>1, AdmitInv
<1>2. ASSUME NEW id \in Seats, ReceiveData(id) PROVE IInv'
  BY <1>2, DataInv
<1>3. ASSUME NEW id \in Seats, ReceiveBye(id) PROVE IInv'
  BY <1>3, ByeInv
<1>4. ASSUME NEW id \in Seats, violation(id) PROVE IInv'
  BY <1>4, ViolationInv
<1>5. ASSUME NEW id \in Seats, drop_peer(id) PROVE IInv'
  BY <1>5, DropPeerInv
<1>6. ASSUME NEW id \in Seats, Refill(id) PROVE IInv'
  BY <1>6, RefillInv
<1>7. ASSUME NEW id \in Seats, NEW name \in Names, ReceiveName(id, name) PROVE IInv'
  BY <1>7, NameInv
<1>8. ASSUME NEW jti \in Tokens, ReceiveRevoke(jti) PROVE IInv'
  BY <1>8, RevokeInv
<1>9. ASSUME NEW dead, NEW full, Tick(dead, full) PROVE IInv'
  BY <1>9, TickInv
<1>10. CASE Shutdown
  BY <1>10, ShutdownInv
<1>11. CASE Restart
  BY <1>11, RestartInv
<1>12. CASE Pass
  BY <1>12, PassInv
<1>13. CASE UNCHANGED roomVars
  BY <1>13, StutterInv
<1> QED
  BY <1>1, <1>2, <1>3, <1>4, <1>5, <1>6, <1>7, <1>8, <1>9, <1>10, <1>11, <1>12, <1>13
     DEF RoomNext

(* Every step of the server keeps the room in order.                       *)
THEOREM RoomInOrder == RoomSpec => []IInv
<1>1. RoomInit => IInv
  BY InitInv
<1>2. IInv /\ [RoomNext]_roomVars => IInv'
  BY RoomStep
<1> QED BY <1>1, <1>2, PTL DEF RoomSpec

(* ServerCore keeps its entries in the seats their tokens name, whatever   *)
(* arrives.                                                                *)
THEOREM MembersTypeCorrect == RoomSpec => []RoomTypeOK
<1>1. IInv => RoomTypeOK
  BY DEF IInv
<1> QED BY <1>1, RoomInOrder, PTL

(* admit never seats more of a role than the session has, for every mix of *)
(* joins, rejoins, reissued seats and departures.                          *)
THEOREM CapacityHolds == RoomSpec => []CapacityRespected
<1>1. IInv => CapacityRespected
  BY DEF IInv
<1> QED BY <1>1, RoomInOrder, PTL

(* An invite the server remembers as revoked has no entry, connected or    *)
(* not, on any path through admit, the revocation handler and restart.     *)
THEOREM RevokedStaysOut == RoomSpec => []RevokedHasNoSeat
<1>1. IInv => RevokedHasNoSeat
  BY DEF IInv
<1> QED BY <1>1, RoomInOrder, PTL

(* Coalescing rosters to one per tick loses none: with no flush due, every *)
(* connected member was last sent the room as it is, but for one whose own *)
(* control queue had no room for the last roster.                          *)
THEOREM RosterNeverStale == RoomSpec => []RosterCurrent
<1>1. IInv => RosterCurrent
  BY DEF IInv
<1> QED BY <1>1, RoomInOrder, PTL

(* The count given to the idle and stream policies is the room's.          *)
THEOREM CountNeverStale == RoomSpec => []CountCurrent
<1>1. IInv => CountCurrent
  BY DEF IInv
<1> QED BY <1>1, RoomInOrder, PTL

-----------------------------------------------------------------------------
(* Only a Revoke adds to the revoked set, and it leaves every connected    *)
(* member whose token stays good seated in the session it had.             *)
THEOREM RevocationIsPrecise == RoomSpec => RevokeSparesOthers
<1> DEFINE A == ~(revoked' \subseteq revoked) =>
                  \A id \in Connected(members) :
                     members[id].tok \notin revoked' =>
                        members'[id].conn /\ members'[id].sess = members[id].sess
<1>1. RoomTypeOK /\ [RoomNext]_roomVars => [A]_roomVars
  <2> SUFFICES ASSUME RoomTypeOK, [RoomNext]_roomVars, ~(revoked' \subseteq revoked),
                      NEW id \in Connected(members), members[id].tok \notin revoked'
               PROVE  members'[id].conn /\ members'[id].sess = members[id].sess
    OBVIOUS
  <2>1. PICK jti \in Tokens : ReceiveRevoke(jti)
    BY DEF RoomNext, roomVars, admit, ReceiveData, ReceiveBye, violation, drop_peer, Refill,
           ReceiveName, Tick, Shutdown, Restart, Pass
  <2>2. id \in Seats /\ members[id].conn /\ id \notin HeldBy(jti)
    BY <2>1 DEF ReceiveRevoke, HeldBy, Connected
  <2>3. members'[id] = IF id = HostSeat THEN Heard(id) ELSE members[id]
    BY <2>1, <2>2 DEF ReceiveRevoke
  <2>4. members[id] \in Member
    BY <2>2 DEF RoomTypeOK
  <2>5. Heard(id).conn = members[id].conn /\ Heard(id).sess = members[id].sess
    BY <2>4 DEF Heard, Member
  <2> QED BY <2>2, <2>3, <2>5
<1> QED BY <1>1, MembersTypeCorrect, PTL DEF RoomSpec, RevokeSparesOthers

-----------------------------------------------------------------------------
(***************************************************************************)
(* The room with its clients (Session).                                    *)
(*                                                                         *)
(* Every step of the composition is a step of the room or leaves it alone, *)
(* so what is proved of the room holds of the composition.  The step that  *)
(* takes an argument is a Revoke: it is a step of the room because what is *)
(* in flight to a seat is what its client could send.  And a session names *)
(* the invite and the init it was made for, on both sides.                 *)
(***************************************************************************)

Requests == UNION {Sends(t) : t \in Tokens}

Cores == [state : States, init : 0 .. MaxInits, sess : Sessions, full : BOOLEAN,
          age : Nat, resps : SUBSET Sessions, rejected : BOOLEAN,
          down : SUBSET [sess : Sessions, msg : {Data, Bye}]]

(* A session made for the init a client is at, by the first a admissions.  *)
Made(t, c, s, a) == s.tok = t /\ s.init = c.init /\ s.n \in 1 .. a

(* The client of invite t: what it holds or may take up was made for it.   *)
ClientFits(t, c, a) ==
    /\ c \in Cores
    /\ c.sess = NoSession \/ Made(t, c, c.sess, a)
    /\ c.state = "Joined" => c.sess # NoSession
    /\ \A s \in c.resps : Made(t, c, s, a)

(* A seat has the session it was given with its token, or none.            *)
SeatFits(m, a) ==
    IF m.conn THEN m.sess.tok = m.tok /\ m.sess.n \in 1 .. a ELSE m.sess = NoSession

(* What is in flight to seat id under its session.                         *)
QueueFits(id, q, m) ==
    /\ q \in Seq(Requests)
    /\ \A i \in DOMAIN q : m.conn /\ (q[i].kind = "revoke" => id = HostSeat)

SessionIInv ==
    /\ IInv
    /\ \A id \in Seats : SeatFits(members[id], admits)
    /\ clients = [t \in Tokens |-> clients[t]]
    /\ \A t \in Tokens : ClientFits(t, clients[t], admits)
    /\ uplink = [id \in Seats |-> uplink[id]]
    /\ \A id \in Seats : QueueFits(id, uplink[id], members[id])

LEMMA RequestKinds ==
  ASSUME NEW msg \in Requests
  PROVE  /\ msg.kind = "revoke" => msg.jti \in Tokens
         /\ \A t \in Tokens : msg \in Sends(t) /\ msg.kind = "revoke" => SeatOf[t] = HostSeat
  BY DEF Requests, Sends, Data, Bye, Revoke

-----------------------------------------------------------------------------
(* The room's side.                                                        *)

LEMMA MessageTaken ==
  ASSUME SessionIInv, NEW id \in Seats, uplink[id] # <<>>
  PROVE  /\ Head(uplink[id]) \in Requests
         /\ Head(uplink[id]).kind = "revoke" => Head(uplink[id]).jti \in Tokens /\ id = HostSeat
<1>1. uplink[id] \in Seq(Requests)
      /\ \A i \in DOMAIN uplink[id] : uplink[id][i].kind = "revoke" => id = HostSeat
  BY DEF SessionIInv, QueueFits
<1>2. Head(uplink[id]) \in Requests /\ 1 \in DOMAIN uplink[id] /\ Head(uplink[id]) = uplink[id][1]
  BY <1>1
<1> QED BY <1>1, <1>2, RequestKinds

LEMMA StepOfRoom == ASSUME SessionIInv, [SessionNext]_sessionVars PROVE [RoomNext]_roomVars
<1>1. ASSUME NEW t \in Tokens, NEW n \in 1 .. MaxInits, ServerAdmits(t, n) \/ capacity_reject(t, n)
      PROVE  [RoomNext]_roomVars
  BY <1>1 DEF ServerAdmits, capacity_reject, RoomNext
<1>2. ASSUME NEW id \in Seats, ServerHears(id) PROVE RoomNext
  <2>1. CASE ReceiveData(id) \/ ReceiveBye(id)
    BY <2>1 DEF RoomNext
  <2>2. CASE Head(uplink[id]).kind = "revoke" /\ ReceiveRevoke(Head(uplink[id]).jti)
    <3>1. uplink[id] # <<>>
      BY <1>2 DEF ServerHears
    <3> QED BY <2>2, <3>1, MessageTaken DEF RoomNext
  <2> QED BY <1>2, <2>1, <2>2 DEF ServerHears
<1>3. ASSUME NEW id \in Seats, ServerDrops(id) PROVE RoomNext
  BY <1>3 DEF ServerDrops, RoomNext
<1>4. ASSUME NEW dead \in SUBSET Connected(members), NEW full \in SUBSET Owed, ServerTicks(dead, full)
      PROVE  RoomNext
  BY <1>4 DEF ServerTicks, RoomNext
<1>5. CASE ServerStops \/ ServerRestarts \/ TimePasses
  BY <1>5 DEF ServerStops, ServerRestarts, TimePasses, RoomNext
<1>6. ASSUME NEW t \in Tokens, ClientStep(t) PROVE UNCHANGED roomVars
  BY <1>6 DEF ClientStep, connect, Join, SessionFull, ClientReceive, ClientTimeout, ClientLinkDead, ClientSend
<1>7. CASE UNCHANGED sessionVars
  BY <1>7 DEF sessionVars
<1> QED BY <1>1, <1>2, <1>3, <1>4, <1>5, <1>6, <1>7 DEF SessionNext

(* A step that lets nobody in leaves a seat its session or takes it.       *)
SessionsEnd ==
    \A id \in Seats :
       \/ /\ members'[id].conn = members[id].conn /\ members'[id].tok = members[id].tok
          /\ members'[id].sess = members[id].sess
       \/ ~members'[id].conn /\ members'[id].sess = NoSession

LEMMA EndsKeepSeats ==
  ASSUME SessionIInv, SessionsEnd, admits' = admits
  PROVE  \A id \in Seats : SeatFits(members'[id], admits')
  BY DEF SessionIInv, SessionsEnd, SeatFits

LEMMA VacantEnds == ~Vacant.conn /\ Vacant.sess = NoSession
  BY DEF Vacant

LEMMA DisconnectedEnds ==
  ASSUME NEW m \in Member PROVE ~Disconnected(m).conn /\ Disconnected(m).sess = NoSession
  BY DEF Disconnected, Member

(* The entry of one seat ends, and no other changes.                       *)
LEMMA OneEnds ==
  ASSUME IInv, NEW id \in Seats, members' = [members EXCEPT ![id] = Disconnected(members[id])]
  PROVE  SessionsEnd
<1>1. members \in [Seats -> Member]
  BY DEF IInv, RoomTypeOK
<1>2. members'[id] = Disconnected(members[id]) /\ \A x \in Seats : x # id => members'[x] = members[x]
  BY <1>1
<1>3. ~members'[id].conn /\ members'[id].sess = NoSession
  BY <1>1, <1>2, DisconnectedEnds
<1> QED BY <1>2, <1>3 DEF SessionsEnd

LEMMA RoomEnds ==
  ASSUME IInv,
         \/ \E id \in Seats : ReceiveData(id) \/ ReceiveBye(id) \/ drop_peer(id)
         \/ \E jti \in Tokens : ReceiveRevoke(jti)
         \/ \E dead, full : Tick(dead, full)
         \/ Shutdown \/ Restart \/ Pass
  PROVE  SessionsEnd /\ admits' = admits
<1>1. members \in [Seats -> Member]
  BY DEF IInv, RoomTypeOK
<1>2. ASSUME NEW id \in Seats, ReceiveData(id) PROVE SessionsEnd /\ admits' = admits
  <2>1. members'[id] = Heard(id) /\ \A x \in Seats : x # id => members'[x] = members[x]
    BY <1>1, <1>2 DEF ReceiveData
  <2>2. Heard(id).conn = members[id].conn /\ Heard(id).tok = members[id].tok /\ Heard(id).sess = members[id].sess
    BY <1>1 DEF Heard, Member
  <2> QED BY <1>2, <2>1, <2>2 DEF SessionsEnd, ReceiveData
<1>3. ASSUME NEW id \in Seats, ReceiveBye(id) \/ drop_peer(id) PROVE SessionsEnd /\ admits' = admits
  <2>1. members' = [members EXCEPT ![id] = Disconnected(members[id])] /\ admits' = admits
    BY <1>1, <1>3 DEF ReceiveBye, drop_peer
  <2> QED BY <2>1, OneEnds
<1>4. ASSUME NEW jti \in Tokens, ReceiveRevoke(jti) PROVE SessionsEnd /\ admits' = admits
  <2>1. \A x \in Seats : members'[x] = IF x \in HeldBy(jti) THEN Vacant
                                       ELSE IF x = HostSeat THEN Heard(x) ELSE members[x]
    BY <1>4 DEF ReceiveRevoke
  <2>2. \A x \in Seats : /\ Heard(x).conn = members[x].conn /\ Heard(x).tok = members[x].tok
                         /\ Heard(x).sess = members[x].sess
    BY <1>1 DEF Heard, Member
  <2>3. SessionsEnd
    <3> SUFFICES ASSUME NEW x \in Seats
                 PROVE  \/ /\ members'[x].conn = members[x].conn /\ members'[x].tok = members[x].tok
                           /\ members'[x].sess = members[x].sess
                        \/ ~members'[x].conn /\ members'[x].sess = NoSession
      BY DEF SessionsEnd
    <3>1. CASE x \in HeldBy(jti)
      BY <2>1, <3>1, VacantEnds
    <3>2. CASE x \notin HeldBy(jti)
      BY <2>1, <2>2, <3>2
    <3> QED BY <3>1, <3>2
  <2> QED BY <1>4, <2>3 DEF ReceiveRevoke
<1>5. ASSUME NEW dead, NEW full, Tick(dead, full) PROVE SessionsEnd /\ admits' = admits
  <2>1. SessionsEnd
    <3> SUFFICES ASSUME NEW x \in Seats
                 PROVE  \/ /\ members'[x].conn = members[x].conn /\ members'[x].tok = members[x].tok
                           /\ members'[x].sess = members[x].sess
                        \/ ~members'[x].conn /\ members'[x].sess = NoSession
      BY DEF SessionsEnd
    <3>1. members'[x] = Scanned(x, dead, full)
      BY <1>5 DEF Tick
    <3>2. Told(x, full) \in Member
      BY ToldType DEF IInv
    <3>3. Told(x, full).conn = members[x].conn /\ Told(x, full).tok = members[x].tok /\ Told(x, full).sess = members[x].sess
      BY <1>1 DEF Told, Member
    <3>4. CASE x \in Reaped(dead)
      BY <3>1, <3>2, <3>4, DisconnectedEnds DEF Scanned
    <3>5. CASE x \notin Reaped(dead)
      <4>1. members'[x] = [Told(x, full) EXCEPT !.quiet = IsQuiet(x)]
        BY <3>1, <3>5 DEF Scanned
      <4>2. members'[x].conn = Told(x, full).conn /\ members'[x].tok = Told(x, full).tok /\ members'[x].sess = Told(x, full).sess
        BY <3>2, <4>1 DEF Member
      <4> QED BY <3>3, <4>2
    <3> QED BY <3>4, <3>5
  <2> QED BY <1>5, <2>1 DEF Tick
<1>6. CASE Shutdown
  <2>1. \A x \in Seats : members'[x] = IF members[x].conn THEN Disconnected(members[x]) ELSE members[x]
    BY <1>6 DEF Shutdown
  <2>2. \A x \in Seats : ~Disconnected(members[x]).conn /\ Disconnected(members[x]).sess = NoSession
    BY <1>1, DisconnectedEnds
  <2> QED BY <1>6, <2>1, <2>2 DEF Shutdown, SessionsEnd
<1>7. CASE Restart
  BY <1>7, VacantEnds DEF Restart, SessionsEnd
<1>8. CASE Pass
  <2>1. \A x \in Seats : members'[x] = Aged(members[x])
    BY <1>8 DEF Pass
  <2>2. \A x \in Seats : /\ Aged(members[x]).conn = members[x].conn /\ Aged(members[x]).tok = members[x].tok
                         /\ Aged(members[x]).sess = members[x].sess
    BY <1>1 DEF Aged, Member
  <2> QED BY <1>8, <2>1, <2>2 DEF Pass, SessionsEnd
<1> QED BY <1>2, <1>3, <1>4, <1>5, <1>6, <1>7, <1>8

LEMMA AdmitSeats ==
  ASSUME SessionIInv, NEW t \in Tokens, NEW n \in 1 .. MaxInits, admit(t, n)
  PROVE  /\ \A id \in Seats : SeatFits(members'[id], admits')
         /\ NextSession(t, n) \in Sessions /\ admits' = admits + 1 /\ admits \in Nat
         /\ \A id \in Seats : members'[id].sess = members[id].sess => members'[id].conn = members[id].conn
<1>1. members \in [Seats -> Member] /\ admits \in Nat /\ admits' = admits + 1 /\ admits < MaxAdmits
  BY MembersAssumption DEF SessionIInv, IInv, RoomTypeOK, admit
<1>2. SeatOf[t] \in Seats
  BY MembersAssumption
<1>3. /\ members'[SeatOf[t]] = Seated(t, NextSession(t, n))
      /\ \A id \in Seats : id # SeatOf[t] => members'[id] = members[id]
  BY <1>1, <1>2 DEF admit
<1>4. Seated(t, NextSession(t, n)).conn /\ Seated(t, NextSession(t, n)).tok = t
      /\ Seated(t, NextSession(t, n)).sess = NextSession(t, n)
  BY DEF Seated, Vacant
<1>5. NextSession(t, n).tok = t /\ NextSession(t, n).n = admits + 1
  BY DEF NextSession
<1>6. ASSUME NEW id \in Seats PROVE SeatFits(members'[id], admits')
  <2>1. CASE id = SeatOf[t]
    BY <1>1, <1>3, <1>4, <1>5, <2>1 DEF SeatFits
  <2>2. CASE id # SeatOf[t]
    <3>1. SeatFits(members[id], admits) /\ members'[id] = members[id]
      BY <1>3, <2>2 DEF SessionIInv
    <3> QED BY <1>1, <3>1 DEF SeatFits
  <2> QED BY <2>1, <2>2
<1>7. NextSession(t, n) \in Sessions
  BY <1>1, MembersAssumption DEF NextSession, Sessions
<1>8. ASSUME NEW id \in Seats, members'[id].sess = members[id].sess PROVE members'[id].conn = members[id].conn
  <2>1. CASE id = SeatOf[t]
    <3>1. members[id].sess.n = admits + 1
      BY <1>3, <1>4, <1>5, <1>8, <2>1
    <3>2. SeatFits(members[id], admits)
      BY DEF SessionIInv
    <3>3. NoSession.n = 0
      BY DEF NoSession
    <3> QED BY <1>1, <3>1, <3>2, <3>3 DEF SeatFits
  <2>2. CASE id # SeatOf[t]
    BY <1>3, <2>2
  <2> QED BY <2>1, <2>2
<1> QED BY <1>1, <1>6, <1>7, <1>8

(* A session that lasts is the same seat's, connected as before.           *)
LEMMA LastingSession ==
  ASSUME SessionIInv, SessionsEnd, NEW id \in Seats, members'[id].sess = members[id].sess, members[id].conn
  PROVE  members'[id].conn
<1>1. SeatFits(members[id], admits) /\ admits \in Nat
  BY MembersAssumption DEF SessionIInv, IInv, RoomTypeOK
<1>2. members[id].sess.n # 0 /\ NoSession.n = 0
  BY <1>1 DEF SeatFits, NoSession
<1> QED BY <1>2 DEF SessionsEnd

-----------------------------------------------------------------------------
(* What is in flight to the server.                                        *)

LEMMA EmptyQueue == ASSUME NEW id, NEW m PROVE QueueFits(id, <<>>, m)
  BY DEF QueueFits

LEMMA CarriedFits ==
  ASSUME NEW up, \A id \in Seats : QueueFits(id, up[id], members[id]), Carried(up),
         \A id \in Seats : members'[id].sess = members[id].sess /\ members[id].conn => members'[id].conn
  PROVE  /\ uplink' = [id \in Seats |-> uplink'[id]]
         /\ \A id \in Seats : QueueFits(id, uplink'[id], members'[id])
<1>1. uplink' = [id \in Seats |-> IF members'[id].sess = members[id].sess THEN up[id] ELSE <<>>]
  BY DEF Carried
<1>2. ASSUME NEW id \in Seats PROVE QueueFits(id, uplink'[id], members'[id])
  <2>1. CASE members'[id].sess = members[id].sess
    <3>1. uplink'[id] = up[id]
      BY <1>1, <2>1
    <3> QED BY <2>1, <3>1 DEF QueueFits
  <2>2. CASE members'[id].sess # members[id].sess
    <3>1. uplink'[id] = <<>>
      BY <1>1, <2>2
    <3> QED BY <3>1, EmptyQueue
  <2> QED BY <2>1, <2>2
<1> QED BY <1>1, <1>2

LEMMA TailFits ==
  ASSUME SessionIInv, NEW id \in Seats, uplink[id] # <<>>
  PROVE  \A x \in Seats : QueueFits(x, [uplink EXCEPT ![id] = Tail(@)][x], members[x])
<1>1. QueueFits(id, uplink[id], members[id])
  BY DEF SessionIInv
<1>2. PICK q : q = uplink[id]
  OBVIOUS
<1>3. q \in Seq(Requests) /\ q # <<>>
  BY <1>1, <1>2 DEF QueueFits
<1>4. /\ Tail(q) \in Seq(Requests)
      /\ \A i \in DOMAIN Tail(q) : i + 1 \in DOMAIN q /\ Tail(q)[i] = q[i + 1]
  BY <1>3
<1>5. QueueFits(id, Tail(q), members[id])
  BY <1>1, <1>2, <1>4 DEF QueueFits
<1>6. /\ [uplink EXCEPT ![id] = Tail(@)][id] = Tail(q)
      /\ \A x \in Seats : x # id => [uplink EXCEPT ![id] = Tail(@)][x] = uplink[x]
  <2>1. uplink = [x \in Seats |-> uplink[x]]
    BY DEF SessionIInv
  <2> QED BY <1>2, <2>1
<1>7. \A x \in Seats : QueueFits(x, uplink[x], members[x])
  BY DEF SessionIInv
<1> QED BY <1>5, <1>6, <1>7

-----------------------------------------------------------------------------
(* The clients.                                                            *)

LEMMA LaterFits ==
  ASSUME NEW t, NEW c, NEW a \in Nat, NEW b \in Nat, a <= b, ClientFits(t, c, a)
  PROVE  ClientFits(t, c, b)
  BY DEF ClientFits, Made

LEMMA PostedFits ==
  ASSUME NEW t, NEW c, NEW a, NEW s \in Sessions, NEW msg \in {Data, Bye}, ClientFits(t, c, a)
  PROVE  ClientFits(t, Posted(c, s, msg), a)
<1>1. c \in Cores
  BY DEF ClientFits
<1>2. CASE Posted(c, s, msg) = c
  BY <1>2
<1>3. CASE Posted(c, s, msg) = [c EXCEPT !.down = @ \cup {[sess |-> s, msg |-> msg]}]
  <2>1. PICK d : d = Posted(c, s, msg)
    OBVIOUS
  <2>2. d \in Cores
    BY <1>1, <1>3, <2>1 DEF Cores
  <2>3. d.sess = c.sess /\ d.init = c.init /\ d.state = c.state /\ d.resps = c.resps
    BY <1>1, <1>3, <2>1 DEF Cores
  <2>4. ClientFits(t, d, a)
    BY <2>2, <2>3 DEF ClientFits, Made
  <2> QED BY <2>1, <2>4
<1> QED BY <1>2, <1>3 DEF Posted

LEMMA HoldersFit ==
  ASSUME SessionIInv, NEW ids, NEW msg \in {Data, Bye}, clients' = ToHolders(ids, msg), admits' = admits
  PROVE  clients' = [t \in Tokens |-> clients'[t]] /\ \A t \in Tokens : ClientFits(t, clients'[t], admits')
<1>1. members \in [Seats -> Member]
  BY DEF SessionIInv, IInv, RoomTypeOK
<1>2. ASSUME NEW t \in Tokens PROVE ClientFits(t, clients'[t], admits)
  <2>1. members[SeatOf[t]].sess \in Sessions
    BY <1>1, MembersAssumption DEF Member
  <2>2. ClientFits(t, clients[t], admits)
    BY DEF SessionIInv
  <2>3. ClientFits(t, Posted(clients[t], members[SeatOf[t]].sess, msg), admits)
    BY <2>1, <2>2, PostedFits
  <2>4. clients'[t] \in {Posted(clients[t], members[SeatOf[t]].sess, msg), clients[t]}
    BY DEF ToHolders
  <2> QED BY <2>2, <2>3, <2>4
<1> QED BY <1>2 DEF ToHolders

(* One client changes, to one that fits.                                   *)
LEMMA OneFits ==
  ASSUME SessionIInv, NEW t \in Tokens, NEW c, clients' = [clients EXCEPT ![t] = c], admits' \in Nat,
         admits <= admits', ClientFits(t, c, admits')
  PROVE  clients' = [u \in Tokens |-> clients'[u]] /\ \A u \in Tokens : ClientFits(u, clients'[u], admits')
<1>1. clients = [u \in Tokens |-> clients[u]] /\ admits \in Nat
  BY MembersAssumption DEF SessionIInv, IInv, RoomTypeOK
<1>2. clients'[t] = c /\ \A u \in Tokens : u # t => clients'[u] = clients[u]
  BY <1>1
<1>3. \A u \in Tokens : ClientFits(u, clients[u], admits')
  BY <1>1, LaterFits DEF SessionIInv
<1> QED BY <1>1, <1>2, <1>3

(* A client that keeps its init, its session and the responses to take.    *)
LEMMA SameHold ==
  ASSUME NEW t, NEW c, NEW d \in Cores, NEW a, ClientFits(t, c, a),
         d.sess = c.sess, d.init = c.init, d.resps = c.resps, d.state = "Joined" => c.state = "Joined"
  PROVE  ClientFits(t, d, a)
  BY DEF ClientFits, Made

LEMMA IdleFits ==
  ASSUME NEW t, NEW a, NEW n \in 0 .. MaxInits
  PROVE  ClientFits(t, [Idle EXCEPT !.state = "Connecting", !.init = n], a) /\ ClientFits(t, Idle, a)
<1>1. NoSession \in Sessions
  BY MembersAssumption DEF NoSession, Sessions
<1>2. PICK d : d = [Idle EXCEPT !.state = "Connecting", !.init = n]
  OBVIOUS
<1>3. d \in Cores /\ d.sess = NoSession /\ d.resps = {}
  BY <1>1, <1>2 DEF Idle, Cores, States
<1>4. Idle \in Cores /\ Idle.sess = NoSession /\ Idle.resps = {} /\ Idle.state = "Idle"
  BY <1>1, MembersAssumption DEF Idle, Cores, States
<1>5. ClientFits(t, d, a)
  BY <1>2, <1>3 DEF ClientFits
<1>6. ClientFits(t, Idle, a)
  BY <1>4 DEF ClientFits
<1> QED BY <1>2, <1>5, <1>6

LEMMA ClientChange ==
  ASSUME SessionIInv, NEW t \in Tokens,
         connect(t) \/ Join(t) \/ SessionFull(t) \/ ClientReceive(t) \/ ClientTimeout(t) \/ ClientLinkDead(t)
  PROVE  \E c : clients' = [clients EXCEPT ![t] = c] /\ ClientFits(t, c, admits)
<1> DEFINE k == clients[t]
<1>1. ClientFits(t, k, admits) /\ k \in Cores
  BY DEF SessionIInv, ClientFits
<1>2. clients = [u \in Tokens |-> clients[u]]
  BY DEF SessionIInv
<1>3. CASE connect(t)
  <2>1. k.init + 1 \in 0 .. MaxInits
    BY <1>1, <1>3, MembersAssumption DEF connect, Cores
  <2>2. ClientFits(t, [Idle EXCEPT !.state = "Connecting", !.init = k.init + 1], admits)
    BY <2>1, IdleFits
  <2> QED BY <1>3, <2>2 DEF connect
<1>4. CASE Join(t)
  <2>1. PICK s \in k.resps :
           clients' = [clients EXCEPT ![t] =
             [k EXCEPT !.state = "Joined", !.sess = s, !.full = FALSE, !.age = 0, !.resps = {},
                       !.down = {p \in @ : p.sess = s}]]
    BY <1>4 DEF Join
  <2>2. PICK d : d = [k EXCEPT !.state = "Joined", !.sess = s, !.full = FALSE, !.age = 0, !.resps = {},
                               !.down = {p \in @ : p.sess = s}]
    OBVIOUS
  <2>3. clients' = [clients EXCEPT ![t] = d]
    BY <2>1, <2>2
  <2>4. s \in Sessions /\ Made(t, k, s, admits)
    BY <1>1 DEF ClientFits, Cores
  <2>5. d \in Cores /\ d.sess = s /\ d.init = k.init /\ d.resps = {}
    BY <1>1, <2>2, <2>4 DEF Cores, States
  <2>6. s # NoSession
    BY <2>4, MembersAssumption DEF Made, NoSession
  <2>7. ClientFits(t, d, admits)
    BY <2>4, <2>5, <2>6 DEF ClientFits, Made
  <2> QED BY <2>3, <2>7
<1>5. CASE SessionFull(t)
  <2>1. clients' = [clients EXCEPT ![t] = [k EXCEPT !.full = TRUE]]
    BY <1>2, <1>5 DEF SessionFull
  <2>2. PICK d : d = [k EXCEPT !.full = TRUE]
    OBVIOUS
  <2>3. d \in Cores /\ d.sess = k.sess /\ d.init = k.init /\ d.resps = k.resps /\ d.state = k.state
    BY <1>1, <2>2 DEF Cores
  <2>4. ClientFits(t, d, admits)
    BY <1>1, <2>3, SameHold
  <2> QED BY <2>1, <2>2, <2>4
<1>6. CASE ClientReceive(t)
  <2>1. PICK p \in k.down :
           clients' = [clients EXCEPT ![t] =
              [k EXCEPT !.down = @ \ {p}, !.age = 0, !.state = IF p.msg = Bye THEN "Ejected" ELSE @]]
    BY <1>6 DEF ClientReceive
  <2>2. PICK d : d = [k EXCEPT !.down = @ \ {p}, !.age = 0, !.state = IF p.msg = Bye THEN "Ejected" ELSE @]
    OBVIOUS
  <2>3. clients' = [clients EXCEPT ![t] = d]
    BY <2>1, <2>2
  <2>4. d \in Cores /\ d.sess = k.sess /\ d.init = k.init /\ d.resps = k.resps
    BY <1>1, <2>2 DEF Cores, States
  <2>5. d.state \in {k.state, "Ejected"}
    BY <1>1, <2>2 DEF Cores
  <2>6. ClientFits(t, d, admits)
    BY <1>1, <2>4, <2>5, SameHold
  <2> QED BY <2>3, <2>6
<1>7. CASE ClientTimeout(t) \/ ClientLinkDead(t)
  <2>1. clients' = [clients EXCEPT ![t] = [k EXCEPT !.state = "TimedOut"]]
    BY <1>2, <1>7 DEF ClientTimeout, ClientLinkDead
  <2>2. PICK d : d = [k EXCEPT !.state = "TimedOut"]
    OBVIOUS
  <2>3. d \in Cores /\ d.sess = k.sess /\ d.init = k.init /\ d.resps = k.resps /\ d.state = "TimedOut"
    BY <1>1, <2>2 DEF Cores, States
  <2>4. ClientFits(t, d, admits)
    BY <1>1, <2>3, SameHold
  <2> QED BY <2>1, <2>2, <2>4
<1> QED BY <1>3, <1>4, <1>5, <1>6, <1>7

(* The answers of the server: an admission's response, a reject.           *)
LEMMA AnswerFits ==
  ASSUME SessionIInv, NEW t \in Tokens, NEW n \in 1 .. MaxInits, ServerAdmits(t, n)
  PROVE  \E c : clients' = [clients EXCEPT ![t] = c] /\ ClientFits(t, c, admits')
<1> DEFINE k == clients[t]
<1>1. ClientFits(t, k, admits) /\ k \in Cores
  BY DEF SessionIInv, ClientFits
<1>2. clients = [u \in Tokens |-> clients[u]]
  BY DEF SessionIInv
<1>3. NextSession(t, n) \in Sessions /\ admits' = admits + 1 /\ admits \in Nat
  BY AdmitSeats DEF ServerAdmits
<1>4. PICK r : r = IF n = k.init /\ k.sess = NoSession THEN k.resps \cup {NextSession(t, n)} ELSE k.resps
  OBVIOUS
<1>5. clients' = [clients EXCEPT ![t] = [k EXCEPT !.resps = r]]
  BY <1>2, <1>4 DEF ServerAdmits
<1>6. PICK d : d = [k EXCEPT !.resps = r]
  OBVIOUS
<1>7. r \subseteq Sessions
  BY <1>1, <1>3, <1>4 DEF Cores
<1>8. d \in Cores /\ d.sess = k.sess /\ d.init = k.init /\ d.resps = r /\ d.state = k.state
  BY <1>1, <1>6, <1>7 DEF Cores
<1>9. ClientFits(t, k, admits')
  BY <1>1, <1>3, LaterFits
<1>10. n = k.init => Made(t, k, NextSession(t, n), admits')
  BY <1>3 DEF Made, NextSession
<1>11. \A s \in r : Made(t, d, s, admits')
  <2>1. \A s \in r : Made(t, k, s, admits')
    BY <1>4, <1>9, <1>10 DEF ClientFits
  <2> QED BY <1>8, <2>1 DEF Made
<1>12. ClientFits(t, d, admits')
  BY <1>8, <1>9, <1>11 DEF ClientFits, Made
<1> QED BY <1>5, <1>6, <1>12

LEMMA RejectFits ==
  ASSUME SessionIInv, NEW t \in Tokens, NEW n \in 1 .. MaxInits, capacity_reject(t, n)
  PROVE  \E c : clients' = [clients EXCEPT ![t] = c] /\ ClientFits(t, c, admits)
<1> DEFINE k == clients[t]
<1>1. ClientFits(t, k, admits) /\ k \in Cores
  BY DEF SessionIInv, ClientFits
<1>2. clients' = [clients EXCEPT ![t] = [k EXCEPT !.rejected = TRUE]]
  <2>1. clients = [u \in Tokens |-> clients[u]]
    BY DEF SessionIInv
  <2> QED BY <2>1 DEF capacity_reject
<1>3. PICK d : d = [k EXCEPT !.rejected = TRUE]
  OBVIOUS
<1>4. d \in Cores /\ d.sess = k.sess /\ d.init = k.init /\ d.resps = k.resps /\ d.state = k.state
  BY <1>1, <1>3 DEF Cores
<1>5. ClientFits(t, d, admits)
  BY <1>1, <1>4, SameHold
<1> QED BY <1>2, <1>3, <1>5

LEMMA AgedFit ==
  ASSUME SessionIInv, TimePasses
  PROVE  clients' = [t \in Tokens |-> clients'[t]] /\ \A t \in Tokens : ClientFits(t, clients'[t], admits)
<1>1. ASSUME NEW t \in Tokens PROVE ClientFits(t, clients'[t], admits)
  <2>1. ClientFits(t, clients[t], admits) /\ clients[t] \in Cores
    BY DEF SessionIInv, ClientFits
  <2>2. CASE clients'[t] = clients[t]
    BY <2>1, <2>2
  <2>3. CASE clients'[t] = [clients[t] EXCEPT !.age = Older(@, CONNECTION_TIMEOUT)]
    <3>1. PICK d : d = clients'[t]
      OBVIOUS
    <3>2. Older(clients[t].age, CONNECTION_TIMEOUT) \in Nat
      BY <2>1, SessionAssumption DEF Cores, Older
    <3>3. d = [clients[t] EXCEPT !.age = Older(clients[t].age, CONNECTION_TIMEOUT)]
      BY <2>1, <2>3, <3>1
    <3>4. /\ d \in Cores /\ d.sess = clients[t].sess /\ d.init = clients[t].init
          /\ d.resps = clients[t].resps /\ d.state = clients[t].state
      BY <2>1, <3>2, <3>3 DEF Cores
    <3>5. ClientFits(t, d, admits)
      BY <2>1, <3>4, SameHold
    <3> QED BY <3>1, <3>5
  <2> QED BY <2>2, <2>3 DEF TimePasses
<1> QED BY <1>1 DEF TimePasses

-----------------------------------------------------------------------------
LEMMA SessionStart == ASSUME SessionInit PROVE SessionIInv
<1>1. IInv
  BY InitInv DEF SessionInit
<1>2. /\ members = [id \in Seats |-> Vacant]
      /\ clients = [t \in Tokens |-> Idle] /\ uplink = [id \in Seats |-> <<>>]
  BY DEF SessionInit, RoomInit
<1>3. \A id \in Seats : SeatFits(members[id], admits)
  BY <1>2, VacantEnds DEF SeatFits
<1>4. ASSUME NEW t \in Tokens PROVE ClientFits(t, clients[t], admits)
  <2>1. 0 \in 0 .. MaxInits
    BY MembersAssumption
  <2>2. ClientFits(t, Idle, admits)
    BY <2>1, IdleFits
  <2> QED BY <1>2, <2>2
<1>5. \A id \in Seats : QueueFits(id, uplink[id], members[id])
  BY <1>2, EmptyQueue
<1> QED BY <1>1, <1>2, <1>3, <1>4, <1>5 DEF SessionIInv

(* A step of the server that lets nobody in, with what it carries on.      *)
LEMMA ServerStep ==
  ASSUME SessionIInv, IInv', SessionsEnd, admits' = admits,
         NEW up, \A id \in Seats : QueueFits(id, up[id], members[id]), Carried(up),
         UNCHANGED clients \/ \E ids : \E msg \in {Data, Bye} : clients' = ToHolders(ids, msg)
  PROVE  SessionIInv'
<1>1. \A id \in Seats : SeatFits(members'[id], admits')
  BY EndsKeepSeats
<1>2. /\ uplink' = [id \in Seats |-> uplink'[id]]
      /\ \A id \in Seats : QueueFits(id, uplink'[id], members'[id])
  BY LastingSession, CarriedFits
<1>3. clients' = [t \in Tokens |-> clients'[t]] /\ \A t \in Tokens : ClientFits(t, clients'[t], admits')
  <2>1. CASE UNCHANGED clients
    BY <2>1 DEF SessionIInv
  <2>2. CASE \E ids : \E msg \in {Data, Bye} : clients' = ToHolders(ids, msg)
    BY <2>2, HoldersFit
  <2> QED BY <2>1, <2>2
<1> QED BY <1>1, <1>2, <1>3 DEF SessionIInv

LEMMA AdmissionStep ==
  ASSUME SessionIInv, IInv', NEW t \in Tokens, NEW n \in 1 .. MaxInits, ServerAdmits(t, n)
  PROVE  SessionIInv'
<1>1. /\ \A id \in Seats : SeatFits(members'[id], admits')
      /\ admits' \in Nat /\ admits <= admits'
      /\ \A id \in Seats : members'[id].sess = members[id].sess /\ members[id].conn => members'[id].conn
  BY AdmitSeats DEF ServerAdmits
<1>2. /\ uplink' = [id \in Seats |-> uplink'[id]]
      /\ \A id \in Seats : QueueFits(id, uplink'[id], members'[id])
  <2>1. Carried(uplink) /\ \A id \in Seats : QueueFits(id, uplink[id], members[id])
    BY DEF ServerAdmits, SessionIInv
  <2> QED BY <1>1, <2>1, CarriedFits
<1>3. clients' = [u \in Tokens |-> clients'[u]] /\ \A u \in Tokens : ClientFits(u, clients'[u], admits')
  <2>1. PICK c : clients' = [clients EXCEPT ![t] = c] /\ ClientFits(t, c, admits')
    BY AnswerFits
  <2> QED BY <1>1, <2>1, OneFits
<1> QED BY <1>1, <1>2, <1>3 DEF SessionIInv

(* A step of a client, or a reject: the room stays as it is.               *)
LEMMA OneClientStep ==
  ASSUME SessionIInv, IInv', UNCHANGED <<roomVars, uplink>>, NEW t \in Tokens,
         \E c : clients' = [clients EXCEPT ![t] = c] /\ ClientFits(t, c, admits)
  PROVE  SessionIInv'
<1>1. members' = members /\ admits' = admits /\ uplink' = uplink /\ admits \in Nat
  BY MembersAssumption DEF roomVars, SessionIInv, IInv, RoomTypeOK
<1>2. clients' = [u \in Tokens |-> clients'[u]] /\ \A u \in Tokens : ClientFits(u, clients'[u], admits')
  <2>1. PICK c : clients' = [clients EXCEPT ![t] = c] /\ ClientFits(t, c, admits)
    OBVIOUS
  <2>2. admits' \in Nat /\ admits <= admits' /\ ClientFits(t, c, admits')
    BY <1>1, <2>1
  <2> QED BY <2>1, <2>2, OneFits
<1>3. \A id \in Seats : SeatFits(members'[id], admits') /\ QueueFits(id, uplink'[id], members'[id])
  BY <1>1 DEF SessionIInv
<1>4. uplink' = [id \in Seats |-> uplink'[id]]
  BY <1>1 DEF SessionIInv
<1> QED BY <1>2, <1>3, <1>4 DEF SessionIInv

LEMMA SendStep ==
  ASSUME SessionIInv, IInv', NEW t \in Tokens, NEW msg \in Sends(t), ClientSend(t, msg)
  PROVE  SessionIInv'
<1> DEFINE x == SeatOf[t]
<1>1. members' = members /\ admits' = admits /\ clients' = clients /\ x \in Seats
  BY MembersAssumption DEF ClientSend, roomVars
<1>2. members[x].conn
  <2>1. ClientFits(t, clients[t], admits) /\ SeatFits(members[x], admits)
    BY <1>1 DEF SessionIInv
  <2>2. clients[t].sess # NoSession /\ members[x].sess = clients[t].sess
    BY <2>1 DEF ClientSend, ClientFits
  <2> QED BY <2>1, <2>2 DEF SeatFits
<1>3. msg \in Requests /\ (msg.kind = "revoke" => x = HostSeat)
  BY RequestKinds DEF Requests
<1>4. PICK q : q = uplink[x]
  OBVIOUS
<1>5. uplink = [id \in Seats |-> uplink[id]] /\ uplink' = [uplink EXCEPT ![x] = Append(q, msg)]
  BY <1>4 DEF ClientSend, SessionIInv
<1>6. QueueFits(x, Append(q, msg), members[x])
  <2>1. QueueFits(x, q, members[x])
    BY <1>1, <1>4 DEF SessionIInv
  <2>2. q \in Seq(Requests)
    BY <2>1 DEF QueueFits
  <2>3. /\ Append(q, msg) \in Seq(Requests)
        /\ \A i \in DOMAIN Append(q, msg) : Append(q, msg)[i] = msg \/ (i \in DOMAIN q /\ Append(q, msg)[i] = q[i])
    BY <1>3, <2>2
  <2> QED BY <1>2, <1>3, <2>1, <2>3 DEF QueueFits
<1>7. \A id \in Seats : QueueFits(id, uplink'[id], members'[id])
  <2>1. uplink'[x] = Append(q, msg) /\ \A id \in Seats : id # x => uplink'[id] = uplink[id]
    BY <1>1, <1>5
  <2> QED BY <1>1, <1>6, <2>1 DEF SessionIInv
<1>8. uplink' = [id \in Seats |-> uplink'[id]]
  BY <1>5
<1> QED BY <1>1, <1>7, <1>8 DEF SessionIInv

LEMMA TimeStep == ASSUME SessionIInv, IInv', TimePasses PROVE SessionIInv'
<1>1. SessionsEnd /\ admits' = admits
  BY RoomEnds DEF SessionIInv, TimePasses
<1>2. \A id \in Seats : members'[id].conn = members[id].conn
  <2>1. members \in [Seats -> Member]
    BY DEF SessionIInv, IInv, RoomTypeOK
  <2> QED BY <2>1 DEF TimePasses, Pass, Aged, Member
<1>3. \A id \in Seats : SeatFits(members'[id], admits')
  BY <1>1, EndsKeepSeats
<1>4. uplink' = uplink /\ \A id \in Seats : QueueFits(id, uplink'[id], members'[id])
  BY <1>2 DEF TimePasses, SessionIInv, QueueFits
<1>5. clients' = [t \in Tokens |-> clients'[t]] /\ \A t \in Tokens : ClientFits(t, clients'[t], admits')
  BY <1>1, AgedFit
<1> QED BY <1>3, <1>4, <1>5 DEF SessionIInv

LEMMA SessionStep == ASSUME SessionIInv, [SessionNext]_sessionVars PROVE SessionIInv'
<1>1. IInv'
  BY StepOfRoom, RoomStep DEF SessionIInv
<1>2. \A id \in Seats : QueueFits(id, uplink[id], members[id])
  BY DEF SessionIInv
<1>3. IInv
  BY DEF SessionIInv
<1>4. ASSUME NEW t \in Tokens, NEW n \in 1 .. MaxInits, ServerAdmits(t, n) PROVE SessionIInv'
  BY <1>1, <1>4, AdmissionStep
<1>5. ASSUME NEW t \in Tokens, NEW n \in 1 .. MaxInits, capacity_reject(t, n) PROVE SessionIInv'
  BY <1>1, <1>5, RejectFits, OneClientStep DEF capacity_reject
<1>6. ASSUME NEW id \in Seats, ServerHears(id) PROVE SessionIInv'
  <2>1. uplink[id] # <<>> /\ Carried([uplink EXCEPT ![id] = Tail(@)])
    BY <1>6 DEF ServerHears
  <2>2. SessionsEnd /\ admits' = admits
    <3>1. ReceiveData(id) \/ ReceiveBye(id) \/ \E jti \in Tokens : ReceiveRevoke(jti)
      BY <1>6, <2>1, MessageTaken DEF ServerHears
    <3> QED BY <1>3, <3>1, RoomEnds
  <2>3. UNCHANGED clients \/ \E ids : \E msg \in {Data, Bye} : clients' = ToHolders(ids, msg)
    BY <1>6 DEF ServerHears, farewell
  <2> QED BY <1>1, <2>1, <2>2, <2>3, TailFits, ServerStep
<1>7. ASSUME NEW id \in Seats, ServerDrops(id) PROVE SessionIInv'
  <2>1. SessionsEnd /\ admits' = admits
    BY <1>3, <1>7, RoomEnds DEF ServerDrops
  <2> QED BY <1>1, <1>2, <1>7, <2>1, ServerStep DEF ServerDrops
<1>8. ASSUME NEW dead, NEW full, ServerTicks(dead, full) PROVE SessionIInv'
  <2>1. SessionsEnd /\ admits' = admits
    BY <1>3, <1>8, RoomEnds DEF ServerTicks
  <2> QED BY <1>1, <1>2, <1>8, <2>1, ServerStep DEF ServerTicks
<1>9. CASE ServerStops
  <2>1. SessionsEnd /\ admits' = admits
    BY <1>3, <1>9, RoomEnds DEF ServerStops
  <2> QED BY <1>1, <1>2, <1>9, <2>1, ServerStep DEF ServerStops, farewell
<1>10. CASE ServerRestarts
  <2>1. SessionsEnd /\ admits' = admits
    BY <1>3, <1>10, RoomEnds DEF ServerRestarts
  <2> QED BY <1>1, <1>2, <1>10, <2>1, ServerStep DEF ServerRestarts
<1>11. ASSUME NEW t \in Tokens, ClientStep(t) PROVE SessionIInv'
  <2>1. CASE \E msg \in Sends(t) : ClientSend(t, msg)
    BY <1>1, <2>1, SendStep
  <2>2. CASE \/ connect(t) \/ Join(t) \/ SessionFull(t) \/ ClientReceive(t)
             \/ ClientTimeout(t) \/ ClientLinkDead(t)
    <3>1. UNCHANGED <<roomVars, uplink>>
      BY <2>2 DEF connect, Join, SessionFull, ClientReceive, ClientTimeout, ClientLinkDead
    <3> QED BY <1>1, <2>2, <3>1, ClientChange, OneClientStep
  <2> QED BY <1>11, <2>1, <2>2 DEF ClientStep
<1>12. CASE TimePasses
  BY <1>1, <1>12, TimeStep
<1>13. CASE UNCHANGED sessionVars
  BY <1>1, <1>13 DEF sessionVars, roomVars, SessionIInv
<1> QED BY <1>4, <1>5, <1>6, <1>7, <1>8, <1>9, <1>10, <1>11, <1>12, <1>13 DEF SessionNext

(* Both sides agree on whom a session is for, after any step of either.    *)
THEOREM SessionInOrder == SessionSpec => []SessionIInv
<1>1. SessionInit => SessionIInv
  BY SessionStart
<1>2. SessionIInv /\ [SessionNext]_sessionVars => SessionIInv'
  BY SessionStep
<1> QED BY <1>1, <1>2, PTL DEF SessionSpec

(* ServerCore, every ClientCore and what is in flight between them keep    *)
(* their types.                                                            *)
THEOREM SessionTypeCorrect == SessionSpec => []SessionTypeOK
<1>1. SessionIInv => SessionTypeOK
  <2> SUFFICES ASSUME SessionIInv PROVE SessionTypeOK
    OBVIOUS
  <2>1. RoomTypeOK
    BY DEF SessionIInv, IInv
  <2>2. clients \in [Tokens -> Cores]
    BY DEF SessionIInv, ClientFits
  <2>3. uplink \in [Seats -> Seq(Requests)]
    BY DEF SessionIInv, QueueFits
  <2> QED BY <2>1, <2>2, <2>3 DEF SessionTypeOK, Cores, Requests
<1> QED BY <1>1, SessionInOrder, PTL

(* The server among real clients does nothing that Members does not allow  *)
(* it among arbitrary ones: each step of the composition is one of the     *)
(* room or leaves it as it is.                                             *)
THEOREM SessionKeepsRoom == SessionSpec => RoomSpec
<1>1. SessionInit => RoomInit
  BY DEF SessionInit
<1>2. SessionIInv /\ [SessionNext]_sessionVars => [RoomNext]_roomVars
  BY StepOfRoom
<1> QED BY <1>1, <1>2, SessionInOrder, PTL DEF SessionSpec, RoomSpec

(* So the room's properties are those of the server with its clients:      *)
(* admit, the revocation handler and the tick keep the caps, keep revoked  *)
(* invites out, lose a roster only to the full queue of the member it is   *)
(* for, and unseat nobody but the revoked.                                 *)
THEOREM SessionRoomInOrder ==
    SessionSpec => [](CapacityRespected /\ RevokedHasNoSeat /\ RosterCurrent) /\ RevokeSparesOthers
<1>1. RoomSpec => [](CapacityRespected /\ RevokedHasNoSeat /\ RosterCurrent)
  BY CapacityHolds, RevokedStaysOut, RosterNeverStale, PTL
<1> QED BY <1>1, RevocationIsPrecise, SessionKeepsRoom, PTL

(* What handle_transport opens under a seat's session comes from the       *)
(* client of the invite that sits there, though seats are reissued, an     *)
(* init is answered twice and responses arrive late; and a Revoke reaches  *)
(* the server from the host's seat only.                                   *)
THEOREM NobodySpeaksForAnother == SessionSpec => []SpeaksForItself
<1>1. SessionIInv => SpeaksForItself
  <2> SUFFICES ASSUME SessionIInv PROVE SpeaksForItself
    OBVIOUS
  <2>1. ASSUME NEW t \in Tokens, ServerHolds(t)
        PROVE  members[SeatOf[t]].tok = t /\ clients[t].sess.init = clients[t].init
    <3>1. SeatOf[t] \in Seats
      BY MembersAssumption
    <3>2. SeatFits(members[SeatOf[t]], admits) /\ ClientFits(t, clients[t], admits)
      BY <3>1 DEF SessionIInv
    <3>3. members[SeatOf[t]].conn /\ members[SeatOf[t]].sess = clients[t].sess
      BY <2>1 DEF ServerHolds
    <3>4. clients[t].sess.n # 0 /\ NoSession.n = 0
      BY <3>2, <3>3 DEF SeatFits, NoSession
    <3>5. Made(t, clients[t], clients[t].sess, admits)
      BY <3>2, <3>4 DEF ClientFits
    <3> QED BY <3>2, <3>3, <3>5 DEF SeatFits, Made
  <2>2. ASSUME NEW id \in Seats, NEW i \in DOMAIN uplink[id]
        PROVE  members[id].conn /\ (uplink[id][i].kind = "revoke" => id = HostSeat)
    BY DEF SessionIInv, QueueFits
  <2> QED BY <2>1, <2>2 DEF SpeaksForItself
<1> QED BY <1>1, SessionInOrder, PTL
=============================================================================
