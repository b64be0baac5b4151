------------------------------ MODULE Session ------------------------------
(***************************************************************************)
(* The server of Members composed with one ClientCore                      *)
(* (crates/session/src/client.rs) per invite.                              *)
(*                                                                         *)
(* Init bytes, handshake responses and capacity rejects are repeated,      *)
(* delayed and lost at will.  Control messages of a session arrive in      *)
(* order and at most once, which is what ControlLink and Transport         *)
(* establish; a session that ends takes what is in flight with it, since   *)
(* nothing else opens it.                                                  *)
(***************************************************************************)
EXTENDS Members, Sequences

CONSTANTS
    CONNECTION_TIMEOUT,   \* 10 s: the client's own timeout
    MaxQueue              \* bound: control messages in flight per session

ASSUME SessionAssumption == CONNECTION_TIMEOUT \in Nat /\ MaxQueue \in Nat

VARIABLES
    clients,   \* one ClientCore per invite, with the datagrams in flight to it
    uplink     \* uplink[id]: messages in flight under the session of seat id

sessionVars == <<roomVars, clients, uplink>>

Idle == [state |-> "Idle", init |-> 0, sess |-> NoSession, full |-> FALSE, age |-> 0,
         resps |-> {}, rejected |-> FALSE, down |-> {}]

SessionInit ==
    /\ RoomInit
    /\ clients = [t \in Tokens |-> Idle]
    /\ uplink = [id \in Seats |-> <<>>]

Data == [kind |-> "data"]
Bye == [kind |-> "bye"]
Revoke(jti) == [kind |-> "revoke", jti |-> jti]

(* What a client sends: only the host's has a revoke button.               *)
Sends(t) == {Data, Bye} \cup (IF SeatOf[t] = HostSeat THEN {Revoke(jti) : jti \in Tokens} ELSE {})

-----------------------------------------------------------------------------
(***************************************************************************)
(* The server's side: each step of Members with what it sends.             *)
(***************************************************************************)
(* A datagram sealed for session s reaches a client that can open it, now  *)
(* or once it has finished the handshake; any other client drops it.       *)
Posted(c, s, msg) ==
    IF s = c.sess \/ s \in c.resps
    THEN [c EXCEPT !.down = @ \cup {[sess |-> s, msg |-> msg]}] ELSE c

ToHolders(ids, msg) ==
    [t \in Tokens |->
       IF SeatOf[t] \in ids /\ members[SeatOf[t]].conn /\ members[SeatOf[t]].tok = t
       THEN Posted(clients[t], members[SeatOf[t]].sess, msg) ELSE clients[t]]

farewell(ids) == clients' = ToHolders(ids, Bye)

(* What a seat has in flight ends with its session.                        *)
Carried(up) == uplink' = [id \in Seats |-> IF members'[id].sess = members[id].sess THEN up[id] ELSE <<>>]

(* The response goes out with the admission.  Answering the cached         *)
(* response again changes nothing: it is in resps until the client moves   *)
(* on to another init or joins.                                            *)
ServerAdmits(t, n) ==
    /\ n <= clients[t].init
    /\ admit(t, n)
    /\ clients' = [clients EXCEPT ![t].resps =
         IF n = clients[t].init /\ clients[t].sess = NoSession THEN @ \cup {NextSession(t, n)} ELSE @]
    /\ Carried(uplink)

(* The one refusal that is answered, unless the reject limiter swallows it.*)
capacity_reject(t, n) ==
    /\ n = clients[t].init
    /\ Welcome(t) /\ ~HoldsSeat(t, n) /\ RoleFull(t)
    /\ clients' = [clients EXCEPT ![t].rejected = TRUE]
    /\ UNCHANGED <<roomVars, uplink>>

ServerHears(id) ==
    /\ uplink[id] # <<>>
    /\ LET msg == Head(uplink[id])
       IN  \/ msg.kind = "data" /\ ReceiveData(id) /\ UNCHANGED clients
           \/ msg.kind = "bye" /\ ReceiveBye(id) /\ UNCHANGED clients
           \/ msg.kind = "revoke" /\ ReceiveRevoke(msg.jti) /\ farewell(HeldBy(msg.jti))
    /\ Carried([uplink EXCEPT ![id] = Tail(@)])

(* Media goes to every connected member before the scans of the same tick. *)
ServerTicks(dead, full) ==
    /\ Tick(dead, full)
    /\ clients' = ToHolders(Seats, Data)
    /\ Carried(uplink)

ServerDrops(id) == drop_peer(id) /\ Carried(uplink) /\ UNCHANGED clients

ServerStops == Shutdown /\ farewell(Seats) /\ Carried(uplink)

ServerRestarts == Restart /\ Carried(uplink) /\ UNCHANGED clients

-----------------------------------------------------------------------------
(***************************************************************************)
(* ClientCore.  connect and reconnect both start a fresh handshake: only   *)
(* a response to this init can finish it and nothing older opens any more. *)
(***************************************************************************)
connect(t) ==
    /\ clients[t].init < MaxInits
    /\ clients' = [clients EXCEPT ![t] = [Idle EXCEPT !.state = "Connecting", !.init = clients[t].init + 1]]
    /\ UNCHANGED <<roomVars, uplink>>

(* handle_datagram of a response.                                          *)
Join(t) ==
    /\ clients[t].state = "Connecting"
    /\ \E s \in clients[t].resps :
         clients' = [clients EXCEPT ![t] =
           [clients[t] EXCEPT !.state = "Joined", !.sess = s, !.full = FALSE, !.age = 0, !.resps = {},
                              !.down = {p \in @ : p.sess = s}]]
    /\ UNCHANGED <<roomVars, uplink>>

(* A capacity reject counts once per attempt.                              *)
SessionFull(t) ==
    /\ clients[t].rejected
    /\ clients[t].state = "Connecting" /\ ~clients[t].full
    /\ clients' = [clients EXCEPT ![t].full = TRUE]
    /\ UNCHANGED <<roomVars, uplink>>

(* A transport datagram is opened whenever a session is held, whatever the *)
(* state has become since.                                                 *)
ClientReceive(t) ==
    /\ \E p \in clients[t].down :
         /\ p.sess = clients[t].sess
         /\ clients' = [clients EXCEPT ![t] =
              [clients[t] EXCEPT !.down = @ \ {p}, !.age = 0,
                                 !.state = IF p.msg = Bye THEN "Ejected" ELSE @]]
    /\ UNCHANGED <<roomVars, uplink>>

(* Fault: a joined client never times out.                                 *)
ClientTimeoutConnecting(t) ==
    /\ clients[t].age >= CONNECTION_TIMEOUT
    /\ clients[t].state = "Connecting" /\ ~clients[t].full
    /\ clients' = [clients EXCEPT ![t].state = "TimedOut"]
    /\ UNCHANGED <<roomVars, uplink>>

(* Fault: the wait for a free place times out too.                         *)
ClientTimeoutFull(t) ==
    /\ clients[t].age >= CONNECTION_TIMEOUT
    /\ clients[t].state \in {"Connecting", "Joined"}
    /\ clients' = [clients EXCEPT ![t].state = "TimedOut"]
    /\ UNCHANGED <<roomVars, uplink>>

(* poll: a full session is the one wait without a timeout; a joined client *)
(* also gives up on a dead control link.                                   *)
ClientTimeout(t) ==
    /\ clients[t].age >= CONNECTION_TIMEOUT
    /\ \/ clients[t].state = "Connecting" /\ ~clients[t].full
       \/ clients[t].state = "Joined"
    /\ clients' = [clients EXCEPT ![t].state = "TimedOut"]
    /\ UNCHANGED <<roomVars, uplink>>

ClientLinkDead(t) ==
    /\ clients[t].state = "Joined"
    /\ clients' = [clients EXCEPT ![t].state = "TimedOut"]
    /\ UNCHANGED <<roomVars, uplink>>

(* Anything a joined client sends: the pings of poll, and the calls of its *)
(* user.  It opens only if the server still holds the same session.        *)
ClientSend(t, msg) ==
    /\ clients[t].state = "Joined"
    /\ members[SeatOf[t]].sess = clients[t].sess
    /\ Len(uplink[SeatOf[t]]) < MaxQueue
    /\ uplink' = [uplink EXCEPT ![SeatOf[t]] = Append(@, msg)]
    /\ UNCHANGED <<roomVars, clients>>

-----------------------------------------------------------------------------
(* One clock for both sides.                                               *)
TimePasses ==
    /\ Pass
    /\ clients' = [t \in Tokens |->
         IF clients[t].state \in {"Connecting", "Joined"}
         THEN [clients[t] EXCEPT !.age = Older(@, CONNECTION_TIMEOUT)] ELSE clients[t]]
    /\ UNCHANGED uplink

ClientStep(t) ==
    \/ connect(t) \/ Join(t) \/ SessionFull(t) \/ ClientReceive(t)
    \/ ClientTimeout(t) \/ ClientLinkDead(t)
    \/ \E msg \in Sends(t) : ClientSend(t, msg)

SessionNext ==
    \/ \E t \in Tokens : \E n \in 1 .. MaxInits : ServerAdmits(t, n) \/ capacity_reject(t, n)
    \/ \E id \in Seats : ServerHears(id) \/ ServerDrops(id)
    \/ \E dead \in SUBSET Connected(members) : \E full \in SUBSET Owed : ServerTicks(dead, full)
    \/ ServerStops
    \/ ServerRestarts
    \/ \E t \in Tokens : ClientStep(t)
    \/ TimePasses

SessionSpec == SessionInit /\ [][SessionNext]_sessionVars

(***************************************************************************)
(* The clock runs, the server's driver ticks every 2.5 ms and a client's   *)
(* driver polls its core.  Nothing is assumed of the network or the users. *)
(***************************************************************************)
Fairness ==
    /\ WF_sessionVars(TimePasses)
    /\ WF_sessionVars(\E dead \in SUBSET Connected(members) : \E full \in SUBSET Owed : ServerTicks(dead, full))
    /\ \A t \in Tokens : WF_sessionVars(ClientTimeout(t))

SessionFairSpec == SessionSpec /\ Fairness

(* The init that poll offers again every INIT_RESEND_MS while connecting.  *)
OfferTaken(t) == clients[t].state = "Connecting" /\ ServerAdmits(t, clients[t].init)

(* Besides, a network that delivers a datagram sent over and over.         *)
Delivery ==
    \A t \in Tokens : SF_sessionVars(OfferTaken(t)) /\ WF_sessionVars(Join(t))

SessionDeliveringSpec == SessionFairSpec /\ Delivery

-----------------------------------------------------------------------------
States == {"Idle", "Connecting", "Joined", "TimedOut", "Ejected"}

(* Both cores and what is in flight between them have the source's types.  *)
SessionTypeOK ==
    /\ RoomTypeOK
    /\ clients \in [Tokens -> [state : States, init : 0 .. MaxInits, sess : Sessions, full : BOOLEAN,
                               age : Nat, resps : SUBSET Sessions, rejected : BOOLEAN,
                               down : SUBSET [sess : Sessions, msg : {Data, Bye}]]]
    /\ uplink \in [Seats -> Seq(UNION {Sends(t) : t \in Tokens})]

ServerHolds(t) == members[SeatOf[t]].conn /\ members[SeatOf[t]].sess = clients[t].sess

ClientMayHold(s) ==
    \E t \in Tokens : s \in clients[t].resps \/ (clients[t].sess = s /\ clients[t].state = "Joined")

(* Nobody speaks for another, though invites share seats and a seat goes   *)
(* from one to the next: what opens under a seat's session comes from the  *)
(* client whose invite sits there, of its present handshake; what is still *)
(* in flight under a session ended with it; and only the host's seat can   *)
(* ask for a revocation.                                                   *)
SpeaksForItself ==
    /\ \A t \in Tokens : ServerHolds(t) => /\ members[SeatOf[t]].tok = t
                                          /\ clients[t].sess.init = clients[t].init
    /\ \A id \in Seats : \A i \in DOMAIN uplink[id] :
          members[id].conn /\ (uplink[id][i].kind = "revoke" => id = HostSeat)

(* A split heals from the client's side: one that believes itself joined   *)
(* under a session the server has dropped, replaced (the same init         *)
(* answered twice, the first response arriving last) or lost in a crash    *)
(* does not go on believing it.                                            *)
SplitHeals ==
    \A t \in Tokens : \A n \in 1 .. MaxAdmits :
       (clients[t].state = "Joined" /\ clients[t].sess.n = n /\ ~ServerHolds(t))
          ~> ~(clients[t].state = "Joined" /\ clients[t].sess.n = n)

(* And from the server's side: a seat held for a session no client has or  *)
(* can still get is freed, without which it would count against the cap.   *)
GhostReaped ==
    \A n \in 1 .. MaxAdmits :
       (\E id \in Connected(members) : members[id].sess.n = n /\ ~ClientMayHold(members[id].sess))
          ~> ~(\E id \in Connected(members) : members[id].sess.n = n)

(* "The client keeps offering the same init, so a seat that frees is taken *)
(* without anybody restarting anything": a client told the session is full *)
(* does not stay so while places keep coming free.  The premise leaves out *)
(* what ends the wait otherwise: a revoked invite, a server that stopped,  *)
(* a spent violation budget, and the bound on admissions.                  *)
FreedSeatIsTaken ==
    \A t \in Tokens :
       ([]<>(Welcome(t) /\ ~RoleFull(t)) /\ [](admits < MaxAdmits))
          => (clients[t].full ~> ~clients[t].full)
=============================================================================
