--------------------------- MODULE HandshakeGate ---------------------------
(***************************************************************************)
(* What stands between a client's init and the server's admission while    *)
(* others are arriving: the cookie round trip and the budgets in front of  *)
(* admit (session/src/server.rs), the rejects, and the client that offers  *)
(* its init again and again (session/src/client.rs).                       *)
(*                                                                         *)
(* Time is in beats of INIT_RESEND_MS, longer than a round trip: what is   *)
(* sent in a beat has arrived or is lost when it ends.  A bucket is its    *)
(* level; what it gains in a beat is its rate.  A cookie is the number of  *)
(* rotations since it was made, two or more being as good as any.          *)
(***************************************************************************)
EXTENDS Integers

CONSTANTS
    TRIGGER_BURST, TRIGGER_RATE,      \* COOKIE_TRIGGER_*
    INIT_BURST, INIT_RATE,
    INIT_SLOT_BURST, INIT_SLOT_RATE,
    REJECT_BURST, REJECT_RATE,
    REJECT_INTERVAL,                  \* beats between two rejects to one network
    COOKIE_ANSWER_BURST,
    ANSWER_BEATS,                     \* beats one answer takes to come back
    COOKIE_ROTATION,                  \* beats
    INIT_RESEND_MAX, REJECT_RETRY, REJECT_RETRY_MAX, CONNECTION_TIMEOUT   \* beats

(* "Below the Diffie-Hellman budget on purpose".                           *)
ASSUME GateAssumption ==
    /\ {TRIGGER_BURST, TRIGGER_RATE, INIT_BURST, INIT_RATE, INIT_SLOT_BURST, INIT_SLOT_RATE} \subseteq Nat \ {0}
    /\ {REJECT_BURST, REJECT_RATE, COOKIE_ANSWER_BURST, ANSWER_BEATS, COOKIE_ROTATION} \subseteq Nat \ {0}
    /\ {REJECT_INTERVAL, INIT_RESEND_MAX, REJECT_RETRY, REJECT_RETRY_MAX, CONNECTION_TIMEOUT} \subseteq Nat \ {0}
    /\ TRIGGER_BURST <= INIT_BURST /\ TRIGGER_RATE <= INIT_RATE

VARIABLES
    gate,     \* the server's buckets: [trigger, init, slot, rejects], the last of the client's network
    quiet,    \* beats since the client's network was sent a reject
    phase,    \* beats into this rotation
    server,   \* "open", "full" (the client's role is), "other" (another version)
    held,     \* the member is connected by "this" init, by one "before" it, or not: "no"
    joiner,   \* the client: [state, full, cookie, answers, waited, since, resend]
    flying,   \* datagrams in flight
    offer,    \* history, of this beat: "none", "out", "answered", "spoilt"
    wasted    \* history: an offer came to nothing for no reason

gateVars == <<gate, quiet, phase, server, held, joiner, flying, offer, wasted>>

None == 3                   \* no cookie
Stale == 2
Plain == [kind |-> "init", cookie |-> None]
Cookied(c) == [kind |-> "cookied", cookie |-> c]
Challenge(c) == [kind |-> "challenge", cookie |-> c]
Answer(k) == [kind |-> k, cookie |-> None]      \* "resp", "capacity", "version"

AllFull == [trigger |-> TRIGGER_BURST, init |-> INIT_BURST, slot |-> INIT_SLOT_BURST, rejects |-> REJECT_BURST]

Connecting(answers) == [state |-> "Connecting", full |-> FALSE, cookie |-> None, answers |-> answers,
                        waited |-> 0, since |-> 0, resend |-> 1]

GateInit ==
    /\ gate = AllFull /\ quiet = REJECT_INTERVAL
    /\ phase \in 0 .. COOKIE_ROTATION - 1
    /\ server \in {"open", "full", "other"} /\ held = "no"
    /\ joiner = Connecting(COOKIE_ANSWER_BURST * ANSWER_BEATS)
    /\ flying = {Plain}
    /\ offer = "out" /\ wasted = FALSE

AtMost(n, cap) == IF n > cap THEN cap ELSE n
Less(n) == IF n = 0 THEN 0 ELSE n - 1

(* An offer is answered once, and an answer stands.                        *)
Noted(what) == offer' = IF offer = "out" THEN what ELSE offer

-----------------------------------------------------------------------------
(* version_reject and capacity_reject share their limits.                  *)
Rejects(msg, k, g) ==
    IF quiet >= REJECT_INTERVAL /\ g.rejects > 0
    THEN /\ gate' = [g EXCEPT !.rejects = @ - 1] /\ quiet' = 0
         /\ flying' = (flying \ {msg}) \cup {Answer(k)}
         /\ UNCHANGED <<held, offer>>
    ELSE /\ gate' = g /\ flying' = flying \ {msg}
         /\ Noted("spoilt")
         /\ UNCHANGED <<quiet, held>>

(* init_budget_take: neither bucket is charged when the other refuses.     *)
Affordable(g) == g.slot > 0 /\ g.init > 0
Read(g) == [g EXCEPT !.slot = @ - 1, !.init = @ - 1]

(* admit.  A refusal is silent.  An init sent again draws the cached       *)
(* response, a fresh one silence until the connection before it has been   *)
(* quiet; past the capacity check it is Members' business.                 *)
Admits(msg, g) ==
    \/ ~Affordable(g) /\ gate' = g /\ flying' = flying \ {msg}
       /\ (IF g.slot = 0 \/ gate.trigger = 0 THEN Noted("spoilt") ELSE UNCHANGED offer)
       /\ UNCHANGED <<quiet, held>>
    \/ /\ Affordable(g) /\ held = "before"             \* heard from within REJOIN_SILENCE_MS
       /\ gate' = Read(g) /\ flying' = flying \ {msg}
       /\ Noted("spoilt")
       /\ UNCHANGED <<quiet, held>>
    \/ Affordable(g) /\ server = "full" /\ held = "no" /\ Rejects(msg, "capacity", Read(g))
    \/ /\ Affordable(g) /\ (server = "open" \/ held # "no")
       /\ gate' = Read(g) /\ held' = "this"
       /\ flying' = (flying \ {msg}) \cup {Answer("resp")}
       /\ UNCHANGED <<quiet, offer>>

(* handle_datagram of a plain init: the trigger decides whether it is read *)
(* or challenged.                                                          *)
Spent(g) == [g EXCEPT !.trigger = Less(@)]

HandleInit ==
    /\ Plain \in flying
    /\ \/ server = "other" /\ Rejects(Plain, "version", gate)
       \/ /\ server # "other" /\ gate.trigger = 0
          /\ \/ flying' = (flying \ {Plain}) \cup {Challenge(0)} /\ UNCHANGED offer
             \/ flying' = flying \ {Plain} /\ Noted("spoilt")      \* challenge_budget is spent
          /\ UNCHANGED <<gate, quiet, held>>
       \/ server # "other" /\ gate.trigger > 0 /\ Admits(Plain, Spent(gate))
    /\ UNCHANGED <<phase, server, joiner, wasted>>

(* cookie_valid: this rotation's or the one before it.                     *)
CookieValid(c) == c < Stale

(* handle_datagram of a cookied one; a wrong version draws nothing.        *)
HandleCookied(c) ==
    /\ Cookied(c) \in flying
    /\ IF server # "other" /\ CookieValid(c)
       THEN Admits(Cookied(c), Spent(gate))
       ELSE gate' = Spent(gate) /\ flying' = flying \ {Cookied(c)} /\ UNCHANGED <<quiet, held, offer>>
    /\ UNCHANGED <<phase, server, joiner, wasted>>

(* The rest of the world: an init that is read, one its network's share    *)
(* does not cover, one from the client's own network, a reject to another  *)
(* network or to that one.                                                 *)
Crowd ==
    /\ \/ gate.init > 0 /\ gate' = [Spent(gate) EXCEPT !.init = @ - 1] /\ UNCHANGED quiet
       \/ gate.trigger > 0 /\ gate' = Spent(gate) /\ UNCHANGED quiet
       \/ Affordable(gate) /\ gate' = Read(Spent(gate)) /\ UNCHANGED quiet
       \/ gate.rejects > 0 /\ gate' = [gate EXCEPT !.rejects = @ - 1] /\ quiet' \in {quiet, 0}
    /\ UNCHANGED <<phase, server, held, joiner, flying, offer, wasted>>

-----------------------------------------------------------------------------
(* The client's handle_datagram.                                           *)
TakeResp ==
    /\ Answer("resp") \in flying
    /\ joiner' = IF joiner.state \in {"Connecting", "Rejected"}
                 THEN [joiner EXCEPT !.state = "Joined", !.full = FALSE] ELSE joiner
    /\ flying' = flying \ {Answer("resp")}
    /\ offer' = "answered"
    /\ UNCHANGED <<gate, quiet, phase, server, held, wasted>>

TakeVersion ==
    /\ Answer("version") \in flying
    /\ joiner' = IF joiner.state = "Connecting"
                 THEN [joiner EXCEPT !.state = "Rejected", !.since = 0, !.resend = REJECT_RETRY] ELSE joiner
    /\ flying' = flying \ {Answer("version")}
    /\ offer' = "answered"
    /\ UNCHANGED <<gate, quiet, phase, server, held, wasted>>

(* Acted on once per connection attempt.                                   *)
TakeCapacity ==
    /\ Answer("capacity") \in flying
    /\ joiner' = IF joiner.state = "Connecting" /\ ~joiner.full
                 THEN [joiner EXCEPT !.full = TRUE, !.since = 0, !.resend = REJECT_RETRY] ELSE joiner
    /\ flying' = flying \ {Answer("capacity")}
    /\ offer' = "answered"
    /\ UNCHANGED <<gate, quiet, phase, server, held, wasted>>

\* Fault: the cookie is kept for the next resend and not answered with at once.
AnswersLater(c) == {}
(* A new cookie is answered at once, both ways, while the allowance lasts. *)
Answers(c) == {Plain, Cookied(c)}

TakeChallenge(c) ==
    /\ Challenge(c) \in flying
    /\ IF joiner.state # "Connecting" \/ joiner.cookie = c
       THEN flying' = flying \ {Challenge(c)} /\ UNCHANGED <<joiner, offer>>
       ELSE IF joiner.answers < ANSWER_BEATS
       THEN flying' = flying \ {Challenge(c)} /\ Noted("spoilt") /\ UNCHANGED joiner
       ELSE /\ joiner' = [joiner EXCEPT !.cookie = c, !.answers = @ - ANSWER_BEATS]
            /\ flying' = (flying \ {Challenge(c)}) \cup Answers(c)
            /\ UNCHANGED offer
    /\ UNCHANGED <<gate, quiet, phase, server, held, wasted>>

Lose(msg) ==
    /\ msg \in flying
    /\ flying' = flying \ {msg}
    /\ Noted("spoilt")
    /\ UNCHANGED <<gate, quiet, phase, server, held, joiner, wasted>>

-----------------------------------------------------------------------------
(* What poll sends: a rejected client its plain init only.                 *)
Offered ==
    {Plain} \cup (IF joiner.state = "Connecting" /\ joiner.cookie # None THEN {Cookied(joiner.cookie)} ELSE {})

BackoffCap == IF joiner.state = "Rejected" \/ joiner.full THEN REJECT_RETRY_MAX ELSE INIT_RESEND_MAX
GivesUp == joiner.state = "Connecting" /\ ~joiner.full /\ joiner.waited + 1 >= CONNECTION_TIMEOUT
Due == joiner.state \in {"Connecting", "Rejected"} /\ ~GivesUp /\ joiner.since + 1 >= joiner.resend

(* poll, at the end of a beat.                                             *)
Polled ==
    [joiner EXCEPT !.state = IF GivesUp THEN "TimedOut" ELSE @,
                   !.answers = AtMost(@ + 1, COOKIE_ANSWER_BURST * ANSWER_BEATS),
                   !.waited = AtMost(@ + 1, CONNECTION_TIMEOUT),
                   !.since = IF Due THEN 0 ELSE AtMost(@ + 1, REJECT_RETRY_MAX),
                   !.resend = IF Due THEN AtMost(@ * 2, BackoffCap) ELSE @]

Refilled ==
    [trigger |-> AtMost(gate.trigger + TRIGGER_RATE, TRIGGER_BURST),
     init |-> AtMost(gate.init + INIT_RATE, INIT_BURST),
     slot |-> AtMost(gate.slot + INIT_SLOT_RATE, INIT_SLOT_BURST),
     rejects |-> AtMost(gate.rejects + REJECT_RATE, REJECT_BURST)]

Beat ==
    /\ flying = {} /\ phase < COOKIE_ROTATION /\ joiner.state # "Joined"
    /\ gate' = Refilled
    /\ quiet' = AtMost(quiet + 1, REJECT_INTERVAL)
    /\ phase' = phase + 1
    /\ joiner' = Polled
    /\ flying' = IF Due THEN Offered ELSE {}
    /\ offer' = IF Due /\ joiner.state = "Connecting" THEN "out" ELSE "none"
    /\ wasted' = (wasted \/ offer = "out")
    /\ UNCHANGED <<server, held>>

(* A rotation falls anywhere, in the middle of a round trip too.           *)
Rotated(c) == IF c = 0 THEN 1 ELSE IF c = None THEN None ELSE Stale

Rotate ==
    /\ phase = COOKIE_ROTATION /\ phase' = 0
    /\ joiner' = [joiner EXCEPT !.cookie = Rotated(@)]
    /\ flying' = {[m EXCEPT !.cookie = Rotated(@)] : m \in flying}
    /\ UNCHANGED <<gate, quiet, server, held, offer, wasted>>

(* reconnect, after a timeout: a fresh init, and the allowance survives.   *)
reconnect ==
    /\ joiner.state = "TimedOut" /\ flying = {}
    /\ joiner' = Connecting(joiner.answers)
    /\ held' = IF held = "no" THEN "no" ELSE "before"
    /\ flying' = {Plain} /\ offer' = "out"
    /\ UNCHANGED <<gate, quiet, phase, server, wasted>>

RoleFills ==
    /\ held = "no" /\ server \in {"open", "full"}
    /\ server' = IF server = "open" THEN "full" ELSE "open"
    /\ UNCHANGED <<gate, quiet, phase, held, joiner, flying, offer, wasted>>

(* The server's tick times out a member it never heard from.               *)
Lapse ==
    /\ held # "no" /\ held' = "no"
    /\ UNCHANGED <<gate, quiet, phase, server, joiner, flying, offer, wasted>>

(* The session is redeployed, perhaps on another version: a new core.      *)
Redeploy(v) ==
    /\ server' = v /\ held' = "no"
    /\ gate' = AllFull /\ quiet' = REJECT_INTERVAL
    /\ Noted("spoilt")
    /\ UNCHANGED <<phase, joiner, flying, wasted>>

GateNext ==
    \/ HandleInit
    \/ \E c \in 0 .. Stale : HandleCookied(c) \/ TakeChallenge(c)
    \/ Crowd
    \/ TakeResp \/ TakeVersion \/ TakeCapacity
    \/ \E msg \in flying : Lose(msg)
    \/ Beat \/ Rotate \/ reconnect \/ RoleFills \/ Lapse
    \/ \E v \in {"open", "other"} : Redeploy(v)

GateSpec == GateInit /\ [][GateNext]_gateVars

-----------------------------------------------------------------------------
(* Every offer of a connecting client, the first and each resend, gets it  *)
(* in or gets it the truth, whatever the crowd, the rotation and the room  *)
(* do, unless a datagram of it is lost, a reject or a challenge is         *)
(* rationed, the client's own network has spent its share, its connection  *)
(* before this one is still fresh, the session is redeployed, or the whole *)
(* budget is gone while cookies are on: server.rs, "so cookies come on     *)
(* before that budget starts dropping honest inits rather than after".     *)
NoOfferWasted == ~wasted

(* client.rs, poll: a rejected client's init "means a session that         *)
(* migrates or is redeployed onto a build this client can talk to is       *)
(* joined without anyone restarting anything": no challenge it is sent     *)
(* falls on deaf ears.                                                     *)
RejectedAnswers == \A c \in 0 .. Stale : Challenge(c) \in flying => joiner.state # "Rejected"
=============================================================================
