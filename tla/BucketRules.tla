---------------------------- MODULE BucketRules ----------------------------
(***************************************************************************)
(* The lifecycle rules of a bucket the host owns: each recorded session    *)
(* arms one of its own (verify_bucket, cli/src/host.rs; set_retention of   *)
(* S3 and GCS; the merges of cloud/src/retention.rs) by reading the whole  *)
(* list and writing the whole list back, while other sessions do the same  *)
(* and the host edits rules of their own.                                  *)
(*                                                                         *)
(* A rule is named by the session or the host's purpose it serves; a       *)
(* session arms once, under an id of its own, so the days never change.    *)
(***************************************************************************)
EXTENDS Integers, SequencesExt, Tally

CONSTANTS
    Armed,          \* sessions that record into this bucket
    OwnRules,       \* rules the host may set by hand
    MAX_RULES,      \* of the provider
    PUT_ATTEMPTS    \* MAX_ATTEMPTS of http.rs

ASSUME RulesAssumption ==
    /\ Armed \cap OwnRules = {} /\ IsFiniteSet(OwnRules)
    /\ MAX_RULES \in Nat \ {0} /\ PUT_ATTEMPTS \in Nat \ {0}

VARIABLES
    api,        \* "s3" (Spaces too) or "gcs"
    forever,    \* the sessions that chose to keep their takes
    rules,      \* the bucket's list, oldest first
    arming,     \* [Armed -> [pc, list, tries]]; list: what the call will write
    late,       \* writes that timed out and may still be carried out
    own,        \* the host's own rules, as the host left them
    exposed     \* history: rules that a known race or the cap may have cost

ruleVars == <<api, forever, rules, arming, late, own, exposed>>

RulesInit ==
    /\ api \in {"s3", "gcs"} /\ forever \in SUBSET Armed
    /\ own \in SUBSET OwnRules /\ rules \in SetToSeqs(own) /\ Len(rules) <= MAX_RULES
    /\ arming = [s \in Armed |-> [pc |-> "idle", list |-> <<>>, tries |-> 0]]
    /\ late = {} /\ exposed = {}

At(s, pc) == arming[s].pc = pc
Turns(s, pc) == arming' = [arming EXCEPT ![s].pc = pc]
-----------------------------------------------------------------------------
IsOurs(r) == r \in Armed

(* On S3 a kept session still has a rule, against failed uploads.          *)
HasRule(s) == api = "s3" \/ s \notin forever

Kept(list, s) == Sifted(list, ToSet(list) \ {s})
Full(list, s) == HasRule(s) /\ Len(Kept(list, s)) >= MAX_RULES

(* The rule that makes room: ours, the oldest; at most one is needed,      *)
(* since the provider's list is never over its limit.                      *)
Evicted(list, s) ==
    IF Full(list, s) THEN LET ours == Sifted(Kept(list, s), {r \in ToSet(list) : IsOurs(r)})
                          IN  IF ours = <<>> THEN {} ELSE {Head(ours)}
                     ELSE {}

(* merge_s3_lifecycle and merge_gcs_lifecycle: the document to write, and  *)
(* none when the list is full of rules that are not ours.                  *)
Merged(list, s) ==
    LET room == Sifted(Kept(list, s), ToSet(list) \ Evicted(list, s))
    IN  IF Full(list, s) /\ Evicted(list, s) = {} THEN {}
        ELSE {room \o (IF HasRule(s) THEN <<s>> ELSE <<>>)}

-----------------------------------------------------------------------------
(* probe_prefix: a refused write or delete stops the launch.               *)
Probe(s) ==
    /\ At(s, "idle") /\ (Turns(s, "probed") \/ Turns(s, "failed"))
    /\ UNCHANGED <<api, forever, rules, late, own, exposed>>

(* set_retention reads the list and merges.                                *)
ReadList(s) ==
    /\ At(s, "probed")
    /\ IF Merged(rules, s) = {}
       THEN Turns(s, "manual") /\ UNCHANGED exposed
       ELSE /\ arming' = [arming EXCEPT ![s] = [pc |-> "writing", tries |-> 0,
                                                list |-> CHOOSE l \in Merged(rules, s) : TRUE]]
            /\ exposed' = exposed \cup Evicted(rules, s)
    /\ UNCHANGED <<api, forever, rules, late, own>>

\* Fault: a list that may not be read is taken for an empty one.
Unreadable(s) ==
    arming' = [arming EXCEPT ![s] = [pc |-> "writing", tries |-> 0, list |-> <<s>>]]
(* The key may not read the list: nothing is written, and that is said.    *)
Unread(s) == Turns(s, "manual")

ReadRefused(s) ==
    /\ At(s, "probed") /\ (Unread(s) \/ Turns(s, "failed"))
    /\ UNCHANGED <<api, forever, rules, late, own, exposed>>

(* A list is out: it was read, and has yet to be written or may be again.  *)
Out(s) == At(s, "writing") \/ \E w \in late : w.by = s

(* A write replaces the whole list.  What it adds, another list that is    *)
(* out does not carry.                                                     *)
Lands(s, list) ==
    /\ rules' = list
    /\ exposed' = IF \E t \in Armed \ {s} : Out(t)
                  THEN exposed \cup (ToSet(list) \ ToSet(rules)) ELSE exposed

Answered(s) ==
    /\ At(s, "writing") /\ Lands(s, arming[s].list) /\ Turns(s, "enforced")
    /\ UNCHANGED <<api, forever, late, own>>

(* The write may have been carried out, may be later, or never.            *)
MayLand(s) ==
    \/ Lands(s, arming[s].list) /\ UNCHANGED late
    \/ late' = late \cup {[by |-> s, list |-> arming[s].list]} /\ UNCHANGED <<rules, exposed>>
    \/ UNCHANGED <<rules, late, exposed>>

PutAgain(s) ==
    /\ At(s, "writing") /\ arming[s].tries + 1 < PUT_ATTEMPTS
    /\ MayLand(s) /\ arming' = [arming EXCEPT ![s].tries = @ + 1]
    /\ UNCHANGED <<api, forever, own>>

PutFails(s) ==
    /\ At(s, "writing") /\ MayLand(s) /\ Turns(s, "failed")
    /\ UNCHANGED <<api, forever, own>>

LandsLate ==
    /\ \E w \in late : Lands(w.by, w.list) /\ late' = late \ {w}
    /\ UNCHANGED <<api, forever, arming, own>>

(* The host, in the provider's console.                                    *)
HostSets(r) ==
    /\ r \notin ToSet(rules) /\ r \notin own /\ Len(rules) < MAX_RULES
    /\ rules' = Append(rules, r) /\ own' = own \cup {r}
    /\ exposed' = IF \E t \in Armed : Out(t) THEN exposed \cup {r} ELSE exposed
    /\ UNCHANGED <<api, forever, arming, late>>

HostDrops(r) ==
    /\ r \in own
    /\ rules' = Kept(rules, r) /\ own' = own \ {r}
    /\ UNCHANGED <<api, forever, arming, late, exposed>>

RulesNext ==
    \/ \E s \in Armed : Probe(s) \/ ReadList(s) \/ ReadRefused(s)
                        \/ Answered(s) \/ PutAgain(s) \/ PutFails(s)
    \/ LandsLate
    \/ \E r \in OwnRules : HostSets(r) \/ HostDrops(r)

RulesSpec == RulesInit /\ [][RulesNext]_ruleVars
-----------------------------------------------------------------------------
(* retention.rs, "An unenforceable retention choice must never be reported *)
(* as enforced" and "keep every rule that is not this session's": a rule   *)
(* that was promised, or that the host set, is in the bucket whatever was  *)
(* refused, retried or carried out late, and is lost only to the race the  *)
(* module owns up to (it came while another list was out) or, if it is one *)
(* of ours, to the cap.                                                    *)
PromisedRulesStand ==
    /\ \A s \in Armed : At(s, "enforced") /\ HasRule(s) => s \in ToSet(rules) \cup exposed
    /\ own \subseteq ToSet(rules) \cup exposed
    /\ Len(rules) <= MAX_RULES
=============================================================================
