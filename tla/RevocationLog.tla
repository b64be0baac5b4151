--------------------------- MODULE RevocationLog ---------------------------
(***************************************************************************)
(* The durable half of revocation: the receive branch of Server::run and   *)
(* drain_events (crates/server/src/runtime.rs), the file of revocations.rs *)
(* and the crash and restart that file is for.                             *)
(*                                                                         *)
(* A line of the file is what parse_jti reads from it: one token, if it    *)
(* is exactly one whole entry, or none.  A file is only appended to and an *)
(* append that fails halfway leaves no newline behind, so the next entry   *)
(* goes on the same line.                                                  *)
(***************************************************************************)
EXTENDS Integers, Sequences

CONSTANTS
    Tokens,        \* the invites of the session (jti)
    MAX_ENTRIES,   \* lines the loader takes from one file, 4096
    MaxLines       \* bound: lines of the file

ASSUME RevocationLogAssumption == MAX_ENTRIES \in Nat /\ MaxLines \in 1 .. MAX_ENTRIES

VARIABLES
    revoked,   \* ServerCore::revoked
    phase,     \* where run() is: "select", "reply" (before send_to), "drain"
    reply,     \* the revocation the replies about to be sent acknowledge
    events,    \* TokenRevoked events not yet drained
    lines,     \* the file's finished lines
    tail,      \* what follows the last newline: no line, or one
    told,      \* history: revocations acknowledged to the host
    synced,    \* history: revocations whose append returned Ok
    merged,    \* history: those whose append found an unfinished line
    asked,     \* history: revocations the host sent
    unread     \* history: what the file named when the running server could not read it

fileVars == <<lines, tail>>
revokeVars == <<revoked, phase, reply, events, fileVars, told, synced, merged, asked, unread>>

RevokeInit ==
    /\ revoked = {}
    /\ phase = "select"
    /\ reply = {} /\ events = {}
    /\ lines = <<>> /\ tail = <<>>
    /\ told = {} /\ synced = {} /\ merged = {} /\ asked = {}
    /\ unread = {}

(* An entry written after an unfinished one makes a line of neither.       *)
OnTail(entry) == IF tail = <<>> THEN entry ELSE {}

(* Fault: the loader stops one line early.                                 *)
LoadOneLess ==
    LET text == lines \o tail
    IN  UNION {text[i] : i \in {j \in DOMAIN text : j < MAX_ENTRIES}}

(* load of a file that is missing or can be read: at most MAX_ENTRIES      *)
(* lines, an unterminated last one included.                               *)
Load ==
    LET text == lines \o tail
    IN  UNION {text[i] : i \in {j \in DOMAIN text : j <= MAX_ENTRIES}}

-----------------------------------------------------------------------------
(***************************************************************************)
(* handle_datagram of the host's Revoke: the set changes, an event is      *)
(* pushed the first time, and the datagrams to send carry the ack.         *)
(***************************************************************************)
HandleRevoke(jti) ==
    /\ phase = "select"
    /\ events' = IF jti \in revoked THEN {} ELSE {jti}
    /\ revoked' = revoked \cup {jti}
    /\ reply' = {jti}
    /\ asked' = asked \cup {jti}
    /\ phase' = "reply"
    /\ UNCHANGED <<fileVars, told, synced, merged, unread>>

(* The replies are sent before the events are drained.                     *)
SendReplies ==
    /\ phase = "reply"
    /\ told' = told \cup reply
    /\ reply' = {}
    /\ phase' = "drain"
    /\ UNCHANGED <<revoked, events, fileVars, synced, merged, asked, unread>>

(***************************************************************************)
(* drain_events.  append writes the entry and its newline and syncs; an    *)
(* error is logged, and the event is spent either way.                     *)
(***************************************************************************)
Written(jti) ==
    /\ Len(lines) < MaxLines
    /\ lines' = Append(lines, OnTail({jti}))
    /\ tail' = <<>>

Unfinished(entry) ==
    /\ Len(lines) < MaxLines
    /\ tail' = <<OnTail(entry)>>
    /\ UNCHANGED lines

(* open, write or sync may fail: nothing on disk, a cut entry, a whole one *)
(* without its newline, or all of it.                                      *)
FellShort(jti) ==
    \/ UNCHANGED fileVars
    \/ Unfinished({})
    \/ Unfinished({jti})
    \/ Written(jti)

Merged(jti) == merged' = IF tail = <<>> THEN merged ELSE merged \cup {jti}

append(jti) ==
    /\ Merged(jti)
    /\ \/ Written(jti) /\ synced' = synced \cup {jti}
       \/ FellShort(jti) /\ UNCHANGED synced

drain_events ==
    /\ phase = "drain"
    /\ \/ events = {} /\ UNCHANGED <<fileVars, synced, merged>>
       \/ \E jti \in events : append(jti)
    /\ events' = {}
    /\ phase' = "select"
    /\ UNCHANGED <<revoked, reply, told, asked, unread>>

(* A crash at any await or inside an append, and the unit's restart, which *)
(* loads the file and hands it to restore_revoked.  A file that is there   *)
(* and cannot be read is logged and taken for an empty one: the server     *)
(* serves on and its revoked invites work again.                           *)
Reboot ==
    /\ \/ revoked' = Load' /\ unread' = {}
       \/ revoked' = {} /\ unread' = Load'
    /\ phase' = "select"
    /\ reply' = {} /\ events' = {}
    /\ UNCHANGED <<told, synced, asked>>

CrashAndRestart == UNCHANGED <<fileVars, merged>> /\ Reboot

CrashInAppend ==
    /\ phase = "drain"
    /\ \E jti \in events : Merged(jti) /\ FellShort(jti)
    /\ Reboot

RevokeNext ==
    \/ \E jti \in Tokens : HandleRevoke(jti)
    \/ SendReplies
    \/ drain_events
    \/ CrashAndRestart
    \/ CrashInAppend

RevokeSpec == RevokeInit /\ [][RevokeNext]_revokeVars

-----------------------------------------------------------------------------
(* The core's set, the file and the run loop's place in its branch have    *)
(* the types of the source.                                                *)
RevokeTypeOK ==
    /\ revoked \subseteq Tokens /\ events \subseteq Tokens /\ reply \subseteq Tokens
    /\ told \subseteq Tokens /\ synced \subseteq Tokens /\ merged \subseteq Tokens /\ asked \subseteq Tokens
    /\ phase \in {"select", "reply", "drain"}
    /\ lines \in Seq(SUBSET Tokens)
    /\ tail \in Seq(SUBSET Tokens) /\ Len(tail) <= 1
    /\ unread \subseteq Tokens

(* A revocation whose append succeeded is in what every later start that   *)
(* can read the file reads back, whatever crashed or fell short since,     *)
(* unless the append before it left an unfinished line: "an append that    *)
(* fails halfway leaves a short final line the loader ignores", and the    *)
(* one entry that follows it there.                                        *)
SyncedIsLoaded == synced \ merged \subseteq Load

(* The file never revokes an invite the host did not: no merge of lines,   *)
(* cut or whole, reads as a token.                                         *)
LoadedWasAsked == Load \subseteq asked

(* A running server refuses every invite the file names, through crashes,  *)
(* failed appends and restarts, but those the file named already when this *)
(* server started and could not read it: what a restart would refuse is    *)
(* refused before it and after it.                                         *)
MemoryCoversFile == Load \subseteq revoked \cup unread

(* What a start that can read the file reads back is what was synced,      *)
(* nothing that was never asked for, and no more than the server that      *)
(* crashed refused or had failed to read; a start that cannot read it      *)
(* costs the file nothing.                                                 *)
FileKeepsFaith == SyncedIsLoaded /\ LoadedWasAsked /\ MemoryCoversFile

(* runtime.rs, drain_events: "a revocation the host has been told about    *)
(* must already be on disk, not waiting for a flush that a crash skips".   *)
(* What a start could not read is no part of the claim.                    *)
ToldIsRefused == told \subseteq revoked \cup unread
=============================================================================
