---------------------------- MODULE ServerProofs ----------------------------
(***************************************************************************)
(* What the server process owes its host beside the room, for every bound  *)
(* on the file, the queues and the requests: the file of revocations keeps *)
(* faith, the broadcast feed keeps time and its rosters, the upload of a   *)
(* take leaves all of it or nothing, the host's copy of the log holds no   *)
(* line the log did not, in its order, a recording keeps true time, a row  *)
(* of the broadcast says what its child does, and a member pays for the    *)
(* chunks of a picture only where a queue was full or the member went back.*)
(***************************************************************************)
EXTENDS RevocationLog, MixFeed, TakeUpload, ServerLog, Recorder, StreamPipeline, AvatarFanout, DataLemmas, FiniteSetTheorems, TLAPS

-----------------------------------------------------------------------------
(* Every entry of some lines, whatever the loader would take of them.      *)
Entries(text) == UNION {text[i] : i \in DOMAIN text}

(* The file never outgrows what the loader takes; the run loop only drains *)
(* events the core has taken in; and what the bound on the loader would    *)
(* cut off, or a merge would lose, is never what an append vouched for: a  *)
(* synced entry is on a finished line.  What the core does not refuse of   *)
(* the file was there before it started and could not be read.             *)
RevokeIInv ==
    /\ RevokeTypeOK
    /\ Len(lines) + Len(tail) <= MaxLines
    /\ events \subseteq revoked /\ revoked \subseteq asked
    /\ synced \ merged \subseteq Entries(lines)
    /\ Entries(lines) \cup Entries(tail) \subseteq asked
    /\ Entries(lines) \cup Entries(tail) \subseteq revoked \cup unread

(* While the file fits, the loader reads all of it, its last line too.     *)
LEMMA LoadReadsAll ==
  ASSUME NEW ln \in Seq(SUBSET Tokens), NEW tl \in Seq(SUBSET Tokens), Len(ln) + Len(tl) <= MAX_ENTRIES
  PROVE  UNION {(ln \o tl)[i] : i \in {j \in DOMAIN (ln \o tl) : j <= MAX_ENTRIES}}
           = Entries(ln) \cup Entries(tl)
<1> USE RevocationLogAssumption DEF Entries
<1>1. /\ ln \o tl \in Seq(SUBSET Tokens)
      /\ DOMAIN (ln \o tl) = 1 .. (Len(ln) + Len(tl))
      /\ \A i \in 1 .. Len(ln) : (ln \o tl)[i] = ln[i]
      /\ \A i \in 1 .. Len(tl) : (ln \o tl)[Len(ln) + i] = tl[i]
  OBVIOUS
<1>2. DOMAIN ln = 1 .. Len(ln) /\ DOMAIN tl = 1 .. Len(tl) /\ Len(ln) \in Nat /\ Len(tl) \in Nat
  OBVIOUS
<1>3. {j \in DOMAIN (ln \o tl) : j <= MAX_ENTRIES} = DOMAIN (ln \o tl)
  BY <1>1, <1>2
<1>4. ASSUME NEW t, NEW i \in DOMAIN (ln \o tl), t \in (ln \o tl)[i]
      PROVE  t \in Entries(ln) \cup Entries(tl)
  <2>1. CASE i \in 1 .. Len(ln)
    BY <2>1, <1>1, <1>2, <1>4
  <2>2. CASE i \notin 1 .. Len(ln)
    <3>1. i - Len(ln) \in 1 .. Len(tl) /\ Len(ln) + (i - Len(ln)) = i
      BY <2>2, <1>1, <1>2, <1>4
    <3>2. t \in tl[i - Len(ln)]
      BY <3>1, <1>1, <1>4
    <3> QED BY <3>1, <3>2, <1>2
  <2> QED BY <2>1, <2>2
<1>5. ASSUME NEW t, t \in Entries(ln) \cup Entries(tl)
      PROVE  \E i \in DOMAIN (ln \o tl) : t \in (ln \o tl)[i]
  <2>1. CASE t \in Entries(ln)
    <3>1. PICK i \in 1 .. Len(ln) : t \in ln[i]
      BY <2>1, <1>2
    <3>2. i \in 1 .. (Len(ln) + Len(tl)) /\ t \in (ln \o tl)[i]
      BY <3>1, <1>1, <1>2
    <3> QED BY <3>2, <1>1
  <2>2. CASE t \in Entries(tl)
    <3>1. PICK i \in 1 .. Len(tl) : t \in tl[i]
      BY <2>2, <1>2
    <3>2. Len(ln) + i \in 1 .. (Len(ln) + Len(tl)) /\ t \in (ln \o tl)[Len(ln) + i]
      BY <3>1, <1>1, <1>2
    <3> QED BY <3>2, <1>1
  <2> QED BY <2>1, <2>2, <1>5
<1> QED BY <1>3, <1>4, <1>5

(* Appending one line adds that line's entries.                            *)
LEMMA AppendEntries ==
  ASSUME NEW text \in Seq(SUBSET Tokens), NEW l \in SUBSET Tokens
  PROVE  /\ Append(text, l) \in Seq(SUBSET Tokens) /\ Len(Append(text, l)) = Len(text) + 1
         /\ Entries(Append(text, l)) = Entries(text) \cup l
<1>1. /\ Append(text, l) \in Seq(SUBSET Tokens) /\ Len(Append(text, l)) = Len(text) + 1
      /\ DOMAIN Append(text, l) = 1 .. (Len(text) + 1) /\ DOMAIN text = 1 .. Len(text) /\ Len(text) \in Nat
      /\ \A i \in 1 .. Len(text) : Append(text, l)[i] = text[i]
      /\ Append(text, l)[Len(text) + 1] = l
  OBVIOUS
<1>2. ASSUME NEW t, t \in Entries(Append(text, l)) PROVE t \in Entries(text) \cup l
  <2>1. PICK i \in 1 .. (Len(text) + 1) : t \in Append(text, l)[i]
    BY <1>1, <1>2 DEF Entries
  <2>2. CASE i = Len(text) + 1
    BY <2>1, <2>2, <1>1
  <2>3. CASE i \in 1 .. Len(text)
    BY <2>1, <2>3, <1>1 DEF Entries
  <2> QED BY <2>1, <2>2, <2>3, <1>1
<1>3. ASSUME NEW t, t \in Entries(text) \cup l PROVE t \in Entries(Append(text, l))
  <2>1. CASE t \in l
    <3>1. Len(text) + 1 \in DOMAIN Append(text, l)
      BY <1>1
    <3> QED BY <2>1, <3>1, <1>1 DEF Entries
  <2>2. CASE t \in Entries(text)
    <3>1. PICK i \in 1 .. Len(text) : t \in text[i]
      BY <2>2, <1>1 DEF Entries
    <3>2. i \in DOMAIN Append(text, l)
      BY <1>1
    <3> QED BY <3>1, <3>2, <1>1 DEF Entries
  <2> QED BY <2>1, <2>2, <1>3
<1> QED BY <1>1, <1>2, <1>3

(* What the file is after an append: it still fits, its finished lines     *)
(* keep their entries, and it names only what was asked for and what the   *)
(* core refuses or could not read when it started.                         *)
FileGrows ==
    /\ lines' \in Seq(SUBSET Tokens) /\ tail' \in Seq(SUBSET Tokens) /\ Len(tail') <= 1
    /\ Len(lines') + Len(tail') <= MaxLines
    /\ Entries(lines) \subseteq Entries(lines')
    /\ Entries(lines') \cup Entries(tail') \subseteq asked
    /\ Entries(lines') \cup Entries(tail') \subseteq revoked \cup unread

(* Whether it succeeds or falls short, and whatever line it lands on.      *)
LEMMA AppendKeepsFaith ==
  ASSUME RevokeIInv, NEW jti \in events, Written(jti) \/ FellShort(jti)
  PROVE  FileGrows /\ (Written(jti) /\ tail = <<>> => jti \in Entries(lines'))
<1> USE RevocationLogAssumption DEF RevokeIInv, RevokeTypeOK
<1>0. jti \in Tokens /\ jti \in revoked /\ {jti} \in SUBSET Tokens /\ {} \in SUBSET Tokens
  OBVIOUS
<1>1. CASE Written(jti)
  <2>1. lines' = Append(lines, OnTail({jti})) /\ tail' = <<>> /\ Len(lines) < MaxLines
    BY <1>1 DEF Written
  <2>2. /\ OnTail({jti}) \in SUBSET Tokens /\ OnTail({jti}) \subseteq revoked
        /\ tail = <<>> => OnTail({jti}) = {jti}
    BY <1>0 DEF OnTail
  <2>3. /\ lines' \in Seq(SUBSET Tokens) /\ Len(lines') = Len(lines) + 1
        /\ Entries(lines') = Entries(lines) \cup OnTail({jti})
    <3> HIDE DEF RevokeIInv, RevokeTypeOK
    <3>1. lines \in Seq(SUBSET Tokens)
      BY DEF RevokeIInv, RevokeTypeOK
    <3>2. /\ Append(lines, OnTail({jti})) \in Seq(SUBSET Tokens)
          /\ Len(Append(lines, OnTail({jti}))) = Len(lines) + 1
          /\ Entries(Append(lines, OnTail({jti}))) = Entries(lines) \cup OnTail({jti})
      <4> DEFINE l == OnTail({jti})
      <4>1. l \in SUBSET Tokens
        BY <2>2
      <4> HIDE DEF l
      <4>2. /\ Append(lines, l) \in Seq(SUBSET Tokens) /\ Len(Append(lines, l)) = Len(lines) + 1
            /\ Entries(Append(lines, l)) = Entries(lines) \cup l
        BY <3>1, <4>1, AppendEntries
      <4> QED BY <4>2 DEF l
    <3> QED BY <2>1, <3>2
  <2>4. tail' \in Seq(SUBSET Tokens) /\ Len(tail') = 0 /\ Entries(tail') = {}
    BY <2>1 DEF Entries
  <2>5. Len(lines') + Len(tail') <= MaxLines
    BY <2>1, <2>3, <2>4
  <2>6. FileGrows
    <3>1. /\ Entries(lines) \cup OnTail({jti}) \subseteq asked
          /\ Entries(lines) \cup OnTail({jti}) \subseteq revoked \cup unread
      BY <2>2
    <3> HIDE DEF RevokeTypeOK, RevokeIInv
    <3>2. Entries(lines) \subseteq Entries(lines')
      BY <2>3
    <3>3. /\ Entries(lines') \cup Entries(tail') \subseteq asked
          /\ Entries(lines') \cup Entries(tail') \subseteq revoked \cup unread
      BY <2>3, <2>4, <3>1
    <3>4. Len(tail') <= 1
      BY <2>4
    <3> QED BY <2>3, <2>4, <2>5, <3>2, <3>3, <3>4 DEF FileGrows
  <2> QED BY <2>2, <2>3, <2>6
<1>2. ASSUME NEW entry \in SUBSET Tokens, entry \subseteq revoked, Unfinished(entry)
      PROVE  FileGrows
  <2>1. lines' = lines /\ tail' = <<OnTail(entry)>> /\ Len(lines) < MaxLines
    BY <1>2 DEF Unfinished
  <2>2. OnTail(entry) \in SUBSET Tokens /\ OnTail(entry) \subseteq revoked
    BY <1>2 DEF OnTail
  <2>3. tail' \in Seq(SUBSET Tokens) /\ Len(tail') = 1 /\ Entries(tail') = OnTail(entry)
    BY <2>1, <2>2 DEF Entries
  <2> QED BY <2>1, <2>2, <2>3 DEF FileGrows
<1>3. ASSUME UNCHANGED fileVars PROVE FileGrows
  BY <1>3 DEF fileVars, FileGrows
<1>4. CASE ~Written(jti)
  BY <1>0, <1>2, <1>3, <1>4 DEF FellShort
<1> QED BY <1>1, <1>4

LEMMA RevokeInitial == RevokeInit => RevokeIInv
<1> SUFFICES ASSUME RevokeInit PROVE RevokeIInv
  OBVIOUS
<1>1. <<>> \in Seq(SUBSET Tokens) /\ Len(<<>>) = 0 /\ Entries(<<>>) = {}
  BY DEF Entries
<1>2. lines = <<>> /\ tail = <<>> /\ synced = {} /\ merged = {} /\ events = {} /\ revoked = {}
  BY DEF RevokeInit
<1>3. Entries(lines) = {} /\ Entries(tail) = {} /\ Len(lines) + Len(tail) <= MaxLines
  BY <1>1, <1>2, RevocationLogAssumption
<1>4. RevokeTypeOK
  <2>1. unread = {} /\ phase \in {"select", "reply", "drain"}
    BY DEF RevokeInit
  <2>2. reply = {} /\ told = {} /\ asked = {} /\ Len(tail) <= 1
    BY <1>1, <1>2 DEF RevokeInit
  <2> QED BY <1>1, <1>2, <2>1, <2>2 DEF RevokeTypeOK
<1> QED BY <1>2, <1>3, <1>4 DEF RevokeIInv

LEMMA RevokeStep == RevokeIInv /\ [RevokeNext]_revokeVars => RevokeIInv'
<1> SUFFICES ASSUME RevokeIInv, [RevokeNext]_revokeVars PROVE RevokeIInv'
  OBVIOUS
<1> USE RevocationLogAssumption
<1>1. ASSUME NEW jti \in Tokens, HandleRevoke(jti) PROVE RevokeIInv'
  BY <1>1 DEF HandleRevoke, fileVars, RevokeIInv, RevokeTypeOK, Entries
<1>2. CASE SendReplies
  BY <1>2 DEF SendReplies, fileVars, RevokeIInv, RevokeTypeOK, Entries
<1>3. CASE drain_events
  <2>1. CASE events = {} /\ UNCHANGED <<fileVars, synced, merged>>
    BY <1>3, <2>1 DEF drain_events, fileVars, RevokeIInv, RevokeTypeOK, Entries
  <2>2. ASSUME NEW jti \in events, append(jti) PROVE RevokeIInv'
    <3>1. Written(jti) \/ FellShort(jti)
      BY <2>2 DEF append
    <3>2. FileGrows /\ (Written(jti) /\ tail = <<>> => jti \in Entries(lines'))
      BY <3>1, AppendKeepsFaith
    <3>3. /\ merged' = IF tail = <<>> THEN merged ELSE merged \cup {jti}
          /\ synced' = synced \/ (Written(jti) /\ synced' = synced \cup {jti})
      BY <2>2 DEF append, Merged
    <3>4. events' = {} /\ phase' = "select" /\ revoked' = revoked /\ reply' = reply /\ told' = told
          /\ asked' = asked /\ unread' = unread
      BY <1>3 DEF drain_events
    <3>5. synced' \ merged' \subseteq Entries(lines')
      BY <3>2, <3>3 DEF RevokeIInv, FileGrows
    <3>6. RevokeTypeOK'
      BY <3>2, <3>3, <3>4 DEF RevokeIInv, RevokeTypeOK, FileGrows
    <3>7. Entries(lines)' = Entries(lines') /\ Entries(tail)' = Entries(tail')
      BY DEF Entries
    <3> QED BY <3>2, <3>4, <3>5, <3>6, <3>7 DEF RevokeIInv, FileGrows
  <2> QED BY <1>3, <2>1, <2>2 DEF drain_events
<1>4. ASSUME FileGrows, merged \subseteq merged', merged' \subseteq Tokens, Reboot PROVE RevokeIInv'
  <2>1. /\ (revoked' = Load' /\ unread' = {}) \/ (revoked' = {} /\ unread' = Load')
        /\ events' = {} /\ reply' = {} /\ phase' = "select"
        /\ told' = told /\ synced' = synced /\ asked' = asked
    BY <1>4 DEF Reboot
  <2>2. Entries(lines)' = Entries(lines') /\ Entries(tail)' = Entries(tail')
    BY DEF Entries
  <2>3. Len(lines') + Len(tail') <= MAX_ENTRIES
    BY <1>4 DEF FileGrows
  <2>4. Load' = Entries(lines') \cup Entries(tail')
    BY <1>4, <2>3, LoadReadsAll DEF Load, FileGrows
  <2>5. synced' \ merged' \subseteq Entries(lines')
    BY <1>4, <2>1 DEF RevokeIInv, FileGrows
  <2>6. revoked' \subseteq asked /\ revoked' \cup unread' = Entries(lines') \cup Entries(tail')
    BY <1>4, <2>1, <2>4 DEF FileGrows
  <2>7. RevokeTypeOK'
    BY <1>4, <2>1, <2>6 DEF RevokeIInv, RevokeTypeOK, FileGrows
  <2> QED BY <1>4, <2>1, <2>2, <2>4, <2>5, <2>6, <2>7 DEF RevokeIInv, FileGrows
<1>5. CASE CrashAndRestart
  <2>1. FileGrows
    BY <1>5 DEF CrashAndRestart, FileGrows, fileVars, RevokeIInv, RevokeTypeOK
  <2> QED BY <1>4, <1>5, <2>1 DEF CrashAndRestart, RevokeIInv, RevokeTypeOK
<1>6. CASE CrashInAppend
  <2>1. PICK jti \in events : Merged(jti) /\ FellShort(jti)
    BY <1>6 DEF CrashInAppend
  <2>2. FileGrows
    BY <2>1, AppendKeepsFaith
  <2>3. merged \subseteq merged' /\ merged' \subseteq Tokens
    BY <2>1 DEF Merged, RevokeIInv, RevokeTypeOK
  <2> QED BY <1>4, <1>6, <2>2, <2>3 DEF CrashInAppend
<1>7. CASE UNCHANGED revokeVars
  BY <1>7 DEF revokeVars, fileVars, RevokeIInv, RevokeTypeOK, Entries
<1> QED BY <1>1, <1>2, <1>3, <1>5, <1>6, <1>7 DEF RevokeNext

(* The core's set, the run loop's place and the file keep their types.     *)
THEOREM RevokeTypeCorrect == RevokeSpec => []RevokeTypeOK
<1>1. RevokeIInv => RevokeTypeOK
  BY DEF RevokeIInv
<1> QED BY <1>1, RevokeInitial, RevokeStep, PTL DEF RevokeSpec

(* revocations.rs: however many appends fall short, lines merge and        *)
(* crashes cut in, a later start that can read the file reads back every   *)
(* revocation whose append returned Ok on a fresh line, none the host      *)
(* never sent, and none the server that crashed did not refuse or had      *)
(* failed to read.                                                         *)
THEOREM FileFaith == RevokeSpec => []FileKeepsFaith
<1>1. RevokeIInv => FileKeepsFaith
  <2> SUFFICES ASSUME RevokeIInv PROVE FileKeepsFaith
    OBVIOUS
  <2>1. Len(lines) + Len(tail) <= MAX_ENTRIES
    BY RevocationLogAssumption DEF RevokeIInv, RevokeTypeOK
  <2>2. Load = Entries(lines) \cup Entries(tail)
    BY <2>1, LoadReadsAll DEF Load, RevokeIInv, RevokeTypeOK
  <2> QED BY <2>2 DEF RevokeIInv, FileKeepsFaith, SyncedIsLoaded, LoadedWasAsked, MemoryCoversFile
<1> QED BY <1>1, RevokeInitial, RevokeStep, PTL DEF RevokeSpec

-----------------------------------------------------------------------------
(* The run loop and the broadcast thread it feeds.                         *)
FeedKinds == {"tick", "roster", "start", "stop", "beat", "shutdown"}
FeedMsgs == [kind : FeedKinds, silence : Nat, epoch : Nat]

FeedTypeOK ==
    /\ task \in {"select", "roster", "tick", "beat", "op", "drop", "join", "over"}
    /\ sending \in {"start", "stop"}
    /\ channel \in Seq(FeedMsgs) /\ owed \in Nat /\ flag \in BOOLEAN
    /\ epoch \in Nat /\ fedEpoch \in Nat /\ mixed \in Nat /\ mismatch \in BOOLEAN
    /\ thread \in [started : BOOLEAN, roster : Nat, pushed : Nat, ran : BOOLEAN]

\* The roster a thread at roster r has installed when it comes to message n of q.
InForce(q, r, n, e) ==
    \/ \E j \in 1 .. n - 1 : /\ q[j].kind = "roster" /\ q[j].epoch = e
                            /\ \A k \in j + 1 .. n - 1 : q[k].kind # "roster"
    \/ r = e /\ \A k \in 1 .. n - 1 : q[k].kind # "roster"

(* Every tick on its way meets its own roster, the next one offered will   *)
(* meet the roster fed last, and a tick is offered only once that is the   *)
(* roster of the room.                                                     *)
RostersLead ==
    /\ \A n \in 1 .. Len(channel) :
          channel[n].kind = "tick" => InForce(channel, thread.roster, n, channel[n].epoch)
    /\ InForce(channel, thread.roster, Len(channel) + 1, fedEpoch)
    /\ task = "tick" => epoch = fedEpoch

FeedIInv == FeedTypeOK /\ KeepsTime /\ RostersLead /\ LevelsMatchRoster

(* A message put at the end of the channel leaves those before it under    *)
(* the roster they were under, and is itself the roster of the next one.   *)
LEMMA AppendUnder ==
  ASSUME NEW q \in Seq(FeedMsgs), NEW m \in FeedMsgs, NEW r \in Nat
  PROVE  /\ \A n \in 1 .. Len(q) + 1, e \in Nat : InForce(q, r, n, e) => InForce(Append(q, m), r, n, e)
         /\ \A e \in Nat : /\ m.kind # "roster" /\ InForce(q, r, Len(q) + 1, e)
                           => InForce(Append(q, m), r, Len(q) + 2, e)
         /\ m.kind = "roster" => InForce(Append(q, m), r, Len(q) + 2, m.epoch)
<1> DEFINE a == Append(q, m)
           L == Len(q)
<1>1. L \in Nat /\ a[L + 1] = m /\ \A i \in 1 .. L : a[i] = q[i]
  OBVIOUS
<1> HIDE DEF a, L
<1>2. ASSUME NEW n \in 1 .. L + 1, NEW e \in Nat, InForce(q, r, n, e)
      PROVE  InForce(a, r, n, e)
  <2>1. \A i \in 1 .. n - 1 : a[i] = q[i]
    BY <1>1
  <2> QED BY <2>1, <1>1, <1>2 DEF InForce
<1>3. ASSUME NEW e \in Nat, m.kind # "roster", InForce(q, r, L + 1, e)
      PROVE  InForce(a, r, L + 2, e)
  <2>1. CASE r = e /\ \A k \in 1 .. L : q[k].kind # "roster"
    <3>1. \A k \in 1 .. (L + 2) - 1 : k \in 1 .. L \/ k = L + 1
      BY <1>1
    <3>2. \A k \in 1 .. (L + 2) - 1 : a[k].kind # "roster"
      BY <1>1, <1>3, <2>1, <3>1
    <3> QED BY <2>1, <3>2 DEF InForce
  <2>2. ASSUME NEW j \in 1 .. L, q[j].kind = "roster", q[j].epoch = e,
               \A k \in j + 1 .. L : q[k].kind # "roster"
        PROVE  InForce(a, r, L + 2, e)
    <3>1. a[j].kind = "roster" /\ a[j].epoch = e
      BY <1>1, <2>2
    <3>2. ASSUME NEW k \in j + 1 .. L + 1
          PROVE  a[k].kind # "roster"
      <4>1. CASE k = L + 1
        BY <1>1, <1>3, <4>1
      <4>2. CASE k # L + 1
        <5>1. k \in j + 1 .. L /\ k \in 1 .. L
          BY <1>1, <4>2
        <5> QED BY <1>1, <2>2, <5>1
      <4> QED BY <4>1, <4>2
    <3>3. j \in 1 .. (L + 2) - 1 /\ (L + 2) - 1 = L + 1
      BY <1>1
    <3> QED BY <3>1, <3>2, <3>3 DEF InForce
  <2> QED BY <1>1, <1>3, <2>1, <2>2 DEF InForce
<1>4. m.kind = "roster" => InForce(a, r, L + 2, m.epoch)
  <2>1. (L + 2) - 1 = L + 1 /\ L + 1 \in 1 .. L + 1 /\ (L + 1) + 1 .. L + 1 = {}
    BY <1>1
  <2> QED BY <1>1, <2>1 DEF InForce
<1> QED BY <1>2, <1>3, <1>4 DEF a, L

(* Taking the first message leaves every other under its roster.           *)
LEMMA TailUnder ==
  ASSUME NEW q \in Seq(FeedMsgs), q # <<>>, NEW r \in Nat, NEW n \in 1 .. Len(q), NEW e \in Nat,
         InForce(q, r, n + 1, e)
  PROVE  InForce(Tail(q), IF Head(q).kind = "roster" THEN Head(q).epoch ELSE r, n, e)
<1> DEFINE t == Tail(q)
           L == Len(q)
           h == Head(q)
           s == IF h.kind = "roster" THEN h.epoch ELSE r
<1>1. L \in Nat /\ n \in 1 .. L /\ q[1] = h /\ Len(t) = L - 1 /\ \A i \in 1 .. L - 1 : t[i] = q[i + 1]
  BY HeadTailProperties
<1>2. InForce(q, r, n + 1, e)
  OBVIOUS
<1> HIDE DEF t, L, h
<1>3. (n + 1) - 1 = n /\ n \in Nat /\ n >= 1
  BY <1>1
<1>4. ASSUME r = e, \A k \in 1 .. n : q[k].kind # "roster"
      PROVE  InForce(t, s, n, e)
  <2>1. s = e
    BY <1>1, <1>3, <1>4
  <2>2. ASSUME NEW k \in 1 .. n - 1
        PROVE  t[k].kind # "roster"
    <3>1. k \in 1 .. L - 1 /\ k + 1 \in 1 .. n
      BY <1>1
    <3> QED BY <1>1, <1>4, <3>1
  <2> QED BY <2>1, <2>2 DEF InForce
<1>5. ASSUME NEW j \in 1 .. n, q[j].kind = "roster", q[j].epoch = e,
             \A k \in j + 1 .. n : q[k].kind # "roster"
      PROVE  InForce(t, s, n, e)
  <2>1. CASE j = 1
    <3>1. s = e
      BY <1>1, <1>5, <2>1
    <3>2. ASSUME NEW k \in 1 .. n - 1
          PROVE  t[k].kind # "roster"
      <4>1. k \in 1 .. L - 1 /\ k + 1 \in j + 1 .. n
        BY <1>1, <2>1
      <4> QED BY <1>1, <1>5, <4>1
    <3> QED BY <3>1, <3>2 DEF InForce
  <2>2. CASE j # 1
    <3>1. j - 1 \in 1 .. n - 1 /\ t[j - 1] = q[j]
      BY <1>1, <2>2
    <3>2. ASSUME NEW k \in (j - 1) + 1 .. n - 1
          PROVE  t[k].kind # "roster"
      <4>1. k \in 1 .. L - 1 /\ k + 1 \in j + 1 .. n
        BY <1>1
      <4> QED BY <1>1, <1>5, <4>1
    <3> QED BY <3>1, <3>2, <1>5 DEF InForce
  <2> QED BY <2>1, <2>2
<1>6. \/ \E j \in 1 .. n : /\ q[j].kind = "roster" /\ q[j].epoch = e
                          /\ \A k \in j + 1 .. n : q[k].kind # "roster"
      \/ r = e /\ \A k \in 1 .. n : q[k].kind # "roster"
  BY <1>2, <1>3 DEF InForce
<1>7. InForce(t, s, n, e)
  <2> HIDE DEF s
  <2> QED BY <1>4, <1>5, <1>6
<1> QED BY <1>7 DEF t, h

(* What is on its way, message by message.                                 *)
LEMMA AppendOnTheWay ==
  ASSUME NEW q \in Seq(FeedMsgs), NEW m \in FeedMsgs
  PROVE  /\ Append(q, m) \in Seq(FeedMsgs)
         /\ Total([i \in DOMAIN q |-> TicksOf(q[i])]) \in Nat
         /\ Total([i \in DOMAIN Append(q, m) |-> TicksOf(Append(q, m)[i])])
              = Total([i \in DOMAIN q |-> TicksOf(q[i])]) + TicksOf(m)
<1> DEFINE w == [i \in DOMAIN q |-> TicksOf(q[i])]
           a == Append(q, m)
           v == [i \in DOMAIN a |-> TicksOf(a[i])]
           n == TicksOf(m)
<1>1. n \in Nat /\ \A i \in 1 .. Len(q) : TicksOf(q[i]) \in Nat
  <2>1. \A x \in FeedMsgs : TicksOf(x) \in Nat
    BY DEF TicksOf, FeedMsgs
  <2> QED BY <2>1
<1>2. Len(q) \in Nat /\ DOMAIN q = 1 .. Len(q)
  OBVIOUS
<1>3. w \in Seq(Nat) /\ Len(w) = Len(q) /\ \A i \in 1 .. Len(q) : w[i] = TicksOf(q[i])
  BY <1>1, <1>2, IsASeq
<1>4. a \in Seq(FeedMsgs) /\ DOMAIN a = 1 .. Len(q) + 1 /\ a[Len(q) + 1] = m
      /\ \A i \in 1 .. Len(q) : a[i] = q[i]
  OBVIOUS
<1> HIDE DEF a, n
<1>5. v = [i \in 1 .. Len(q) + 1 |-> IF i = Len(q) + 1 THEN n ELSE w[i]]
  BY <1>2, <1>3, <1>4 DEF n
<1> HIDE DEF v, w
<1>6. Append(w, n) \in Seq(Nat) /\ Len(Append(w, n)) = Len(q) + 1
      /\ \A i \in 1 .. Len(q) + 1 : Append(w, n)[i] = IF i = Len(q) + 1 THEN n ELSE w[i]
  BY <1>1, <1>3
<1>7. v = Append(w, n)
  <2>1. v \in Seq(Nat) /\ Len(v) = Len(q) + 1
    BY <1>1, <1>2, <1>3, <1>5, IsASeq
  <2>2. \A i \in 1 .. Len(v) : v[i] = Append(w, n)[i]
    BY <1>5, <1>6, <2>1
  <2> QED BY <1>6, <2>1, <2>2, SeqEqual
<1>8. Total(v) = Total(w) + n /\ Total(w) \in Nat
  BY <1>1, <1>3, <1>7, TotalAppend
<1> QED BY <1>4, <1>8 DEF a, v, w, n

LEMMA TailOnTheWay ==
  ASSUME NEW q \in Seq(FeedMsgs), q # <<>>
  PROVE  /\ Tail(q) \in Seq(FeedMsgs) /\ Head(q) \in FeedMsgs
         /\ Total([i \in DOMAIN Tail(q) |-> TicksOf(Tail(q)[i])]) \in Nat
         /\ Total([i \in DOMAIN q |-> TicksOf(q[i])])
              = TicksOf(Head(q)) + Total([i \in DOMAIN Tail(q) |-> TicksOf(Tail(q)[i])])
<1> DEFINE w == [i \in DOMAIN q |-> TicksOf(q[i])]
           a == Tail(q)
           v == [i \in DOMAIN a |-> TicksOf(a[i])]
           L == Len(q)
<1>1. L \in Nat /\ L >= 1 /\ DOMAIN q = 1 .. L /\ \A i \in 1 .. L : q[i] \in FeedMsgs
  OBVIOUS
<1>2. \A x \in FeedMsgs : TicksOf(x) \in Nat
  BY DEF TicksOf, FeedMsgs
<1>3. a \in Seq(FeedMsgs) /\ DOMAIN a = 1 .. L - 1 /\ Head(q) = q[1] /\ Head(q) \in FeedMsgs
      /\ \A i \in 1 .. L - 1 : a[i] = q[i + 1]
  BY HeadTailProperties
<1>4. w \in Seq(Nat) /\ Len(w) = L /\ \A i \in 1 .. L : w[i] = TicksOf(q[i])
  BY <1>1, <1>2, IsASeq
<1> HIDE DEF a, L
<1>5. v = [i \in 1 .. L - 1 |-> w[i + 1]]
  BY <1>1, <1>3, <1>4
<1>6. w # <<>>
  BY <1>1, <1>4
<1> HIDE DEF v, w
<1>7. Tail(w) \in Seq(Nat) /\ Len(Tail(w)) = L - 1 /\ \A i \in 1 .. L - 1 : Tail(w)[i] = w[i + 1]
  BY <1>4, <1>6, HeadTailProperties
<1>8. v = Tail(w)
  <2>1. v \in Seq(Nat) /\ Len(v) = L - 1
    BY <1>1, <1>4, <1>5, IsASeq
  <2>2. \A i \in 1 .. Len(v) : v[i] = Tail(w)[i]
    BY <1>5, <1>7, <2>1
  <2> QED BY <1>7, <2>1, <2>2, SeqEqual
<1>9. Head(w) = TicksOf(Head(q))
  BY <1>1, <1>3, <1>4, <1>6
<1>10. Total(w) = Head(w) + Total(Tail(w)) /\ Total(Tail(w)) \in Nat
  BY <1>4, <1>6, TotalTail
<1> QED BY <1>3, <1>8, <1>9, <1>10 DEF a, v, w

\* Every tick of q meets, behind a thread at roster r, the roster it was mixed for.
TicksLed(q, r) == \A n \in 1 .. Len(q) : q[n].kind = "tick" => InForce(q, r, n, q[n].epoch)

(* What is sent leads what follows it, and adds the time it carries.       *)
LEMMA SentInOrder ==
  ASSUME FeedTypeOK, RostersLead, NEW m \in FeedMsgs, channel' = Append(channel, m), thread' = thread,
         m.kind = "tick" => m.epoch = fedEpoch
  PROVE  /\ channel' \in Seq(FeedMsgs)
         /\ OnTheWay \in Nat /\ OnTheWay' = OnTheWay + TicksOf(m)
         /\ TicksLed(channel', thread.roster)
         /\ InForce(channel', thread.roster, Len(channel') + 1,
                    IF m.kind = "roster" THEN m.epoch ELSE fedEpoch)
<1> DEFINE L == Len(channel)
           r == thread.roster
           a == Append(channel, m)
<1>1. L \in Nat /\ Len(a) = L + 1 /\ a[L + 1] = m /\ \A i \in 1 .. L : a[i] = channel[i]
  BY DEF FeedTypeOK
<1>2. channel \in Seq(FeedMsgs) /\ r \in Nat /\ fedEpoch \in Nat /\ \A i \in 1 .. L : channel[i].epoch \in Nat
  <2>1. \A i \in 1 .. L : channel[i] \in FeedMsgs
    BY DEF FeedTypeOK
  <2> QED BY <2>1 DEF FeedTypeOK, FeedMsgs
<1>3. TicksLed(channel, r) /\ InForce(channel, r, L + 1, fedEpoch)
  BY DEF RostersLead, TicksLed
<1>4. a \in Seq(FeedMsgs) /\ OnTheWay \in Nat /\ OnTheWay' = OnTheWay + TicksOf(m)
  BY <1>2, AppendOnTheWay DEF OnTheWay
<1>5. /\ \A n \in 1 .. L + 1, e \in Nat : InForce(channel, r, n, e) => InForce(a, r, n, e)
      /\ m.kind # "roster" => InForce(a, r, L + 2, fedEpoch)
      /\ m.kind = "roster" => InForce(a, r, L + 2, m.epoch)
  BY <1>2, <1>3, AppendUnder
<1>6. channel' = a /\ (m.kind = "tick" => m.epoch = fedEpoch)
  OBVIOUS
<1> HIDE DEF a, L, r
<1>7. TicksLed(a, r)
  <2> SUFFICES ASSUME NEW n \in 1 .. L + 1, a[n].kind = "tick" PROVE InForce(a, r, n, a[n].epoch)
    BY <1>1 DEF TicksLed
  <2>1. CASE n = L + 1
    BY <1>1, <1>2, <1>3, <1>5, <1>6, <2>1
  <2>2. CASE n # L + 1
    <3>1. n \in 1 .. L /\ a[n] = channel[n]
      BY <1>1, <2>2
    <3>2. InForce(channel, r, n, channel[n].epoch)
      BY <1>3, <3>1 DEF TicksLed, L
    <3> QED BY <1>2, <1>5, <3>1, <3>2
  <2> QED BY <2>1, <2>2
<1>8. InForce(a, r, Len(a) + 1, IF m.kind = "roster" THEN m.epoch ELSE fedEpoch)
  <2>1. Len(a) + 1 = L + 2
    BY <1>1
  <2> QED BY <1>5, <2>1
<1> QED BY <1>4, <1>6, <1>7, <1>8 DEF r

LEMMA FeedInitial == FeedInit => FeedIInv
<1> SUFFICES ASSUME FeedInit PROVE FeedIInv
  OBVIOUS
<1>1. FeedTypeOK
  <2>1. flag \in BOOLEAN /\ mismatch \in BOOLEAN
    BY Zenon DEF FeedInit
  <2>2. channel \in Seq(FeedMsgs)
    BY DEF FeedInit
  <2>3. thread \in [started : BOOLEAN, roster : Nat, pushed : Nat, ran : BOOLEAN]
    BY DEF FeedInit
  <2> QED BY <2>1, <2>2, <2>3 DEF FeedInit, FeedTypeOK
<1>4. LevelsMatchRoster
  BY Zenon DEF FeedInit, LevelsMatchRoster
<1>2. KeepsTime
  <2>1. [i \in DOMAIN <<>> |-> TicksOf(<<>>[i])] = <<>>
    OBVIOUS
  <2>2. OnTheWay = 0
    BY <2>1, TotalEmpty DEF FeedInit, OnTheWay
  <2> QED BY <2>2 DEF FeedInit, KeepsTime
<1>3. RostersLead
  BY DEF FeedInit, RostersLead, InForce
<1> QED BY <1>1, <1>2, <1>3, <1>4 DEF FeedIInv

(* A step that leaves the channel alone, and a note sent down it.          *)
LEMMA ChannelAlone ==
  ASSUME FeedIInv, UNCHANGED <<channel, thread, owed, mixed, mismatch, fedEpoch>>,
         task' = "tick" => epoch' = fedEpoch
  PROVE  KeepsTime' /\ RostersLead' /\ LevelsMatchRoster'
<1>1. KeepsTime'
  BY DEF FeedIInv, KeepsTime, OnTheWay
<1>2. LevelsMatchRoster'
  BY DEF FeedIInv, LevelsMatchRoster
<1>3. RostersLead'
  BY DEF FeedIInv, RostersLead, InForce
<1> QED BY <1>1, <1>2, <1>3

LEMMA NoteSent ==
  ASSUME FeedIInv, NEW k \in {"beat", "start", "stop", "shutdown"}, channel' = Append(channel, Note(k)),
         UNCHANGED <<owed, fedEpoch, thread, mixed, mismatch>>, task' # "tick"
  PROVE  channel' \in Seq(FeedMsgs) /\ KeepsTime' /\ RostersLead' /\ LevelsMatchRoster'
<1>1. Note(k) \in FeedMsgs /\ Note(k).kind \notin {"tick", "roster"} /\ TicksOf(Note(k)) = 0
  BY DEF Note, FeedMsgs, FeedKinds, TicksOf
<1>2. /\ channel' \in Seq(FeedMsgs)
      /\ OnTheWay \in Nat /\ OnTheWay' = OnTheWay + TicksOf(Note(k))
      /\ TicksLed(channel', thread.roster)
      /\ InForce(channel', thread.roster, Len(channel') + 1, fedEpoch)
  BY <1>1, SentInOrder DEF FeedIInv
<1>3. KeepsTime'
  BY <1>1, <1>2 DEF FeedIInv, FeedTypeOK, KeepsTime
<1>4. RostersLead'
  BY <1>2 DEF RostersLead, TicksLed
<1>5. LevelsMatchRoster'
  BY DEF FeedIInv, LevelsMatchRoster
<1> QED BY <1>2, <1>3, <1>4, <1>5

LEMMA FeedStep == FeedIInv /\ [FeedNext]_feedVars => FeedIInv'
<1> SUFFICES ASSUME FeedIInv, [FeedNext]_feedVars PROVE FeedIInv'
  OBVIOUS
<1> USE DEF FeedIInv
<1>1. CASE RoomChanges
  <2>1. FeedTypeOK'
    BY <1>1 DEF RoomChanges, FeedTypeOK
  <2> QED BY <1>1, <2>1, ChannelAlone DEF RoomChanges
<1>2. CASE MixTick
  <2>1. FeedTypeOK'
    BY <1>2 DEF MixTick, FeedTypeOK
  <2> QED BY <1>2, <2>1, ChannelAlone DEF MixTick
<1>3. CASE SubmitRoster
  <2> DEFINE m == RosterOf(epoch)
  <2>1. m \in FeedMsgs /\ m.kind = "roster" /\ m.epoch = epoch /\ TicksOf(m) = 0
    BY DEF RosterOf, FeedMsgs, FeedKinds, TicksOf, FeedTypeOK
  <2>2. channel' = Append(channel, m) /\ thread' = thread
    BY <1>3 DEF SubmitRoster, SendWaits
  <2> HIDE DEF m
  <2>3. /\ channel' \in Seq(FeedMsgs)
        /\ OnTheWay \in Nat /\ OnTheWay' = OnTheWay + TicksOf(m)
        /\ TicksLed(channel', thread.roster)
        /\ InForce(channel', thread.roster, Len(channel') + 1, epoch)
    BY <2>1, <2>2, SentInOrder
  <2>4. FeedTypeOK'
    BY <1>3, <2>3 DEF SubmitRoster, FeedTypeOK
  <2>5. KeepsTime'
    BY <1>3, <2>1, <2>3 DEF SubmitRoster, KeepsTime, FeedTypeOK
  <2>6. RostersLead'
    BY <1>3, <2>3 DEF SubmitRoster, RostersLead, TicksLed
  <2>7. LevelsMatchRoster'
    BY <1>3 DEF SubmitRoster, LevelsMatchRoster
  <2> QED BY <2>4, <2>5, <2>6, <2>7
<1>4. CASE SubmitTick
  <2>1. CASE Full
    <3>1. UNCHANGED <<channel, thread, mismatch, epoch, fedEpoch>> /\ mixed' = mixed + 1 /\ owed' = owed + 1
          /\ task' = "select"
      BY <1>4, <2>1 DEF SubmitTick, OwedAfter
    <3>2. FeedTypeOK'
      BY <1>4, <3>1 DEF SubmitTick, FeedTypeOK
    <3>3. OnTheWay' = OnTheWay
      BY <3>1 DEF OnTheWay
    <3>6. OnTheWay \in Nat
      <4>1. channel \in Seq(FeedMsgs) /\ Note("beat") \in FeedMsgs
        BY DEF FeedTypeOK, Note, FeedMsgs, FeedKinds
      <4> QED BY <4>1, AppendOnTheWay DEF OnTheWay
    <3>4. KeepsTime'
      BY <3>1, <3>3, <3>6 DEF KeepsTime, FeedTypeOK
    <3>5. RostersLead'
      BY <3>1 DEF RostersLead, InForce
    <3> QED BY <3>1, <3>2, <3>4, <3>5 DEF LevelsMatchRoster
  <2>2. CASE ~Full
    <3> DEFINE m == TickOf(owed)
    <3>1. m \in FeedMsgs /\ m.kind = "tick" /\ m.epoch = fedEpoch /\ TicksOf(m) = owed + 1
      BY <1>4 DEF SubmitTick, TickOf, FeedMsgs, FeedKinds, TicksOf, FeedTypeOK, RostersLead
    <3>2. channel' = Append(channel, m) /\ thread' = thread /\ owed' = 0 /\ mixed' = mixed + 1
      BY <1>4, <2>2 DEF SubmitTick
    <3> HIDE DEF m
    <3>3. /\ channel' \in Seq(FeedMsgs)
          /\ OnTheWay \in Nat /\ OnTheWay' = OnTheWay + TicksOf(m)
          /\ TicksLed(channel', thread.roster)
          /\ InForce(channel', thread.roster, Len(channel') + 1, fedEpoch)
      BY <3>1, <3>2, SentInOrder
    <3>4. FeedTypeOK'
      BY <1>4, <3>2, <3>3 DEF SubmitTick, FeedTypeOK
    <3>5. KeepsTime'
      BY SMTT(30), <3>1, <3>2, <3>3 DEF KeepsTime, FeedTypeOK
    <3>6. RostersLead'
      BY <1>4, <3>3 DEF SubmitTick, RostersLead, TicksLed
    <3>7. LevelsMatchRoster'
      BY <1>4 DEF SubmitTick, LevelsMatchRoster
    <3> QED BY <3>4, <3>5, <3>6, <3>7
  <2> QED BY <2>1, <2>2
<1>5. CASE Heartbeat
  <2>1. FeedTypeOK'
    BY <1>5 DEF Heartbeat, FeedTypeOK
  <2> QED BY <1>5, <2>1, ChannelAlone DEF Heartbeat
<1>6. CASE beat
  <2>1. channel' \in Seq(FeedMsgs) /\ KeepsTime' /\ RostersLead' /\ LevelsMatchRoster'
    BY <1>6, NoteSent DEF beat, SendWaits
  <2> QED BY <1>6, <2>1 DEF beat, FeedTypeOK
<1>7. CASE apply
  <2>0. sending \in {"beat", "start", "stop", "shutdown"}
    BY DEF FeedTypeOK
  <2>1. channel' \in Seq(FeedMsgs) /\ KeepsTime' /\ RostersLead' /\ LevelsMatchRoster'
    BY <1>7, <2>0, NoteSent DEF apply, SendWaits
  <2> QED BY <1>7, <2>1 DEF apply, FeedTypeOK
<1>8. ASSUME NEW op \in {"start", "stop"}, route_stream_ctl(op) PROVE FeedIInv'
  <2>1. FeedTypeOK'
    BY <1>8 DEF route_stream_ctl, FeedTypeOK
  <2> QED BY <1>8, <2>1, ChannelAlone DEF route_stream_ctl
<1>9. CASE BreaksOut
  <2>1. FeedTypeOK'
    BY <1>9 DEF BreaksOut, FeedTypeOK
  <2> QED BY <1>9, <2>1, ChannelAlone DEF BreaksOut
<1>10. CASE DropWorker
  <2>1. channel' \in Seq(FeedMsgs) /\ KeepsTime' /\ RostersLead' /\ LevelsMatchRoster'
    BY <1>10, NoteSent DEF DropWorker, SendWaits
  <2> QED BY <1>10, <2>1 DEF DropWorker, FeedTypeOK
<1>11. CASE Join
  <2>1. FeedTypeOK'
    BY <1>11 DEF Join, FeedTypeOK
  <2> QED BY <1>11, <2>1, ChannelAlone DEF Join
<1>12. CASE ThreadTurn
  <2> DEFINE m == Head(channel)
             r == thread.roster
             s == IF m.kind = "roster" THEN m.epoch ELSE r
  <2>1. channel # <<>> /\ channel' = Tail(channel) /\ HandleMsg(m)
        /\ UNCHANGED <<task, sending, owed, epoch, fedEpoch, asks, mixed>>
    BY <1>12 DEF ThreadTurn
  <2>2. channel \in Seq(FeedMsgs) /\ r \in Nat /\ fedEpoch \in Nat
    BY DEF FeedTypeOK
  <2>3. /\ channel' \in Seq(FeedMsgs) /\ m \in FeedMsgs
        /\ OnTheWay' \in Nat /\ OnTheWay = TicksOf(m) + OnTheWay'
    BY <2>1, <2>2, TailOnTheWay DEF OnTheWay
  <2>4. m = channel[1] /\ Len(channel) \in Nat /\ Len(channel) >= 1 /\ Len(channel') = Len(channel) - 1
        /\ \A i \in 1 .. Len(channel') : channel'[i] = channel[i + 1]
    BY <2>1, <2>2, HeadTailProperties
  <2>5. /\ m.kind \in FeedKinds /\ m.silence \in Nat /\ m.epoch \in Nat
        /\ \A n \in 1 .. Len(channel) : channel[n].epoch \in Nat
    <3>1. \A n \in 1 .. Len(channel) : channel[n] \in FeedMsgs
      BY <2>2
    <3> QED BY <2>3, <3>1 DEF FeedMsgs
  <2>6. ASSUME NEW n \in 1 .. Len(channel), NEW e \in Nat, InForce(channel, r, n + 1, e)
        PROVE  InForce(channel', s, n, e)
    BY <2>1, <2>2, <2>6, TailUnder
  <2> HIDE DEF m
  <2>7. thread'.roster = s /\ thread'.pushed = thread.pushed + TicksOf(m)
        /\ thread' \in [started : BOOLEAN, roster : Nat, pushed : Nat, ran : BOOLEAN]
    <3> DEFINE Threads == [started : BOOLEAN, roster : Nat, pushed : Nat, ran : BOOLEAN]
    <3>1. thread \in Threads
      BY DEF FeedTypeOK
    <3>2. CASE m.kind = "tick"
      <4>1. thread' = [thread EXCEPT !.pushed = @ + (m.silence + 1)]
        BY <2>1, <3>2 DEF HandleMsg, Pushes
      <4> QED BY <2>5, <3>1, <3>2, <4>1 DEF TicksOf
    <3>3. CASE m.kind = "roster"
      <4>1. thread' = [thread EXCEPT !.roster = m.epoch]
        BY <2>1, <3>3 DEF HandleMsg
      <4> QED BY <2>5, <3>1, <3>3, <4>1 DEF TicksOf
    <3>4. CASE m.kind \notin {"tick", "roster"}
      <4>1. thread' \in {[thread EXCEPT !.started = TRUE], [thread EXCEPT !.started = FALSE],
                        [thread EXCEPT !.ran = TRUE], thread}
        BY <2>1, <2>5, <3>4 DEF HandleMsg, FeedKinds
      <4>2. s = r /\ TicksOf(m) = 0 /\ r = thread.roster
        BY <3>4 DEF TicksOf
      <4>3. thread'.roster = thread.roster /\ thread'.pushed = thread.pushed /\ thread' \in Threads
        BY <3>1, <4>1
      <4>4. thread.pushed \in Nat
        BY <3>1
      <4> HIDE DEF s, r
      <4> QED BY <4>2, <4>3, <4>4
    <3> QED BY <3>2, <3>3, <3>4
  <2>8. flag' \in BOOLEAN
    BY <2>1, <2>7 DEF HandleMsg, FeedTypeOK
  <2>9. m.kind = "tick" => m.epoch = r
    BY <2>4, <2>5 DEF RostersLead, InForce
  <2>10. ~mismatch' /\ mismatch' \in BOOLEAN
    BY Zenon, <2>1, <2>9 DEF HandleMsg, LevelsMatchRoster
  <2>11. FeedTypeOK'
    BY <2>1, <2>3, <2>7, <2>8, <2>10 DEF FeedTypeOK
  <2>12. KeepsTime'
    BY SMTT(30), <2>1, <2>3, <2>5, <2>7 DEF KeepsTime, FeedTypeOK, TicksOf
  <2>13. RostersLead'
    <3>1. ASSUME NEW n \in 1 .. Len(channel'), channel'[n].kind = "tick"
          PROVE  InForce(channel', s, n, channel'[n].epoch)
      <4>1. n \in 1 .. Len(channel) /\ n + 1 \in 1 .. Len(channel) /\ channel'[n] = channel[n + 1]
        BY <2>4
      <4> QED BY <2>5, <2>6, <3>1, <4>1 DEF RostersLead
    <3>2. InForce(channel', s, Len(channel') + 1, fedEpoch)
      <4>1. Len(channel') + 1 = Len(channel) /\ Len(channel) \in 1 .. Len(channel)
        BY <2>4
      <4> QED BY <2>2, <2>6, <4>1 DEF RostersLead
    <3> HIDE DEF s
    <3> QED BY <2>1, <2>7, <3>1, <3>2 DEF RostersLead
  <2> QED BY <2>10, <2>11, <2>12, <2>13 DEF LevelsMatchRoster
<1>13. CASE UNCHANGED feedVars
  <2>1. FeedTypeOK'
    BY <1>13 DEF feedVars, FeedTypeOK
  <2> QED BY <1>13, <2>1, ChannelAlone DEF feedVars, RostersLead
<1> QED BY <1>1, <1>2, <1>3, <1>4, <1>5, <1>6, <1>7, <1>8, <1>9, <1>10, <1>11, <1>12, <1>13 DEF FeedNext

(* worker.rs: every tick the mixer offered is pushed, on its way, or owed  *)
(* as silence, however long the queue and however often it was full.       *)
THEOREM TimeIsKept == FeedSpec => []KeepsTime
<1>1. FeedIInv => KeepsTime
  BY DEF FeedIInv
<1> QED BY <1>1, FeedInitial, FeedStep, PTL DEF FeedSpec

(* runtime.rs, feed_stream: no tick is drawn on the cards of a roster it   *)
(* was not measured for, however many rosters and refusals lie between.    *)
THEOREM RostersMatch == FeedSpec => []LevelsMatchRoster
<1>1. FeedIInv => LevelsMatchRoster
  BY DEF FeedIInv
<1> QED BY <1>1, FeedInitial, FeedStep, PTL DEF FeedSpec

-----------------------------------------------------------------------------
(* A take on its way to a bucket.                                          *)
Sources == [buf : Nat, finished : BOOLEAN]
Drivers == [pc : {"reading", "put", "begin", "send", "complete", "abort", "stored", "failed"},
            want : {"first", "second", "next"}, current : Nat, next : Nat, number : Nat,
            upload : Nat \cup {None}, tries : Nat]
UploadRecs == [open : BOOLEAN, parts : Nat, bytes : Nat]
Buckets == [object : Nat \cup {None}, uploads : Seq(UploadRecs)]
Writers == {"open", "finishing", "joining", "ok", "failed", "aborting", "aborted"}

UploadTypeOK ==
    /\ store \in {"s3", "gcs"} /\ alive \in BOOLEAN /\ marker \in BOOLEAN
    /\ writer \in Writers /\ written \in Nat /\ chunks \in Seq(Nat)
    /\ source \in Sources /\ driver \in Drivers /\ bucket \in Buckets

\* The recorder asked to finish, after all it wrote.
AllWritten == writer \in {"joining", "ok", "failed"}

(* The recorder's last message is its last: nothing follows Finish.        *)
FinishIsLast ==
    /\ source.finished => AllWritten /\ chunks = <<>>
    /\ \A i \in 1 .. Len(chunks) : chunks[i] = Finish => AllWritten /\ i = Len(chunks)

(* An upload is opened once, by the driver that goes on to name it; one    *)
(* still open is the running driver's, or has gone astray.                 *)
DriverPlace(t, b) ==
    /\ t.pc = "begin" \/ t.pc = "put" \/ t.want # "next" => t.upload = None
    /\ t.pc \in {"send", "complete", "abort"} \/ (t.pc = "reading" /\ t.want = "next") =>
          t.upload \in 1 .. Len(b.uploads)
    /\ t.pc \in {"put", "begin", "send", "complete"} => t.want = "next"

NoneLoose(t, b, s) ==
    \A u \in 1 .. Len(b.uploads) : b.uploads[u].open =>
        u \in s \/ (u = t.upload /\ t.pc \notin {"stored", "failed"})

(* Every byte written is in the queue, in the source, in the driver's      *)
(* hands or in the parts the store has taken; and none is left behind the  *)
(* last part.                                                              *)
Behind == Total(chunks) + source.buf

Counted(t, b) ==
    LET up == b.uploads[t.upload] IN
    /\ t.pc = "reading" /\ t.want = "first" => written = Behind
    /\ t.pc = "reading" /\ t.want = "second" => written = Behind + t.current
    /\ t.pc = "reading" /\ t.want = "next" =>
          up.parts = t.number - 1 /\ written = Behind + t.current + up.bytes
    /\ t.pc = "put" => written = t.current
    /\ t.pc = "begin" => t.number = 1 /\ written = Behind + t.next + t.current
    /\ t.pc = "send" =>
          \/ up.parts = t.number - 1 /\ written = Behind + t.next + t.current + up.bytes
          \/ up.parts = t.number /\ written = Behind + t.next + up.bytes
    /\ t.pc = "complete" => written = up.bytes
    /\ t.want # "next" => t.number = 1

NoneBehind(t) ==
    /\ t.pc \in {"put", "complete"} \/ (t.pc = "send" /\ t.next = 0) => source.finished /\ source.buf = 0
    /\ t.pc = "begin" => t.next # 0

(* What stands in the bucket is the whole take.                            *)
WholeObject(b) == b.object # None => b.object = written /\ source.finished

UploadIInv ==
    /\ UploadTypeOK /\ FinishIsLast
    /\ DriverPlace(driver, bucket) /\ NoneLoose(driver, bucket, stray)
    /\ Counted(driver, bucket) /\ NoneBehind(driver)
    /\ WholeObject(bucket)
    /\ driver.pc = "stored" \/ writer = "ok" => bucket.object # None
    /\ alive /\ ~marker => Ended

(* What a request writes at the store, field by field.                     *)
LEMMA ClosedDoes ==
  ASSUME NEW b \in Buckets, NEW u \in 1 .. Len(b.uploads)
  PROVE  /\ Closed(b, u) \in Buckets /\ Closed(b, u).object = b.object
         /\ Len(Closed(b, u).uploads) = Len(b.uploads)
         /\ ~Closed(b, u).uploads[u].open
         /\ \A v \in 1 .. Len(b.uploads) : /\ v # u => Closed(b, u).uploads[v] = b.uploads[v]
                                         /\ Closed(b, u).uploads[v].bytes = b.uploads[v].bytes
                                         /\ Closed(b, u).uploads[v].parts = b.uploads[v].parts
<1> DEFINE q == b.uploads
           r == [q[u] EXCEPT !.open = FALSE]
           p == [q EXCEPT ![u] = r]
<1>1. q \in Seq(UploadRecs) /\ u \in 1 .. Len(q) /\ b.object \in Nat \cup {None}
  BY DEF Buckets
<1>2. \A v \in 1 .. Len(q) : q[v] \in UploadRecs
  BY <1>1
<1>3. r \in UploadRecs /\ ~r.open /\ r.bytes = q[u].bytes /\ r.parts = q[u].parts
  BY <1>1, <1>2 DEF UploadRecs
<1>4. Closed(b, u) = [b EXCEPT !.uploads = p]
  BY <1>1 DEF Closed, Buckets
<1> HIDE DEF r
<1>5. p \in Seq(UploadRecs) /\ Len(p) = Len(q) /\ \A v \in 1 .. Len(q) : p[v] = IF v = u THEN r ELSE q[v]
  BY <1>1, <1>3, ExceptSeq
<1> HIDE DEF p
<1>6. Closed(b, u) \in Buckets /\ Closed(b, u).uploads = p /\ Closed(b, u).object = b.object
  BY <1>1, <1>4, <1>5 DEF Buckets
<1> QED BY <1>1, <1>3, <1>5, <1>6

WithPart(b, u, n, c) ==
    [b EXCEPT !.uploads[u] = [open |-> @.open, parts |-> n, bytes |-> @.bytes + c]]

LEMMA PartTaken ==
  ASSUME NEW b \in Buckets, NEW u \in 1 .. Len(b.uploads), NEW n \in Nat, NEW c \in Nat
  PROVE  LET g == WithPart(b, u, n, c) IN
         /\ g \in Buckets /\ g.object = b.object /\ Len(g.uploads) = Len(b.uploads)
         /\ g.uploads[u].parts = n /\ g.uploads[u].bytes = b.uploads[u].bytes + c
         /\ \A v \in 1 .. Len(b.uploads) : /\ v # u => g.uploads[v] = b.uploads[v]
                                         /\ g.uploads[v].open = b.uploads[v].open
<1> DEFINE q == b.uploads
           r == [open |-> q[u].open, parts |-> n, bytes |-> q[u].bytes + c]
           p == [q EXCEPT ![u] = r]
           g == WithPart(b, u, n, c)
<1>1. q \in Seq(UploadRecs) /\ u \in 1 .. Len(q) /\ b.object \in Nat \cup {None}
  BY DEF Buckets
<1>2. \A v \in 1 .. Len(q) : q[v] \in UploadRecs
  BY <1>1
<1>3. /\ r \in UploadRecs /\ r.open = q[u].open /\ r.bytes = q[u].bytes + c /\ r.parts = n
  <2>1. q[u] \in UploadRecs /\ q[u].bytes + c \in Nat
    BY <1>1, <1>2 DEF UploadRecs
  <2> QED BY <2>1 DEF UploadRecs
<1>4. g = [b EXCEPT !.uploads = p]
  BY <1>1 DEF Buckets, WithPart
<1> HIDE DEF r, g
<1>5. p \in Seq(UploadRecs) /\ Len(p) = Len(q) /\ \A v \in 1 .. Len(q) : p[v] = IF v = u THEN r ELSE q[v]
  BY <1>1, <1>3, ExceptSeq
<1> HIDE DEF p
<1>6. g \in Buckets /\ g.uploads = p /\ g.object = b.object
  BY <1>1, <1>4, <1>5 DEF Buckets
<1>7. /\ g \in Buckets /\ g.object = b.object /\ Len(g.uploads) = Len(q)
      /\ g.uploads[u].parts = n /\ g.uploads[u].bytes = q[u].bytes + c
      /\ \A v \in 1 .. Len(q) : (v # u => g.uploads[v] = q[v]) /\ g.uploads[v].open = q[v].open
  BY <1>1, <1>3, <1>5, <1>6
<1> QED BY <1>7 DEF g

LEMMA UploadBegun ==
  ASSUME NEW b \in Buckets
  PROVE  LET f == [open |-> TRUE, parts |-> 0, bytes |-> 0]
             g == [b EXCEPT !.uploads = Append(@, f)]
         IN  /\ g \in Buckets /\ g.object = b.object /\ Len(g.uploads) = Len(b.uploads) + 1
             /\ g.uploads[Len(b.uploads) + 1] = f
             /\ \A v \in 1 .. Len(b.uploads) : g.uploads[v] = b.uploads[v]
<1> DEFINE f == [open |-> TRUE, parts |-> 0, bytes |-> 0]
           p == Append(b.uploads, f)
<1>1. b.uploads \in Seq(UploadRecs) /\ b.object \in Nat \cup {None} /\ f \in UploadRecs
  BY DEF Buckets, UploadRecs
<1> HIDE DEF f
<1>2. p \in Seq(UploadRecs) /\ Len(p) = Len(b.uploads) + 1 /\ p[Len(b.uploads) + 1] = f
      /\ \A v \in 1 .. Len(b.uploads) : p[v] = b.uploads[v]
  BY <1>1
<1> HIDE DEF p
<1>3. [b EXCEPT !.uploads = p] \in Buckets /\ [b EXCEPT !.uploads = p].uploads = p
      /\ [b EXCEPT !.uploads = p].object = b.object
  BY <1>1, <1>2 DEF Buckets
<1> QED BY <1>2, <1>3 DEF f, p

LEMMA StoredDoes ==
  ASSUME NEW b \in Buckets, NEW n \in Nat
  PROVE  Stored(b, n) \in Buckets /\ Stored(b, n).object = n /\ Stored(b, n).uploads = b.uploads
BY DEF Stored, Buckets

LEMMA BehindIsNat ==
  ASSUME UploadTypeOK
  PROVE  Total(chunks) \in Nat /\ source.buf \in Nat /\ Behind \in Nat
<1>1. Total(chunks) \in Nat /\ source.buf \in Nat
  <2>1. chunks \in Seq(Nat) /\ source \in Sources /\ 0 \in Nat
    BY DEF UploadTypeOK
  <2> QED BY <2>1, TotalAppend DEF Sources
<1> QED BY <1>1 DEF Behind

\* Nothing is behind the last part, or behind a take of one part.
LEMMA LastIsLast ==
  ASSUME UploadIInv, driver.pc \in {"put", "complete"} \/ (driver.pc = "send" /\ driver.next = 0)
  PROVE  source.finished /\ Behind = 0
<1>1. source.finished /\ source.buf = 0 /\ chunks = <<>>
  BY DEF UploadIInv, NoneBehind, FinishIsLast
<1> QED BY <1>1, TotalEmpty DEF Behind

\* What the driver's place says of its upload.
LEMMA DriverFacts ==
  ASSUME UploadIInv
  PROVE  /\ driver.current \in Nat /\ driver.next \in Nat /\ driver.number \in Nat /\ driver.tries \in Nat
         /\ bucket \in Buckets /\ Len(bucket.uploads) \in Nat /\ written \in Nat
         /\ \A v \in 1 .. Len(bucket.uploads) : bucket.uploads[v] \in UploadRecs
         /\ driver.pc \in {"send", "complete", "abort"} => driver.upload \in 1 .. Len(bucket.uploads)
         /\ DOMAIN bucket.uploads = 1 .. Len(bucket.uploads)
<1>1. bucket \in Buckets /\ driver \in Drivers /\ written \in Nat /\ DriverPlace(driver, bucket)
  BY DEF UploadIInv, UploadTypeOK
<1>2. bucket.uploads \in Seq(UploadRecs)
  BY <1>1 DEF Buckets
<1>3. Len(bucket.uploads) \in Nat /\ DOMAIN bucket.uploads = 1 .. Len(bucket.uploads)
      /\ \A v \in 1 .. Len(bucket.uploads) : bucket.uploads[v] \in UploadRecs
  BY <1>2
<1>4. driver.current \in Nat /\ driver.next \in Nat /\ driver.number \in Nat /\ driver.tries \in Nat
  BY <1>1 DEF Drivers
<1>5. driver.pc \in {"send", "complete", "abort"} => driver.upload \in 1 .. Len(bucket.uploads)
  BY <1>1 DEF DriverPlace
<1> QED BY <1>1, <1>3, <1>4, <1>5

(* A request that is carried out, once or again, leaves the take as it     *)
(* was counted: the object it writes is whole, it closes what it ends, and *)
(* opens nothing but a new upload.                                         *)
CarriedOut(b) ==
    /\ b \in Buckets /\ WholeObject(b)
    /\ driver.pc # "begin" => Len(b.uploads) = Len(bucket.uploads)
    /\ driver.pc = "begin" => Len(b.uploads) = Len(bucket.uploads) + 1
    /\ \A v \in 1 .. Len(bucket.uploads) : b.uploads[v].open => bucket.uploads[v].open
    /\ driver.pc = "begin" =>
          b.uploads[Len(bucket.uploads) + 1] = [open |-> TRUE, parts |-> 0, bytes |-> 0]
    /\ bucket.object # None => b.object # None
    /\ driver.pc \in {"put", "complete"} \/ (driver.pc = "send" /\ Commits) => b.object # None
    /\ driver.pc \in {"complete", "abort"} \/ (driver.pc = "send" /\ Commits) =>
          ~b.uploads[driver.upload].open
    /\ driver.pc = "send" => /\ b.uploads[driver.upload].parts = driver.number
                             /\ written = Behind + driver.next + b.uploads[driver.upload].bytes
    /\ driver.pc = "complete" => written = b.uploads[driver.upload].bytes

LEMMA AppliedDoes ==
  ASSUME UploadIInv, InRequest, Valid
  PROVE  CarriedOut(Applied(bucket))
<1> SUFFICES ASSUME NEW b, NEW u, NEW L, b = Applied(bucket), u = driver.upload, L = Len(bucket.uploads)
             PROVE  CarriedOut(b)
  OBVIOUS
<1>0. /\ driver.current \in Nat /\ driver.next \in Nat /\ driver.number \in Nat
      /\ bucket \in Buckets /\ L \in Nat /\ written \in Nat
      /\ \A v \in 1 .. L : bucket.uploads[v] \in UploadRecs
      /\ driver.pc \in {"send", "complete", "abort"} => u \in 1 .. L
  BY DriverFacts
<1>1. Behind \in Nat /\ WholeObject(bucket) /\ Counted(driver, bucket)
  BY BehindIsNat DEF UploadIInv
<1>2. \A n \in Nat : n # None
  BY DEF None
<1>3. CASE driver.pc = "put"
  <2>1. b = Stored(bucket, driver.current)
    BY <1>3 DEF Applied
  <2>2. b \in Buckets /\ b.object = driver.current /\ b.uploads = bucket.uploads
    <3>1. Stored(bucket, driver.current) \in Buckets
          /\ Stored(bucket, driver.current).object = driver.current
          /\ Stored(bucket, driver.current).uploads = bucket.uploads
      BY <1>0, StoredDoes
    <3> QED BY <2>1, <3>1
  <2>3. source.finished /\ driver.current = written
    BY <1>1, <1>3, LastIsLast DEF Counted
  <2> QED BY <1>0, <1>2, <1>3, <2>2, <2>3 DEF CarriedOut, WholeObject
<1>4. CASE driver.pc = "begin"
  <2>1. b = [bucket EXCEPT !.uploads = Append(@, [open |-> TRUE, parts |-> 0, bytes |-> 0])]
    BY <1>4 DEF Applied
  <2>2. /\ b \in Buckets /\ b.object = bucket.object /\ Len(b.uploads) = L + 1
        /\ b.uploads[L + 1] = [open |-> TRUE, parts |-> 0, bytes |-> 0]
        /\ \A v \in 1 .. L : b.uploads[v] = bucket.uploads[v]
    BY <1>0, <2>1, UploadBegun
  <2> QED BY <1>1, <1>4, <2>2 DEF CarriedOut, WholeObject
<1>5. CASE driver.pc = "send"
  <2> DEFINE got == IF bucket.uploads[u].parts >= driver.number THEN bucket
                    ELSE [bucket EXCEPT !.uploads[u] = [open |-> @.open, parts |-> driver.number,
                                                        bytes |-> @.bytes + driver.current]]
  <2>1. b = IF Commits THEN Stored(Closed(got, u), got.uploads[u].bytes) ELSE got
    BY <1>5 DEF Applied
  <2>2. u \in 1 .. L /\ bucket.uploads[u].parts \in Nat /\ bucket.uploads[u].bytes \in Nat
    BY <1>0, <1>5 DEF UploadRecs
  <2>3. \/ /\ bucket.uploads[u].parts = driver.number - 1
           /\ written = Behind + driver.next + driver.current + bucket.uploads[u].bytes
        \/ /\ bucket.uploads[u].parts = driver.number
           /\ written = Behind + driver.next + bucket.uploads[u].bytes
    BY <1>1, <1>5 DEF Counted
  <2>4. /\ got \in Buckets /\ got.object = bucket.object /\ Len(got.uploads) = L
        /\ got.uploads[u].parts = driver.number
        /\ written = Behind + driver.next + got.uploads[u].bytes
        /\ \A v \in 1 .. L : got.uploads[v].open = bucket.uploads[v].open
    <3>1. CASE bucket.uploads[u].parts = driver.number
      BY <1>0, <2>2, <2>3, <3>1
    <3>2. CASE bucket.uploads[u].parts = driver.number - 1 /\ bucket.uploads[u].parts # driver.number
      <4> DEFINE g == WithPart(bucket, u, driver.number, driver.current)
      <4>1. got = g
        BY <1>0, <2>2, <3>2 DEF WithPart
      <4>2. /\ g \in Buckets /\ g.object = bucket.object /\ Len(g.uploads) = L
            /\ g.uploads[u].parts = driver.number
            /\ g.uploads[u].bytes = bucket.uploads[u].bytes + driver.current
            /\ \A v \in 1 .. L : g.uploads[v].open = bucket.uploads[v].open
        <5>1. u \in 1 .. Len(bucket.uploads)
          BY <2>2
        <5>2. bucket \in Buckets /\ driver.number \in Nat /\ driver.current \in Nat
          BY <1>0
        <5> HIDE DEF g
        <5> QED BY SMTT(30), <5>1, <5>2, PartTaken DEF g
      <4> HIDE DEF got, g
      <4> QED BY SMTT(30), <1>0, <1>1, <2>2, <2>3, <3>2, <4>1, <4>2
    <3> QED BY <2>3, <3>1, <3>2
  <2> HIDE DEF got
  <2>5. CASE ~Commits
    <3>1. b = got
      BY <2>1, <2>5
    <3>2. WholeObject(got)
      BY <1>1, <2>4 DEF WholeObject
    <3> QED BY <1>5, <2>2, <2>4, <2>5, <3>1, <3>2 DEF CarriedOut
  <2>6. CASE Commits
    <3> DEFINE c == Closed(got, u)
    <3>1. /\ c \in Buckets /\ Len(c.uploads) = L /\ ~c.uploads[u].open
          /\ \A v \in 1 .. L : /\ v # u => c.uploads[v] = got.uploads[v]
                              /\ c.uploads[v].bytes = got.uploads[v].bytes
                              /\ c.uploads[v].parts = got.uploads[v].parts
      BY <2>2, <2>4, ClosedDoes
    <3>2. source.finished /\ Behind = 0 /\ driver.next = 0
      BY <1>5, <2>6, LastIsLast DEF Commits, IsLast
    <3>3. got.uploads[u] \in UploadRecs
      <4>1. got.uploads \in Seq(UploadRecs)
        BY <2>4 DEF Buckets
      <4> QED BY <2>2, <2>4, <4>1
    <3>4. got.uploads[u].bytes = written /\ written \in Nat
      BY <1>0, <2>4, <3>2, <3>3 DEF UploadRecs
    <3> HIDE DEF c
    <3>5. b \in Buckets /\ b.object = written /\ b.uploads = c.uploads
      <4>1. c \in Buckets /\ b = Stored(c, written)
        BY <2>1, <2>6, <3>1, <3>4 DEF c
      <4>2. /\ Stored(c, written) \in Buckets /\ Stored(c, written).object = written
            /\ Stored(c, written).uploads = c.uploads
        BY <3>4, <4>1, StoredDoes
      <4> QED BY <4>1, <4>2
    <3>6. WholeObject(b) /\ b.object # None
      BY <1>2, <3>2, <3>4, <3>5 DEF WholeObject
    <3>7. \A v \in 1 .. L : b.uploads[v].open => bucket.uploads[v].open
      BY <2>4, <3>1, <3>5
    <3> QED BY <1>5, <2>2, <2>4, <3>1, <3>5, <3>6, <3>7 DEF CarriedOut
  <2> QED BY <2>5, <2>6
<1>6. CASE driver.pc = "complete"
  <2> DEFINE c == Closed(bucket, u)
  <2>1. b = Stored(c, bucket.uploads[u].bytes)
    BY <1>6 DEF Applied
  <2>2. u \in 1 .. L /\ bucket.uploads[u].bytes = written
    BY <1>0, <1>1, <1>6 DEF Counted
  <2>3. /\ c \in Buckets /\ Len(c.uploads) = L /\ ~c.uploads[u].open
        /\ \A v \in 1 .. L : /\ v # u => c.uploads[v] = bucket.uploads[v]
                            /\ c.uploads[v].bytes = bucket.uploads[v].bytes
    BY <1>0, <2>2, ClosedDoes
  <2> HIDE DEF c
  <2>4. b \in Buckets /\ b.object = written /\ b.uploads = c.uploads
    <3>1. /\ Stored(c, written) \in Buckets /\ Stored(c, written).object = written
          /\ Stored(c, written).uploads = c.uploads
      BY <1>0, <2>3, StoredDoes
    <3> QED BY <2>1, <2>2, <3>1
  <2>5. source.finished
    BY <1>6, LastIsLast
  <2>6. WholeObject(b) /\ b.object # None
    BY <1>0, <1>2, <2>4, <2>5 DEF WholeObject
  <2>7. \A v \in 1 .. L : b.uploads[v].open => bucket.uploads[v].open
    BY <2>3, <2>4
  <2> QED BY <1>6, <2>2, <2>3, <2>4, <2>6, <2>7 DEF CarriedOut
<1>7. CASE driver.pc = "abort"
  <2>1. b = Closed(bucket, u)
    BY <1>7 DEF Applied
  <2>2. u \in 1 .. L
    BY <1>0, <1>7
  <2>3. /\ b \in Buckets /\ b.object = bucket.object /\ Len(b.uploads) = L /\ ~b.uploads[u].open
        /\ \A v \in 1 .. L : v # u => b.uploads[v] = bucket.uploads[v]
    BY SMTT(30), <1>0, <2>1, <2>2, ClosedDoes
  <2>4. WholeObject(b)
    BY <1>1, <2>3 DEF WholeObject
  <2>5. \A v \in 1 .. L : b.uploads[v].open => bucket.uploads[v].open
    BY <2>3
  <2> QED BY <1>7, <2>3, <2>4, <2>5 DEF CarriedOut
<1> QED BY <1>3, <1>4, <1>5, <1>6, <1>7 DEF InRequest

\* Heard or not, carried out or not, a request leaves the driver where it was counted.
LEMMA OutcomeStands ==
  ASSUME UploadIInv, InRequest, NEW b \in Outcomes
  PROVE  /\ b \in Buckets /\ WholeObject(b) /\ (bucket.object # None => b.object # None)
         /\ Len(b.uploads) \in Nat /\ Len(bucket.uploads) <= Len(b.uploads)
         /\ DriverPlace(driver, b) /\ Counted(driver, b)
         /\ NoneLoose(driver, b, stray \cup (DOMAIN b.uploads \ DOMAIN bucket.uploads))
         /\ driver.pc # "begin" => NoneLoose(driver, b, stray)
<1>0. /\ driver.current \in Nat /\ driver.next \in Nat /\ driver.number \in Nat
      /\ bucket \in Buckets /\ Len(bucket.uploads) \in Nat /\ written \in Nat
      /\ driver.pc \in {"send", "complete", "abort"} => driver.upload \in 1 .. Len(bucket.uploads)
      /\ DOMAIN bucket.uploads = 1 .. Len(bucket.uploads)
  BY DriverFacts
<1>1. /\ DriverPlace(driver, bucket) /\ Counted(driver, bucket) /\ NoneLoose(driver, bucket, stray)
      /\ WholeObject(bucket)
  BY DEF UploadIInv
<1>2. CASE b = bucket
  <2>1. NoneLoose(driver, b, stray \cup (DOMAIN b.uploads \ DOMAIN bucket.uploads))
    BY <1>1, <1>2 DEF NoneLoose
  <2> QED BY <1>0, <1>1, <1>2, <2>1
<1>3. CASE b = Applied(bucket) /\ Valid
  <2>1. CarriedOut(b)
    BY <1>3, AppliedDoes
  <2>2. b.uploads \in Seq(UploadRecs)
    BY <2>1 DEF CarriedOut, Buckets
  <2>3. Len(b.uploads) \in Nat /\ DOMAIN b.uploads = 1 .. Len(b.uploads)
    BY <2>2
  <2>4. Len(bucket.uploads) <= Len(b.uploads)
    <3>1. Len(b.uploads) = Len(bucket.uploads) \/ Len(b.uploads) = Len(bucket.uploads) + 1
      BY <2>1 DEF CarriedOut
    <3> QED BY <1>0, <3>1
  <2>5. DriverPlace(driver, b)
    BY <1>0, <1>1, <2>3, <2>4 DEF DriverPlace
  <2>6. Counted(driver, b)
    BY <1>1, <2>1 DEF Counted, CarriedOut, InRequest
  <2>7. NoneLoose(driver, b, stray \cup (DOMAIN b.uploads \ DOMAIN bucket.uploads))
    BY <1>0, <1>1, <2>1, <2>3 DEF NoneLoose, CarriedOut
  <2>8. driver.pc # "begin" => NoneLoose(driver, b, stray)
    BY <1>1, <2>1 DEF NoneLoose, CarriedOut
  <2> QED BY <2>1, <2>3, <2>4, <2>5, <2>6, <2>7, <2>8 DEF CarriedOut
<1> QED BY <1>2, <1>3 DEF Outcomes

LEMMA RequestEnds ==
  ASSUME UploadIInv, InRequest, NEW b \in Buckets, NEW t \in Drivers, Request(b, t),
         DriverPlace(t, b), NoneLoose(t, b, stray'), Counted(t, b), NoneBehind(t), WholeObject(b),
         bucket.object # None \/ t.pc = "stored" => b.object # None
  PROVE  UploadIInv'
<1>1. bucket' = b /\ driver' = t /\ UNCHANGED <<store, alive, writer, written, chunks, marker, source>>
  BY DEF Request
<1>2. UploadTypeOK' /\ FinishIsLast'
  BY <1>1 DEF UploadIInv, UploadTypeOK, FinishIsLast, AllWritten
<1>3. DriverPlace(driver, bucket)' /\ NoneLoose(driver, bucket, stray)'
  BY <1>1 DEF DriverPlace, NoneLoose
<1>4. Counted(driver, bucket)'
  BY <1>1 DEF Counted, Behind
<1>5. NoneBehind(driver)' /\ WholeObject(bucket)'
  BY <1>1 DEF NoneBehind, WholeObject
<1>6. driver'.pc = "stored" \/ writer' = "ok" => bucket'.object # None
  BY <1>1 DEF UploadIInv
<1>7. alive' => marker' = TRUE
  <2>1. ~Ended
    BY DEF Ended, InRequest
  <2> QED BY <1>1, <2>1 DEF UploadIInv, UploadTypeOK
<1>8. UploadIInv' = (/\ UploadTypeOK' /\ FinishIsLast'
                    /\ DriverPlace(driver, bucket)' /\ NoneLoose(driver, bucket, stray)'
                    /\ Counted(driver, bucket)' /\ NoneBehind(driver)'
                    /\ WholeObject(bucket)'
                    /\ (driver'.pc = "stored" \/ writer' = "ok" => bucket'.object # None)
                    /\ (alive' /\ ~marker' => Ended'))
  BY DEF UploadIInv
<1> QED BY <1>2, <1>3, <1>4, <1>5, <1>6, <1>7, <1>8

(* The driver goes on from a request that was answered.                    *)
LEMMA AnsweredStep == UploadIInv /\ Answered => UploadIInv'
<1> SUFFICES ASSUME UploadIInv, Answered, NEW b, NEW t, b = Applied(bucket), t = Done PROVE UploadIInv'
  OBVIOUS
<1>0. InRequest /\ Valid /\ Request(b, t) /\ stray' = stray
  BY DEF Answered
<1>1. CarriedOut(b)
  BY <1>0, AppliedDoes
<1>2. /\ driver.current \in Nat /\ driver.next \in Nat /\ driver.number \in Nat
      /\ bucket \in Buckets /\ Len(bucket.uploads) \in Nat /\ written \in Nat /\ driver.tries \in Nat
      /\ driver.pc \in {"send", "complete", "abort"} => driver.upload \in 1 .. Len(bucket.uploads)
  BY DriverFacts
<1>3. driver \in Drivers /\ DriverPlace(driver, bucket) /\ NoneLoose(driver, bucket, stray)
      /\ Counted(driver, bucket) /\ NoneBehind(driver)
  BY DEF UploadIInv, UploadTypeOK
<1>4. b \in Buckets /\ WholeObject(b) /\ (bucket.object # None => b.object # None) /\ Behind \in Nat
  BY <1>1, BehindIsNat DEF CarriedOut, UploadIInv
<1>5. \A n \in Nat : n # None
  BY DEF None
<1>6. CASE driver.pc \in {"put", "complete"}
  <2>1. t = [driver EXCEPT !.pc = "stored"]
    BY <1>6 DEF Done
  <2>2. /\ t \in Drivers /\ t.pc = "stored" /\ t.want = "next" /\ t.upload = driver.upload
    BY <1>3, <1>6, <2>1 DEF Drivers, DriverPlace
  <2>3. NoneLoose(t, b, stray)
    <3>1. ASSUME NEW v \in 1 .. Len(b.uploads), b.uploads[v].open
          PROVE  v \in stray
      <4>1. v \in 1 .. Len(bucket.uploads) /\ bucket.uploads[v].open
        BY <1>1, <1>2, <1>6, <3>1 DEF CarriedOut
      <4>2. v # driver.upload
        BY <1>1, <1>3, <1>5, <1>6, <3>1 DEF CarriedOut, DriverPlace
      <4> QED BY <1>3, <4>1, <4>2 DEF NoneLoose
    <3> QED BY <3>1 DEF NoneLoose
  <2>4. DriverPlace(t, b) /\ Counted(t, b) /\ NoneBehind(t)
    BY <2>2 DEF DriverPlace, Counted, NoneBehind
  <2> QED BY <1>0, <1>1, <1>4, <1>6, <2>2, <2>3, <2>4, RequestEnds DEF CarriedOut
<1>7. CASE driver.pc = "begin"
  <2>1. t = [driver EXCEPT !.pc = "send", !.upload = Len(bucket.uploads) + 1, !.tries = 0]
    BY <1>7 DEF Done
  <2>2. /\ t \in Drivers /\ t.pc = "send" /\ t.want = "next" /\ t.upload = Len(bucket.uploads) + 1
        /\ t.number = driver.number /\ t.current = driver.current /\ t.next = driver.next
    <3>1. driver.want = "next"
      BY <1>3, <1>7 DEF DriverPlace
    <3>2. /\ t.pc = "send" /\ t.want = driver.want /\ t.upload = Len(bucket.uploads) + 1
          /\ t.number = driver.number /\ t.current = driver.current /\ t.next = driver.next
      BY <1>3, <2>1 DEF Drivers
    <3>3. ASSUME NEW u \in Nat
          PROVE  [driver EXCEPT !.pc = "send", !.upload = u, !.tries = 0] \in Drivers
      BY <1>3 DEF Drivers
    <3>4. t \in Drivers
      <4>1. Len(bucket.uploads) + 1 \in Nat
        BY <1>2
      <4> QED BY <2>1, <3>3, <4>1
    <3> QED BY <3>1, <3>2, <3>4
  <2>3. Len(b.uploads) = Len(bucket.uploads) + 1
        /\ b.uploads[t.upload] = [open |-> TRUE, parts |-> 0, bytes |-> 0]
    BY <1>1, <1>7, <2>2 DEF CarriedOut
  <2>4. DriverPlace(t, b)
    BY <1>2, <2>2, <2>3 DEF DriverPlace
  <2>5. Counted(t, b)
    BY <1>2, <1>3, <1>4, <1>7, <2>2, <2>3 DEF Counted
  <2>6. NoneLoose(t, b, stray)
    <3>1. driver.upload \notin 1 .. Len(bucket.uploads)
      BY <1>3, <1>5, <1>7 DEF DriverPlace
    <3>2. ASSUME NEW v \in 1 .. Len(b.uploads), b.uploads[v].open, v # t.upload
          PROVE  v \in stray
      <4>1. v \in 1 .. Len(bucket.uploads)
        BY <1>2, <2>2, <2>3, <3>2
      <4>2. bucket.uploads[v].open /\ v # driver.upload
        BY <1>1, <3>1, <3>2, <4>1 DEF CarriedOut
      <4> QED BY <1>3, <4>1, <4>2 DEF NoneLoose
    <3> QED BY <2>2, <3>2 DEF NoneLoose
  <2>7. NoneBehind(t)
    <3>1. driver.next # 0
      BY <1>3, <1>7 DEF NoneBehind
    <3> QED BY <2>2, <3>1 DEF NoneBehind
  <2> QED BY <1>0, <1>4, <2>2, <2>4, <2>5, <2>6, <2>7, RequestEnds
<1>8. CASE driver.pc = "send" /\ ~IsLast
  <2>1. t = [driver EXCEPT !.pc = "reading", !.number = @ + 1, !.current = driver.next, !.tries = 0]
    BY <1>8 DEF Done
  <2>2. /\ t.pc = "reading" /\ t.want = "next" /\ t.upload = driver.upload
        /\ t.number = driver.number + 1 /\ t.current = driver.next
    BY <1>3, <1>8, <2>1 DEF Drivers, DriverPlace
  <2>3. t \in Drivers
    <3>1. ASSUME NEW n \in Nat, NEW c \in Nat
          PROVE  [driver EXCEPT !.pc = "reading", !.number = n, !.current = c, !.tries = 0] \in Drivers
      BY <1>3 DEF Drivers
    <3>2. driver.number + 1 \in Nat
      BY <1>2
    <3> QED BY <1>2, <2>1, <3>1, <3>2
  <2>4. Len(b.uploads) = Len(bucket.uploads)
    BY <1>1, <1>8 DEF CarriedOut
  <2>5. DriverPlace(t, b)
    BY <1>2, <1>8, <2>2, <2>4 DEF DriverPlace
  <2>6. Counted(t, b)
    <3>1. b.uploads[driver.upload].parts = driver.number
          /\ written = Behind + driver.next + b.uploads[driver.upload].bytes
      BY <1>1, <1>8 DEF CarriedOut
    <3>2. t.number - 1 = driver.number
      BY <1>2, <2>2
    <3> QED BY <2>2, <3>1, <3>2 DEF Counted
  <2>7. NoneLoose(t, b, stray)
    BY <1>1, <1>3, <2>2, <2>4 DEF CarriedOut, NoneLoose
  <2>8. NoneBehind(t)
    BY <2>2 DEF NoneBehind
  <2> QED BY <1>0, <1>4, <2>2, <2>3, <2>5, <2>6, <2>7, <2>8, RequestEnds
<1>9. CASE driver.pc = "send" /\ IsLast
  <2>1. t = [driver EXCEPT !.pc = IF Commits THEN "stored" ELSE "complete", !.tries = 0]
    BY <1>9 DEF Done
  <2>2. /\ t \in Drivers /\ t.want = "next" /\ t.upload = driver.upload
        /\ t.pc = IF Commits THEN "stored" ELSE "complete"
    <3>1. driver.want = "next"
      BY <1>3, <1>9 DEF DriverPlace
    <3>2. ASSUME NEW c \in {"stored", "complete"}
          PROVE  LET d == [driver EXCEPT !.pc = c, !.tries = 0] IN
                 d \in Drivers /\ d.want = driver.want /\ d.upload = driver.upload /\ d.pc = c
      BY <1>3 DEF Drivers
    <3> QED BY <2>1, <3>1, <3>2
  <2>3. Len(b.uploads) = Len(bucket.uploads) /\ source.finished /\ source.buf = 0 /\ Behind = 0
        /\ driver.next = 0
    BY <1>1, <1>3, <1>9, LastIsLast DEF CarriedOut, IsLast, NoneBehind
  <2>4. DriverPlace(t, b)
    BY <1>2, <1>9, <2>2, <2>3 DEF DriverPlace
  <2>5. Counted(t, b)
    <3>1. b.uploads \in Seq(UploadRecs) /\ driver.upload \in 1 .. Len(b.uploads)
      BY <1>2, <1>4, <1>9, <2>3 DEF Buckets
    <3>2. b.uploads[driver.upload].bytes \in Nat
      <4>1. b.uploads[driver.upload] \in UploadRecs
        BY <3>1
      <4> QED BY <4>1 DEF UploadRecs
    <3>3. written = Behind + driver.next + b.uploads[driver.upload].bytes
      BY <1>1, <1>9 DEF CarriedOut
    <3>4. written = b.uploads[driver.upload].bytes
      BY <2>3, <3>2, <3>3
    <3> QED BY <2>2, <3>4 DEF Counted
  <2>6. NoneLoose(t, b, stray)
    <3>1. ASSUME NEW v \in 1 .. Len(b.uploads), b.uploads[v].open
          PROVE  v \in stray \/ (v = t.upload /\ t.pc \notin {"stored", "failed"})
      <4>1. v \in stray \/ v = driver.upload
        BY <1>1, <1>3, <2>3, <3>1 DEF CarriedOut, NoneLoose
      <4>2. Commits => v # driver.upload
        BY <1>1, <1>9, <3>1 DEF CarriedOut
      <4> QED BY <2>2, <4>1, <4>2
    <3> QED BY <3>1 DEF NoneLoose
  <2>7. NoneBehind(t)
    BY <2>2, <2>3 DEF NoneBehind
  <2>8. t.pc = "stored" => b.object # None
    BY <1>1, <1>9, <2>2 DEF CarriedOut
  <2> QED BY <1>0, <1>4, <2>2, <2>4, <2>5, <2>6, <2>7, <2>8, RequestEnds
<1>10. CASE driver.pc = "abort"
  <2>1. t = [driver EXCEPT !.pc = "failed"]
    BY <1>10 DEF Done
  <2>2. t \in Drivers /\ t.pc = "failed" /\ t.upload = driver.upload /\ t.want = driver.want
        /\ t.number = driver.number
    BY <1>3, <2>1 DEF Drivers
  <2>3. NoneLoose(t, b, stray)
    <3>1. ASSUME NEW v \in 1 .. Len(b.uploads), b.uploads[v].open
          PROVE  v \in stray
      <4>1. v \in 1 .. Len(bucket.uploads) /\ bucket.uploads[v].open
        BY <1>1, <1>10, <3>1 DEF CarriedOut
      <4>2. v # driver.upload
        BY <1>1, <1>10, <3>1 DEF CarriedOut
      <4> QED BY <1>3, <4>1, <4>2 DEF NoneLoose
    <3> QED BY <3>1 DEF NoneLoose
  <2>4. DriverPlace(t, b) /\ Counted(t, b) /\ NoneBehind(t)
    BY <1>3, <2>2 DEF DriverPlace, Counted, NoneBehind
  <2> QED BY <1>0, <1>4, <2>2, <2>3, <2>4, RequestEnds
<1> QED BY <1>0, <1>6, <1>7, <1>8, <1>9, <1>10 DEF InRequest

\* It tries again, or gives the request up.
LEMMA TriedAgainStep == UploadIInv /\ TriedAgain => UploadIInv'
<1> SUFFICES ASSUME UploadIInv, TriedAgain PROVE UploadIInv'
  OBVIOUS
<1>1. PICK b \in Outcomes : Request(b, [driver EXCEPT !.tries = @ + 1]) /\ Unheard(b)
  BY DEF TriedAgain
<1>2. InRequest
  BY DEF TriedAgain
<1>3. PICK t : t = [driver EXCEPT !.tries = @ + 1]
  OBVIOUS
<1>4. driver \in Drivers /\ NoneBehind(driver) /\ driver.tries \in Nat
  BY DriverFacts DEF UploadIInv, UploadTypeOK
<1>5. /\ t \in Drivers /\ t.pc = driver.pc /\ t.want = driver.want /\ t.current = driver.current
      /\ t.next = driver.next /\ t.number = driver.number /\ t.upload = driver.upload
  <2>1. ASSUME NEW n \in Nat
        PROVE  LET d == [driver EXCEPT !.tries = n] IN
               /\ d \in Drivers /\ d.pc = driver.pc /\ d.want = driver.want /\ d.current = driver.current
               /\ d.next = driver.next /\ d.number = driver.number /\ d.upload = driver.upload
    BY <1>4 DEF Drivers
  <2>2. driver.tries + 1 \in Nat
    BY <1>4
  <2> QED BY <1>3, <2>1, <2>2
<1>6. /\ b \in Buckets /\ WholeObject(b) /\ (bucket.object # None => b.object # None)
      /\ DriverPlace(driver, b) /\ Counted(driver, b)
      /\ NoneLoose(driver, b, stray')
  BY <1>1, <1>2, OutcomeStands DEF Unheard
<1>7. DriverPlace(t, b) /\ NoneLoose(t, b, stray') /\ NoneBehind(t)
  BY <1>4, <1>5, <1>6 DEF DriverPlace, NoneLoose, NoneBehind
<1>8. Counted(t, b)
  BY <1>5, <1>6 DEF Counted
<1>9. t.pc # "stored"
  BY <1>2, <1>5 DEF InRequest
<1> QED BY <1>1, <1>2, <1>3, <1>5, <1>6, <1>7, <1>8, <1>9, RequestEnds

LEMMA GivenUpStep == UploadIInv /\ GivenUp => UploadIInv'
<1> SUFFICES ASSUME UploadIInv, GivenUp PROVE UploadIInv'
  OBVIOUS
<1>1. PICK b \in Outcomes : /\ Request(b, NotDone)
                           /\ IF driver.pc = "abort" THEN stray' = stray \cup {driver.upload} ELSE Unheard(b)
  BY DEF GivenUp
<1>2. InRequest
  BY DEF GivenUp
<1>3. PICK t : t = NotDone
  OBVIOUS
<1>4. driver \in Drivers /\ DriverPlace(driver, bucket)
  BY DEF UploadIInv, UploadTypeOK
<1>5. driver.want = "next"
  <2>1. driver.pc \in {"put", "begin", "send", "complete"} => driver.want = "next"
    BY <1>4 DEF DriverPlace
  <2>2. driver.pc = "abort" => driver.want = "next"
    BY <1>4, DriverFacts DEF DriverPlace, Drivers, None
  <2> QED BY <1>2, <2>1, <2>2 DEF InRequest
<1>6. /\ t \in Drivers /\ t.want = "next" /\ t.upload = driver.upload
      /\ t.pc = IF driver.pc = "abort" \/ driver.upload = None THEN "failed" ELSE "abort"
  <2>1. ASSUME NEW p \in {"failed", "abort"}, NEW n \in Nat
        PROVE  LET d == [driver EXCEPT !.pc = p, !.tries = n] IN
               d \in Drivers /\ d.pc = p /\ d.want = driver.want /\ d.upload = driver.upload
    BY <1>4 DEF Drivers
  <2>2. [driver EXCEPT !.pc = "failed"] \in Drivers
        /\ [driver EXCEPT !.pc = "failed"].pc = "failed"
        /\ [driver EXCEPT !.pc = "failed"].want = driver.want
        /\ [driver EXCEPT !.pc = "failed"].upload = driver.upload
    BY <1>4 DEF Drivers
  <2>3. CASE driver.pc = "abort"
    BY <1>3, <1>5, <2>2, <2>3 DEF NotDone
  <2>4. CASE driver.pc # "abort" /\ driver.upload = None
    BY <1>3, <1>5, <2>1, <2>4 DEF NotDone, Fails
  <2>5. CASE driver.pc # "abort" /\ driver.upload # None
    BY <1>3, <1>5, <2>1, <2>5 DEF NotDone, Fails
  <2> QED BY <2>3, <2>4, <2>5
<1>7. /\ b \in Buckets /\ WholeObject(b) /\ (bucket.object # None => b.object # None)
      /\ DriverPlace(driver, b)
      /\ NoneLoose(driver, b, stray \cup (DOMAIN b.uploads \ DOMAIN bucket.uploads))
      /\ driver.pc # "begin" => NoneLoose(driver, b, stray)
  BY <1>2, OutcomeStands
<1>8. NoneLoose(t, b, stray')
  <2> SUFFICES ASSUME NEW v \in 1 .. Len(b.uploads), b.uploads[v].open
               PROVE  v \in stray' \/ (v = t.upload /\ t.pc \notin {"stored", "failed"})
    BY DEF NoneLoose
  <2>1. CASE driver.pc = "abort"
    <3>1. NoneLoose(driver, b, stray) /\ stray' = stray \cup {driver.upload}
      BY <1>1, <1>7, <2>1
    <3> QED BY <3>1 DEF NoneLoose
  <2>2. CASE driver.pc # "abort"
    <3>1. NoneLoose(driver, b, stray')
      BY <1>1, <1>7, <2>2 DEF Unheard
    <3>2. v # None
      BY DEF None
    <3> QED BY <1>6, <2>2, <3>1, <3>2 DEF NoneLoose
  <2> QED BY <2>1, <2>2
<1>9. DriverPlace(t, b)
  <2>1. t.pc = "abort" => t.upload \in 1 .. Len(b.uploads)
    BY <1>2, <1>6, <1>7 DEF DriverPlace, InRequest
  <2> QED BY <1>6, <2>1 DEF DriverPlace
<1>10. Counted(t, b) /\ NoneBehind(t)
  BY <1>6 DEF Counted, NoneBehind
<1>11. t.pc # "stored"
  BY <1>6
<1> QED BY <1>1, <1>2, <1>3, <1>6, <1>7, <1>8, <1>9, <1>10, <1>11, RequestEnds

\* The count stands when as much is written as comes to be behind the driver.
LEMMA CountStands ==
  ASSUME UploadIInv, UNCHANGED <<driver, bucket>>, NEW n \in Nat, written' = written + n, Behind' = Behind + n,
         driver.pc \in {"put", "complete"} => n = 0
  PROVE  Counted(driver, bucket)'
<1>1. /\ driver.current \in Nat /\ driver.next \in Nat /\ written \in Nat
      /\ driver.upload \in 1 .. Len(bucket.uploads) => bucket.uploads[driver.upload].bytes \in Nat
  <2>1. driver.upload \in 1 .. Len(bucket.uploads) => bucket.uploads[driver.upload] \in UploadRecs
    BY DriverFacts
  <2> QED BY <2>1, DriverFacts DEF UploadRecs
<1>2. Behind \in Nat /\ Counted(driver, bucket) /\ DriverPlace(driver, bucket)
  BY BehindIsNat DEF UploadIInv
<1>3. Counted(driver, bucket)' <=>
        LET up == bucket.uploads[driver.upload] IN
        /\ driver.pc = "reading" /\ driver.want = "first" => written' = Behind'
        /\ driver.pc = "reading" /\ driver.want = "second" => written' = Behind' + driver.current
        /\ driver.pc = "reading" /\ driver.want = "next" =>
              up.parts = driver.number - 1 /\ written' = Behind' + driver.current + up.bytes
        /\ driver.pc = "put" => written' = driver.current
        /\ driver.pc = "begin" => driver.number = 1 /\ written' = Behind' + driver.next + driver.current
        /\ driver.pc = "send" =>
              \/ up.parts = driver.number - 1 /\ written' = Behind' + driver.next + driver.current + up.bytes
              \/ up.parts = driver.number /\ written' = Behind' + driver.next + up.bytes
        /\ driver.pc = "complete" => written' = up.bytes
        /\ driver.want # "next" => driver.number = 1
  BY DEF Counted
<1>4. driver.pc = "send" \/ (driver.pc = "reading" /\ driver.want = "next") =>
        bucket.uploads[driver.upload].bytes \in Nat
  BY <1>1, <1>2 DEF DriverPlace
<1>5. Behind' = Behind + n /\ written' = written + n /\ (driver.pc \in {"put", "complete"} => n = 0)
  OBVIOUS
<1> DEFINE x == bucket.uploads[driver.upload].bytes
<1>6. /\ written = Behind => written' = Behind'
      /\ written = Behind + driver.current => written' = Behind' + driver.current
      /\ written = Behind + driver.next + driver.current => written' = Behind' + driver.next + driver.current
      /\ driver.current \in Nat /\ driver.next \in Nat /\ written \in Nat /\ Behind \in Nat
  <2>1. driver.current \in Nat /\ driver.next \in Nat /\ written \in Nat /\ Behind \in Nat
    BY <1>1, <1>2
  <2>2. written = Behind => written' = Behind'
    BY <1>5
  <2>3. ASSUME written = Behind + driver.current PROVE written' = Behind' + driver.current
    BY <1>5, <2>1, <2>3
  <2>4. ASSUME written = Behind + driver.next + driver.current
        PROVE  written' = Behind' + driver.next + driver.current
    BY <1>5, <2>1, <2>4
  <2> QED BY <2>1, <2>2, <2>3, <2>4
<1> HIDE DEF x
<1>7. ASSUME x \in Nat
      PROVE  /\ written = Behind + driver.current + x => written' = Behind' + driver.current + x
             /\ written = Behind + driver.next + x => written' = Behind' + driver.next + x
             /\ written = Behind + driver.next + driver.current + x =>
                  written' = Behind' + driver.next + driver.current + x
  <2>1. ASSUME written = Behind + driver.current + x PROVE written' = Behind' + driver.current + x
    BY <1>5, <1>6, <1>7, <2>1
  <2>2. ASSUME written = Behind + driver.next + x PROVE written' = Behind' + driver.next + x
    BY <1>5, <1>6, <1>7, <2>2
  <2>3. ASSUME written = Behind + driver.next + driver.current + x
        PROVE  written' = Behind' + driver.next + driver.current + x
    BY <1>5, <1>6, <1>7, <2>3
  <2> QED BY <2>1, <2>2, <2>3
<1>8. driver.pc \in {"put", "complete"} => written' = written
  BY <1>1, <1>5
<1>9. Counted(driver, bucket) <=>
        LET up == bucket.uploads[driver.upload] IN
        /\ driver.pc = "reading" /\ driver.want = "first" => written = Behind
        /\ driver.pc = "reading" /\ driver.want = "second" => written = Behind + driver.current
        /\ driver.pc = "reading" /\ driver.want = "next" =>
              up.parts = driver.number - 1 /\ written = Behind + driver.current + x
        /\ driver.pc = "put" => written = driver.current
        /\ driver.pc = "begin" => driver.number = 1 /\ written = Behind + driver.next + driver.current
        /\ driver.pc = "send" =>
              \/ up.parts = driver.number - 1 /\ written = Behind + driver.next + driver.current + x
              \/ up.parts = driver.number /\ written = Behind + driver.next + x
        /\ driver.pc = "complete" => written = x
        /\ driver.want # "next" => driver.number = 1
  BY DEF Counted, x
<1>10. CASE driver.pc = "send"
  BY <1>2, <1>3, <1>4, <1>7, <1>9, <1>10 DEF x
<1>11. CASE driver.pc # "send"
  BY <1>2, <1>3, <1>4, <1>6, <1>7, <1>8, <1>9, <1>11 DEF x
<1> QED BY <1>10, <1>11

(* The recorder's calls, which move nothing but its own place.             *)
LEMMA RecorderMoves ==
  ASSUME UploadIInv, UNCHANGED <<store, written, chunks, source, driver, bucket, stray>>,
         alive' \in BOOLEAN, marker' \in BOOLEAN, writer' \in Writers, AllWritten => AllWritten',
         writer' = "ok" => bucket.object # None, alive' /\ ~marker' => Ended
  PROVE  UploadIInv'
<1>1. Behind' = Behind + 0 /\ written' = written + 0
  <2>1. Behind \in Nat /\ written \in Nat
    BY BehindIsNat DEF UploadIInv, UploadTypeOK
  <2> QED BY <2>1 DEF Behind
<1>2. Counted(driver, bucket)'
  BY <1>1, CountStands
<1>3. UploadTypeOK' /\ FinishIsLast'
  BY DEF UploadIInv, UploadTypeOK, FinishIsLast
<1>4. DriverPlace(driver, bucket)' /\ NoneLoose(driver, bucket, stray)' /\ NoneBehind(driver)' /\ WholeObject(bucket)'
  BY DEF UploadIInv, DriverPlace, NoneLoose, NoneBehind, WholeObject
<1>5. Ended' = Ended
  BY DEF Ended
<1> QED BY <1>2, <1>3, <1>4, <1>5 DEF UploadIInv

LEMMA QuietSteps ==
  ASSUME UploadIInv, FinishAsked \/ FinishJoined \/ AbortAsked \/ AbortJoined \/ MachineDies
                     \/ UNCHANGED uploadVars
  PROVE  UploadIInv'
<1>0. alive \in BOOLEAN /\ marker \in BOOLEAN /\ writer \in Writers /\ (alive /\ ~marker => Ended)
      /\ (driver.pc = "stored" \/ writer = "ok" => bucket.object # None)
  BY DEF UploadIInv, UploadTypeOK
<1>1. CASE FinishAsked
  BY <1>0, <1>1, RecorderMoves DEF FinishAsked, AllWritten, Writers
<1>2. CASE FinishJoined
  BY <1>0, <1>2, RecorderMoves DEF FinishJoined, AllWritten, Writers
<1>3. CASE AbortAsked
  BY <1>0, <1>3, RecorderMoves DEF AbortAsked, AllWritten, Writers
<1>4. CASE AbortJoined
  BY <1>0, <1>4, RecorderMoves DEF AbortJoined, AllWritten, Writers
<1>5. CASE MachineDies
  BY <1>0, <1>5, RecorderMoves DEF MachineDies, AllWritten
<1>6. CASE UNCHANGED uploadVars
  BY <1>0, <1>6, RecorderMoves DEF uploadVars, AllWritten
<1> QED BY <1>1, <1>2, <1>3, <1>4, <1>5, <1>6

(* A chunk, or Finish, goes into the queue.                                *)
LEMMA QueuedStep ==
  ASSUME UploadIInv, NEW n \in Nat, chunks' = Append(chunks, n), written' = written + n,
         UNCHANGED <<store, alive, marker, source, driver, bucket, stray>>, writer' \in Writers, writer' # "ok",
         ~AllWritten, n = Finish => AllWritten'
  PROVE  UploadIInv'
<1>1. chunks \in Seq(Nat) /\ written \in Nat /\ source.buf \in Nat
  BY BehindIsNat DEF UploadIInv, UploadTypeOK
<1>2. chunks' \in Seq(Nat) /\ Len(chunks') = Len(chunks) + 1 /\ chunks'[Len(chunks) + 1] = n
      /\ Len(chunks) \in Nat /\ \A i \in 1 .. Len(chunks) : chunks'[i] = chunks[i]
  BY <1>1
<1>3. ~source.finished /\ \A i \in 1 .. Len(chunks) : chunks[i] # Finish
  BY DEF UploadIInv, FinishIsLast
<1>4. FinishIsLast'
  BY <1>2, <1>3 DEF FinishIsLast
<1>5. UploadTypeOK'
  BY <1>1, <1>2 DEF UploadIInv, UploadTypeOK
<1>6. Behind' = Behind + n
  <2>1. Total(chunks') = Total(chunks) + n /\ Total(chunks) \in Nat
    BY <1>1, TotalAppend
  <2> QED BY <1>1, <2>1 DEF Behind
<1>7. Counted(driver, bucket)'
  <2>1. driver.pc \notin {"put", "complete"}
    BY <1>3 DEF UploadIInv, NoneBehind
  <2> QED BY <1>6, <2>1, CountStands
<1>8. DriverPlace(driver, bucket)' /\ NoneLoose(driver, bucket, stray)' /\ NoneBehind(driver)'
  BY DEF UploadIInv, DriverPlace, NoneLoose, NoneBehind
<1>9. WholeObject(bucket)' /\ bucket.object = None
  BY <1>3 DEF UploadIInv, WholeObject
<1>10. Ended' = Ended
  BY DEF Ended
<1> QED BY <1>4, <1>5, <1>7, <1>8, <1>9, <1>10 DEF UploadIInv

\* A driver that fails while it reads leaves its upload to be aborted, if it has one.
LEMMA FailsInPlace ==
  ASSUME UploadIInv, driver.pc = "reading"
  PROVE  LET t == Fails(driver) IN
         /\ t \in Drivers /\ t.pc \in {"abort", "failed"}
         /\ DriverPlace(t, bucket) /\ NoneLoose(t, bucket, stray)
         /\ (t.want # "next" => t.number = 1) /\ NoneBehind(t)
<1> SUFFICES ASSUME NEW t, t = Fails(driver)
             PROVE  /\ t \in Drivers /\ t.pc \in {"abort", "failed"}
                    /\ DriverPlace(t, bucket) /\ NoneLoose(t, bucket, stray)
                    /\ (t.want # "next" => t.number = 1) /\ NoneBehind(t)
  OBVIOUS
<1>1. driver \in Drivers /\ DriverPlace(driver, bucket) /\ NoneLoose(driver, bucket, stray)
      /\ (driver.want # "next" => driver.number = 1)
  BY DEF UploadIInv, UploadTypeOK, Counted
<1>2. ASSUME NEW p \in {"failed", "abort"}
      PROVE  LET d == [driver EXCEPT !.pc = p, !.tries = 0] IN
             d \in Drivers /\ d.pc = p /\ d.want = driver.want /\ d.upload = driver.upload /\ d.number = driver.number
  BY <1>1 DEF Drivers
<1>3. /\ t \in Drivers /\ t.pc = (IF driver.upload = None THEN "failed" ELSE "abort")
      /\ t.want = driver.want /\ t.upload = driver.upload /\ t.number = driver.number
  BY <1>2 DEF Fails
<1>4. driver.want \in {"first", "second", "next"}
  BY <1>1 DEF Drivers
<1>5. DriverPlace(t, bucket)
  BY <1>1, <1>3, <1>4 DEF DriverPlace
<1>6. NoneLoose(t, bucket, stray)
  <2>1. \A v \in 1 .. Len(bucket.uploads) : v # None
    BY DEF None
  <2> QED BY <1>1, <1>3, <2>1 DEF NoneLoose
<1> QED BY <1>1, <1>3, <1>5, <1>6 DEF NoneBehind

(* The driver's task takes a message from the queue.                       *)
LEMMA RecvStep == UploadIInv /\ Recv => UploadIInv'
<1> SUFFICES ASSUME UploadIInv, Recv PROVE UploadIInv'
  OBVIOUS
<1>1. /\ alive /\ driver.pc = "reading" /\ ~source.finished
      /\ UNCHANGED <<store, alive, writer, written, marker, bucket, stray>>
  BY DEF Recv
<1>2. bucket.object = None /\ driver.pc # "stored" /\ writer # "ok"
  BY <1>1 DEF UploadIInv, WholeObject
<1>3. chunks \in Seq(Nat) /\ source \in Sources /\ source.buf \in Nat /\ written \in Nat /\ Behind \in Nat
  BY BehindIsNat DEF UploadIInv, UploadTypeOK
<1>4. alive' => marker' = TRUE
  BY <1>1 DEF UploadIInv, UploadTypeOK, Ended
<1>5. CASE chunks # <<>> /\ chunks' = Tail(chunks) /\ driver' = driver
           /\ source' = IF Head(chunks) = Finish THEN [source EXCEPT !.finished = TRUE]
                        ELSE [source EXCEPT !.buf = @ + Head(chunks)]
  <2> DEFINE h == Head(chunks)
             L == Len(chunks)
  <2>1. /\ Tail(chunks) \in Seq(Nat) /\ h \in Nat /\ Total(Tail(chunks)) \in Nat
        /\ Total(chunks) = h + Total(Tail(chunks))
    BY <1>3, <1>5, TotalTail
  <2>2. /\ h = chunks[1] /\ L \in Nat /\ L >= 1 /\ Len(chunks') = L - 1
        /\ \A i \in 1 .. L - 1 : chunks'[i] = chunks[i + 1]
    BY <1>3, <1>5, HeadTailProperties
  <2>3. \A i \in 1 .. L : chunks[i] = Finish => AllWritten /\ i = L
    BY DEF UploadIInv, FinishIsLast
  <2> HIDE DEF h, L
  <2>4. source' \in Sources /\ source'.buf = source.buf + h
        /\ (source'.finished => h = Finish)
    <3>1. CASE h = Finish
      <4>1. source' = [source EXCEPT !.finished = TRUE] /\ h = 0
        BY <1>5, <3>1 DEF h, Finish
      <4>2. source' \in Sources /\ source'.buf = source.buf
        BY <1>3, <4>1 DEF Sources
      <4>3. source.buf = source.buf + h
        BY <1>3, <4>1
      <4> QED BY <3>1, <4>2, <4>3
    <3>2. CASE h # Finish
      <4>1. source' = [source EXCEPT !.buf = @ + h]
        BY <1>5, <3>2 DEF h
      <4>2. source.buf + h \in Nat
        BY <1>3, <2>1
      <4>3. source' \in Sources /\ source'.buf = source.buf + h /\ source'.finished = source.finished
        BY <1>3, <4>1, <4>2 DEF Sources
      <4> QED BY <1>1, <4>3
    <3> QED BY <3>1, <3>2
  <2>5. FinishIsLast'
    <3>1. ASSUME source'.finished PROVE AllWritten' /\ chunks' = <<>>
      <4>1. AllWritten /\ L = 1
        BY <2>2, <2>3, <2>4, <3>1
      <4>2. chunks' \in Seq(Nat) /\ Len(chunks') = 0
        BY <1>5, <2>1, <2>2, <4>1
      <4> QED BY <1>1, <4>1, <4>2 DEF AllWritten
    <3>2. ASSUME NEW i \in 1 .. Len(chunks'), chunks'[i] = Finish
          PROVE  AllWritten' /\ i = Len(chunks')
      <4>1. i \in 1 .. L - 1 /\ i + 1 \in 1 .. L /\ chunks[i + 1] = Finish
        BY <2>2, <3>2
      <4>2. AllWritten /\ i + 1 = L
        BY <2>3, <4>1
      <4> QED BY <1>1, <2>2, <4>1, <4>2 DEF AllWritten
    <3> QED BY <3>1, <3>2 DEF FinishIsLast
  <2>6. Behind' = Behind + 0 /\ written' = written + 0
    <3>1. Total(chunks') = Total(Tail(chunks))
      BY <1>5
    <3> QED BY <1>1, <1>3, <2>1, <2>4, <3>1 DEF Behind
  <2>7. Counted(driver, bucket)'
    BY <1>1, <1>5, <2>6, CountStands
  <2>8. UploadTypeOK'
    BY <1>1, <1>5, <2>1, <2>4 DEF UploadIInv, UploadTypeOK
  <2>9. DriverPlace(driver, bucket)' /\ NoneLoose(driver, bucket, stray)'
    BY <1>1, <1>5 DEF UploadIInv, DriverPlace, NoneLoose
  <2>10. NoneBehind(driver)' /\ WholeObject(bucket)'
    BY <1>1, <1>2, <1>5 DEF NoneBehind, WholeObject
  <2> QED BY <1>1, <1>2, <1>4, <1>5, <2>5, <2>7, <2>8, <2>9, <2>10 DEF UploadIInv
<1>6. CASE chunks = <<>> /\ driver' = Fails(driver) /\ UNCHANGED <<source, chunks>>
  <2>1. PICK t : t = Fails(driver)
    OBVIOUS
  <2>2. /\ t \in Drivers /\ t.pc \in {"abort", "failed"}
        /\ DriverPlace(t, bucket) /\ NoneLoose(t, bucket, stray)
        /\ (t.want # "next" => t.number = 1) /\ NoneBehind(t)
    BY <1>1, <2>1, FailsInPlace
  <2>3. driver' = t
    BY <1>6, <2>1
  <2>4. UploadTypeOK' /\ FinishIsLast'
    BY <1>1, <1>6, <2>2, <2>3 DEF UploadIInv, UploadTypeOK, FinishIsLast, AllWritten
  <2>5. DriverPlace(driver, bucket)' /\ NoneLoose(driver, bucket, stray)'
    BY <1>1, <2>2, <2>3 DEF DriverPlace, NoneLoose
  <2>6. Counted(driver, bucket)' /\ NoneBehind(driver)' /\ WholeObject(bucket)'
    BY <1>1, <1>2, <2>2, <2>3 DEF Counted, NoneBehind, WholeObject
  <2> QED BY <1>1, <1>2, <1>4, <2>2, <2>3, <2>4, <2>5, <2>6 DEF UploadIInv
<1> QED BY <1>5, <1>6 DEF Recv, EndOfQueue

(* It cuts a part, the last one when the source is finished and empty.     *)
LEMMA PartReadStep == UploadIInv /\ PartRead => UploadIInv'
<1> SUFFICES ASSUME UploadIInv, PartRead PROVE UploadIInv'
  OBVIOUS
<1>1. PICK part : /\ part = Min({source.buf, PART_SIZE})
                  /\ source' = [source EXCEPT !.buf = @ - part]
                  /\ driver' = CASE driver.want = "first" ->
                                     [driver EXCEPT !.current = part, !.want = "second"]
                               [] driver.want = "second" ->
                                     [driver EXCEPT !.next = part, !.want = "next",
                                                    !.pc = IF part = 0 THEN "put" ELSE "begin"]
                               [] driver.want = "next" /\ driver.number > MAX_PARTS -> Fails(driver)
                               [] OTHER -> [driver EXCEPT !.next = part, !.pc = "send"]
  BY DEF PartRead
<1>2. /\ alive /\ driver.pc = "reading" /\ (source.finished \/ source.buf >= PART_SIZE)
      /\ UNCHANGED <<store, alive, writer, written, chunks, marker, bucket, stray>>
  BY DEF PartRead
<1>3. /\ source \in Sources /\ source.buf \in Nat /\ written \in Nat /\ Total(chunks) \in Nat /\ Behind \in Nat
      /\ driver \in Drivers /\ driver.current \in Nat /\ driver.number \in Nat
  BY BehindIsNat, DriverFacts DEF UploadIInv, UploadTypeOK
<1>4. /\ DriverPlace(driver, bucket) /\ NoneLoose(driver, bucket, stray) /\ Counted(driver, bucket)
      /\ WholeObject(bucket) /\ FinishIsLast
  BY DEF UploadIInv
<1>5. PART_SIZE \in Nat /\ PART_SIZE # 0
  BY UploadAssumption
<1>6. /\ part \in Nat /\ part <= source.buf
      /\ part = 0 => source.buf = 0 /\ source.finished
  <2>1. part = IF source.buf <= PART_SIZE THEN source.buf ELSE PART_SIZE
    BY <1>1, <1>3, <1>5, MinOfTwo
  <2> QED BY <1>2, <1>3, <1>5, <2>1
<1>7. /\ source' \in Sources /\ source'.buf = source.buf - part /\ source'.finished = source.finished
  <2>1. source.buf - part \in Nat
    BY <1>3, <1>6
  <2> QED BY <1>1, <1>3, <2>1 DEF Sources
<1>8. Behind' \in Nat /\ Behind = Behind' + part
  BY <1>2, <1>3, <1>6, <1>7 DEF Behind
<1>9. FinishIsLast' /\ WholeObject(bucket)'
  BY <1>2, <1>4, <1>7 DEF FinishIsLast, WholeObject, AllWritten
<1>10. /\ driver.pc = "stored" \/ writer = "ok" => bucket.object # None
       /\ alive' => marker' = TRUE
  BY <1>2 DEF UploadIInv, UploadTypeOK, Ended
<1>11. ASSUME NEW t \in Drivers, driver' = t, DriverPlace(t, bucket), NoneLoose(t, bucket, stray),
              Counted(t, bucket)', NoneBehind(t)', t.pc # "stored"
       PROVE  UploadIInv'
  <2>1. UploadTypeOK'
    BY <1>2, <1>7, <1>11 DEF UploadIInv, UploadTypeOK
  <2>2. DriverPlace(driver, bucket)' /\ NoneLoose(driver, bucket, stray)'
    BY <1>2, <1>11 DEF DriverPlace, NoneLoose
  <2>3. Counted(driver, bucket)' /\ NoneBehind(driver)'
    BY <1>11 DEF Counted, NoneBehind
  <2> QED BY <1>2, <1>9, <1>10, <1>11, <2>1, <2>2, <2>3 DEF UploadIInv
<1>12. CASE driver.want = "first"
  <2>1. PICK t : t = [driver EXCEPT !.current = part, !.want = "second"]
    OBVIOUS
  <2>2. driver' = t
    BY <1>1, <1>12, <2>1
  <2>3. t \in Drivers /\ t.pc = "reading" /\ t.want = "second" /\ t.current = part /\ t.upload = driver.upload
        /\ t.number = driver.number
    BY <1>2, <1>3, <1>6, <2>1 DEF Drivers
  <2>4. DriverPlace(t, bucket) /\ NoneLoose(t, bucket, stray) /\ NoneBehind(t)'
    BY <1>2, <1>4, <1>12, <2>3 DEF DriverPlace, NoneLoose, NoneBehind
  <2>5. Counted(t, bucket)'
    <3>1. written' = Behind' + part /\ t.number = 1
      BY <1>2, <1>4, <1>8, <1>12, <2>3 DEF Counted
    <3> QED BY <2>3, <3>1 DEF Counted
  <2> QED BY <1>11, <2>2, <2>3, <2>4, <2>5
<1>13. CASE driver.want = "second"
  <2>1. PICK t : t = [driver EXCEPT !.next = part, !.want = "next", !.pc = IF part = 0 THEN "put" ELSE "begin"]
    OBVIOUS
  <2>2. driver' = t
    BY <1>1, <1>13, <2>1
  <2>3. t \in Drivers /\ t.pc = (IF part = 0 THEN "put" ELSE "begin") /\ t.want = "next" /\ t.next = part
        /\ t.current = driver.current /\ t.upload = driver.upload /\ t.number = driver.number
    <3>1. ASSUME NEW p \in {"put", "begin"}
          PROVE  LET d == [driver EXCEPT !.next = part, !.want = "next", !.pc = p] IN
                 /\ d \in Drivers /\ d.pc = p /\ d.want = "next" /\ d.next = part
                 /\ d.current = driver.current /\ d.upload = driver.upload /\ d.number = driver.number
      BY <1>3, <1>6 DEF Drivers
    <3> QED BY <2>1, <3>1
  <2>4. DriverPlace(t, bucket) /\ NoneLoose(t, bucket, stray)
    BY <1>2, <1>4, <1>13, <2>3 DEF DriverPlace, NoneLoose
  <2>5. NoneBehind(t)'
    <3>1. part = 0 => source'.finished /\ source'.buf = 0
      BY <1>3, <1>6, <1>7
    <3> QED BY <2>3, <3>1 DEF NoneBehind
  <2>6. Counted(t, bucket)'
    <3>1. written = Behind + driver.current /\ driver.number = 1
      BY <1>2, <1>4, <1>13 DEF Counted
    <3>2. written' = Behind' + part + driver.current
      BY <1>2, <1>3, <1>6, <1>8, <3>1
    <3>3. part = 0 => written' = driver.current
      <4> SUFFICES ASSUME part = 0 PROVE written' = driver.current
        OBVIOUS
      <4>1. source.buf = 0 /\ source.finished
        BY <1>6
      <4>2. Behind = 0
        BY <1>4, <4>1, TotalEmpty DEF FinishIsLast, Behind
      <4> QED BY <1>2, <1>3, <3>1, <4>2
    <3> QED BY <2>3, <3>1, <3>2, <3>3 DEF Counted
  <2> QED BY <1>11, <2>2, <2>3, <2>4, <2>5, <2>6
<1>14. CASE driver.want = "next" /\ driver.number > MAX_PARTS
  <2>1. PICK t : t = Fails(driver)
    OBVIOUS
  <2>2. driver' = t
    BY <1>1, <1>14, <2>1
  <2>3. /\ t \in Drivers /\ t.pc \in {"abort", "failed"}
        /\ DriverPlace(t, bucket) /\ NoneLoose(t, bucket, stray)
        /\ (t.want # "next" => t.number = 1)
    BY <1>2, <2>1, FailsInPlace
  <2>4. Counted(t, bucket)' /\ NoneBehind(t)'
    BY <2>3 DEF Counted, NoneBehind
  <2> QED BY <1>11, <2>2, <2>3, <2>4
<1>15. CASE driver.want = "next" /\ ~(driver.number > MAX_PARTS)
  <2>1. PICK t : t = [driver EXCEPT !.next = part, !.pc = "send"]
    OBVIOUS
  <2>2. driver' = t
    BY <1>1, <1>15, <2>1
  <2>3. t \in Drivers /\ t.pc = "send" /\ t.want = "next" /\ t.next = part
        /\ t.current = driver.current /\ t.upload = driver.upload /\ t.number = driver.number
    BY <1>3, <1>6, <1>15, <2>1 DEF Drivers
  <2>4. driver.upload \in 1 .. Len(bucket.uploads)
    BY <1>2, <1>4, <1>15 DEF DriverPlace
  <2>5. DriverPlace(t, bucket) /\ NoneLoose(t, bucket, stray)
    BY <1>2, <1>4, <2>3, <2>4 DEF DriverPlace, NoneLoose
  <2>6. NoneBehind(t)'
    <3>1. part = 0 => source'.finished /\ source'.buf = 0
      BY <1>3, <1>6, <1>7
    <3> QED BY <2>3, <3>1 DEF NoneBehind
  <2>7. Counted(t, bucket)'
    <3>1. PICK x : x = bucket.uploads[driver.upload].bytes
      OBVIOUS
    <3>2. x \in Nat
      <4>1. bucket.uploads[driver.upload] \in UploadRecs
        BY <2>4, DriverFacts
      <4> QED BY <3>1, <4>1 DEF UploadRecs
    <3>3. bucket.uploads[driver.upload].parts = driver.number - 1 /\ written = Behind + driver.current + x
      BY <1>2, <1>4, <1>15, <3>1 DEF Counted
    <3>4. written' = Behind' + part + driver.current + x
      BY <1>2, <1>3, <1>6, <1>8, <3>2, <3>3
    <3> QED BY <1>2, <2>3, <3>1, <3>3, <3>4 DEF Counted
  <2> QED BY <1>11, <2>2, <2>3, <2>5, <2>6, <2>7
<1> QED
  <2>1. driver.want \in {"first", "second", "next"}
    BY <1>3 DEF Drivers
  <2> QED BY <1>12, <1>13, <1>14, <1>15, <2>1

LEMMA UploadInitial == UploadInit => UploadIInv
<1> SUFFICES ASSUME UploadInit PROVE UploadIInv
  OBVIOUS
<1>1. UploadTypeOK
  BY DEF UploadInit, UploadTypeOK, Writers, Sources, Drivers, Buckets, None
<1>2. FinishIsLast /\ DriverPlace(driver, bucket) /\ NoneLoose(driver, bucket, stray) /\ NoneBehind(driver)
      /\ WholeObject(bucket)
  BY DEF UploadInit, FinishIsLast, DriverPlace, NoneLoose, NoneBehind, WholeObject
<1>3. Counted(driver, bucket)
  <2>1. Behind = 0
    BY TotalEmpty DEF UploadInit, Behind
  <2> QED BY <2>1 DEF UploadInit, Counted
<1> QED BY <1>1, <1>2, <1>3 DEF UploadInit, UploadIInv

LEMMA UploadStep == UploadIInv /\ [UploadNext]_uploadVars => UploadIInv'
<1> SUFFICES ASSUME UploadIInv, [UploadNext]_uploadVars PROVE UploadIInv'
  OBVIOUS
<1>1. ASSUME NEW n \in 1 .. MaxBytes, Write(n) PROVE UploadIInv'
  <2>1. n \in Nat /\ n # Finish
    BY UploadAssumption DEF Finish
  <2>2. writer = "open" /\ writer' = "open"
    BY <1>1 DEF Write
  <2> QED BY <1>1, <2>1, <2>2, QueuedStep DEF Write, AllWritten, Writers
<1>2. CASE FinishSent
  <2>1. writer = "finishing" /\ writer' = "joining"
    BY <1>2 DEF FinishSent
  <2>2. CASE chunks' = Append(chunks, Finish)
    <3>1. Finish \in Nat /\ written' = written + Finish
      BY <1>2 DEF FinishSent, Finish, UploadIInv, UploadTypeOK
    <3> QED BY <1>2, <2>1, <2>2, <3>1, QueuedStep DEF FinishSent, AllWritten, Writers
  <2>3. CASE UNCHANGED chunks
    <3>1. alive' \in BOOLEAN /\ marker' \in BOOLEAN /\ (alive' /\ ~marker' => Ended)
      BY <1>2 DEF FinishSent, UploadIInv, UploadTypeOK
    <3> QED BY <1>2, <2>1, <2>3, <3>1, RecorderMoves DEF FinishSent, AllWritten, Writers
  <2> QED BY <1>2, <2>2, <2>3 DEF FinishSent
<1> QED BY <1>1, <1>2, QuietSteps, RecvStep, PartReadStep, AnsweredStep, TriedAgainStep, GivenUpStep
        DEF UploadNext

(* storage.rs: what stands in the bucket is the whole take, whatever was   *)
(* retried, refused, given up or cut off, for every part and queue size.   *)
THEOREM WholeOrAbsent == UploadSpec => []TakeIsWholeOrAbsent
<1>1. UploadIInv => TakeIsWholeOrAbsent
  BY DEF UploadIInv, WholeObject, FinishIsLast, AllWritten, TakeIsWholeOrAbsent
<1> QED BY <1>1, UploadInitial, UploadStep, PTL DEF UploadSpec

(* sink.rs: a marker gone from a machine that lives covers no request, and *)
(* no upload but those gone astray.                                        *)
THEOREM MarkerCovers == UploadSpec => []MarkerCoversUpload
<1>1. UploadIInv => MarkerCoversUpload
  <2> SUFFICES ASSUME UploadIInv, alive /\ ~marker
               PROVE  Ended /\ \A u \in DOMAIN bucket.uploads : Open(u) => u \in stray
    BY DEF MarkerCoversUpload
  <2>1. Ended /\ NoneLoose(driver, bucket, stray)
    BY DEF UploadIInv
  <2>2. DOMAIN bucket.uploads = 1 .. Len(bucket.uploads)
    BY DriverFacts
  <2> QED BY <2>1, <2>2 DEF Ended, NoneLoose, Open
<1> QED BY <1>1, UploadInitial, UploadStep, PTL DEF UploadSpec

-----------------------------------------------------------------------------
(* The log fed to the host                                                 *)

LogMessages == [lines : Nat, no : Nat]

LogTypeOK ==
    /\ ring \in Seq(Nat) /\ dropped \in Nat /\ logged \in Nat /\ seen \in Nat
    /\ step \in {"idle", "take", "budget", "clear", "send"}
    /\ line \in LogMessages /\ sent \in Seq(LogMessages)

(* Lines are numbered as they are logged, and go from the ring through the *)
(* feed's hand to the link in that order.                                  *)
RingInOrder ==
    /\ \A i \in 1 .. Len(ring) : 0 < ring[i] /\ ring[i] <= logged
    /\ \A i, j \in 1 .. Len(ring) : i < j => ring[i] < ring[j]
CopyInOrder ==
    /\ \A i, j \in 1 .. Len(sent) : i < j /\ sent[j].no > 0 => sent[i].no < sent[j].no
    /\ \A i \in 1 .. Len(sent) : sent[i].no <= logged /\ \A k \in 1 .. Len(ring) : sent[i].no < ring[k]
HandInOrder ==
    line.no > 0 => /\ line.no <= logged
                   /\ \A i \in 1 .. Len(sent) : sent[i].no < line.no
                   /\ \A k \in 1 .. Len(ring) : line.no < ring[k]

WhereTheFeedIs ==
    /\ step = "idle" => seen = 0 /\ line.no = 0
    /\ step = "take" => seen = 0 /\ line.no = 0 /\ ring # <<>>
    /\ step = "clear" => seen > 0
    /\ step \in {"budget", "clear"} => seen <= dropped /\ line.lines = IF seen > 0 THEN seen ELSE 1

(* The lines in the feed's hand that are neither in the ring nor counted   *)
(* as dropped any more.                                                    *)
InHand == IF step = "send" THEN line.lines ELSE IF step = "budget" /\ seen = 0 THEN 1 ELSE 0
NoneMadeUp == Said + InHand + dropped + Len(ring) <= logged

LogIInv == LogTypeOK /\ RingInOrder /\ CopyInOrder /\ HandInOrder /\ WhereTheFeedIs /\ NoneMadeUp

(* What a longer copy says.                                                *)
LEMMA SaidMore ==
  ASSUME NEW q \in Seq(LogMessages), NEW m \in LogMessages
  PROVE  /\ Total([i \in DOMAIN q |-> q[i].lines]) \in Nat
         /\ Total([i \in DOMAIN Append(q, m) |-> Append(q, m)[i].lines]) = Total([i \in DOMAIN q |-> q[i].lines]) + m.lines
<1>1. PICK a : a = Append(q, m)
  OBVIOUS
<1>2. Len(q) \in Nat /\ DOMAIN q = 1 .. Len(q) /\ DOMAIN a = 1 .. Len(q) + 1 /\ a[Len(q) + 1] = m
      /\ \A i \in 1 .. Len(q) : a[i] = q[i]
  BY <1>1
<1>3. PICK t : t = [i \in DOMAIN q |-> q[i].lines]
  OBVIOUS
<1>4. PICK u : u = [i \in DOMAIN a |-> a[i].lines]
  OBVIOUS
<1>5. m.lines \in Nat /\ \A i \in 1 .. Len(q) : q[i].lines \in Nat
  <2>1. \A i \in 1 .. Len(q) : q[i] \in LogMessages
    OBVIOUS
  <2> QED BY <2>1 DEF LogMessages
<1>6. t \in Seq(Nat) /\ Len(t) = Len(q)
  <2>1. t \in [1 .. Len(q) -> Nat] /\ Len(q) \in Nat
    BY <1>2, <1>3, <1>5
  <2> QED BY <2>1
<1>7. u = Append(t, m.lines)
  <2>1. PICK v : v = Append(t, m.lines)
    OBVIOUS
  <2>2. v \in Seq(Nat) /\ Len(v) = Len(q) + 1 /\ v[Len(q) + 1] = m.lines /\ \A i \in 1 .. Len(q) : v[i] = t[i]
    BY <1>2, <1>5, <1>6, <2>1
  <2>3. v = [i \in 1 .. Len(q) + 1 |-> v[i]]
    BY <2>2
  <2>4. \A i \in 1 .. Len(q) + 1 : v[i] = a[i].lines
    <3>1. \A i \in 1 .. Len(q) : v[i] = a[i].lines
      BY <1>2, <1>3, <2>2
    <3>2. v[Len(q) + 1] = a[Len(q) + 1].lines
      BY <1>2, <2>2
    <3>3. \A i \in 1 .. Len(q) + 1 : i \in 1 .. Len(q) \/ i = Len(q) + 1
      BY <1>2
    <3> QED BY <3>1, <3>2, <3>3
  <2>5. u = [i \in 1 .. Len(q) + 1 |-> a[i].lines]
    BY <1>2, <1>4
  <2> QED BY <2>1, <2>3, <2>4, <2>5
<1> QED BY ZenonT(30), <1>1, <1>3, <1>4, <1>5, <1>6, <1>7, TotalAppend

LEMMA LogStarts == LogInit => LogIInv
<1>1. SUFFICES ASSUME LogInit PROVE LogIInv
  OBVIOUS
<1>2. /\ ring = <<>> /\ dropped = 0 /\ logged = 0 /\ step = "idle" /\ seen = 0 /\ sent = <<>>
      /\ line = [lines |-> 1, no |-> 0]
  BY <1>1 DEF LogInit, Line
<1>3. <<>> \in Seq(Nat) /\ <<>> \in Seq(LogMessages) /\ Len(<<>>) = 0
  OBVIOUS
<1>4. line \in LogMessages /\ line.no = 0
  BY <1>2 DEF LogMessages
<1>5. LogTypeOK
  BY <1>2, <1>3, <1>4 DEF LogTypeOK
<1>6. Said = 0
  <2>1. [i \in DOMAIN <<>> |-> sent[i].lines] = <<>>
    OBVIOUS
  <2> QED BY <1>2, <2>1, TotalEmpty DEF Said
<1> QED BY <1>2, <1>3, <1>4, <1>5, <1>6 DEF LogIInv, RingInOrder, CopyInOrder, HandInOrder, WhereTheFeedIs,
                                          NoneMadeUp, InHand

(* LogTail::push, with the oldest line lost when the ring is full.         *)
LEMMA LogKeeps ==
  ASSUME LogIInv, Log
  PROVE  LogIInv'
<1>1. logged' = logged + 1 /\ UNCHANGED <<step, seen, line, sent>>
  BY DEF Log
<1>2. ring \in Seq(Nat) /\ Len(ring) \in Nat /\ dropped \in Nat /\ logged \in Nat /\ RingInOrder
  BY DEF LogIInv, LogTypeOK
<1>3. PICK kept \in Seq(Nat) :
        /\ ring' = Append(kept, logged + 1)
        /\ Len(kept) \in Nat /\ \A i \in 1 .. Len(kept) : kept[i] \in Nat
        /\ \/ kept = ring /\ dropped' = dropped
           \/ ring # <<>> /\ dropped' = dropped + 1 /\ Len(kept) = Len(ring) - 1
              /\ \A i \in 1 .. Len(kept) : kept[i] = ring[i + 1]
  <2>1. CASE Len(ring) >= LOG_TAIL_LINES
    <3>1. ring # <<>>
      <4>1. LOG_TAIL_LINES \in Nat /\ LOG_TAIL_LINES > 0
        BY LogAssumption
      <4>2. Len(ring) > 0
        BY <1>2, <2>1, <4>1
      <4> QED BY <4>2
    <3>2. ring' = Append(Tail(ring), logged + 1) /\ dropped' = dropped + 1
      BY <2>1 DEF Log
    <3>3. Tail(ring) \in Seq(Nat) /\ Len(Tail(ring)) = Len(ring) - 1 /\ Len(Tail(ring)) \in Nat
          /\ \A i \in 1 .. Len(Tail(ring)) : Tail(ring)[i] = ring[i + 1]
      BY <1>2, <3>1, HeadTailProperties
    <3>4. PICK k \in Seq(Nat) : k = Tail(ring)
      BY <3>3
    <3>5. \A i \in 1 .. Len(k) : k[i] \in Nat
      BY <3>4
    <3> QED BY <3>1, <3>2, <3>3, <3>4, <3>5
  <2>2. CASE ~(Len(ring) >= LOG_TAIL_LINES)
    BY <1>2, <2>2 DEF Log
  <2> QED BY <2>1, <2>2
<1>4. PICK n : n = Len(kept)
  OBVIOUS
<1>5. /\ n \in Nat /\ ring' \in Seq(Nat) /\ Len(ring') = n + 1 /\ ring'[n + 1] = logged + 1
      /\ \A i \in 1 .. n : ring'[i] = kept[i]
  BY <1>2, <1>3, <1>4
<1>6. \A i \in 1 .. n + 1 : i \in 1 .. n \/ i = n + 1
  BY <1>5
<1>7. /\ \A i \in 1 .. n : kept[i] \in Nat /\ \E k \in 1 .. Len(ring) : kept[i] = ring[k]
      /\ \A i, j \in 1 .. n : i < j => kept[i] < kept[j]
  <2>1. CASE kept = ring
    BY <1>2, <1>3, <1>4, <2>1 DEF RingInOrder
  <2>2. CASE Len(kept) = Len(ring) - 1 /\ \A i \in 1 .. Len(kept) : kept[i] = ring[i + 1]
    <3>1. \A i \in 1 .. n : i + 1 \in 1 .. Len(ring) /\ kept[i] = ring[i + 1]
      BY <1>2, <1>4, <2>2
    <3>2. \A i, j \in 1 .. n : i < j => kept[i] < kept[j]
      BY <1>2, <1>5, <3>1 DEF RingInOrder
    <3> QED BY <1>3, <1>4, <3>1, <3>2
  <2> QED BY <1>3, <2>1, <2>2
<1>8. \A i \in 1 .. n : 0 < kept[i] /\ kept[i] < logged + 1
  <2> SUFFICES ASSUME NEW i \in 1 .. n PROVE 0 < kept[i] /\ kept[i] < logged + 1
    OBVIOUS
  <2>1. PICK k \in 1 .. Len(ring) : kept[i] = ring[k]
    BY <1>7
  <2>2. 0 < ring[k] /\ ring[k] <= logged /\ kept[i] \in Nat
    BY <1>2, <1>7, <2>1 DEF RingInOrder
  <2> QED BY <1>2, <2>1, <2>2
<1>9. RingInOrder'
  <2>1. \A i \in 1 .. n + 1 : 0 < ring'[i] /\ ring'[i] <= logged + 1
    BY SMTT(30), <1>2, <1>5, <1>6, <1>7, <1>8
  <2>2. ASSUME NEW i \in 1 .. n + 1, NEW j \in 1 .. n + 1, i < j PROVE ring'[i] < ring'[j]
    <3>1. i \in 1 .. n
      BY <1>5, <2>2
    <3>2. CASE j = n + 1
      BY <1>5, <1>8, <3>1, <3>2
    <3>3. CASE j \in 1 .. n
      BY <1>5, <1>7, <2>2, <3>1, <3>3
    <3> QED BY <1>6, <3>2, <3>3
  <2> QED BY <1>1, <1>5, <2>1, <2>2 DEF RingInOrder
<1>10. sent \in Seq(LogMessages) /\ line \in LogMessages /\ line.no \in Nat /\ \A i \in 1 .. Len(sent) : sent[i].no \in Nat
  <2>1. sent \in Seq(LogMessages) /\ line \in LogMessages
    BY DEF LogIInv, LogTypeOK
  <2>2. \A i \in 1 .. Len(sent) : sent[i] \in LogMessages
    BY <2>1
  <2> QED BY <2>1, <2>2 DEF LogMessages
<1>11. ASSUME NEW x \in Nat, x <= logged, \A k \in 1 .. Len(ring) : x < ring[k]
       PROVE  \A k \in 1 .. n + 1 : x < ring'[k]
  <2> SUFFICES ASSUME NEW k \in 1 .. n + 1 PROVE x < ring'[k]
    OBVIOUS
  <2>1. CASE k = n + 1
    BY <1>2, <1>5, <1>11, <2>1
  <2>2. CASE k \in 1 .. n
    <3>1. PICK i \in 1 .. Len(ring) : kept[k] = ring[i]
      BY <1>7, <2>2
    <3> QED BY <1>5, <1>11, <2>2, <3>1
  <2> QED BY <1>6, <2>1, <2>2
<1>12. CopyInOrder'
  <2>1. ASSUME NEW i \in 1 .. Len(sent) PROVE sent[i].no <= logged + 1 /\ \A k \in 1 .. n + 1 : sent[i].no < ring'[k]
    <3>1. sent[i].no \in Nat /\ sent[i].no <= logged /\ \A k \in 1 .. Len(ring) : sent[i].no < ring[k]
      BY <1>10 DEF LogIInv, CopyInOrder
    <3>2. PICK x \in Nat : x = sent[i].no
      BY <3>1
    <3>3. \A k \in 1 .. n + 1 : x < ring'[k]
      BY <1>11, <3>1, <3>2
    <3>4. x <= logged + 1
      BY <1>2, <3>1, <3>2
    <3> QED BY <3>2, <3>3, <3>4
  <2>2. \A i, j \in 1 .. Len(sent) : i < j /\ sent[j].no > 0 => sent[i].no < sent[j].no
    BY DEF LogIInv, CopyInOrder
  <2> QED BY <1>1, <1>5, <2>1, <2>2 DEF CopyInOrder
<1>13. HandInOrder'
  <2>1. SUFFICES ASSUME line.no > 0
                 PROVE  /\ line.no <= logged + 1 /\ \A i \in 1 .. Len(sent) : sent[i].no < line.no
                        /\ \A k \in 1 .. n + 1 : line.no < ring'[k]
    BY <1>1, <1>5 DEF HandInOrder
  <2>2. /\ line.no <= logged /\ \A i \in 1 .. Len(sent) : sent[i].no < line.no
        /\ \A k \in 1 .. Len(ring) : line.no < ring[k]
    BY <2>1 DEF LogIInv, HandInOrder
  <2>3. \A k \in 1 .. n + 1 : line.no < ring'[k]
    BY <1>10, <1>11, <2>2
  <2> QED BY <1>2, <1>10, <2>2, <2>3
<1>14. dropped' \in Nat /\ dropped' >= dropped /\ dropped' + Len(ring') = dropped + Len(ring) + 1
  <2>1. (Len(ring) = n /\ dropped' = dropped) \/ (Len(ring) = n + 1 /\ dropped' = dropped + 1)
    BY <1>2, <1>3, <1>4, <1>5
  <2>2. n \in Nat /\ Len(ring') = n + 1 /\ dropped \in Nat
    BY <1>2, <1>5
  <2>3. CASE Len(ring) = n /\ dropped' = dropped
    BY <2>2, <2>3
  <2>4. CASE Len(ring) = n + 1 /\ dropped' = dropped + 1
    BY <2>2, <2>4
  <2> QED BY <2>1, <2>3, <2>4
<1>15. LogTypeOK'
  BY <1>1, <1>2, <1>5, <1>14 DEF LogIInv, LogTypeOK
<1>16. WhereTheFeedIs'
  <2>1. ring' # <<>>
    BY <1>5
  <2>2. seen \in Nat /\ WhereTheFeedIs
    BY DEF LogIInv, LogTypeOK
  <2>3. seen <= dropped => seen <= dropped'
    BY <1>2, <1>14, <2>2
  <2> QED BY <1>1, <2>1, <2>2, <2>3 DEF WhereTheFeedIs
<1>17. NoneMadeUp'
  <2>1. PICK x \in Nat : x = Said
    <3>1. Said \in Nat
      BY <1>10, SaidMore DEF Said
    <3> QED BY <3>1
  <2>2. PICK y \in Nat : y = InHand
    BY <1>10 DEF InHand, LogMessages
  <2>3. Said' = x /\ InHand' = y
    BY <1>1, <2>1, <2>2 DEF Said, InHand
  <2>4. x + y + dropped + Len(ring) <= logged
    BY <2>1, <2>2 DEF LogIInv, NoneMadeUp
  <2>5. Len(ring') \in Nat
    BY <1>5
  <2> QED BY <1>1, <1>2, <1>14, <2>3, <2>4, <2>5 DEF NoneMadeUp
<1> QED BY <1>9, <1>12, <1>13, <1>15, <1>16, <1>17 DEF LogIInv

(* One iteration of feed_server_log, up to the message it sends.           *)
LEMMA FeedKeeps ==
  ASSUME LogIInv, ReadDropped \/ TakeLine \/ Refuse \/ Spend \/ ClearDropped
  PROVE  LogIInv'
<1>1. sent' = sent /\ logged' = logged
  BY DEF ReadDropped, TakeLine, Refuse, Spend, ClearDropped
<1>2. /\ ring \in Seq(Nat) /\ Len(ring) \in Nat /\ dropped \in Nat /\ logged \in Nat /\ seen \in Nat
      /\ line \in LogMessages /\ sent \in Seq(LogMessages)
      /\ step \in {"idle", "take", "budget", "clear", "send"}
  BY DEF LogIInv, LogTypeOK
<1>3. PICK x \in Nat : x = Said /\ x = Said'
  <2>1. Said \in Nat /\ Said' = Said
    BY <1>1, <1>2, SaidMore DEF Said
  <2> QED BY <2>1
<1>4. line.lines \in Nat /\ line.no \in Nat /\ x + InHand + dropped + Len(ring) <= logged
  BY <1>2, <1>3 DEF LogIInv, NoneMadeUp, LogMessages
<1>5. WhereTheFeedIs /\ RingInOrder /\ CopyInOrder /\ HandInOrder
  BY DEF LogIInv
<1>6. CASE ReadDropped
  <2>1. /\ step = "idle" /\ (dropped > 0 \/ ring # <<>>) /\ seen' = dropped /\ ring' = ring /\ dropped' = dropped
        /\ line' = (IF dropped > 0 THEN Notice(dropped) ELSE line)
        /\ step' = (IF dropped > 0 THEN "budget" ELSE "take")
    BY <1>6 DEF ReadDropped
  <2>2. seen = 0 /\ line.no = 0 /\ InHand = 0
    BY <1>5, <2>1 DEF WhereTheFeedIs, InHand
  <2>3. Notice(dropped) \in LogMessages /\ Notice(dropped).no = 0 /\ Notice(dropped).lines = dropped
    BY <1>2 DEF Notice, LogMessages
  <2>4. line' \in LogMessages /\ line'.no = 0 /\ (dropped > 0 => line'.lines = dropped)
    BY <1>2, <2>1, <2>2, <2>3
  <2>5. LogTypeOK'
    BY <1>1, <1>2, <2>1, <2>4 DEF LogTypeOK
  <2>6. RingInOrder' /\ CopyInOrder'
    BY <1>1, <1>5, <2>1 DEF RingInOrder, CopyInOrder
  <2>7. HandInOrder'
    BY <2>4 DEF HandInOrder
  <2>8. WhereTheFeedIs'
    BY <1>2, <2>1, <2>2, <2>4 DEF WhereTheFeedIs
  <2>9. InHand' = 0
    BY <1>2, <2>1 DEF InHand
  <2>10. NoneMadeUp'
    BY <1>1, <1>3, <1>4, <2>1, <2>2, <2>9 DEF NoneMadeUp
  <2> QED BY <2>5, <2>6, <2>7, <2>8, <2>10 DEF LogIInv
<1>7. CASE TakeLine
  <2>1. /\ step = "take" /\ ring' = Tail(ring) /\ line' = Line(Head(ring)) /\ step' = "budget"
        /\ dropped' = dropped /\ seen' = seen
    BY <1>7 DEF TakeLine
  <2>2. ring # <<>> /\ seen = 0 /\ InHand = 0
    BY <1>5, <2>1 DEF WhereTheFeedIs, InHand
  <2>3. PICK n \in Nat : n = Len(ring) - 1
    BY <1>2, <2>2
  <2>4. ring' \in Seq(Nat) /\ Len(ring') = n /\ \A i \in 1 .. n : ring'[i] = ring[i + 1]
    BY <1>2, <2>1, <2>2, <2>3, HeadTailProperties
  <2>5. PICK h \in Nat : h = ring[1] /\ line' = [lines |-> 1, no |-> h]
    BY <1>2, <2>1, <2>2, HeadTailProperties DEF Line
  <2>6. line' \in LogMessages /\ line'.no = h /\ line'.lines = 1
    BY <2>5 DEF LogMessages
  <2>7. \A i \in 1 .. n : i + 1 \in 1 .. Len(ring) /\ ring'[i] = ring[i + 1]
    BY <1>2, <2>3, <2>4
  <2>8. 1 \in 1 .. Len(ring)
    BY <1>2, <2>3
  <2>9. LogTypeOK'
    BY <1>1, <1>2, <2>1, <2>4, <2>6 DEF LogTypeOK
  <2>10. RingInOrder'
    <3>1. \A i \in 1 .. n : 0 < ring'[i] /\ ring'[i] <= logged
      BY <1>5, <2>7 DEF RingInOrder
    <3>2. \A i, j \in 1 .. n : i < j => i + 1 < j + 1
      BY <2>3
    <3>3. \A i, j \in 1 .. n : i < j => ring'[i] < ring'[j]
      BY <1>5, <2>7, <3>2 DEF RingInOrder
    <3> QED BY <1>1, <2>4, <3>1, <3>3 DEF RingInOrder
  <2>11. CopyInOrder'
    BY <1>1, <1>5, <2>4, <2>7 DEF CopyInOrder
  <2>12. HandInOrder'
    <3>1. h <= logged
      BY <1>5, <2>5, <2>8 DEF RingInOrder
    <3>2. \A i \in 1 .. Len(sent) : sent[i].no < h
      BY <1>5, <2>5, <2>8 DEF CopyInOrder
    <3>3. \A k \in 1 .. n : h < ring'[k]
      <4>1. \A k \in 1 .. n : 1 < k + 1
        BY <2>3
      <4> QED BY <1>5, <2>5, <2>7, <2>8, <4>1 DEF RingInOrder
    <3> QED BY <1>1, <2>4, <2>6, <3>1, <3>2, <3>3 DEF HandInOrder
  <2>13. WhereTheFeedIs'
    BY <1>2, <2>1, <2>2, <2>6 DEF WhereTheFeedIs
  <2>14. InHand' = 1
    BY <2>1, <2>2 DEF InHand
  <2>15. NoneMadeUp'
    BY <1>1, <1>2, <1>3, <1>4, <2>1, <2>2, <2>3, <2>4, <2>14 DEF NoneMadeUp
  <2> QED BY <2>9, <2>10, <2>11, <2>12, <2>13, <2>15 DEF LogIInv
<1>8. CASE Refuse
  <2>1. step = "budget" /\ step' = "idle" /\ line' = [lines |-> 1, no |-> 0] /\ seen' = 0 /\ ring' = ring /\ dropped' = dropped
    BY <1>8 DEF Refuse, Line
  <2>2. line' \in LogMessages /\ line'.no = 0
    BY <2>1 DEF LogMessages
  <2>3. LogTypeOK'
    BY <1>1, <1>2, <2>1, <2>2 DEF LogTypeOK
  <2>4. RingInOrder' /\ CopyInOrder' /\ HandInOrder' /\ WhereTheFeedIs'
    BY <1>1, <1>5, <2>1, <2>2 DEF RingInOrder, CopyInOrder, HandInOrder, WhereTheFeedIs
  <2>5. InHand \in Nat /\ InHand' = 0
    BY <2>1 DEF InHand
  <2>6. NoneMadeUp'
    BY <1>1, <1>2, <1>3, <1>4, <2>1, <2>5 DEF NoneMadeUp
  <2> QED BY <2>3, <2>4, <2>6 DEF LogIInv
<1>9. CASE Spend
  <2>1. /\ step = "budget" /\ step' = (IF seen > 0 THEN "clear" ELSE "send")
        /\ line' = line /\ seen' = seen /\ ring' = ring /\ dropped' = dropped
    BY <1>9 DEF Spend
  <2>2. seen <= dropped /\ line.lines = IF seen > 0 THEN seen ELSE 1
    BY <1>5, <2>1 DEF WhereTheFeedIs
  <2>3. LogTypeOK'
    BY <1>1, <1>2, <2>1 DEF LogTypeOK
  <2>4. RingInOrder' /\ CopyInOrder' /\ HandInOrder'
    BY <1>1, <1>5, <2>1 DEF RingInOrder, CopyInOrder, HandInOrder
  <2>5. WhereTheFeedIs'
    BY <2>1, <2>2 DEF WhereTheFeedIs
  <2>6. InHand' = InHand
    BY <1>2, <2>1, <2>2 DEF InHand
  <2>7. NoneMadeUp'
    BY <1>1, <1>3, <1>4, <2>1, <2>6 DEF NoneMadeUp
  <2> QED BY <2>3, <2>4, <2>5, <2>7 DEF LogIInv
<1>10. CASE ClearDropped
  <2>1. step = "clear" /\ dropped' = 0 /\ step' = "send" /\ ring' = ring /\ seen' = seen /\ line' = line
    BY <1>10 DEF ClearDropped, Cleared
  <2>2. seen <= dropped /\ seen > 0 /\ line.lines = seen
    BY <1>5, <2>1 DEF WhereTheFeedIs
  <2>3. LogTypeOK'
    BY <1>1, <1>2, <2>1 DEF LogTypeOK
  <2>4. RingInOrder' /\ CopyInOrder' /\ HandInOrder' /\ WhereTheFeedIs'
    BY <1>1, <1>5, <2>1 DEF RingInOrder, CopyInOrder, HandInOrder, WhereTheFeedIs
  <2>5. InHand = 0 /\ InHand' = seen
    BY <2>1, <2>2 DEF InHand
  <2>6. NoneMadeUp'
    BY <1>1, <1>2, <1>3, <1>4, <2>1, <2>2, <2>5 DEF NoneMadeUp
  <2> QED BY <2>3, <2>4, <2>6 DEF LogIInv
<1> QED BY <1>6, <1>7, <1>8, <1>9, <1>10

LEMMA SendKeeps ==
  ASSUME LogIInv, SendLine
  PROVE  LogIInv'
<1>1. /\ step = "send" /\ sent' = Append(sent, line) /\ step' = "idle" /\ seen' = 0
      /\ line' = [lines |-> 1, no |-> 0] /\ ring' = ring /\ dropped' = dropped /\ logged' = logged
  BY DEF SendLine, Line
<1>2. /\ ring \in Seq(Nat) /\ Len(ring) \in Nat /\ dropped \in Nat /\ logged \in Nat
      /\ line \in LogMessages /\ sent \in Seq(LogMessages) /\ Len(sent) \in Nat
      /\ RingInOrder /\ CopyInOrder /\ HandInOrder
  BY DEF LogIInv, LogTypeOK
<1>3. PICK n \in Nat : n = Len(sent)
  BY <1>2
<1>4. /\ sent' \in Seq(LogMessages) /\ Len(sent') = n + 1 /\ sent'[n + 1] = line
      /\ \A i \in 1 .. n : sent'[i] = sent[i]
  BY <1>1, <1>2, <1>3
<1>5. \A i \in 1 .. n + 1 : i \in 1 .. n \/ i = n + 1
  BY <1>3
<1>6. line' \in LogMessages /\ line'.no = 0 /\ line.no \in Nat /\ line.lines \in Nat
  BY <1>1, <1>2 DEF LogMessages
<1>7. LogTypeOK'
  BY <1>1, <1>2, <1>4, <1>6 DEF LogTypeOK
<1>8. RingInOrder' /\ HandInOrder' /\ WhereTheFeedIs'
  BY <1>1, <1>2, <1>6 DEF RingInOrder, HandInOrder, WhereTheFeedIs
<1>9. CopyInOrder'
  <2>1. ASSUME NEW i \in 1 .. n + 1, NEW j \in 1 .. n + 1, i < j, sent'[j].no > 0 PROVE sent'[i].no < sent'[j].no
    <3>1. i \in 1 .. n
      BY <1>3, <2>1
    <3>2. CASE j = n + 1
      BY <1>2, <1>3, <1>4, <2>1, <3>1, <3>2 DEF HandInOrder
    <3>3. CASE j \in 1 .. n
      BY <1>2, <1>3, <1>4, <2>1, <3>1, <3>3 DEF CopyInOrder
    <3> QED BY <1>5, <3>2, <3>3
  <2>2. ASSUME NEW i \in 1 .. n + 1 PROVE sent'[i].no <= logged /\ \A k \in 1 .. Len(ring) : sent'[i].no < ring[k]
    <3>1. CASE i \in 1 .. n
      BY <1>2, <1>3, <1>4, <3>1 DEF CopyInOrder
    <3>2. CASE i = n + 1 /\ line.no > 0
      BY <1>2, <1>4, <3>2 DEF HandInOrder
    <3>3. CASE i = n + 1 /\ line.no = 0
      BY <1>2, <1>4, <3>3 DEF RingInOrder
    <3> QED BY <1>5, <1>6, <3>1, <3>2, <3>3
  <2> QED BY <1>1, <1>4, <2>1, <2>2 DEF CopyInOrder
<1>10. NoneMadeUp'
  <2>1. Said \in Nat /\ Said' = Said + line.lines
    BY <1>1, <1>2, SaidMore DEF Said
  <2>2. InHand = line.lines /\ InHand' = 0
    BY <1>1 DEF InHand
  <2>3. Said + line.lines + dropped + Len(ring) <= logged
    BY <2>2 DEF LogIInv, NoneMadeUp
  <2> QED BY <1>1, <1>2, <1>6, <2>1, <2>2, <2>3 DEF NoneMadeUp
<1> QED BY <1>7, <1>8, <1>9, <1>10 DEF LogIInv

LEMMA LogStep == LogIInv /\ [LogNext]_logVars => LogIInv'
<1>1. ASSUME LogIInv, Refill \/ Acknowledge \/ UNCHANGED logVars PROVE LogIInv'
  <2>1. UNCHANGED <<ring, dropped, logged, step, seen, line, sent>>
    BY <1>1 DEF Refill, Acknowledge, logVars
  <2>2. Said' = Said /\ InHand' = InHand
    BY <2>1 DEF Said, InHand
  <2> QED BY <1>1, <2>1, <2>2 DEF LogIInv, LogTypeOK, RingInOrder, CopyInOrder, HandInOrder, WhereTheFeedIs, NoneMadeUp
<1> QED BY <1>1, LogKeeps, FeedKeeps, SendKeeps DEF LogNext

(* The host's copy of the server's log is in order and without repeats,    *)
(* and it claims no more lines than were logged: the ring of logtail.rs    *)
(* and feed_server_log, which takes the ring's lock anew for each of its   *)
(* steps, for every capacity, budget and number of lines.                  *)
THEOREM CopyIsHonest == LogSpec => []NothingMadeUp
<1>1. LogIInv => NothingMadeUp
  <2>1. SUFFICES ASSUME LogIInv PROVE NothingMadeUp
    OBVIOUS
  <2>2. sent \in Seq(LogMessages)
    BY <2>1 DEF LogIInv, LogTypeOK
  <2>3. \A i, j \in LinesSent : j < i => sent[j].no < sent[i].no
    BY <2>1, <2>2 DEF LogIInv, CopyInOrder, LinesSent
  <2>4. ASSUME step = "idle" PROVE Said + dropped + Len(ring) <= logged
    <3>1. InHand = 0
      BY <2>4 DEF InHand
    <3>2. Said + 0 + dropped + Len(ring) <= logged
      BY <2>1, <3>1 DEF LogIInv, NoneMadeUp
    <3>3. Said \in Nat
      <4>1. line \in LogMessages
        BY <2>1 DEF LogIInv, LogTypeOK
      <4> QED BY <2>2, <4>1, SaidMore DEF Said
    <3> QED BY <3>2, <3>3
  <2> QED BY <2>3, <2>4 DEF NothingMadeUp
<1> QED BY <1>1, LogStarts, LogStep, PTL DEF LogSpec
-----------------------------------------------------------------------------
(* The recorder (Recorder).  What has been asked of the thread is one      *)
(* sequence, the channel and the message the run loop is blocked on: a     *)
(* control message or a tick joins its end, the thread takes its head.     *)
OpMsgs == [op : Ops, at : Nat]
TickMsgs == [op : {"tick"}, gap : Nat, heard : SUBSET Musicians]
Orders == OpMsgs \cup TickMsgs

Asks == queue \o waiting

(* The ticks that come after a place of the sequence, silence included.    *)
TicksAfter(q, k) == Total([i \in 1 .. Len(q) |-> IF i > k THEN Worth(q[i]) ELSE 0])

LEMMA OrderWorth ==
    ASSUME NEW m \in Orders
    PROVE  /\ Worth(m) \in Nat
           /\ m.op \in {"start", "stop", "shutdown", "tick"}
           /\ m.op = "tick" => m \in TickMsgs /\ Worth(m) = m.gap + 1
           /\ m.op # "tick" => m \in OpMsgs /\ Worth(m) = 0
BY DEF Orders, OpMsgs, TickMsgs, Ops, Worth

LEMMA OwedAppend ==
    ASSUME NEW q \in Seq(Orders), NEW m \in Orders, NEW k \in 0 .. Len(q)
    PROVE  /\ TicksAfter(q, k) \in Nat
           /\ TicksAfter(Append(q, m), k) = TicksAfter(q, k) + Worth(m)
<1> PICK L \in Nat : L = Len(q)
  OBVIOUS
<1> PICK w : w = [i \in 1 .. L |-> IF i > k THEN Worth(q[i]) ELSE 0]
  OBVIOUS
<1> PICK v : v = [i \in 1 .. L + 1 |-> IF i > k THEN Worth(Append(q, m)[i]) ELSE 0]
  OBVIOUS
<1>1. Worth(m) \in Nat
  BY OrderWorth
<1>2. \A i \in 1 .. L : Worth(q[i]) \in Nat
  BY OrderWorth
<1>3. w \in Seq(Nat) /\ Len(w) = L
  BY <1>2
<1>4. Append(w, Worth(m)) \in Seq(Nat) /\ Len(Append(w, Worth(m))) = L + 1
  BY <1>1, <1>3
<1>5. Len(Append(q, m)) = L + 1 /\ Append(q, m)[L + 1] = m /\ \A i \in 1 .. L : Append(q, m)[i] = q[i]
  OBVIOUS
<1>6. v \in Seq(Nat) /\ Len(v) = L + 1
  BY <1>1, <1>2, <1>5
<1>7. ASSUME NEW i \in 1 .. L + 1 PROVE v[i] = Append(w, Worth(m))[i]
  <2>1. CASE i \in 1 .. L
    <3>1. Append(w, Worth(m))[i] = w[i]
      BY <1>1, <1>3, <2>1
    <3> QED BY <1>5, <2>1, <3>1
  <2>2. CASE i = L + 1
    <3>1. Append(w, Worth(m))[i] = Worth(m)
      BY <1>1, <1>3, <2>2
    <3>2. i > k
      BY <2>2
    <3> QED BY <1>5, <2>2, <3>1, <3>2
  <2> QED BY <2>1, <2>2
<1>8. v = Append(w, Worth(m))
  BY <1>4, <1>6, <1>7, SeqEqual
<1>9. TicksAfter(q, k) = Total(w) /\ TicksAfter(Append(q, m), k) = Total(v)
  BY <1>5 DEF TicksAfter
<1>10. Total(w) \in Nat /\ Total(Append(w, Worth(m))) = Total(w) + Worth(m)
  BY <1>1, <1>3, TotalAppend
<1> QED BY <1>8, <1>9, <1>10

LEMMA OwedTail ==
    ASSUME NEW q \in Seq(Orders), q # <<>>, NEW k \in 0 .. Len(q)
    PROVE  /\ k > 0 => TicksAfter(Tail(q), k - 1) = TicksAfter(q, k)
           /\ k = 0 => TicksAfter(q, 0) = Worth(Head(q)) + TicksAfter(Tail(q), 0)
           /\ TicksAfter(q, k) \in Nat
<1> PICK L \in Nat : L = Len(q)
  OBVIOUS
<1> PICK r \in Seq(Orders) : r = Tail(q)
  BY HeadTailProperties
<1> PICK l \in Nat : l = IF k = 0 THEN 0 ELSE k - 1
  OBVIOUS
<1> PICK w : w = [i \in 1 .. L |-> IF i > k THEN Worth(q[i]) ELSE 0]
  OBVIOUS
<1> PICK v : v = [i \in 1 .. L - 1 |-> IF i > l THEN Worth(r[i]) ELSE 0]
  OBVIOUS
<1>1. L >= 1 /\ Len(r) = L - 1 /\ Head(q) = q[1] /\ Head(q) \in Orders /\ \A i \in 1 .. L - 1 : r[i] = q[i + 1]
  BY HeadTailProperties
<1>2. (\A i \in 1 .. L : Worth(q[i]) \in Nat) /\ Worth(Head(q)) \in Nat
  BY <1>1, OrderWorth
<1>3. w \in Seq(Nat) /\ Len(w) = L /\ w # <<>> /\ Head(w) = IF k = 0 THEN Worth(Head(q)) ELSE 0
  BY <1>1, <1>2
<1>4. \A i \in 1 .. L - 1 : Worth(r[i]) \in Nat
  BY <1>1, OrderWorth
<1>5. v \in Seq(Nat) /\ Len(v) = L - 1
  BY <1>1, <1>4
<1>6. Tail(w) \in Seq(Nat) /\ Len(Tail(w)) = L - 1 /\ \A i \in 1 .. L - 1 : Tail(w)[i] = w[i + 1]
  BY <1>3, HeadTailProperties
<1>7. ASSUME NEW i \in 1 .. L - 1 PROVE v[i] = Tail(w)[i]
  <2>1. i + 1 \in 1 .. L /\ (i > l <=> i + 1 > k)
    BY <1>1
  <2>2. r[i] = q[i + 1]
    BY <1>1
  <2> QED BY <1>6, <2>1, <2>2
<1>8. v = Tail(w)
  BY <1>5, <1>6, <1>7, SeqEqual
<1>9. TicksAfter(q, k) = Total(w) /\ TicksAfter(r, l) = Total(v)
  BY <1>1 DEF TicksAfter
<1>10. Total(v) \in Nat /\ Head(w) \in Nat /\ Total(w) = Head(w) + Total(v)
  BY <1>3, <1>8, TotalTail
<1>11. TicksAfter(q, k) = (IF k = 0 THEN Worth(Head(q)) ELSE 0) + TicksAfter(Tail(q), l)
  BY <1>3, <1>9, <1>10
<1>12. TicksAfter(Tail(q), l) \in Nat
  BY <1>9, <1>10
<1>13. CASE k = 0
  <2>1. TicksAfter(q, 0) = Worth(Head(q)) + TicksAfter(Tail(q), 0)
    BY <1>11, <1>13
  <2>2. TicksAfter(q, k) \in Nat
    BY <1>2, <1>11, <1>12, <1>13
  <2> QED BY <1>13, <2>1, <2>2
<1>14. CASE k > 0
  <2>1. l = k - 1 /\ k # 0
    BY <1>14
  <2>2. TicksAfter(Tail(q), k - 1) \in Nat
    BY <1>12, <2>1
  <2>3. TicksAfter(q, k) = 0 + TicksAfter(Tail(q), k - 1)
    BY <1>11, <2>1
  <2> QED BY <2>1, <2>2, <2>3
<1> QED BY <1>13, <1>14

LEMMA OwedAtEnd ==
    ASSUME NEW q \in Seq(Orders), NEW k \in Nat, Len(q) <= k
    PROVE  TicksAfter(q, k) = 0
<1> PICK L \in Nat : L = Len(q)
  OBVIOUS
<1> PICK w : w = [i \in 1 .. L |-> 0]
  OBVIOUS
<1> PICK t : t = [i \in 0 .. L |-> 0]
  OBVIOUS
<1>1. w \in Seq(Nat) /\ Len(w) = L
  OBVIOUS
<1>2. t \in [0 .. L -> Nat] /\ t[0] = 0 /\ t[L] = 0 /\ \A i \in 1 .. L : t[i] = t[i - 1] + w[i]
  OBVIOUS
<1>3. Tallied(w, t)
  BY <1>1, <1>2 DEF Tallied
<1>4. Total(w) = 0
  BY <1>1, <1>2, <1>3, TotalIsTally
<1>5. [i \in 1 .. L |-> IF i > k THEN Worth(q[i]) ELSE 0] = w
  OBVIOUS
<1> QED BY <1>4, <1>5 DEF TicksAfter

(* A sequence of orders has a last control message or has none.            *)
LEMMA LastAsked ==
    ASSUME NEW q \in Seq(Orders), ~NoOpAfter(q, 0)
    PROVE  \E k \in 1 .. Len(q) : q[k].op # "tick" /\ NoOpAfter(q, k)
<1> PICK L \in Nat : L = Len(q)
  OBVIOUS
<1> PICK S : S = {n \in 0 .. L : \E j \in 1 .. L : n = L - j /\ q[j].op # "tick"}
  OBVIOUS
<1>1. PICK j \in 1 .. L : q[j].op # "tick"
  BY DEF NoOpAfter
<1>2. L - j \in 0 .. L
  OBVIOUS
<1>3. S \subseteq Nat
  OBVIOUS
<1>8. L - j \in S
  BY <1>1, <1>2
<1>4. PICK n \in S : \A m \in S : n <= m
  <2>1. S # {}
    BY <1>8
  <2>2. Min(S) \in S /\ \A y \in S : Min(S) <= y
    BY <1>3, <2>1, LeastOfSet
  <2> QED BY <2>2
<1>5. n \in 0 .. L
  BY <1>4
<1>6. PICK k \in 1 .. L : n = L - k /\ q[k].op # "tick"
  BY <1>4
<1>7. ASSUME NEW i \in k + 1 .. L PROVE q[i].op = "tick"
  <2>1. i \in 1 .. L /\ L - i \in 0 .. L /\ L - i < n
    BY <1>6
  <2>2. L - i \notin S
    BY <1>4, <2>1
  <2> QED BY <2>1, <2>2
<1> QED BY <1>6, <1>7 DEF NoOpAfter

(* The thread is not at a take when the start at k comes up: a control     *)
(* message that ends one comes last before it, or none is open now.        *)
StopsFirst(q, k, stopped) ==
    \/ \E i \in 1 .. k - 1 : q[i].op \in {"stop", "shutdown"} /\ \A j \in i + 1 .. k - 1 : q[j].op = "tick"
    \/ (\A i \in 1 .. k - 1 : q[i].op = "tick") /\ stopped

(* A start still to be taken owes its take every tick mixed since.         *)
AskedInTime(q, stopped, g, e) ==
    \A k \in 1 .. Len(q) :
        q[k].op = "start" /\ NoOpAfter(q, k) => TicksAfter(q, k) + g = e /\ StopsFirst(q, k, stopped)

(* So does the take that runs, less what it holds.                         *)
TakenInTime(q, n, g, e) == NoOpAfter(q, 0) => n + TicksAfter(q, 0) + g = e

LEMMA StopsFirstGrows ==
    ASSUME NEW q \in Seq(Orders), NEW m, NEW k \in 1 .. Len(q), NEW s \in BOOLEAN, StopsFirst(q, k, s)
    PROVE  StopsFirst(Append(q, m), k, s)
<1> PICK L \in Nat : L = Len(q)
  OBVIOUS
<1> PICK a : a = Append(q, m)
  OBVIOUS
<1>1. \A i \in 1 .. k - 1 : a[i] = q[i]
  OBVIOUS
<1>2. StopsFirst(a, k, s)
  BY <1>1 DEF StopsFirst
<1> QED BY <1>2

LEMMA NoOpAppend ==
    ASSUME NEW q \in Seq(Orders), NEW m \in Orders, NEW k \in 0 .. Len(q)
    PROVE  NoOpAfter(Append(q, m), k) <=> NoOpAfter(q, k) /\ m.op = "tick"
<1> PICK L \in Nat : L = Len(q)
  OBVIOUS
<1> PICK a : a = Append(q, m)
  OBVIOUS
<1>1. Len(a) = L + 1 /\ a[L + 1] = m /\ \A i \in 1 .. L : a[i] = q[i]
  OBVIOUS
<1>2. NoOpAfter(a, k) => NoOpAfter(q, k) /\ m.op = "tick"
  BY <1>1 DEF NoOpAfter
<1>3. NoOpAfter(q, k) /\ m.op = "tick" => NoOpAfter(a, k)
  BY <1>1 DEF NoOpAfter
<1> QED BY <1>2, <1>3

LEMMA NoOpTail ==
    ASSUME NEW q \in Seq(Orders), q # <<>>, NEW k \in 0 .. Len(q) - 1
    PROVE  /\ NoOpAfter(Tail(q), k) <=> NoOpAfter(q, k + 1)
           /\ NoOpAfter(q, 0) <=> NoOpAfter(Tail(q), 0) /\ Head(q).op = "tick"
<1> PICK L \in Nat : L = Len(q)
  OBVIOUS
<1> PICK r \in Seq(Orders) : r = Tail(q)
  BY HeadTailProperties
<1>1. L >= 1 /\ Len(r) = L - 1 /\ Head(q) = q[1] /\ \A i \in 1 .. L - 1 : r[i] = q[i + 1]
  BY HeadTailProperties
<1>2. ASSUME NEW j \in 0 .. L - 1, NoOpAfter(r, j) PROVE NoOpAfter(q, j + 1)
  <2>1. ASSUME NEW i \in j + 2 .. L PROVE q[i].op = "tick"
    <3>1. i - 1 \in j + 1 .. L - 1 /\ i - 1 \in 1 .. L - 1 /\ (i - 1) + 1 = i
      BY <1>1
    <3> QED BY <1>1, <1>2, <3>1 DEF NoOpAfter
  <2> QED BY <2>1 DEF NoOpAfter
<1>3. ASSUME NEW j \in 0 .. L - 1, NoOpAfter(q, j + 1) PROVE NoOpAfter(r, j)
  <2>1. ASSUME NEW i \in j + 1 .. L - 1 PROVE r[i].op = "tick"
    <3>1. i + 1 \in j + 2 .. L /\ i \in 1 .. L - 1
      BY <1>1
    <3> QED BY <1>1, <1>3, <3>1 DEF NoOpAfter
  <2> QED BY <1>1, <2>1 DEF NoOpAfter
<1>4. NoOpAfter(r, k) <=> NoOpAfter(q, k + 1)
  BY <1>2, <1>3
<1>5. NoOpAfter(r, 0) <=> NoOpAfter(q, 1)
  BY <1>1, <1>2, <1>3
<1>6. NoOpAfter(q, 0) <=> NoOpAfter(q, 1) /\ q[1].op = "tick"
  BY <1>1 DEF NoOpAfter
<1> QED BY <1>1, <1>4, <1>5, <1>6

(* What joins the end.                                                     *)
LEMMA TickJoins ==
    ASSUME NEW q \in Seq(Orders), NEW m \in TickMsgs, NEW s \in BOOLEAN, NEW e \in Nat, NEW n \in Nat
    PROVE  /\ AskedInTime(q, s, m.gap, e) => AskedInTime(Append(q, m), s, 0, e + 1)
           /\ TakenInTime(q, n, m.gap, e) => TakenInTime(Append(q, m), n, 0, e + 1)
<1> PICK L \in Nat : L = Len(q)
  OBVIOUS
<1> PICK a : a = Append(q, m)
  OBVIOUS
<1>1. m \in Orders /\ m.op = "tick" /\ m.gap \in Nat /\ Worth(m) = m.gap + 1
  BY DEF TickMsgs, Orders, Worth
<1>2. Len(a) = L + 1 /\ a[L + 1] = m /\ \A i \in 1 .. L : a[i] = q[i]
  BY <1>1
<1>3. ASSUME NEW k \in 0 .. L
      PROVE  TicksAfter(q, k) \in Nat /\ TicksAfter(a, k) = TicksAfter(q, k) + m.gap + 1
  BY <1>1, OwedAppend
<1>4. ASSUME AskedInTime(q, s, m.gap, e), NEW k \in 1 .. L + 1, a[k].op = "start", NoOpAfter(a, k)
      PROVE  TicksAfter(a, k) + 0 = e + 1 /\ StopsFirst(a, k, s)
  <2>1. k \in 1 .. L /\ q[k].op = "start"
    BY <1>1, <1>2, <1>4
  <2>2. NoOpAfter(q, k)
    BY <1>1, <1>4, <2>1, NoOpAppend
  <2>3. TicksAfter(q, k) + m.gap = e /\ StopsFirst(q, k, s)
    BY <1>4, <2>1, <2>2 DEF AskedInTime
  <2>4. StopsFirst(a, k, s)
    BY <2>1, <2>3, StopsFirstGrows
  <2>5. TicksAfter(q, k) \in Nat /\ TicksAfter(a, k) = TicksAfter(q, k) + m.gap + 1
    BY <1>3, <2>1
  <2> QED BY <1>1, <2>3, <2>4, <2>5
<1>5. ASSUME TakenInTime(q, n, m.gap, e), NoOpAfter(a, 0) PROVE n + TicksAfter(a, 0) + 0 = e + 1
  <2>1. NoOpAfter(q, 0)
    BY <1>1, <1>5, NoOpAppend
  <2>2. n + TicksAfter(q, 0) + m.gap = e
    BY <1>5, <2>1 DEF TakenInTime
  <2> QED BY <1>1, <1>3, <2>2
<1>6. AskedInTime(q, s, m.gap, e) => AskedInTime(a, s, 0, e + 1)
  BY <1>2, <1>4 DEF AskedInTime
<1>7. TakenInTime(q, n, m.gap, e) => TakenInTime(a, n, 0, e + 1)
  BY <1>5 DEF TakenInTime
<1> QED BY <1>6, <1>7

LEMMA TickOwed ==
    ASSUME NEW q \in Seq(Orders), NEW s \in BOOLEAN, NEW g \in Nat, NEW e \in Nat, NEW n \in Nat
    PROVE  /\ AskedInTime(q, s, g, e) => AskedInTime(q, s, g + 1, e + 1)
           /\ TakenInTime(q, n, g, e) => TakenInTime(q, n, g + 1, e + 1)
<1>1. \A k \in 0 .. Len(q) : TicksAfter(q, k) \in Nat
  <2>1. PICK m \in Orders : m = [op |-> "stop", at |-> 0]
    BY DEF Orders, OpMsgs, Ops
  <2> QED BY OwedAppend
<1>2. TicksAfter(q, 0) \in Nat /\ \A k \in 1 .. Len(q) : TicksAfter(q, k) \in Nat
  BY <1>1
<1>3. ASSUME AskedInTime(q, s, g, e), NEW k \in 1 .. Len(q), q[k].op = "start", NoOpAfter(q, k)
      PROVE  TicksAfter(q, k) + (g + 1) = e + 1 /\ StopsFirst(q, k, s)
  <2>1. TicksAfter(q, k) + g = e /\ StopsFirst(q, k, s)
    BY <1>3 DEF AskedInTime
  <2>2. TicksAfter(q, k) \in Nat
    BY <1>2
  <2>3. TicksAfter(q, k) + (g + 1) = e + 1
    BY <2>1, <2>2
  <2> QED BY <2>1, <2>3
<1>4. AskedInTime(q, s, g, e) => AskedInTime(q, s, g + 1, e + 1)
  BY <1>3 DEF AskedInTime
<1>5. TakenInTime(q, n, g, e) => TakenInTime(q, n, g + 1, e + 1)
  BY <1>2 DEF TakenInTime
<1> QED BY <1>4, <1>5

(* A stop or a shutdown makes no claim; a start that follows one, or finds *)
(* no take, owes nothing yet.                                              *)
LEMMA OpJoins ==
    ASSUME NEW q \in Seq(Orders), NEW m \in OpMsgs, NEW s \in BOOLEAN, NEW g, NEW e, NEW n,
           m.op = "start" =>
              /\ g = 0 /\ e = 0
              /\ ~ \E k \in 1 .. Len(q) : q[k].op = "start" /\ NoOpAfter(q, k)
              /\ NoOpAfter(q, 0) => s
    PROVE  AskedInTime(Append(q, m), s, g, e) /\ TakenInTime(Append(q, m), n, g, e)
<1> PICK L \in Nat : L = Len(q)
  OBVIOUS
<1>1. m \in Orders /\ m.op \in {"start", "stop", "shutdown"} /\ m.op # "tick"
  BY DEF Orders, OpMsgs, Ops
<1> PICK a \in Seq(Orders) : a = Append(q, m)
  <2>1. Append(q, m) \in Seq(Orders)
    BY <1>1
  <2> QED BY <2>1
<1>2. Len(a) = L + 1 /\ a[L + 1] = m /\ \A i \in 1 .. L : a[i] = q[i]
  BY <1>1
<1>3. \A k \in 0 .. L : ~NoOpAfter(a, k)
  BY <1>1, NoOpAppend
<1>4. ASSUME NEW k \in 1 .. L + 1, a[k].op = "start", NoOpAfter(a, k)
      PROVE  TicksAfter(a, k) + g = e /\ StopsFirst(a, k, s)
  <2>1. k = L + 1 /\ m.op = "start"
    <3>1. k \notin 0 .. L
      BY <1>3, <1>4
    <3>2. k = L + 1
      BY <3>1
    <3> QED BY <1>2, <1>4, <3>2
  <2>2. TicksAfter(a, k) = 0
    <3>1. k \in Nat /\ Len(a) <= k
      BY <1>2, <2>1
    <3> QED BY <3>1, OwedAtEnd
  <2>3. StopsFirst(a, L + 1, s)
    <3>1. CASE NoOpAfter(q, 0)
      <4>1. \A i \in 1 .. L : a[i].op = "tick"
        BY <1>2, <3>1 DEF NoOpAfter
      <4> QED BY <2>1, <3>1, <4>1 DEF StopsFirst
    <3>2. CASE ~NoOpAfter(q, 0)
      <4>1. PICK i \in 1 .. L : q[i].op # "tick" /\ NoOpAfter(q, i)
        BY <3>2, LastAsked
      <4>2. q[i].op \in {"stop", "shutdown"}
        <5>1. q[i] \in Orders /\ q[i].op # "start"
          BY <2>1, <4>1
        <5> QED BY <4>1, <5>1, OrderWorth
      <4>3. a[i].op \in {"stop", "shutdown"} /\ \A j \in i + 1 .. L : a[j].op = "tick"
        BY <1>2, <4>1, <4>2 DEF NoOpAfter
      <4> QED BY <4>3 DEF StopsFirst
    <3> QED BY <3>1, <3>2
  <2> QED BY <2>1, <2>2, <2>3
<1>5. AskedInTime(a, s, g, e)
  BY <1>2, <1>4 DEF AskedInTime
<1>6. TakenInTime(a, n, g, e)
  BY <1>3 DEF TakenInTime
<1> QED BY <1>5, <1>6

(* What leaves the front.                                                  *)
LEMMA HeadLeaves ==
    ASSUME NEW q \in Seq(Orders), q # <<>>, NEW s \in BOOLEAN, NEW r \in BOOLEAN, NEW g, NEW e,
           AskedInTime(q, s, g, e),
           Head(q).op = "tick" => (s => r),
           Head(q).op \in {"stop", "shutdown"} => r
    PROVE  AskedInTime(Tail(q), r, g, e)
<1> PICK L \in Nat : L = Len(q)
  OBVIOUS
<1> PICK t \in Seq(Orders) : t = Tail(q)
  BY HeadTailProperties
<1>1. L >= 1 /\ Len(t) = L - 1 /\ Head(q) = q[1] /\ \A i \in 1 .. L - 1 : t[i] = q[i + 1]
  BY HeadTailProperties
<1>2. ASSUME NEW k \in 1 .. L - 1, t[k].op = "start", NoOpAfter(t, k)
      PROVE  TicksAfter(t, k) + g = e /\ StopsFirst(t, k, r)
  <2>1. k + 1 \in 1 .. L /\ q[k + 1].op = "start" /\ k \in 0 .. L - 1
    BY <1>1, <1>2
  <2>2. NoOpAfter(q, k + 1)
    BY <1>1, <1>2, <2>1, NoOpTail
  <2>3. TicksAfter(q, k + 1) + g = e /\ StopsFirst(q, k + 1, s)
    BY <2>1, <2>2 DEF AskedInTime
  <2>4. TicksAfter(t, k) = TicksAfter(q, k + 1)
    <3>1. k + 1 \in 0 .. L /\ k + 1 > 0 /\ (k + 1) - 1 = k
      BY <2>1
    <3>2. TicksAfter(Tail(q), (k + 1) - 1) = TicksAfter(q, k + 1)
      BY <3>1, OwedTail
    <3> QED BY <3>1, <3>2
  <2>5. \A j \in 1 .. k - 1 : t[j] = q[j + 1]
    BY <1>1
  <2>6. ASSUME \E i \in 1 .. k : q[i].op \in {"stop", "shutdown"} /\ \A j \in i + 1 .. k : q[j].op = "tick"
        PROVE  StopsFirst(t, k, r)
    <3>1. PICK i \in 1 .. k : q[i].op \in {"stop", "shutdown"} /\ \A j \in i + 1 .. k : q[j].op = "tick"
      BY <2>6
    <3>2. CASE i = 1
      <4>1. r
        BY <1>1, <3>1, <3>2
      <4>2. \A j \in 1 .. k - 1 : t[j].op = "tick"
        BY <2>5, <3>1, <3>2
      <4> QED BY <4>1, <4>2 DEF StopsFirst
    <3>3. CASE i \in 2 .. k
      <4>1. i - 1 \in 1 .. k - 1 /\ (i - 1) + 1 = i
        BY <3>3
      <4>2. t[i - 1].op \in {"stop", "shutdown"}
        BY <2>5, <3>1, <4>1
      <4>3. \A j \in i .. k - 1 : t[j].op = "tick"
        BY <2>5, <3>1, <3>3
      <4>4. \A j \in (i - 1) + 1 .. k - 1 : t[j].op = "tick"
        BY <4>1, <4>3
      <4> QED BY <4>1, <4>2, <4>4 DEF StopsFirst
    <3> QED BY <3>2, <3>3
  <2>7. ASSUME (\A i \in 1 .. k : q[i].op = "tick") /\ s PROVE StopsFirst(t, k, r)
    <3>1. r
      BY <1>1, <2>7
    <3>2. \A j \in 1 .. k - 1 : t[j].op = "tick"
      BY <2>5, <2>7
    <3> QED BY <3>1, <3>2 DEF StopsFirst
  <2>8. StopsFirst(t, k, r)
    <3>1. (k + 1) - 1 = k
      OBVIOUS
    <3> QED BY <2>3, <2>6, <2>7, <3>1 DEF StopsFirst
  <2> QED BY <2>3, <2>4, <2>8
<1> QED BY <1>1, <1>2 DEF AskedInTime

LEMMA TickTaken ==
    ASSUME NEW q \in Seq(Orders), q # <<>>, NEW n \in Nat, NEW g \in Nat, NEW e \in Nat,
           TakenInTime(q, n, g, e), Head(q).op = "tick"
    PROVE  TakenInTime(Tail(q), n + Head(q).gap + 1, g, e)
<1>1. Head(q) \in Orders /\ Tail(q) \in Seq(Orders)
  BY HeadTailProperties
<1>2. Head(q).gap \in Nat /\ Worth(Head(q)) = Head(q).gap + 1
  BY <1>1, OrderWorth DEF TickMsgs
<1>3. TicksAfter(q, 0) = Worth(Head(q)) + TicksAfter(Tail(q), 0)
  BY OwedTail
<1>4. TicksAfter(Tail(q), 0) \in Nat
  <2>1. PICK m \in Orders : m = [op |-> "stop", at |-> 0]
    BY DEF Orders, OpMsgs, Ops
  <2>2. 0 \in 0 .. Len(Tail(q))
    BY <1>1
  <2> QED BY <1>1, <2>2, OwedAppend
<1>5. NoOpAfter(Tail(q), 0) => NoOpAfter(q, 0)
  BY NoOpTail
<1> QED BY <1>2, <1>3, <1>4, <1>5 DEF TakenInTime

(* A start that makes a claim finds the thread at no take, and its take    *)
(* begins by owing all of it.                                              *)
LEMMA StartTaken ==
    ASSUME NEW q \in Seq(Orders), q # <<>>, NEW s \in BOOLEAN, NEW g \in Nat, NEW e \in Nat,
           AskedInTime(q, s, g, e), Head(q).op = "start"
    PROVE  /\ NoOpAfter(Tail(q), 0) => s
           /\ TakenInTime(Tail(q), 0, g, e)
<1>1. Len(q) \in Nat /\ Len(q) >= 1 /\ Head(q) = q[1]
  BY HeadTailProperties
<1>2. ASSUME NoOpAfter(Tail(q), 0) PROVE s /\ 0 + TicksAfter(Tail(q), 0) + g = e
  <2>1. NoOpAfter(q, 0 + 1)
    BY <1>1, <1>2, NoOpTail
  <2>2. TicksAfter(q, 1) + g = e /\ StopsFirst(q, 1, s)
    BY <1>1, <2>1 DEF AskedInTime
  <2>3. TicksAfter(Tail(q), 1 - 1) = TicksAfter(q, 1) /\ TicksAfter(q, 1) \in Nat
    BY <1>1, OwedTail
  <2>4. s
    BY <2>2 DEF StopsFirst
  <2> QED BY <2>2, <2>3, <2>4
<1> QED BY <1>2 DEF TakenInTime

-----------------------------------------------------------------------------
(* The recorder, step by step.                                             *)
OpenTake(name, ticks, stems, n) == [open |-> TRUE, name |-> name, ticks |-> ticks, stems |-> stems, n |-> n]

RecordTypeOK ==
    /\ queue \in Seq(Orders)
    /\ waiting = <<>> \/ \E m \in OpMsgs : waiting = <<m>>
    /\ gap \in Nat /\ elapsed \in Nat /\ minute \in Nat /\ starts \in Nat
    /\ closing \in BOOLEAN /\ exited \in BOOLEAN /\ repeated \in BOOLEAN
    /\ take = NoTake \/ \E name, ticks, n \in Nat : \E stems : take = OpenTake(name, ticks, stems, n)

AtNoTake == ~(take.open /\ ~closing)

Shutdown == (\E k \in 1 .. Len(Asks) : Asks[k].op = "shutdown") => exited

KeptInTime ==
    ~repeated =>
        /\ AskedInTime(Asks, AtNoTake, gap, elapsed)
        /\ ~AtNoTake => TakenInTime(Asks, take.ticks, gap, elapsed)

(* The recorder's inductive invariant.                                     *)
RecordIInv ==
    /\ RecordTypeOK
    /\ Shutdown
    /\ KeptInTime
    /\ StemsAligned

LEMMA AsksType ==
    ASSUME RecordTypeOK
    PROVE  /\ Asks \in Seq(Orders)
           /\ waiting = <<>> => Asks = queue
           /\ queue # <<>> => /\ Asks # <<>> /\ Head(Asks) = Head(queue) /\ Tail(queue) \in Seq(Orders)
                              /\ Tail(Asks) = Tail(queue) \o waiting
<1>1. queue \in Seq(Orders)
  BY DEF RecordTypeOK
<1>2. PICK w \in Seq(Orders) : w = waiting
  <2>1. CASE waiting = <<>>
    <3>1. waiting \in Seq(Orders)
      BY <2>1
    <3> QED BY <3>1
  <2>2. CASE \E m \in OpMsgs : waiting = <<m>>
    <3>1. PICK m \in Orders : waiting = <<m>>
      BY <2>2 DEF Orders
    <3>2. waiting \in Seq(Orders)
      BY <3>1
    <3> QED BY <3>2
  <2> QED BY <2>1, <2>2 DEF RecordTypeOK
<1>3. queue \o w \in Seq(Orders) /\ (w = <<>> => queue \o w = queue)
  BY <1>1
<1>4. ASSUME queue # <<>>
      PROVE  /\ queue \o w # <<>> /\ Head(queue \o w) = Head(queue) /\ Tail(queue) \in Seq(Orders)
             /\ Tail(queue \o w) = Tail(queue) \o w
  <2>1. PICK t \in Seq(Orders) : t = Tail(queue)
    BY <1>1, <1>4, HeadTailProperties
  <2>2. PICK a \in Seq(Orders) : a = queue \o w
    BY <1>3
  <2>3. /\ Len(queue) >= 1 /\ Head(queue) = queue[1] /\ Len(t) = Len(queue) - 1
        /\ \A i \in 1 .. Len(t) : t[i] = queue[i + 1]
    BY <1>1, <1>4, <2>1, HeadTailProperties
  <2>4. Len(a) = Len(queue) + Len(w) /\ \A i \in 1 .. Len(a) : a[i] = IF i <= Len(queue) THEN queue[i] ELSE w[i - Len(queue)]
    BY <1>1, <2>2
  <2>5. a # <<>> /\ Head(a) = a[1] /\ a[1] = queue[1]
    BY <2>3, <2>4
  <2>6. /\ Tail(a) \in Seq(Orders) /\ Len(Tail(a)) = Len(a) - 1
        /\ \A i \in 1 .. Len(Tail(a)) : Tail(a)[i] = a[i + 1]
    BY <2>5, HeadTailProperties
  <2>7. t \o w \in Seq(Orders) /\ Len(t \o w) = Len(t) + Len(w)
        /\ \A i \in 1 .. Len(t) + Len(w) : (t \o w)[i] = IF i <= Len(t) THEN t[i] ELSE w[i - Len(t)]
    OBVIOUS
  <2>8. ASSUME NEW i \in 1 .. Len(Tail(a)) PROVE Tail(a)[i] = (t \o w)[i]
    <3>1. i \in 1 .. Len(t) + Len(w) /\ Len(t) \in Nat /\ Len(w) \in Nat /\ i + 1 \in 1 .. Len(a)
      BY <2>3, <2>4, <2>6
    <3>2. CASE i <= Len(t)
      BY <2>3, <2>4, <2>6, <2>7, <3>1, <3>2
    <3>3. CASE ~(i <= Len(t))
      <4>1. (i + 1) - Len(queue) = i - Len(t) /\ ~(i + 1 <= Len(queue))
        BY <1>1, <2>3, <3>1, <3>3
      <4>2. a[i + 1] = w[i - Len(t)]
        BY <2>4, <3>1, <4>1
      <4> QED BY <2>6, <2>7, <3>1, <3>3, <4>2
    <3> QED BY <3>2, <3>3
  <2>9. Len(Tail(a)) = Len(t \o w)
    BY <2>3, <2>4, <2>6, <2>7
  <2>10. Tail(a) = t \o w
    BY <2>6, <2>7, <2>8, <2>9, SeqEqual
  <2> QED BY <2>1, <2>2, <2>3, <2>5, <2>10
<1> QED BY <1>2, <1>3, <1>4 DEF Asks

(* A message of the run loop joins the end, wherever it has to wait.       *)
LEMMA SendJoins ==
    ASSUME RecordTypeOK, waiting = <<>>, NEW op \in Ops, Send(op)
    PROVE  /\ Asks' = Append(Asks, [op |-> op, at |-> minute])
           /\ [op |-> op, at |-> minute] \in OpMsgs
           /\ queue' \in Seq(Orders)
           /\ waiting' = <<>> \/ \E m \in OpMsgs : waiting' = <<m>>
<1>1. PICK m \in OpMsgs : m = [op |-> op, at |-> minute]
  BY DEF RecordTypeOK, OpMsgs
<1>2. m \in Orders /\ queue \in Seq(Orders)
  BY DEF Orders, RecordTypeOK
<1>3. IF HasRoom THEN queue' = Append(queue, m) /\ UNCHANGED waiting
                 ELSE waiting' = <<m>> /\ UNCHANGED queue
  BY <1>1 DEF Send
<1>4. CASE queue' = Append(queue, m) /\ waiting' = waiting
  <2>1. queue' \in Seq(Orders) /\ queue' \o <<>> = queue' /\ queue \o <<>> = queue
    BY <1>2, <1>4
  <2> QED BY <1>1, <1>4, <2>1 DEF Asks
<1>5. CASE waiting' = <<m>> /\ queue' = queue
  <2>1. queue \o <<m>> = Append(queue, m) /\ queue \o <<>> = queue
    BY <1>2
  <2> QED BY <1>1, <1>2, <1>5, <2>1 DEF Asks
<1> QED BY <1>3, <1>4, <1>5

(* The claim on the channel of the moment is the one on all that is asked. *)
LEMMA RecordInitKept == RecordInit => RecordIInv
<1> SUFFICES ASSUME RecordInit PROVE RecordIInv
  OBVIOUS
<1>1. RecordTypeOK
  <2>1. queue \in Seq(Orders)
    BY DEF RecordInit
  <2> QED BY <2>1 DEF RecordInit, RecordTypeOK
<1>2. Asks = <<>>
  BY DEF RecordInit, Asks
<1>3. take.open = FALSE
  BY DEF RecordInit, NoTake
<1>4. KeptInTime
  BY <1>2, <1>3 DEF KeptInTime, AskedInTime, AtNoTake
<1>5. Shutdown
  BY <1>2 DEF Shutdown
<1>6. StemsAligned
  BY <1>3 DEF StemsAligned
<1> QED BY <1>1, <1>4, <1>5, <1>6 DEF RecordIInv

(* What the run loop asks leaves the thread where it is.                   *)
LEMMA AskedKeeps ==
    ASSUME RecordIInv, NEW m \in OpMsgs, Asks' = Append(Asks, m),
           queue' \in Seq(Orders), waiting' = <<>> \/ \E w \in OpMsgs : waiting' = <<w>>,
           UNCHANGED <<worker, minute>>,
           starts' \in Nat, exited' \in BOOLEAN, exited => exited', m.op = "shutdown" => exited',
           gap' \in Nat, elapsed' \in Nat, repeated' \in BOOLEAN,
           ~repeated' /\ m.op = "start" =>
              /\ gap' = 0 /\ elapsed' = 0
              /\ ~ \E k \in 1 .. Len(Asks) : Asks[k].op = "start" /\ NoOpAfter(Asks, k)
              /\ NoOpAfter(Asks, 0) => AtNoTake
    PROVE  RecordIInv'
<1>1. RecordTypeOK /\ Asks \in Seq(Orders)
  BY AsksType DEF RecordIInv
<1>2. UNCHANGED <<recording, slot, state, take, closing, shelf, finished>>
  BY DEF worker
<1>3. RecordTypeOK'
  BY <1>1, <1>2 DEF RecordTypeOK, OpenTake
<1>4. PICK s \in BOOLEAN : s = AtNoTake
  BY DEF AtNoTake
<1>5. AtNoTake' = AtNoTake
  BY <1>2 DEF AtNoTake
<1>6. ASSUME ~repeated'
      PROVE  AskedInTime(Asks', s, gap', elapsed') /\ TakenInTime(Asks', take.ticks, gap', elapsed')
  <2>1. PICK g, e : g = gap' /\ e = elapsed'
    OBVIOUS
  <2>2. AskedInTime(Append(Asks, m), s, g, e) /\ TakenInTime(Append(Asks, m), take.ticks, g, e)
    BY <1>1, <1>4, <1>6, <2>1, OpJoins
  <2> QED BY <2>1, <2>2
<1>7. KeptInTime'
  BY <1>2, <1>4, <1>5, <1>6, Zenon DEF KeptInTime
<1>8. Shutdown'
  <2>1. ASSUME NEW k \in 1 .. Len(Asks'), Asks'[k].op = "shutdown" PROVE exited'
    <3>1. m \in Orders
      BY DEF Orders
    <3>2. CASE k \in 1 .. Len(Asks)
      <4>1. Asks[k].op = "shutdown"
        BY <1>1, <2>1, <3>1, <3>2
      <4> QED BY <3>2, <4>1 DEF RecordIInv, Shutdown
    <3>3. CASE k = Len(Asks) + 1
      <4>1. Asks'[k] = m
        BY <1>1, <3>1, <3>3
      <4> QED BY <2>1, <4>1
    <3> QED BY <1>1, <2>1, <3>1, <3>2, <3>3
  <2> QED BY <2>1 DEF Shutdown
<1>9. StemsAligned'
  BY <1>2 DEF RecordIInv, StemsAligned
<1> QED BY <1>3, <1>7, <1>8, <1>9 DEF RecordIInv

LEMMA PressRecordKeeps == ASSUME RecordIInv, PressRecord PROVE RecordIInv'
<1>1. RecordTypeOK
  BY DEF RecordIInv
<1>2. /\ waiting = <<>> /\ ~exited /\ gap' = 0 /\ Send("start") /\ starts' = starts + 1
      /\ elapsed' = IF TakeAsked THEN elapsed ELSE 0
      /\ repeated' = TakeAsked
      /\ UNCHANGED <<worker, exited, minute, stops>>
  BY DEF PressRecord, Running, StartGap
<1>3. PICK m \in OpMsgs : m = [op |-> "start", at |-> minute]
  BY <1>1 DEF RecordTypeOK, OpMsgs, Ops
<1>4. /\ Asks' = Append(Asks, m) /\ queue' \in Seq(Orders)
      /\ waiting' = <<>> \/ \E w \in OpMsgs : waiting' = <<w>>
  BY <1>1, <1>2, <1>3, SendJoins DEF Ops
<1>5. Asks = queue /\ queue \in Seq(Orders)
  BY <1>1, <1>2, AsksType DEF RecordTypeOK
<1>6. ASSUME ~repeated'
      PROVE  /\ elapsed' = 0
             /\ ~ \E k \in 1 .. Len(Asks) : Asks[k].op = "start" /\ NoOpAfter(Asks, k)
             /\ NoOpAfter(Asks, 0) => AtNoTake
  <2>1. ~TakeAsked
    BY <1>2, <1>6
  <2> QED BY <1>2, <1>5, <2>1 DEF TakeAsked, AtNoTake
<1>7. m.op = "start" /\ starts' \in Nat /\ elapsed' \in Nat /\ repeated' \in BOOLEAN
  BY <1>1, <1>2, <1>3 DEF RecordTypeOK, TakeAsked
<1> QED BY <1>1, <1>2, <1>4, <1>6, <1>7, AskedKeeps DEF RecordTypeOK

LEMMA PressStopKeeps == ASSUME RecordIInv, PressStop PROVE RecordIInv'
<1>1. RecordTypeOK
  BY DEF RecordIInv
<1>2. waiting = <<>> /\ Send("stop") /\ UNCHANGED <<gap, worker, exited, minute, starts, elapsed, repeated>>
  BY DEF PressStop, Running, ghosts
<1>3. PICK m \in OpMsgs : m = [op |-> "stop", at |-> minute]
  BY <1>1 DEF RecordTypeOK, OpMsgs, Ops
<1>4. /\ Asks' = Append(Asks, m) /\ queue' \in Seq(Orders)
      /\ waiting' = <<>> \/ \E w \in OpMsgs : waiting' = <<w>>
  BY <1>1, <1>2, <1>3, SendJoins DEF Ops
<1>5. m.op = "stop"
  BY <1>3
<1> QED BY <1>1, <1>2, <1>4, <1>5, AskedKeeps DEF RecordTypeOK

LEMMA ExitKeeps == ASSUME RecordIInv, Exit PROVE RecordIInv'
<1>1. RecordTypeOK
  BY DEF RecordIInv
<1>2. /\ waiting = <<>> /\ Send("shutdown") /\ exited' = TRUE
      /\ UNCHANGED <<gap, worker, minute, starts, elapsed, repeated>>
  BY DEF Exit, Running, ghosts
<1>3. PICK m \in OpMsgs : m = [op |-> "shutdown", at |-> minute]
  BY <1>1 DEF RecordTypeOK, OpMsgs, Ops
<1>4. /\ Asks' = Append(Asks, m) /\ queue' \in Seq(Orders)
      /\ waiting' = <<>> \/ \E w \in OpMsgs : waiting' = <<w>>
  BY <1>1, <1>2, <1>3, SendJoins DEF Ops
<1>5. m.op = "shutdown"
  BY <1>3
<1> QED BY <1>1, <1>2, <1>4, <1>5, AskedKeeps DEF RecordTypeOK

(* Whatever leaves the sequence and the thread alone keeps the invariant.  *)
LEMMA SameKeeps ==
    ASSUME RecordIInv, Asks' = Asks, queue' \in Seq(Orders),
           waiting' = <<>> \/ \E w \in OpMsgs : waiting' = <<w>>,
           UNCHANGED <<gap, take, closing, exited, starts, elapsed, repeated>>, minute' \in Nat
    PROVE  RecordIInv'
<1>1. RecordTypeOK'
  BY DEF RecordIInv, RecordTypeOK, OpenTake
<1>2. Shutdown'
  BY DEF RecordIInv, Shutdown
<1>3. AtNoTake' = AtNoTake
  BY DEF AtNoTake
<1>4. KeptInTime'
  <2>1. PICK q, g, e, t, r : q = Asks /\ g = gap /\ e = elapsed /\ t = take /\ r = repeated
    OBVIOUS
  <2>2. Asks' = q /\ gap' = g /\ elapsed' = e /\ take' = t /\ repeated' = r
    BY <2>1
  <2>3. ~r => AskedInTime(q, AtNoTake, g, e) /\ (~AtNoTake => TakenInTime(q, t.ticks, g, e))
    BY <2>1, Zenon DEF RecordIInv, KeptInTime
  <2>4. ~r => AskedInTime(q, AtNoTake', g, e) /\ (~AtNoTake' => TakenInTime(q, t.ticks, g, e))
    BY <1>3, <2>3, Zenon
  <2> QED BY <2>2, <2>4 DEF KeptInTime
<1>5. StemsAligned'
  BY DEF RecordIInv, StemsAligned
<1> QED BY <1>1, <1>2, <1>4, <1>5 DEF RecordIInv

LEMMA QuietKeeps == ASSUME RecordIInv, Resume \/ Minute \/ UNCHANGED recordVars PROVE RecordIInv'
<1>1. RecordTypeOK
  BY DEF RecordIInv
<1>2. CASE Resume
  <2>1. queue' = queue \o waiting /\ waiting' = <<>>
        /\ UNCHANGED <<gap, take, closing, exited, minute, starts, elapsed, repeated>>
    BY <1>2 DEF Resume, worker, ghosts
  <2>2. queue \o waiting \in Seq(Orders) /\ Asks = queue \o waiting
    BY <1>1, AsksType DEF Asks
  <2>3. Asks' = Asks
    <3>1. (queue \o waiting) \o <<>> = queue \o waiting
      BY <2>2
    <3> QED BY <2>1, <3>1 DEF Asks
  <2> QED BY <1>1, <2>1, <2>2, <2>3, SameKeeps DEF RecordTypeOK
<1>3. CASE Minute \/ UNCHANGED recordVars
  <2>1. UNCHANGED <<queue, waiting, gap, take, closing, exited, starts, elapsed, repeated>> /\ minute' \in Nat
    BY <1>1, <1>3 DEF Minute, recordVars, worker, ghosts, RecordTypeOK
  <2>2. Asks' = Asks
    BY <2>1 DEF Asks
  <2> QED BY <1>1, <2>1, <2>2, SameKeeps DEF RecordTypeOK
<1> QED BY <1>2, <1>3

(* A tick joins the end with what was owed before it, or is owed itself.   *)
LEMMA RecordTickKeeps == ASSUME RecordIInv, NEW heard \in SUBSET Musicians, RecordTick(heard) PROVE RecordIInv'
<1>1. RecordTypeOK
  BY DEF RecordIInv
<1>2. /\ waiting = <<>>
      /\ \/ queue' = Append(queue, [op |-> "tick", gap |-> gap, heard |-> heard]) /\ gap' = 0
         \/ gap' = gap + 1 /\ queue' = queue
      /\ elapsed' = elapsed + 1
      /\ UNCHANGED <<worker, waiting, exited, minute, starts, stops, repeated>>
  BY DEF RecordTick, Running, Refused
<1>3. PICK m \in TickMsgs : m = [op |-> "tick", gap |-> gap, heard |-> heard]
  BY <1>1 DEF RecordTypeOK, TickMsgs
<1>4. m \in Orders /\ m.gap = gap /\ m.op = "tick" /\ queue \in Seq(Orders) /\ gap \in Nat /\ elapsed \in Nat
  BY <1>1, <1>3 DEF Orders, RecordTypeOK
<1>5. UNCHANGED <<take, closing>>
  BY <1>2 DEF worker
<1>6. PICK s \in BOOLEAN : s = AtNoTake
  BY DEF AtNoTake
<1>7. AtNoTake' = AtNoTake
  BY <1>5 DEF AtNoTake
<1>8. Asks = queue /\ Asks' = queue'
  BY <1>1, <1>2, AsksType DEF RecordTypeOK, Asks
<1>9. queue' \in Seq(Orders) /\ gap' \in Nat /\ elapsed' \in Nat
  BY SMTT(30), <1>2, <1>3, <1>4
<1>10. RecordTypeOK'
  BY <1>1, <1>2, <1>5, <1>9 DEF RecordTypeOK, OpenTake, worker
<1>11. Shutdown'
  <2>1. ASSUME NEW k \in 1 .. Len(queue'), queue'[k].op = "shutdown"
        PROVE  k \in 1 .. Len(queue) /\ queue[k].op = "shutdown"
    BY <1>2, <1>3, <1>4, <2>1
  <2> QED BY <1>2, <1>8, <2>1 DEF RecordIInv, Shutdown
<1>12. ~s => take.ticks \in Nat
  <2>1. take = NoTake => AtNoTake
    BY DEF AtNoTake, NoTake
  <2>2. take # NoTake => take.ticks \in Nat
    BY <1>1 DEF RecordTypeOK, OpenTake
  <2> QED BY <1>6, <2>1, <2>2
<1>13. PICK n \in Nat : ~s => n = take.ticks
  BY <1>12
<1>14. ASSUME ~repeated
       PROVE  AskedInTime(queue', s, gap', elapsed') /\ (~s => TakenInTime(queue', n, gap', elapsed'))
  <2>1. AskedInTime(queue, s, gap, elapsed) /\ (~s => TakenInTime(queue, take.ticks, gap, elapsed))
    BY <1>6, <1>8, <1>14, Zenon DEF RecordIInv, KeptInTime
  <2>2. ~s => TakenInTime(queue, n, gap, elapsed)
    BY <1>13, <2>1
  <2>3. CASE queue' = Append(queue, m) /\ gap' = 0
    <3>1. /\ AskedInTime(Append(queue, m), s, 0, elapsed + 1)
          /\ ~s => TakenInTime(Append(queue, m), n, 0, elapsed + 1)
      BY <1>4, <2>1, <2>2, TickJoins
    <3> QED BY <1>2, <2>3, <3>1
  <2>4. CASE gap' = gap + 1 /\ queue' = queue
    <3>1. AskedInTime(queue, s, gap + 1, elapsed + 1) /\ (~s => TakenInTime(queue, n, gap + 1, elapsed + 1))
      BY <1>4, <2>1, <2>2, TickOwed
    <3> QED BY <1>2, <2>4, <3>1
  <2> QED BY <1>2, <1>3, <2>3, <2>4
<1>15. ~repeated => AskedInTime(Asks', s, gap', elapsed') /\ (~s => TakenInTime(Asks', take'.ticks, gap', elapsed'))
  BY <1>5, <1>8, <1>13, <1>14
<1>16. KeptInTime'
  BY <1>2, <1>6, <1>7, <1>15, Zenon DEF KeptInTime
<1>17. StemsAligned'
  BY <1>5 DEF RecordIInv, StemsAligned
<1> QED BY <1>10, <1>11, <1>16, <1>17 DEF RecordIInv

(* What the thread takes off the head of the sequence.                     *)
LEMMA TakenKeeps ==
    ASSUME RecordIInv, queue # <<>>, queue' = Tail(queue),
           UNCHANGED <<gap, waiting, exited, minute, starts, elapsed, repeated>>,
           take' = NoTake \/ \E name, ticks, n \in Nat : \E stems : take' = OpenTake(name, ticks, stems, n),
           closing' \in BOOLEAN, StemsAligned',
           Head(queue).op = "tick" => (AtNoTake => AtNoTake'),
           Head(queue).op \in {"stop", "shutdown"} => AtNoTake',
           ~repeated /\ ~AtNoTake' => TakenInTime(Tail(Asks), take'.ticks, gap, elapsed)
    PROVE  RecordIInv'
<1>1. RecordTypeOK /\ Asks \in Seq(Orders)
  BY AsksType DEF RecordIInv
<1>2. Asks # <<>> /\ Head(Asks) = Head(queue) /\ Tail(queue) \in Seq(Orders) /\ Asks' = Tail(Asks)
  <2>1. Asks # <<>> /\ Head(Asks) = Head(queue) /\ Tail(queue) \in Seq(Orders) /\ Tail(Asks) = Tail(queue) \o waiting
    BY <1>1, AsksType
  <2> QED BY <2>1 DEF Asks
<1>3. RecordTypeOK'
  BY <1>1, <1>2 DEF RecordTypeOK
<1>4. PICK s, r \in BOOLEAN : s = AtNoTake /\ r = AtNoTake'
  BY DEF AtNoTake
<1>5. ASSUME ~repeated PROVE AskedInTime(Tail(Asks), r, gap, elapsed)
  <2>1. AskedInTime(Asks, s, gap, elapsed)
    BY <1>4, <1>5, Zenon DEF RecordIInv, KeptInTime
  <2>2. (Head(Asks).op = "tick" => (s => r)) /\ (Head(Asks).op \in {"stop", "shutdown"} => r)
    BY <1>2, <1>4
  <2> QED BY <1>1, <1>2, <2>1, <2>2, HeadLeaves
<1>6. ~repeated => AskedInTime(Asks', r, gap', elapsed') /\ (~r => TakenInTime(Asks', take'.ticks, gap', elapsed'))
  BY <1>2, <1>4, <1>5
<1>7. KeptInTime'
  BY <1>4, <1>6, Zenon DEF KeptInTime
<1>8. Shutdown'
  <2>1. ASSUME NEW k \in 1 .. Len(Asks'), Asks'[k].op = "shutdown" PROVE exited
    <3>1. /\ Len(Asks) \in Nat /\ Len(Asks') = Len(Asks) - 1
          /\ \A i \in 1 .. Len(Asks') : Asks'[i] = Asks[i + 1]
      BY <1>1, <1>2, HeadTailProperties
    <3>2. k + 1 \in 1 .. Len(Asks) /\ Asks[k + 1].op = "shutdown"
      BY <2>1, <3>1
    <3> QED BY <3>2 DEF RecordIInv, Shutdown
  <2> QED BY <2>1 DEF Shutdown
<1> QED BY <1>3, <1>7, <1>8 DEF RecordIInv

LEMMA WorkStartKeeps == ASSUME RecordIInv, WorkStart PROVE RecordIInv'
<1>1. RecordTypeOK /\ Asks \in Seq(Orders)
  BY AsksType DEF RecordIInv
<1>2. /\ closing = FALSE /\ queue # <<>> /\ Head(queue).op = "start" /\ queue' = Tail(queue)
      /\ closing' = FALSE
      /\ UNCHANGED <<gap, waiting, exited, minute, starts, elapsed, repeated>>
  BY <1>1 DEF WorkStart, Serves, idle, ghosts, RecordTypeOK
<1>3. Asks # <<>> /\ Head(Asks).op = "start"
  BY <1>1, <1>2, AsksType
<1>4. PICK s \in BOOLEAN : s = AtNoTake
  BY DEF AtNoTake
<1>5. ASSUME ~repeated
      PROVE  (NoOpAfter(Tail(Asks), 0) => AtNoTake) /\ TakenInTime(Tail(Asks), 0, gap, elapsed)
  <2>1. AskedInTime(Asks, s, gap, elapsed)
    BY <1>4, <1>5, Zenon DEF RecordIInv, KeptInTime
  <2>2. gap \in Nat /\ elapsed \in Nat
    BY <1>1 DEF RecordTypeOK
  <2>3. (NoOpAfter(Tail(Asks), 0) => s) /\ TakenInTime(Tail(Asks), 0, gap, elapsed)
    BY <1>1, <1>3, <2>1, <2>2, StartTaken
  <2> QED BY <1>4, <2>3
<1>6. CASE take' = take
  <2>1. AtNoTake' = AtNoTake
    BY <1>2, <1>6 DEF AtNoTake
  <2>2. ~repeated /\ ~AtNoTake' => TakenInTime(Tail(Asks), take'.ticks, gap, elapsed)
    BY <1>5, <2>1, Zenon DEF TakenInTime
  <2>3. StemsAligned'
    BY <1>6 DEF RecordIInv, StemsAligned
  <2>4. take' = NoTake \/ \E name, ticks, n \in Nat : \E stems : take' = OpenTake(name, ticks, stems, n)
    BY <1>1, <1>6 DEF RecordTypeOK
  <2> QED BY <1>2, <2>1, <2>2, <2>3, <2>4, TakenKeeps
<1>7. CASE take' = [open |-> TRUE, name |-> Head(queue).at, ticks |-> 0, stems |-> <<>>, n |-> starts]
  <2>1. Head(queue) \in OpMsgs
    <3>1. Head(queue) \in Orders
      BY <1>1, <1>2, HeadTailProperties DEF RecordTypeOK
    <3> QED BY <1>2, <3>1 DEF Orders, TickMsgs
  <2>2. PICK name \in Nat : name = Head(queue).at
    BY <2>1 DEF OpMsgs
  <2>3. take' = OpenTake(name, 0, <<>>, starts) /\ starts \in Nat
    BY <1>1, <1>7, <2>2 DEF OpenTake, RecordTypeOK
  <2>4. take'.ticks = 0 /\ take'.stems = <<>>
    BY <1>7
  <2>5. StemsAligned'
    BY <2>4 DEF StemsAligned
  <2>6. take' = NoTake \/ \E n, ticks, m \in Nat : \E stems : take' = OpenTake(n, ticks, stems, m)
    BY <2>3
  <2>7. ~repeated => TakenInTime(Tail(Asks), take'.ticks, gap, elapsed)
    BY <1>5, <2>4
  <2> QED BY <1>2, <2>5, <2>6, <2>7, TakenKeeps
<1> QED BY <1>6, <1>7 DEF WorkStart

(* Every stem grows with the mix.                                          *)
AlignedTake(t, name, ticks, n) ==
    \E stems : t = OpenTake(name, ticks, stems, n) /\ \A m \in DOMAIN stems : stems[m] = ticks

LEMMA FedAligned ==
    ASSUME NEW t, NEW name \in Nat, NEW ticks \in Nat, NEW n \in Nat, NEW silence \in Nat, NEW heard,
           AlignedTake(t, name, ticks, n)
    PROVE  AlignedTake(Feed(Silence(t, silence), heard), name, ticks + silence + 1, n)
<1> PICK stems : t = OpenTake(name, ticks, stems, n) /\ \A m \in DOMAIN stems : stems[m] = ticks
  BY DEF AlignedTake
<1> PICK s1 : s1 = [m \in DOMAIN stems |-> stems[m] + silence]
  OBVIOUS
<1> PICK u : u = OpenTake(name, ticks + silence, s1, n)
  OBVIOUS
<1>1. Silence(t, silence) = u
  <2>1. t.stems = stems /\ t.ticks = ticks
    BY DEF OpenTake
  <2>2. Silence(t, silence) = [t EXCEPT !.ticks = ticks + silence, !.stems = s1]
    BY <2>1 DEF Silence
  <2> QED BY <2>2 DEF OpenTake
<1>2. DOMAIN s1 = DOMAIN stems /\ \A m \in DOMAIN s1 : s1[m] = ticks + silence
  OBVIOUS
<1> PICK s2 : s2 = [m \in DOMAIN s1 \cup heard |-> (IF m \in DOMAIN s1 THEN s1[m] ELSE ticks + silence) + 1]
  OBVIOUS
<1>3. \A m \in DOMAIN s2 : s2[m] = ticks + silence + 1
  BY <1>2
<1>4. u.stems = s1 /\ u.ticks = ticks + silence
  BY DEF OpenTake
<1>5. Feed(u, heard) = [u EXCEPT !.ticks = u.ticks + 1, !.stems = s2]
  BY <1>4 DEF Feed, Backfill
<1>6. Feed(u, heard) = OpenTake(name, ticks + silence + 1, s2, n)
  BY <1>4, <1>5 DEF OpenTake
<1> QED BY <1>1, <1>3, <1>6 DEF AlignedTake

LEMMA WorkTickKeeps == ASSUME RecordIInv, WorkTick PROVE RecordIInv'
<1>1. RecordTypeOK /\ Asks \in Seq(Orders)
  BY AsksType DEF RecordIInv
<1>2. /\ closing = FALSE /\ queue # <<>> /\ Head(queue).op = "tick" /\ queue' = Tail(queue)
      /\ closing' = FALSE
      /\ UNCHANGED <<gap, waiting, exited, minute, starts, elapsed, repeated>>
  BY <1>1 DEF WorkTick, Serves, idle, ghosts, RecordTypeOK
<1>3. Asks # <<>> /\ Head(Asks) = Head(queue)
  BY <1>1, <1>2, AsksType
<1>4. CASE (~take.open /\ take' = take) \/ take' = NoTake
  <2>1. AtNoTake'
    BY <1>4 DEF AtNoTake, NoTake
  <2>2. StemsAligned'
    BY <1>4 DEF StemsAligned, NoTake
  <2>3. take' = NoTake \/ \E name, ticks, n \in Nat : \E stems : take' = OpenTake(name, ticks, stems, n)
    BY <1>1, <1>4 DEF RecordTypeOK
  <2> QED BY <1>2, <2>1, <2>2, <2>3, TakenKeeps
<1>5. CASE take.open /\ take' = Feed(Silence(take, Head(queue).gap), Head(queue).heard)
  <2>1. take # NoTake
    BY <1>5 DEF NoTake
  <2>2. PICK name, ticks, n \in Nat : \E stems : take = OpenTake(name, ticks, stems, n)
    BY <1>1, <2>1 DEF RecordTypeOK
  <2>3. PICK stems : take = OpenTake(name, ticks, stems, n)
    BY <2>2
  <2>4. take.ticks = ticks /\ take.stems = stems /\ take.open = TRUE
    BY <2>3 DEF OpenTake
  <2>5. \A m \in DOMAIN stems : stems[m] = ticks
    BY <2>4 DEF RecordIInv, StemsAligned
  <2>6. Head(queue).gap \in Nat
    <3>1. Head(queue) \in Orders
      BY <1>1, <1>2, HeadTailProperties DEF RecordTypeOK
    <3> QED BY <1>2, <3>1, OrderWorth DEF TickMsgs
  <2>7. PICK st : /\ take' = OpenTake(name, ticks + Head(queue).gap + 1, st, n)
                  /\ \A m \in DOMAIN st : st[m] = ticks + Head(queue).gap + 1
    <3>1. PICK g \in Nat : g = Head(queue).gap
      BY <2>6
    <3>2. PICK h : h = Head(queue).heard
      OBVIOUS
    <3>3. AlignedTake(take, name, ticks, n)
      BY <2>3, <2>5 DEF AlignedTake
    <3>4. AlignedTake(Feed(Silence(take, g), h), name, ticks + g + 1, n)
      BY <3>3, FedAligned
    <3> QED BY <1>5, <3>1, <3>2, <3>4 DEF AlignedTake
  <2>8. ticks + Head(queue).gap + 1 \in Nat
    BY <2>6
  <2>9. take'.ticks = ticks + Head(queue).gap + 1 /\ take'.stems = st
    BY <2>7 DEF OpenTake
  <2>10. StemsAligned'
    BY <2>7, <2>9 DEF StemsAligned
  <2>11. ~AtNoTake
    BY <1>2, <2>4 DEF AtNoTake
  <2>12. ASSUME ~repeated PROVE TakenInTime(Tail(Asks), take'.ticks, gap, elapsed)
    <3>1. TakenInTime(Asks, ticks, gap, elapsed)
      BY <2>4, <2>11, <2>12, Zenon DEF RecordIInv, KeptInTime
    <3>2. gap \in Nat /\ elapsed \in Nat
      BY <1>1 DEF RecordTypeOK
    <3>3. TakenInTime(Tail(Asks), ticks + Head(Asks).gap + 1, gap, elapsed)
      BY <1>1, <1>2, <1>3, <3>1, <3>2, TickTaken
    <3> QED BY <1>3, <2>9, <3>3
  <2>13. \E nm, tk, m \in Nat : \E s : take' = OpenTake(nm, tk, s, m)
    BY <2>7, <2>8
  <2> QED BY <1>2, <2>10, <2>11, <2>12, <2>13, TakenKeeps
<1> QED BY <1>4, <1>5 DEF WorkTick

LEMMA WorkStopKeeps == ASSUME RecordIInv, NEW op \in {"stop", "shutdown"}, WorkStop(op) PROVE RecordIInv'
<1>1. RecordTypeOK
  BY DEF RecordIInv
<1>2. /\ closing = FALSE /\ queue # <<>> /\ Head(queue).op = op /\ queue' = Tail(queue)
      /\ take' = take
      /\ UNCHANGED <<gap, waiting, exited, minute, starts, elapsed, repeated>>
  BY <1>1 DEF WorkStop, Serves, idle, ghosts, RecordTypeOK
<1>3. closing' \in BOOLEAN /\ AtNoTake'
  BY <1>2 DEF WorkStop, AtNoTake
<1>4. StemsAligned'
  BY <1>2 DEF RecordIInv, StemsAligned
<1>5. take' = NoTake \/ \E name, ticks, n \in Nat : \E stems : take' = OpenTake(name, ticks, stems, n)
  BY <1>1, <1>2 DEF RecordTypeOK
<1> QED BY <1>2, <1>3, <1>4, <1>5, TakenKeeps

LEMMA WorkFinishKeeps == ASSUME RecordIInv, WorkFinish PROVE RecordIInv'
<1>1. RecordTypeOK
  BY DEF RecordIInv
<1>2. /\ closing = TRUE /\ closing' = FALSE /\ take' = NoTake
      /\ UNCHANGED <<queue, gap, waiting, exited, minute, starts, elapsed, repeated>>
  BY <1>1 DEF WorkFinish, idle, ghosts, RecordTypeOK
<1>3. RecordTypeOK'
  BY <1>1, <1>2 DEF RecordTypeOK
<1>4. AtNoTake = TRUE /\ AtNoTake' = TRUE /\ Asks' = Asks
  BY <1>2 DEF AtNoTake, NoTake, Asks
<1>5. KeptInTime'
  <2>1. ~repeated => AskedInTime(Asks, TRUE, gap, elapsed)
    BY <1>4, Zenon DEF RecordIInv, KeptInTime
  <2>2. ~repeated => AskedInTime(Asks', TRUE, gap', elapsed')
    BY <1>2, <1>4, <2>1
  <2> QED BY <1>2, <1>4, <2>2, Zenon DEF KeptInTime
<1>6. Shutdown'
  BY <1>2, <1>4 DEF RecordIInv, Shutdown
<1>7. StemsAligned'
  BY <1>2 DEF StemsAligned, NoTake
<1> QED BY <1>3, <1>5, <1>6, <1>7 DEF RecordIInv

LEMMA RecordStep == ASSUME RecordIInv, [RecordNext]_recordVars PROVE RecordIInv'
<1>1. CASE PressRecord
  BY <1>1, PressRecordKeeps
<1>2. CASE PressStop
  BY <1>2, PressStopKeeps
<1>3. CASE Exit
  BY <1>3, ExitKeeps
<1>4. CASE Resume \/ Minute \/ UNCHANGED recordVars
  BY <1>4, QuietKeeps
<1>5. CASE \E heard \in SUBSET Musicians : RecordTick(heard)
  BY <1>5, RecordTickKeeps
<1>6. CASE WorkStart
  BY <1>6, WorkStartKeeps
<1>7. CASE WorkTick
  BY <1>7, WorkTickKeeps
<1>8. CASE WorkStop("stop") \/ WorkStop("shutdown")
  BY <1>8, WorkStopKeeps
<1>9. CASE WorkFinish
  BY <1>9, WorkFinishKeeps
<1> QED BY <1>1, <1>2, <1>3, <1>4, <1>5, <1>6, <1>7, <1>8, <1>9, Zenon DEF RecordNext, ThreadTakes

LEMMA TrueTimeFollows == ASSUME RecordIInv PROVE KeepsTrueTime
<1> SUFFICES ASSUME take.open, ~closing, ~repeated, ~Pending("start"), ~Pending("stop"), Running
             PROVE  take.ticks + QueuedTicks(queue) + gap = elapsed
  BY DEF KeepsTrueTime, RecordIInv
<1>1. RecordTypeOK /\ queue \in Seq(Orders) /\ waiting = <<>> /\ ~exited /\ Asks = queue
  BY AsksType DEF RecordIInv, RecordTypeOK, Running
<1>2. ASSUME NEW k \in 1 .. Len(queue) PROVE queue[k].op = "tick"
  <2>1. queue[k] \in Orders
    BY <1>1
  <2>2. queue[k].op # "start" /\ queue[k].op # "stop"
    BY <1>1 DEF Pending
  <2>3. queue[k].op # "shutdown"
    BY <1>1 DEF RecordIInv, Shutdown
  <2> QED BY <2>1, <2>2, <2>3, OrderWorth
<1>3. NoOpAfter(queue, 0)
  BY <1>2 DEF NoOpAfter
<1>4. ~AtNoTake
  BY DEF AtNoTake
<1>5. TakenInTime(queue, take.ticks, gap, elapsed)
  BY <1>1, <1>4, Zenon DEF RecordIInv, KeptInTime
<1>6. QueuedTicks(queue) = TicksAfter(queue, 0)
  <2>1. DOMAIN queue = 1 .. Len(queue)
    BY <1>1
  <2>2. [i \in DOMAIN queue |-> Worth(queue[i])] = [i \in 1 .. Len(queue) |-> IF i > 0 THEN Worth(queue[i]) ELSE 0]
    BY <2>1
  <2> QED BY <2>2 DEF QueuedTicks, TicksAfter
<1> QED BY <1>3, <1>5, <1>6 DEF TakenInTime

(* The recording keeps true time: what the running take holds, what is     *)
(* queued for it and what the channel refused of it add up to the ticks    *)
(* mixed since Record was pressed, and every stem is as long as the mix,   *)
(* for every size of the channel and whatever is heard.                    *)
THEOREM TakesKeepTrueTime == RecordSpec => []KeepsTrueTime
<1>1. RecordInit => RecordIInv
  BY RecordInitKept
<1>2. RecordIInv /\ [RecordNext]_recordVars => RecordIInv'
  BY RecordStep
<1>3. RecordIInv => KeepsTrueTime
  BY TrueTimeFollows
<1> QED BY <1>1, <1>2, <1>3, PTL DEF RecordSpec

-----------------------------------------------------------------------------
(* The broadcast's children                                                *)

Rows == [proc : Nat, state : {"Idle", "Connecting", "Live", "Failed"}, retry : BOOLEAN]
Encoders == [proc : Nat, retry : BOOLEAN, reason : BOOLEAN]
Hosts == [procs : SUBSET Nat, alive : SUBSET Nat, opened : SUBSET Nat, report : Nat, gen : Nat]

(* A part of the host runs at most the process it is said to.              *)
Runs(h, proc) == h \in Hosts /\ h.procs = {proc} \ {0} /\ h.alive \subseteq h.procs

(* A row and its part of the host: what the row says is true, and what the *)
(* progress file holds while a pusher runs is that pusher's own.           *)
RowFits(row, h) ==
    /\ row \in Rows /\ Runs(h, row.proc)
    /\ row.proc # 0 <=> row.state \in {"Connecting", "Live"}
    /\ row.state = "Live" => row.proc \in h.opened
    /\ row.proc # 0 => \/ h.report = 0
                       \/ h.report = row.proc /\ row.proc \in h.opened

(* Rows and the host as they are between the requests.                     *)
RowsFit(rows, at) ==
    /\ DOMAIN rows \subseteq Destinations /\ rows = [d \in DOMAIN rows |-> rows[d]]
    /\ at = [w \in Parties |-> at[w]]
    /\ \A d \in DOMAIN rows : RowFits(rows[d], at[d])
    /\ \A d \in Destinations \ DOMAIN rows : Runs(at[d], 0)

PipeIInv ==
    /\ started \in BOOLEAN /\ encoder \in Encoders
    /\ RowsFit(dests, host) /\ Runs(host[Encoder], encoder.proc)
    /\ ~started => encoder.proc = 0 /\ \A d \in Configured : dests[d].proc = 0

LEMMA NewDestFits == ASSUME NEW h, Runs(h, 0) PROVE RowFits(NewDest, h)
  BY DEF RowFits, Rows, NewDest, Runs

LEMMA KillRuns ==
  ASSUME NEW h, NEW proc \in Nat, Runs(h, proc)
  PROVE  /\ Runs(Kill(h, proc), 0) /\ Kill(h, proc).report = h.report
         /\ Kill(h, proc).opened = h.opened
  BY DEF Runs, Kill, Hosts

LEMMA SpawnRuns ==
  ASSUME NEW h, Runs(h, 0)
  PROVE  /\ Runs(Spawn(h), h.gen + 1) /\ h.gen + 1 \in Nat \ {0}
         /\ Spawn(h).report = h.report
<1>1. h \in Hosts /\ h.procs = {} /\ h.alive = {} /\ h.gen + 1 \in Nat \ {0}
  BY DEF Runs, Hosts
<1>2. Spawn(h) = [h EXCEPT !.procs = {h.gen + 1}, !.alive = {h.gen + 1}, !.gen = h.gen + 1]
  BY <1>1 DEF Spawn, Hosts
<1>3. Spawn(h).procs = {h.gen + 1} /\ Spawn(h).alive = {h.gen + 1} /\ Spawn(h).report = h.report
  BY <1>1, <1>2 DEF Hosts
<1>4. Spawn(h) \in Hosts
  <2>1. h.opened \in SUBSET Nat /\ h.report \in Nat
    BY <1>1 DEF Hosts
  <2>2. Spawn(h) = [procs |-> {h.gen + 1}, alive |-> {h.gen + 1}, opened |-> h.opened,
                    report |-> h.report, gen |-> h.gen + 1]
    BY <1>1, <1>2 DEF Hosts
  <2> QED BY <1>1, <2>1, <2>2 DEF Hosts
<1>5. Runs(Spawn(h), h.gen + 1)
  <2> HIDE DEF Spawn
  <2> QED BY <1>1, <1>3, <1>4, SMTT(30) DEF Runs
<1> QED BY <1>1, <1>3, <1>5

LEMMA ClearRuns ==
  ASSUME NEW h, NEW proc, Runs(h, proc)
  PROVE  Runs(ClearProgress(h), proc) /\ ClearProgress(h).report = 0 /\ ClearProgress(h).opened = h.opened
  BY DEF Runs, ClearProgress, Hosts

(* Whatever a poll finds, it leaves a row that fits.                       *)
LEMMA PolledRowFits ==
  ASSUME NEW row, NEW h, RowFits(row, h), NEW enc, NEW waits, NEW fails
  PROVE  LET u == PollDestination(row, h, enc, waits, fails) IN
         /\ RowFits(u.row, u.host)
         /\ enc.proc = 0 /\ row.proc = 0 => u.row.proc = 0
<1> SUFFICES ASSUME NEW u, u = PollDestination(row, h, enc, waits, fails)
             PROVE  RowFits(u.row, u.host) /\ (enc.proc = 0 /\ row.proc = 0 => u.row.proc = 0)
  OBVIOUS
<1> DEFINE failed == [proc |-> 0, state |-> "Failed", retry |-> TRUE]
<1>0. /\ row \in Rows /\ Runs(h, row.proc) /\ row.proc \in Nat
      /\ failed \in Rows /\ failed.proc = 0 /\ failed.state = "Failed"
  BY DEF RowFits, Rows
<1>1. CASE row.proc # 0 /\ row.proc \in h.alive /\ waits
  BY <1>1 DEF PollDestination, With
<1>2. CASE row.proc # 0 /\ row.proc \in h.alive /\ ~waits
  <2>1. u = ReadReport(row, h)
    BY <1>2 DEF PollDestination
  <2>2. CASE row.state = "Connecting" /\ h.report # 0
    <3>1. u.host = h /\ u.row = [row EXCEPT !.state = "Live"]
      BY <2>1, <2>2 DEF ReadReport, With
    <3>2. u.row \in Rows /\ u.row.proc = row.proc /\ u.row.state = "Live"
      BY <1>0, <3>1 DEF Rows
    <3> QED BY <1>0, <1>2, <2>2, <3>1, <3>2 DEF RowFits
  <2>3. CASE row.state = "Live"
    <3>1. u.host = ClearProgress(h) /\ u.row = row
      BY <2>1, <2>3 DEF ReadReport, With
    <3> QED BY <1>0, <1>2, <3>1, ClearRuns DEF RowFits
  <2>4. CASE ~(row.state = "Connecting" /\ h.report # 0) /\ row.state # "Live"
    BY <1>2, <2>1, <2>4 DEF ReadReport, With
  <2> QED BY <2>2, <2>3, <2>4
<1>3. CASE row.proc # 0 /\ row.proc \notin h.alive
  <2>1. u.row = failed /\ u.host = Kill(h, row.proc)
    BY <1>3 DEF PollDestination, With
  <2>2. Runs(u.host, 0)
    BY <1>0, <2>1, KillRuns
  <2> QED BY <1>0, <1>3, <2>1, <2>2 DEF RowFits
<1>4. CASE row.proc = 0 /\ enc.proc = 0
  <2>1. u.host = h /\ u.row = IF enc.reason THEN [row EXCEPT !.state = "Failed"] ELSE row
    BY <1>4 DEF PollDestination, With
  <2>2. CASE enc.reason
    <3>1. u.row \in Rows /\ u.row.proc = 0 /\ u.row.state = "Failed"
      BY <1>0, <1>4, <2>1, <2>2 DEF Rows
    <3> QED BY <1>0, <1>4, <2>1, <3>1 DEF RowFits
  <2> QED BY <1>4, <2>1, <2>2
<1>5. CASE row.proc = 0 /\ enc.proc # 0 /\ row.retry /\ waits
  BY <1>5 DEF PollDestination, With
<1>6. CASE row.proc = 0 /\ enc.proc # 0 /\ ~(row.retry /\ waits)
  <2>1. u = SpawnPusher(h, fails)
    BY <1>6 DEF PollDestination
  <2>2. CASE fails
    <3>1. u.row = failed /\ u.host = h
      BY <2>1, <2>2 DEF SpawnPusher, With
    <3> QED BY <1>0, <1>6, <3>1 DEF RowFits
  <2>3. CASE ~fails
    <3> DEFINE c == ClearProgress(h)
               row2 == [proc |-> h.gen + 1, state |-> "Connecting", retry |-> FALSE]
    <3>1. u.row = row2 /\ u.host = Spawn(c)
      BY <2>1, <2>3 DEF SpawnPusher, With
    <3>2. Runs(c, 0) /\ c.report = 0 /\ c.gen = h.gen
      BY <1>0, <1>6, ClearRuns DEF ClearProgress, Runs, Hosts
    <3> HIDE DEF c
    <3>3. Runs(Spawn(c), h.gen + 1) /\ h.gen + 1 \in Nat \ {0} /\ Spawn(c).report = 0
      BY <3>2, SpawnRuns
    <3>4. row2 \in Rows /\ row2.proc = h.gen + 1 /\ row2.state = "Connecting"
      BY <3>3 DEF Rows
    <3> QED BY <1>6, <3>1, <3>3, <3>4 DEF RowFits
  <2> QED BY <2>2, <2>3
<1> QED BY <1>1, <1>2, <1>3, <1>4, <1>5, <1>6

LEMMA PolledEncoderFits ==
  ASSUME encoder \in Encoders, Runs(host[Encoder], encoder.proc),
         NEW enc \in Encoders, enc.proc = encoder.proc, NEW late, NEW bad
  PROVE  LET u == PollEncoder(enc, late, bad) IN
         u.row \in Encoders /\ Runs(u.host, u.row.proc)
<1> SUFFICES ASSUME NEW u, u = PollEncoder(enc, late, bad)
             PROVE  u.row \in Encoders /\ Runs(u.host, u.row.proc)
  OBVIOUS
<1> DEFINE h == host[Encoder]
<1>0. enc.proc \in Nat /\ Runs(h, enc.proc)
  BY DEF Encoders
<1>1. CASE enc.proc # 0 /\ enc.proc \notin h.alive
  <2>1. u.row = [proc |-> 0, retry |-> TRUE, reason |-> TRUE] /\ u.host = Kill(h, enc.proc)
    BY <1>1 DEF PollEncoder, EncoderFailed, With
  <2>2. u.row \in Encoders /\ u.row.proc = 0
    BY <2>1 DEF Encoders
  <2> QED BY <1>0, <2>1, <2>2, KillRuns
<1>2. CASE enc.proc = 0 /\ ~(enc.retry /\ Encoder \in late) /\ Encoder \in bad
  <2>1. u.row = [proc |-> 0, retry |-> TRUE, reason |-> TRUE] /\ u.host = h
    BY <1>2 DEF PollEncoder, With
  <2>2. u.row \in Encoders /\ u.row.proc = 0
    BY <2>1 DEF Encoders
  <2> QED BY <1>0, <1>2, <2>1, <2>2
<1>3. CASE enc.proc = 0 /\ ~(enc.retry /\ Encoder \in late) /\ Encoder \notin bad
  <2>1. u.row = [proc |-> h.gen + 1, retry |-> FALSE, reason |-> FALSE] /\ u.host = Spawn(h)
    BY <1>3 DEF PollEncoder, With
  <2>2. Runs(Spawn(h), h.gen + 1) /\ h.gen + 1 \in Nat
    BY <1>0, <1>3, SpawnRuns
  <2> QED BY <2>1, <2>2 DEF Encoders
<1>4. CASE (enc.proc # 0 /\ enc.proc \in h.alive) \/ (enc.proc = 0 /\ enc.retry /\ Encoder \in late)
  <2>1. u.row = enc /\ u.host = h
    BY <1>4 DEF PollEncoder, With
  <2> QED BY <1>0, <2>1
<1> QED BY <1>1, <1>2, <1>3, <1>4

(* A poll of rows that fit, or of none because the broadcast is stopped,   *)
(* leaves rows that fit.                                                   *)
LEMMA PolledFits ==
  ASSUME encoder \in Encoders, Runs(host[Encoder], encoder.proc),
         NEW enc \in Encoders, enc.proc = encoder.proc,
         NEW rows, NEW at, RowsFit(rows, at), at[Encoder] = host[Encoder],
         NEW late, NEW bad, started' \in BOOLEAN,
         ~started' => enc.proc = 0 /\ \A d \in DOMAIN rows : rows[d].proc = 0,
         Polled(enc, rows, at, late, bad)
  PROVE  PipeIInv'
<1>0. /\ DOMAIN rows \subseteq Destinations /\ Encoder \notin Destinations
      /\ Parties = Destinations \cup {Encoder}
  BY PipelineAssumption DEF RowsFit, Parties
<1>1. CASE started'
  <2> DEFINE up == PollEncoder(enc, late, bad)
             each == [d \in DOMAIN rows |-> PollDestination(rows[d], at[d], up.row, d \in late, d \in bad)]
  <2>1. /\ encoder' = up.row
        /\ dests' = [d \in DOMAIN rows |-> each[d].row]
        /\ host' = [w \in Parties |-> IF w = Encoder THEN up.host
                                      ELSE IF w \in DOMAIN rows THEN each[w].host ELSE at[w]]
    BY <1>1 DEF Polled
  <2>2. up.row \in Encoders /\ Runs(up.host, up.row.proc)
    BY PolledEncoderFits
  <2> HIDE DEF up
  <2>3. \A d \in DOMAIN rows : RowFits(each[d].row, each[d].host)
    <3> TAKE d \in DOMAIN rows
    <3>1. RowFits(rows[d], at[d])
      BY DEF RowsFit
    <3>2. each[d] = PollDestination(rows[d], at[d], up.row, d \in late, d \in bad)
      OBVIOUS
    <3> QED BY <3>1, <3>2, PolledRowFits
  <2> HIDE DEF each
  <2>4. /\ DOMAIN dests' = DOMAIN rows /\ host'[Encoder] = up.host
        /\ \A d \in DOMAIN rows : dests'[d] = each[d].row /\ host'[d] = each[d].host
        /\ \A d \in Destinations \ DOMAIN rows : host'[d] = at[d]
    BY <1>0, <2>1
  <2>5. RowsFit(dests', host')
    <3>1. dests' = [d \in DOMAIN dests' |-> dests'[d]]
      BY <2>1
    <3>2. host' = [w \in Parties |-> host'[w]]
      BY <2>1
    <3> QED BY <1>0, <2>3, <2>4, <3>1, <3>2 DEF RowsFit
  <2> QED BY <1>1, <2>1, <2>2, <2>4, <2>5 DEF PipeIInv
<1>2. CASE ~started'
  <2>1. encoder' = enc /\ dests' = rows /\ host' = at
    BY <1>2 DEF Polled
  <2> QED BY <1>2, <2>1 DEF PipeIInv, Configured
<1> QED BY <1>1, <1>2

(* Fitting rows stay so when nothing but the host changes, fittingly.      *)
LEMMA HostFits ==
  ASSUME RowsFit(dests, host), dests' = dests, host' = [w \in Parties |-> host'[w]],
         \A d \in Configured : RowFits(dests[d], host'[d]),
         \A d \in Destinations \ Configured : Runs(host'[d], 0)
  PROVE  RowsFit(dests', host')
<1>1. DOMAIN dests' = Configured /\ Configured = DOMAIN dests /\ \A d \in Configured : dests'[d] = dests[d]
  BY DEF Configured
<1>2. Configured \subseteq Destinations /\ dests' = [d \in DOMAIN dests' |-> dests'[d]]
  BY <1>1 DEF RowsFit
<1> QED BY <1>1, <1>2 DEF RowsFit

(* What stop_destination leaves is fit for a new row, or for none.         *)
LEMMA StoppedRuns ==
  ASSUME PipeIInv, NEW d \in Configured
  PROVE  Runs(StopDestination(d), 0)
<1>1. RowFits(dests[d], host[d])
  BY DEF PipeIInv, RowsFit, Configured
<1>2. dests[d].proc \in Nat /\ Runs(host[d], dests[d].proc)
  BY <1>1 DEF RowFits, Rows
<1>3. CASE dests[d].proc # 0
  BY <1>2, <1>3, KillRuns, ClearRuns DEF StopDestination
<1>4. CASE dests[d].proc = 0
  BY <1>2, <1>4, ClearRuns DEF StopDestination
<1> QED BY <1>3, <1>4

LEMMA PipeStarts == PipeInit => PipeIInv
<1> SUFFICES ASSUME PipeInit PROVE PipeIInv
  OBVIOUS
<1> DEFINE h == [procs |-> {}, alive |-> {}, opened |-> {}, report |-> 0, gen |-> 0]
<1>1. DOMAIN dests = {} /\ host = [w \in Parties |-> h] /\ started = FALSE
  BY DEF PipeInit
<1>2. Runs(h, 0)
  BY DEF Runs, Hosts
<1> HIDE DEF h
<1>3. RowsFit(dests, host)
  BY <1>1, <1>2 DEF RowsFit, PipeInit, Parties
<1>4. encoder \in Encoders /\ encoder.proc = 0
  BY DEF PipeInit, Encoders
<1>5. Runs(host[Encoder], encoder.proc)
  BY <1>1, <1>2, <1>4 DEF Parties
<1> QED BY <1>1, <1>3, <1>4, <1>5 DEF PipeIInv, Configured

LEMMA PipeStep == PipeIInv /\ [PipeNext]_pipeVars => PipeIInv'
<1> SUFFICES ASSUME PipeIInv, [PipeNext]_pipeVars PROVE PipeIInv'
  OBVIOUS
<1>0. /\ encoder \in Encoders /\ encoder.proc \in Nat /\ Runs(host[Encoder], encoder.proc)
      /\ RowsFit(dests, host) /\ started \in BOOLEAN
      /\ Parties = Destinations \cup {Encoder} /\ Encoder \notin Destinations
      /\ Configured \subseteq Destinations /\ Configured = DOMAIN dests
      /\ dests = [d \in Configured |-> dests[d]] /\ host = [w \in Parties |-> host[w]]
      /\ \A d \in Configured : RowFits(dests[d], host[d]) /\ Runs(host[d], dests[d].proc)
      /\ \A d \in Destinations \ Configured : Runs(host[d], 0)
  BY PipelineAssumption DEF PipeIInv, RowsFit, RowFits, Configured, Encoders, Parties
<1>1. ASSUME NEW late, NEW bad, Poll(late, bad) PROVE PipeIInv'
  <2>1. started' = started /\ Polled(encoder, dests, host, late, bad)
    BY <1>1 DEF Poll
  <2>2. ~started' => encoder.proc = 0 /\ \A d \in DOMAIN dests : dests[d].proc = 0
    BY <2>1 DEF PipeIInv, Configured
  <2> QED BY <1>0, <2>1, <2>2, PolledFits
<1>2. ASSUME NEW late, NEW bad, Start(late, bad) PROVE PipeIInv'
  <2> DEFINE enc == [encoder EXCEPT !.retry = FALSE]
  <2>1. started' = TRUE /\ Polled(enc, dests, host, late, bad)
    BY <1>2 DEF Start
  <2>2. enc \in Encoders /\ enc.proc = encoder.proc
    BY <1>0 DEF Encoders
  <2> HIDE DEF enc
  <2> QED BY <1>0, <2>1, <2>2, PolledFits
<1>3. ASSUME NEW late, NEW bad, NEW d \in Destinations, AddDestination(d, late, bad) PROVE PipeIInv'
  <2> DEFINE rows == [e \in Configured \cup {d} |-> IF e = d THEN NewDest ELSE dests[e]]
             at == IF d \in Configured THEN [host EXCEPT ![d] = StopDestination(d)] ELSE host
  <2>1. started' = started /\ Polled(encoder, rows, at, late, bad)
    BY <1>3 DEF AddDestination
  <2>2. /\ at = [w \in Parties |-> at[w]] /\ Runs(at[d], 0)
        /\ \A w \in Parties : w # d => at[w] = host[w]
    <3>1. CASE d \in Configured
      <4>1. Runs(StopDestination(d), 0)
        BY <3>1, StoppedRuns
      <4> QED BY <1>0, <3>1, <4>1
    <3>2. CASE d \notin Configured
      BY <1>0, <3>2
    <3> QED BY <3>1, <3>2
  <2>3. at[Encoder] = host[Encoder]
    BY <1>0, <2>2
  <2>4. DOMAIN rows = Configured \cup {d} /\ rows = [e \in DOMAIN rows |-> rows[e]] /\ rows[d] = NewDest
        /\ \A e \in Configured : e # d => rows[e] = dests[e]
    OBVIOUS
  <2> HIDE DEF rows, at
  <2>5. RowsFit(rows, at)
    <3>1. \A e \in DOMAIN rows : RowFits(rows[e], at[e])
      <4> TAKE e \in DOMAIN rows
      <4>1. CASE e = d
        BY <2>2, <2>4, <4>1, NewDestFits
      <4>2. CASE e # d
        BY <1>0, <2>2, <2>4, <4>2
      <4> QED BY <4>1, <4>2
    <3>2. \A e \in Destinations \ DOMAIN rows : Runs(at[e], 0)
      BY <1>0, <2>2, <2>4
    <3> QED BY <1>0, <2>2, <2>4, <3>1, <3>2 DEF RowsFit
  <2>6. ~started' => encoder.proc = 0 /\ \A e \in DOMAIN rows : rows[e].proc = 0
    BY <2>1, <2>4 DEF PipeIInv, NewDest
  <2> QED BY <1>0, <2>1, <2>3, <2>5, <2>6, PolledFits
<1>4. ASSUME NEW d \in Destinations, RemoveDestination(d) PROVE PipeIInv'
  <2>1. /\ d \in Configured /\ UNCHANGED <<started, encoder>>
        /\ dests' = [e \in Configured \ {d} |-> dests[e]]
        /\ host' = [host EXCEPT ![d] = StopDestination(d)]
    BY <1>0, <1>4 DEF RemoveDestination, Restrict
  <2>2. Runs(StopDestination(d), 0)
    BY <2>1, StoppedRuns
  <2>3. /\ host' = [w \in Parties |-> host'[w]] /\ Runs(host'[d], 0)
        /\ \A w \in Parties : w # d => host'[w] = host[w]
    BY <1>0, <2>1, <2>2
  <2>4. DOMAIN dests' = Configured \ {d} /\ \A e \in Configured \ {d} : dests'[e] = dests[e]
    BY <2>1
  <2>5. RowsFit(dests', host')
    <3>1. dests' = [e \in DOMAIN dests' |-> dests'[e]]
      BY <2>1
    <3>2. \A e \in DOMAIN dests' : RowFits(dests'[e], host'[e])
      BY <1>0, <2>3, <2>4
    <3>3. \A e \in Destinations \ DOMAIN dests' : Runs(host'[e], 0)
      BY <1>0, <2>3, <2>4
    <3> QED BY <1>0, <2>3, <2>4, <3>1, <3>2, <3>3 DEF RowsFit
  <2>6. Runs(host'[Encoder], encoder'.proc)
    BY <1>0, <2>1, <2>3
  <2> QED BY <1>0, <2>1, <2>4, <2>5, <2>6 DEF PipeIInv, Configured
<1>5. ASSUME Stop PROVE PipeIInv'
  <2>1. /\ started' = FALSE /\ encoder' = [encoder EXCEPT !.proc = 0]
        /\ dests' = [d \in Configured |-> NewDest]
        /\ host' = [w \in Parties |-> IF w \in Configured THEN StopDestination(w)
                                      ELSE IF w = Encoder /\ encoder.proc # 0 THEN Kill(host[w], encoder.proc)
                                      ELSE host[w]]
    BY <1>5 DEF Stop
  <2>2. encoder' \in Encoders /\ encoder'.proc = 0
    BY <1>0, <2>1 DEF Encoders
  <2>3. \A d \in Configured : host'[d] = StopDestination(d) /\ dests'[d] = NewDest
    BY <1>0, <2>1
  <2>4. \A d \in Configured : RowFits(dests'[d], host'[d])
    BY <2>3, StoppedRuns, NewDestFits
  <2>5. \A d \in Destinations \ Configured : Runs(host'[d], 0)
    BY <1>0, <2>1
  <2>6. Runs(host'[Encoder], 0)
    <3>1. CASE encoder.proc # 0
      <4>1. host'[Encoder] = Kill(host[Encoder], encoder.proc)
        BY <1>0, <2>1, <3>1
      <4> QED BY <1>0, <4>1, KillRuns
    <3>2. CASE encoder.proc = 0
      BY <1>0, <2>1, <3>2
    <3> QED BY <3>1, <3>2
  <2>7. RowsFit(dests', host')
    <3>1. DOMAIN dests' = Configured /\ dests' = [d \in DOMAIN dests' |-> dests'[d]]
      BY <2>1
    <3>2. host' = [w \in Parties |-> host'[w]]
      BY <2>1
    <3> QED BY <1>0, <2>4, <2>5, <3>1, <3>2 DEF RowsFit
  <2>8. \A d \in DOMAIN dests' : dests'[d].proc = 0
    BY <2>1 DEF NewDest
  <2> QED BY <2>1, <2>2, <2>6, <2>7, <2>8 DEF PipeIInv, Configured
<1>6. ASSUME FeedFails PROVE PipeIInv'
  <2> DEFINE k == Kill(host[Encoder], encoder.proc)
  <2>1. /\ encoder' = [proc |-> 0, retry |-> TRUE, reason |-> TRUE]
        /\ host' = [host EXCEPT ![Encoder] = k] /\ UNCHANGED <<started, dests>>
    BY <1>6 DEF FeedFails, EncoderFailed, With
  <2>2. Runs(k, 0)
    BY <1>0, KillRuns
  <2> HIDE DEF k
  <2>3. /\ host' = [w \in Parties |-> host'[w]] /\ host'[Encoder] = k
        /\ \A d \in Destinations : host'[d] = host[d]
    BY <1>0, <2>1
  <2>4. encoder' \in Encoders /\ encoder'.proc = 0
    BY <2>1 DEF Encoders
  <2>5. RowsFit(dests', host')
    BY <1>0, <2>1, <2>3, HostFits
  <2> QED BY <1>0, <2>1, <2>2, <2>3, <2>4, <2>5 DEF PipeIInv, Configured
<1>7. ASSUME NEW w \in Parties, NEW proc \in host[w].procs, Dies(w, proc) PROVE PipeIInv'
  <2> DEFINE h == [host[w] EXCEPT !.alive = @ \ {proc}]
  <2>1. /\ host' = [host EXCEPT ![w] = h] /\ UNCHANGED <<started, encoder, dests>>
    BY <1>7 DEF Dies
  <2>2. \A x : Runs(host[w], x) => /\ Runs(h, x) /\ h.opened = host[w].opened /\ h.report = host[w].report
    BY DEF Runs, Hosts
  <2> HIDE DEF h
  <2>3. /\ host' = [v \in Parties |-> host'[v]] /\ host'[w] = h
        /\ \A v \in Parties : v # w => host'[v] = host[v]
    BY <1>0, <2>1
  <2>4. \A d \in Configured : RowFits(dests[d], host'[d])
    <3> TAKE d \in Configured
    <3>1. CASE d = w
      BY <1>0, <2>2, <2>3, <3>1 DEF RowFits
    <3>2. CASE d # w
      BY <1>0, <2>3, <3>2
    <3> QED BY <3>1, <3>2
  <2>5. \A d \in Destinations \ Configured : Runs(host'[d], 0)
    BY <1>0, <2>2, <2>3
  <2>6. Runs(host'[Encoder], encoder.proc)
    BY <1>0, <2>2, <2>3
  <2>7. RowsFit(dests', host')
    BY <1>0, <2>1, <2>3, <2>4, <2>5, HostFits
  <2> QED BY <1>0, <2>1, <2>6, <2>7 DEF PipeIInv, Configured
<1>8. ASSUME NEW w \in Destinations, NEW proc \in host[w].procs, Reports(w, proc) PROVE PipeIInv'
  <2> DEFINE h == [host[w] EXCEPT !.opened = @ \cup {proc}, !.report = proc]
  <2>1. /\ host' = [host EXCEPT ![w] = h] /\ UNCHANGED <<started, encoder, dests>>
    BY <1>8 DEF Reports
  <2>2. \A x : Runs(host[w], x) => /\ Runs(h, x) /\ h.opened = host[w].opened \cup {proc} /\ h.report = proc
                                  /\ proc = x
    BY DEF Runs, Hosts
  <2> HIDE DEF h
  <2>3. /\ host' = [v \in Parties |-> host'[v]] /\ host'[w] = h
        /\ \A v \in Parties : v # w => host'[v] = host[v]
    BY <1>0, <2>1
  <2>4. \A d \in Configured : RowFits(dests[d], host'[d])
    <3> TAKE d \in Configured
    <3>1. CASE d = w
      <4>1. Runs(h, dests[d].proc) /\ h.opened = host[d].opened \cup {dests[d].proc} /\ h.report = dests[d].proc
        BY <1>0, <2>2, <3>1
      <4> QED BY <1>0, <2>3, <3>1, <4>1 DEF RowFits
    <3>2. CASE d # w
      BY <1>0, <2>3, <3>2
    <3> QED BY <3>1, <3>2
  <2>5. \A d \in Destinations \ Configured : Runs(host'[d], 0)
    BY <1>0, <2>2, <2>3
  <2>6. Runs(host'[Encoder], encoder.proc)
    BY <1>0, <2>3
  <2>7. RowsFit(dests', host')
    BY <1>0, <2>1, <2>3, <2>4, <2>5, HostFits
  <2> QED BY <1>0, <2>1, <2>6, <2>7 DEF PipeIInv, Configured
<1>9. CASE UNCHANGED pipeVars
  BY <1>9 DEF PipeIInv, Configured, pipeVars
<1> QED BY <1>1, <1>2, <1>3, <1>4, <1>5, <1>6, <1>7, <1>8, <1>9 DEF PipeNext

LEMMA FitMeansMatch == PipeIInv => RowsMatchChildren
<1> SUFFICES ASSUME PipeIInv PROVE RowsMatchChildren
  OBVIOUS
<1>1. /\ \A d \in Configured : RowFits(dests[d], host[d])
      /\ \A d \in Destinations \ Configured : Runs(host[d], 0)
      /\ Configured \subseteq Destinations
  BY DEF PipeIInv, RowsFit, Configured
<1>2. \A w \in Parties : host[w].procs = {Known(w)} \ {0}
  <2> TAKE w \in Parties
  <2>1. CASE w = Encoder
    BY <2>1 DEF PipeIInv, Runs, Known
  <2>2. CASE w # Encoder /\ w \in Configured
    BY <1>1, <2>2 DEF RowFits, Runs, Known
  <2>3. CASE w # Encoder /\ w \notin Configured
    BY <1>1, <2>3 DEF Runs, Known, Parties
  <2> QED BY <2>1, <2>2, <2>3
<1>3. ~started => \A w \in Parties : Known(w) = 0
  BY DEF PipeIInv, Known
<1> QED BY <1>1, <1>2, <1>3 DEF RowsMatchChildren, RowFits

(* Whatever dies, fails to start or reports late, and whatever the host    *)
(* asks meanwhile (pipeline.rs), the children that run are those the       *)
(* pipeline knows and every row tells the truth about its own pusher.      *)
THEOREM RowsTellTruth == PipeSpec => []RowsMatchChildren
<1>1. PipeSpec => []PipeIInv
  BY PipeStarts, PipeStep, PTL DEF PipeSpec
<1> QED BY <1>1, FitMeansMatch, PTL

-----------------------------------------------------------------------------
(* A picture on its way to the server                                      *)

(* What the server has not heard of the client's queue, as a function of   *)
(* the place in it.                                                        *)
Left == Len(pending) - taken
Unread == [i \in 1 .. Left |-> pending[taken + i]]

IsChunk(msg) == msg.kind = "chunk"
NoneOf(q, pic) == \A i \in 1 .. Len(q) : q[i] # pic
OneOf(q, pic) == \E i \in 1 .. Len(q) : q[i] = pic /\ \A j \in 1 .. Len(q) : q[j] = pic => j = i

(* The chunks among the messages are those from n up to e, in order.       *)
Flows(u, L, n, e) ==
    /\ \A i, j \in 1 .. L : IsChunk(u[i]) /\ IsChunk(u[j]) /\ i < j => u[i].index < u[j].index
    /\ \A i \in 1 .. L : IsChunk(u[i]) => u[i].index \in n .. e - 1
    /\ \A k \in n .. e - 1 : \E i \in 1 .. L : IsChunk(u[i]) /\ u[i].index = k

(* A chunk on its way is of the picture announced, and so is all before    *)
(* it; from the announce of the client's own picture on, or when that is   *)
(* announced already, there is nothing about another.                      *)
InOrder(u, L, o, a) ==
    /\ \A j \in 1 .. L : IsChunk(u[j]) => u[j].pic \in a /\ \A i \in 1 .. j - 1 : u[i].pic = u[j].pic
    /\ \A pic \in o : \A j \in 1 .. L :
          a = {pic} \/ (\E i \in 1 .. j - 1 : u[i].pic = pic) => u[j].pic = pic

(* Where the rest of a picture from chunk e on comes from: the train, the  *)
(* train it will be started by the only request for it, or there is none.  *)
Source(t, q, pic, e) ==
    \/ t = <<[pic |-> pic, next |-> e]>> /\ NoneOf(q, pic)
    \/ t = <<>> /\ e = TOTAL /\ NoneOf(q, pic)
    \/ t = <<>> /\ e = 0 /\ OneOf(q, pic)

(* The client's own picture o, its trains t, the requests q, the picture   *)
(* announced a, the receiver r and the cache c of the server.              *)
Uncrossed(u, L, o, t, q, a, r, c) ==
    /\ InOrder(u, L, o, a)
    /\ r = {} => \A i \in 1 .. L : ~IsChunk(u[i])
    /\ \A x \in r : /\ r = {x} /\ a = {x.pic} /\ x.pic \notin c
                    /\ x = [pic |-> x.pic, next |-> x.next] /\ x.next \in 0 .. TOTAL - 1
                    /\ \E e \in x.next .. TOTAL : Flows(u, L, x.next, e) /\ (o = a => Source(t, q, x.pic, e))
    /\ \A pic \in o : /\ o = {pic}
                      /\ a = {pic} /\ r = {} =>
                            NoneOf(q, pic) /\ (t = <<>> \/ (pic \in c /\ t = <<[pic |-> pic, next |-> TOTAL]>>))
                      /\ a # {pic} => NoneOf(q, pic) /\ t = <<>>
    /\ o = {} => t = <<>>

(* Every picture anywhere was set by the client.                           *)
AllShown ==
    /\ own \cup announced \subseteq shown
    /\ \A i \in 1 .. Len(requests) : requests[i] \in shown
    /\ \A i \in 1 .. Left : Unread[i].pic \in shown

UploadTypes ==
    /\ pending \in Seq(Messages) /\ taken \in Nat /\ Left \in Nat
    /\ requests \in Seq(Pictures)
    /\ announced = {} \/ \E pic \in Pictures : announced = {pic}
    /\ own \subseteq Pictures /\ cache \subseteq Pictures

Calm == ~refused /\ ~putBack

(* The queue as a function, after each thing that may be done to it.       *)
LEMMA FlowsOn ==
  ASSUME NEW u, NEW v, NEW L \in Nat, NEW n \in Nat, NEW e \in Nat, NEW m \in Nat, n <= e, Flows(u, L, n, e),
         \A i \in 1 .. L : v[i] = u[i],
         \A i \in 1 .. m : IsChunk(v[L + i]) /\ v[L + i].index = e + i - 1
  PROVE  Flows(v, L + m, n, e + m)
<1>1. \A i \in 1 .. L + m : i \in 1 .. L \/ (i - L \in 1 .. m /\ L + (i - L) = i)
  OBVIOUS
<1>2. \A i \in 1 .. L + m : i \notin 1 .. L => IsChunk(v[i]) /\ v[i].index = e + (i - L) - 1
  BY <1>1
<1>3. \A i \in 1 .. L + m : IsChunk(v[i]) => v[i].index \in n .. e + m - 1
  <2> TAKE i \in 1 .. L + m
  <2>1. CASE i \in 1 .. L
    BY <2>1 DEF Flows
  <2>2. CASE i \notin 1 .. L
    BY <1>1, <1>2, <2>2
  <2> QED BY <2>1, <2>2
<1>4. ASSUME NEW i \in 1 .. L + m, NEW j \in 1 .. L + m, IsChunk(v[i]), IsChunk(v[j]), i < j
      PROVE  v[i].index < v[j].index
  <2>1. CASE j \in 1 .. L
    <3>1. i \in 1 .. L
      BY <1>4, <2>1
    <3> QED BY <1>4, <2>1, <3>1 DEF Flows
  <2>2. CASE j \notin 1 .. L /\ i \in 1 .. L
    <3>1. v[i].index \in n .. e - 1
      BY <1>4, <2>2 DEF Flows
    <3> QED BY <1>1, <1>2, <2>2, <3>1
  <2>3. CASE j \notin 1 .. L /\ i \notin 1 .. L
    BY <1>1, <1>2, <1>4, <2>3
  <2> QED BY <2>1, <2>2, <2>3
<1>5. ASSUME NEW k \in n .. e + m - 1 PROVE \E i \in 1 .. L + m : IsChunk(v[i]) /\ v[i].index = k
  <2>1. CASE k < e
    <3>1. PICK i \in 1 .. L : IsChunk(u[i]) /\ u[i].index = k
      BY <2>1 DEF Flows
    <3>2. i \in 1 .. L + m
      OBVIOUS
    <3> QED BY <3>1, <3>2
  <2>2. CASE k >= e
    <3>1. k - e + 1 \in 1 .. m /\ L + (k - e + 1) \in 1 .. L + m /\ e + (k - e + 1) - 1 = k
      BY <2>2
    <3> QED BY <3>1
  <2> QED BY <2>1, <2>2
<1> QED BY <1>3, <1>4, <1>5 DEF Flows

LEMMA FlowsPast ==
  ASSUME NEW u, NEW v, NEW L \in Nat, NEW n \in Nat, NEW e \in Nat, Flows(u, L, n, e),
         \A i \in 1 .. L : v[i] = u[i], ~IsChunk(v[L + 1])
  PROVE  Flows(v, L + 1, n, e)
<1>1. \A i \in 1 .. L + 1 : IsChunk(v[i]) => i \in 1 .. L
  OBVIOUS
<1>2. \A i \in 1 .. L : i \in 1 .. L + 1
  OBVIOUS
<1> QED BY <1>1, <1>2 DEF Flows

LEMMA FlowsNone ==
  ASSUME NEW u, NEW L \in Nat, NEW n \in Nat, \A i \in 1 .. L : ~IsChunk(u[i])
  PROVE  Flows(u, L, n, n)
<1>1. n .. n - 1 = {}
  OBVIOUS
<1> QED BY <1>1 DEF Flows

LEMMA FlowsHeard ==
  ASSUME NEW u, NEW v, NEW L \in Nat \ {0}, NEW n \in Nat, NEW e \in Nat, Flows(u, L, n, e),
         \A i \in 1 .. L - 1 : v[i] = u[i + 1]
  PROVE  /\ ~IsChunk(u[1]) => Flows(v, L - 1, n, e)
         /\ IsChunk(u[1]) => u[1].index = n /\ n < e /\ Flows(v, L - 1, n + 1, e)
<1>1. \A i \in 1 .. L - 1 : i + 1 \in 1 .. L /\ 1 < i + 1
  OBVIOUS
<1>2. \A i \in 1 .. L : i = 1 \/ (i - 1 \in 1 .. L - 1 /\ v[i - 1] = u[i])
  OBVIOUS
<1>3. ASSUME NEW i \in 1 .. L - 1, NEW j \in 1 .. L - 1, IsChunk(v[i]), IsChunk(v[j]), i < j
      PROVE  v[i].index < v[j].index
  <2>1. i + 1 < j + 1 /\ v[i] = u[i + 1] /\ v[j] = u[j + 1]
    BY <1>3
  <2> QED BY <1>1, <1>3, <2>1 DEF Flows
<1>4. CASE ~IsChunk(u[1])
  <2>1. \A k \in n .. e - 1 : \E i \in 1 .. L - 1 : IsChunk(v[i]) /\ v[i].index = k
    <3> TAKE k \in n .. e - 1
    <3>1. PICK i \in 1 .. L : IsChunk(u[i]) /\ u[i].index = k
      BY DEF Flows
    <3>2. i - 1 \in 1 .. L - 1 /\ v[i - 1] = u[i]
      BY <1>2, <1>4, <3>1
    <3> QED BY <3>1, <3>2
  <2>2. \A i \in 1 .. L - 1 : IsChunk(v[i]) => v[i].index \in n .. e - 1
    BY <1>1 DEF Flows
  <2> QED BY <1>3, <1>4, <2>1, <2>2 DEF Flows
<1>5. CASE IsChunk(u[1])
  <2>1. 1 \in 1 .. L /\ u[1].index \in n .. e - 1
    BY <1>5 DEF Flows
  <2>2. u[1].index = n
    <3>1. n \in n .. e - 1
      BY <2>1
    <3>2. PICK i \in 1 .. L : IsChunk(u[i]) /\ u[i].index = n
      BY <3>1 DEF Flows
    <3>3. i = 1 \/ u[1].index < u[i].index
      BY <1>5, <2>1, <3>2 DEF Flows
    <3> QED BY <2>1, <3>2, <3>3
  <2>3. \A i \in 1 .. L - 1 : IsChunk(v[i]) => v[i].index \in n + 1 .. e - 1
    <3> TAKE i \in 1 .. L - 1
    <3>1. v[i] = u[i + 1] /\ i + 1 \in 1 .. L /\ 1 < i + 1
      BY <1>1
    <3>2. IsChunk(u[i + 1]) => u[i + 1].index \in n .. e - 1 /\ u[1].index < u[i + 1].index
      BY <1>5, <2>1, <3>1 DEF Flows
    <3> QED BY <2>2, <3>1, <3>2
  <2>4. \A k \in n + 1 .. e - 1 : \E i \in 1 .. L - 1 : IsChunk(v[i]) /\ v[i].index = k
    <3> TAKE k \in n + 1 .. e - 1
    <3>1. k \in n .. e - 1
      OBVIOUS
    <3>2. PICK i \in 1 .. L : IsChunk(u[i]) /\ u[i].index = k
      BY <3>1 DEF Flows
    <3>3. i # 1
      BY <2>2, <3>2
    <3>4. i - 1 \in 1 .. L - 1 /\ v[i - 1] = u[i]
      BY <1>2, <3>3
    <3> QED BY <3>2, <3>4
  <2>5. n < e
    BY <2>1, <2>2
  <2> QED BY <1>3, <1>5, <2>2, <2>3, <2>4, <2>5 DEF Flows
<1> QED BY <1>4, <1>5

(* What remains after the first message is in order too.                   *)
LEMMA InOrderHeard ==
  ASSUME NEW u, NEW v, NEW L \in Nat \ {0}, NEW o, NEW a, InOrder(u, L, o, a),
         \A i \in 1 .. L - 1 : v[i] = u[i + 1]
  PROVE  InOrder(v, L - 1, o, a)
<1>1. ASSUME NEW j \in 1 .. L - 1, IsChunk(v[j])
      PROVE  v[j].pic \in a /\ \A i \in 1 .. j - 1 : v[i].pic = v[j].pic
  <2>1. j + 1 \in 1 .. L /\ v[j] = u[j + 1]
    OBVIOUS
  <2>2. \A i \in 1 .. j - 1 : i + 1 \in 1 .. (j + 1) - 1 /\ v[i] = u[i + 1]
    OBVIOUS
  <2> QED BY <1>1, <2>1, <2>2 DEF InOrder
<1>2. ASSUME NEW pic \in o, NEW j \in 1 .. L - 1, a = {pic} \/ (\E i \in 1 .. j - 1 : v[i].pic = pic)
      PROVE  v[j].pic = pic
  <2>1. j + 1 \in 1 .. L /\ v[j] = u[j + 1]
    OBVIOUS
  <2>2. \A i \in 1 .. j - 1 : i + 1 \in 1 .. (j + 1) - 1 /\ v[i] = u[i + 1]
    OBVIOUS
  <2> QED BY <1>2, <2>1, <2>2 DEF InOrder
<1> QED BY <1>1, <1>2 DEF InOrder

(* set_avatar: the picture in force again, or one never set before.        *)
LEMMA AnnouncedStays ==
  ASSUME NEW u, NEW v, NEW L \in Nat, NEW o, NEW t, NEW q, NEW a, NEW r, NEW c, NEW s, NEW pic,
         Uncrossed(u, L, o, t, q, a, r, c),
         \A i \in 1 .. L : v[i] = u[i], ~IsChunk(v[L + 1]), v[L + 1].pic = pic,
         \/ o = {pic} /\ s = t
         \/ /\ pic \notin a /\ NoneOf(q, pic) /\ s = <<>>
            /\ \A i \in 1 .. L : u[i].pic # pic
  PROVE  Uncrossed(v, L + 1, {pic}, s, q, a, r, c)
<1> USE AvatarAssumption
<1>1. \A i \in 1 .. L + 1 : i \in 1 .. L \/ i = L + 1
  OBVIOUS
<1>2. \A j \in 1 .. L + 1 : IsChunk(v[j]) => j \in 1 .. L /\ v[j] = u[j]
  BY <1>1
<1>3. InOrder(v, L + 1, {pic}, a)
  <2>1. ASSUME NEW j \in 1 .. L + 1, IsChunk(v[j])
        PROVE  v[j].pic \in a /\ \A i \in 1 .. j - 1 : v[i].pic = v[j].pic
    <3>1. j \in 1 .. L /\ v[j] = u[j] /\ \A i \in 1 .. j - 1 : v[i] = u[i]
      BY <1>2, <2>1
    <3> QED BY <2>1, <3>1 DEF Uncrossed, InOrder
  <2>2. ASSUME NEW j \in 1 .. L + 1, a = {pic} \/ (\E i \in 1 .. j - 1 : v[i].pic = pic)
        PROVE  v[j].pic = pic
    <3>1. CASE j = L + 1
      BY <3>1
    <3>2. CASE j \in 1 .. L
      <4>1. v[j] = u[j] /\ \A i \in 1 .. j - 1 : i \in 1 .. L /\ v[i] = u[i]
        BY <3>2
      <4>2. o = {pic}
        BY <2>2, <4>1
      <4>3. a = {pic} \/ (\E i \in 1 .. j - 1 : u[i].pic = pic)
        BY <2>2, <4>1
      <4> QED BY <3>2, <4>1, <4>2, <4>3 DEF Uncrossed, InOrder
    <3> QED BY <1>1, <3>1, <3>2
  <2> QED BY <2>1, <2>2 DEF InOrder
<1>4. r = {} => \A i \in 1 .. L + 1 : ~IsChunk(v[i])
  BY <1>2 DEF Uncrossed
<1>5. ASSUME NEW x \in r
      PROVE  /\ r = {x} /\ a = {x.pic} /\ x.pic \notin c
             /\ x = [pic |-> x.pic, next |-> x.next] /\ x.next \in 0 .. TOTAL - 1
             /\ \E e \in x.next .. TOTAL : Flows(v, L + 1, x.next, e) /\ ({pic} = a => Source(s, q, x.pic, e))
  <2>1. PICK e \in x.next .. TOTAL : Flows(u, L, x.next, e) /\ (o = a => Source(t, q, x.pic, e))
    BY DEF Uncrossed
  <2>2. r = {x} /\ a = {x.pic} /\ x.pic \notin c /\ x = [pic |-> x.pic, next |-> x.next] /\ x.next \in 0 .. TOTAL - 1
    BY DEF Uncrossed
  <2>3. e \in Nat /\ x.next \in Nat
    BY <2>2
  <2>4. Flows(v, L + 1, x.next, e)
    BY <2>1, <2>3, FlowsPast
  <2>5. {pic} = a => o = a /\ s = t
    BY <2>2
  <2> QED BY <2>1, <2>2, <2>4, <2>5
<1>6. a = {pic} /\ r = {} => NoneOf(q, pic) /\ (s = <<>> \/ (pic \in c /\ s = <<[pic |-> pic, next |-> TOTAL]>>))
  BY DEF Uncrossed
<1>7. a # {pic} => NoneOf(q, pic) /\ s = <<>>
  BY DEF Uncrossed
<1> QED BY <1>3, <1>4, <1>5, <1>6, <1>7 DEF Uncrossed

(* poll: the next chunks of the train.                                     *)
LEMMA FedInOrder ==
  ASSUME NEW u, NEW v, NEW L \in Nat, NEW m \in Nat, NEW o, NEW t, NEW q, NEW a, NEW r, NEW c,
         NEW pic \in o, NEW n \in 0 .. TOTAL,
         Uncrossed(u, L, o, <<[pic |-> pic, next |-> n]>>, q, a, r, c),
         n + m \in 0 .. TOTAL,
         t = <<[pic |-> pic, next |-> n + m]>> \/ (t = <<>> /\ n + m = TOTAL),
         \A i \in 1 .. L : v[i] = u[i],
         \A i \in 1 .. m : v[L + i] = Chunk(pic, n + i - 1)
  PROVE  Uncrossed(v, L + m, o, t, q, a, r, c)
<1> USE AvatarAssumption
<1> DEFINE b == <<[pic |-> pic, next |-> n]>>
<1>0. b # <<>> /\ \A y, e : b = <<[pic |-> y, next |-> e]>> => y = pic /\ e = n
  <2>1. b # <<>>
    OBVIOUS
  <2>2. ASSUME NEW y, NEW e, b = <<[pic |-> y, next |-> e]>> PROVE y = pic /\ e = n
    <3>1. b[1] = [pic |-> pic, next |-> n] /\ b[1] = [pic |-> y, next |-> e]
      BY <2>2
    <3> HIDE DEF b
    <3> QED BY <3>1
  <2> QED BY <2>1, <2>2
<1>1. Uncrossed(u, L, o, b, q, a, r, c)
  OBVIOUS
<1> HIDE DEF b
<1>2. a = {pic} /\ o = {pic}
  BY <1>0, <1>1 DEF Uncrossed
<1>3. \A i \in 1 .. L + m : i \in 1 .. L \/ (i - L \in 1 .. m /\ v[i] = Chunk(pic, n + (i - L) - 1))
  <2> TAKE i \in 1 .. L + m
  <2>1. CASE i \notin 1 .. L
    <3>1. i - L \in 1 .. m /\ L + (i - L) = i
      BY <2>1
    <3> QED BY <3>1
  <2> QED BY <2>1
<1>4. \A i \in 1 .. L + m : v[i].pic = pic
  <2>1. \A i \in 1 .. L : u[i].pic = pic
    BY <1>1, <1>2 DEF Uncrossed, InOrder
  <2>2. \A k : Chunk(pic, k).pic = pic
    BY DEF Chunk
  <2> TAKE i \in 1 .. L + m
  <2>3. CASE i \in 1 .. L
    BY <2>1, <2>3
  <2>4. CASE i \notin 1 .. L
    <3>1. v[i] = Chunk(pic, n + (i - L) - 1)
      BY <1>3, <2>4
    <3> QED BY <2>2, <3>1
  <2> QED BY <2>3, <2>4
<1>5. InOrder(v, L + m, o, a)
  <2>1. \A j \in 1 .. L + m : \A i \in 1 .. j - 1 : i \in 1 .. L + m
    OBVIOUS
  <2> QED BY <1>2, <1>4, <2>1 DEF InOrder
<1>6. CASE r = {}
  <2>1. NoneOf(q, pic) /\ pic \in c /\ n = TOTAL
    BY <1>0, <1>1, <1>2, <1>6 DEF Uncrossed
  <2>2. m = 0 /\ L + m = L
    BY <2>1
  <2>3. \A i \in 1 .. L + m : ~IsChunk(v[i])
    BY <1>1, <1>6, <2>2 DEF Uncrossed
  <2>4. t = <<>> \/ t = <<[pic |-> pic, next |-> TOTAL]>>
    BY <2>1, <2>2
  <2> QED BY <1>2, <1>5, <1>6, <2>1, <2>3, <2>4 DEF Uncrossed
<1>7. CASE r # {}
  <2>1. PICK x : x \in r
    BY <1>7
  <2>2. r = {x} /\ a = {x.pic} /\ x.pic \notin c /\ x = [pic |-> x.pic, next |-> x.next] /\ x.next \in 0 .. TOTAL - 1
    BY <1>1, <2>1 DEF Uncrossed
  <2>3. PICK e \in x.next .. TOTAL : Flows(u, L, x.next, e) /\ (o = a => Source(b, q, x.pic, e))
    BY <1>1, <2>1 DEF Uncrossed
  <2>4. x.pic = pic /\ e = n /\ NoneOf(q, pic) /\ x.next \in Nat /\ x.next <= n
    BY <1>0, <1>2, <2>2, <2>3 DEF Source
  <2>5. Flows(v, L + m, x.next, n + m)
    <3>1. ASSUME NEW i \in 1 .. m PROVE IsChunk(v[L + i]) /\ v[L + i].index = n + i - 1
      <4>1. v[L + i] = Chunk(pic, n + i - 1)
        OBVIOUS
      <4>2. Chunk(pic, n + i - 1).kind = "chunk" /\ Chunk(pic, n + i - 1).index = n + i - 1
        BY DEF Chunk
      <4> QED BY <4>1, <4>2 DEF IsChunk
    <3>2. Flows(u, L, x.next, n) /\ n \in Nat
      BY <2>3, <2>4
    <3> QED BY <2>4, <3>1, <3>2, FlowsOn
  <2>6. Source(t, q, pic, n + m)
    BY <2>4 DEF Source
  <2>7. n + m \in x.next .. TOTAL
    BY <2>2, <2>4
  <2>8. \E d \in x.next .. TOTAL : Flows(v, L + m, x.next, d) /\ (o = a => Source(t, q, x.pic, d))
    BY <2>4, <2>5, <2>6, <2>7
  <2> QED BY <1>2, <1>5, <1>7, <2>2, <2>8 DEF Uncrossed
<1> QED BY <1>6, <1>7

(* A train of the client is of its own picture.                            *)
LEMMA OneTrain ==
  ASSUME NEW u, NEW L, NEW o, NEW t, NEW q, NEW a, NEW r, NEW c, Uncrossed(u, L, o, t, q, a, r, c)
  PROVE  /\ o = {} => t = <<>>
         /\ \A pic \in o : o = {pic} /\ (t = <<>> \/ \E n \in 0 .. TOTAL : t = <<[pic |-> pic, next |-> n]>>)
<1> USE AvatarAssumption
<1>1. o = {} => t = <<>>
  BY DEF Uncrossed
<1>2. ASSUME NEW pic \in o
      PROVE  o = {pic} /\ (t = <<>> \/ \E n \in 0 .. TOTAL : t = <<[pic |-> pic, next |-> n]>>)
  <2>1. o = {pic}
    BY DEF Uncrossed
  <2>2. CASE a # {pic}
    BY <2>1, <2>2 DEF Uncrossed
  <2>3. CASE a = {pic} /\ r = {}
    <3>1. t = <<>> \/ t = <<[pic |-> pic, next |-> TOTAL]>>
      BY <2>1, <2>3 DEF Uncrossed
    <3> QED BY <2>1, <3>1
  <2>4. CASE a = {pic} /\ r # {}
    <3>1. PICK x : x \in r
      BY <2>4
    <3>2. a = {x.pic} /\ x.next \in 0 .. TOTAL - 1
      BY <3>1 DEF Uncrossed
    <3>3. PICK e \in x.next .. TOTAL : o = a => Source(t, q, x.pic, e)
      BY <3>1 DEF Uncrossed
    <3>4. x.pic = pic /\ e \in 0 .. TOTAL
      BY <2>4, <3>2
    <3> QED BY <2>1, <2>4, <3>3, <3>4 DEF Source
  <2> QED BY <2>2, <2>3, <2>4
<1> QED BY <1>1, <1>2

(* The one request for the picture there are no bytes of.                  *)
LEMMA StartedInOrder ==
  ASSUME NEW u, NEW L \in Nat, NEW o, NEW t, NEW q \in Seq(Pictures), NEW c, NEW pic \in Pictures,
         InOrder(u, L, o, {pic}), \A i \in 1 .. L : ~IsChunk(u[i]), pic \notin c,
         t = <<>>, \A y \in o : o = {y} /\ NoneOf(q, y)
  PROVE  Uncrossed(u, L, o, t, Append(q, pic), {pic}, Train(pic), c)
<1> USE AvatarAssumption
<1> DEFINE s == Append(q, pic)
           x == [pic |-> pic, next |-> 0]
<1>1. Len(s) = Len(q) + 1 /\ s[Len(q) + 1] = pic /\ \A i \in 1 .. Len(q) : s[i] = q[i]
  OBVIOUS
<1>2. Len(q) \in Nat /\ 0 \in Nat /\ 0 \in 0 .. TOTAL /\ 0 \in 0 .. TOTAL - 1
  OBVIOUS
<1> HIDE DEF s
<1>3. \A i \in 1 .. Len(s) : i \in 1 .. Len(q) \/ i = Len(q) + 1
  BY <1>1, <1>2
<1>4. \A y \in o : y # pic => NoneOf(s, y)
  BY <1>1, <1>3 DEF NoneOf
<1>5. NoneOf(q, pic) => OneOf(s, pic)
  <2> HAVE NoneOf(q, pic)
  <2>1. Len(q) + 1 \in 1 .. Len(s)
    BY <1>1, <1>2
  <2>2. \A j \in 1 .. Len(s) : s[j] = pic => j = Len(q) + 1
    BY <1>1, <1>3 DEF NoneOf
  <2> QED BY <1>1, <2>1, <2>2 DEF OneOf
<1>6. Flows(u, L, 0, 0)
  BY <1>2, FlowsNone
<1>7. x.pic = pic /\ x.next = 0 /\ Train(pic) = {x}
  BY DEF Train
<1>8. o = {pic} => Source(t, s, pic, 0)
  BY <1>5 DEF Source
<1>9. ASSUME NEW y \in Train(pic)
      PROVE  /\ Train(pic) = {y} /\ {pic} = {y.pic} /\ y.pic \notin c
             /\ y = [pic |-> y.pic, next |-> y.next] /\ y.next \in 0 .. TOTAL - 1
             /\ \E e \in y.next .. TOTAL : Flows(u, L, y.next, e) /\ (o = {pic} => Source(t, s, y.pic, e))
  <2>1. y = x
    BY <1>7
  <2>2. 0 \in 0 .. TOTAL /\ Flows(u, L, 0, 0) /\ (o = {pic} => Source(t, s, pic, 0))
    BY <1>2, <1>6, <1>8
  <2>3. \E e \in y.next .. TOTAL : Flows(u, L, y.next, e) /\ (o = {pic} => Source(t, s, y.pic, e))
    BY <1>7, <2>1, <2>2
  <2> QED BY <1>2, <1>7, <2>1, <2>3
<1>10. \A y \in o : {pic} # {y} => NoneOf(s, y) /\ t = <<>>
  BY <1>4
<1>11. Train(pic) # {}
  BY <1>7
<1> QED BY <1>9, <1>10, <1>11 DEF Uncrossed, s

(* handle_control of AvatarRequest.                                        *)
LEMMA AnsweredInOrder ==
  ASSUME NEW u, NEW L, NEW o, NEW t, NEW s, NEW q \in Seq(Pictures), NEW a, NEW r, NEW c,
         Uncrossed(u, L, o, t, q, a, r, c), q # <<>>,
         s = IF Head(q) \in o /\ \A i \in DOMAIN t : t[i].pic # Head(q)
             THEN Append(t, [pic |-> Head(q), next |-> 0]) ELSE t
  PROVE  Uncrossed(u, L, o, s, Tail(q), a, r, c)
<1> USE AvatarAssumption
<1> DEFINE h == Head(q)
           w == Tail(q)
           K == Len(q)
<1>1. K \in Nat /\ K >= 1 /\ Len(w) = K - 1 /\ h = q[1] /\ \A i \in 1 .. K - 1 : w[i] = q[i + 1]
  OBVIOUS
<1>2. s = IF h \in o /\ \A i \in DOMAIN t : t[i].pic # h THEN Append(t, [pic |-> h, next |-> 0]) ELSE t
  OBVIOUS
<1> HIDE DEF h, w, K
<1>3. \A pic : NoneOf(q, pic) => NoneOf(w, pic)
  <2>1. \A i \in 1 .. K - 1 : i + 1 \in 1 .. K
    BY <1>1
  <2> QED BY <1>1, <2>1 DEF NoneOf, K
<1>4. 1 \in 1 .. K
  BY <1>1
<1>5. ASSUME NEW pic, OneOf(q, pic) PROVE IF h = pic THEN NoneOf(w, pic) ELSE OneOf(w, pic)
  <2>1. PICK i \in 1 .. K : q[i] = pic /\ \A j \in 1 .. K : q[j] = pic => j = i
    BY <1>5 DEF OneOf, K
  <2>2. \A j \in 1 .. K - 1 : j + 1 \in 1 .. K /\ w[j] = q[j + 1] /\ j + 1 # 1
    BY <1>1
  <2>3. CASE h = pic
    <3>1. i = 1
      BY <1>1, <1>4, <2>1, <2>3
    <3>2. \A j \in 1 .. K - 1 : w[j] # pic
      BY <2>1, <2>2, <3>1
    <3> QED BY <1>1, <2>3, <3>2 DEF NoneOf
  <2>4. CASE h # pic
    <3>1. i - 1 \in 1 .. K - 1 /\ (i - 1) + 1 = i
      BY <1>1, <2>1, <2>4
    <3>3. w[i - 1] = q[i]
      BY <1>1, <3>1
    <3>2. \A j \in 1 .. K - 1 : w[j] = pic => j = i - 1
      BY <2>1, <2>2
    <3> QED BY <1>1, <2>1, <2>4, <3>1, <3>2, <3>3 DEF OneOf
  <2> QED BY <2>3, <2>4
<1>6. \A pic : h = pic => ~NoneOf(q, pic)
  BY <1>1, <1>4 DEF NoneOf, K
<1>7. CASE h \notin o
  <2>1. s = t
    BY <1>2, <1>7
  <2>2. ASSUME NEW x \in r, NEW e, o = a => Source(t, q, x.pic, e)
        PROVE  o = a => Source(s, w, x.pic, e)
    <3> HAVE o = a
    <3>1. x.pic \in o
      BY DEF Uncrossed
    <3>2. h # x.pic
      BY <1>7, <3>1
    <3> QED BY <1>3, <1>5, <2>1, <2>2, <3>2 DEF Source
  <2>3. \A pic \in o : NoneOf(q, pic) => NoneOf(w, pic)
    BY <1>3
  <2>4. Uncrossed(u, L, o, s, w, a, r, c)
    <3>1. ASSUME NEW x \in r
          PROVE  \E e \in x.next .. TOTAL : Flows(u, L, x.next, e) /\ (o = a => Source(s, w, x.pic, e))
      <4>1. PICK e \in x.next .. TOTAL : Flows(u, L, x.next, e) /\ (o = a => Source(t, q, x.pic, e))
        BY DEF Uncrossed
      <4> QED BY <4>1, <2>2
    <3> QED BY <2>1, <2>3, <3>1 DEF Uncrossed
  <2> QED BY <2>4 DEF w
<1>8. CASE h \in o
  <2>1. ~NoneOf(q, h) /\ o = {h}
    BY <1>6, <1>8 DEF Uncrossed
  <2>2. a = {h} /\ r # {}
    <3>1. a = {h} /\ r = {} => NoneOf(q, h)
      BY <1>8 DEF Uncrossed
    <3>2. a # {h} => NoneOf(q, h)
      BY <1>8 DEF Uncrossed
    <3> QED BY <2>1, <3>1, <3>2
  <2>3. PICK x : x \in r
    BY <2>2
  <2>4. r = {x} /\ x.pic = h
    <3>1. r = {x} /\ a = {x.pic}
      BY <2>3 DEF Uncrossed
    <3> QED BY <2>2, <3>1
  <2>5. PICK e \in x.next .. TOTAL : Flows(u, L, x.next, e) /\ (o = a => Source(t, q, x.pic, e))
    BY <2>3 DEF Uncrossed
  <2>6. t = <<>> /\ e = 0 /\ OneOf(q, h)
    BY <2>1, <2>2, <2>4, <2>5 DEF Source
  <2>7. s = <<[pic |-> h, next |-> 0]>>
    BY <1>2, <1>8, <2>6
  <2>8. Source(s, w, h, e)
    BY <1>5, <2>6, <2>7 DEF Source
  <2>9. \A y \in r : y = x
    BY <2>4
  <2>10. \A pic \in o : pic = h
    BY <2>1
  <2>11. Uncrossed(u, L, o, s, w, a, r, c)
    <3>1. InOrder(u, L, o, a)
      BY DEF Uncrossed
    <3>2. /\ r = {x} /\ a = {x.pic} /\ x.pic \notin c
          /\ x = [pic |-> x.pic, next |-> x.next] /\ x.next \in 0 .. TOTAL - 1
      BY <2>3 DEF Uncrossed
    <3>3. \E d \in x.next .. TOTAL : Flows(u, L, x.next, d) /\ (o = a => Source(s, w, x.pic, d))
      BY <2>4, <2>5, <2>8
    <3> QED BY <2>1, <2>2, <2>9, <2>10, <3>1, <3>2, <3>3 DEF Uncrossed
  <2> QED BY <2>11 DEF w
<1> QED BY <1>7, <1>8

(* handle_control of AvatarChunk: the chunk is the one the receiver waits  *)
(* for.                                                                    *)
LEMMA ChunkInOrder ==
  ASSUME NEW u, NEW v, NEW L \in Nat \ {0}, NEW o, NEW t, NEW q, NEW a, NEW r, NEW c, NEW s, NEW d,
         Uncrossed(u, L, o, t, q, a, r, c), IsChunk(u[1]), u[1].index \in Nat,
         \A i \in 1 .. L - 1 : v[i] = u[i + 1]
  PROVE  /\ [pic |-> u[1].pic, next |-> u[1].index] \in r
         /\ (IF u[1].index + 1 < TOTAL THEN s = {[pic |-> u[1].pic, next |-> u[1].index + 1]} /\ d = c
             ELSE s = {} /\ u[1].pic \in d)
            => Uncrossed(v, L - 1, o, t, q, a, s, d)
<1> USE AvatarAssumption
<1>1. 1 \in 1 .. L
  OBVIOUS
<1>2. r # {} /\ u[1].pic \in a
  BY <1>1 DEF Uncrossed, InOrder
<1>3. PICK x : x \in r
  BY <1>2
<1>4. /\ r = {x} /\ a = {x.pic} /\ x.pic \notin c
      /\ x = [pic |-> x.pic, next |-> x.next] /\ x.next \in 0 .. TOTAL - 1
  BY <1>3 DEF Uncrossed
<1>5. PICK e \in x.next .. TOTAL : Flows(u, L, x.next, e) /\ (o = a => Source(t, q, x.pic, e))
  BY <1>3 DEF Uncrossed
<1>6. u[1].pic = x.pic /\ x.next \in Nat /\ e \in Nat
  BY <1>2, <1>4
<1>7. u[1].index = x.next /\ x.next < e /\ Flows(v, L - 1, x.next + 1, e)
  BY <1>5, <1>6, FlowsHeard
<1>8. [pic |-> u[1].pic, next |-> u[1].index] \in r
  BY <1>3, <1>4, <1>6, <1>7
<1>9. InOrder(v, L - 1, o, a)
  BY InOrderHeard DEF Uncrossed
<1>10. ASSUME u[1].index + 1 < TOTAL, s = {[pic |-> u[1].pic, next |-> u[1].index + 1]}, d = c
       PROVE  Uncrossed(v, L - 1, o, t, q, a, s, d)
  <2> DEFINE y == [pic |-> x.pic, next |-> x.next + 1]
  <2>1. s = {y} /\ y.pic = x.pic /\ y.next = x.next + 1 /\ y = [pic |-> y.pic, next |-> y.next]
    BY <1>6, <1>7, <1>10
  <2> HIDE DEF y
  <2>2. y.next \in 0 .. TOTAL - 1 /\ e \in y.next .. TOTAL
    BY <1>6, <1>7, <1>10, <2>1
  <2>3. \A z \in s : z = y
    BY <2>1
  <2>4. s # {} /\ Flows(v, L - 1, y.next, e) /\ (o = a => Source(t, q, y.pic, e))
    BY <1>5, <1>7, <2>1
  <2>5. \E f \in y.next .. TOTAL : Flows(v, L - 1, y.next, f) /\ (o = a => Source(t, q, y.pic, f))
    BY <2>2, <2>4
  <2>6. \A pic \in o : o = {pic} /\ (a # {pic} => NoneOf(q, pic) /\ t = <<>>)
    BY DEF Uncrossed
  <2>7. o = {} => t = <<>>
    BY DEF Uncrossed
  <2> QED BY <1>4, <1>9, <1>10, <2>1, <2>2, <2>3, <2>4, <2>5, <2>6, <2>7 DEF Uncrossed
<1>11. ASSUME u[1].index + 1 >= TOTAL, s = {}, u[1].pic \in d
       PROVE  Uncrossed(v, L - 1, o, t, q, a, s, d)
  <2>1. e = TOTAL /\ x.next + 1 = TOTAL
    BY <1>4, <1>5, <1>6, <1>7, <1>11
  <2>2. \A i \in 1 .. L - 1 : ~IsChunk(v[i])
    <3>1. \A i \in 1 .. L - 1 : IsChunk(v[i]) => v[i].index \in TOTAL .. TOTAL - 1
      BY <1>7, <2>1 DEF Flows
    <3> QED BY <3>1
  <2>3. ASSUME NEW pic \in o
        PROVE  /\ o = {pic}
               /\ a = {pic} => NoneOf(q, pic) /\ (t = <<>> \/ (pic \in d /\ t = <<[pic |-> pic, next |-> TOTAL]>>))
               /\ a # {pic} => NoneOf(q, pic) /\ t = <<>>
    <3>1. o = {pic} /\ (a # {pic} => NoneOf(q, pic) /\ t = <<>>)
      BY DEF Uncrossed
    <3>2. ASSUME a = {pic}
          PROVE  NoneOf(q, pic) /\ (t = <<>> \/ (pic \in d /\ t = <<[pic |-> pic, next |-> TOTAL]>>))
      <4>1. x.pic = pic /\ Source(t, q, pic, TOTAL)
        BY <1>4, <1>5, <2>1, <3>1, <3>2
      <4> QED BY <1>6, <1>11, <4>1 DEF Source
    <3> QED BY <3>1, <3>2
  <2>4. o = {} => t = <<>>
    BY DEF Uncrossed
  <2> QED BY <1>9, <1>11, <2>2, <2>3, <2>4 DEF Uncrossed
<1>12. u[1].index + 1 < TOTAL \/ u[1].index + 1 >= TOTAL
  OBVIOUS
<1> QED BY <1>8, <1>10, <1>11, <1>12

(* handle_control of SetAvatar.                                            *)
LEMMA SetInOrder ==
  ASSUME NEW u, NEW v, NEW L \in Nat \ {0}, NEW o, NEW t, NEW q \in Seq(Pictures), NEW a, NEW r, NEW c,
         NEW s, NEW w, NEW pic \in Pictures,
         Uncrossed(u, L, o, t, q, a, r, c), ~IsChunk(u[1]), u[1].pic = pic,
         a = {} \/ \E y \in Pictures : a = {y},
         \A i \in 1 .. L - 1 : v[i] = u[i + 1],
         IF pic \in c THEN s = {} /\ w = q
         ELSE IF a = {pic} /\ \E x \in r : x.pic = pic THEN s = r /\ w = q
         ELSE s = Train(pic) /\ w = Append(q, pic)
  PROVE  Uncrossed(v, L - 1, o, t, w, {pic}, s, c)
<1> USE AvatarAssumption
<1>1. 1 \in 1 .. L /\ \A j \in 1 .. L - 1 : j + 1 \in 1 .. L /\ 1 \in 1 .. (j + 1) - 1
  OBVIOUS
<1>2. \A j \in 1 .. L - 1 : IsChunk(v[j]) => v[j].pic = pic /\ a = {pic}
  <2> TAKE j \in 1 .. L - 1
  <2>1. v[j] = u[j + 1] /\ j + 1 \in 1 .. L /\ 1 \in 1 .. (j + 1) - 1
    BY <1>1
  <2>2. IsChunk(u[j + 1]) => u[j + 1].pic \in a /\ u[1].pic = u[j + 1].pic
    BY <2>1 DEF Uncrossed, InOrder
  <2> QED BY <2>1, <2>2
<1>3. InOrder(v, L - 1, o, {pic})
  <2>1. ASSUME NEW j \in 1 .. L - 1, IsChunk(v[j])
        PROVE  v[j].pic \in {pic} /\ \A i \in 1 .. j - 1 : v[i].pic = v[j].pic
    <3>1. InOrder(v, L - 1, o, a)
      BY InOrderHeard DEF Uncrossed
    <3> QED BY <1>2, <2>1, <3>1 DEF InOrder
  <2>2. ASSUME NEW y \in o, NEW j \in 1 .. L - 1, {pic} = {y} \/ (\E i \in 1 .. j - 1 : v[i].pic = y)
        PROVE  v[j].pic = y
    <3>1. v[j] = u[j + 1] /\ j + 1 \in 1 .. L
      BY <1>1
    <3>2. \E i \in 1 .. (j + 1) - 1 : u[i].pic = y
      <4>1. CASE {pic} = {y}
        BY <1>1, <4>1
      <4>2. CASE \E i \in 1 .. j - 1 : v[i].pic = y
        <5>1. PICK i \in 1 .. j - 1 : v[i].pic = y
          BY <4>2
        <5>2. i + 1 \in 1 .. (j + 1) - 1
          OBVIOUS
        <5>3. v[i] = u[i + 1]
          OBVIOUS
        <5> QED BY <5>1, <5>2, <5>3
      <4> QED BY <2>2, <4>1, <4>2
    <3>3. u[j + 1].pic = y
      <4>1. InOrder(u, L, o, a)
        BY DEF Uncrossed
      <4> QED BY <2>2, <3>1, <3>2, <4>1 DEF InOrder
    <3> QED BY <3>1, <3>3
  <2>3. \A j \in 1 .. L - 1 : IsChunk(v[j]) =>
            v[j].pic \in {pic} /\ \A i \in 1 .. j - 1 : v[i].pic = v[j].pic
    BY <2>1
  <2>4. \A y \in o : \A j \in 1 .. L - 1 :
            {pic} = {y} \/ (\E i \in 1 .. j - 1 : v[i].pic = y) => v[j].pic = y
    BY <2>2
  <2> QED BY <2>3, <2>4 DEF InOrder
<1>4. \A y \in o : y # pic => a # {y}
  BY <1>1 DEF Uncrossed, InOrder
<1>5. \A y \in o : y # pic => NoneOf(q, y) /\ t = <<>>
  BY <1>4 DEF Uncrossed
<1>6. o = {} => t = <<>>
  BY DEF Uncrossed
<1>7. CASE pic \in c
  <2>1. r = {} \/ a # {pic}
    BY <1>7 DEF Uncrossed
  <2>2. \A j \in 1 .. L - 1 : ~IsChunk(v[j])
    BY <1>1, <1>2, <2>1 DEF Uncrossed
  <2>3. \A y \in o : o = {y} /\ (y = pic => NoneOf(q, y) /\ (t = <<>> \/ t = <<[pic |-> y, next |-> TOTAL]>>))
    BY <2>1 DEF Uncrossed
  <2> QED BY <1>3, <1>5, <1>6, <1>7, <2>2, <2>3 DEF Uncrossed
<1>8. CASE pic \notin c /\ a = {pic} /\ \E x \in r : x.pic = pic
  <2>1. s = r /\ w = q /\ r # {}
    BY <1>8
  <2>2. ASSUME NEW x \in r
        PROVE  /\ r = {x} /\ a = {x.pic} /\ x.pic \notin c
               /\ x = [pic |-> x.pic, next |-> x.next] /\ x.next \in 0 .. TOTAL - 1
               /\ \E e \in x.next .. TOTAL : Flows(v, L - 1, x.next, e) /\ (o = a => Source(t, q, x.pic, e))
    <3>1. /\ r = {x} /\ a = {x.pic} /\ x.pic \notin c
          /\ x = [pic |-> x.pic, next |-> x.next] /\ x.next \in 0 .. TOTAL - 1
      BY DEF Uncrossed
    <3>2. PICK e \in x.next .. TOTAL : Flows(u, L, x.next, e) /\ (o = a => Source(t, q, x.pic, e))
      BY DEF Uncrossed
    <3>3. x.next \in Nat /\ e \in Nat
      BY <3>1
    <3>4. Flows(v, L - 1, x.next, e)
      BY <3>2, <3>3, FlowsHeard
    <3> QED BY <3>1, <3>2, <3>4
  <2>3. \A y \in o : o = {y}
    BY DEF Uncrossed
  <2> QED BY <1>3, <1>5, <1>6, <1>8, <2>1, <2>2, <2>3 DEF Uncrossed
<1>9. CASE pic \notin c /\ ~(a = {pic} /\ \E x \in r : x.pic = pic)
  <2>1. s = Train(pic) /\ w = Append(q, pic)
    BY <1>9
  <2>2. a # {pic} \/ r = {}
    <3>1. \A x \in r : a = {x.pic}
      BY DEF Uncrossed
    <3>2. a = {pic} => \A x \in r : x.pic = pic
      BY <3>1
    <3> QED BY <1>9, <3>2
  <2>3. \A j \in 1 .. L - 1 : ~IsChunk(v[j])
    BY <1>1, <1>2, <2>2 DEF Uncrossed
  <2>4. \A y \in o : o = {y} /\ NoneOf(q, y) /\ t = <<>>
    BY <1>5, <1>9, <2>2 DEF Uncrossed
  <2>5. t = <<>>
    BY <1>6, <2>4
  <2>6. L - 1 \in Nat
    OBVIOUS
  <2>7. Uncrossed(v, L - 1, o, t, Append(q, pic), {pic}, Train(pic), c)
    BY <1>3, <1>9, <2>3, <2>4, <2>5, <2>6, StartedInOrder
  <2> QED BY <2>1, <2>7
<1> QED BY <1>7, <1>8, <1>9

(* AvatarRequest of a bandmate.                                            *)
LEMMA NudgedInOrder ==
  ASSUME NEW u, NEW L \in Nat, NEW o, NEW t, NEW q \in Seq(Pictures), NEW c, NEW pic \in Pictures,
         Uncrossed(u, L, o, t, q, {pic}, {}, c), pic \notin c
  PROVE  Uncrossed(u, L, o, t, Append(q, pic), {pic}, Train(pic), c)
<1>1. InOrder(u, L, o, {pic}) /\ \A i \in 1 .. L : ~IsChunk(u[i])
  BY DEF Uncrossed
<1>2. \A y \in o : o = {y} /\ NoneOf(q, y) /\ t = <<>>
  BY DEF Uncrossed
<1>3. t = <<>>
  BY <1>2 DEF Uncrossed
<1> QED BY <1>1, <1>2, <1>3, StartedInOrder

(* A connection begins with the picture the member has.                    *)
LEMMA FreshInOrder ==
  ASSUME NEW u, NEW L \in Nat, NEW o, NEW a, NEW c, \A pic \in o : o = {pic},
         \A i \in 1 .. L : ~IsChunk(u[i]) /\ u[i].pic \in o
  PROVE  Uncrossed(u, L, o, <<>>, <<>>, a, {}, c)
<1>1. InOrder(u, L, o, a)
  BY DEF InOrder
<1>2. \A pic : NoneOf(<<>>, pic)
  BY DEF NoneOf
<1> QED BY <1>1, <1>2 DEF Uncrossed

(* retain on a queue of none or one.                                       *)
LEMMA SiftedOfFew ==
  ASSUME NEW S
  PROVE  /\ Sifted(<<>>, S) = <<>>
         /\ \A x : Sifted(<<x>>, S) = IF x \in S THEN <<x>> ELSE <<>>
<1>1. Sifted(<<>>, S) = <<>>
  <2>1. PICK t \in [0 .. 0 -> Seq({})] : SiftedSoFar(<<>>, S, 0, t)
    <3>1. <<>> \in Seq({}) /\ Len(<<>>) = 0
      OBVIOUS
    <3> QED BY <3>1, SiftingExists
  <2>2. Sifted(<<>>, S) = t[0]
    <3>1. <<>> \in Seq({}) /\ Len(<<>>) = 0
      OBVIOUS
    <3> QED BY <2>1, <3>1, SiftedIsLast
  <2> QED BY <2>1, <2>2 DEF SiftedSoFar
<1>2. ASSUME NEW x PROVE Sifted(<<x>>, S) = IF x \in S THEN <<x>> ELSE <<>>
  <2> DEFINE q == <<x>>
  <2>1. q \in Seq({x}) /\ Len(q) = 1 /\ q[1] = x /\ 1 \in 1 .. 1 /\ 1 - 1 = 0
    OBVIOUS
  <2> HIDE DEF q
  <2>2. PICK t \in [0 .. Len(q) -> Seq({x})] : SiftedSoFar(q, S, Len(q), t)
    BY <2>1, SiftingExists
  <2>3. Sifted(q, S) = t[Len(q)]
    BY <2>1, <2>2, SiftedIsLast
  <2>4. t[Len(q)] = IF x \in S THEN Append(<<>>, x) ELSE <<>>
    <3>1. t[0] = <<>> /\ \A i \in 1 .. Len(q) : t[i] = IF q[i] \in S THEN Append(t[i - 1], q[i]) ELSE t[i - 1]
      BY <2>2 DEF SiftedSoFar
    <3> QED BY <2>1, <3>1
  <2>5. Append(<<>>, x) = <<x>>
    OBVIOUS
  <2>6. Sifted(q, S) = IF x \in S THEN <<x>> ELSE <<>>
    BY <2>3, <2>4, <2>5
  <2> QED BY <2>6 DEF q
<1> QED BY <1>1, <1>2

-----------------------------------------------------------------------------
(* The client's and the server's steps                                     *)

Upload == UploadTypes /\ AllShown /\ charged = 0
          /\ Uncrossed(Unread, Left, own, trains, requests, announced, rx, cache)

(* ControlLink::send of messages none of which is refused.                 *)
LEMMA Queued ==
  ASSUME UploadTypes, NEW msgs \in Seq(Messages), Queue(msgs), ~refused', taken' = taken
  PROVE  /\ pending' \in Seq(Messages) /\ Left' \in Nat /\ Left' = Left + Len(msgs)
         /\ \A i \in 1 .. Left : Unread'[i] = Unread[i]
         /\ \A i \in 1 .. Len(msgs) : Unread'[Left + i] = msgs[i]
<1> USE AvatarAssumption
<1> DEFINE room == MAX_PENDING - Len(pending)
           handed == SubSeq(msgs, 1, IF Len(msgs) < room THEN Len(msgs) ELSE room)
           K == Len(msgs)
           P == Len(pending)
<1>1. pending \in Seq(Messages) /\ taken \in Nat /\ Left \in Nat /\ Left = P - taken /\ P \in Nat /\ K \in Nat
  BY DEF UploadTypes, Left
<1>2. ~(K > room)
  BY DEF Queue
<1>3. (IF K < room THEN K ELSE room) = K
  BY <1>1, <1>2
<1>4. handed = SubSeq(msgs, 1, K)
  BY <1>3
<1>5. SubSeq(msgs, 1, K) = msgs
  OBVIOUS
<1>6. pending' = pending \o msgs
  BY <1>4, <1>5 DEF Queue
<1> HIDE DEF K, P
<1>7. /\ pending' \in Seq(Messages) /\ Len(pending') = P + K
      /\ \A i \in 1 .. P : pending'[i] = pending[i]
      /\ \A i \in 1 .. K : pending'[P + i] = msgs[i]
  BY <1>1, <1>6 DEF K, P
<1>8. Left' = Left + K /\ Left' \in Nat
  BY <1>1, <1>7 DEF Left
<1>9. \A i \in 1 .. Left' : Unread'[i] = pending'[taken + i]
  BY DEF Unread
<1>10. \A i \in 1 .. Left : Unread[i] = pending[taken + i]
  BY DEF Unread
<1>11. ASSUME NEW i \in 1 .. Left PROVE Unread'[i] = Unread[i]
  <2>1. i \in 1 .. Left' /\ taken + i \in 1 .. P
    BY <1>1, <1>8
  <2> QED BY <1>7, <1>9, <1>10, <2>1
<1>12. ASSUME NEW i \in 1 .. K PROVE Unread'[Left + i] = msgs[i]
  <2>1. Left + i \in 1 .. Left' /\ taken + (Left + i) = P + i
    BY <1>1, <1>8
  <2> QED BY <1>7, <1>9, <2>1
<1> QED BY <1>7, <1>8, <1>11, <1>12 DEF K

(* Everything waiting is a message.                                        *)
LEMMA UnreadTyped ==
  ASSUME UploadTypes
  PROVE  \A i \in 1 .. Left : Unread[i] \in Messages
<1>1. pending \in Seq(Messages) /\ taken \in Nat /\ Left \in Nat /\ Left = Len(pending) - taken
  BY DEF UploadTypes, Left
<1>2. \A i \in 1 .. Left : taken + i \in 1 .. Len(pending) /\ Unread[i] = pending[taken + i]
  BY <1>1 DEF Unread
<1> QED BY <1>1, <1>2

LEMMA SetsUpload ==
  ASSUME Upload, NEW p \in Pictures, set_avatar(p), ~refused', ~putBack'
  PROVE  Upload'
<1> USE AvatarAssumption
<1> DEFINE S == [pic : {p}, next : Nat]
<1>1. UploadTypes /\ AllShown /\ charged = 0 /\ Uncrossed(Unread, Left, own, trains, requests, announced, rx, cache)
  BY DEF Upload
<1>2. /\ own' = {p} /\ trains' = Sifted(trains, S) /\ shown' = shown \cup {p} /\ p \notin shown \ own
      /\ Queue(<<Announce(p)>>) /\ taken' = taken /\ requests' = requests
      /\ announced' = announced /\ rx' = rx /\ cache' = cache /\ charged' = charged
  BY DEF set_avatar, serverVars
<1>3. <<Announce(p)>> \in Seq(Messages) /\ Len(<<Announce(p)>>) = 1 /\ <<Announce(p)>>[1] = Announce(p)
  BY DEF Messages, Announce
<1>4. /\ pending' \in Seq(Messages) /\ Left' \in Nat /\ Left' = Left + 1
      /\ \A i \in 1 .. Left : Unread'[i] = Unread[i]
      /\ Unread'[Left + 1] = Announce(p)
  <2>1. /\ pending' \in Seq(Messages) /\ Left' \in Nat /\ Left' = Left + Len(<<Announce(p)>>)
        /\ \A i \in 1 .. Left : Unread'[i] = Unread[i]
        /\ \A i \in 1 .. Len(<<Announce(p)>>) : Unread'[Left + i] = <<Announce(p)>>[i]
    BY <1>1, <1>2, <1>3, Queued
  <2> QED BY <1>3, <2>1
<1>5. ~IsChunk(Announce(p)) /\ Announce(p).pic = p
  BY DEF IsChunk, Announce
<1>6. Left \in Nat
  BY <1>1 DEF UploadTypes
<1>7. UploadTypes'
  BY <1>1, <1>2, <1>4 DEF UploadTypes
<1>8. AllShown'
  <2>1. own' \cup announced' \subseteq shown'
    BY <1>1, <1>2 DEF AllShown
  <2>2. \A i \in 1 .. Len(requests') : requests'[i] \in shown'
    BY <1>1, <1>2 DEF AllShown
  <2>3. \A i \in 1 .. Left' : i \in 1 .. Left \/ i = Left + 1
    BY <1>4, <1>6
  <2>4. \A i \in 1 .. Left' : Unread'[i].pic \in shown'
    BY <1>1, <1>2, <1>4, <1>5, <2>3 DEF AllShown
  <2> QED BY <2>1, <2>2, <2>4 DEF AllShown
<1>9. /\ own = {} => trains = <<>>
      /\ \A y \in own : own = {y} /\ (trains = <<>> \/ \E n \in 0 .. TOTAL : trains = <<[pic |-> y, next |-> n]>>)
  BY <1>1, OneTrain
<1>10. Sifted(<<>>, S) = <<>>
  BY SiftedOfFew
<1>11. \/ own = {p} /\ trains' = trains
       \/ /\ p \notin announced /\ NoneOf(requests, p) /\ trains' = <<>>
          /\ \A i \in 1 .. Left : Unread[i].pic # p
  <2>1. CASE p \in own
    <3>1. own = {p} /\ (trains = <<>> \/ \E n \in 0 .. TOTAL : trains = <<[pic |-> p, next |-> n]>>)
      BY <1>9, <2>1
    <3>2. ASSUME NEW n \in 0 .. TOTAL, trains = <<[pic |-> p, next |-> n]>> PROVE trains' = trains
      <4>1. [pic |-> p, next |-> n] \in S
        OBVIOUS
      <4> QED BY <1>2, <3>2, <4>1, SiftedOfFew
    <3> QED BY <1>2, <1>10, <3>1, <3>2
  <2>2. CASE p \notin own
    <3>1. p \notin shown
      BY <1>2, <2>2
    <3>2. p \notin announced /\ NoneOf(requests, p) /\ \A i \in 1 .. Left : Unread[i].pic # p
      BY <1>1, <3>1 DEF AllShown, NoneOf
    <3>3. trains' = <<>>
      <4>1. CASE trains = <<>>
        BY <1>2, <1>10, <4>1
      <4>2. CASE trains # <<>>
        <5>1. PICK y \in own : \E n \in 0 .. TOTAL : trains = <<[pic |-> y, next |-> n]>>
          BY <1>9, <4>2
        <5>2. PICK n \in 0 .. TOTAL : trains = <<[pic |-> y, next |-> n]>>
          BY <5>1
        <5>3. [pic |-> y, next |-> n] \notin S
          BY <2>2
        <5> QED BY <1>2, <5>2, <5>3, SiftedOfFew
      <4> QED BY <4>1, <4>2
    <3> QED BY <3>2, <3>3
  <2> QED BY <2>1, <2>2
<1>12. Uncrossed(Unread', Left + 1, {p}, trains', requests, announced, rx, cache)
  BY <1>1, <1>4, <1>5, <1>6, <1>11, AnnouncedStays
<1> QED BY <1>1, <1>2, <1>4, <1>7, <1>8, <1>12 DEF Upload

LEMMA PollsUpload ==
  ASSUME Upload, poll, ~refused'
  PROVE  Upload'
<1> USE AvatarAssumption
<1> DEFINE t == Head(trains)
           last == IF t.next + CHUNKS_PER_POLL < TOTAL THEN t.next + CHUNKS_PER_POLL ELSE TOTAL
           msgs == [i \in 1 .. (last - t.next) |-> Chunk(t.pic, t.next + i - 1)]
<1>1. UploadTypes /\ AllShown /\ charged = 0 /\ Uncrossed(Unread, Left, own, trains, requests, announced, rx, cache)
  BY DEF Upload
<1>2. /\ own' = own /\ shown' = shown /\ trains # <<>>
      /\ Queue(msgs) /\ taken' = taken /\ requests' = requests
      /\ announced' = announced /\ rx' = rx /\ cache' = cache /\ charged' = charged
      /\ trains' = IF last < t.next + CHUNKS_PER_POLL THEN Tail(trains)
                   ELSE <<[pic |-> t.pic, next |-> last]>> \o Tail(trains)
  BY DEF poll, FeedTrain, serverVars, history
<1>3. PICK pic \in own : \E n \in 0 .. TOTAL : trains = <<[pic |-> pic, next |-> n]>>
  BY <1>1, <1>2, OneTrain
<1>4. PICK n \in 0 .. TOTAL : trains = <<[pic |-> pic, next |-> n]>>
  BY <1>3
<1>5. t = [pic |-> pic, next |-> n] /\ t.pic = pic /\ t.next = n /\ Tail(trains) = <<>>
  BY <1>4
<1> DEFINE m == last - n
<1>6. m \in Nat /\ n + m = last /\ last \in 0 .. TOTAL /\ (last < n + CHUNKS_PER_POLL => last = TOTAL)
  BY <1>5
<1>7. pic \in Pictures /\ pic \in shown
  BY <1>1, <1>3 DEF UploadTypes, AllShown
<1>8. \A i \in 1 .. m : n + i - 1 \in 0 .. TOTAL - 1
  BY <1>6
<1>9. msgs = [i \in 1 .. m |-> Chunk(pic, n + i - 1)]
  BY <1>5
<1>10. (trains' = <<>> /\ n + m = TOTAL) \/ trains' = <<[pic |-> pic, next |-> n + m]>>
  <2>1. \A x : <<x>> \o <<>> = <<x>>
    OBVIOUS
  <2> QED BY <1>2, <1>5, <1>6, <2>1
<1> HIDE DEF t, last, msgs, m
<1>11. msgs \in Seq(Messages) /\ Len(msgs) = m /\ \A i \in 1 .. m : msgs[i] = Chunk(pic, n + i - 1)
  <2>1. \A i \in 1 .. m : Chunk(pic, n + i - 1) \in Messages
    BY <1>7, <1>8 DEF Chunk, Messages
  <2>2. msgs \in [1 .. m -> Messages] /\ \A i \in 1 .. m : msgs[i] = Chunk(pic, n + i - 1)
    BY <1>9, <2>1
  <2>3. msgs \in Seq(Messages)
    BY <1>6, <2>2, SeqDef
  <2>4. Len(msgs) = m
    BY <1>6, <2>2, <2>3
  <2> QED BY <2>2, <2>3, <2>4
<1>12. /\ pending' \in Seq(Messages) /\ Left' \in Nat /\ Left' = Left + m
       /\ \A i \in 1 .. Left : Unread'[i] = Unread[i]
       /\ \A i \in 1 .. m : Unread'[Left + i] = Chunk(pic, n + i - 1)
  <2>1. /\ pending' \in Seq(Messages) /\ Left' \in Nat /\ Left' = Left + Len(msgs)
        /\ \A i \in 1 .. Left : Unread'[i] = Unread[i]
        /\ \A i \in 1 .. Len(msgs) : Unread'[Left + i] = msgs[i]
    BY <1>1, <1>2, <1>11, Queued
  <2> QED BY <1>11, <2>1
<1>13. Left \in Nat
  BY <1>1 DEF UploadTypes
<1>14. UploadTypes'
  BY <1>1, <1>2, <1>12 DEF UploadTypes
<1>15. AllShown'
  <2>1. own' \cup announced' \subseteq shown'
    BY <1>1, <1>2 DEF AllShown
  <2>2. \A i \in 1 .. Len(requests') : requests'[i] \in shown'
    BY <1>1, <1>2 DEF AllShown
  <2>3. ASSUME NEW i \in 1 .. Left' PROVE Unread'[i].pic \in shown'
    <3>1. CASE i \in 1 .. Left
      BY <1>1, <1>2, <1>12, <3>1 DEF AllShown
    <3>2. CASE i \notin 1 .. Left
      <4>1. i - Left \in 1 .. m /\ Left + (i - Left) = i
        BY <1>6, <1>12, <1>13, <3>2
      <4>2. Unread'[i] = Chunk(pic, n + (i - Left) - 1)
        BY <1>12, <4>1
      <4>3. \A k : Chunk(pic, k).pic = pic
        BY DEF Chunk
      <4> QED BY <1>2, <1>7, <4>2, <4>3
    <3> QED BY <3>1, <3>2
  <2> QED BY <2>1, <2>2, <2>3 DEF AllShown
<1>16. Uncrossed(Unread', Left + m, own, trains', requests, announced, rx, cache)
  <2>1. Uncrossed(Unread, Left, own, <<[pic |-> pic, next |-> n]>>, requests, announced, rx, cache)
    BY <1>1, <1>4
  <2>2. n + m \in 0 .. TOTAL
    BY <1>6
  <2> QED BY <1>6, <1>10, <1>12, <1>13, <2>1, <2>2, FedInOrder
<1> QED BY <1>1, <1>2, <1>12, <1>14, <1>15, <1>16 DEF Upload

LEMMA AnswersUpload ==
  ASSUME Upload, ClientAsked
  PROVE  Upload'
<1>1. UploadTypes /\ AllShown /\ charged = 0 /\ Uncrossed(Unread, Left, own, trains, requests, announced, rx, cache)
  BY DEF Upload
<1>2. /\ own' = own /\ shown' = shown /\ requests # <<>> /\ requests' = Tail(requests)
      /\ pending' = pending /\ taken' = taken
      /\ announced' = announced /\ rx' = rx /\ cache' = cache /\ charged' = charged
      /\ trains' = IF Head(requests) \in own /\ \A i \in DOMAIN trains : trains[i].pic # Head(requests)
                   THEN Append(trains, [pic |-> Head(requests), next |-> 0]) ELSE trains
  BY DEF ClientAsked, serverVars, history
<1>3. Left' = Left /\ Unread' = Unread
  BY <1>2 DEF Left, Unread
<1>4. requests \in Seq(Pictures)
  BY <1>1 DEF UploadTypes
<1>5. requests' \in Seq(Pictures) /\ \A i \in 1 .. Len(requests') : i + 1 \in 1 .. Len(requests) /\ requests'[i] = requests[i + 1]
  BY <1>2, <1>4
<1>6. UploadTypes'
  BY <1>1, <1>2, <1>3, <1>5 DEF UploadTypes
<1>7. AllShown'
  BY <1>1, <1>2, <1>3, <1>5 DEF AllShown
<1>8. Uncrossed(Unread, Left, own, trains', Tail(requests), announced, rx, cache)
  BY <1>1, <1>2, <1>4, AnsweredInOrder
<1> QED BY <1>1, <1>2, <1>3, <1>6, <1>7, <1>8 DEF Upload

LEMMA RetiresUpload ==
  ASSUME Upload, Retire
  PROVE  Upload'
<1>1. UploadTypes /\ AllShown /\ charged = 0 /\ Uncrossed(Unread, Left, own, trains, requests, announced, rx, cache)
  BY DEF Upload
<1>2. /\ own' = own /\ shown' = shown /\ requests' = requests /\ trains' = trains
      /\ taken > 0 /\ pending' = Tail(pending) /\ taken' = taken - 1
      /\ announced' = announced /\ rx' = rx /\ cache' = cache /\ charged' = charged
  BY DEF Retire, clientVars, serverVars, history
<1>3. pending \in Seq(Messages) /\ taken \in Nat /\ Left \in Nat /\ Left = Len(pending) - taken
  BY <1>1 DEF UploadTypes, Left
<1>4. pending # <<>>
  BY <1>2, <1>3
<1>5. /\ pending' \in Seq(Messages) /\ Len(pending') = Len(pending) - 1 /\ taken' \in Nat
      /\ \A i \in 1 .. Len(pending') : pending'[i] = pending[i + 1]
  BY <1>2, <1>3, <1>4
<1>6. Left' = Left
  BY <1>2, <1>3, <1>5 DEF Left
<1>7. \A i \in 1 .. Left : pending'[taken' + i] = pending[taken + i]
  <2>1. \A i \in 1 .. Left : taken' + i \in 1 .. Len(pending') /\ (taken' + i) + 1 = taken + i
    BY <1>2, <1>3, <1>5
  <2> QED BY <1>5, <2>1
<1>8. Unread' = Unread
  BY <1>6, <1>7 DEF Unread
<1>9. UploadTypes'
  BY <1>1, <1>2, <1>3, <1>5, <1>6 DEF UploadTypes
<1>10. AllShown'
  BY <1>1, <1>2, <1>6, <1>8 DEF AllShown
<1> QED BY <1>1, <1>2, <1>6, <1>8, <1>9, <1>10 DEF Upload

(* A message the server hears is the first it has not heard.               *)
LEMMA HearsFirst ==
  ASSUME UploadTypes, AllShown, ServerHears
  PROVE  /\ Left \in Nat \ {0} /\ Left' = Left - 1 /\ Left' \in Nat /\ pending' = pending /\ taken' \in Nat
         /\ \A i \in 1 .. Left - 1 : Unread'[i] = Unread[i + 1]
         /\ Unread[1] = pending[taken + 1] /\ Unread[1] \in Messages /\ Unread[1].pic \in shown
         /\ \A i \in 1 .. Left' : Unread'[i].pic \in shown
<1>1. pending \in Seq(Messages) /\ taken \in Nat /\ Left \in Nat /\ Left = Len(pending) - taken
  BY DEF UploadTypes, Left
<1>2. pending' = pending /\ taken' = taken + 1 /\ taken < Len(pending)
  BY DEF ServerHears
<1>3. Left \in Nat \ {0} /\ Left' = Left - 1 /\ Left' \in Nat /\ taken' \in Nat
  BY <1>1, <1>2 DEF Left
<1>4. \A i \in 1 .. Left : Unread[i] = pending[taken + i]
  BY DEF Unread
<1>5. \A i \in 1 .. Left' : Unread'[i] = pending[taken' + i]
  BY <1>2 DEF Unread
<1>6. ASSUME NEW i \in 1 .. Left - 1 PROVE Unread'[i] = Unread[i + 1]
  <2>1. i \in 1 .. Left' /\ i + 1 \in 1 .. Left /\ taken' + i = taken + (i + 1)
    BY <1>1, <1>2, <1>3
  <2> QED BY <1>4, <1>5, <2>1
<1>7. 1 \in 1 .. Left /\ \A i \in 1 .. Left' : i \in 1 .. Left - 1 /\ i + 1 \in 1 .. Left
  BY <1>3
<1>8. \A i \in 1 .. Left : Unread[i] \in Messages /\ Unread[i].pic \in shown
  BY UnreadTyped DEF AllShown
<1>9. \A i \in 1 .. Left' : Unread'[i].pic \in shown
  BY <1>6, <1>7, <1>8
<1> QED BY <1>2, <1>3, <1>4, <1>6, <1>7, <1>8, <1>9

LEMMA HearsUpload ==
  ASSUME Upload, ServerHears
  PROVE  Upload' /\ connected' = connected
<1> USE AvatarAssumption
<1> DEFINE msg == Unread[1]
<1>1. UploadTypes /\ AllShown /\ charged = 0 /\ Uncrossed(Unread, Left, own, trains, requests, announced, rx, cache)
  BY DEF Upload
<1>2. /\ Left \in Nat \ {0} /\ Left' = Left - 1 /\ Left' \in Nat /\ pending' = pending /\ taken' \in Nat
      /\ \A i \in 1 .. Left - 1 : Unread'[i] = Unread[i + 1]
      /\ msg = pending[taken + 1] /\ msg \in Messages /\ msg.pic \in shown
      /\ \A i \in 1 .. Left' : Unread'[i].pic \in shown
  BY <1>1, HearsFirst
<1>3. own' = own /\ trains' = trains /\ shown' = shown
  BY DEF ServerHears, clientVars, history
<1>4. /\ requests \in Seq(Pictures) /\ own \subseteq Pictures /\ cache \subseteq Pictures /\ pending \in Seq(Messages)
      /\ announced = {} \/ \E pic \in Pictures : announced = {pic}
  BY <1>1 DEF UploadTypes
<1>5. \/ msg.kind = "set" /\ ServerSetAvatar(msg.pic)
      \/ msg.kind = "chunk" /\ ServerChunk(msg.pic, msg.index)
  BY <1>2 DEF ServerHears
<1> HIDE DEF msg
<1>6. CASE msg.kind = "set" /\ ServerSetAvatar(msg.pic)
  <2>1. ~IsChunk(msg) /\ msg.pic \in Pictures
    BY <1>2, <1>6 DEF IsChunk, Messages
  <2>2. announced' = {msg.pic} /\ cache' = cache /\ charged' = charged /\ connected' = connected
    BY <1>6 DEF ServerSetAvatar
  <2>3. IF msg.pic \in cache THEN rx' = {} /\ requests' = requests
        ELSE IF announced = {msg.pic} /\ \E x \in rx : x.pic = msg.pic THEN rx' = rx /\ requests' = requests
        ELSE rx' = Train(msg.pic) /\ requests' = Append(requests, msg.pic)
    BY <1>6 DEF ServerSetAvatar
  <2>4. Uncrossed(Unread', Left - 1, own, trains, requests', {msg.pic}, rx', cache)
    <3>1. ~IsChunk(Unread[1]) /\ Unread[1].pic = msg.pic
      BY <2>1 DEF msg
    <3> QED BY <1>1, <1>2, <1>4, <2>1, <2>3, <3>1, SetInOrder
  <2>5. requests' = requests \/ requests' = Append(requests, msg.pic)
    BY <2>3
  <2>6. requests' \in Seq(Pictures) /\ \A i \in 1 .. Len(requests') : requests'[i] \in shown
    <3>1. \A i \in 1 .. Len(requests) : requests[i] \in shown
      BY <1>1 DEF AllShown
    <3>2. CASE requests' = requests
      BY <1>4, <3>1, <3>2
    <3>3. CASE requests' = Append(requests, msg.pic)
      BY <1>2, <1>4, <2>1, <3>1, <3>3
    <3> QED BY <2>5, <3>2, <3>3
  <2>7. UploadTypes'
    BY <1>2, <1>3, <1>4, <2>1, <2>2, <2>6 DEF UploadTypes
  <2>8. AllShown'
    BY <1>1, <1>2, <1>3, <2>2, <2>6 DEF AllShown
  <2> QED BY <1>1, <1>2, <1>3, <2>2, <2>4, <2>7, <2>8 DEF Upload
<1>7. CASE msg.kind = "chunk" /\ ServerChunk(msg.pic, msg.index)
  <2>1. IsChunk(msg) /\ msg.pic \in Pictures /\ msg.index \in Nat
    <3>1. msg \in [kind : {"chunk"}, pic : Pictures, index : 0 .. (TOTAL - 1)]
      BY <1>2, <1>7 DEF Messages
    <3> QED BY <1>7, <3>1 DEF IsChunk
  <2>2. IsChunk(Unread[1]) /\ Unread[1].pic = msg.pic /\ Unread[1].index = msg.index /\ Unread[1].index \in Nat
    BY <2>1 DEF msg
  <2>3. Fits(msg.pic, msg.index)
    BY <1>1, <1>2, <2>2, ChunkInOrder DEF Fits
  <2>4. /\ rx' = IF msg.index + 1 < TOTAL THEN {[pic |-> msg.pic, next |-> msg.index + 1]} ELSE {}
        /\ cache' \in IF msg.index + 1 < TOTAL THEN {cache} ELSE Inserted(cache, msg.pic, announced)
        /\ charged' = charged /\ announced' = announced /\ requests' = requests /\ connected' = connected
    BY <1>7, <2>3 DEF ServerChunk
  <2>5. cache' = cache \/ cache' \in Inserted(cache, msg.pic, announced)
    BY <2>4
  <2>6. \A held \in Inserted(cache, msg.pic, announced) : held \subseteq cache \cup {msg.pic} /\ msg.pic \in held
    BY DEF Inserted
  <2>7. cache' \subseteq Pictures
    BY <1>4, <2>1, <2>5, <2>6
  <2>8. IF Unread[1].index + 1 < TOTAL THEN rx' = {[pic |-> Unread[1].pic, next |-> Unread[1].index + 1]} /\ cache' = cache
        ELSE rx' = {} /\ Unread[1].pic \in cache'
    BY <2>2, <2>4, <2>6
  <2>9. Uncrossed(Unread', Left - 1, own, trains, requests, announced, rx', cache')
    BY <1>1, <1>2, <2>2, <2>8, ChunkInOrder
  <2>10. UploadTypes'
    BY <1>2, <1>3, <1>4, <2>4, <2>7 DEF UploadTypes
  <2>11. AllShown'
    BY <1>1, <1>2, <1>3, <2>4 DEF AllShown
  <2> QED BY <1>1, <1>2, <1>3, <2>4, <2>9, <2>10, <2>11 DEF Upload
<1> QED BY <1>5, <1>6, <1>7

LEMMA NudgesUpload ==
  ASSUME Upload, NEW p, BandmateAsks(p)
  PROVE  Upload'
<1>1. UploadTypes /\ AllShown /\ charged = 0 /\ Uncrossed(Unread, Left, own, trains, requests, announced, rx, cache)
  BY DEF Upload
<1>2. /\ own' = own /\ shown' = shown /\ trains' = trains /\ pending' = pending /\ taken' = taken
      /\ announced' = announced /\ cache' = cache /\ charged' = charged
      /\ rx = {} /\ rx' = Train(p) /\ requests' = Append(requests, p) /\ p \in announced \ cache
  BY DEF BandmateAsks, clientVars, history
<1>3. Left' = Left /\ Unread' = Unread /\ Left \in Nat
  BY <1>1, <1>2 DEF Left, Unread, UploadTypes
<1>4. announced = {p} /\ p \in Pictures /\ requests \in Seq(Pictures)
  BY <1>1, <1>2 DEF UploadTypes
<1>5. Uncrossed(Unread, Left, own, trains, Append(requests, p), {p}, Train(p), cache)
  <2>1. Uncrossed(Unread, Left, own, trains, requests, {p}, {}, cache)
    BY <1>1, <1>2, <1>4
  <2> QED BY <1>2, <1>3, <1>4, <2>1, NudgedInOrder
<1>6. requests' \in Seq(Pictures) /\ \A i \in 1 .. Len(requests') : requests'[i] \in shown
  BY <1>1, <1>2, <1>4 DEF AllShown
<1>7. UploadTypes'
  BY <1>1, <1>2, <1>3, <1>6 DEF UploadTypes
<1>8. AllShown'
  BY <1>1, <1>2, <1>3, <1>6 DEF AllShown
<1> QED BY <1>1, <1>2, <1>3, <1>4, <1>5, <1>7, <1>8 DEF Upload

LEMMA DropsUpload ==
  ASSUME Upload, OwnerDrops
  PROVE  Upload'
<1>1. UploadTypes /\ AllShown /\ charged = 0 /\ Uncrossed(Unread, Left, own, trains, requests, announced, rx, cache)
  BY DEF Upload
<1>2. /\ trains' = <<>> /\ pending' = <<>> /\ taken' = 0 /\ requests' = <<>> /\ rx' = {}
      /\ own' = own /\ shown' = shown /\ announced' = announced /\ cache' = cache /\ charged' = charged
  BY DEF OwnerDrops, history
<1>3. Left' = 0
  BY <1>2 DEF Left
<1>4. UploadTypes'
  BY <1>1, <1>2, <1>3 DEF UploadTypes
<1>5. AllShown'
  BY <1>1, <1>2, <1>3 DEF AllShown
<1>6. \A pic \in own : own = {pic}
  BY <1>1 DEF Uncrossed
<1>7. Uncrossed(Unread', 0, own, <<>>, <<>>, announced, {}, cache)
  <2>1. \A i \in 1 .. 0 : ~IsChunk(Unread'[i]) /\ Unread'[i].pic \in own
    OBVIOUS
  <2> QED BY <1>6, <2>1, FreshInOrder
<1> QED BY <1>1, <1>2, <1>3, <1>4, <1>5, <1>7 DEF Upload

(* SetToSeq of a set of none or one.                                       *)
LEMMA SequenceOfFew ==
  /\ SetToSeq({}) = <<>>
  /\ \A x : SetToSeq({x}) = <<x>>
<1>1. SetToSeq({}) = <<>>
  <2> DEFINE f == SetToSeq({})
             Is(g) == IsInjective(g)
  <2>1. Cardinality({}) = 0 /\ 1 .. 0 = {}
    BY FS_EmptySet
  <2>2. <<>> \in [1 .. Cardinality({}) -> {}] /\ Is(<<>>)
    BY <2>1 DEF IsInjective
  <2>3. f \in [1 .. Cardinality({}) -> {}]
    BY <2>2 DEF SetToSeq
  <2> QED BY <2>1, <2>3
<1>2. ASSUME NEW x PROVE SetToSeq({x}) = <<x>>
  <2> DEFINE f == SetToSeq({x})
             Is(g) == IsInjective(g)
  <2>1. Cardinality({x}) = 1
    BY FS_Singleton
  <2>2. <<x>> \in [1 .. Cardinality({x}) -> {x}] /\ Is(<<x>>)
    BY <2>1 DEF IsInjective
  <2>3. f \in [1 .. Cardinality({x}) -> {x}]
    BY <2>2 DEF SetToSeq
  <2>4. f \in [1 .. 1 -> {x}]
    BY <2>1, <2>3
  <2>5. f = [i \in 1 .. 1 |-> x]
    BY <2>4
  <2> QED BY <2>5
<1> QED BY <1>1, <1>2

LEMMA JoinsUpload ==
  ASSUME Upload, OwnerJoins, pending = <<>>, taken = 0, trains = <<>>, requests = <<>>, rx = {}
  PROVE  Upload'
<1>1. UploadTypes /\ AllShown /\ charged = 0 /\ Uncrossed(Unread, Left, own, trains, requests, announced, rx, cache)
  BY DEF Upload
<1>2. /\ trains' = <<>> /\ taken' = 0 /\ requests' = <<>> /\ rx' = {} /\ pending' = SetToSeq({Announce(p) : p \in own})
      /\ own' = own /\ shown' = shown /\ announced' = announced /\ cache' = cache /\ charged' = charged
  BY DEF OwnerJoins, clientVars, history
<1>3. \A pic \in own : own = {pic} /\ pic \in Pictures /\ pic \in shown
  BY <1>1 DEF Uncrossed, UploadTypes, AllShown
<1>4. own = {} \/ \E pic \in own : TRUE
  OBVIOUS
<1>5. pending' = <<>> \/ \E pic \in own : pending' = <<Announce(pic)>>
  <2>1. CASE own = {}
    <3>1. {Announce(p) : p \in own} = {}
      BY <2>1
    <3> QED BY <1>2, <3>1, SequenceOfFew
  <2>2. ASSUME NEW pic \in own PROVE pending' = <<Announce(pic)>>
    <3>1. {Announce(p) : p \in own} = {Announce(pic)}
      BY <1>3
    <3> QED BY <1>2, <3>1, SequenceOfFew
  <2> QED BY <1>4, <2>1, <2>2
<1>6. \A pic \in Pictures : Announce(pic) \in Messages /\ ~IsChunk(Announce(pic)) /\ Announce(pic).pic = pic
  BY DEF Announce, Messages, IsChunk
<1>7. pending' \in Seq(Messages) /\ Len(pending') \in Nat
      /\ \A i \in 1 .. Len(pending') : \E pic \in own : pending'[i] = Announce(pic)
  <2>1. CASE pending' = <<>>
    BY <2>1
  <2>2. ASSUME NEW pic \in own, pending' = <<Announce(pic)>> PROVE <1>7!:
    BY <1>3, <1>6, <2>2
  <2> QED BY <1>5, <2>1, <2>2
<1>8. Left' = Len(pending')
  BY <1>2, <1>7 DEF Left
<1>9. \A i \in 1 .. Left' : Unread'[i] = pending'[i]
  <2>1. \A i \in 1 .. Left' : Unread'[i] = pending'[taken' + i] /\ taken' + i = i
    BY <1>2 DEF Unread
  <2> QED BY <2>1
<1>10. \A i \in 1 .. Left' : ~IsChunk(Unread'[i]) /\ Unread'[i].pic \in own
  BY <1>3, <1>6, <1>7, <1>8, <1>9
<1>11. UploadTypes'
  BY <1>1, <1>2, <1>7, <1>8 DEF UploadTypes
<1>12. AllShown'
  BY <1>1, <1>2, <1>3, <1>10 DEF AllShown
<1>13. Uncrossed(Unread', Left', own, <<>>, <<>>, announced, {}, cache)
  BY <1>3, <1>7, <1>8, <1>10, FreshInOrder
<1> QED BY <1>1, <1>2, <1>11, <1>12, <1>13 DEF Upload

-----------------------------------------------------------------------------
(* The owner's queues are the connection's.                                *)
Idle == pending = <<>> /\ taken = 0 /\ trains = <<>> /\ requests = <<>> /\ rx = {}

(* While nothing was refused and nothing put back, the rest of a picture   *)
(* halfway through its upload has one source, and it is in order.          *)
AvatarIInv == Calm => Upload /\ (connected \/ Idle)

LEMMA AvatarInit == FanInit => AvatarIInv
<1> USE AvatarAssumption
<1> SUFFICES ASSUME FanInit PROVE AvatarIInv
  OBVIOUS
<1>1. /\ own = {} /\ trains = <<>> /\ pending = <<>> /\ taken = 0 /\ requests = <<>> /\ announced = {}
      /\ rx = {} /\ cache = {} /\ charged = 0 /\ connected = TRUE
  BY DEF FanInit, Init
<1>2. Left = 0
  BY <1>1 DEF Left
<1>3. UploadTypes
  BY <1>1, <1>2 DEF UploadTypes
<1>4. AllShown
  BY <1>1, <1>2 DEF AllShown
<1>5. \A pic \in own : own = {pic}
  BY <1>1
<1>6. \A i \in 1 .. 0 : ~IsChunk(Unread[i]) /\ Unread[i].pic \in own
  OBVIOUS
<1>7. Uncrossed(Unread, 0, own, <<>>, <<>>, announced, {}, cache)
  BY <1>5, <1>6, FreshInOrder
<1> QED BY <1>1, <1>2, <1>3, <1>4, <1>7 DEF AvatarIInv, Upload

LEMMA AvatarStep == AvatarIInv /\ [FanNext]_<<vars, fanVars>> => AvatarIInv'
<1> SUFFICES ASSUME AvatarIInv, [FanNext]_<<vars, fanVars>>, ~refused', ~putBack'
             PROVE  Upload' /\ (connected' \/ Idle')
  BY DEF AvatarIInv, Calm
<1>1. CASE UNCHANGED vars
  <2>1. /\ own' = own /\ trains' = trains /\ pending' = pending /\ taken' = taken /\ requests' = requests
        /\ announced' = announced /\ rx' = rx /\ cache' = cache /\ charged' = charged
        /\ connected' = connected /\ refused' = refused /\ shown' = shown /\ putBack' = putBack
    BY <1>1 DEF vars, clientVars, serverVars, history
  <2>2. Upload /\ (connected \/ Idle)
    BY <2>1 DEF AvatarIInv, Calm
  <2>3. Left' = Left /\ Unread' = Unread
    BY <2>1 DEF Left, Unread
  <2>4. UploadTypes' /\ AllShown'
    BY <2>1, <2>2, <2>3 DEF Upload, UploadTypes, AllShown
  <2> QED BY <2>1, <2>2, <2>3, <2>4 DEF Upload, Idle
<1>2. ASSUME NEW p \in Pictures, set_avatar(p) PROVE Upload' /\ connected'
  <2>1. refused' = FALSE /\ (refused => refused') /\ (putBack => putBack') /\ connected /\ connected' = connected
    BY <1>2 DEF set_avatar, Queue, serverVars
  <2> QED BY <1>2, <2>1, SetsUpload DEF AvatarIInv, Calm
<1>3. ASSUME ClientAsked PROVE Upload' /\ connected'
  <2>1. refused' = refused /\ putBack' = putBack /\ connected /\ connected' = connected
    BY <1>3 DEF ClientAsked, serverVars, history
  <2> QED BY <1>3, <2>1, AnswersUpload DEF AvatarIInv, Calm
<1>4. ASSUME poll PROVE Upload' /\ connected'
  <2>1. (refused => refused') /\ putBack' = putBack /\ connected /\ connected' = connected
    BY <1>4 DEF poll, FeedTrain, Queue, serverVars, history
  <2> QED BY <1>4, <2>1, PollsUpload DEF AvatarIInv, Calm
<1>5. ASSUME Retire PROVE Upload' /\ connected'
  <2>1. refused' = refused /\ putBack' = putBack /\ connected' = connected /\ taken > 0
    BY <1>5 DEF Retire, serverVars, history
  <2>2. Upload /\ (connected \/ Idle)
    BY <2>1 DEF AvatarIInv, Calm
  <2>3. connected
    BY <2>1, <2>2 DEF Idle
  <2> QED BY <1>5, <2>1, <2>2, <2>3, RetiresUpload
<1>6. ASSUME OwnerHeard PROVE Upload' /\ connected'
  <2>1. ServerHears /\ refused' = refused /\ putBack' = putBack /\ connected
    BY <1>6 DEF OwnerHeard, ServerHears, history
  <2> QED BY <2>1, HearsUpload DEF AvatarIInv, Calm
<1>7. ASSUME OwnerDrops PROVE Upload' /\ Idle'
  <2>1. refused' = refused /\ putBack' = putBack
    BY <1>7 DEF OwnerDrops, history
  <2>2. Upload'
    BY <1>7, <2>1, DropsUpload DEF AvatarIInv, Calm
  <2> QED BY <1>7, <2>2 DEF OwnerDrops, Idle
<1>8. ASSUME OwnerJoins PROVE Upload' /\ connected'
  <2>1. refused' = refused /\ putBack' = putBack /\ ~connected /\ connected'
    BY <1>8 DEF OwnerJoins, history
  <2>2. Upload /\ Idle
    BY <2>1 DEF AvatarIInv, Calm
  <2> QED BY <1>8, <2>1, <2>2, JoinsUpload DEF Idle
<1>9. ASSUME NEW p, BandmateAsks(p) PROVE Upload' /\ connected'
  <2>1. refused' = refused /\ putBack' = putBack /\ connected /\ connected' = connected
    BY <1>9 DEF BandmateAsks, history
  <2> QED BY <1>9, <2>1, NudgesUpload DEF AvatarIInv, Calm
<1>10. OwnerMoves => \/ \E p \in Pictures : set_avatar(p)
                     \/ ClientAsked \/ poll \/ Retire
  BY DEF OwnerMoves
<1>11. MateAsked => UNCHANGED vars \/ \E p : BandmateAsks(p)
  BY DEF MateAsked
<1>12. tick \/ MateHears \/ MateDrops \/ MateJoins => UNCHANGED vars
  BY DEF tick, MateHears, MateDrops, MateJoins
<1>13. \/ UNCHANGED vars \/ OwnerMoves \/ OwnerHeard \/ OwnerDrops \/ OwnerJoins
       \/ tick \/ MateAsked \/ MateHears \/ MateDrops \/ MateJoins
  BY DEF FanNext
<1> QED BY <1>1, <1>2, <1>3, <1>4, <1>5, <1>6, <1>7, <1>8, <1>9, <1>10, <1>11, <1>12, <1>13

(* A picture's upload is charged for nothing but a refused message or a    *)
(* picture put back: the announce, the request, its replacement halfway,   *)
(* the train that answers, a bandmate's nudge and a connection that drops  *)
(* and comes back may otherwise cross in any order.                        *)
THEOREM ChargesAreExplained == FanSpec => []ChargedOnlyForCrossedTrains
<1>1. AvatarIInv => ChargedOnlyForCrossedTrains
  BY DEF AvatarIInv, Calm, Upload, ChargedOnlyForCrossedTrains
<1> QED BY <1>1, AvatarInit, AvatarStep, PTL DEF FanSpec
=============================================================================
