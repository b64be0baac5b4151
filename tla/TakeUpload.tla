----------------------------- MODULE TakeUpload -----------------------------
(***************************************************************************)
(* One recording object on its way to a bucket while the session plays:    *)
(* the recorder's side (server/src/cloud_sink.rs), the sink's queue and     *)
(* marker (cloud/src/storage/sink.rs), the driver that escalates to a      *)
(* multipart upload (drive_upload and feed_parts, cloud/src/storage.rs)    *)
(* and the requests it makes of S3 or GCS, each retried by                 *)
(* cloud/src/http.rs.                                                      *)
(*                                                                         *)
(* Bytes are counted, not named: they are one ordered stream.              *)
(***************************************************************************)
EXTENDS Integers, Sequences, FiniteSetsExt

CONSTANTS
    CHUNK_QUEUE,     \* messages the sink's queue holds
    PART_SIZE,
    MAX_PARTS,
    MAX_ATTEMPTS,    \* of one request
    MaxBytes,        \* bound: what the recorder writes
    MaxUploads       \* bound: multipart uploads opened

ASSUME UploadAssumption ==
    {CHUNK_QUEUE, PART_SIZE, MAX_PARTS, MAX_ATTEMPTS, MaxBytes, MaxUploads} \subseteq Nat \ {0}

VARIABLES
    store,      \* "s3" or "gcs"
    alive,      \* the machine is up
    writer,     \* the recorder: "open"; "finishing", "joining", then "ok" or "failed";
                \* or "aborting", then "aborted"
    written,    \* bytes the sink has accepted
    chunks,     \* the queue: chunks by size, and Finish
    marker,     \* the marker file of this upload is there
    source,     \* ChannelSource: [buf, finished]
    driver,     \* the upload task: [pc, want, current, next, number, upload, tries]
    bucket,     \* [object, uploads]; an upload is [parts, bytes]
    stray       \* history: uploads the driver was never told of, or could not abort

uploadVars == <<store, alive, writer, written, chunks, marker, source, driver, bucket, stray>>

None == -1
Finish == 0
Ended == driver.pc \in {"stored", "failed"}

(* ObjectSink::open.                                                       *)
UploadInit ==
    /\ store \in {"s3", "gcs"} /\ alive = TRUE
    /\ writer = "open" /\ written = 0 /\ chunks = <<>> /\ marker = TRUE
    /\ source = [buf |-> 0, finished |-> FALSE]
    /\ driver = [pc |-> "reading", want |-> "first", current |-> 0, next |-> 0, number |-> 1,
               upload |-> None, tries |-> 0]
    /\ bucket = [object |-> None, uploads |-> <<>>] /\ stray = {}

Open(u) == u # None /\ bucket.uploads[u].open
-----------------------------------------------------------------------------
(* The recorder's thread, which each of these calls blocks.                *)
QueueHasRoom == Len(chunks) < CHUNK_QUEUE

Write(n) ==
    /\ alive /\ writer = "open" /\ ~Ended /\ QueueHasRoom
    /\ written + n <= MaxBytes
    /\ chunks' = Append(chunks, n) /\ written' = written + n
    /\ UNCHANGED <<store, alive, writer, marker, source, driver, bucket, stray>>

FinishAsked ==
    /\ alive /\ writer = "open"
    /\ writer' = "finishing"
    /\ UNCHANGED <<store, alive, written, chunks, marker, source, driver, bucket, stray>>

(* Refused only when the task has stopped.                                 *)
FinishSent ==
    /\ alive /\ writer = "finishing"
    /\ \/ ~Ended /\ QueueHasRoom /\ chunks' = Append(chunks, Finish)
       \/ Ended /\ UNCHANGED chunks
    /\ writer' = "joining"
    /\ UNCHANGED <<store, alive, written, marker, source, driver, bucket, stray>>

\* Fault: finish takes the marker down before it waits for the driver.
FinishJoinedEarly ==
    /\ alive /\ writer = "joining"
    /\ writer' = IF driver.pc = "stored" THEN "ok" ELSE "failed"
    /\ marker' = FALSE
    /\ UNCHANGED <<store, alive, written, chunks, source, driver, bucket, stray>>
(* "Only now: the marker must outlive the store call it covers".           *)
FinishJoined ==
    /\ alive /\ writer = "joining" /\ Ended
    /\ writer' = IF driver.pc = "stored" THEN "ok" ELSE "failed"
    /\ marker' = FALSE
    /\ UNCHANGED <<store, alive, written, chunks, source, driver, bucket, stray>>

(* abort, and the drop of an object nobody finished: the sender goes.      *)
AbortAsked ==
    /\ alive /\ writer = "open"
    /\ writer' = "aborting"
    /\ UNCHANGED <<store, alive, written, chunks, marker, source, driver, bucket, stray>>

AbortJoined ==
    /\ alive /\ writer = "aborting" /\ Ended
    /\ writer' = "aborted" /\ marker' = FALSE
    /\ UNCHANGED <<store, alive, written, chunks, source, driver, bucket, stray>>

(* The machine goes, and its marker with it.                               *)
MachineDies ==
    /\ alive /\ alive' = FALSE /\ marker' = FALSE
    /\ UNCHANGED <<store, writer, written, chunks, source, driver, bucket, stray>>

-----------------------------------------------------------------------------
(* drive_upload.  An error before begin leaves nothing to abort.           *)
Fails(t) == [t EXCEPT !.pc = IF t.upload = None THEN "failed" ELSE "abort", !.tries = 0]

SenderGone == writer = "aborting"

\* Fault: a dropped sink ends the object instead of failing it.
EndOfQueueCommits == source' = [source EXCEPT !.finished = TRUE] /\ UNCHANGED driver
(* next_part: the queue is empty and its sender has been dropped.          *)
EndOfQueue == driver' = Fails(driver) /\ UNCHANGED source

Recv ==
    /\ alive /\ driver.pc = "reading" /\ ~source.finished /\ source.buf < PART_SIZE
    /\ \/ /\ chunks # <<>> /\ chunks' = Tail(chunks)
          /\ source' = IF Head(chunks) = Finish THEN [source EXCEPT !.finished = TRUE]
                       ELSE [source EXCEPT !.buf = @ + Head(chunks)]
          /\ UNCHANGED driver
       \/ chunks = <<>> /\ SenderGone /\ EndOfQueue /\ UNCHANGED chunks
    /\ UNCHANGED <<store, alive, writer, written, marker, bucket, stray>>

(* A part in hand.  The lookahead decides between one request and many,    *)
(* and which part is the last.                                             *)
PartRead ==
    /\ alive /\ driver.pc = "reading" /\ (source.finished \/ source.buf >= PART_SIZE)
    /\ LET part == Min({source.buf, PART_SIZE}) IN
       /\ source' = [source EXCEPT !.buf = @ - part]
       /\ driver' = CASE driver.want = "first" ->
                            [driver EXCEPT !.current = part, !.want = "second"]
                      [] driver.want = "second" ->
                            [driver EXCEPT !.next = part, !.want = "next",
                                           !.pc = IF part = 0 THEN "put" ELSE "begin"]
                      [] driver.want = "next" /\ driver.number > MAX_PARTS -> Fails(driver)
                      [] OTHER -> [driver EXCEPT !.next = part, !.pc = "send"]
    /\ UNCHANGED <<store, alive, writer, written, chunks, marker, bucket, stray>>

-----------------------------------------------------------------------------
(* What a request does at the store, once or again.                        *)
Stored(b, n) == [b EXCEPT !.object = n]
Closed(b, u) == [b EXCEPT !.uploads[u].open = FALSE]

IsLast == driver.next = 0

(* Of GCS the last chunk is the commit; S3 is asked to complete.           *)
Commits == store = "gcs" /\ IsLast

Applied(b) ==
    LET u == driver.upload IN
    CASE driver.pc = "put" -> Stored(b, driver.current)
      [] driver.pc = "begin" ->
            [b EXCEPT !.uploads = Append(@, [open |-> TRUE, parts |-> 0, bytes |-> 0])]
      [] driver.pc = "send" ->
            LET got == IF b.uploads[u].parts >= driver.number THEN b
                       ELSE [b EXCEPT !.uploads[u] = [open |-> @.open, parts |-> driver.number,
                                                      bytes |-> @.bytes + driver.current]]
            IN  IF Commits THEN Stored(Closed(got, u), got.uploads[u].bytes) ELSE got
      [] driver.pc = "complete" -> Stored(Closed(b, u), b.uploads[u].bytes)
      [] driver.pc = "abort" -> Closed(b, u)

(* The store can act on it: S3 knows the upload no more once it completed. *)
Valid == driver.pc = "complete" => Open(driver.upload)

(* The driver after a request that was answered.                           *)
Done ==
    CASE driver.pc \in {"put", "complete"} -> [driver EXCEPT !.pc = "stored"]
      [] driver.pc = "begin" ->
            [driver EXCEPT !.pc = "send", !.upload = Len(bucket.uploads) + 1, !.tries = 0]
      [] driver.pc = "send" /\ ~IsLast ->
            [driver EXCEPT !.pc = "reading", !.number = @ + 1, !.current = driver.next, !.tries = 0]
      [] driver.pc = "send" /\ IsLast ->
            [driver EXCEPT !.pc = IF Commits THEN "stored" ELSE "complete", !.tries = 0]
      [] driver.pc = "abort" -> [driver EXCEPT !.pc = "failed"]

(* After one that failed for good: the upload is aborted, and what failed  *)
(* was perhaps the abort.                                                  *)
NotDone == IF driver.pc = "abort" THEN [driver EXCEPT !.pc = "failed"] ELSE Fails(driver)

InRequest == driver.pc \in {"put", "begin", "send", "complete", "abort"}

Request(b, t) ==
    /\ alive
    /\ driver.pc = "begin" => Len(bucket.uploads) < MaxUploads
    /\ bucket' = b /\ driver' = t
    /\ UNCHANGED <<store, alive, writer, written, chunks, marker, source>>

Answered == InRequest /\ Valid /\ Request(Applied(bucket), Done) /\ UNCHANGED stray

(* send_retrying.  A timeout or a server error is tried again, whether or  *)
(* not the request was carried out; anything else fails it, a connection   *)
(* cut in the middle of the answer too.                                    *)
Unheard(b) == stray' = stray \cup (DOMAIN b.uploads \ DOMAIN bucket.uploads)

Outcomes == {bucket} \cup (IF Valid THEN {Applied(bucket)} ELSE {})

TriedAgain ==
    /\ InRequest /\ driver.tries + 1 < MAX_ATTEMPTS
    /\ \E b \in Outcomes : Request(b, [driver EXCEPT !.tries = @ + 1]) /\ Unheard(b)

GivenUp ==
    /\ InRequest
    /\ \E b \in Outcomes :
        /\ Request(b, NotDone)
        /\ IF driver.pc = "abort" THEN stray' = stray \cup {driver.upload} ELSE Unheard(b)

-----------------------------------------------------------------------------
UploadNext ==
    \/ \E n \in 1 .. MaxBytes : Write(n)
    \/ FinishAsked \/ FinishSent \/ FinishJoined \/ AbortAsked \/ AbortJoined
    \/ Recv \/ PartRead \/ Answered \/ TriedAgain \/ GivenUp
    \/ MachineDies

UploadSpec == UploadInit /\ [][UploadNext]_uploadVars

-----------------------------------------------------------------------------
(* storage.rs, "A truncated take that reports success is the failure this  *)
(* path exists to prevent": what stands in the bucket is every byte the    *)
(* recorder wrote, and only once it asked to finish, whatever was retried, *)
(* refused, dropped or cut off; and finish says ok only when it stands.    *)
TakeIsWholeOrAbsent ==
    /\ bucket.object # None => bucket.object = written /\ writer \in {"joining", "ok", "failed"}
    /\ writer = "ok" => bucket.object # None

(* sink.rs and storage.rs: while the machine lives, a marker that is gone  *)
(* means that the idle guard may end the machine: no request of this       *)
(* upload is still out, and no part of it is left billing but by an abort  *)
(* that failed or an upload nobody was told of.                            *)
MarkerCoversUpload ==
    alive /\ ~marker => Ended /\ \A u \in DOMAIN bucket.uploads : Open(u) => u \in stray
=============================================================================
