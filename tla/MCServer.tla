------------------------------ MODULE MCServer ------------------------------
(***************************************************************************)
(* What the server process keeps beside the room, one part at a time: the  *)
(* file of revocations, the log fed to the host, a member's picture, the   *)
(* recorder, a take on its way to a bucket, the broadcast thread and its   *)
(* child processes.  A behaviour exercises the part it starts with and the *)
(* others stand still.                                                     *)
(***************************************************************************)
EXTENDS RevocationLog, ServerLog, AvatarFanout, Recorder, StreamPipeline, MixFeed, TakeUpload

VARIABLE part   \* the part under test

avatarVars == <<vars, fanVars>>
parts == <<part, revokeVars, logVars, avatarVars, recordVars, pipeVars, feedVars, uploadVars>>

ServerInit ==
    /\ part \in {"revocations", "log", "avatar", "recorder", "broadcast", "feed", "upload"}
    /\ RevokeInit /\ LogInit /\ FanInit /\ RecordInit /\ PipeInit /\ FeedInit
    /\ UploadInit /\ (part # "upload" => store = "s3")

ServerNext ==
    /\ UNCHANGED part
    /\ \/ /\ part = "revocations" /\ RevokeNext
          /\ UNCHANGED <<logVars, avatarVars, recordVars, pipeVars, feedVars, uploadVars>>
       \/ /\ part = "log" /\ LogNext
          /\ UNCHANGED <<revokeVars, avatarVars, recordVars, pipeVars, feedVars, uploadVars>>
       \/ /\ part = "avatar" /\ FanNext
          /\ UNCHANGED <<revokeVars, logVars, recordVars, pipeVars, feedVars, uploadVars>>
       \/ /\ part = "recorder" /\ RecordNext
          /\ UNCHANGED <<revokeVars, logVars, avatarVars, pipeVars, feedVars, uploadVars>>
       \/ /\ part = "broadcast" /\ PipeNext
          /\ UNCHANGED <<revokeVars, logVars, avatarVars, recordVars, feedVars, uploadVars>>
       \/ /\ part = "feed" /\ FeedNext
          /\ UNCHANGED <<revokeVars, logVars, avatarVars, recordVars, pipeVars, uploadVars>>
       \/ /\ part = "upload" /\ UploadNext
          /\ UNCHANGED <<revokeVars, logVars, avatarVars, recordVars, pipeVars, feedVars>>

(* A picture's clients poll, the server ticks and their links deliver; the *)
(* recorder's and the broadcast's threads take what is queued for them;    *)
(* the pipeline is polled with its delays run out, and a pusher left alone *)
(* gets through.                                                           *)
ServerSpec ==
    /\ ServerInit /\ [][ServerNext]_parts
    /\ WF_vars(part = "avatar" /\ poll) /\ WF_vars(part = "avatar" /\ ClientAsked)
    /\ WF_vars(part = "avatar" /\ Retire) /\ WF_vars(part = "avatar" /\ OwnerHeard)
    /\ WF_fanVars(part = "avatar" /\ tick) /\ WF_fanVars(part = "avatar" /\ MateAsked)
    /\ WF_fanVars(part = "avatar" /\ MateHears)
    /\ WF_recordVars(part = "recorder" /\ ThreadTakes) /\ WF_recordVars(part = "recorder" /\ Resume)
    /\ WF_pipeVars(part = "broadcast" /\ PollsOn)
    /\ \A d \in Destinations : WF_pipeVars(part = "broadcast" /\ ReportsOn(d))
    /\ WF_feedVars(part = "feed" /\ ThreadTurn)
    /\ WF_feedVars(part = "feed" /\ DropWorker) /\ WF_feedVars(part = "feed" /\ Join)
=============================================================================
