---- MODULE VideoUpload ----
(***************************************************************************)
(* The phone's half of a walkthrough, composed with InspectionVideo:       *)
(* ApiUploadRepository of mobile/src/repositories/api/repositories.ts,     *)
(* media/stream-upload-runner.ts and media/tus-upload.ts.                  *)
(*                                                                         *)
(* One recording, one item in the upload queue, one pass of tick() at a    *)
(* time.  The pass works on the item it found when it began, and writes    *)
(* its outcome over whatever the item says by then.                        *)
(***************************************************************************)
EXTENDS InspectionVideo

VARIABLES item,  \* the queue's item: its status, and the video its link is for or 0
          file,  \* the recording is on the phone
          pass,  \* tick() under way
          wire   \* chunks on their way to Cloudflare

phone == <<item, file, pass, wire>>
uploadVars == <<videoVars, phone>>

ItemStatus == {"none", "PENDING", "UPLOADING", "PAUSED", "FAILED", "COMPLETED"}
PassStage == {"idle", "asked", "offset", "sent"}
Item == [status : ItemStatus, uid : Uid \union {NoUid}]
Pass == [stage : PassStage, by : Ask, uid : Uid \union {NoUid}, offset : 0..Chunks]
\* late: the pass that sent it has given it up.
Chunk == [uid : Uid, offset : 0..Chunks - 1, late : BOOLEAN]

Free == {a \in Ask : ask[a].stage = "idle"}
AnyAsk == CHOOSE a \in Ask : TRUE
NoPass == [stage |-> "idle", by |-> AnyAsk, uid |-> NoUid, offset |-> 0]

UploadInit ==
  /\ VideoInit
  /\ item = [status |-> "PENDING", uid |-> NoUid]
  /\ file = TRUE /\ wire = {}
  /\ pass = NoPass

Idle == pass.stage = "idle"
PassEnds == pass' = NoPass

\* updateUpload: an item that was removed is not written.
Sets(status) == item' = IF item.status = "none" THEN item ELSE [item EXCEPT !.status = status]
SetsLink(status, uid) ==
  item' = IF item.status = "none" THEN item ELSE [status |-> status, uid |-> uid]

\* Nothing of the API moves but its faults.
ApiStays == UNCHANGED <<api, webhooks, restarted, crossed, overtaken>>

----------------------------------------------------------------------------
(* tick()                                                                  *)

Due == item.status \in {"PENDING", "UPLOADING"}

\* A link is used while its hour lasts, less a minute, whether or not Cloudflare
\* still honours it; after that, or with none, a session is asked for, though
\* Cloudflare might still take chunks.
Resumes ==
  /\ Idle /\ Due /\ item.uid # NoUid
  /\ Sets("UPLOADING")
  /\ pass' = [pass EXCEPT !.stage = "offset", !.uid = item.uid]
  /\ ApiStays /\ UNCHANGED <<stream, faults, file, wire>>

Asks(a) ==
  /\ Free # {}
  /\ Idle /\ Due /\ a = CHOOSE b \in Free : TRUE
  /\ IF Linked(item.uid) THEN Fault ELSE UNCHANGED faults
  /\ Sets("UPLOADING")
  /\ pass' = [pass EXCEPT !.stage = "asked", !.by = a]
  /\ ask' = [ask EXCEPT ![a] = [NoAsk EXCEPT !.stage = "read"]]
  /\ UNCHANGED <<row, area, stream, webhooks, report, queued, analysing, runs, restarted, crossed, overtaken>>
  /\ UNCHANGED <<file, wire>>

Answered(a) == ask[a].stage = "answer" /\ ask' = [ask EXCEPT ![a] = NoAsk]
OtherwiseStays == UNCHANGED <<row, area, stream, webhooks, report, queued, analysing, runs,
                              restarted, crossed, overtaken, file, wire>>

SessionArrives(a) ==
  /\ pass.stage = "asked" /\ pass.by = a /\ Answered(a)
  /\ \/ /\ ask[a].result = "link"
        /\ SetsLink(item.status, ask[a].new)
        /\ pass' = [pass EXCEPT !.stage = "offset", !.by = AnyAsk, !.uid = ask[a].new]
     \/ /\ ask[a].result = "uploaded"
        /\ SetsLink("COMPLETED", NoUid)
        /\ PassEnds
     \/ /\ ask[a].result = "failed"
        /\ Sets("PENDING") /\ PassEnds
  /\ OtherwiseStays /\ UNCHANGED faults

\* A refusal that asking again cannot change waits for a person.
SessionRefused(a) ==
  /\ pass.stage = "asked" /\ pass.by = a /\ Answered(a) /\ ask[a].result = "failed" /\ Fault
  /\ Sets("FAILED") /\ PassEnds
  /\ OtherwiseStays

\* Nobody waits for the answer any more.
Unheard(a) ==
  /\ Answered(a) /\ ~(pass.stage = "asked" /\ pass.by = a)
  /\ OtherwiseStays /\ UNCHANGED <<item, pass, faults>>

\* The request is given up after a minute, or its connection is lost.
AskTimesOut ==
  /\ pass.stage = "asked" /\ ask[pass.by].stage # "idle" /\ Fault
  /\ Sets("PENDING") /\ PassEnds
  /\ ApiStays /\ UNCHANGED <<stream, file, wire>>

\* The API process ended with the request.
AskDies ==
  /\ pass.stage = "asked" /\ ask[pass.by].stage = "idle"
  /\ Sets("PENDING") /\ PassEnds
  /\ ApiStays /\ UNCHANGED <<stream, faults, file, wire>>

----------------------------------------------------------------------------
(* uploadFileInChunks                                                      *)

\* Mutant: a chunk is sent past the end.
ReadsOffsetPastEnd ==
  LET held == stream[pass.uid].held IN
  /\ pass.stage = "offset" /\ Linked(pass.uid)
  /\ pass' = [pass EXCEPT !.stage = "sent", !.offset = held]
  /\ wire' = wire \union {[uid |-> pass.uid, offset |-> held, late |-> FALSE]}
  /\ ApiStays /\ UNCHANGED <<stream, faults, file, item>>

\* Cloudflare says how far it got: the next chunk goes, or all of it is there.
ReadsOffset ==
  LET held == stream[pass.uid].held IN
  /\ pass.stage = "offset" /\ Linked(pass.uid)
  /\ IF held = Chunks
     THEN PassEnds /\ Sets("COMPLETED") /\ UNCHANGED wire
     ELSE /\ pass' = [pass EXCEPT !.stage = "sent", !.offset = held]
          /\ wire' = wire \union {[uid |-> pass.uid, offset |-> held, late |-> FALSE]}
          /\ UNCHANGED item
  /\ ApiStays /\ UNCHANGED <<stream, faults, file>>

\* 404, 410 or 403: the link is let go of, and the next pass asks for another.
LinkIsDead ==
  /\ pass.stage = "offset" /\ ~Linked(pass.uid)
  /\ SetsLink("PENDING", NoUid) /\ PassEnds
  /\ ApiStays /\ UNCHANGED <<stream, faults, file, wire>>

\* A chunk reaches Cloudflare, which takes it only at its own offset.  Whatever
\* the answer, the pass that waits for it reads the offset next: the answer
\* names it, a 409 makes the phone ask, and a dead link answers alike to both.
ChunkLands(c) ==
  /\ wire' = wire \ {c}
  /\ IF Linked(c.uid) /\ stream[c.uid].held = c.offset THEN HoldMore(c.uid) ELSE UNCHANGED stream
  /\ pass' = IF c.late THEN pass ELSE [pass EXCEPT !.stage = "offset", !.offset = 0]
  /\ ApiStays /\ UNCHANGED <<faults, item, file>>

GivenUp == {[c EXCEPT !.late = TRUE] : c \in wire}

\* The request fails or takes more than six minutes; its chunk may land later, or
\* never.
RequestFails ==
  /\ pass.stage \in {"offset", "sent"} /\ Fault
  /\ Sets("PENDING") /\ PassEnds
  /\ wire' \in {GivenUp, {c \in wire : c.late}}
  /\ ApiStays /\ UNCHANGED <<stream, file>>

\* A take begins: the pass stops before its next chunk, and the item waits.
CameraStarts ==
  /\ pass.stage = "offset" /\ Fault
  /\ Sets("PENDING") /\ PassEnds
  /\ ApiStays /\ UNCHANGED <<stream, file, wire>>

----------------------------------------------------------------------------
(* The technician, the list and the end of the process                     *)

Presses(from, to) ==
  /\ item.status \in from /\ Sets(to)
  /\ ApiStays /\ UNCHANGED <<stream, faults, file, pass, wire>>

Pause == Presses({"PENDING", "UPLOADING"}, "PAUSED")
Resume == Presses({"PAUSED"}, "PENDING")
Retry == Presses({"FAILED"}, "PENDING")

\* list(): once the server lists the recording as arrived, the item and the file go.
HandsOver ==
  /\ item.status = "COMPLETED" /\ row.uploaded
  /\ item' = [status |-> "none", uid |-> NoUid] /\ file' = FALSE
  /\ ApiStays /\ UNCHANGED <<stream, faults, pass, wire>>

\* The process ends; what was handed to the platform still goes.
Kill ==
  /\ ~Idle /\ Fault /\ PassEnds /\ wire' = GivenUp
  /\ ApiStays /\ UNCHANGED <<stream, item, file>>

----------------------------------------------------------------------------
PassStep == \/ Resumes \/ (\E a \in Ask : Asks(a) \/ SessionArrives(a))
            \/ AskDies \/ ReadsOffset \/ LinkIsDead

PhoneNext ==
  \/ Resumes \/ ReadsOffset \/ LinkIsDead \/ RequestFails \/ CameraStarts \/ AskTimesOut \/ AskDies
  \/ \E a \in Ask : Asks(a) \/ SessionArrives(a) \/ SessionRefused(a) \/ Unheard(a)
  \/ \E c \in wire : ChunkLands(c)
  \/ Pause \/ Resume \/ Retry \/ HandsOver \/ Kill

UploadNext == PhoneNext \/ (VideoNext /\ UNCHANGED phone)
UploadSafety == UploadInit /\ [][UploadNext]_uploadVars

UploadSpec ==
  /\ UploadSafety /\ VideoFairness
  /\ WF_uploadVars(PassStep)
  /\ \A a \in Ask : WF_uploadVars(Unheard(a))
  /\ WF_uploadVars(\E c \in wire : ChunkLands(c))

----------------------------------------------------------------------------
\* What the row, Cloudflare's videos, the handlers and the phone may hold.
VideoTypeOK ==
  /\ row \in MediaRow /\ area \in AreaStatus
  /\ stream \in [Uid -> Video] /\ webhooks \subseteq Notification
  /\ report \in [Reporter -> Report] /\ ask \in [Ask -> Asked]
  /\ queued \in BOOLEAN /\ analysing \in Uid \union {NoUid}
  /\ runs \in 0..MaxRuns /\ faults \in 0..MaxFaults
  /\ restarted \in BOOLEAN /\ crossed \in BOOLEAN /\ overtaken \in BOOLEAN
  /\ item \in Item /\ file \in BOOLEAN /\ pass \in Pass /\ wire \subseteq Chunk

\* The recording is whole on the phone, or at Cloudflare as the video its row names.
EvidenceKept == file \/ Whole(row.uid)

\* The phone lets go of a recording only when the API can show it, whatever
\* links lapse, answers are lost, chunks land late and processes end, as long as no
\* handler wrote on what had changed since it looked (list() of repositories.ts,
\* deliveredSession and renewSession of inspection-video.service.ts).
EvidenceKeptUncrossed == ~crossed => EvidenceKept

Noticed == row.uploaded /\ area = "COMPLETED"

\* A recording that has arrived is known to have arrived, and its area is done,
\* though the notification was lost: "without this a lost delivery leaves a recording
\* stuck at PROCESSING forever" (inspection-video.service.ts, reconcileStuckVideos),
\* as long as the API did not restart while the recording was on its way.
ArrivalNoticedUnlessRestarted == Whole(row.uid) ~> (Noticed \/ crossed \/ restarted)

\* What Cloudflare has encoded does not stay "in progress", though ready comes late,
\* twice or for a video the row no longer names, and whatever the API lost in a
\* restart: its analysis ends (applyWebhook, onModuleInit and process()).  The one
\* exception is a report from before the encode that undoes a finished row.
SettlesUnlessOvertaken == row.readyAt ~> (row.status \in {"READY", "FAILED"} \/ overtaken)

\* No lapsed link, lost answer or dead handler leaves the queue sending one
\* recording for good, which would hold up every other (tick, renewSession).
NeverStuckSending == []<>(item.status \notin {"PENDING", "UPLOADING"})
====
