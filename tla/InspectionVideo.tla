---- MODULE InspectionVideo ----
(***************************************************************************)
(* One area's walkthrough as the API and Cloudflare Stream know it:        *)
(* backend/src/media/inspection-video.service.ts, the sweep of             *)
(* stream-reconcile.scheduler.ts, and the queue of                         *)
(* technician/media-processing.service.ts.                                 *)
(*                                                                         *)
(* The bytes go from the phone to Cloudflare; the API keeps a row that     *)
(* names the Cloudflare video, and learns what became of it from webhooks  *)
(* and by asking.  Handlers read, await and write, and nothing keeps two   *)
(* of them apart.                                                          *)
(***************************************************************************)
EXTENDS Integers

CONSTANTS Ask,        \* handlers of POST upload-session, of which one may outlive its caller
          Chunks,     \* chunks in the recording
          MaxUploads, \* bound on Cloudflare videos: one, and one more per fault
          MaxRuns,    \* MAX_ANALYSIS_ATTEMPTS
          MaxFaults   \* bound on what goes wrong

ASSUME VideoAssumption ==
  /\ {Chunks, MaxUploads, MaxRuns} \subseteq Nat \ {0} /\ MaxFaults \in Nat
  /\ Ask # {} /\ {"hook", "sweep"} \intersect Ask = {}

VARIABLES row,      \* the inspectionMedia row; uid 0 when there is none
          area,     \* the area's completionStatus
          stream,   \* Cloudflare's videos, by uid
          webhooks, \* notifications Cloudflare has not had a 200 for
          report,   \* applyWebhook under way, by who called it
          ask,      \* createUploadSession under way
          queued,   \* process() was queued and has not begun
          analysing,\* the uid process() is working on, or 0
          runs,     \* PROCESSING_FAILED events
          faults,
          restarted,\* history: the API has restarted
          crossed,  \* history: a handler wrote on what had changed since it looked
          overtaken \* history: a report from before the encode undid a row that was finished

api == <<row, area, report, ask, queued, analysing, runs>>
videoVars == <<api, stream, webhooks, faults, restarted, crossed, overtaken>>

NoUid == 0
Uid == 1..MaxUploads
Reporter == Ask \union {"hook", "sweep"}

Reported == {"pendingupload", "inprogress", "ready", "error"}
StreamState == Reported \union {"unmade", "deleted"}
Status == {"PENDING", "PROCESSING", "READY", "FAILED"}
AreaStatus == {"PENDING", "RECORDED", "COMPLETED"}
AskStage == {"idle", "read", "look", "apply", "delete", "create", "write", "answer"}

MediaRow == [uid : Uid \union {NoUid}, uploaded : BOOLEAN, status : Status,
             readyAt : BOOLEAN, unencodable : BOOLEAN]
Video == [state : StreamState, held : 0..Chunks, linked : BOOLEAN]
Notification == [uid : Uid, state : {"ready", "error"}]
Report == [stage : {"idle", "told", "found", "applied"},
           uid : Uid \union {NoUid}, state : Reported, wasReady : BOOLEAN]
Asked == [stage : AskStage, old : Uid \union {NoUid}, new : Uid \union {NoUid},
          result : {"link", "uploaded", "failed"}]

NoReport == [stage |-> "idle", uid |-> NoUid, state |-> "ready", wasReady |-> FALSE]
NoAsk == [stage |-> "idle", old |-> NoUid, new |-> NoUid, result |-> "failed"]

Whole(u) == u # NoUid /\ stream[u].state \in {"inprogress", "ready", "error"}
Linked(u) == u # NoUid /\ stream[u].linked /\ stream[u].state # "deleted"
Unfinished == row.status \in {"PENDING", "PROCESSING"}

VideoInit ==
  /\ row = [uid |-> NoUid, uploaded |-> FALSE, status |-> "PENDING",
            readyAt |-> FALSE, unencodable |-> FALSE]
  /\ area = "PENDING"
  /\ stream = [u \in Uid |-> [state |-> "unmade", held |-> 0, linked |-> FALSE]]
  /\ webhooks = {} /\ report = [r \in Reporter |-> NoReport]
  /\ ask = [a \in Ask |-> NoAsk]
  /\ queued = FALSE /\ analysing = NoUid /\ runs = 0
  /\ faults = 0 /\ restarted = FALSE /\ crossed = FALSE /\ overtaken = FALSE

Fault == faults < MaxFaults /\ faults' = faults + 1

----------------------------------------------------------------------------
(* applyWebhook, called for a notification, by the sweep, by a reviewer's  *)
(* player and by createUploadSession.                                      *)

Reports(r, uid, state) ==
  report' = [report EXCEPT ![r] = [NoReport EXCEPT !.stage = "told", !.uid = uid, !.state = state]]

\* The row that names the video, and whether it was ready: an unknown uid ends it.
FindRow(r) ==
  /\ report[r].stage = "told"
  /\ report' = [report EXCEPT ![r] = IF row.uid = @.uid
                                     THEN [@ EXCEPT !.stage = "found", !.wasReady = row.readyAt]
                                     ELSE NoReport]
  /\ UNCHANGED <<row, area, stream, webhooks, ask, queued, analysing, runs, faults, restarted, crossed, overtaken>>

ProcessingOf(state) ==
  CASE state = "pendingupload" -> "PENDING" [] state = "error" -> "FAILED" [] OTHER -> "PROCESSING"

\* Mutant: a repeated ready puts the row back to PROCESSING.
AppliedAgain(state, wasReady) ==
  [row EXCEPT !.status = ProcessingOf(state),
              !.uploaded = @ \/ state # "pendingupload",
              !.readyAt = @ \/ state = "ready",
              !.unencodable = (@ /\ ~(state = "ready" /\ ~wasReady)) \/ state = "error"]

\* Mutant: an upload that has only begun counts as uploaded.
AppliedUploaded(state, wasReady) ==
  [row EXCEPT !.status = IF state = "ready" /\ wasReady THEN @ ELSE ProcessingOf(state),
              !.uploaded = TRUE, !.readyAt = @ \/ state = "ready"]

\* The row after a report: a ready that repeats one leaves the status alone.
Applied(state, wasReady) ==
  [row EXCEPT !.status = IF state = "ready" /\ wasReady THEN @ ELSE ProcessingOf(state),
              !.uploaded = @ \/ state # "pendingupload",
              !.readyAt = @ \/ state = "ready",
              !.unencodable = (@ /\ ~(state = "ready" /\ ~wasReady)) \/ state = "error"]

\* A finished row that a report older than its encode puts back: the ready that
\* follows is a repeat, and nothing is left to move it on.
Undoes(state) ==
  /\ row.readyAt /\ ~Unfinished /\ ~queued /\ analysing = NoUid
  /\ state \in {"pendingupload", "inprogress"}

\* The update names the row by its id, whichever video it names by now, and
\* whatever became of the video that was reported.
ApplyReport(r) ==
  /\ report[r].stage = "found"
  /\ row' = Applied(report[r].state, report[r].wasReady)
  /\ report' = [report EXCEPT ![r].stage = "applied"]
  /\ crossed' = (\/ crossed \/ row.uid # report[r].uid
                 \/ report[r].state # "pendingupload" /\ stream[report[r].uid].state = "deleted")
  /\ overtaken' = (overtaken \/ Undoes(report[r].state))
  /\ UNCHANGED <<area, stream, webhooks, ask, queued, analysing, runs, faults, restarted>>

Queues(r) == queued' = (queued \/ (report[r].state = "ready" /\ ~report[r].wasReady))

\* The area is done once the bytes arrived, and a first ready is analysed.
FinishReport(r) ==
  /\ report[r].stage = "applied"
  /\ area' = IF report[r].state # "pendingupload" THEN "COMPLETED" ELSE area
  /\ Queues(r)
  /\ report' = [report EXCEPT ![r] = NoReport]
  /\ UNCHANGED <<row, stream, webhooks, ask, analysing, runs, faults, restarted, crossed, overtaken>>

ReportStep(r) == FindRow(r) \/ ApplyReport(r) \/ FinishReport(r)

\* A notification arrives, for the first time or again.
Notified(w) ==
  /\ report["hook"].stage = "idle"
  /\ Reports("hook", w.uid, w.state)
  /\ \/ webhooks' = webhooks \ {w} /\ UNCHANGED faults
     \/ UNCHANGED webhooks /\ Fault
  /\ UNCHANGED <<row, area, stream, ask, queued, analysing, runs, restarted, crossed, overtaken>>

NotificationLost(w) ==
  /\ Fault /\ webhooks' = webhooks \ {w}
  /\ UNCHANGED <<api, stream, restarted, crossed, overtaken>>

\* Mutant: only what is being processed is asked about.
SweepAsksProcessing ==
  /\ report["sweep"].stage = "idle" /\ row.uid # NoUid /\ row.status = "PROCESSING"
  /\ stream[row.uid].state \in Reported
  /\ Reports("sweep", row.uid, stream[row.uid].state)
  /\ UNCHANGED <<row, area, stream, webhooks, ask, queued, analysing, runs, faults, restarted, crossed, overtaken>>

\* reconcileStuckVideos asks about a row that is not finished.
SweepAsks ==
  /\ report["sweep"].stage = "idle" /\ row.uid # NoUid /\ Unfinished
  /\ stream[row.uid].state \in Reported
  /\ Reports("sweep", row.uid, stream[row.uid].state)
  /\ UNCHANGED <<row, area, stream, webhooks, ask, queued, analysing, runs, faults, restarted, crossed, overtaken>>

\* refreshFromStream, for a reviewer who opens a video that is not known ready.
ReviewerAsks ==
  /\ report["sweep"].stage = "idle" /\ row.uid # NoUid /\ ~row.readyAt
  /\ stream[row.uid].state \in Reported /\ Fault
  /\ Reports("sweep", row.uid, stream[row.uid].state)
  /\ UNCHANGED <<row, area, stream, webhooks, ask, queued, analysing, runs, restarted, crossed, overtaken>>

----------------------------------------------------------------------------
(* createUploadSession                                                     *)

GotoAsk(a, stage) == ask' = [ask EXCEPT ![a].stage = stage]
AnswerAsk(a, result) == ask' = [ask EXCEPT ![a].stage = "answer", ![a].result = result]

\* The row of this recording, found by the phone's own key for it.
ReadRow(a) ==
  /\ ask[a].stage = "read"
  /\ ask' = [ask EXCEPT ![a] =
       IF row.uid = NoUid THEN [@ EXCEPT !.stage = "create"]
       ELSE IF row.uploaded THEN [@ EXCEPT !.stage = "answer", !.old = row.uid, !.result = "uploaded"]
       ELSE [@ EXCEPT !.stage = "look", !.old = row.uid]]
  /\ UNCHANGED <<row, area, stream, webhooks, report, queued, analysing, runs, faults, restarted, crossed, overtaken>>

\* deliveredSession: what Cloudflare holds decides, and is applied as a webhook.
LookAtStream(a) ==
  LET u == ask[a].old IN
  /\ ask[a].stage = "look"
  /\ IF Whole(u) THEN GotoAsk(a, "apply") /\ Reports(a, u, stream[u].state)
     ELSE GotoAsk(a, "delete") /\ UNCHANGED report
  /\ UNCHANGED <<row, area, stream, webhooks, queued, analysing, runs, faults, restarted, crossed, overtaken>>

AppliedForAsk(a) ==
  /\ ask[a].stage = "apply" /\ report[a].stage = "idle"
  /\ AnswerAsk(a, "uploaded")
  /\ UNCHANGED <<row, area, stream, webhooks, report, queued, analysing, runs, faults, restarted, crossed, overtaken>>

Gone == [state |-> "deleted", held |-> 0, linked |-> FALSE]

\* renewSession drops the video behind the lapsed link, or fails to; the last chunk
\* may have landed since it was looked at.
DeleteStale(a) ==
  LET u == ask[a].old IN
  /\ ask[a].stage = "delete"
  /\ GotoAsk(a, "create")
  /\ \/ stream' = [stream EXCEPT ![u] = Gone] /\ UNCHANGED faults
     \/ Fault /\ UNCHANGED stream
  /\ crossed' = (crossed \/ row.uid # u \/ row.uploaded)
  /\ UNCHANGED <<row, area, webhooks, report, queued, analysing, runs, restarted, overtaken>>

Unmade == {u \in Uid : stream[u].state = "unmade"}

CreateUpload(a) ==
  /\ ask[a].stage = "create" /\ Unmade # {}
  /\ LET u == CHOOSE x \in Unmade : TRUE IN
       /\ stream' = [stream EXCEPT ![u] = [state |-> "pendingupload", held |-> 0, linked |-> TRUE]]
       /\ ask' = [ask EXCEPT ![a].stage = "write", ![a].new = u]
  /\ UNCHANGED <<row, area, webhooks, report, queued, analysing, runs, faults, restarted, crossed, overtaken>>

RenewedRow(new) == [row EXCEPT !.uid = new, !.uploaded = FALSE]

\* Mutant: a recording asked about again is answered without a link.
WriteRowNoLink(a) ==
  /\ ask[a].stage = "write"
  /\ IF ask[a].old = NoUid
     THEN IF row.uid = NoUid
          THEN /\ row' = [row EXCEPT !.uid = ask[a].new]
               /\ area' = IF area = "PENDING" THEN "RECORDED" ELSE area
               /\ AnswerAsk(a, "link") /\ UNCHANGED crossed
          ELSE AnswerAsk(a, "failed") /\ UNCHANGED <<row, area, crossed>>
     ELSE AnswerAsk(a, "failed") /\ UNCHANGED <<row, area, crossed>>
  /\ UNCHANGED <<stream, webhooks, report, queued, analysing, runs, faults, restarted, overtaken>>

\* The row is created, which the unique key refuses when another handler has, or
\* is pointed at the new video.
WriteRow(a) ==
  /\ ask[a].stage = "write"
  /\ IF ask[a].old = NoUid
     THEN IF row.uid = NoUid
          THEN /\ row' = [row EXCEPT !.uid = ask[a].new]
               /\ area' = IF area = "PENDING" THEN "RECORDED" ELSE area
               /\ AnswerAsk(a, "link") /\ UNCHANGED crossed
          ELSE AnswerAsk(a, "failed") /\ UNCHANGED <<row, area, crossed>>
     ELSE /\ row' = RenewedRow(ask[a].new)
          /\ crossed' = (crossed \/ row.uid # ask[a].old \/ row.uploaded)
          /\ AnswerAsk(a, "link") /\ UNCHANGED area
  /\ UNCHANGED <<stream, webhooks, report, queued, analysing, runs, faults, restarted, overtaken>>

\* A query or a call to Cloudflare fails.
AskFails(a) ==
  /\ ask[a].stage \in {"read", "look", "create", "write"} /\ Fault
  /\ AnswerAsk(a, "failed")
  /\ UNCHANGED <<row, area, stream, webhooks, report, queued, analysing, runs, restarted, crossed, overtaken>>

AskStep(a) == \/ ReadRow(a) \/ LookAtStream(a) \/ AppliedForAsk(a)
              \/ DeleteStale(a) \/ CreateUpload(a) \/ WriteRow(a)

----------------------------------------------------------------------------
(* process(), one at a time per recording                                  *)

\* A queued run begins, unless one is under way or the row is already READY.
ProcessStarts ==
  /\ queued /\ queued' = FALSE
  /\ IF analysing # NoUid \/ row.status = "READY" THEN UNCHANGED <<row, analysing>>
     ELSE analysing' = row.uid /\ row' = [row EXCEPT !.status = "PROCESSING"]
  /\ UNCHANGED <<area, stream, webhooks, report, ask, runs, faults, restarted, crossed, overtaken>>

Analysed == row' = [row EXCEPT !.status = "READY"] /\ UNCHANGED <<faults, runs>>

AnalysisFailed ==
  /\ row' = [row EXCEPT !.status = "FAILED"]
  /\ runs' = IF runs < MaxRuns THEN runs + 1 ELSE runs

\* It needs the encoded video; and a provider may fail it.
ProcessEnds ==
  /\ analysing # NoUid /\ analysing' = NoUid
  /\ \/ stream[analysing].state = "ready" /\ Analysed
     \/ stream[analysing].state # "ready" /\ AnalysisFailed /\ UNCHANGED faults
     \/ stream[analysing].state = "ready" /\ AnalysisFailed /\ Fault
  /\ UNCHANGED <<area, stream, webhooks, report, ask, queued, restarted, crossed, overtaken>>

\* retryFailedAnalysis: only what Cloudflare encoded, and so often.
AnalysisRetried ==
  /\ row.status = "FAILED" /\ row.readyAt /\ ~row.unencodable /\ runs < MaxRuns
  /\ queued' = TRUE
  /\ UNCHANGED <<row, area, stream, webhooks, report, ask, analysing, runs, faults, restarted, crossed, overtaken>>

----------------------------------------------------------------------------
(* Cloudflare                                                              *)

\* The last chunk makes the video whole.
HoldMore(u) ==
  stream' = [stream EXCEPT ![u].held = @ + 1,
                           ![u].state = IF stream[u].held + 1 = Chunks THEN "inprogress" ELSE @]

Encodes(u) ==
  /\ stream[u].state = "inprogress"
  /\ \E state \in {"ready", "error"} :
       /\ state = "error" => Fault
       /\ state = "ready" => UNCHANGED faults
       /\ stream' = [stream EXCEPT ![u].state = state]
       /\ webhooks' = webhooks \union {[uid |-> u, state |-> state]}
  /\ UNCHANGED <<api, restarted, crossed, overtaken>>

LinkLapses(u) ==
  /\ stream[u].state = "pendingupload" /\ stream[u].linked /\ Fault
  /\ stream' = [stream EXCEPT ![u].linked = FALSE]
  /\ UNCHANGED <<api, webhooks, restarted, crossed, overtaken>>

\* onModuleInit takes up every row that is not finished.
BootRecovers == queued' = (row.uid # NoUid /\ Unfinished)

\* The API process ends and starts again: Cloudflare has no 200 for the
\* notification it was handling, and sends it again.
ApiRestarts ==
  /\ Fault /\ restarted' = TRUE
  /\ report' = [r \in Reporter |-> NoReport] /\ ask' = [a \in Ask |-> NoAsk]
  /\ analysing' = NoUid /\ BootRecovers
  /\ webhooks' = webhooks \union
       (IF report["hook"].stage = "idle" THEN {}
        ELSE {[uid |-> report["hook"].uid, state |-> report["hook"].state]})
  /\ UNCHANGED <<row, area, stream, runs, crossed, overtaken>>

----------------------------------------------------------------------------
VideoNext ==
  \/ \E r \in Reporter : ReportStep(r)
  \/ \E w \in webhooks : Notified(w) \/ NotificationLost(w)
  \/ SweepAsks \/ ReviewerAsks
  \/ \E a \in Ask : AskStep(a) \/ AskFails(a)
  \/ ProcessStarts \/ ProcessEnds \/ AnalysisRetried
  \/ \E u \in Uid : Encodes(u) \/ LinkLapses(u)
  \/ ApiRestarts

\* Handlers finish, Cloudflare encodes and notifies, and the sweep runs every
\* five minutes.
VideoFairness ==
  /\ \A r \in Reporter : WF_videoVars(ReportStep(r))
  /\ \A a \in Ask : WF_videoVars(AskStep(a))
  /\ \A u \in Uid : WF_videoVars(Encodes(u))
  /\ WF_videoVars(\E w \in webhooks : Notified(w))
  /\ WF_videoVars(SweepAsks) /\ WF_videoVars(AnalysisRetried)
  /\ WF_videoVars(ProcessStarts) /\ WF_videoVars(ProcessEnds)
====
