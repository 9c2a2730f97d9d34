---- MODULE InspectionLifecycle ----
(***************************************************************************)
(* One inspection from its start in the field to its review, and what      *)
(* Jobber is told of it: technician/technician.service.ts,                 *)
(* admin/admin.service.ts, advanceInspection of media-processing.service,  *)
(* integrations/jobber/jobber.outbound.ts and jobber-outbound.worker.ts.   *)
(*                                                                         *)
(* A handler reads, judges what it read and writes in a later transaction. *)
(* Some writes repeat the judgement in their WHERE clause; most name the   *)
(* row alone.  Recordings are in InspectionVideo; here they are what an    *)
(* area, the submission and the review need of them.                       *)
(***************************************************************************)
EXTENDS Integers, FiniteSets

CONSTANTS Area,
          Field, Office, \* requests under way in the technician's and the office's endpoints
          FromJobber,  \* the visit came from Jobber
          PhotoWillDo, \* the inspection's type lets a photograph stand for a recording
          MaxReopens,  \* bound on reopening and on requests for evidence
          MaxFaults    \* bound on what goes wrong, below MAX_ANALYSIS_ATTEMPTS

Handler == Field \union Office

ASSUME LifecycleAssumption ==
  /\ {FromJobber, PhotoWillDo} \subseteq BOOLEAN /\ {MaxReopens, MaxFaults} \subseteq Nat
  /\ Area # {} /\ Area \intersect Handler = {}

VARIABLES status,   \* the inspection's status
          finalized,\* finalizedAt, which a reopening keeps
          area,     \* completionStatus; RECORDED and UPLOADED count as PENDING
          media,    \* the area's recording
          task,     \* the VISIT_COMPLETED row of the outbox
          worker,   \* the outbox being drained
          told,     \* Jobber has been told the visit is complete
          at,       \* handlers, and the analyses of the areas' recordings
          reopens, faults,
          noAccess, \* history: the last submission said that nobody got in
          asked,    \* history: evidence was requested of a submitted inspection
          lost,     \* history: a call of advanceInspection ended early
          crossed   \* history: a handler wrote over a status it had not read

inspection == <<status, finalized>>
evidence == <<area, media>>
outbox == <<task, worker, told>>
history == <<noAccess, asked, lost, crossed>>
lifecycleVars == <<inspection, evidence, outbox, at, reopens, faults, history>>

Held == {"UNDER_REVIEW", "TBD"}  \* TBD stands for FOLLOW_UP_REQUIRED too
Open == {"SCHEDULED", "IN_PROGRESS"}
Frozen == {"COMPLETED", "CANCELLED"}
Reviewable == {"TECHNICIAN_SUBMITTED", "REVIEW_REQUIRED"} \union Held
Reopenable == Reviewable \union {"COMPLETED"}
Statuses == Open \union Reviewable \union Frozen
Cancellable == Open \union {"TBD"}

AreaStatus == {"PENDING", "COMPLETED", "SKIPPED"}
\* The state of the recording's row; SENT is PENDING with its bytes at Cloudflare, and
\* UNENCODED is FAILED with no video to be analysed again.
Media == {"none", "PENDING", "SENT", "PROCESSING", "READY", "FAILED", "UNENCODED"}
TaskStatus == {"none", "PENDING", "FAILED", "ABANDONED", "SENT"}
Due == {"PENDING", "FAILED"}

Op == {"idle", "record", "change", "submit", "counted", "noAccess", "hold",
       "finalize", "byHand", "cancel", "advance", "advanced"}
AnyArea == CHOOSE a \in Area : TRUE
Idle == [op |-> "idle", area |-> AnyArea, saw |-> "SCHEDULED"]
Caller == Handler \union Area
NoWorker == [stage |-> "idle", gone |-> FALSE]

Done(a) == area[a] \in {"COMPLETED", "SKIPPED"}
Finished(a) == media[a] \notin {"PENDING", "SENT", "PROCESSING"}

LifecycleInit ==
  /\ status = "SCHEDULED" /\ finalized = FALSE
  /\ area = [a \in Area |-> "PENDING"] /\ media = [a \in Area |-> "none"]
  /\ task = "none" /\ worker = NoWorker /\ told = FALSE
  /\ at = [c \in Caller |-> Idle]
  /\ reopens = 0 /\ faults = 0
  /\ noAccess = FALSE /\ asked = FALSE /\ lost = FALSE /\ crossed = FALSE

Fault == faults < MaxFaults /\ faults' = faults + 1
Goes(c, op) == at' = [at EXCEPT ![c].op = op]
Ends(c) == at' = [at EXCEPT ![c] = Idle]

\* A handler has read the status, and goes on because it is one of from.
Judges(h, op, a, from) ==
  /\ at[h] = Idle /\ status \in from
  /\ at' = [at EXCEPT ![h] = [op |-> op, area |-> a, saw |-> status]]

\* A write that names the inspection and nothing it was judged by.
Overwrites(h, to) ==
  /\ status' = to
  /\ crossed' = (crossed \/ status # at[h].saw)

Keeps == UNCHANGED <<evidence, outbox, reopens, faults>>
Unmarked == UNCHANGED <<noAccess, asked, lost>>

----------------------------------------------------------------------------
(* Areas and their recordings                                              *)

NotCancelled == Statuses \ {"CANCELLED"}

\* createUploadSession: a new recording, only while the job is being worked.
RecordingJudged(h, a) ==
  /\ media[a] = "none" /\ Judges(h, "record", a, {"IN_PROGRESS"})
  /\ Keeps /\ UNCHANGED <<inspection, history>>

Becomes(a, to) == media' = [media EXCEPT ![a] = to]

RecordingBegins(h) ==
  /\ at[h].op = "record" /\ Ends(h)
  /\ IF media[at[h].area] = "none" THEN Becomes(at[h].area, "PENDING") ELSE UNCHANGED media
  /\ UNCHANGED <<inspection, area, outbox, reopens, faults, history>>

\* completeRoom wants a recording our row or Cloudflare has, or a photograph.
Completes(a) ==
  /\ status \in NotCancelled
  /\ media[a] \notin {"none", "PENDING"} \/ PhotoWillDo
  /\ area' = [area EXCEPT ![a] = "COMPLETED"]
  /\ UNCHANGED <<inspection, media, outbox, at, reopens, faults, history>>

\* skipRoom asks nothing of the inspection but that it is not cancelled.
Skips(a) ==
  /\ status \in NotCancelled /\ area[a] # "SKIPPED"
  /\ area' = [area EXCEPT ![a] = "SKIPPED"]
  /\ UNCHANGED <<inspection, media, outbox, at, reopens, faults, history>>

\* Mutant: Change Evidence whatever the inspection's status.
ChangeJudgedAnyStatus(h, a) ==
  /\ area[a] = "COMPLETED" /\ ~finalized /\ Judges(h, "change", a, NotCancelled)
  /\ Keeps /\ UNCHANGED <<inspection, history>>

\* reopenRoom (Change Evidence): only while the job is being worked.
ChangeJudged(h, a) ==
  /\ area[a] = "COMPLETED" /\ ~finalized /\ Judges(h, "change", a, {"IN_PROGRESS"})
  /\ Keeps /\ UNCHANGED <<inspection, history>>

Changes(h) ==
  /\ at[h].op = "change" /\ Ends(h)
  /\ area' = [area EXCEPT ![at[h].area] = "PENDING"]
  /\ crossed' = (crossed \/ status # at[h].saw \/ \E g \in Handler : at[g].op = "counted")
  /\ UNCHANGED <<inspection, media, outbox, reopens, faults>> /\ Unmarked

\* The phone's last chunk.
BytesArrive(a) ==
  /\ media[a] = "PENDING" /\ Becomes(a, "SENT")
  /\ UNCHANGED <<inspection, area, outbox, at, reopens, faults, history>>

\* applyWebhook, for a video Cloudflare encoded, could not, or encoded before and
\* reports again: the row, and then the area unless it was skipped.
Reported(a) ==
  /\ \/ media[a] = "SENT" /\ Becomes(a, "PROCESSING") /\ UNCHANGED faults
     \/ media[a] = "SENT" /\ Becomes(a, "UNENCODED") /\ Fault
     \/ media[a] \in {"PROCESSING", "READY", "FAILED"} /\ UNCHANGED media /\ Fault
  /\ area' = IF area[a] = "PENDING" THEN [area EXCEPT ![a] = "COMPLETED"] ELSE area
  /\ UNCHANGED <<inspection, outbox, at, reopens, history>>

\* process() has its outcome; a READY recording may move the inspection on.
Analysed(a) ==
  /\ media[a] = "PROCESSING" /\ at[a] = Idle
  /\ \/ Becomes(a, "READY") /\ Goes(a, "advance") /\ UNCHANGED faults
     \/ Becomes(a, "FAILED") /\ UNCHANGED at /\ Fault
  /\ UNCHANGED <<inspection, area, outbox, reopens, history>>

\* retryFailedAnalysis: what Cloudflare encoded is analysed again.
AnalysisRetried(a) ==
  /\ media[a] = "FAILED" /\ at[a] = Idle
  /\ Becomes(a, "PROCESSING")
  /\ UNCHANGED <<inspection, area, outbox, at, reopens, faults, history>>

----------------------------------------------------------------------------
(* advanceInspection                                                       *)

\* The status and the count are read together.
AdvanceReads(c) ==
  /\ at[c].op = "advance"
  /\ IF status = "TECHNICIAN_SUBMITTED" /\ \A a \in Area : Finished(a) THEN Goes(c, "advanced") ELSE Ends(c)
  /\ Keeps /\ UNCHANGED <<inspection, history>>

\* Mutant: the status is not asked again.
AdvanceWritesUnasked(c) ==
  /\ at[c].op = "advanced" /\ Ends(c)
  /\ status' = "REVIEW_REQUIRED"
  /\ Keeps /\ UNCHANGED <<finalized, history>>

\* The status is asked again by the write itself.
AdvanceWrites(c) ==
  /\ at[c].op = "advanced" /\ Ends(c)
  /\ status' = IF status = "TECHNICIAN_SUBMITTED" THEN "REVIEW_REQUIRED" ELSE status
  /\ Keeps /\ UNCHANGED <<finalized, history>>

----------------------------------------------------------------------------
(* The technician's operations on the inspection                           *)

\* startInspection writes only over SCHEDULED.
Starts ==
  /\ status = "SCHEDULED" /\ status' = "IN_PROGRESS"
  /\ Keeps /\ UNCHANGED <<finalized, at, history>>

\* enqueueJobberCompletion: PostgreSQL gives up the caller's transaction when the
\* unique key refuses the row, though the code catches the error.
Refused == FromJobber /\ task # "none"
Enqueues == task' = IF FromJobber THEN "PENDING" ELSE task
Submits(h) == Overwrites(h, "TECHNICIAN_SUBMITTED") /\ Enqueues

SubmitJudged(h) ==
  /\ Judges(h, "submit", AnyArea, {"IN_PROGRESS"})
  /\ Keeps /\ UNCHANGED <<inspection, history>>

SubmitCounts(h) ==
  /\ at[h].op = "submit"
  /\ IF \A a \in Area : Done(a) THEN Goes(h, "counted") ELSE Ends(h)
  /\ Keeps /\ UNCHANGED <<inspection, history>>

\* Mutant: the recordings that are already analysed move nothing on.
SubmitWritesOnly(h) ==
  /\ at[h].op = "counted" /\ Ends(h)
  /\ IF Refused THEN UNCHANGED <<status, task, noAccess, crossed>>
     ELSE Submits(h) /\ noAccess' = FALSE
  /\ UNCHANGED <<finalized, evidence, worker, told, reopens, faults, asked, lost>>

\* completeInspection's transaction; then it calls advanceInspection.
SubmitWrites(h) ==
  /\ at[h].op = "counted"
  /\ IF Refused THEN Ends(h) /\ UNCHANGED <<status, task, noAccess, crossed>>
     ELSE Submits(h) /\ noAccess' = FALSE /\ Goes(h, "advance")
  /\ UNCHANGED <<finalized, evidence, worker, told, reopens, faults, asked, lost>>

NoAccessJudged(h) ==
  /\ Judges(h, "noAccess", AnyArea, Open)
  /\ Keeps /\ UNCHANGED <<inspection, history>>

NoAccessWrites(h) ==
  /\ at[h].op = "noAccess" /\ Ends(h)
  /\ IF Refused THEN UNCHANGED <<status, task, noAccess, crossed>>
     ELSE Submits(h) /\ noAccess' = TRUE
  /\ UNCHANGED <<finalized, evidence, worker, told, reopens, faults, asked, lost>>

----------------------------------------------------------------------------
(* The office's operations                                                 *)

OfficeJudged(h) ==
  /\ \/ Judges(h, "hold", AnyArea, Reviewable)
     \/ Judges(h, "finalize", AnyArea, Reviewable)
     \/ Judges(h, "byHand", AnyArea, Statuses \ Frozen)
     \/ Judges(h, "cancel", AnyArea, Cancellable)
  /\ Keeps /\ UNCHANGED <<inspection, history>>

\* transitionReview
Holds(h) ==
  /\ at[h].op = "hold" /\ Ends(h)
  /\ \E to \in Held : Overwrites(h, to)
  /\ Keeps /\ UNCHANGED finalized /\ Unmarked

Finalizes(h) ==
  /\ at[h].op = "finalize" /\ Ends(h)
  /\ IF Refused THEN UNCHANGED <<inspection, task, crossed>>
     ELSE Overwrites(h, "COMPLETED") /\ finalized' = TRUE /\ Enqueues
  /\ UNCHANGED <<evidence, worker, told, reopens, faults>> /\ Unmarked

\* The office's own completeInspection
ClosesByHand(h) ==
  /\ at[h].op = "byHand" /\ Ends(h)
  /\ Overwrites(h, "COMPLETED")
  /\ Keeps /\ UNCHANGED finalized /\ Unmarked

\* updateInspection with the status CANCELLED
Cancels(h) ==
  /\ at[h].op = "cancel" /\ Ends(h)
  /\ Overwrites(h, "CANCELLED")
  /\ Keeps /\ UNCHANGED finalized /\ Unmarked

GoesBack ==
  /\ status \in Reopenable /\ status' = "IN_PROGRESS" /\ UNCHANGED finalized
  /\ reopens < MaxReopens /\ reopens' = reopens + 1

\* Mutant: what was not sent yet is still sent.
ReopensOnly == GoesBack /\ UNCHANGED <<evidence, outbox, at, faults, history>>

\* reopenInspection asks the status again, and withdraws what was not sent yet.
Reopens ==
  /\ GoesBack
  /\ IF task \in Due THEN task' = "none" /\ worker' = [worker EXCEPT !.gone = TRUE]
     ELSE UNCHANGED <<task, worker>>
  /\ UNCHANGED <<evidence, told, at, faults, history>>

\* createEvidenceRequest asks it again too, and withdraws nothing.
RequestsEvidence ==
  /\ GoesBack /\ asked' = TRUE
  /\ UNCHANGED <<evidence, outbox, at, faults, noAccess, lost, crossed>>

----------------------------------------------------------------------------
(* The outbox worker                                                       *)

WorkerReads ==
  /\ worker.stage = "idle" /\ task \in Due
  /\ worker' = [stage |-> "read", gone |-> FALSE]
  /\ UNCHANGED <<inspection, evidence, task, told, at, reopens, faults, history>>

\* The task is sent as it was read; the answer may be an error or never come.
WorkerSends ==
  /\ worker.stage = "read"
  /\ \/ told' = TRUE /\ worker' = [worker EXCEPT !.stage = "sent"] /\ UNCHANGED faults
     \/ told' \in {told, TRUE} /\ worker' = [worker EXCEPT !.stage = "failed"] /\ Fault
  /\ UNCHANGED <<inspection, evidence, task, at, reopens, history>>

\* Mutant: a failed attempt counts as sent.
WorkerMarksSent ==
  /\ worker.stage \in {"sent", "failed"} /\ worker' = NoWorker
  /\ task' = IF worker.gone THEN task ELSE "SENT"
  /\ UNCHANGED <<inspection, evidence, told, at, reopens, faults, history>>

\* Mutant: a failed attempt is left in a status that nothing drains.
WorkerMarksRetrying ==
  /\ worker.stage \in {"sent", "failed"} /\ worker' = NoWorker
  /\ task' = IF worker.gone THEN task ELSE IF worker.stage = "sent" THEN "SENT" ELSE "RETRYING"
  /\ UNCHANGED <<inspection, evidence, told, at, reopens, faults, history>>

\* mark(): a row that was withdrawn is not there to be marked, and the sixth
\* failure, or one that cannot be cured, is the last.
WorkerMarks ==
  /\ worker.stage \in {"sent", "failed"} /\ worker' = NoWorker
  /\ IF worker.gone THEN UNCHANGED task
     ELSE IF worker.stage = "sent" THEN task' = "SENT"
     ELSE task' \in {"FAILED", "ABANDONED"}
  /\ UNCHANGED <<inspection, evidence, told, at, reopens, faults, history>>

----------------------------------------------------------------------------
(* A query fails, or the API restarts                                      *)

\* process() takes a failure of advanceInspection for one of the analysis.
HandlerFails(c) ==
  /\ at[c].op # "idle" /\ Fault /\ Ends(c)
  /\ \/ /\ c \in Area
        /\ Becomes(c, "FAILED")
        /\ UNCHANGED lost
     \/ /\ UNCHANGED media
        /\ lost' = (lost \/ at[c].op \in {"advance", "advanced"})
  /\ UNCHANGED <<inspection, area, outbox, reopens, noAccess, asked, crossed>>

WorkerFails ==
  /\ worker.stage # "idle" /\ Fault /\ worker' = NoWorker
  /\ UNCHANGED <<inspection, evidence, task, told, at, reopens, history>>

----------------------------------------------------------------------------
FieldStep(h) ==
  RecordingBegins(h) \/ Changes(h) \/ SubmitCounts(h) \/ SubmitWrites(h) \/ NoAccessWrites(h)

OfficeStep(h) == Holds(h) \/ Finalizes(h) \/ ClosesByHand(h) \/ Cancels(h)

HandlerStep(c) ==
  \/ AdvanceReads(c) \/ AdvanceWrites(c)
  \/ c \in Field /\ FieldStep(c)
  \/ c \in Office /\ OfficeStep(c)

WorkerStep == WorkerReads \/ WorkerSends \/ WorkerMarks

LifecycleNext ==
  \/ \E h \in Field : SubmitJudged(h) \/ NoAccessJudged(h)
  \/ \E h \in Field, a \in Area : RecordingJudged(h, a) \/ ChangeJudged(h, a)
  \/ \E h \in Office : OfficeJudged(h)
  \/ \E c \in Caller : HandlerStep(c) \/ HandlerFails(c)
  \/ \E a \in Area : Completes(a) \/ Skips(a) \/ BytesArrive(a) \/ Reported(a)
                     \/ Analysed(a) \/ AnalysisRetried(a)
  \/ Starts \/ Reopens \/ RequestsEvidence
  \/ WorkerStep \/ WorkerFails

LifecycleSafety == LifecycleInit /\ [][LifecycleNext]_lifecycleVars

\* What has begun goes on, the sweep retries, and the outbox is drained every
\* five minutes.  Nobody has to submit, review or reopen anything.
LifecycleSpec ==
  /\ LifecycleSafety
  /\ \A c \in Caller : WF_lifecycleVars(HandlerStep(c))
  /\ \A a \in Area : WF_lifecycleVars(Analysed(a)) /\ WF_lifecycleVars(AnalysisRetried(a))
  /\ WF_lifecycleVars(WorkerStep)

----------------------------------------------------------------------------
\* What the inspection, its areas and recordings, the outbox and the handlers may hold.
LifecycleTypeOK ==
  /\ status \in Statuses /\ {finalized, told} \subseteq BOOLEAN
  /\ area \in [Area -> AreaStatus] /\ media \in [Area -> Media]
  /\ task \in TaskStatus /\ (~FromJobber => task = "none")
  /\ worker \in [stage : {"idle", "read", "sent", "failed"}, gone : BOOLEAN]
  /\ at \in [Caller -> [op : Op, area : Area, saw : Statuses]]
  /\ \A a \in Area : at[a].op \in {"idle", "advance", "advanced"}
  /\ reopens \in 0..MaxReopens /\ faults \in 0..MaxFaults
  /\ {noAccess, asked, lost, crossed} \subseteq BOOLEAN

\* A job that was walked and submitted has every area done, whatever areas were
\* skipped, changed or completed late, as long as no handler wrote over a status it
\* had not read or put back an area a submission had counted (completeInspection
\* and reopenRoom of technician.service.ts).
WalkedMeansDone ==
  status \in {"TECHNICIAN_SUBMITTED", "REVIEW_REQUIRED"} /\ ~noAccess /\ ~crossed
  => \A a \in Area : Done(a)

\* The moves docs/architecture/INSPECTION_LIFECYCLE.md and the handlers' refusals allow.
Legal ==
  {"SCHEDULED"} \X {"IN_PROGRESS"} \union Open \X {"TECHNICIAN_SUBMITTED"}
  \union {"TECHNICIAN_SUBMITTED"} \X {"REVIEW_REQUIRED"}
  \union Reviewable \X Held \union (Statuses \ Frozen) \X {"COMPLETED"}
  \union Cancellable \X {"CANCELLED"} \union Reopenable \X {"IN_PROGRESS"}

\* However the technician, the office and the analyses overlap, the status makes no
\* other move, as long as no handler wrote over a status it had not read: a late
\* analysis never takes a reopened job from the technician (advanceInspection).
LegalMoves ==
  [][status' # status /\ ~crossed' => <<status, status'>> \in Legal]_lifecycleVars

\* Jobber is owed a completion only of a visit that has happened: a reopened one is
\* withdrawn, unless it was sent back by a request for evidence, or a handler wrote
\* over a status it had not read, or put back an area a submission had counted
\* (reopenInspection, and crossed).
OwedOnlyWhenDone == task \in Due => status \notin Open \/ asked \/ crossed

\* A submission reaches Jobber, through failed attempts, lost answers and a worker
\* that ends half-way, unless it is withdrawn or given up (jobber-outbound.worker.ts).
JobberHears ==
  (FromJobber /\ status = "TECHNICIAN_SUBMITTED") ~> (told \/ status \in Open \/ task = "ABANDONED")

Processed == \A a \in Area : Finished(a)
AwaitsReview == status = "TECHNICIAN_SUBMITTED" /\ Processed

Unencoded == \E a \in Area : media[a] = "UNENCODED"

\* "The AI pipeline advances TECHNICIAN_SUBMITTED ... to REVIEW_REQUIRED once every
\* recording has finished" (docs/architecture/INSPECTION_LIFECYCLE.md), whichever of
\* submission and analyses ends last, unless the last step was cut short or a video
\* could not be encoded; a visit nobody got into has nothing to review.
ReviewReached ==
  AwaitsReview ~> (status # "TECHNICIAN_SUBMITTED" \/ noAccess \/ lost \/ Unencoded)

\* A submission that was judged complete is taken, also of a job that was reopened
\* after Jobber was told: "the unique constraint keeps the next submission from
\* sending it twice" (reopenInspection).
SubmissionTaken ==
  [][\A h \in Handler : at[h].op = "counted" /\ at'[h] = Idle => faults' # faults]_lifecycleVars
====
