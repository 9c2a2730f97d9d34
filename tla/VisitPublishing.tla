---------------------------- MODULE VisitPublishing ----------------------------
(***************************************************************************)
(* One visit of a quarter, on its way into Jobber's calendar and back.     *)
(*                                                                         *)
(* A stop of a quarter plan (TbpQuarterPlanStop) is published: with a day  *)
(* it becomes an inspection and a visit booked in Jobber, without one it   *)
(* goes to Jobber's Unscheduled list (tbp-publish.service.ts).  The office *)
(* edits, reschedules and unschedules it here (tbp-stop-edit.service.ts,   *)
(* admin.service.ts, tbp-unschedule.service.ts) or gives it a day in       *)
(* Jobber.  What Jobber is owed is a row of its outbox, written with the   *)
(* change and sent later (jobber-outbound.worker.ts); what Jobber holds    *)
(* comes back one visit at a time (jobber-sync.worker.ts).                 *)
(*                                                                         *)
(* Nothing spans the two systems: each request, the worker and a sync read,*)
(* await and write, and Jobber cannot be asked whether a lost call arrived.*)
(*                                                                         *)
(* Left out: technicians, titles, details and times of day, jobs apart     *)
(* from their visit, started and finished inspections, visits deleted in   *)
(* Jobber, the switches that turn pushing and booking off, and two runs of *)
(* the worker or of a sync at once (a person's beside the scheduler's).    *)
(***************************************************************************)
EXTENDS Integers, FiniteSets

CONSTANTS
    Coordinator,     \* requests of the office that may be under way together
    MaxDay,          \* days of the quarter
    MaxInspections,  \* bound on the inspections ever made
    MaxVisits,       \* bound on the visits ever made in Jobber
    MaxDecisions,    \* bound on what people decide
    MaxFaults        \* bound on what goes wrong

ASSUME PublishingAssumption ==
    /\ {MaxDay, MaxInspections, MaxVisits} \subseteq Nat \ {0}
    /\ {MaxDecisions, MaxFaults} \subseteq Nat

Day == 1 .. MaxDay
NoDay == 0
Inspection == 1 .. MaxInspections
Visit == 1 .. MaxVisits
None == 0
Unseen == -1

VARIABLES
    plan,      \* TbpQuarterPlan.status
    stop,      \* the plan's stop
    insp,      \* inspections, each with its booking and its reschedule in the outbox
    listing,   \* the stop's TBP_JOB_UNSCHEDULED row
    leaving,   \* the stop's TBP_VISIT_UNSCHEDULE row
    import,    \* JobberVisitImport, by visit
    visit,     \* Jobber's visits
    office,    \* requests under way
    worker,    \* the outbound worker
    syncer,    \* the sync of one visit
    decisions, \* what people have decided so far
    faults,    \* what has gone wrong so far
    wanted,    \* history: the day decided last, by the office or in Jobber
    crossed,   \* history: rows have changed under somebody who had read them
    history    \* history: what else a calendar cannot recover from

console == <<plan, stop, insp, listing, leaving, import>>
counters == <<decisions, faults>>
vars == <<console, visit, office, worker, syncer, counters, wanted, crossed, history>>

PlanStatus == {"DRAFT", "PUBLISHING", "PUBLISHED", "PUBLISH_FAILED"}
StopStatus == {"PLANNED", "UNSCHEDULED", "PUBLISHED", "FAILED"}
TaskStatus == {"none", "due", "SENT", "ABANDONED"}

(* A row of the outbox that is PENDING or FAILED is due.  It is deleted    *)
(* with its inspection.                                                    *)
Unmade == [state |-> "unmade", day |-> NoDay, visit |-> None, book |-> "none", move |-> "none"]
Erased == [Unmade EXCEPT !.state = "erased"]
NoRow == [status |-> "none", insp |-> None, seen |-> Unseen]
NoVisit == [state |-> "unmade", day |-> NoDay]

NoRequest == [stage |-> "idle", publishing |-> FALSE, waited |-> FALSE, failed |-> FALSE,
              day |-> NoDay, visit |-> None, insp |-> None]
NoWork == [stage |-> "idle", task |-> "list", insp |-> None, old |-> None, new |-> None,
           day |-> NoDay, rearmed |-> FALSE]
NoSync == [stage |-> "idle", visit |-> None, day |-> NoDay, insp |-> None]

Happened == {"lost", "unmarked", "torn", "dropped", "replaced", "given", "listed"}

PublishingInit ==
    /\ plan = "DRAFT"
    /\ stop \in [status : {"PLANNED"}, day : {NoDay, 1}, visit : {None}, insp : {None}]
    /\ insp = [i \in Inspection |-> Unmade]
    /\ listing = "none"
    /\ leaving = [status |-> "none", visit |-> None]
    /\ import = [v \in Visit |-> NoRow]
    /\ visit = [v \in Visit |-> NoVisit]
    /\ office = [c \in Coordinator |-> NoRequest]
    /\ worker = NoWork
    /\ syncer = NoSync
    /\ decisions = 0 /\ faults = 0
    /\ wanted = Unseen /\ crossed = FALSE /\ history = {}

-----------------------------------------------------------------------------
Made(i) == i # None /\ insp[i].state = "scheduled"
Live(v) == v # None /\ visit[v].state = "live"
Scheduled == {i \in Inspection : Made(i)}

(* Inspection_scheduled_booking_key and the unique jobberVisitId.          *)
OnDay(d) == {i \in Scheduled : insp[i].day = d}
OfVisit(v) == {i \in Scheduled : insp[i].visit = v /\ v # None}

NextInspection == {i \in Inspection : insp[i].state = "unmade" /\ \A j \in 1 .. i - 1 : insp[j].state # "unmade"}
NextVisit == {v \in Visit : visit[v].state = "unmade" /\ \A w \in 1 .. v - 1 : visit[w].state # "unmade"}

Decides == decisions < MaxDecisions /\ decisions' = decisions + 1
Fault == faults < MaxFaults /\ faults' = faults + 1

\* Mutant: a stop taken off its day keeps the inspection it had.
KeepsItsInspection(status, v) == [stop EXCEPT !.status = status, !.day = NoDay, !.visit = v]

(* OFF_ITS_DAY: all that a stop taken off its day loses.                   *)
OffItsDay(status, v) == [status |-> status, day |-> NoDay, visit |-> v, insp |-> None]

(* moveStopWithVisit, in the caller's transaction.                         *)
StopFollows(i, d) == stop' = IF stop.insp = i THEN [stop EXCEPT !.day = d] ELSE stop

-----------------------------------------------------------------------------
(* The office: publishing.                                                 *)
Editable == plan \in {"DRAFT", "PUBLISHED", "PUBLISH_FAILED"}

OfficeOnly == UNCHANGED <<visit, worker, syncer, faults>>
Request(c, r) == office' = [office EXCEPT ![c] = r]

(* One stop has been dealt with: the publish reads its batch again, a stop *)
(* placed by itself is all there was.                                      *)
StopDone(c, outcome) ==
    Request(c, IF office[c].publishing
               THEN [NoRequest EXCEPT !.stage = "batch", !.publishing = TRUE,
                                      !.waited = office[c].waited \/ outcome = "WAITING",
                                      !.failed = office[c].failed \/ outcome = "FAILED"]
               ELSE NoRequest)

Claim(c) ==
    /\ office[c] = NoRequest /\ Decides
    /\ Editable
    /\ plan' = "PUBLISHING"
    /\ stop' = IF stop.status = "FAILED" /\ stop.insp = None THEN [stop EXCEPT !.status = "PLANNED"] ELSE stop
    /\ Request(c, [NoRequest EXCEPT !.stage = "batch", !.publishing = TRUE])
    /\ UNCHANGED <<insp, listing, leaving, import, history>>
    /\ OfficeOnly

Publishable(c) ==
    /\ stop.insp = None /\ ~office[c].waited
    /\ stop.status = "PLANNED" \/ (stop.status = "UNSCHEDULED" /\ stop.day # NoDay)

ReadBatch(c) ==
    /\ office[c].stage = "batch" /\ Publishable(c)
    /\ Request(c, [office[c] EXCEPT !.stage = IF stop.day # NoDay THEN "ask" ELSE "queue",
                                    !.day = stop.day, !.visit = stop.visit])
    /\ UNCHANGED <<console, decisions, history>>
    /\ OfficeOnly

FinishPlan(c) ==
    /\ office[c].stage = "batch" /\ ~Publishable(c)
    /\ plan' = IF office[c].failed THEN "PUBLISH_FAILED" ELSE "PUBLISHED"
    /\ Request(c, NoRequest)
    /\ UNCHANGED <<stop, insp, listing, leaving, import, decisions, history>>
    /\ OfficeOnly

(* queueUnscheduled.  A row of an earlier publish refuses the second one   *)
(* (P2002), and the stop is marked all the same.                           *)
QueueUnscheduled(c) ==
    /\ office[c].stage = "queue"
    /\ stop' = [stop EXCEPT !.status = "UNSCHEDULED"]
    /\ listing' = IF office[c].visit # None \/ leaving.status \in {"due", "ABANDONED"} \/ listing # "none"
                  THEN listing ELSE "due"
    /\ StopDone(c, "UNSCHEDULED")
    /\ UNCHANGED <<plan, insp, leaving, import, decisions, history>>
    /\ OfficeOnly

(* publishStop: still on its way to the Unscheduled list.                  *)
StopWaits(c) ==
    /\ office[c].stage = "ask" /\ leaving.status = "due"
    /\ StopDone(c, "WAITING")
    /\ UNCHANGED <<console, decisions, history>>
    /\ OfficeOnly

(* publishStop: it never got there, and is tried again.                    *)
StopTriedAgain(c) ==
    /\ office[c].stage = "ask" /\ leaving.status = "ABANDONED"
    /\ leaving' = [leaving EXCEPT !.status = "due"]
    /\ stop' = [stop EXCEPT !.status = "FAILED"]
    /\ StopDone(c, "FAILED")
    /\ UNCHANGED <<plan, insp, listing, import, decisions, history>>
    /\ OfficeOnly

(* publishStop: given its day in Jobber first, and imported.               *)
AdoptImported(c) ==
    /\ office[c].stage = "ask" /\ leaving.status \notin {"due", "ABANDONED"}
    /\ \E i \in OfVisit(office[c].visit) : stop' = [stop EXCEPT !.status = "PUBLISHED", !.insp = i]
    /\ StopDone(c, "ADOPTED")
    /\ UNCHANGED <<plan, insp, listing, leaving, import, decisions, history>>
    /\ OfficeOnly

StopAsked(c) ==
    /\ office[c].stage = "ask" /\ leaving.status \notin {"due", "ABANDONED"}
    /\ OfVisit(office[c].visit) = {}
    /\ Request(c, [office[c] EXCEPT !.stage = "create"])
    /\ UNCHANGED <<console, decisions, history>>
    /\ OfficeOnly

(* publishStop's transaction: the inspection, and either a booking or, for *)
(* a visit Jobber has, the link to it and the push of its day.             *)
StillListed == history' = IF listing = "due" THEN history \cup {"listed"} ELSE history

NewlyMade(r) ==
    [state |-> "scheduled", day |-> r.day, visit |-> r.visit,
     book |-> IF r.visit = None THEN "due" ELSE "none",
     move |-> IF r.visit = None THEN "none" ELSE "due"]

MakeInspection(c) ==
    LET r == office[c] IN
    /\ r.stage = "create" /\ OnDay(r.day) \cup OfVisit(r.visit) = {}
    /\ \E i \in NextInspection :
          /\ insp' = [insp EXCEPT ![i] = NewlyMade(r)]
          /\ import' = IF r.visit = None THEN import
                       ELSE [import EXCEPT ![r.visit].status = "IMPORTED", ![r.visit].insp = i]
          /\ stop' = [stop EXCEPT !.status = "PUBLISHED", !.insp = i]
    /\ StopDone(c, "PUBLISHED")
    /\ UNCHANGED <<plan, listing, leaving, decisions>>
    /\ StillListed
    /\ OfficeOnly

(* adoptable: the inspection this one collided with.                       *)
AdoptExisting(c) ==
    /\ office[c].stage = "create"
    /\ \E i \in OnDay(office[c].day) : stop' = [stop EXCEPT !.status = "PUBLISHED", !.insp = i]
    /\ StopDone(c, "ADOPTED")
    /\ UNCHANGED <<plan, insp, listing, leaving, import, decisions>>
    /\ StillListed
    /\ OfficeOnly

StopFails(c) ==
    LET r == office[c] IN
    /\ r.stage = "create" /\ OnDay(r.day) = {} /\ OfVisit(r.visit) # {}
    /\ stop' = [stop EXCEPT !.status = "FAILED"]
    /\ StopDone(c, "FAILED")
    /\ UNCHANGED <<plan, insp, listing, leaving, import, decisions, history>>
    /\ OfficeOnly

-----------------------------------------------------------------------------
(* The office: one visit changed by hand.                                  *)

(* TbpStopEditService.edit on a stop with no inspection: judged, awaited,  *)
(* written, and on a published plan given to placeOne.                     *)
EditStop(c, d) ==
    /\ office[c] = NoRequest /\ Decides
    /\ Editable /\ stop.insp = None /\ stop.status # "PUBLISHED" /\ d # stop.day
    /\ Request(c, [NoRequest EXCEPT !.stage = IF plan = "DRAFT" THEN "draft" ELSE "edit", !.day = d])
    /\ UNCHANGED <<console, history>>
    /\ OfficeOnly

EditWrites(c) ==
    /\ office[c].stage \in {"draft", "edit"}
    /\ stop' = [stop EXCEPT !.day = office[c].day]
    /\ Request(c, IF office[c].stage = "draft" THEN NoRequest ELSE [office[c] EXCEPT !.stage = "place"])
    /\ UNCHANGED <<plan, insp, listing, leaving, import, decisions, history>>
    /\ OfficeOnly

PlaceOne(c) ==
    /\ office[c].stage = "place"
    /\ IF stop.insp # None \/ stop.day = NoDay
       THEN Request(c, NoRequest)
       ELSE Request(c, [office[c] EXCEPT !.stage = "unlist", !.day = stop.day, !.visit = stop.visit])
    /\ UNCHANGED <<console, decisions, history>>
    /\ OfficeOnly

Unlist(c) ==
    /\ office[c].stage = "unlist"
    /\ listing' = IF listing = "due" THEN "none" ELSE listing
    /\ Request(c, [office[c] EXCEPT !.stage = "ask"])
    /\ UNCHANGED <<plan, stop, insp, leaving, import, decisions, history>>
    /\ OfficeOnly

(* updateInspection with another day.                                      *)
Reschedule(c, d) ==
    /\ office[c] = NoRequest /\ Decides
    /\ Made(stop.insp) /\ insp[stop.insp].day # d
    /\ Request(c, [NoRequest EXCEPT !.stage = "move", !.day = d, !.insp = stop.insp,
                                    !.visit = insp[stop.insp].visit])
    /\ UNCHANGED <<console, history>>
    /\ OfficeOnly

RescheduleWrites(c) ==
    LET r == office[c]
        pushes == r.visit # None
    IN  /\ r.stage = "move" /\ Made(r.insp) /\ OnDay(r.day) \ {r.insp} = {}
        /\ insp' = [insp EXCEPT ![r.insp].day = r.day, ![r.insp].move = IF pushes THEN "due" ELSE @]
        /\ worker' = IF pushes /\ worker.task = "move" /\ worker.insp = r.insp
                     THEN [worker EXCEPT !.rearmed = TRUE] ELSE worker
        /\ StopFollows(r.insp, r.day)
        /\ Request(c, NoRequest)
        /\ UNCHANGED <<plan, listing, leaving, import, visit, syncer, counters, history>>

RescheduleRefused(c) ==
    LET r == office[c] IN
    /\ r.stage = "move" /\ (~Made(r.insp) \/ OnDay(r.day) \ {r.insp} # {})
    /\ Request(c, NoRequest)
    /\ UNCHANGED <<console, decisions, history>>
    /\ OfficeOnly

(* TbpUnscheduleService: sorted(), then unscheduleBooked in a transaction. *)
Unschedule(c) ==
    /\ office[c] = NoRequest /\ Decides
    /\ Editable /\ Made(stop.insp)
    /\ Request(c, [NoRequest EXCEPT !.stage = "unschedule", !.insp = stop.insp,
                                    !.visit = insp[stop.insp].visit])
    /\ UNCHANGED <<console, history>>
    /\ OfficeOnly

UnscheduleBooked(c) ==
    LET r == office[c]
        inJobber == r.visit # None
    IN  /\ r.stage = "unschedule" /\ Made(r.insp)
        /\ insp' = [insp EXCEPT ![r.insp] = Erased]
        /\ stop' = OffItsDay(IF inJobber THEN "UNSCHEDULED" ELSE "PLANNED", None)
        /\ leaving' = IF inJobber THEN [status |-> "due", visit |-> r.visit] ELSE leaving
        /\ import' = IF inJobber /\ import[r.visit].status # "none"
                     THEN [import EXCEPT ![r.visit].status = "IGNORED", ![r.visit].insp = None]
                     ELSE import
        /\ history' = IF inJobber /\ leaving.status \in {"due", "ABANDONED"} /\ leaving.visit # r.visit
                      THEN history \cup {"replaced"} ELSE history
        /\ Request(c, NoRequest)
        /\ UNCHANGED <<plan, listing, decisions>>
        /\ OfficeOnly

UnscheduleRefused(c) ==
    /\ office[c].stage = "unschedule" /\ ~Made(office[c].insp)
    /\ Request(c, NoRequest)
    /\ UNCHANGED <<console, decisions, history>>
    /\ OfficeOnly

(* The same, for a stop that was never booked.                             *)
ClearDay(c) ==
    /\ office[c] = NoRequest /\ Decides
    /\ Editable /\ stop.insp = None /\ stop.day # NoDay
    /\ Request(c, [NoRequest EXCEPT !.stage = "clear"])
    /\ UNCHANGED <<console, history>>
    /\ OfficeOnly

DayCleared(c) ==
    /\ office[c].stage = "clear"
    /\ stop' = IF stop.insp = None THEN [stop EXCEPT !.day = NoDay] ELSE stop
    /\ Request(c, NoRequest)
    /\ UNCHANGED <<plan, insp, listing, leaving, import, decisions, history>>
    /\ OfficeOnly

OfficeDecides(c) ==
    \/ Claim(c) \/ Unschedule(c) \/ ClearDay(c)
    \/ \E d \in Day : EditStop(c, d) \/ Reschedule(c, d)

OfficeGoesOn(c) ==
    \/ ReadBatch(c) \/ FinishPlan(c) \/ QueueUnscheduled(c)
    \/ StopWaits(c) \/ StopTriedAgain(c) \/ AdoptImported(c) \/ StopAsked(c)
    \/ MakeInspection(c) \/ AdoptExisting(c) \/ StopFails(c)
    \/ EditWrites(c) \/ PlaceOne(c) \/ Unlist(c)
    \/ RescheduleWrites(c) \/ RescheduleRefused(c)
    \/ UnscheduleBooked(c) \/ UnscheduleRefused(c) \/ DayCleared(c)

-----------------------------------------------------------------------------
(* The outbound worker.  A run takes its batch in order: one due row at a  *)
(* time.                                                                   *)
WorkerOnly == UNCHANGED <<office, syncer, decisions>>
Works(stage) == worker' = [worker EXCEPT !.stage = stage]

DueWork ==
    {w \in {[NoWork EXCEPT !.stage = "read", !.task = "list"]} : listing = "due"}
    \cup {w \in {[NoWork EXCEPT !.stage = "read", !.task = "leave", !.old = leaving.visit]} : leaving.status = "due"}
    \cup {[NoWork EXCEPT !.stage = "read", !.task = "book", !.insp = i] : i \in {i \in Scheduled : insp[i].book = "due"}}
    \cup {[NoWork EXCEPT !.stage = "read", !.task = "move", !.insp = i, !.old = insp[i].visit] :
              i \in {i \in Scheduled : insp[i].move = "due"}}

Pick ==
    /\ worker.stage = "idle"
    /\ worker' \in DueWork
    /\ UNCHANGED <<console, visit, faults, history>>
    /\ WorkerOnly

(* bookUnscheduledJob.  A stop that has been given a day meanwhile is left *)
(* to "the ordinary booking", and the row is marked sent.                  *)
ListReads ==
    /\ worker.stage = "read" /\ worker.task = "list"
    /\ IF stop.insp = None /\ stop.status = "UNSCHEDULED"
       THEN Works("create") /\ UNCHANGED history
       ELSE Works("sent") /\ history' = IF stop.insp = None THEN history \cup {"dropped"} ELSE history
    /\ UNCHANGED <<console, visit, faults>>
    /\ WorkerOnly

(* unscheduleVisit: a stop that has its new visit only loses the old one.  *)
LeaveReads ==
    /\ worker.stage = "read" /\ worker.task = "leave"
    /\ Works(IF stop.visit \in {None, worker.old} THEN "create" ELSE "delete")
    /\ UNCHANGED <<console, visit, faults, history>>
    /\ WorkerOnly

\* Mutant: the row is asked, not the inspection, whether the visit was booked.
BookedByTask(i) == insp[i].book = "SENT"

(* The inspection's own jobberVisitId, read again before Jobber is called. *)
BookedAlready(i) == insp[i].visit # None

(* bookVisit: the day is read when it is sent.                             *)
BookReads ==
    LET i == worker.insp IN
    /\ worker.stage = "read" /\ worker.task = "book"
    /\ worker' = [worker EXCEPT !.day = insp[i].day,
                                !.stage = IF stop.insp # i \/ ~Made(i) THEN "failed"
                                          ELSE IF BookedAlready(i) THEN "sent" ELSE "create"]
    /\ UNCHANGED <<console, visit, faults, history>>
    /\ WorkerOnly

(* pushSchedule.                                                           *)
MoveReads ==
    /\ worker.stage = "read" /\ worker.task = "move"
    /\ worker' = [worker EXCEPT !.day = insp[worker.insp].day,
                                !.stage = IF Made(worker.insp) THEN "push" ELSE "failed"]
    /\ UNCHANGED <<console, visit, faults, history>>
    /\ WorkerOnly

CreateVisit ==
    /\ worker.stage = "create"
    /\ \E v \in NextVisit :
          /\ visit' = [visit EXCEPT ![v] = [state |-> "live", day |-> worker.day]]
          /\ worker' = [worker EXCEPT !.stage = "write", !.new = v]
    /\ UNCHANGED <<console, faults, history>>
    /\ WorkerOnly

(* The visit is made and the answer lost.                                  *)
CreateUnheard ==
    /\ worker.stage = "create" /\ Fault
    /\ \E v \in NextVisit : visit' = [visit EXCEPT ![v] = [state |-> "live", day |-> worker.day]]
    /\ Works("failed")
    /\ history' = history \cup {"lost"}
    /\ UNCHANGED console
    /\ WorkerOnly

PushDay ==
    /\ worker.stage = "push"
    /\ visit' = IF Live(worker.old) THEN [visit EXCEPT ![worker.old].day = worker.day] ELSE visit
    /\ \/ Works(IF Live(worker.old) THEN "sent" ELSE "failed") /\ UNCHANGED faults
       \/ Works("failed") /\ Fault
    /\ UNCHANGED <<console, history>>
    /\ WorkerOnly

DeleteVisit ==
    /\ worker.stage = "delete"
    /\ visit' = [visit EXCEPT ![worker.old].state = "deleted"]
    /\ \/ Works("sent") /\ UNCHANGED faults
       \/ Works("failed") /\ Fault
    /\ UNCHANGED <<console, history>>
    /\ WorkerOnly

CallFails ==
    /\ worker.stage \in {"create", "push", "delete"}
    /\ Fault /\ Works("failed")
    /\ UNCHANGED <<console, visit, history>>
    /\ WorkerOnly

(* createUnscheduledVisitInJobber's and unscheduleVisit's last write.  A   *)
(* row that is gone refuses it, and the run ends.                          *)
VisitOnStop ==
    /\ worker.stage = "write" /\ worker.task \in {"list", "leave"}
    /\ IF worker.task = "list" /\ listing = "none"
       THEN worker' = NoWork /\ UNCHANGED stop
       ELSE /\ stop' = [stop EXCEPT !.visit = worker.new]
            /\ Works(IF worker.task = "list" THEN "sent" ELSE "delete")
    /\ UNCHANGED <<plan, insp, listing, leaving, import, visit, faults, history>>
    /\ WorkerOnly

ClaimVisit ==
    LET i == worker.insp
        v == worker.new
    IN  /\ worker.stage = "write" /\ worker.task = "book"
        /\ IF Made(i) /\ OfVisit(v) \ {i} = {}
           THEN /\ insp' = [insp EXCEPT ![i].visit = v]
                /\ import' = [import EXCEPT ![v].status = "IMPORTED", ![v].insp = i]
                /\ Works("sent")
           ELSE Works("failed") /\ UNCHANGED <<insp, import>>
        /\ UNCHANGED <<plan, stop, listing, leaving, visit, faults, history>>
        /\ WorkerOnly

(* mark: an edit only while it is the attempt that was read, any other row *)
(* whatever has become of it.  A row that is gone ends the run.            *)
SetTask(result) ==
    LET i == worker.insp IN
    /\ listing' = IF worker.task = "list" /\ listing # "none" THEN result ELSE listing
    /\ leaving' = IF worker.task = "leave" THEN [leaving EXCEPT !.status = result] ELSE leaving
    /\ insp' = IF worker.task = "book" /\ Made(i) THEN [insp EXCEPT ![i].book = result]
               ELSE IF worker.task = "move" /\ insp[i].move = "due" /\ ~worker.rearmed
                    THEN [insp EXCEPT ![i].move = result] ELSE insp

MarkSent ==
    /\ worker.stage = "sent"
    /\ SetTask("SENT") /\ worker' = NoWork
    /\ UNCHANGED <<plan, stop, import, visit, faults, history>>
    /\ WorkerOnly

\* Mutant: the row of a call that failed is marked sent as well.
MarkedSentAnyway ==
    /\ worker.stage = "failed"
    /\ SetTask("SENT") /\ worker' = NoWork
    /\ UNCHANGED <<plan, stop, import, visit, faults, history>>
    /\ WorkerOnly

(* A call that failed: its row waits for its next attempt, or is given up  *)
(* (a permanent failure, MAX_ATTEMPTS).                                    *)
MarkFailed ==
    /\ worker.stage = "failed"
    /\ \/ SetTask("due") /\ UNCHANGED history
       \/ SetTask("ABANDONED") /\ history' = history \cup {"given"}
    /\ worker' = NoWork
    /\ UNCHANGED <<plan, stop, import, visit, faults>>
    /\ WorkerOnly

WorkerGoesOn ==
    \/ Pick \/ ListReads \/ LeaveReads \/ BookReads \/ MoveReads
    \/ CreateVisit \/ PushDay \/ DeleteVisit
    \/ VisitOnStop \/ ClaimVisit \/ MarkSent \/ MarkFailed

-----------------------------------------------------------------------------
(* A sync of one visit: fetched, judged, and what follows written; one at  *)
(* a time.                                                                 *)
SyncOnly == UNCHANGED <<office, worker, counters, visit, history>>

FetchVisit(v) ==
    /\ syncer = NoSync /\ Live(v)
    /\ syncer' = [NoSync EXCEPT !.stage = "fetched", !.visit = v, !.day = visit[v].day]
    /\ UNCHANGED console
    /\ SyncOnly

(* The inspection processVisit takes the visit for, if it has one.         *)
Linked(v) ==
    IF import[v].status = "IMPORTED" /\ import[v].insp # None THEN {import[v].insp} ELSE OfVisit(v)

LeftAlone ==
    /\ syncer.stage = "fetched" /\ import[syncer.visit].status = "IGNORED"
    /\ syncer' = NoSync
    /\ UNCHANGED console
    /\ SyncOnly

VisitUnmet ==
    LET v == syncer.visit IN
    /\ syncer.stage = "fetched" /\ import[v].status # "IGNORED" /\ Linked(v) = {}
    /\ import' = [import EXCEPT ![v] = [status |-> "PENDING", insp |-> None, seen |-> syncer.day]]
    /\ syncer' = IF syncer.day = NoDay THEN NoSync ELSE [syncer EXCEPT !.stage = "import"]
    /\ UNCHANGED <<plan, stop, insp, listing, leaving>>
    /\ SyncOnly

\* Mutant: a visit no sync has seen before counts as changed.
ChangedOrNew(v, d) == import[v].seen # d

(* jobberChangedSince: no copy of an earlier sync, nothing has changed.    *)
ChangedSince(v, d) == import[v].seen \notin {Unseen, d}

(* applyChanges with heldConsoleEdits: a push that is still to be sent     *)
(* holds the sync back, unless Jobber's copy has changed since the last.   *)
VisitMet ==
    LET v == syncer.visit
        d == syncer.day
    IN  /\ syncer.stage = "fetched" /\ import[v].status # "IGNORED"
        /\ \E i \in Linked(v) :
              LET owed == Made(i) /\ insp[i].move = "due"
                  held == owed /\ ~ChangedSince(v, d)
              IN  /\ import' = [import EXCEPT ![v] = [status |-> "IMPORTED", insp |-> i, seen |-> d]]
                  /\ insp' = IF owed /\ ~held THEN [insp EXCEPT ![i].move = "none"] ELSE insp
                  /\ syncer' = IF ~Made(i) \/ held \/ insp[i].day = d THEN NoSync
                               ELSE [syncer EXCEPT !.insp = i, !.stage = IF d = NoDay THEN "withdraw" ELSE "follow"]
        /\ UNCHANGED <<plan, stop, listing, leaving>>
        /\ SyncOnly

(* removeWithdrawnInspection, of a visit moved to Unscheduled in Jobber.   *)
Withdraw ==
    LET i == syncer.insp
        v == syncer.visit
    IN  /\ syncer.stage = "withdraw" /\ syncer' = NoSync
        /\ IF Made(i) /\ insp[i].visit = v
           THEN /\ insp' = [insp EXCEPT ![i] = Erased]
                /\ stop' = IF stop.insp = i THEN OffItsDay("UNSCHEDULED", v) ELSE stop
                /\ import' = [import EXCEPT ![v].status = "PENDING", ![v].insp = None]
           ELSE UNCHANGED <<insp, stop, import>>
        /\ UNCHANGED <<plan, listing, leaving>>
        /\ SyncOnly

Follow ==
    LET i == syncer.insp IN
    /\ syncer.stage = "follow" /\ syncer' = NoSync
    /\ IF Made(i) /\ OnDay(syncer.day) \ {i} = {}
       THEN insp' = [insp EXCEPT ![i].day = syncer.day] /\ StopFollows(i, syncer.day)
       ELSE UNCHANGED <<insp, stop>>
    /\ UNCHANGED <<plan, listing, leaving, import>>
    /\ SyncOnly

(* A visit it has not met, made an inspection on the stop that waits for   *)
(* it.  Refused where the work is booked already.                          *)
ImportVisit ==
    LET v == syncer.visit
        free == OnDay(syncer.day) \cup OfVisit(v) = {}
    IN  /\ syncer.stage = "import"
        /\ \/ ~free /\ syncer' = NoSync /\ UNCHANGED <<insp, stop>>
           \/ \E i \in NextInspection :
                 /\ free
                 /\ insp' = [insp EXCEPT ![i] = [Unmade EXCEPT !.state = "scheduled", !.day = syncer.day, !.visit = v]]
                 /\ stop' = IF stop.visit = v /\ stop.insp = None
                            THEN [stop EXCEPT !.insp = i, !.status = "PUBLISHED", !.day = syncer.day] ELSE stop
                 /\ syncer' = [syncer EXCEPT !.stage = "note", !.insp = i]
        /\ UNCHANGED <<plan, listing, leaving, import>>
        /\ SyncOnly

(* Its row, in a write of its own.                                         *)
ImportNoted ==
    /\ syncer.stage = "note" /\ syncer' = NoSync
    /\ import' = [import EXCEPT ![syncer.visit].status = "IMPORTED", ![syncer.visit].insp = syncer.insp]
    /\ UNCHANGED <<plan, stop, insp, listing, leaving>>
    /\ SyncOnly

SyncGoesOn == LeftAlone \/ VisitUnmet \/ VisitMet \/ Withdraw \/ Follow \/ ImportVisit \/ ImportNoted

-----------------------------------------------------------------------------
(* Jobber, and the process.                                                *)

(* The office gives the visit a day in Jobber, or takes it off one.        *)
DatedInJobber(v, d) ==
    /\ Live(v) /\ visit[v].day # d /\ Decides
    /\ visit' = [visit EXCEPT ![v].day = d]
    /\ UNCHANGED <<console, office, worker, syncer, faults, history>>

ApiRestarts ==
    /\ Fault
    /\ \E c \in Coordinator : office[c] # NoRequest \/ worker # NoWork
    /\ office' = [c \in Coordinator |-> NoRequest]
    /\ worker' = NoWork /\ syncer' = NoSync
    /\ history' = history
          \cup (IF worker.stage = "write" THEN {"lost"} ELSE {})
          \cup (IF worker.stage = "sent" /\ worker.task = "list" THEN {"unmarked"} ELSE {})
          \cup (IF \E c \in Coordinator : office[c].stage \in {"ask", "create"} /\ ~office[c].publishing
                THEN {"torn"} ELSE {})
    /\ UNCHANGED <<console, visit, decisions>>

-----------------------------------------------------------------------------
(* What a waiting request or the worker holds of the rows it has read.     *)
HeldByOffice(c) ==
    CASE office[c].stage \in {"draft", "edit", "unlist", "ask", "create", "queue", "clear"} -> <<stop>>
      [] office[c].stage \in {"move", "unschedule"} -> <<insp[office[c].insp].visit>>
      [] OTHER -> <<>>

HeldByWorker ==
    CASE worker.stage = "idle" -> <<>>
      [] worker.task = "list" -> <<stop, listing, OfVisit(worker.new)>>
      [] worker.task = "leave" -> <<stop.visit, leaving, OfVisit(worker.new)>>
      [] worker.task = "book" /\ worker.stage \in {"create", "write"} ->
            <<insp[worker.insp].state, insp[worker.insp].day, insp[worker.insp].visit, OfVisit(worker.new)>>
      [] OTHER -> <<>>

HeldBySync ==
    CASE syncer.stage = "import" -> <<import[syncer.visit].status, OfVisit(syncer.visit)>>
      [] syncer.stage \in {"follow", "withdraw"} -> <<insp[syncer.insp].day, insp[syncer.insp].move>>
      [] OTHER -> <<>>

ChangedUnder ==
    \/ \E c \in Coordinator : office'[c] = office[c] /\ HeldByOffice(c)' # HeldByOffice(c)
    \/ worker' = worker /\ HeldByWorker' # HeldByWorker
    \/ syncer' = syncer /\ HeldBySync' # HeldBySync

(* A day decided for a booked visit is wanted, here or in Jobber, where the *)
(* console, Jobber and the copies the syncs hold of it agreed until then and *)
(* no push was under way.                                                   *)
Settled ==
    /\ Made(stop.insp)
    /\ LET i == insp[stop.insp] IN
       /\ i.move # "due" /\ Live(i.visit)
       /\ visit[i.visit].day = i.day /\ import[i.visit].seen \in {Unseen, i.day}
       /\ syncer.visit = i.visit => syncer.day = i.day
       /\ worker.task = "move" => worker.old # i.visit

MovedHere == \E c \in Coordinator : office[c].stage = "move" /\ office'[c] # office[c] /\ insp' # insp
MovedThere == decisions' # decisions /\ visit' # visit

WantedNow ==
    IF ~MovedHere /\ ~MovedThere THEN IF decisions' # decisions THEN Unseen ELSE wanted
    ELSE IF ~Settled THEN Unseen
    ELSE IF MovedHere THEN insp'[stop.insp].day ELSE visit'[insp[stop.insp].visit].day

Noted(Step) == Step /\ crossed' = (crossed \/ ChangedUnder) /\ wanted' = WantedNow

PublishingNext == Noted(
    \/ \E c \in Coordinator : OfficeDecides(c) \/ OfficeGoesOn(c)
    \/ WorkerGoesOn \/ CreateUnheard \/ CallFails
    \/ SyncGoesOn
    \/ \E v \in Visit : FetchVisit(v) \/ \E d \in Day \cup {NoDay} : DatedInJobber(v, d)
    \/ ApiRestarts)

(* A request that has begun ends, the outbox is drained and every visit    *)
(* Jobber has is fetched, again and again (jobber-sync.scheduler.ts).      *)
PublishingFairness ==
    /\ \A c \in Coordinator : WF_vars(Noted(OfficeGoesOn(c)))
    /\ WF_vars(Noted(WorkerGoesOn))
    /\ WF_vars(Noted(SyncGoesOn))
    /\ \A v \in Visit : SF_vars(Noted(FetchVisit(v)))

PublishingSpec == PublishingInit /\ [][PublishingNext]_vars /\ PublishingFairness

-----------------------------------------------------------------------------
StopRow == [status : StopStatus, day : Day \cup {NoDay}, visit : Visit \cup {None}, insp : Inspection \cup {None}]
InspectionRow == [state : {"unmade", "scheduled", "erased"}, day : Day \cup {NoDay},
                  visit : Visit \cup {None}, book : TaskStatus, move : TaskStatus]
LeavingRow == [status : TaskStatus, visit : Visit \cup {None}]
ImportRow == [status : {"none", "PENDING", "IMPORTED", "IGNORED"},
              insp : Inspection \cup {None}, seen : Day \cup {NoDay, Unseen}]
JobberVisit == [state : {"unmade", "live", "deleted"}, day : Day \cup {NoDay}]

RowsTyped ==
    /\ plan \in PlanStatus /\ stop \in StopRow
    /\ insp \in [Inspection -> InspectionRow]
    /\ listing \in TaskStatus /\ leaving \in LeavingRow
    /\ import \in [Visit -> ImportRow]
    /\ visit \in [Visit -> JobberVisit]

KeysHold ==
    /\ stop.insp # None => Made(stop.insp)
    /\ \A i, j \in Scheduled :
          i # j => insp[i].day # insp[j].day /\ (insp[i].visit # insp[j].visit \/ insp[i].visit = None)

(* Every row holds a value of its columns; a stop never points at an       *)
(* inspection that is gone, whoever erased it (unschedule, withdrawal), and*)
(* no two inspections share a day or a visit.                              *)
PublishingTypeOK ==
    /\ RowsTyped /\ KeysHold
    /\ wanted \in Day \cup {NoDay, Unseen}
    /\ history \subseteq Happened

(* Rows have changed under somebody who had read them, or something has    *)
(* happened that the code does not recover from; see ChangedUnder.         *)
Excused == crossed \/ history \ {"given"} # {}

(* The visits that are to stay in Jobber.                                  *)
Standing == {v \in Visit : Live(v)} \ (IF leaving.status \in {"due", "ABANDONED"} THEN {leaving.visit} ELSE {})

(* However publishing, editing, unscheduling, the worker's retries, the    *)
(* syncs and restarts interleave, a stop has at most one inspection and at *)
(* most one visit in Jobber, besides one that is on its way out: no retry  *)
(* and no re-publish books it twice (bookVisit, queueUnscheduled, the      *)
(* booking key).                                                           *)
BookedOnce == Cardinality(Standing) <= 1 /\ Cardinality(Scheduled) <= 1
BookedOnceUncrossed == Excused \/ BookedOnce

(* The stop, its inspection and Jobber's visit are on the same day; a stop *)
(* that is on the Unscheduled list has a visit there; and the day is the   *)
(* one decided last, where it was decided between two systems that agreed. *)
Agreed ==
    /\ Made(stop.insp) =>
          LET v == insp[stop.insp].visit IN
          Live(v) /\ {stop.day, visit[v].day} = {insp[stop.insp].day}
    /\ stop.insp = None /\ stop.status = "UNSCHEDULED" /\ stop.day = NoDay => Live(stop.visit)
    /\ Made(stop.insp) /\ wanted # Unseen => insp[stop.insp].day = wanted

(* A sync of the visit would change nothing: it is left alone, it has no   *)
(* inspection and cannot be given one, or its inspection is gone, is on its*)
(* day already or cannot be moved there.                                   *)
UpToDate(v) ==
    LET d == visit[v].day IN
    \/ import[v].status = "IGNORED"
    \/ Linked(v) = {} /\ (d = NoDay \/ OnDay(d) # {})
    \/ \E i \in Linked(v) :
          \/ ~Made(i) \/ insp[i].day = d
          \/ IF d = NoDay THEN insp[i].visit # v ELSE OnDay(d) \ {i} # {}

(* No request is under way, nothing is due and no sync would change a row. *)
AtRest ==
    /\ \A c \in Coordinator : office[c] = NoRequest
    /\ worker = NoWork /\ DueWork = {}
    /\ syncer = NoSync /\ \A v \in Visit : Live(v) => UpToDate(v)

(* When nobody has anything left to do, console and calendar agree: no     *)
(* order of publishing, rescheduling, unscheduling, retries and syncs ends *)
(* with a stop, its inspection and its visit on different days, with work  *)
(* that Jobber was never told of, or with a day that a sync has undone, as *)
(* long as the history is not excused, and no row was given up             *)
(* (moveStopWithVisit, heldConsoleEdits, mark's check of the attempt).     *)
AgreedAtRest == AtRest => Excused \/ "given" \in history \/ Agreed

(* Once people stop deciding, console and calendar come to agree and stay  *)
(* so: the outbox is drained, the syncs neither undo a push that waits nor *)
(* miss a day given in Jobber, unless a row was given up or the history is *)
(* excused (a row changed under somebody who had read it, or what the code *)
(* does not recover from has happened).                                    *)
ConsoleAgreesWithJobber == <>[](Excused \/ "given" \in history \/ Agreed)
=============================================================================
