------------------------ MODULE VisitPublishingProofs ------------------------
(***************************************************************************)
(* What publishing guarantees for any number of requests, days, visits,    *)
(* decisions and faults.                                                   *)
(*                                                                         *)
(* TypeInv holds whatever happens.  BookingInv, which says where the one   *)
(* visit of a stop is to be found at every moment, holds until rows have   *)
(* changed under somebody who had read them (crossed) or something has     *)
(* happened that the code does not recover from (history); neither ends    *)
(* again, so a step that leaves the history quiet began in a quiet one.    *)
(* RestInv, which says what is still owed and who still holds an old day,  *)
(* holds with it; once nobody has anything left to do it leaves only the   *)
(* states where console and calendar agree.                                *)
(***************************************************************************)
EXTENDS VisitPublishing, FiniteSetTheorems, TLAPS

-----------------------------------------------------------------------------
(* Types                                                                   *)

RequestStage == {"idle", "batch", "queue", "ask", "create", "draft", "edit",
                 "place", "unlist", "move", "unschedule", "clear"}
WorkStage == {"idle", "read", "create", "write", "push", "delete", "sent", "failed"}
SyncStage == {"idle", "fetched", "import", "withdraw", "follow", "note"}

RequestType == [stage : RequestStage, publishing : BOOLEAN, waited : BOOLEAN, failed : BOOLEAN,
                day : Day \cup {NoDay}, visit : Visit \cup {None}, insp : Inspection \cup {None}]
WorkType == [stage : WorkStage, task : {"list", "leave", "book", "move"}, insp : Inspection \cup {None},
             old : Visit \cup {None}, new : Visit \cup {None}, day : Day \cup {NoDay}, rearmed : BOOLEAN]
SyncType == [stage : SyncStage, visit : Visit \cup {None}, day : Day \cup {NoDay}, insp : Inspection \cup {None}]

PeopleTyped == office \in [Coordinator -> RequestType] /\ worker \in WorkType /\ syncer \in SyncType

Leaving == worker.stage # "idle" /\ worker.task = "leave"

(* What the worker has in hand at each stage of its task.                  *)
WorkInHand ==
    /\ worker.task \in {"book", "move"} => worker.insp \in Inspection
    /\ worker.stage = "create" => worker.task # "move"
    /\ worker.stage = "write" => worker.task # "move" /\ worker.new \in Visit
    /\ worker.stage = "push" => worker.task = "move"
    /\ worker.stage = "delete" => worker.task = "leave"
    /\ Leaving => worker.old \in Visit

(* A row that takes a visit off its day names it and stays; so does the    *)
(* copy of a visit that an inspection or a sync has to do with.            *)
RowsKept ==
    /\ leaving.status # "none" => leaving.visit \in Visit
    /\ Leaving => leaving.status # "none"
    /\ \A i \in Scheduled : insp[i].visit # None => import[insp[i].visit].status # "none"
    /\ syncer.stage # "idle" => syncer.visit \in Visit /\ visit[syncer.visit].state # "unmade"
    /\ syncer.stage \notin {"idle", "fetched"} => import[syncer.visit].status # "none"
    /\ syncer.stage = "note" => syncer.insp \in Inspection

WellTyped == RowsTyped /\ KeysHold /\ PeopleTyped /\ WorkInHand /\ RowsKept

TypeInv ==
    /\ WellTyped
    /\ wanted \in Day \cup {NoDay, Unseen}
    /\ history \subseteq Happened
    /\ crossed \in BOOLEAN

LEMMA Sentinels == None \notin Inspection /\ None \notin Visit /\ NoDay \notin Day
BY PublishingAssumption DEF None, NoDay, Inspection, Visit, Day

LEMMA IdleTyped == NoRequest \in RequestType /\ NoWork \in WorkType /\ NoSync \in SyncType
BY DEF NoRequest, NoWork, NoSync, RequestType, WorkType, SyncType, RequestStage, WorkStage, SyncStage

(* Who is idle has nothing in hand, whatever the rows hold.                *)
LEMMA IdleWork == worker' = NoWork => WorkInHand'
BY DEF WorkInHand, Leaving, NoWork

(* What a request of the office that leaves the phases of others alone has *)
(* to keep.                                                                *)
LEMMA RequestTyped ==
    ASSUME PeopleTyped, NEW c \in Coordinator, NEW r \in RequestType, Request(c, r), UNCHANGED <<worker, syncer>>
    PROVE  PeopleTyped'
BY DEF PeopleTyped, Request

LEMMA StopDoneTyped ==
    ASSUME PeopleTyped, NEW c \in Coordinator, NEW outcome, StopDone(c, outcome), UNCHANGED <<worker, syncer>>
    PROVE  PeopleTyped'
<1> DEFINE r == IF office[c].publishing
                THEN [NoRequest EXCEPT !.stage = "batch", !.publishing = TRUE,
                                       !.waited = office[c].waited \/ outcome = "WAITING",
                                       !.failed = office[c].failed \/ outcome = "FAILED"]
                ELSE NoRequest
<1>1. r \in RequestType
  BY IdleTyped DEF RequestType, RequestStage, NoRequest
<1>2. Request(c, r)
  BY DEF StopDone
<1> QED
  BY <1>1, <1>2, RequestTyped

(* Keys and copies hold while the rows they are about stay.                *)
LEMMA SameKeys ==
    ASSUME KeysHold, insp' = insp, stop'.insp \in {stop.insp, None} \cup Scheduled
    PROVE  KeysHold'
BY DEF KeysHold, Made, Scheduled

LEMMA SameCopies ==
    ASSUME RowsKept, UNCHANGED <<insp, import, visit, syncer>>, leaving'.status # "none" => leaving'.visit \in Visit,
           Leaving' => leaving'.status # "none"
    PROVE  RowsKept'
BY DEF RowsKept, Made, Scheduled

(* A request that has written nothing, or no more than plan, listing and   *)
(* the stop's own columns.                                                 *)
LEMMA OfficeKeeps ==
    ASSUME WellTyped, UNCHANGED <<insp, leaving, import, visit, worker, syncer>>,
           plan' \in PlanStatus, stop' \in StopRow, listing' \in TaskStatus,
           stop'.insp \in {stop.insp, None} \cup Scheduled, PeopleTyped'
    PROVE  WellTyped'
<1> USE DEF WellTyped
<1>1. RowsTyped'
  BY DEF RowsTyped
<1>2. KeysHold'
  BY SameKeys
<1>3. WorkInHand'
  BY DEF WorkInHand, Leaving
<1>4. RowsKept'
  BY SameCopies DEF RowsKept, Leaving
<1> QED
  BY <1>1, <1>2, <1>3, <1>4

LEMMA OfficeReads ==
    ASSUME WellTyped, console' = console, OfficeOnly, PeopleTyped'
    PROVE  WellTyped'
BY OfficeKeeps DEF console, OfficeOnly, WellTyped, RowsTyped

(* The rows of an inspection and of the copy it is linked to, one changed. *)
LEMMA InspectionWritten ==
    ASSUME RowsTyped, NEW i \in Inspection, NEW r \in InspectionRow, insp' = [insp EXCEPT ![i] = r]
    PROVE  insp' \in [Inspection -> InspectionRow]
BY DEF RowsTyped

(* Publishing: every step of a publish or of a stop placed by itself keeps *)
(* the types.                                                              *)
LEMMA PublishingTyped ==
    ASSUME WellTyped, NEW c \in Coordinator,
           \/ Claim(c) \/ ReadBatch(c) \/ FinishPlan(c) \/ QueueUnscheduled(c) \/ StopWaits(c) \/ StopTriedAgain(c)
           \/ AdoptImported(c) \/ StopAsked(c) \/ MakeInspection(c) \/ AdoptExisting(c) \/ StopFails(c)
    PROVE  WellTyped'
<1> USE DEF OfficeOnly
<1>0. /\ RowsTyped /\ KeysHold /\ PeopleTyped /\ RowsKept
      /\ plan \in PlanStatus /\ stop \in StopRow /\ listing \in TaskStatus /\ office[c] \in RequestType
  BY DEF WellTyped, RowsTyped, PeopleTyped
<1>1. CASE Claim(c)
  <2>1. [NoRequest EXCEPT !.stage = "batch", !.publishing = TRUE] \in RequestType
    BY IdleTyped DEF RequestType, RequestStage, NoRequest
  <2>2. PeopleTyped'
    BY <1>0, <1>1, <2>1, RequestTyped DEF Claim
  <2>3. stop' \in StopRow /\ stop'.insp = stop.insp
    BY <1>0, <1>1 DEF Claim, StopRow, StopStatus
  <2> QED
    BY <1>0, <1>1, <2>2, <2>3, OfficeKeeps DEF Claim, PlanStatus
<1>2. CASE ReadBatch(c)
  <2>1. [office[c] EXCEPT !.stage = IF stop.day # NoDay THEN "ask" ELSE "queue",
                          !.day = stop.day, !.visit = stop.visit] \in RequestType
    BY <1>0 DEF RequestType, RequestStage, StopRow
  <2>2. PeopleTyped'
    BY <1>0, <1>2, <2>1, RequestTyped DEF ReadBatch
  <2> QED
    BY <1>2, <2>2, OfficeReads DEF ReadBatch
<1>3. CASE FinishPlan(c)
  <2>1. PeopleTyped'
    BY <1>0, <1>3, IdleTyped, RequestTyped DEF FinishPlan
  <2> QED
    BY <1>0, <1>3, <2>1, OfficeKeeps DEF FinishPlan, PlanStatus
<1>4. CASE QueueUnscheduled(c)
  <2>1. PeopleTyped'
    BY <1>0, <1>4, StopDoneTyped DEF QueueUnscheduled
  <2>2. stop' \in StopRow /\ stop'.insp = stop.insp /\ listing' \in TaskStatus
    BY <1>0, <1>4 DEF QueueUnscheduled, StopRow, StopStatus, TaskStatus
  <2> QED
    BY <1>0, <1>4, <2>1, <2>2, OfficeKeeps DEF QueueUnscheduled
<1>5. CASE StopWaits(c)
  <2>1. PeopleTyped'
    BY <1>0, <1>5, StopDoneTyped DEF StopWaits
  <2> QED
    BY <1>5, <2>1, OfficeReads DEF StopWaits
<1>6. CASE StopTriedAgain(c)
  <2>1. PeopleTyped'
    BY <1>0, <1>6, StopDoneTyped DEF StopTriedAgain
  <2>2. stop' \in StopRow /\ stop'.insp = stop.insp /\ leaving' \in LeavingRow /\ leaving'.visit \in Visit /\ leaving'.status # "none"
    BY <1>0, <1>6 DEF StopTriedAgain, StopRow, StopStatus, RowsTyped, LeavingRow, TaskStatus, RowsKept
  <2>3. RowsTyped'
    BY <1>0, <1>6, <2>2 DEF StopTriedAgain, RowsTyped
  <2>4. KeysHold' /\ RowsKept' /\ WorkInHand'
    BY <1>0, <1>6, <2>2, SameKeys, SameCopies DEF StopTriedAgain, WellTyped, WorkInHand, Leaving
  <2> QED
    BY <2>1, <2>3, <2>4 DEF WellTyped
<1>7. CASE AdoptImported(c)
  <2>1. PeopleTyped'
    BY <1>0, <1>7, StopDoneTyped DEF AdoptImported
  <2>2. PICK i \in Scheduled : stop' = [stop EXCEPT !.status = "PUBLISHED", !.insp = i]
    BY <1>7 DEF AdoptImported, OfVisit
  <2>3. stop' \in StopRow /\ stop'.insp = i
    BY <1>0, <2>2 DEF StopRow, StopStatus, Scheduled
  <2> QED
    BY <1>0, <1>7, <2>1, <2>3, OfficeKeeps DEF AdoptImported
<1>8. CASE StopAsked(c)
  <2>1. [office[c] EXCEPT !.stage = "create"] \in RequestType
    BY <1>0 DEF RequestType, RequestStage
  <2>2. PeopleTyped'
    BY <1>0, <1>8, <2>1, RequestTyped DEF StopAsked
  <2> QED
    BY <1>8, <2>2, OfficeReads DEF StopAsked
<1>9. CASE MakeInspection(c)
  <2> DEFINE r == office[c]
  <2>1. PeopleTyped'
    BY <1>0, <1>9, StopDoneTyped DEF MakeInspection
  <2>2. PICK i \in NextInspection :
          /\ insp' = [insp EXCEPT ![i] = NewlyMade(r)]
          /\ import' = IF r.visit = None THEN import
                       ELSE [import EXCEPT ![r.visit].status = "IMPORTED", ![r.visit].insp = i]
          /\ stop' = [stop EXCEPT !.status = "PUBLISHED", !.insp = i]
    BY <1>9 DEF MakeInspection
  <2>3. i \in Inspection /\ NewlyMade(r) \in InspectionRow
    BY <1>0 DEF NextInspection, NewlyMade, InspectionRow, RequestType, TaskStatus
  <2>4. import' \in [Visit -> ImportRow] /\ stop' \in StopRow /\ stop'.insp = i
    BY <1>0, <2>2, <2>3 DEF RowsTyped, ImportRow, StopRow, StopStatus
  <2>5. insp' \in [Inspection -> InspectionRow]
    BY <1>0, <2>2, <2>3, InspectionWritten
  <2>6. RowsTyped'
    BY <1>0, <1>9, <2>4, <2>5 DEF MakeInspection, RowsTyped
  <2>7. OnDay(r.day) = {} /\ OfVisit(r.visit) = {}
    BY <1>9 DEF MakeInspection
  <2>8. /\ insp'[i].state = "scheduled" /\ insp'[i].day = r.day /\ insp'[i].visit = r.visit
        /\ \A j \in Inspection \ {i} : insp'[j] = insp[j]
    BY <1>0, <2>2, <2>3 DEF RowsTyped, NewlyMade
  <2>9. KeysHold'
    BY <1>0, <2>3, <2>4, <2>7, <2>8, Sentinels DEF KeysHold, Made, Scheduled, OnDay, OfVisit
  <2>10. \A v \in Visit : import[v].status # "none" \/ v = r.visit => import'[v].status # "none"
    BY <1>0, <2>2, Sentinels DEF RowsTyped, ImportRow
  <2>11. RowsKept'
    <3>1. \A j \in Scheduled' : insp'[j].visit # None => import'[insp'[j].visit].status # "none"
      BY <1>0, <2>3, <2>8, <2>10 DEF RowsKept, Scheduled, Made, RowsTyped, InspectionRow, RequestType
    <3>2. syncer.stage \notin {"idle", "fetched"} => import'[syncer.visit].status # "none"
      BY <1>0, <2>10 DEF RowsKept
    <3> QED
      BY <1>0, <1>9, <3>1, <3>2 DEF RowsKept, Leaving, MakeInspection
  <2> QED
    BY <1>9, <2>1, <2>6, <2>9, <2>11 DEF WellTyped, WorkInHand, Leaving, MakeInspection
<1>10. CASE AdoptExisting(c)
  <2>1. PeopleTyped'
    BY <1>0, <1>10, StopDoneTyped DEF AdoptExisting
  <2>2. PICK i \in Scheduled : stop' = [stop EXCEPT !.status = "PUBLISHED", !.insp = i]
    BY <1>10 DEF AdoptExisting, OnDay
  <2>3. stop' \in StopRow /\ stop'.insp = i
    BY <1>0, <2>2 DEF StopRow, StopStatus, Scheduled
  <2> QED
    BY <1>0, <1>10, <2>1, <2>3, OfficeKeeps DEF AdoptExisting
<1>11. CASE StopFails(c)
  <2>1. PeopleTyped'
    BY <1>0, <1>11, StopDoneTyped DEF StopFails
  <2>2. stop' \in StopRow /\ stop'.insp = stop.insp
    BY <1>0, <1>11 DEF StopFails, StopRow, StopStatus
  <2> QED
    BY <1>0, <1>11, <2>1, <2>2, OfficeKeeps DEF StopFails
<1> QED
  BY <1>1, <1>2, <1>3, <1>4, <1>5, <1>6, <1>7, <1>8, <1>9, <1>10, <1>11

(* A visit changed by hand: edits, reschedules and unschedules keep the    *)
(* types.                                                                  *)
LEMMA ByHandTyped ==
    ASSUME WellTyped, NEW c \in Coordinator,
           \/ EditWrites(c) \/ PlaceOne(c) \/ Unlist(c) \/ RescheduleWrites(c) \/ RescheduleRefused(c)
           \/ Unschedule(c) \/ UnscheduleBooked(c) \/ UnscheduleRefused(c) \/ ClearDay(c) \/ DayCleared(c)
           \/ \E d \in Day : EditStop(c, d) \/ Reschedule(c, d)
    PROVE  WellTyped'
<1> USE DEF OfficeOnly
<1>0. /\ RowsTyped /\ KeysHold /\ PeopleTyped /\ RowsKept
      /\ plan \in PlanStatus /\ stop \in StopRow /\ listing \in TaskStatus /\ office[c] \in RequestType
  BY DEF WellTyped, RowsTyped, PeopleTyped
<1>1. CASE EditWrites(c)
  <2>1. [office[c] EXCEPT !.stage = "place"] \in RequestType
    BY <1>0 DEF RequestType, RequestStage
  <2>2. PeopleTyped'
    BY <1>0, <1>1, <2>1, IdleTyped, RequestTyped DEF EditWrites
  <2>3. stop' \in StopRow /\ stop'.insp = stop.insp
    BY <1>0, <1>1 DEF EditWrites, StopRow, RequestType
  <2> QED
    BY <1>0, <1>1, <2>2, <2>3, OfficeKeeps DEF EditWrites
<1>2. CASE PlaceOne(c)
  <2>1. [office[c] EXCEPT !.stage = "unlist", !.day = stop.day, !.visit = stop.visit] \in RequestType
    BY <1>0 DEF RequestType, RequestStage, StopRow
  <2>2. PeopleTyped'
    BY <1>0, <1>2, <2>1, IdleTyped, RequestTyped DEF PlaceOne
  <2> QED
    BY <1>2, <2>2, OfficeReads DEF PlaceOne
<1>3. CASE Unlist(c)
  <2>1. [office[c] EXCEPT !.stage = "ask"] \in RequestType
    BY <1>0 DEF RequestType, RequestStage
  <2>2. PeopleTyped'
    BY <1>0, <1>3, <2>1, RequestTyped DEF Unlist
  <2> QED
    BY <1>0, <1>3, <2>2, OfficeKeeps DEF Unlist, TaskStatus
<1>4. CASE RescheduleWrites(c)
  <2> DEFINE r == office[c]
             moved == [insp[r.insp] EXCEPT !.day = r.day, !.move = IF r.visit # None THEN "due" ELSE @]
  <2>1. Made(r.insp) /\ OnDay(r.day) \ {r.insp} = {}
    BY <1>4 DEF RescheduleWrites
  <2>2. r.insp \in Inspection
    BY <1>0, <2>1 DEF Made, RequestType
  <2>3. moved \in InspectionRow /\ moved.state = insp[r.insp].state /\ moved.visit = insp[r.insp].visit /\ moved.day = r.day
    <3>1. insp[r.insp] \in InspectionRow /\ r.day \in Day \cup {NoDay}
      BY <1>0, <2>2 DEF RowsTyped, RequestType
    <3> QED
      BY <3>1 DEF InspectionRow, TaskStatus
  <2>4. insp' = [insp EXCEPT ![r.insp] = moved]
    BY <1>0, <1>4, <2>2 DEF RescheduleWrites, RowsTyped
  <2>5. insp' \in [Inspection -> InspectionRow]
    BY <1>0, <2>2, <2>3, <2>4, InspectionWritten
  <2>6. stop' \in StopRow /\ stop'.insp = stop.insp
    BY <1>0, <1>4 DEF RescheduleWrites, StopFollows, StopRow, RequestType
  <2>7. RowsTyped'
    BY <1>0, <1>4, <2>5, <2>6 DEF RescheduleWrites, RowsTyped
  <2>8. worker' \in WorkType /\ worker' \in {worker, [worker EXCEPT !.rearmed = TRUE]}
    BY <1>0, <1>4 DEF RescheduleWrites, PeopleTyped, WorkType
  <2>9. PeopleTyped'
    BY <1>0, <1>4, <2>8, IdleTyped DEF RescheduleWrites, PeopleTyped, Request
  <2>10. /\ insp'[r.insp].state = insp[r.insp].state /\ insp'[r.insp].day = r.day
         /\ \A j \in Inspection : insp'[j].visit = insp[j].visit /\ insp'[j].state = insp[j].state
         /\ \A j \in Inspection \ {r.insp} : insp'[j] = insp[j]
    BY <1>0, <2>2, <2>3, <2>4 DEF RowsTyped
  <2>11. KeysHold'
    <3>1. Scheduled' = Scheduled
      BY <2>10 DEF Scheduled, Made
    <3>2. \A j \in Scheduled : j # r.insp => insp[j].day # r.day
      BY <2>1 DEF OnDay
    <3>3. ASSUME NEW j \in Scheduled, NEW k \in Scheduled, j # k
          PROVE  insp'[j].day # insp'[k].day /\ (insp'[j].visit # insp'[k].visit \/ insp'[j].visit = None)
      BY <1>0, <2>10, <3>2, <3>3 DEF KeysHold, Scheduled
    <3>4. (stop.insp # None => Made(stop.insp))'
      BY <1>0, <2>6, <2>10 DEF KeysHold, Made, StopRow
    <3> QED
      BY <3>1, <3>3, <3>4 DEF KeysHold
  <2>12. WorkInHand'
    BY <1>0, <2>8 DEF WellTyped, WorkInHand, Leaving, PeopleTyped, WorkType
  <2>13. RowsKept'
    <3>1. Scheduled' = Scheduled /\ \A j \in Scheduled : insp'[j].visit = insp[j].visit
      BY <2>10 DEF Scheduled, Made
    <3>2. Leaving' = Leaving
      BY <1>0, <2>8 DEF Leaving, PeopleTyped, WorkType
    <3> QED
      BY <1>0, <1>4, <3>1, <3>2 DEF RowsKept, RescheduleWrites
  <2> QED
    BY <2>7, <2>9, <2>11, <2>12, <2>13 DEF WellTyped
<1>5. CASE RescheduleRefused(c)
  BY <1>0, <1>5, IdleTyped, RequestTyped, OfficeReads DEF RescheduleRefused
<1>6. CASE Unschedule(c)
  <2>1. stop.insp \in Inspection
    BY <1>0, <1>6 DEF Unschedule, Made, StopRow
  <2>2. [NoRequest EXCEPT !.stage = "unschedule", !.insp = stop.insp, !.visit = insp[stop.insp].visit] \in RequestType
    BY <1>0, <2>1, IdleTyped DEF RequestType, RequestStage, NoRequest, RowsTyped, InspectionRow
  <2>3. PeopleTyped'
    BY <1>0, <1>6, <2>2, RequestTyped DEF Unschedule
  <2> QED
    BY <1>6, <2>3, OfficeReads DEF Unschedule
<1>7. CASE UnscheduleBooked(c)
  <2> DEFINE r == office[c]
  <2>1. Made(r.insp)
    BY <1>7 DEF UnscheduleBooked
  <2>2. r.insp \in Inspection /\ r.visit \in Visit \cup {None}
    BY <1>0, <2>1 DEF Made, RequestType
  <2>3. Erased \in InspectionRow /\ Erased.state # "scheduled"
    BY DEF Erased, Unmade, InspectionRow, TaskStatus
  <2>4. insp' = [insp EXCEPT ![r.insp] = Erased]
    BY <1>7 DEF UnscheduleBooked
  <2>5. insp' \in [Inspection -> InspectionRow]
    BY <1>0, <2>2, <2>3, <2>4, InspectionWritten
  <2>6. stop' \in StopRow /\ stop'.insp = None
    BY <1>7 DEF UnscheduleBooked, OffItsDay, StopRow, StopStatus
  <2>7. leaving' \in LeavingRow /\ (leaving'.status # "none" => leaving'.visit \in Visit)
        /\ (leaving.status # "none" => leaving'.status # "none")
    BY <1>0, <1>7, <2>2 DEF UnscheduleBooked, RowsTyped, LeavingRow, TaskStatus, RowsKept
  <2>8. import' \in [Visit -> ImportRow] /\ \A v \in Visit : import[v].status # "none" => import'[v].status # "none"
    BY <1>0, <1>7 DEF UnscheduleBooked, RowsTyped, ImportRow
  <2>9. RowsTyped'
    BY <1>0, <1>7, <2>5, <2>6, <2>7, <2>8 DEF UnscheduleBooked, RowsTyped
  <2>10. PeopleTyped'
    BY <1>0, <1>7, IdleTyped, RequestTyped DEF UnscheduleBooked
  <2>11. Scheduled' = Scheduled \ {r.insp} /\ \A j \in Scheduled' : insp'[j] = insp[j]
    BY <1>0, <2>2, <2>3, <2>4 DEF RowsTyped, Scheduled, Made
  <2>12. KeysHold'
    BY <1>0, <2>6, <2>11 DEF KeysHold
  <2>13. RowsKept'
    <3>1. \A j \in Scheduled' : insp'[j].visit # None => import'[insp'[j].visit].status # "none"
      BY <1>0, <2>8, <2>11 DEF RowsKept, RowsTyped, InspectionRow, Scheduled
    <3>2. syncer.stage \notin {"idle", "fetched"} => import'[syncer.visit].status # "none"
      BY <1>0, <2>8 DEF RowsKept
    <3> QED
      BY <1>0, <1>7, <2>7, <3>1, <3>2 DEF RowsKept, Leaving, UnscheduleBooked
  <2> QED
    BY <1>7, <2>9, <2>10, <2>12, <2>13 DEF WellTyped, WorkInHand, Leaving, UnscheduleBooked
<1>8. CASE UnscheduleRefused(c)
  BY <1>0, <1>8, IdleTyped, RequestTyped, OfficeReads DEF UnscheduleRefused
<1>9. CASE ClearDay(c)
  <2>1. [NoRequest EXCEPT !.stage = "clear"] \in RequestType
    BY IdleTyped DEF RequestType, RequestStage, NoRequest
  <2> QED
    BY <1>0, <1>9, <2>1, RequestTyped, OfficeReads DEF ClearDay
<1>10. CASE DayCleared(c)
  <2>1. PeopleTyped'
    BY <1>0, <1>10, IdleTyped, RequestTyped DEF DayCleared
  <2>2. stop' \in StopRow /\ stop'.insp = stop.insp
    BY <1>0, <1>10 DEF DayCleared, StopRow
  <2> QED
    BY <1>0, <1>10, <2>1, <2>2, OfficeKeeps DEF DayCleared
<1>11. ASSUME NEW d \in Day, EditStop(c, d) PROVE WellTyped'
  <2>1. [NoRequest EXCEPT !.stage = IF plan = "DRAFT" THEN "draft" ELSE "edit", !.day = d] \in RequestType
    BY IdleTyped DEF RequestType, RequestStage, NoRequest
  <2> QED
    BY <1>0, <1>11, <2>1, RequestTyped, OfficeReads DEF EditStop
<1>12. ASSUME NEW d \in Day, Reschedule(c, d) PROVE WellTyped'
  <2>1. stop.insp \in Inspection
    BY <1>0, <1>12 DEF Reschedule, Made, StopRow
  <2>2. [NoRequest EXCEPT !.stage = "move", !.day = d, !.insp = stop.insp, !.visit = insp[stop.insp].visit] \in RequestType
    BY <1>0, <2>1, IdleTyped DEF RequestType, RequestStage, NoRequest, RowsTyped, InspectionRow
  <2> QED
    BY <1>0, <1>12, <2>2, RequestTyped, OfficeReads DEF Reschedule
<1> QED
  BY <1>1, <1>2, <1>3, <1>4, <1>5, <1>6, <1>7, <1>8, <1>9, <1>10, <1>11, <1>12

(* The outbound worker keeps the types.                                    *)
LEMMA WorksTyped ==
    ASSUME PeopleTyped, NEW stage \in WorkStage, Works(stage), UNCHANGED <<office, syncer>>
    PROVE  /\ PeopleTyped' /\ worker'.stage = stage
           /\ worker'.task = worker.task /\ worker'.insp = worker.insp
           /\ worker'.old = worker.old /\ worker'.new = worker.new
BY DEF PeopleTyped, Works, WorkType

(* A task that has been read or ended wrote at most the row it is about.   *)
LEMMA TaskSet ==
    ASSUME WellTyped, NEW result \in {"due", "SENT", "ABANDONED"}, SetTask(result), worker.stage # "idle",
           worker' = NoWork, UNCHANGED <<plan, stop, import, visit, office, syncer>>
    PROVE  WellTyped'
<1>0. RowsTyped /\ KeysHold /\ PeopleTyped /\ RowsKept /\ WorkInHand
  BY DEF WellTyped
<1>1. listing' \in TaskStatus
  BY <1>0 DEF SetTask, RowsTyped, TaskStatus
<1>2. leaving' \in LeavingRow /\ leaving'.visit = leaving.visit
  BY <1>0 DEF SetTask, RowsTyped, LeavingRow, TaskStatus
<1>3. /\ insp' \in [Inspection -> InspectionRow]
      /\ \A i \in Inspection : /\ insp'[i].state = insp[i].state
                              /\ insp'[i].day = insp[i].day
                              /\ insp'[i].visit = insp[i].visit
  <2>1. CASE insp' = insp
    BY <1>0, <2>1 DEF RowsTyped
  <2>2. CASE worker.task \in {"book", "move"} /\ insp' # insp
    <3>1. worker.insp \in Inspection
      BY <1>0, <2>2 DEF WorkInHand
    <3> QED
      BY <1>0, <2>2, <3>1 DEF SetTask, RowsTyped, InspectionRow, TaskStatus
  <2> QED
    BY <2>1, <2>2 DEF SetTask
<1>s. Scheduled' = Scheduled
  BY <1>3 DEF Scheduled, Made
<1>4. RowsTyped'
  BY <1>0, <1>1, <1>2, <1>3 DEF RowsTyped
<1>5. KeysHold'
  BY <1>0, <1>3, <1>s DEF KeysHold, Scheduled, Made, RowsTyped, StopRow
<1>6. PeopleTyped' /\ WorkInHand'
  BY <1>0, IdleTyped, IdleWork DEF PeopleTyped
<1>7. RowsKept'
  <2>1. leaving'.status # "none" => leaving.status # "none"
    BY <1>0 DEF SetTask, RowsKept, Leaving
  <2>2. ~Leaving'
    BY DEF Leaving, NoWork
  <2> QED
    BY <1>0, <1>2, <1>3, <1>s, <2>1, <2>2 DEF RowsKept, Scheduled
<1> QED
  BY <1>4, <1>5, <1>6, <1>7 DEF WellTyped

LEMMA WorkerTyped ==
    ASSUME WellTyped, WorkerGoesOn \/ CreateUnheard \/ CallFails
    PROVE  WellTyped'
<1> USE DEF WorkerOnly, console
<1>0. /\ RowsTyped /\ KeysHold /\ PeopleTyped /\ RowsKept /\ WorkInHand
      /\ worker \in WorkType
  BY DEF WellTyped, PeopleTyped
<1>a. ASSUME UNCHANGED <<plan, stop, insp, listing, leaving, import>>, visit' \in [Visit -> JobberVisit],
             \A v \in Visit : visit[v].state # "unmade" => visit'[v].state # "unmade",
             UNCHANGED <<office, syncer>>, worker' \in WorkType, WorkInHand',
             Leaving' => Leaving \/ leaving.status # "none"
      PROVE  WellTyped'
  <2>1. RowsTyped' /\ PeopleTyped'
    BY <1>0, <1>a DEF RowsTyped, PeopleTyped
  <2>2. KeysHold' /\ RowsKept'
    BY <1>0, <1>a, SameKeys DEF RowsKept, Scheduled, Made
  <2> QED
    BY <1>a, <2>1, <2>2 DEF WellTyped
<1>b. visit \in [Visit -> JobberVisit]
  BY <1>0 DEF RowsTyped
<1>1. CASE Pick
  <2>1. PICK w \in DueWork : worker' = w
    BY <1>1 DEF Pick
  <2>2. w \in WorkType /\ w.stage = "read" /\ (w.task \in {"book", "move"} => w.insp \in Inspection)
        /\ (w.task = "leave" => w.old \in Visit)
    <3>1. CASE w = [NoWork EXCEPT !.stage = "read", !.task = "list"]
      BY <3>1, IdleTyped DEF NoWork, WorkType, WorkStage
    <3>2. CASE leaving.status = "due" /\ w = [NoWork EXCEPT !.stage = "read", !.task = "leave", !.old = leaving.visit]
      BY <1>0, <3>2, IdleTyped DEF NoWork, WorkType, WorkStage, RowsKept
    <3>3. CASE \E i \in Scheduled : w = [NoWork EXCEPT !.stage = "read", !.task = "book", !.insp = i]
      BY <3>3, IdleTyped DEF NoWork, WorkType, WorkStage, Scheduled
    <3>4. CASE \E i \in Scheduled : w = [NoWork EXCEPT !.stage = "read", !.task = "move", !.insp = i, !.old = insp[i].visit]
      BY <1>0, <3>4, IdleTyped DEF NoWork, WorkType, WorkStage, Scheduled, RowsTyped, InspectionRow
    <3> QED
      BY <2>1, <3>1, <3>2, <3>3, <3>4 DEF DueWork
  <2>3. Leaving' => leaving.status # "none"
    BY <2>1 DEF DueWork, Leaving, NoWork
  <2> QED
    BY <1>1, <1>a, <1>b, <2>1, <2>2, <2>3 DEF Pick, WorkInHand, Leaving
<1>2. CASE ListReads \/ LeaveReads \/ CallFails
  <2>1. PICK stage \in {"create", "sent", "delete", "failed"} :
           /\ Works(stage)
           /\ stage = "create" => worker.task \in {"list", "leave"}
           /\ stage = "delete" => worker.task = "leave"
    BY <1>2 DEF ListReads, LeaveReads, CallFails
  <2>2. worker.stage # "idle"
    BY <1>2 DEF ListReads, LeaveReads, CallFails
  <2>3. worker' \in WorkType /\ WorkInHand' /\ (Leaving' => Leaving)
    BY <1>0, <2>1, <2>2 DEF Works, WorkType, WorkStage, WorkInHand, Leaving
  <2> QED
    BY <1>2, <1>a, <1>b, <2>3 DEF ListReads, LeaveReads, CallFails
<1>3. CASE BookReads \/ MoveReads
  <2>1. worker.insp \in Inspection
    BY <1>0, <1>3 DEF BookReads, MoveReads, WorkInHand, Leaving
  <2>2. insp[worker.insp].day \in Day \cup {NoDay}
    BY <1>0, <2>1 DEF RowsTyped, InspectionRow
  <2>3. worker' \in WorkType /\ WorkInHand' /\ (Leaving' => Leaving)
    BY <1>0, <1>3, <2>1, <2>2 DEF BookReads, MoveReads, WorkType, WorkStage, WorkInHand, Leaving
  <2> QED
    BY <1>3, <1>a, <1>b, <2>3 DEF BookReads, MoveReads
<1>4. CASE CreateVisit \/ CreateUnheard
  <2>1. PICK v \in NextVisit : visit' = [visit EXCEPT ![v] = [state |-> "live", day |-> worker.day]]
    BY <1>4 DEF CreateVisit, CreateUnheard
  <2>2. v \in Visit /\ [state |-> "live", day |-> worker.day] \in JobberVisit
    BY <1>0 DEF NextVisit, JobberVisit, WorkType
  <2>3. visit' \in [Visit -> JobberVisit] /\ \A w \in Visit : visit[w].state # "unmade" => visit'[w].state # "unmade"
    BY <1>b, <2>1, <2>2
  <2>4. worker' \in WorkType /\ WorkInHand' /\ (Leaving' => Leaving)
    BY <1>0, <1>4 DEF CreateVisit, CreateUnheard, Works, WorkType, WorkStage, WorkInHand, Leaving, NextVisit
  <2> QED
    BY <1>4, <1>a, <2>3, <2>4 DEF CreateVisit, CreateUnheard
<1>5. CASE PushDay \/ DeleteVisit
  <2>1. visit' \in [Visit -> JobberVisit] /\ \A w \in Visit : visit[w].state # "unmade" => visit'[w].state # "unmade"
    BY <1>0, <1>5, <1>b DEF PushDay, DeleteVisit, JobberVisit, WorkType
  <2>2. worker' \in WorkType /\ WorkInHand' /\ (Leaving' => Leaving)
    BY <1>0, <1>5 DEF PushDay, DeleteVisit, Works, WorkType, WorkStage, WorkInHand, Leaving
  <2> QED
    BY <1>5, <1>a, <2>1, <2>2 DEF PushDay, DeleteVisit
<1>6. CASE VisitOnStop
  <2>1. stop' \in StopRow /\ stop'.insp = stop.insp
    BY <1>0, <1>6 DEF VisitOnStop, RowsTyped, StopRow, WorkType
  <2>2. worker' \in WorkType /\ WorkInHand' /\ (Leaving' => Leaving)
    <3>1. CASE worker' = NoWork
      BY <3>1, IdleTyped, IdleWork DEF Leaving, NoWork
    <3>2. CASE Works(IF worker.task = "list" THEN "sent" ELSE "delete")
      BY <1>0, <1>6, <3>2 DEF VisitOnStop, Works, WorkType, WorkStage, WorkInHand, Leaving
    <3> QED
      BY <1>6, <3>1, <3>2 DEF VisitOnStop
  <2>3. RowsTyped' /\ PeopleTyped'
    BY <1>0, <1>6, <2>1, <2>2 DEF VisitOnStop, RowsTyped, PeopleTyped
  <2>4. KeysHold' /\ RowsKept'
    BY <1>0, <1>6, <2>1, <2>2, SameKeys, SameCopies DEF VisitOnStop, RowsKept
  <2> QED
    BY <2>2, <2>3, <2>4 DEF WellTyped
<1>7. CASE ClaimVisit
  <2> DEFINE i == worker.insp
             v == worker.new
  <2>1. i \in Inspection /\ v \in Visit
    BY <1>0, <1>7 DEF ClaimVisit, WorkInHand, Leaving
  <2>2. worker' \in WorkType /\ WorkInHand' /\ (Leaving' => Leaving)
    BY <1>0, <1>7 DEF ClaimVisit, Works, WorkType, WorkStage, WorkInHand, Leaving
  <2>3. CASE insp' = insp /\ import' = import
    BY <1>7, <1>a, <1>b, <2>2, <2>3 DEF ClaimVisit
  <2>4. CASE /\ Made(i) /\ OfVisit(v) \ {i} = {}
             /\ insp' = [insp EXCEPT ![i].visit = v]
             /\ import' = [import EXCEPT ![v].status = "IMPORTED", ![v].insp = i]
    <3>1. /\ insp' \in [Inspection -> InspectionRow]
          /\ insp'[i].visit = v
          /\ \A j \in Inspection : insp'[j].state = insp[j].state /\ insp'[j].day = insp[j].day
          /\ \A j \in Inspection \ {i} : insp'[j].visit = insp[j].visit
      BY <1>0, <2>1, <2>4 DEF RowsTyped, InspectionRow
    <3>2. import' \in [Visit -> ImportRow] /\ \A w \in Visit : import[w].status # "none" \/ w = v => import'[w].status # "none"
      BY <1>0, <2>1, <2>4 DEF RowsTyped, ImportRow
    <3>3. RowsTyped' /\ PeopleTyped'
      BY <1>0, <1>7, <2>2, <3>1, <3>2 DEF ClaimVisit, RowsTyped, PeopleTyped
    <3>4. Scheduled' = Scheduled /\ \A j \in Scheduled : j # i => insp[j].visit # v
      BY <2>1, <2>4, <3>1, Sentinels DEF Scheduled, Made, OfVisit
    <3>5. KeysHold'
      <4>1. (stop.insp # None => Made(stop.insp))'
        BY <1>0, <1>7, <3>1 DEF ClaimVisit, KeysHold, Made, RowsTyped, StopRow
      <4>2. ASSUME NEW j \in Scheduled, NEW k \in Scheduled, j # k
            PROVE  insp'[j].day # insp'[k].day /\ (insp'[j].visit # insp'[k].visit \/ insp'[j].visit = None)
        BY <1>0, <3>1, <3>4, <4>2 DEF KeysHold, Scheduled
      <4> QED
        BY <3>4, <4>1, <4>2 DEF KeysHold
    <3>6. RowsKept'
      <4>1. \A j \in Scheduled' : insp'[j].visit # None => import'[insp'[j].visit].status # "none"
        BY <1>0, <2>1, <3>1, <3>2, <3>4 DEF RowsKept, Scheduled, RowsTyped, InspectionRow
      <4>2. syncer.stage \notin {"idle", "fetched"} => import'[syncer.visit].status # "none"
        BY <1>0, <3>2 DEF RowsKept
      <4> QED
        BY <1>0, <1>7, <2>2, <4>1, <4>2 DEF RowsKept, ClaimVisit
    <3> QED
      BY <2>2, <3>3, <3>5, <3>6 DEF WellTyped
  <2> QED
    BY <1>7, <2>3, <2>4 DEF ClaimVisit
<1>8. CASE MarkSent \/ MarkFailed
  BY <1>8, TaskSet DEF MarkSent, MarkFailed
<1> QED
  BY <1>1, <1>2, <1>3, <1>4, <1>5, <1>6, <1>7, <1>8 DEF WorkerGoesOn

(* The sync keeps the types.  A visit once made and a copy once taken stay. *)
LEMMA SyncTyped ==
    ASSUME WellTyped, SyncGoesOn \/ \E v \in Visit : FetchVisit(v)
    PROVE  WellTyped'
<1> USE DEF SyncOnly, console
<1>0. /\ RowsTyped /\ KeysHold /\ PeopleTyped /\ RowsKept /\ WorkInHand
      /\ syncer \in SyncType /\ visit \in [Visit -> JobberVisit] /\ import \in [Visit -> ImportRow]
  BY DEF WellTyped, PeopleTyped, RowsTyped
<1>a. ASSUME UNCHANGED <<plan, listing, leaving, visit, office, worker>>, stop' \in StopRow,
             insp' \in [Inspection -> InspectionRow], import' \in [Visit -> ImportRow], syncer' \in SyncType,
             KeysHold',
             \A i \in Scheduled' : insp'[i].visit # None => import'[insp'[i].visit].status # "none",
             syncer'.stage # "idle" => syncer'.visit \in Visit /\ visit[syncer'.visit].state # "unmade",
             syncer'.stage \notin {"idle", "fetched"} => import'[syncer'.visit].status # "none",
             syncer'.stage = "note" => syncer'.insp \in Inspection
      PROVE  WellTyped'
  <2>1. RowsTyped' /\ PeopleTyped' /\ WorkInHand'
    BY <1>0, <1>a DEF RowsTyped, PeopleTyped, WorkInHand, Leaving
  <2>2. RowsKept'
    BY <1>0, <1>a DEF RowsKept, Leaving
  <2> QED
    BY <1>a, <2>1, <2>2 DEF WellTyped
<1>b. /\ NoSync \in SyncType /\ NoSync.stage = "idle"
      /\ stop \in StopRow /\ insp \in [Inspection -> InspectionRow]
      /\ \A i \in Scheduled : insp[i].visit # None => import[insp[i].visit].status # "none"
  BY <1>0, IdleTyped DEF NoSync, RowsTyped, RowsKept
<1>1. ASSUME NEW v \in Visit, FetchVisit(v) PROVE WellTyped'
  <2>1. syncer' \in SyncType /\ syncer'.stage = "fetched" /\ syncer'.visit = v
    BY <1>0, <1>1, IdleTyped DEF FetchVisit, NoSync, SyncType, SyncStage, JobberVisit
  <2>2. KeysHold' /\ Scheduled' = Scheduled
    BY <1>0, <1>1, SameKeys DEF FetchVisit, Scheduled, Made
  <2>3. visit[v].state # "unmade"
    BY <1>1 DEF FetchVisit, Live
  <2> QED
    BY <1>1, <1>a, <1>b, <1>0, <2>1, <2>2, <2>3 DEF FetchVisit
<1>2. CASE LeftAlone
  <2>1. KeysHold' /\ Scheduled' = Scheduled
    BY <1>0, <1>2, SameKeys DEF LeftAlone, Scheduled, Made
  <2> QED
    BY <1>2, <1>a, <1>b, <1>0, <2>1 DEF LeftAlone
<1>v. syncer.stage # "idle" => syncer.visit \in Visit /\ visit[syncer.visit].state # "unmade"
  BY <1>0 DEF RowsKept
<1>k. syncer.stage \notin {"idle", "fetched"} => import[syncer.visit].status # "none"
  BY <1>0 DEF RowsKept
<1>3. CASE VisitUnmet
  <2> DEFINE v == syncer.visit
  <2>1. [status |-> "PENDING", insp |-> None, seen |-> syncer.day] \in ImportRow
    BY <1>0 DEF ImportRow, SyncType
  <2>2. /\ import' \in [Visit -> ImportRow]
        /\ \A w \in Visit : import[w].status # "none" \/ w = v => import'[w].status # "none"
    BY <1>0, <1>3, <1>v, <2>1 DEF VisitUnmet
  <2>3. /\ syncer' \in SyncType /\ syncer'.stage # "note"
        /\ syncer'.stage # "idle" => syncer'.visit = v
    BY <1>0, <1>3, <1>b DEF VisitUnmet, SyncType, SyncStage
  <2>4. KeysHold' /\ Scheduled' = Scheduled
    BY <1>0, <1>3, SameKeys DEF VisitUnmet, Scheduled, Made
  <2>5. \A i \in Scheduled : insp[i].visit # None => import'[insp[i].visit].status # "none"
    BY <1>b, <2>2 DEF InspectionRow, Scheduled
  <2> QED
    BY <1>3, <1>a, <1>b, <1>v, <2>2, <2>3, <2>4, <2>5 DEF VisitUnmet
<1>4. CASE VisitMet
  <2> DEFINE v == syncer.visit
             d == syncer.day
  <2>0. v \in Visit
    BY <1>4, <1>v DEF VisitMet
  <2>1. PICK i \in Linked(v) :
          LET owed == Made(i) /\ insp[i].move = "due"
              held == owed /\ ~ChangedSince(v, d)
          IN  /\ import' = [import EXCEPT ![v] = [status |-> "IMPORTED", insp |-> i, seen |-> d]]
              /\ insp' = IF owed /\ ~held THEN [insp EXCEPT ![i].move = "none"] ELSE insp
              /\ syncer' = IF ~Made(i) \/ held \/ insp[i].day = d THEN NoSync
                           ELSE [syncer EXCEPT !.insp = i, !.stage = IF d = NoDay THEN "withdraw" ELSE "follow"]
    BY <1>4 DEF VisitMet
  <2>2. i \in Inspection
    BY <1>0, <2>0, <2>1 DEF Linked, OfVisit, Scheduled, ImportRow
  <2>3. /\ import' \in [Visit -> ImportRow]
        /\ \A w \in Visit : import[w].status # "none" \/ w = v => import'[w].status # "none"
    <3>1. [status |-> "IMPORTED", insp |-> i, seen |-> d] \in ImportRow
      BY <1>0, <2>2 DEF ImportRow, SyncType
    <3> QED
      BY <1>0, <2>0, <2>1, <3>1
  <2>4. /\ insp' \in [Inspection -> InspectionRow]
        /\ \A j \in Inspection : /\ insp'[j].state = insp[j].state
                                 /\ insp'[j].day = insp[j].day
                                 /\ insp'[j].visit = insp[j].visit
    BY <1>b, <2>1, <2>2 DEF InspectionRow, TaskStatus
  <2>5. syncer' \in SyncType /\ syncer'.stage # "note" /\ (syncer'.stage # "idle" => syncer'.visit = v)
    BY <1>0, <1>b, <2>1, <2>2 DEF SyncType, SyncStage
  <2>6. Scheduled' = Scheduled
    BY <2>4 DEF Scheduled, Made
  <2>7. KeysHold'
    BY <1>0, <1>4, <2>4, <2>6 DEF VisitMet, KeysHold, Made, Scheduled, RowsTyped, StopRow
  <2>8. \A j \in Scheduled : insp'[j].visit # None => import'[insp'[j].visit].status # "none"
    BY <1>b, <2>3, <2>4 DEF InspectionRow, Scheduled
  <2> QED
    BY <1>4, <1>a, <1>b, <1>v, <2>3, <2>4, <2>5, <2>6, <2>7, <2>8 DEF VisitMet
<1>5. CASE Withdraw
  <2> DEFINE i == syncer.insp
             v == syncer.visit
  <2>1. CASE UNCHANGED <<insp, stop, import>>
    <3>1. KeysHold' /\ Scheduled' = Scheduled
      BY <1>0, <2>1, SameKeys DEF Scheduled, Made
    <3> QED
      BY <1>5, <1>a, <1>b, <1>0, <2>1, <3>1 DEF Withdraw
  <2>2. CASE Made(i) /\ insp[i].visit = v
    <3>1. i \in Inspection /\ v \in Visit
      BY <1>0, <1>5, <1>v, <2>2 DEF Withdraw, Made, SyncType
    <3>2. Erased \in InspectionRow /\ Erased.state # "scheduled"
      BY DEF Erased, Unmade, InspectionRow, TaskStatus
    <3>3. insp' = [insp EXCEPT ![i] = Erased] /\ import' = [import EXCEPT ![v].status = "PENDING", ![v].insp = None]
      BY <1>5, <2>2 DEF Withdraw
    <3>4. /\ insp' \in [Inspection -> InspectionRow]
          /\ Scheduled' = Scheduled \ {i} /\ \A j \in Scheduled' : insp'[j] = insp[j]
      BY <1>b, <3>1, <3>2, <3>3 DEF Scheduled, Made
    <3>5. stop' \in StopRow /\ (stop'.insp = None \/ (stop'.insp = stop.insp /\ stop.insp # i))
      BY <1>b, <1>5, <2>2, <3>1 DEF Withdraw, OffItsDay, StopRow, StopStatus
    <3>6. /\ import' \in [Visit -> ImportRow]
          /\ \A w \in Visit : import[w].status # "none" => import'[w].status # "none"
      BY <1>0, <3>1, <3>3 DEF ImportRow
    <3>7. KeysHold'
      <4>1. (stop.insp # None => Made(stop.insp))'
        BY <1>0, <1>b, <3>4, <3>5 DEF KeysHold, Made, Scheduled, StopRow
      <4> QED
        BY <1>0, <3>4, <4>1 DEF KeysHold
    <3>8. \A j \in Scheduled' : insp'[j].visit # None => import'[insp'[j].visit].status # "none"
      BY <1>b, <3>4, <3>6 DEF InspectionRow, Scheduled
    <3> QED
      BY <1>5, <1>a, <1>b, <3>4, <3>5, <3>6, <3>7, <3>8 DEF Withdraw
  <2> QED
    BY <1>5, <2>1, <2>2 DEF Withdraw
<1>6. CASE Follow
  <2> DEFINE i == syncer.insp
             d == syncer.day
  <2>1. CASE UNCHANGED <<insp, stop>>
    <3>1. KeysHold' /\ Scheduled' = Scheduled
      BY <1>0, <2>1, SameKeys DEF Scheduled, Made
    <3> QED
      BY <1>6, <1>a, <1>b, <1>0, <2>1, <3>1 DEF Follow
  <2>2. CASE Made(i) /\ OnDay(d) \ {i} = {}
    <3>1. i \in Inspection /\ d \in Day \cup {NoDay}
      BY <1>0, <2>2 DEF Made, SyncType
    <3>2. /\ insp' \in [Inspection -> InspectionRow]
          /\ insp'[i].day = d
          /\ \A j \in Inspection : insp'[j].state = insp[j].state /\ insp'[j].visit = insp[j].visit
          /\ \A j \in Inspection \ {i} : insp'[j].day = insp[j].day
      BY <1>b, <1>6, <2>2, <3>1 DEF Follow, InspectionRow
    <3>3. stop' \in StopRow /\ stop'.insp = stop.insp
      BY <1>b, <1>6, <2>2, <3>1 DEF Follow, StopFollows, StopRow
    <3>4. Scheduled' = Scheduled /\ \A j \in Scheduled : j # i => insp[j].day # d
      BY <2>2, <3>2 DEF Scheduled, Made, OnDay
    <3>5. KeysHold'
      <4>1. (stop.insp # None => Made(stop.insp))'
        BY <1>0, <1>b, <3>2, <3>3 DEF KeysHold, Made, StopRow
      <4>2. ASSUME NEW j \in Scheduled, NEW k \in Scheduled, j # k
            PROVE  insp'[j].day # insp'[k].day /\ (insp'[j].visit # insp'[k].visit \/ insp'[j].visit = None)
        BY <1>0, <3>2, <3>4, <4>2 DEF KeysHold, Scheduled
      <4> QED
        BY <3>4, <4>1, <4>2 DEF KeysHold
    <3>6. \A j \in Scheduled : insp'[j].visit # None => import[insp'[j].visit].status # "none"
      BY <1>b, <3>2 DEF Scheduled
    <3> QED
      BY <1>6, <1>a, <1>b, <1>0, <3>2, <3>3, <3>4, <3>5, <3>6 DEF Follow
  <2> QED
    BY <1>6, <2>1, <2>2 DEF Follow
<1>7. CASE ImportVisit
  <2> DEFINE v == syncer.visit
             new == [Unmade EXCEPT !.state = "scheduled", !.day = syncer.day, !.visit = v]
  <2>0. v \in Visit /\ import[v].status # "none"
    BY <1>7, <1>v, <1>k DEF ImportVisit
  <2>1. CASE syncer' = NoSync /\ UNCHANGED <<insp, stop>>
    <3>1. KeysHold' /\ Scheduled' = Scheduled
      BY <1>0, <2>1, SameKeys DEF Scheduled, Made
    <3> QED
      BY <1>7, <1>a, <1>b, <1>0, <2>1, <3>1 DEF ImportVisit
  <2>2. ASSUME NEW i \in NextInspection, OnDay(syncer.day) \cup OfVisit(v) = {},
               insp' = [insp EXCEPT ![i] = new],
               stop' = IF stop.visit = v /\ stop.insp = None
                       THEN [stop EXCEPT !.insp = i, !.status = "PUBLISHED", !.day = syncer.day] ELSE stop,
               syncer' = [syncer EXCEPT !.stage = "note", !.insp = i]
        PROVE  WellTyped'
    <3>1. i \in Inspection /\ insp[i].state = "unmade" /\ new \in InspectionRow
      BY <1>0, <2>0 DEF NextInspection, Unmade, InspectionRow, TaskStatus, SyncType
    <3>2. /\ insp' \in [Inspection -> InspectionRow]
          /\ insp'[i].state = "scheduled" /\ insp'[i].day = syncer.day /\ insp'[i].visit = v
          /\ \A j \in Inspection \ {i} : insp'[j] = insp[j]
      BY <1>b, <2>2, <3>1 DEF Unmade
    <3>3. stop' \in StopRow /\ stop'.insp \in {stop.insp, i}
      BY <1>0, <1>b, <2>2, <3>1 DEF StopRow, StopStatus, SyncType
    <3>4. syncer' \in SyncType /\ syncer'.visit = v /\ syncer'.insp = i
      BY <1>0, <2>2, <3>1 DEF SyncType, SyncStage
    <3>5. Scheduled' = Scheduled \cup {i}
      BY <3>1, <3>2, Sentinels DEF Scheduled, Made
    <3>6. \A j \in Scheduled : insp[j].day # syncer.day /\ insp[j].visit # v /\ j # i
      BY <2>0, <2>2, <3>1, Sentinels DEF OnDay, OfVisit, Scheduled, Made
    <3>7. KeysHold'
      <4>1. (stop.insp # None => Made(stop.insp))'
        BY <1>0, <1>b, <3>1, <3>2, <3>3, Sentinels DEF KeysHold, Made, StopRow
      <4>2. ASSUME NEW j \in Scheduled', NEW k \in Scheduled', j # k
            PROVE  insp'[j].day # insp'[k].day /\ (insp'[j].visit # insp'[k].visit \/ insp'[j].visit = None)
        BY <1>0, <3>2, <3>5, <3>6, <4>2 DEF KeysHold, Scheduled
      <4> QED
        BY <4>1, <4>2 DEF KeysHold
    <3>8. \A j \in Scheduled' : insp'[j].visit # None => import[insp'[j].visit].status # "none"
      BY <1>b, <2>0, <3>2, <3>5, <3>6 DEF Scheduled
    <3> QED
      BY <1>7, <1>a, <1>0, <1>v, <2>0, <3>1, <3>2, <3>3, <3>4, <3>7, <3>8 DEF ImportVisit
  <2> QED
    BY <1>7, <2>1, <2>2 DEF ImportVisit
<1>8. CASE ImportNoted
  <2>1. /\ import' \in [Visit -> ImportRow]
        /\ \A w \in Visit : import[w].status # "none" => import'[w].status # "none"
    BY <1>0, <1>8, <1>v DEF ImportNoted, ImportRow, SyncType
  <2>2. KeysHold' /\ Scheduled' = Scheduled
    BY <1>0, <1>8, SameKeys DEF ImportNoted, Scheduled, Made
  <2>3. \A i \in Scheduled : insp[i].visit # None => import'[insp[i].visit].status # "none"
    BY <1>b, <2>1 DEF InspectionRow, Scheduled
  <2> QED
    BY <1>8, <1>a, <1>b, <2>1, <2>2, <2>3 DEF ImportNoted
<1> QED
  BY <1>1, <1>2, <1>3, <1>4, <1>5, <1>6, <1>7, <1>8 DEF SyncGoesOn

(* So do people in Jobber and a restart.                                   *)
LEMMA OutsideTyped ==
    ASSUME WellTyped, ApiRestarts \/ \E v \in Visit, d \in Day \cup {NoDay} : DatedInJobber(v, d)
    PROVE  WellTyped'
<1>0. RowsTyped /\ KeysHold /\ PeopleTyped /\ RowsKept /\ WorkInHand
  BY DEF WellTyped
<1>1. CASE ApiRestarts
  <2>1. RowsTyped' /\ PeopleTyped'
    BY <1>0, <1>1, IdleTyped DEF ApiRestarts, console, RowsTyped, PeopleTyped
  <2>2. KeysHold' /\ WorkInHand'
    BY <1>0, <1>1, SameKeys, IdleWork DEF ApiRestarts, console
  <2>3. RowsKept'
    BY <1>0, <1>1 DEF ApiRestarts, console, RowsKept, Leaving, NoWork, NoSync, Scheduled, Made
  <2> QED
    BY <2>1, <2>2, <2>3 DEF WellTyped
<1>2. ASSUME NEW v \in Visit, NEW d \in Day \cup {NoDay}, DatedInJobber(v, d) PROVE WellTyped'
  <2>1. /\ visit' \in [Visit -> JobberVisit]
        /\ \A w \in Visit : visit[w].state # "unmade" => visit'[w].state # "unmade"
    BY <1>0, <1>2 DEF DatedInJobber, RowsTyped, JobberVisit
  <2>2. RowsTyped' /\ PeopleTyped'
    BY <1>0, <1>2, <2>1 DEF DatedInJobber, console, RowsTyped, PeopleTyped
  <2>3. KeysHold' /\ WorkInHand'
    BY <1>0, <1>2, SameKeys DEF DatedInJobber, console, WorkInHand, Leaving
  <2>4. RowsKept'
    BY <1>0, <1>2, <2>1 DEF DatedInJobber, console, RowsKept, Leaving, Scheduled, Made
  <2> QED
    BY <2>2, <2>3, <2>4 DEF WellTyped
<1> QED
  BY <1>1, <1>2

(* One step of the system, without what is remembered of it.               *)
Step ==
    \/ \E c \in Coordinator : OfficeDecides(c) \/ OfficeGoesOn(c)
    \/ WorkerGoesOn \/ CreateUnheard \/ CallFails
    \/ SyncGoesOn
    \/ \E v \in Visit : FetchVisit(v) \/ \E d \in Day \cup {NoDay} : DatedInJobber(v, d)
    \/ ApiRestarts

LEMMA StepOrStutter ==
    ASSUME [PublishingNext]_vars
    PROVE  \/ Step /\ crossed' = (crossed \/ ChangedUnder) /\ wanted' = WantedNow
           \/ UNCHANGED vars
BY DEF PublishingNext, Noted, Step

LEMMA StepTyped == ASSUME WellTyped, Step PROVE WellTyped'
<1>1. ASSUME NEW c \in Coordinator, OfficeDecides(c) \/ OfficeGoesOn(c) PROVE WellTyped'
  BY <1>1, PublishingTyped, ByHandTyped DEF OfficeDecides, OfficeGoesOn
<1> QED
  BY <1>1, WorkerTyped, SyncTyped, OutsideTyped DEF Step

(* Nothing that has happened is forgotten.                                 *)
LEMMA HistoryGrows == ASSUME Step PROVE history \subseteq history' /\ history' \subseteq history \cup Happened
<1>1. ASSUME NEW c \in Coordinator, OfficeDecides(c) \/ OfficeGoesOn(c)
      PROVE  history \subseteq history' /\ history' \subseteq history \cup Happened
  BY <1>1 DEF OfficeDecides, OfficeGoesOn, Claim, Unschedule, ClearDay, EditStop, Reschedule,
     ReadBatch, FinishPlan, QueueUnscheduled, StopWaits, StopTriedAgain, AdoptImported, StopAsked,
     MakeInspection, AdoptExisting, StopFails, EditWrites, PlaceOne, Unlist, RescheduleWrites,
     RescheduleRefused, UnscheduleBooked, UnscheduleRefused, DayCleared, StillListed, Happened
<1>2. CASE WorkerGoesOn \/ CreateUnheard \/ CallFails
  BY <1>2 DEF WorkerGoesOn, CreateUnheard, CallFails, Pick, ListReads, LeaveReads, BookReads, MoveReads,
     CreateVisit, PushDay, DeleteVisit, VisitOnStop, ClaimVisit, MarkSent, MarkFailed, Happened
<1>3. CASE SyncGoesOn \/ \E v \in Visit : FetchVisit(v) \/ \E d \in Day \cup {NoDay} : DatedInJobber(v, d)
  BY <1>3 DEF SyncGoesOn, FetchVisit, DatedInJobber, LeftAlone, VisitUnmet, VisitMet, Withdraw, Follow,
     ImportVisit, ImportNoted, SyncOnly
<1>4. CASE ApiRestarts
  <2> DEFINE more == (IF worker.stage = "write" THEN {"lost"} ELSE {})
                     \cup (IF worker.stage = "sent" /\ worker.task = "list" THEN {"unmarked"} ELSE {})
                     \cup (IF \E c \in Coordinator : office[c].stage \in {"ask", "create"} /\ ~office[c].publishing
                           THEN {"torn"} ELSE {})
  <2>1. more \in SUBSET Happened
    BY DEF Happened
  <2>2. history' = history \cup more
    BY <1>4 DEF ApiRestarts
  <2> QED
    BY <2>1, <2>2
<1> QED
  BY <1>1, <1>2, <1>3, <1>4 DEF Step

(* A day that is wanted is a day of a row.                                 *)
LEMMA WantedTyped ==
    ASSUME TypeInv, WellTyped'
    PROVE  WantedNow \in Day \cup {NoDay, Unseen}
<1>1. CASE Settled
  <2>1. stop.insp \in Inspection
    BY <1>1 DEF Settled, Made, TypeInv, WellTyped, RowsTyped, StopRow
  <2>2. insp[stop.insp].visit \in Visit
    BY <1>1, <2>1 DEF Settled, Live, TypeInv, WellTyped, RowsTyped, InspectionRow
  <2>3. insp'[stop.insp].day \in Day \cup {NoDay} /\ visit'[insp[stop.insp].visit].day \in Day \cup {NoDay}
    BY <2>1, <2>2 DEF WellTyped, RowsTyped, InspectionRow, JobberVisit
  <2> QED
    BY <1>1, <2>3 DEF WantedNow, TypeInv
<1>2. CASE ~Settled
  BY <1>2 DEF WantedNow, TypeInv
<1> QED
  BY <1>1, <1>2

LEMMA TypeInvariant == PublishingSpec => []TypeInv
<1>1. PublishingInit => TypeInv
  <2> SUFFICES ASSUME PublishingInit PROVE TypeInv
    OBVIOUS
  <2>1. RowsTyped
    <3>1. Unmade \in InspectionRow /\ NoRow \in ImportRow /\ NoVisit \in JobberVisit
      BY DEF Unmade, NoRow, NoVisit, InspectionRow, ImportRow, JobberVisit, TaskStatus
    <3>2. stop \in StopRow /\ leaving \in LeavingRow
      BY PublishingAssumption DEF PublishingInit, StopRow, LeavingRow, StopStatus, TaskStatus, Day, NoDay
    <3> QED
      BY <3>1, <3>2 DEF PublishingInit, RowsTyped, PlanStatus, TaskStatus
  <2>2. KeysHold
    BY DEF PublishingInit, KeysHold, Scheduled, Made, Unmade
  <2>3. PeopleTyped
    BY IdleTyped DEF PublishingInit, PeopleTyped
  <2>4. WorkInHand /\ RowsKept
    BY DEF PublishingInit, WorkInHand, RowsKept, Leaving, NoWork, NoSync, Scheduled, Made, Unmade
  <2> QED
    BY <2>1, <2>2, <2>3, <2>4 DEF PublishingInit, TypeInv, WellTyped
<1>2. TypeInv /\ [PublishingNext]_vars => TypeInv'
  <2> SUFFICES ASSUME TypeInv, [PublishingNext]_vars PROVE TypeInv'
    OBVIOUS
  <2>1. CASE Step /\ crossed' = (crossed \/ ChangedUnder) /\ wanted' = WantedNow
    <3>1. WellTyped'
      BY <2>1, StepTyped DEF TypeInv
    <3>2. wanted' \in Day \cup {NoDay, Unseen}
      BY <2>1, <3>1, WantedTyped
    <3>3. history' \subseteq Happened
      BY <2>1, HistoryGrows DEF TypeInv
    <3>4. crossed' \in BOOLEAN
      BY <2>1
    <3> QED
      BY <3>1, <3>2, <3>3, <3>4 DEF TypeInv
  <2>2. CASE UNCHANGED vars
    BY <2>2 DEF vars, console, counters, TypeInv, WellTyped, RowsTyped, KeysHold, PeopleTyped, WorkInHand, Leaving,
                RowsKept, Scheduled, Made
  <2> QED
    BY <2>1, <2>2, StepOrStutter
<1> QED
  BY <1>1, <1>2, PTL DEF PublishingSpec

(* Whatever publishing, the worker, the syncs and restarts do, every row   *)
(* holds a value of its columns, the stop never points at an inspection    *)
(* that is gone (unscheduleBooked, removeWithdrawnInspection) and no two   *)
(* inspections share a day or a visit (the booking key).                   *)
THEOREM PublishingTypeCorrect == PublishingSpec => []PublishingTypeOK
<1>1. TypeInv => PublishingTypeOK
  BY DEF TypeInv, WellTyped, PublishingTypeOK
<1> QED
  BY <1>1, TypeInvariant, PTL

-----------------------------------------------------------------------------
(* One booking                                                             *)

(* The only inspection there is, is the stop's.                            *)
OneInspection == \A i \in Scheduled : stop.insp = i

OnItsWayOut == leaving.status \in {"due", "ABANDONED"}

(* A request on its way from the stop it has read to an inspection still   *)
(* finds the stop as it was, without one; a request to unschedule knows    *)
(* the visit it takes with it.                                             *)
RequestFresh(c) ==
    LET r == office[c] IN
    /\ r.stage \in {"unlist", "ask", "create", "queue"} =>
          stop.insp = None /\ stop.visit = r.visit /\ stop.day = r.day
    /\ r.stage = "create" => ~OnItsWayOut
    /\ r.stage = "unschedule" => insp[r.insp].visit = r.visit

RequestsFresh == \A c \in Coordinator : RequestFresh(c)

(* The worker's row is the one it has read, and while it makes a visit     *)
(* what it makes it for has none; a visit is off its day in Jobber before  *)
(* the row is marked.                                                      *)
WorkFresh ==
    /\ worker.stage # "idle" /\ worker.task = "list" => listing = "due"
    /\ Leaving => leaving.status = "due" /\ leaving.visit = worker.old
    /\ worker.stage \in {"create", "write"} =>
          /\ worker.task = "list" => stop.insp = None /\ stop.visit = None
          /\ worker.task = "leave" => stop.insp = None /\ stop.visit \in {None, worker.old}
          /\ worker.task = "book" => Made(worker.insp) /\ insp[worker.insp].visit = None
    /\ worker.stage = "sent" /\ worker.task = "leave" => visit[worker.old].state = "deleted"

(* A stop that is owed a visit on the Unscheduled list has none, is not    *)
(* booked, and nothing takes a visit there.                                *)
ListedAlone ==
    listing = "due" =>
        /\ stop.insp = None /\ ~OnItsWayOut
        /\ stop.visit = None \/ (worker.stage = "sent" /\ worker.task = "list")

(* The stop and its inspection know one visit; with another on its way out *)
(* the stop knows its own already.                                         *)
StopKnowsItsVisit ==
    stop.insp # None =>
        /\ stop.visit \in {None, insp[stop.insp].visit}
        /\ OnItsWayOut => stop.visit = insp[stop.insp].visit /\ stop.visit \notin {None, leaving.visit}

(* A copy no sync makes an inspection of.                                  *)
Dismissed(v) ==
    \/ import[v].status = "IGNORED"
    \/ import[v].status = "IMPORTED" /\ import[v].insp # None

LeavingDismissed ==
    /\ OnItsWayOut => Dismissed(leaving.visit)
    /\ leaving.status = "SENT" => visit[leaving.visit].state = "deleted"

(* The one visit that counts: in the hands of the worker that made it, its *)
(* inspection's, or the stop's.                                            *)
Current ==
    IF worker.stage = "write" THEN worker.new
    ELSE IF stop.insp # None THEN insp[stop.insp].visit
    ELSE stop.visit

OthersDismissed == \A v \in Visit : visit[v].state # "unmade" /\ v # Current => Dismissed(v)
OneStanding == Standing \subseteq {Current}

(* A visit a sync is about to import has no inspection yet.                *)
ImportFree == syncer.stage = "import" => import[syncer.visit].status = "PENDING" /\ OfVisit(syncer.visit) = {}

RowsInv == OneInspection /\ StopKnowsItsVisit /\ LeavingDismissed /\ OthersDismissed /\ OneStanding
PeopleInv == RequestsFresh /\ WorkFresh /\ ListedAlone /\ ImportFree
BookingInv == RowsInv /\ PeopleInv

(* A step that leaves the history quiet, from a state where all holds.     *)
QuietStep ==
    /\ WellTyped /\ WellTyped' /\ BookingInv
    /\ ~ChangedUnder /\ history' \subseteq {"given"}

-----------------------------------------------------------------------------
(* Who waits finds what he has read                                        *)

LEMMA RequestUndisturbed ==
    ASSUME ~ChangedUnder, NEW c \in Coordinator, office'[c] = office[c]
    PROVE  /\ office[c].stage \in {"unlist", "ask", "create", "queue"} => stop' = stop
           /\ office[c].stage = "unschedule" => insp'[office[c].insp].visit = insp[office[c].insp].visit
<1>1. HeldByOffice(c)' = HeldByOffice(c)
  BY DEF ChangedUnder
<1>2. CASE office[c].stage \in {"unlist", "ask", "create", "queue"}
  <2>1. <<stop'>> = <<stop>>
    BY <1>1, <1>2 DEF HeldByOffice
  <2> QED
    BY <1>2, <2>1
<1>3. CASE office[c].stage = "unschedule"
  <2>1. <<insp'[office[c].insp].visit>> = <<insp[office[c].insp].visit>>
    BY <1>1, <1>3 DEF HeldByOffice
  <2> QED
    BY <1>3, <2>1
<1> QED
  BY <1>2, <1>3

LEMMA WorkerUndisturbed ==
    ASSUME ~ChangedUnder, worker' = worker
    PROVE  /\ worker.stage # "idle" /\ worker.task = "list" =>
                 stop' = stop /\ listing' = listing /\ OfVisit(worker.new)' = OfVisit(worker.new)
           /\ Leaving => stop'.visit = stop.visit /\ leaving' = leaving /\ OfVisit(worker.new)' = OfVisit(worker.new)
           /\ worker.stage \in {"create", "write"} /\ worker.task = "book" =>
                 /\ insp'[worker.insp].state = insp[worker.insp].state
                 /\ insp'[worker.insp].visit = insp[worker.insp].visit
                 /\ OfVisit(worker.new)' = OfVisit(worker.new)
<1>1. HeldByWorker' = HeldByWorker
  BY DEF ChangedUnder
<1>2. ASSUME worker.stage # "idle", worker.task = "list"
      PROVE  stop' = stop /\ listing' = listing /\ OfVisit(worker.new)' = OfVisit(worker.new)
  <2>1. <<stop', listing', OfVisit(worker.new)'>> = <<stop, listing, OfVisit(worker.new)>>
    BY <1>1, <1>2 DEF HeldByWorker
  <2> QED
    BY <2>1
<1>3. ASSUME Leaving
      PROVE  stop'.visit = stop.visit /\ leaving' = leaving /\ OfVisit(worker.new)' = OfVisit(worker.new)
  <2>1. <<stop'.visit, leaving', OfVisit(worker.new)'>> = <<stop.visit, leaving, OfVisit(worker.new)>>
    BY <1>1, <1>3 DEF HeldByWorker, Leaving
  <2> QED
    BY <2>1
<1>4. ASSUME worker.stage \in {"create", "write"}, worker.task = "book"
      PROVE  /\ insp'[worker.insp].state = insp[worker.insp].state
             /\ insp'[worker.insp].visit = insp[worker.insp].visit
             /\ OfVisit(worker.new)' = OfVisit(worker.new)
  <2>1. <<insp'[worker.insp].state, insp'[worker.insp].day, insp'[worker.insp].visit, OfVisit(worker.new)'>>
        = <<insp[worker.insp].state, insp[worker.insp].day, insp[worker.insp].visit, OfVisit(worker.new)>>
    BY <1>1, <1>4 DEF HeldByWorker
  <2> QED
    BY <2>1
<1> QED
  BY <1>2, <1>3, <1>4

LEMMA ImportUndisturbed ==
    ASSUME ~ChangedUnder, syncer' = syncer, ImportFree
    PROVE  ImportFree'
<1>1. HeldBySync' = HeldBySync
  BY DEF ChangedUnder
<1>2. CASE syncer.stage = "import"
  <2>1. <<import'[syncer.visit].status, OfVisit(syncer.visit)'>> = <<import[syncer.visit].status, OfVisit(syncer.visit)>>
    BY <1>1, <1>2 DEF HeldBySync
  <2> QED
    BY <2>1 DEF ImportFree
<1> QED
  BY <1>2 DEF ImportFree

(* So a request that waits stays fresh ...                                 *)
LEMMA RequestStaysFresh ==
    ASSUME ~ChangedUnder, NEW c \in Coordinator, office'[c] = office[c], RequestFresh(c),
           office[c].stage = "create" => ~OnItsWayOut'
    PROVE  RequestFresh(c)'
BY RequestUndisturbed DEF RequestFresh

LEMMA RequestsStayFresh ==
    ASSUME QuietStep, NEW c \in Coordinator, NEW r, Request(c, r), RequestFresh(c)',
           \A d \in Coordinator : office[d].stage = "create" => ~OnItsWayOut'
    PROVE  RequestsFresh'
<1>1. ASSUME NEW d \in Coordinator, d # c PROVE RequestFresh(d)'
  <2>1. office'[d] = office[d]
    BY <1>1 DEF Request, QuietStep, WellTyped, PeopleTyped
  <2> QED
    BY <2>1, RequestStaysFresh DEF QuietStep, BookingInv, PeopleInv, RequestsFresh
<1> QED
  BY <1>1 DEF RequestsFresh

LEMMA DoneIsFresh ==
    ASSUME WellTyped, NEW c \in Coordinator, NEW outcome, StopDone(c, outcome)
    PROVE  RequestFresh(c)'
<1>1. office'[c].stage \in {"batch", "idle"}
  BY DEF StopDone, Request, WellTyped, PeopleTyped, NoRequest
<1> QED
  BY <1>1 DEF RequestFresh

(* ... and so does the worker's task.                                      *)
LEMMA WorkStaysFresh ==
    ASSUME QuietStep, worker' = worker, visit[worker.old].state = "deleted" => visit'[worker.old].state = "deleted",
           worker.stage \in {"create", "write"} /\ worker.task = "leave" => stop'.insp = None
    PROVE  WorkFresh'
<1> USE DEF QuietStep, BookingInv, PeopleInv, WorkFresh
<1>1. (worker.stage # "idle" /\ worker.task = "list" => listing = "due")'
  BY WorkerUndisturbed
<1>2. (Leaving => leaving.status = "due" /\ leaving.visit = worker.old)'
  BY WorkerUndisturbed DEF Leaving
<1>3. ASSUME worker.stage \in {"create", "write"}
      PROVE  (/\ worker.task = "list" => stop.insp = None /\ stop.visit = None
              /\ worker.task = "leave" => stop.insp = None /\ stop.visit \in {None, worker.old}
              /\ worker.task = "book" => Made(worker.insp) /\ insp[worker.insp].visit = None)'
  BY <1>3, WorkerUndisturbed DEF Leaving, Made
<1> QED
  BY <1>1, <1>2, <1>3

-----------------------------------------------------------------------------
(* What the invariant says at once                                         *)

LEMMA BookedAlone ==
    ASSUME WellTyped, BookingInv, stop.insp # None
    PROVE  /\ stop.insp \in Inspection /\ Scheduled = {stop.insp}
           /\ listing # "due" /\ (worker.stage # "idle" => worker.task # "list")
           /\ worker.stage \in {"create", "write"} =>
                 worker.task = "book" /\ worker.insp = stop.insp /\ insp[stop.insp].visit = None
           /\ \A c \in Coordinator : office[c].stage \notin {"unlist", "ask", "create", "queue"}
<1> USE DEF WellTyped, BookingInv, RowsInv, PeopleInv
<1>1. stop.insp \in Inspection /\ Scheduled = {stop.insp}
  BY DEF RowsTyped, StopRow, KeysHold, OneInspection, Scheduled
<1>2. listing # "due" /\ (worker.stage # "idle" => worker.task # "list")
  BY DEF ListedAlone, WorkFresh
<1>3. worker.stage \in {"create", "write"} =>
        worker.task = "book" /\ worker.insp = stop.insp /\ insp[stop.insp].visit = None
  BY <1>1 DEF WorkFresh, WorkInHand, PeopleTyped, WorkType, OneInspection, Scheduled
<1>4. \A c \in Coordinator : office[c].stage \notin {"unlist", "ask", "create", "queue"}
  BY DEF RequestsFresh, RequestFresh
<1> QED
  BY <1>1, <1>2, <1>3, <1>4

LEMMA UnbookedAlone ==
    ASSUME WellTyped, BookingInv, stop.insp = None
    PROVE  Scheduled = {} /\ (worker.stage \in {"create", "write"} => worker.task \in {"list", "leave"})
<1> USE DEF WellTyped, BookingInv, RowsInv, PeopleInv
<1>1. Scheduled = {}
  BY Sentinels DEF OneInspection, Scheduled
<1> QED
  BY <1>1 DEF WorkFresh, WorkInHand, PeopleTyped, WorkType, Scheduled

(* A visit under way to the worker's hands or in them is of a stop without *)
(* one: it is none of the stop's, or the one that is leaving.              *)
LEMMA NoneWhileMade ==
    ASSUME WellTyped, BookingInv, worker.stage = "create"
    PROVE  Current = None \/ (worker.task = "leave" /\ leaving.status = "due" /\ Current = leaving.visit)
<1> USE DEF WellTyped, BookingInv, RowsInv, PeopleInv
<1>1. CASE worker.task \in {"list", "leave"}
  BY <1>1 DEF WorkFresh, Leaving, Current
<1>2. CASE worker.task = "book"
  BY <1>2, BookedAlone, UnbookedAlone DEF Current
<1> QED
  BY <1>1, <1>2 DEF WorkInHand, PeopleTyped, WorkType

-----------------------------------------------------------------------------
(* The rows of the booking, while they stay                                *)

LEMMA RowsStay ==
    ASSUME WellTyped, RowsInv,
           stop'.insp = stop.insp, stop.insp # None => stop'.visit = stop.visit,
           \A i \in Inspection : insp'[i].state = insp[i].state /\ insp'[i].visit = insp[i].visit,
           OnItsWayOut' = OnItsWayOut, leaving'.visit = leaving.visit,
           leaving'.status = "SENT" => leaving.status = "SENT",
           \A v \in Visit : Dismissed(v) => Dismissed(v)',
           \A v \in Visit : /\ visit'[v].state # "unmade" => visit[v].state # "unmade" \/ Dismissed(v)
                            /\ visit'[v].state = "live" => visit[v].state = "live"
                            /\ visit[v].state = "deleted" => visit'[v].state = "deleted",
           Current' = Current
    PROVE  RowsInv'
<1> USE DEF WellTyped, RowsInv
<1>1. Scheduled' = Scheduled
  BY DEF Scheduled, Made
<1>2. OneInspection'
  BY <1>1 DEF OneInspection
<1>3. StopKnowsItsVisit'
  BY DEF StopKnowsItsVisit, RowsTyped, StopRow
<1>4. LeavingDismissed'
  <2>1. leaving.status # "none" => leaving.visit \in Visit
    BY DEF RowsKept
  <2> QED
    BY <2>1 DEF LeavingDismissed, OnItsWayOut
<1>5. OthersDismissed'
  BY DEF OthersDismissed
<1>6. OneStanding'
  <2>1. Standing' \subseteq Standing
    BY DEF Standing, Live, OnItsWayOut
  <2> QED
    BY <2>1 DEF OneStanding
<1> QED
  BY <1>2, <1>3, <1>4, <1>5, <1>6

(* A request that reads, or writes no more than a day and a status.        *)
LEMMA OfficeLeavesBooking ==
    ASSUME QuietStep, UNCHANGED <<leaving, import, visit, syncer>>,
           stop'.insp = stop.insp, stop'.visit = stop.visit,
           \A i \in Inspection : insp'[i].state = insp[i].state /\ insp'[i].visit = insp[i].visit,
           worker' = worker \/ (worker.task = "move" /\ worker' = [worker EXCEPT !.rearmed = TRUE]),
           listing' = "due" => listing = "due" \/ (stop.insp = None /\ stop.visit = None /\ ~OnItsWayOut),
           RequestsFresh'
    PROVE  BookingInv'
<1> USE DEF QuietStep, BookingInv, PeopleInv
<1>1. /\ worker'.stage = worker.stage /\ worker'.task = worker.task
      /\ worker'.new = worker.new /\ worker'.old = worker.old
  BY DEF WellTyped, PeopleTyped, WorkType
<1>2. Current' = Current
  BY <1>1 DEF Current, WellTyped, RowsTyped, StopRow
<1>3. RowsInv'
  <2>1. \A v \in Visit : Dismissed(v) => Dismissed(v)'
    BY DEF Dismissed
  <2> QED
    BY <1>2, <2>1, RowsStay DEF OnItsWayOut
<1>4. WorkFresh'
  <2>1. CASE worker' = worker
    BY <2>1, WorkStaysFresh DEF WorkFresh
  <2>2. CASE worker.task = "move"
    BY <1>1, <2>2 DEF WorkFresh, Leaving, WellTyped, WorkInHand
  <2> QED
    BY <2>1, <2>2
<1>5. ListedAlone'
  BY <1>1 DEF ListedAlone, OnItsWayOut
<1>6. ImportFree'
  BY ImportUndisturbed
<1> QED
  BY <1>3, <1>4, <1>5, <1>6

-----------------------------------------------------------------------------
(* Every step keeps the booking                                            *)

LEMMA PublishingKeepsBooking ==
    ASSUME QuietStep, NEW c \in Coordinator,
           \/ Claim(c) \/ ReadBatch(c) \/ FinishPlan(c) \/ QueueUnscheduled(c) \/ StopWaits(c) \/ StopTriedAgain(c)
           \/ AdoptImported(c) \/ StopAsked(c) \/ MakeInspection(c) \/ AdoptExisting(c) \/ StopFails(c)
    PROVE  BookingInv'
<1> USE DEF OfficeOnly, console
<1> DEFINE r == office[c]
<1>0. /\ WellTyped /\ BookingInv /\ RowsTyped /\ stop \in StopRow /\ office \in [Coordinator -> RequestType]
      /\ RequestFresh(c) /\ \A d \in Coordinator : office[d].stage = "create" => ~OnItsWayOut
  BY DEF QuietStep, WellTyped, RowsTyped, PeopleTyped, BookingInv, PeopleInv, RequestsFresh, RequestFresh
<1>1. CASE Claim(c)
  <2>1. RequestFresh(c)'
    BY <1>0, <1>1 DEF Claim, Request, RequestFresh, NoRequest
  <2>2. RequestsFresh'
    BY <1>0, <1>1, <2>1, RequestsStayFresh DEF Claim, OnItsWayOut
  <2>3. stop'.insp = stop.insp /\ stop'.visit = stop.visit
    BY <1>0, <1>1 DEF Claim, StopRow
  <2> QED
    BY <1>1, <2>2, <2>3, OfficeLeavesBooking DEF Claim
<1>2. CASE ReadBatch(c)
  <2>1. RequestFresh(c)'
    BY <1>0, <1>2 DEF ReadBatch, Publishable, Request, RequestFresh, RequestType
  <2>2. RequestsFresh'
    BY <1>0, <1>2, <2>1, RequestsStayFresh DEF ReadBatch, OnItsWayOut
  <2> QED
    BY <1>2, <2>2, OfficeLeavesBooking DEF ReadBatch
<1>3. CASE FinishPlan(c)
  <2>1. RequestFresh(c)'
    BY <1>0, <1>3 DEF FinishPlan, Request, RequestFresh, NoRequest
  <2>2. RequestsFresh'
    BY <1>0, <1>3, <2>1, RequestsStayFresh DEF FinishPlan, OnItsWayOut
  <2> QED
    BY <1>3, <2>2, OfficeLeavesBooking DEF FinishPlan
<1>d. ASSUME NEW outcome, StopDone(c, outcome), OnItsWayOut' = OnItsWayOut
      PROVE  RequestsFresh'
  <2>1. RequestFresh(c)'
    BY <1>0, <1>d, DoneIsFresh
  <2> QED
    BY <1>0, <1>d, <2>1, RequestsStayFresh DEF StopDone
<1>4. CASE QueueUnscheduled(c)
  <2>1. RequestsFresh'
    BY <1>4, <1>d DEF QueueUnscheduled, OnItsWayOut
  <2>2. stop'.insp = stop.insp /\ stop'.visit = stop.visit
    BY <1>0, <1>4 DEF QueueUnscheduled, StopRow
  <2>3. listing' = "due" => listing = "due" \/ (stop.insp = None /\ stop.visit = None /\ ~OnItsWayOut)
    BY <1>0, <1>4 DEF QueueUnscheduled, RequestFresh, OnItsWayOut
  <2> QED
    BY <1>4, <2>1, <2>2, <2>3, OfficeLeavesBooking DEF QueueUnscheduled
<1>5. CASE StopWaits(c)
  <2>1. RequestsFresh'
    BY <1>5, <1>d DEF StopWaits, OnItsWayOut
  <2> QED
    BY <1>5, <2>1, OfficeLeavesBooking DEF StopWaits
<1>6. CASE StopTriedAgain(c)
  <2>1. /\ OnItsWayOut /\ OnItsWayOut' /\ leaving'.visit = leaving.visit /\ leaving'.status = "due"
        /\ stop'.insp = stop.insp /\ stop'.visit = stop.visit
    BY <1>0, <1>6 DEF StopTriedAgain, OnItsWayOut, RowsTyped, LeavingRow, StopRow
  <2>2. RequestsFresh'
    BY <1>6, <1>d, <2>1 DEF StopTriedAgain
  <2>3. Current' = Current
    BY <1>6, <2>1 DEF StopTriedAgain, Current
  <2>4. RowsInv'
    BY <1>0, <1>6, <2>1, <2>3, RowsStay DEF StopTriedAgain, BookingInv, Dismissed
  <2>5. WorkFresh'
    BY <1>0, <1>6, <2>1, WorkStaysFresh DEF StopTriedAgain, BookingInv, PeopleInv, WorkFresh
  <2>6. ListedAlone'
    BY <1>0, <1>6, <2>1 DEF StopTriedAgain, BookingInv, PeopleInv, ListedAlone
  <2>7. ImportFree'
    BY <1>0, <1>6, ImportUndisturbed DEF StopTriedAgain, BookingInv, PeopleInv, QuietStep
  <2> QED
    BY <2>2, <2>4, <2>5, <2>6, <2>7 DEF BookingInv, PeopleInv
<1>7. CASE AdoptImported(c) \/ AdoptExisting(c) \/ StopFails(c)
  <2>1. Scheduled # {}
    BY <1>7 DEF AdoptImported, AdoptExisting, StopFails, OnDay, OfVisit
  <2>2. stop.insp = None
    BY <1>0, <1>7 DEF AdoptImported, AdoptExisting, StopFails, RequestFresh
  <2> QED
    BY <1>0, <2>1, <2>2, UnbookedAlone
<1>8. CASE StopAsked(c)
  <2>1. RequestFresh(c)'
    BY <1>0, <1>8 DEF StopAsked, Request, RequestFresh, RequestType, OnItsWayOut
  <2>2. RequestsFresh'
    BY <1>0, <1>8, <2>1, RequestsStayFresh DEF StopAsked, OnItsWayOut
  <2> QED
    BY <1>8, <2>2, OfficeLeavesBooking DEF StopAsked
<1>9. CASE MakeInspection(c)
  <2>1. stop.insp = None /\ stop.visit = r.visit /\ ~OnItsWayOut /\ Scheduled = {}
    BY <1>0, <1>9, UnbookedAlone DEF MakeInspection, RequestFresh
  <2>2. listing # "due"
    BY <1>9 DEF MakeInspection, StillListed, QuietStep
  <2>3. PICK i \in NextInspection :
          /\ insp' = [insp EXCEPT ![i] = NewlyMade(r)]
          /\ import' = IF r.visit = None THEN import
                       ELSE [import EXCEPT ![r.visit].status = "IMPORTED", ![r.visit].insp = i]
          /\ stop' = [stop EXCEPT !.status = "PUBLISHED", !.insp = i]
    BY <1>9 DEF MakeInspection
  <2>4. i \in Inspection /\ i # None
    BY Sentinels DEF NextInspection
  <2>5. /\ insp'[i].state = "scheduled" /\ insp'[i].visit = r.visit
        /\ \A j \in Inspection \ {i} : insp'[j] = insp[j]
    BY <1>0, <2>3, <2>4 DEF RowsTyped, NewlyMade
  <2>6. stop'.insp = i /\ stop'.visit = stop.visit
    BY <1>0, <2>3 DEF StopRow
  <2>7. Scheduled' = {i}
    BY <2>1, <2>4, <2>5 DEF Scheduled, Made
  <2>8. UNCHANGED <<listing, leaving, visit, worker, syncer>>
    BY <1>9 DEF MakeInspection
  <2>9. worker.stage \notin {"create", "write"} /\ ~Leaving
    BY <1>0, <2>1, <2>2, UnbookedAlone DEF BookingInv, PeopleInv, WorkFresh, Leaving, OnItsWayOut
  <2>10. Current = r.visit /\ Current' = r.visit
    BY <2>1, <2>4, <2>5, <2>6, <2>8, <2>9 DEF Current
  <2>11. \A v \in Visit \ {r.visit} : Dismissed(v) => Dismissed(v)'
    BY <1>0, <2>3 DEF Dismissed, RowsTyped
  <2>12. RowsInv'
    <3>1. OneInspection' /\ StopKnowsItsVisit'
      BY <2>1, <2>5, <2>6, <2>7, <2>8 DEF OneInspection, StopKnowsItsVisit, OnItsWayOut
    <3>2. LeavingDismissed' /\ OneStanding'
      BY <1>0, <2>1, <2>8, <2>10 DEF BookingInv, RowsInv, LeavingDismissed, OneStanding, Standing, Live, OnItsWayOut
    <3>3. OthersDismissed'
      BY <1>0, <2>8, <2>10, <2>11 DEF BookingInv, RowsInv, OthersDismissed
    <3> QED
      BY <3>1, <3>2, <3>3 DEF RowsInv
  <2>13. RequestsFresh'
    BY <1>9, <1>d, <2>8 DEF MakeInspection, OnItsWayOut
  <2>14. WorkFresh'
    BY <2>8, <2>9, WorkStaysFresh
  <2>15. ListedAlone' /\ ImportFree'
    BY <1>0, <2>2, <2>8, ImportUndisturbed DEF ListedAlone, QuietStep, BookingInv, PeopleInv
  <2> QED
    BY <2>12, <2>13, <2>14, <2>15 DEF BookingInv, PeopleInv
<1> QED
  BY <1>1, <1>2, <1>3, <1>4, <1>5, <1>6, <1>7, <1>8, <1>9

LEMMA ByHandKeepsBooking ==
    ASSUME QuietStep, NEW c \in Coordinator,
           \/ EditWrites(c) \/ PlaceOne(c) \/ Unlist(c) \/ RescheduleWrites(c) \/ RescheduleRefused(c)
           \/ Unschedule(c) \/ UnscheduleBooked(c) \/ UnscheduleRefused(c) \/ ClearDay(c) \/ DayCleared(c)
           \/ \E d \in Day : EditStop(c, d) \/ Reschedule(c, d)
    PROVE  BookingInv'
<1> USE DEF OfficeOnly, console
<1> DEFINE r == office[c]
<1>0. /\ WellTyped /\ BookingInv /\ RowsTyped /\ stop \in StopRow /\ office \in [Coordinator -> RequestType]
      /\ RequestFresh(c) /\ \A d \in Coordinator : office[d].stage = "create" => ~OnItsWayOut
  BY DEF QuietStep, WellTyped, RowsTyped, PeopleTyped, BookingInv, PeopleInv, RequestsFresh, RequestFresh
<1>f. ASSUME NEW new, Request(c, new), RequestFresh(c)', leaving' = leaving
      PROVE  RequestsFresh'
  BY <1>0, <1>f, RequestsStayFresh DEF OnItsWayOut
<1>1. CASE EditWrites(c) \/ DayCleared(c)
  <2>1. RequestFresh(c)'
    BY <1>0, <1>1 DEF EditWrites, DayCleared, Request, RequestFresh, RequestType, NoRequest
  <2>2. RequestsFresh'
    BY <1>1, <1>f, <2>1 DEF EditWrites, DayCleared
  <2>3. stop'.insp = stop.insp /\ stop'.visit = stop.visit
    BY <1>0, <1>1 DEF EditWrites, DayCleared, StopRow
  <2> QED
    BY <1>1, <2>2, <2>3, OfficeLeavesBooking DEF EditWrites, DayCleared
<1>2. CASE PlaceOne(c)
  <2>1. RequestFresh(c)'
    <3>1. CASE Request(c, NoRequest)
      BY <1>0, <3>1 DEF Request, RequestFresh, NoRequest
    <3>2. CASE stop.insp = None /\ Request(c, [r EXCEPT !.stage = "unlist", !.day = stop.day, !.visit = stop.visit])
      <4>1. /\ office'[c].stage = "unlist" /\ office'[c].day = stop.day /\ office'[c].visit = stop.visit
        BY <1>0, <3>2 DEF Request, RequestType
      <4> QED
        BY <1>2, <3>2, <4>1 DEF PlaceOne, RequestFresh
    <3> QED
      BY <1>2, <3>1, <3>2 DEF PlaceOne
  <2>2. RequestsFresh'
    BY <1>2, <1>f, <2>1 DEF PlaceOne
  <2> QED
    BY <1>2, <2>2, OfficeLeavesBooking DEF PlaceOne
<1>3. CASE Unlist(c)
  <2>1. RequestFresh(c)'
    BY <1>0, <1>3 DEF Unlist, Request, RequestFresh, RequestType
  <2>2. RequestsFresh'
    BY <1>3, <1>f, <2>1 DEF Unlist
  <2> QED
    BY <1>3, <2>2, OfficeLeavesBooking DEF Unlist
<1>4. CASE RescheduleWrites(c)
  <2>1. RequestFresh(c)'
    BY <1>0, <1>4 DEF RescheduleWrites, Request, RequestFresh, NoRequest
  <2>2. RequestsFresh'
    BY <1>4, <1>f, <2>1 DEF RescheduleWrites
  <2>3. stop'.insp = stop.insp /\ stop'.visit = stop.visit
    BY <1>0, <1>4 DEF RescheduleWrites, StopFollows, StopRow
  <2>4. \A i \in Inspection : insp'[i].state = insp[i].state /\ insp'[i].visit = insp[i].visit
    BY <1>0, <1>4 DEF RescheduleWrites, RowsTyped, InspectionRow
  <2>5. worker' = worker \/ (worker.task = "move" /\ worker' = [worker EXCEPT !.rearmed = TRUE])
    BY <1>4 DEF RescheduleWrites
  <2> QED
    BY <1>4, <2>2, <2>3, <2>4, <2>5, OfficeLeavesBooking DEF RescheduleWrites
<1>5. CASE RescheduleRefused(c) \/ UnscheduleRefused(c)
  <2>1. RequestFresh(c)'
    BY <1>0, <1>5 DEF RescheduleRefused, UnscheduleRefused, Request, RequestFresh, NoRequest
  <2>2. RequestsFresh'
    BY <1>5, <1>f, <2>1 DEF RescheduleRefused, UnscheduleRefused
  <2> QED
    BY <1>5, <2>2, OfficeLeavesBooking DEF RescheduleRefused, UnscheduleRefused
<1>6. CASE Unschedule(c) \/ ClearDay(c)
  <2>1. RequestFresh(c)'
    BY <1>0, <1>6 DEF Unschedule, ClearDay, Request, RequestFresh, NoRequest
  <2>2. RequestsFresh'
    BY <1>6, <1>f, <2>1 DEF Unschedule, ClearDay
  <2> QED
    BY <1>6, <2>2, OfficeLeavesBooking DEF Unschedule, ClearDay
<1>7. ASSUME NEW d \in Day, EditStop(c, d) \/ Reschedule(c, d) PROVE BookingInv'
  <2>1. RequestFresh(c)'
    <3>1. office'[c].stage \in {"draft", "edit", "move"}
      <4>1. CASE EditStop(c, d)
        BY <1>0, <4>1 DEF EditStop, Request, NoRequest
      <4>2. CASE Reschedule(c, d)
        BY <1>0, <4>2 DEF Reschedule, Request, NoRequest
      <4> QED
        BY <1>7, <4>1, <4>2
    <3> QED
      BY <3>1 DEF RequestFresh
  <2>2. RequestsFresh'
    BY <1>7, <1>f, <2>1 DEF EditStop, Reschedule
  <2> QED
    BY <1>7, <2>2, OfficeLeavesBooking DEF EditStop, Reschedule
<1>8. CASE UnscheduleBooked(c)
  <2> DEFINE i == r.insp
  <2>1. Made(i) /\ i \in Inspection /\ r.visit \in Visit \cup {None}
    BY <1>0, <1>8 DEF UnscheduleBooked, Made, RequestType
  <2>2. stop.insp = i /\ i # None /\ insp[i].visit = r.visit
    BY <1>0, <1>8, <2>1 DEF UnscheduleBooked, RequestFresh, BookingInv, RowsInv, OneInspection, Scheduled, Made
  <2>3. /\ Scheduled = {i} /\ listing # "due"
        /\ worker.stage # "idle" => worker.task # "list"
        /\ worker.stage \in {"create", "write"} => worker.task = "book" /\ worker.insp = i
    BY <1>0, <2>2, BookedAlone
  <2>4. UNCHANGED <<listing, visit, worker, syncer>> /\ insp' = [insp EXCEPT ![i] = Erased]
    BY <1>8 DEF UnscheduleBooked
  <2>5. insp'[i].state = "erased" /\ \A j \in Inspection \ {i} : insp'[j] = insp[j]
    BY <1>0, <2>1, <2>4 DEF RowsTyped, Erased, Unmade
  <2>6. Scheduled' = {}
    BY <2>3, <2>5 DEF Scheduled, Made
  <2>7. stop'.insp = None /\ stop'.visit = None
    BY <1>8 DEF UnscheduleBooked, OffItsDay
  <2>8. worker.stage \notin {"create", "write"}
    BY <2>1, <2>3, <2>4, <2>5, WorkerUndisturbed DEF QuietStep, Made
  <2>9. Current = r.visit /\ Current' = None
    BY <2>2, <2>4, <2>7, <2>8 DEF Current
  <2>10. ~OnItsWayOut
    <3>1. OnItsWayOut => r.visit \notin {None, leaving.visit}
      BY <1>0, <2>2 DEF BookingInv, RowsInv, StopKnowsItsVisit
    <3>2. OnItsWayOut /\ r.visit # None /\ leaving.visit # r.visit => "replaced" \in history'
      BY <1>8 DEF UnscheduleBooked, OnItsWayOut
    <3> QED
      BY <3>1, <3>2 DEF QuietStep
  <2> PICK w \in Visit \cup {None} : w = r.visit
    BY <2>1
  <2>11. \A v \in Visit : Dismissed(v) \/ v = w => Dismissed(v)'
    <3>1. \A v \in Visit : Dismissed(v) => Dismissed(v)'
      BY <1>0, <1>8 DEF UnscheduleBooked, Dismissed, RowsTyped
    <3>2. w # None => Dismissed(w)'
      <4>1. w # None => w \in Visit /\ import[w].status # "none"
        BY <1>0, <2>1, <2>2, <2>3 DEF WellTyped, RowsKept
      <4>2. w # None => import' = [import EXCEPT ![w].status = "IGNORED", ![w].insp = None]
        BY <1>8, <4>1 DEF UnscheduleBooked
      <4> QED
        BY <1>0, <4>1, <4>2 DEF Dismissed, RowsTyped, ImportRow
    <3> QED
      BY <3>1, <3>2, Sentinels
  <2>12. leaving' = IF r.visit # None THEN [status |-> "due", visit |-> r.visit] ELSE leaving
    BY <1>8 DEF UnscheduleBooked
  <2>13. RowsInv'
    <3>1. OneInspection' /\ StopKnowsItsVisit'
      BY <2>6, <2>7 DEF OneInspection, StopKnowsItsVisit
    <3>2. LeavingDismissed'
      BY <1>0, <2>1, <2>4, <2>10, <2>11, <2>12 DEF BookingInv, RowsInv, LeavingDismissed, OnItsWayOut
    <3>3. OthersDismissed'
      BY <1>0, <2>4, <2>9, <2>11 DEF BookingInv, RowsInv, OthersDismissed
    <3>4. OneStanding'
      BY <1>0, <2>4, <2>9, <2>10, <2>12, Sentinels DEF BookingInv, RowsInv, OneStanding, Standing, Live, OnItsWayOut
    <3> QED
      BY <3>1, <3>2, <3>3, <3>4 DEF RowsInv
  <2>14. RequestsFresh'
    <3>1. RequestFresh(c)'
      BY <1>0, <1>8 DEF UnscheduleBooked, Request, RequestFresh, NoRequest
    <3>2. \A d \in Coordinator : office[d].stage # "create"
      BY <1>0, <2>2, BookedAlone
    <3> QED
      BY <1>8, <3>1, <3>2, RequestsStayFresh DEF UnscheduleBooked
  <2>15. WorkFresh'
    BY <2>4, <2>8, WorkStaysFresh
  <2>16. ListedAlone' /\ ImportFree'
    BY <1>0, <2>3, <2>4, ImportUndisturbed DEF ListedAlone, QuietStep, BookingInv, PeopleInv
  <2> QED
    BY <2>13, <2>14, <2>15, <2>16 DEF BookingInv, PeopleInv
<1> QED
  BY <1>1, <1>2, <1>3, <1>4, <1>5, <1>6, <1>7, <1>8

(* Who waits is as fresh as before while the office and the syncs wait.    *)
LEMMA OthersStay ==
    ASSUME QuietStep, UNCHANGED <<office, syncer>>,
           \A d \in Coordinator : office[d].stage = "create" => ~OnItsWayOut'
    PROVE  RequestsFresh' /\ ImportFree'
<1>1. ASSUME NEW d \in Coordinator PROVE RequestFresh(d)'
  BY <1>1, RequestStaysFresh DEF QuietStep, BookingInv, PeopleInv, RequestsFresh
<1> QED
  BY <1>1, ImportUndisturbed DEF QuietStep, BookingInv, PeopleInv, RequestsFresh

(* The worker reads, or hears from Jobber, and has no visit in its hands.  *)
LEMMA WorkerLeavesBooking ==
    ASSUME QuietStep, UNCHANGED <<stop, insp, listing, leaving, import, office, syncer>>,
           \A v \in Visit : /\ visit'[v].state # "unmade" => visit[v].state # "unmade" \/ Dismissed(v)
                            /\ visit'[v].state = "live" => visit[v].state = "live"
                            /\ visit[v].state = "deleted" => visit'[v].state = "deleted",
           worker.stage \notin {"write", "sent"}, worker'.stage # "write", WorkFresh'
    PROVE  BookingInv'
<1> USE DEF QuietStep, BookingInv, PeopleInv
<1>1. RowsInv'
  <2>1. Current' = Current
    BY DEF Current
  <2>2. \A v \in Visit : Dismissed(v) => Dismissed(v)'
    BY DEF Dismissed
  <2> QED
    BY <2>1, <2>2, RowsStay DEF OnItsWayOut
<1>2. RequestsFresh' /\ ImportFree'
  BY OthersStay DEF OnItsWayOut, RequestsFresh, RequestFresh
<1>3. ListedAlone'
  BY DEF ListedAlone, OnItsWayOut
<1> QED
  BY <1>1, <1>2, <1>3

LEMMA TaskSetKeepsBooking ==
    ASSUME QuietStep, NEW result \in {"due", "SENT", "ABANDONED"}, SetTask(result), worker' = NoWork,
           \/ result = "SENT" /\ worker.stage = "sent"
           \/ result # "SENT" /\ worker.stage = "failed",
           UNCHANGED <<plan, stop, import, visit, office, syncer>>
    PROVE  BookingInv'
<1>0. /\ WellTyped /\ RowsInv /\ RowsTyped /\ RequestsFresh /\ WorkFresh /\ ListedAlone
      /\ insp \in [Inspection -> InspectionRow] /\ leaving \in LeavingRow /\ worker \in WorkType
  BY DEF QuietStep, BookingInv, PeopleInv, WellTyped, RowsTyped, PeopleTyped
<1>1. \A i \in Inspection : insp'[i].state = insp[i].state /\ insp'[i].visit = insp[i].visit
  <2>1. CASE worker.task \in {"book", "move"}
    BY <1>0, <2>1 DEF SetTask, InspectionRow
  <2>2. CASE worker.task \notin {"book", "move"}
    BY <2>2 DEF SetTask
  <2> QED
    BY <2>1, <2>2
<1>2. Current' = Current
  BY <1>0, <1>1 DEF Current, NoWork, QuietStep, WellTyped, RowsTyped, StopRow, KeysHold, Made
<1>3. \A v \in Visit : Dismissed(v) => Dismissed(v)'
  BY DEF Dismissed
<1>4. OnItsWayOut' => OnItsWayOut
  BY <1>0 DEF SetTask, OnItsWayOut, WorkFresh, Leaving, LeavingRow
<1>5. CASE worker.task = "leave" /\ result = "SENT"
  <2>1. /\ visit[leaving.visit].state = "deleted" /\ leaving.status = "due"
        /\ leaving'.status = "SENT" /\ leaving'.visit = leaving.visit
    BY <1>0, <1>5 DEF SetTask, WorkFresh, Leaving, LeavingRow
  <2>2. RowsInv'
    <3>1. OneInspection'
      BY <1>0, <1>1 DEF RowsInv, OneInspection, Scheduled, Made
    <3>2. StopKnowsItsVisit'
      BY <1>0, <1>1, <1>4 DEF RowsInv, StopKnowsItsVisit, WellTyped, KeysHold, RowsTyped, StopRow, OnItsWayOut, SetTask
    <3>3. LeavingDismissed'
      BY <2>1 DEF LeavingDismissed, OnItsWayOut
    <3>4. OthersDismissed'
      BY <1>0, <1>2, <1>3 DEF RowsInv, OthersDismissed
    <3>5. OneStanding'
      BY <1>0, <1>2, <2>1 DEF RowsInv, OneStanding, Standing, Live, OnItsWayOut
    <3> QED
      BY <3>1, <3>2, <3>3, <3>4, <3>5 DEF RowsInv
  <2> QED
    BY <1>0, <1>4, <1>5, <2>2, OthersStay
       DEF BookingInv, PeopleInv, WorkFresh, Leaving, NoWork, ListedAlone, SetTask, RequestsFresh, RequestFresh
<1>6. CASE ~(worker.task = "leave" /\ result = "SENT")
  <2>1. /\ leaving'.visit = leaving.visit /\ (OnItsWayOut' <=> OnItsWayOut)
        /\ leaving'.status = "SENT" => leaving.status = "SENT"
    BY <1>0, <1>6 DEF SetTask, WorkFresh, Leaving, LeavingRow, OnItsWayOut
  <2>2. RowsInv'
    BY <1>0, <1>1, <1>2, <1>3, <2>1, RowsStay DEF OnItsWayOut
  <2>3. RequestsFresh' /\ ImportFree'
    BY <1>0, <1>4, OthersStay DEF RequestsFresh, RequestFresh
  <2>4. WorkFresh'
    BY DEF WorkFresh, Leaving, NoWork
  <2>5. ListedAlone'
    BY <1>0, <1>4 DEF ListedAlone, SetTask, WorkFresh
  <2> QED
    BY <2>2, <2>3, <2>4, <2>5 DEF BookingInv, PeopleInv
<1> QED
  BY <1>5, <1>6

LEMMA WorkerKeepsBooking ==
    ASSUME QuietStep, WorkerGoesOn \/ CreateUnheard \/ CallFails
    PROVE  BookingInv'
<1> USE DEF WorkerOnly, console
<1>0. /\ WellTyped /\ BookingInv /\ RowsInv /\ WorkFresh /\ ListedAlone /\ WorkInHand
      /\ RowsTyped /\ stop \in StopRow /\ leaving \in LeavingRow /\ visit \in [Visit -> JobberVisit] /\ worker \in WorkType
  BY DEF QuietStep, WellTyped, RowsTyped, PeopleTyped, BookingInv, PeopleInv
<1>1. CASE Pick
  <2>1. worker' \in DueWork
    BY <1>1 DEF Pick
  <2>2. worker'.stage = "read" /\ WorkFresh'
    BY <1>1, <2>1 DEF Pick, DueWork, NoWork, WorkFresh, Leaving
  <2> QED
    BY <1>1, <2>2, WorkerLeavesBooking DEF Pick
<1>2. CASE ListReads
  <2>1. stop.insp = None /\ stop.visit = None
    BY <1>0, <1>2 DEF ListReads, WorkFresh, ListedAlone
  <2>2. worker'.stage = "create" /\ worker'.task = "list"
    BY <1>0, <1>2, <2>1 DEF ListReads, Works, QuietStep, WorkType
  <2>3. WorkFresh'
    BY <1>0, <1>2, <2>1, <2>2 DEF ListReads, WorkFresh, Leaving
  <2> QED
    BY <1>2, <2>2, <2>3, WorkerLeavesBooking DEF ListReads
<1>3. CASE LeaveReads
  <2>1. OnItsWayOut /\ leaving.status = "due" /\ leaving.visit = worker.old
    BY <1>0, <1>3 DEF LeaveReads, WorkFresh, Leaving, OnItsWayOut
  <2>2. stop.visit \in {None, worker.old} => stop.insp = None
    BY <1>0, <2>1 DEF RowsInv, StopKnowsItsVisit
  <2>3. /\ worker'.stage = IF stop.visit \in {None, worker.old} THEN "create" ELSE "delete"
        /\ worker'.task = "leave" /\ worker'.old = worker.old
    BY <1>0, <1>3 DEF LeaveReads, Works, WorkType
  <2>4. WorkFresh'
    BY <1>3, <2>1, <2>2, <2>3 DEF LeaveReads, WorkFresh, Leaving
  <2> QED
    BY <1>3, <2>3, <2>4, WorkerLeavesBooking DEF LeaveReads
<1>4. CASE BookReads
  <2>1. /\ worker'.stage = IF stop.insp # worker.insp \/ ~Made(worker.insp) THEN "failed"
                           ELSE IF BookedAlready(worker.insp) THEN "sent" ELSE "create"
        /\ worker'.task = "book" /\ worker'.insp = worker.insp
    BY <1>0, <1>4 DEF BookReads, WorkType
  <2>2. WorkFresh'
    BY <1>4, <2>1 DEF BookReads, BookedAlready, WorkFresh, Leaving, Made
  <2> QED
    BY <1>4, <2>1, <2>2, WorkerLeavesBooking DEF BookReads
<1>5. CASE MoveReads
  <2>1. worker'.stage \in {"push", "failed"} /\ worker'.task = "move"
    BY <1>0, <1>5 DEF MoveReads, WorkType
  <2>2. WorkFresh'
    BY <2>1 DEF WorkFresh, Leaving
  <2> QED
    BY <1>5, <2>1, <2>2, WorkerLeavesBooking DEF MoveReads
<1>6. CASE CreateVisit
  <2>1. PICK v \in NextVisit : /\ visit' = [visit EXCEPT ![v] = [state |-> "live", day |-> worker.day]]
                               /\ worker' = [worker EXCEPT !.stage = "write", !.new = v]
    BY <1>6 DEF CreateVisit
  <2>2. v \in Visit /\ visit[v].state = "unmade" /\ v # None
    BY Sentinels DEF NextVisit
  <2>3. /\ visit'[v].state = "live" /\ \A w \in Visit \ {v} : visit'[w] = visit[w]
        /\ worker'.stage = "write" /\ worker'.new = v
        /\ worker'.task = worker.task /\ worker'.insp = worker.insp /\ worker'.old = worker.old
    BY <1>0, <2>1, <2>2 DEF WorkType
  <2>4. UNCHANGED <<stop, insp, listing, leaving, import, office, syncer>> /\ worker.stage = "create"
    BY <1>6 DEF CreateVisit
  <2>5. Current = None \/ (leaving.status = "due" /\ Current = leaving.visit)
    BY <1>0, <2>4, NoneWhileMade
  <2>6. Current' = v
    BY <2>3 DEF Current
  <2>7. OneInspection' /\ StopKnowsItsVisit'
    BY <1>0, <2>4 DEF RowsInv, OneInspection, StopKnowsItsVisit, Scheduled, Made, OnItsWayOut
  <2>8. LeavingDismissed'
    BY <1>0, <2>2, <2>3, <2>4 DEF RowsInv, LeavingDismissed, OnItsWayOut, Dismissed, WellTyped, RowsKept
  <2>9. OthersDismissed'
    <3>1. ASSUME NEW w \in Visit, visit'[w].state # "unmade", w # v PROVE Dismissed(w)
      BY <1>0, <2>3, <2>5, <3>1, Sentinels DEF RowsInv, OthersDismissed, LeavingDismissed, OnItsWayOut
    <3> QED
      BY <2>4, <2>6, <3>1 DEF OthersDismissed, Dismissed
  <2>10. OneStanding'
    <3>1. Standing = {}
      BY <1>0, <2>5, Sentinels DEF RowsInv, OneStanding, Standing
    <3>2. Standing' \subseteq Standing \cup {v}
      BY <2>2, <2>3, <2>4 DEF Standing, Live
    <3> QED
      BY <2>6, <3>1, <3>2 DEF OneStanding
  <2>11. WorkFresh'
    BY <1>0, <2>3, <2>4 DEF WorkFresh, Leaving, Made
  <2>12. ListedAlone'
    BY <1>0, <2>4 DEF ListedAlone, OnItsWayOut
  <2>13. RequestsFresh' /\ ImportFree'
    BY <1>0, <2>4, OthersStay DEF OnItsWayOut, BookingInv, PeopleInv, RequestsFresh, RequestFresh
  <2> QED
    BY <2>7, <2>8, <2>9, <2>10, <2>11, <2>12, <2>13 DEF BookingInv, RowsInv, PeopleInv
<1>7. CASE CreateUnheard
  BY <1>7 DEF CreateUnheard, QuietStep
<1>8. CASE PushDay
  <2>1. worker'.stage \in {"sent", "failed"} /\ worker'.task = "move"
    BY <1>0, <1>8 DEF PushDay, Works, WorkType, WorkInHand
  <2>2. \A w \in Visit : visit'[w].state = visit[w].state
    BY <1>0, <1>8 DEF PushDay, Live, JobberVisit
  <2>3. WorkFresh'
    BY <2>1 DEF WorkFresh, Leaving
  <2> QED
    BY <1>8, <2>1, <2>2, <2>3, WorkerLeavesBooking DEF PushDay
<1>9. CASE DeleteVisit
  <2>1. worker.task = "leave" /\ worker.old \in Visit
    BY <1>0, <1>9 DEF DeleteVisit, WorkInHand, Leaving
  <2>2. worker'.stage \in {"sent", "failed"} /\ worker'.task = "leave" /\ worker'.old = worker.old
    BY <1>0, <1>9, <2>1 DEF DeleteVisit, Works, WorkType
  <2>3. /\ visit'[worker.old].state = "deleted"
        /\ \A w \in Visit \ {worker.old} : visit'[w] = visit[w]
    BY <1>0, <1>9, <2>1 DEF DeleteVisit, JobberVisit
  <2>4. WorkFresh'
    BY <1>0, <1>9, <2>1, <2>2, <2>3 DEF DeleteVisit, WorkFresh, Leaving
  <2>5. Dismissed(worker.old)
    BY <1>0, <1>9, <2>1 DEF DeleteVisit, RowsInv, LeavingDismissed, OnItsWayOut, WorkFresh, Leaving
  <2> QED
    BY <1>9, <2>2, <2>3, <2>4, <2>5, WorkerLeavesBooking DEF DeleteVisit
<1>10. CASE CallFails
  <2>1. worker'.stage = "failed" /\ worker'.task = worker.task /\ worker'.old = worker.old
    BY <1>0, <1>10 DEF CallFails, Works, WorkType
  <2>2. WorkFresh'
    BY <1>0, <1>10, <2>1 DEF CallFails, WorkFresh, Leaving
  <2> QED
    BY <1>10, <2>1, <2>2, WorkerLeavesBooking DEF CallFails
<1>11. CASE VisitOnStop
  <2>1. /\ worker.stage = "write" /\ worker.task \in {"list", "leave"} /\ stop.insp = None
        /\ worker.task = "list" => listing = "due"
    BY <1>0, <1>11 DEF VisitOnStop, WorkFresh
  <2>2. /\ stop' = [stop EXCEPT !.visit = worker.new]
        /\ Works(IF worker.task = "list" THEN "sent" ELSE "delete")
        /\ UNCHANGED <<insp, listing, leaving, import, visit, office, syncer>>
    BY <1>11, <2>1 DEF VisitOnStop
  <2>3. /\ stop'.insp = None /\ stop'.visit = worker.new
        /\ worker'.stage = IF worker.task = "list" THEN "sent" ELSE "delete"
        /\ worker'.task = worker.task /\ worker'.old = worker.old
    BY <1>0, <2>1, <2>2 DEF StopRow, Works, WorkType
  <2>4. Current' = Current
    BY <2>1, <2>3 DEF Current
  <2>5. RowsInv'
    BY <1>0, <2>1, <2>2, <2>3, <2>4, RowsStay DEF OnItsWayOut, Dismissed
  <2>6. RequestsFresh' /\ ImportFree'
    BY <1>0, <2>2, OthersStay DEF OnItsWayOut, BookingInv, PeopleInv, RequestsFresh, RequestFresh
  <2>7. WorkFresh'
    BY <1>0, <2>1, <2>2, <2>3 DEF WorkFresh, Leaving
  <2>8. ListedAlone'
    BY <1>0, <2>1, <2>2, <2>3 DEF ListedAlone, WorkFresh, Leaving, OnItsWayOut
  <2> QED
    BY <2>5, <2>6, <2>7, <2>8 DEF BookingInv, PeopleInv
<1>12. CASE ClaimVisit
  <2> PICK i \in Inspection, v \in Visit : i = worker.insp /\ v = worker.new
    BY <1>0, <1>12 DEF ClaimVisit, WorkInHand
  <2>1. worker.stage = "write" /\ worker.task = "book" /\ Made(i) /\ insp[i].visit = None
    BY <1>0, <1>12 DEF ClaimVisit, WorkFresh
  <2>2. stop.insp = i /\ i # None
    BY <1>0, <2>1 DEF RowsInv, OneInspection, Scheduled, Made
  <2>3. Scheduled = {i} /\ listing # "due"
    BY <1>0, <2>2, BookedAlone
  <2>4. /\ insp' = [insp EXCEPT ![i].visit = v]
        /\ import' = [import EXCEPT ![v].status = "IMPORTED", ![v].insp = i]
        /\ Works("sent")
        /\ UNCHANGED <<stop, listing, leaving, visit, office, syncer>>
    BY <1>12, <2>1, <2>3 DEF ClaimVisit, OfVisit
  <2>5. /\ insp'[i].visit = v /\ insp'[i].state = insp[i].state
        /\ \A j \in Inspection \ {i} : insp'[j] = insp[j]
        /\ worker'.stage = "sent" /\ worker'.task = "book"
    BY <1>0, <2>1, <2>4 DEF RowsTyped, InspectionRow, Works, WorkType
  <2>6. Scheduled' = {i}
    BY <2>3, <2>5 DEF Scheduled, Made
  <2>7. Current = v /\ Current' = v
    BY <2>1, <2>2, <2>4, <2>5 DEF Current
  <2>8. \A w \in Visit : Dismissed(w) => Dismissed(w)'
    BY <1>0, <2>2, <2>4 DEF Dismissed, RowsTyped
  <2>9. stop.visit = None /\ ~OnItsWayOut
    BY <1>0, <2>1, <2>2 DEF RowsInv, StopKnowsItsVisit
  <2>10. RowsInv'
    <3>1. OneInspection' /\ StopKnowsItsVisit' /\ LeavingDismissed'
      BY <1>0, <2>2, <2>4, <2>6, <2>9 DEF RowsInv, OneInspection, StopKnowsItsVisit, LeavingDismissed, OnItsWayOut
    <3>2. OthersDismissed' /\ OneStanding'
      BY <1>0, <2>4, <2>7, <2>8 DEF RowsInv, OthersDismissed, OneStanding, Standing, Live, OnItsWayOut
    <3> QED
      BY <3>1, <3>2 DEF RowsInv
  <2>11. RequestsFresh' /\ ImportFree'
    BY <1>0, <2>4, OthersStay DEF OnItsWayOut, BookingInv, PeopleInv, RequestsFresh, RequestFresh
  <2>12. WorkFresh' /\ ListedAlone'
    BY <2>3, <2>4, <2>5 DEF WorkFresh, Leaving, ListedAlone
  <2> QED
    BY <2>10, <2>11, <2>12 DEF BookingInv, PeopleInv
<1>13. CASE MarkSent \/ MarkFailed
  BY <1>13, TaskSetKeepsBooking DEF MarkSent, MarkFailed
<1> QED
  BY <1>1, <1>2, <1>3, <1>4, <1>5, <1>6, <1>7, <1>8, <1>9, <1>10, <1>11, <1>12, <1>13 DEF WorkerGoesOn

LEMMA SyncKeepsBooking ==
    ASSUME QuietStep, SyncGoesOn \/ \E v \in Visit : FetchVisit(v)
    PROVE  BookingInv'
<1> USE DEF SyncOnly, console
<1>0. /\ WellTyped /\ BookingInv /\ RowsInv /\ WorkFresh /\ ListedAlone /\ ImportFree
      /\ RowsTyped /\ stop \in StopRow /\ import \in [Visit -> ImportRow] /\ insp \in [Inspection -> InspectionRow]
      /\ syncer \in SyncType /\ worker \in WorkType /\ ~ChangedUnder
  BY DEF QuietStep, WellTyped, RowsTyped, PeopleTyped, BookingInv, PeopleInv
<1>v. syncer.stage # "idle" => syncer.visit \in Visit /\ visit[syncer.visit].state # "unmade"
  BY <1>0 DEF WellTyped, RowsKept
<1>f. ASSUME UNCHANGED <<office, leaving>> PROVE RequestsFresh'
  <2>1. ASSUME NEW c \in Coordinator PROVE RequestFresh(c)'
    BY <1>f, <2>1, RequestStaysFresh
       DEF QuietStep, BookingInv, PeopleInv, RequestsFresh, RequestFresh, OnItsWayOut
  <2> QED
    BY <2>1 DEF RequestsFresh
<1>q. ASSUME UNCHANGED <<office, worker, leaving, listing, visit>>, stop'.insp = stop.insp, stop'.visit = stop.visit,
             \A i \in Inspection : insp'[i].state = insp[i].state /\ insp'[i].visit = insp[i].visit,
             \A w \in Visit : Dismissed(w) => Dismissed(w)',
             ImportFree'
      PROVE  BookingInv'
  <2>1. Current' = Current
    BY <1>0, <1>q DEF Current, StopRow
  <2>2. RowsInv'
    BY <1>0, <1>q, <2>1, RowsStay DEF OnItsWayOut
  <2>3. WorkFresh'
    BY <1>0, <1>q, WorkStaysFresh DEF WorkFresh
  <2>4. ListedAlone'
    BY <1>0, <1>q DEF ListedAlone, OnItsWayOut
  <2> QED
    BY <1>f, <1>q, <2>2, <2>3, <2>4 DEF BookingInv, PeopleInv
<1>1. CASE LeftAlone \/ \E v \in Visit : FetchVisit(v)
  <2>1. syncer'.stage # "import"
    <3>1. CASE LeftAlone
      BY <3>1 DEF LeftAlone, NoSync
    <3>2. ASSUME NEW v \in Visit, FetchVisit(v) PROVE syncer'.stage # "import"
      <4>1. syncer' = [NoSync EXCEPT !.stage = "fetched", !.visit = v, !.day = visit[v].day]
        BY <3>2 DEF FetchVisit
      <4> QED
        BY <4>1 DEF NoSync
    <3> QED
      BY <1>1, <3>1, <3>2
  <2>2. ImportFree'
    BY <2>1 DEF ImportFree
  <2> QED
    BY <1>0, <1>1, <1>q, <2>2 DEF LeftAlone, FetchVisit, Dismissed
<1>2. CASE VisitUnmet
  <2> PICK v \in Visit : v = syncer.visit
    BY <1>2, <1>v DEF VisitUnmet
  <2>1. ~Dismissed(v) /\ OfVisit(v) = {}
    BY <1>2 DEF VisitUnmet, Linked, Dismissed
  <2>2. import' = [import EXCEPT ![v] = [status |-> "PENDING", insp |-> None, seen |-> syncer.day]]
    BY <1>2 DEF VisitUnmet
  <2>3. \A w \in Visit : Dismissed(w) => Dismissed(w)'
    BY <1>0, <2>1, <2>2 DEF Dismissed
  <2>4. ImportFree'
    <3>1. CASE syncer' = NoSync
      BY <3>1 DEF ImportFree, NoSync
    <3>2. CASE syncer' = [syncer EXCEPT !.stage = "import"]
      <4>1. syncer'.visit = v
        BY <1>0, <3>2 DEF SyncType
      <4>2. import'[v].status = "PENDING"
        BY <1>0, <2>2
      <4>3. OfVisit(v)' = OfVisit(v)
        BY <1>2 DEF VisitUnmet, OfVisit, Scheduled, Made
      <4> QED
        BY <2>1, <4>1, <4>2, <4>3 DEF ImportFree
    <3> QED
      BY <1>2, <3>1, <3>2 DEF VisitUnmet
  <2> QED
    BY <1>0, <1>2, <1>q, <2>3, <2>4 DEF VisitUnmet
<1>3. CASE VisitMet
  <2> PICK v \in Visit : v = syncer.visit
    BY <1>3, <1>v DEF VisitMet
  <2>1. PICK i \in Linked(v) :
          /\ import' = [import EXCEPT ![v] = [status |-> "IMPORTED", insp |-> i, seen |-> syncer.day]]
          /\ insp' \in {insp, [insp EXCEPT ![i].move = "none"]}
          /\ syncer' = NoSync \/ syncer'.stage \in {"withdraw", "follow"}
    BY <1>0, <1>3 DEF VisitMet, SyncType
  <2>2. i \in Inspection /\ i # None
    BY <1>0, <2>1, Sentinels DEF Linked, OfVisit, Scheduled, ImportRow
  <2>3. \A w \in Visit : Dismissed(w) => Dismissed(w)'
    BY <1>0, <2>1, <2>2 DEF Dismissed
  <2>4. \A j \in Inspection : insp'[j].state = insp[j].state /\ insp'[j].visit = insp[j].visit
    BY <1>0, <2>1, <2>2 DEF InspectionRow
  <2>5. ImportFree'
    BY <2>1 DEF ImportFree, NoSync
  <2> QED
    BY <1>0, <1>3, <1>q, <2>3, <2>4, <2>5 DEF VisitMet
<1>4. CASE Withdraw
  <2>0. ImportFree'
    BY <1>4 DEF Withdraw, ImportFree, NoSync
  <2>1. CASE UNCHANGED <<insp, stop, import>>
    BY <1>0, <1>4, <1>q, <2>0, <2>1 DEF Withdraw, Dismissed
  <2>2. CASE Made(syncer.insp) /\ insp[syncer.insp].visit = syncer.visit
    <3> PICK v \in Visit, i \in Inspection : v = syncer.visit /\ i = syncer.insp
      BY <1>0, <1>4, <1>v, <2>2 DEF Withdraw, Made, SyncType
    <3>1. stop.insp = i /\ i # None /\ insp[i].visit = v
      BY <1>0, <2>2 DEF RowsInv, OneInspection, Scheduled, Made
    <3>2. /\ Scheduled = {i} /\ listing # "due" /\ worker.stage \notin {"create", "write"}
          /\ worker.stage # "idle" => worker.task # "list"
      BY <1>0, <3>1, BookedAlone, Sentinels
    <3>3. /\ insp' = [insp EXCEPT ![i] = Erased]
          /\ stop' = OffItsDay("UNSCHEDULED", v)
          /\ import' = [import EXCEPT ![v].status = "PENDING", ![v].insp = None]
          /\ UNCHANGED <<office, worker, leaving, listing, visit>>
      BY <1>4, <2>2, <3>1 DEF Withdraw
    <3>4. stop'.insp = None /\ stop'.visit = v
      BY <3>3 DEF OffItsDay
    <3>5. Scheduled' = {}
      BY <1>0, <3>2, <3>3 DEF Scheduled, Made, Erased, Unmade
    <3>6. Current = v /\ Current' = v
      BY <3>1, <3>2, <3>3, <3>4 DEF Current
    <3>7. OnItsWayOut => leaving.visit # v
      BY <1>0, <3>1 DEF RowsInv, StopKnowsItsVisit
    <3>8. \A w \in Visit \ {v} : Dismissed(w) => Dismissed(w)'
      BY <1>0, <3>3 DEF Dismissed
    <3>9. RowsInv'
      <4>1. OneInspection' /\ StopKnowsItsVisit'
        BY <3>4, <3>5 DEF OneInspection, StopKnowsItsVisit
      <4>2. LeavingDismissed'
        BY <1>0, <3>3, <3>7, <3>8 DEF RowsInv, LeavingDismissed, OnItsWayOut, WellTyped, RowsKept
      <4>3. OthersDismissed' /\ OneStanding'
        BY <1>0, <3>3, <3>6, <3>8 DEF RowsInv, OthersDismissed, OneStanding, Standing, Live, OnItsWayOut
      <4> QED
        BY <4>1, <4>2, <4>3 DEF RowsInv
    <3>10. WorkFresh'
      BY <1>0, <3>2, <3>3, WorkStaysFresh
    <3>11. ListedAlone'
      BY <3>2, <3>3 DEF ListedAlone
    <3> QED
      BY <1>f, <2>0, <3>3, <3>9, <3>10, <3>11 DEF BookingInv, PeopleInv
  <2> QED
    BY <1>4, <2>1, <2>2 DEF Withdraw
<1>5. CASE Follow
  <2>1. stop'.insp = stop.insp /\ stop'.visit = stop.visit
    BY <1>0, <1>5 DEF Follow, StopFollows, StopRow
  <2>2. \A i \in Inspection : insp'[i].state = insp[i].state /\ insp'[i].visit = insp[i].visit
    BY <1>0, <1>5 DEF Follow, InspectionRow
  <2>3. ImportFree'
    BY <1>5 DEF Follow, ImportFree, NoSync
  <2> QED
    BY <1>0, <1>5, <1>q, <2>1, <2>2, <2>3 DEF Follow, Dismissed
<1>6. CASE ImportVisit
  <2> PICK v \in Visit : v = syncer.visit
    BY <1>6, <1>v DEF ImportVisit
  <2>0. ImportFree'
    <3>1. syncer' = NoSync \/ \E i \in Inspection : syncer' = [syncer EXCEPT !.stage = "note", !.insp = i]
      BY <1>6 DEF ImportVisit, NextInspection
    <3>2. CASE syncer' = NoSync
      BY <3>2 DEF ImportFree, NoSync
    <3>3. ASSUME NEW i \in Inspection, syncer' = [syncer EXCEPT !.stage = "note", !.insp = i] PROVE ImportFree'
      <4>1. syncer'.stage = "note"
        BY <1>0, <3>3 DEF SyncType
      <4> QED
        BY <4>1 DEF ImportFree
    <3> QED
      BY <3>1, <3>2, <3>3
  <2>1. CASE syncer' = NoSync /\ UNCHANGED <<insp, stop>>
    BY <1>0, <1>6, <1>q, <2>0, <2>1 DEF ImportVisit, Dismissed
  <2>2. CASE ~(syncer' = NoSync /\ UNCHANGED <<insp, stop>>)
    <3>1. PICK i \in NextInspection :
            /\ OfVisit(v) = {}
            /\ insp' = [insp EXCEPT ![i] = [Unmade EXCEPT !.state = "scheduled", !.day = syncer.day, !.visit = v]]
            /\ stop' = IF stop.visit = v /\ stop.insp = None
                       THEN [stop EXCEPT !.insp = i, !.status = "PUBLISHED", !.day = syncer.day] ELSE stop
      BY <1>6, <2>2 DEF ImportVisit
    <3>2. /\ UNCHANGED <<office, worker, leaving, listing, import, visit>>
          /\ import[v].status = "PENDING"
      BY <1>0, <1>6 DEF ImportVisit, ImportFree
    <3>3. i \in Inspection /\ i # None /\ v # None
      BY Sentinels DEF NextInspection
    <3>4. /\ insp'[i].state = "scheduled" /\ insp'[i].visit = v
          /\ \A j \in Inspection \ {i} : insp'[j] = insp[j]
      BY <1>0, <3>1, <3>3 DEF Unmade
    <3>5. i \notin OfVisit(v) /\ i \in OfVisit(v)'
      BY <3>1, <3>3, <3>4 DEF OfVisit, Scheduled, Made
    <3>6. ~Dismissed(v) /\ Current = v
      BY <1>0, <1>6, <1>v, <3>2 DEF ImportVisit, Dismissed, RowsInv, OthersDismissed
    <3>7. worker.stage # "write"
      <4>1. CASE worker.stage = "write"
        <5>1. worker.new = v /\ worker'.new = v
          BY <3>2, <3>6, <4>1 DEF Current
        <5>2. OfVisit(worker.new)' = OfVisit(worker.new)
          BY <1>0, <3>2, <4>1, WorkerUndisturbed DEF WellTyped, WorkInHand, WorkType, Leaving
        <5> QED
          BY <3>5, <5>1, <5>2 DEF OfVisit, Scheduled, Made
      <4> QED
        BY <4>1
    <3>8. stop.insp = None /\ stop.visit = v
      BY <1>0, <3>1, <3>3, <3>6, <3>7, BookedAlone DEF Current, OfVisit
    <3>9. stop'.insp = i /\ stop'.visit = v
      BY <1>0, <3>1, <3>8 DEF StopRow
    <3>10. Scheduled = {} /\ Scheduled' = {i}
      BY <1>0, <3>3, <3>4, <3>8, UnbookedAlone DEF Scheduled, Made
    <3>11. Current' = v
      BY <3>2, <3>3, <3>4, <3>7, <3>9 DEF Current
    <3>12. OnItsWayOut => leaving.visit # v
      BY <1>0, <3>6 DEF RowsInv, LeavingDismissed
    <3>13. RowsInv'
      <4>1. OneInspection' /\ StopKnowsItsVisit'
        BY <3>2, <3>3, <3>4, <3>9, <3>10, <3>12 DEF OneInspection, StopKnowsItsVisit, OnItsWayOut
      <4>2. LeavingDismissed' /\ OthersDismissed' /\ OneStanding'
        BY <1>0, <3>2, <3>6, <3>11
           DEF RowsInv, LeavingDismissed, OthersDismissed, OneStanding, Standing, Live, OnItsWayOut, Dismissed
      <4> QED
        BY <4>1, <4>2 DEF RowsInv
    <3>14. WorkFresh'
      <4>1. worker.stage \in {"create", "write"} /\ worker.task = "leave" => FALSE
        BY <1>0, <3>3, <3>8, <3>12 DEF WorkFresh, Leaving, OnItsWayOut
      <4> QED
        BY <3>2, <4>1, WorkStaysFresh
    <3>15. ListedAlone'
      BY <1>0, <3>2, <3>3, <3>8, <3>9, WorkerUndisturbed DEF ListedAlone, OnItsWayOut
    <3> QED
      BY <1>f, <2>0, <3>2, <3>13, <3>14, <3>15 DEF BookingInv, PeopleInv
  <2> QED
    BY <2>1, <2>2
<1>7. CASE ImportNoted
  <2> PICK v \in Visit, i \in Inspection : v = syncer.visit /\ i = syncer.insp
    BY <1>0, <1>7, <1>v DEF ImportNoted, WellTyped, RowsKept
  <2>1. import' = [import EXCEPT ![v].status = "IMPORTED", ![v].insp = i]
    BY <1>7 DEF ImportNoted
  <2>2. \A w \in Visit : Dismissed(w) => Dismissed(w)'
    BY <1>0, <2>1, Sentinels DEF Dismissed, ImportRow
  <2>3. ImportFree'
    BY <1>7 DEF ImportNoted, ImportFree, NoSync
  <2> QED
    BY <1>0, <1>7, <1>q, <2>2, <2>3 DEF ImportNoted
<1> QED
  BY <1>1, <1>2, <1>3, <1>4, <1>5, <1>6, <1>7 DEF SyncGoesOn

LEMMA OutsideKeepsBooking ==
    ASSUME QuietStep, ApiRestarts \/ \E v \in Visit, d \in Day \cup {NoDay} : DatedInJobber(v, d)
    PROVE  BookingInv'
<1> USE DEF console
<1>0. /\ WellTyped /\ BookingInv /\ RowsInv /\ WorkFresh /\ ListedAlone /\ RequestsFresh /\ ImportFree
      /\ visit \in [Visit -> JobberVisit]
  BY DEF QuietStep, WellTyped, RowsTyped, BookingInv, PeopleInv
<1>1. CASE ApiRestarts
  <2>1. worker.stage # "write" /\ ~(worker.stage = "sent" /\ worker.task = "list")
    BY <1>1 DEF ApiRestarts, QuietStep
  <2>2. Current' = Current
    BY <1>1, <2>1 DEF ApiRestarts, Current, NoWork
  <2>3. RowsInv'
    BY <1>0, <1>1, <2>2, RowsStay DEF ApiRestarts, OnItsWayOut, Dismissed
  <2>4. RequestsFresh'
    BY <1>1 DEF ApiRestarts, RequestsFresh, RequestFresh, NoRequest
  <2>5. WorkFresh' /\ ImportFree'
    BY <1>1 DEF ApiRestarts, WorkFresh, Leaving, NoWork, ImportFree, NoSync
  <2>6. ListedAlone'
    BY <1>0, <1>1, <2>1 DEF ApiRestarts, ListedAlone, OnItsWayOut
  <2> QED
    BY <2>3, <2>4, <2>5, <2>6 DEF BookingInv, PeopleInv
<1>2. ASSUME NEW v \in Visit, NEW d \in Day \cup {NoDay}, DatedInJobber(v, d) PROVE BookingInv'
  <2>1. \A w \in Visit : visit'[w].state = visit[w].state
    BY <1>0, <1>2 DEF DatedInJobber, JobberVisit
  <2>2. Current' = Current
    BY <1>2 DEF DatedInJobber, Current
  <2>3. RowsInv'
    BY <1>0, <1>2, <2>1, <2>2, RowsStay DEF DatedInJobber, OnItsWayOut, Dismissed
  <2>4. RequestsFresh' /\ ImportFree'
    BY <1>0, <1>2, OthersStay DEF DatedInJobber, OnItsWayOut, RequestsFresh, RequestFresh
  <2>5. WorkFresh'
    BY <1>0, <1>2, <2>1, WorkStaysFresh DEF DatedInJobber, WorkFresh, WellTyped, PeopleTyped, WorkType
  <2>6. ListedAlone'
    BY <1>0, <1>2 DEF DatedInJobber, ListedAlone, OnItsWayOut
  <2> QED
    BY <2>3, <2>4, <2>5, <2>6 DEF BookingInv, PeopleInv
<1> QED
  BY <1>1, <1>2

-----------------------------------------------------------------------------
(* Every step                                                              *)

LEMMA StepKeepsBooking == ASSUME QuietStep, Step PROVE BookingInv'
<1>1. ASSUME NEW c \in Coordinator, OfficeDecides(c) \/ OfficeGoesOn(c) PROVE BookingInv'
  BY <1>1, PublishingKeepsBooking, ByHandKeepsBooking DEF OfficeDecides, OfficeGoesOn
<1>2. CASE WorkerGoesOn \/ CreateUnheard \/ CallFails
  BY <1>2, WorkerKeepsBooking
<1>3. CASE SyncGoesOn \/ \E v \in Visit : FetchVisit(v)
  BY <1>3, SyncKeepsBooking
<1>4. CASE ApiRestarts \/ \E v \in Visit, d \in Day \cup {NoDay} : DatedInJobber(v, d)
  BY <1>4, OutsideKeepsBooking
<1> QED
  BY <1>1, <1>2, <1>3, <1>4 DEF Step

LEMMA BookingInvariant == PublishingSpec => [](TypeInv /\ (Excused \/ BookingInv))
<1>1. PublishingInit => BookingInv
  <2> SUFFICES ASSUME PublishingInit PROVE BookingInv
    OBVIOUS
  <2>1. Scheduled = {} /\ Standing = {} /\ ~OnItsWayOut
    BY DEF PublishingInit, Scheduled, Made, Unmade, Standing, Live, NoVisit, OnItsWayOut
  <2>2. stop.insp = None /\ leaving.status # "SENT" /\ \A v \in Visit : visit[v].state = "unmade"
    BY DEF PublishingInit, NoVisit
  <2>3. RowsInv
    BY <2>1, <2>2 DEF RowsInv, OneInspection, StopKnowsItsVisit, LeavingDismissed, OthersDismissed, OneStanding
  <2>4. PeopleInv
    BY DEF PublishingInit, PeopleInv, RequestsFresh, RequestFresh, WorkFresh, Leaving, ListedAlone, ImportFree,
           NoRequest, NoWork, NoSync
  <2> QED
    BY <2>3, <2>4 DEF BookingInv
<1>2. TypeInv /\ TypeInv' /\ (Excused \/ BookingInv) /\ [PublishingNext]_vars => (Excused \/ BookingInv)'
  <2> SUFFICES ASSUME TypeInv, TypeInv', Excused \/ BookingInv, [PublishingNext]_vars, ~Excused'
               PROVE  BookingInv'
    OBVIOUS
  <2>1. CASE Step /\ crossed' = (crossed \/ ChangedUnder)
    <3>1. ~ChangedUnder /\ history' \subseteq {"given"} /\ history \subseteq history'
      BY <2>1, HistoryGrows DEF Excused
    <3>2. ~Excused
      BY <2>1, <3>1 DEF Excused
    <3>3. QuietStep
      BY <3>1, <3>2 DEF QuietStep, TypeInv
    <3> QED
      BY <2>1, <3>3, StepKeepsBooking
  <2>2. CASE UNCHANGED vars
    <3>1. Excused' = Excused
      BY <2>2 DEF vars, Excused
    <3> QED
      BY <2>2, <3>1
         DEF vars, console, counters, BookingInv, RowsInv, PeopleInv, OneInspection, StopKnowsItsVisit,
             LeavingDismissed, OthersDismissed, OneStanding, Current, Standing, Live, Dismissed, OnItsWayOut,
             RequestsFresh, RequestFresh, WorkFresh, Leaving, ListedAlone, ImportFree, OfVisit, Scheduled, Made
  <2> QED
    BY <2>1, <2>2, StepOrStutter
<1> QED
  BY <1>1, <1>2, TypeInvariant, PTL DEF PublishingSpec

(* However publishing, editing, unscheduling, the worker's retries, the    *)
(* syncs and restarts interleave, a stop has at most one inspection and at *)
(* most one visit in Jobber besides one on its way out, as long as no rows *)
(* changed under somebody who had read them and nothing happened that the  *)
(* code does not recover from (bookVisit, queueUnscheduled, the booking    *)
(* key, publishStop).                                                      *)
THEOREM BookedOnceHolds == PublishingSpec => []BookedOnceUncrossed
<1>1. ASSUME TypeInv, BookingInv PROVE BookedOnce
  <2>1. Scheduled \subseteq {stop.insp} /\ Standing \subseteq {Current}
    BY <1>1 DEF BookingInv, RowsInv, OneInspection, OneStanding
  <2>2. ASSUME NEW S, NEW x, S \subseteq {x} PROVE Cardinality(S) <= 1
    <3>1. IsFiniteSet({x}) /\ Cardinality({x}) = 1
      BY FS_Singleton
    <3>2. Cardinality(S) \in Nat /\ Cardinality(S) <= Cardinality({x})
      BY <2>2, <3>1, FS_Subset, FS_CardinalityType
    <3> QED
      BY <3>1, <3>2
  <2> QED
    BY <2>1, <2>2 DEF BookedOnce
<1>2. TypeInv /\ (Excused \/ BookingInv) => BookedOnceUncrossed
  BY <1>1 DEF BookedOnceUncrossed
<1> QED
  BY <1>2, BookingInvariant, PTL

-----------------------------------------------------------------------------
(* The day, once nobody has anything left to do                            *)

(* Nothing is owed any more that was given up.                             *)
NoneGiven ==
    /\ listing # "ABANDONED" /\ leaving.status # "ABANDONED"
    /\ \A i \in Inspection : insp[i].book # "ABANDONED" /\ insp[i].move # "ABANDONED"

(* An inspection has its visit, or the outbox owes it one.                 *)
VisitOwed ==
    /\ stop.insp # None => insp[stop.insp].visit # None \/ insp[stop.insp].book = "due"
    /\ worker.stage # "idle" /\ worker.task = "book" => insp[worker.insp].state # "unmade"
    /\ worker.stage = "sent" /\ worker.task = "book" /\ Made(worker.insp) => insp[worker.insp].visit # None

(* Only what is booked, or about to be, has a day.                         *)
DaysGiven ==
    /\ stop.insp # None => insp[stop.insp].day # NoDay
    /\ \A c \in Coordinator :
          office[c].stage \in {"draft", "edit", "unlist", "ask", "create", "move"} => office[c].day # NoDay
    /\ syncer.stage \in {"import", "follow"} => syncer.day # NoDay
    /\ syncer.stage = "withdraw" => syncer.day = NoDay
    /\ worker.task \in {"list", "leave"} => worker.day = NoDay

(* The copy of a visit names the inspection it is linked to, if any; that  *)
(* of the visit that counts is never one to be left alone.                 *)
CopiesTrue ==
    /\ \A v \in Visit : visit[v].state = "unmade" => import[v].status = "none"
    /\ \A v \in Visit : import[v].status = "IMPORTED" /\ import[v].insp # None =>
          /\ insp[import[v].insp].state # "unmade"
          /\ Made(import[v].insp) => insp[import[v].insp].visit = v
          /\ stop.insp # None /\ insp[stop.insp].visit = v => import[v].insp = stop.insp
    /\ Current # None => import[Current].status # "IGNORED"

(* So does a row of a change of day the worker has picked.                 *)
MoveTrue ==
    worker.stage # "idle" /\ worker.task = "move" =>
        /\ insp[worker.insp].state # "unmade"
        /\ Made(worker.insp) => insp[worker.insp].visit = worker.old

(* So does a sync that has begun to write.                                 *)
SyncTrue ==
    /\ syncer.stage = "note" =>
          IF Made(syncer.insp) THEN insp[syncer.insp].visit = syncer.visit
          ELSE insp[syncer.insp].state = "erased" /\ import[syncer.visit].status = "IGNORED"
    /\ syncer.stage \in {"follow", "withdraw"} =>
          /\ syncer.insp \in Inspection /\ insp[syncer.insp].state # "unmade"
          /\ Made(syncer.insp) => insp[syncer.insp].visit = syncer.visit

(* Jobber has the visit that counts, and the stop's.                       *)
VisitsStand ==
    /\ Current # None => Live(Current)
    /\ stop.visit # None => Live(stop.visit)
    /\ OnItsWayOut => stop.visit # leaving.visit /\ visit[leaving.visit].state # "unmade"
    /\ Leaving /\ worker.stage \in {"delete", "sent"} => stop.visit \notin {None, worker.old}
    /\ Leaving /\ worker.stage = "write" => worker.new # worker.old

(* The stop is on its inspection's day, and a request to change a day finds*)
(* what it was judged by.                                                  *)
DayKept ==
    /\ stop.insp # None => stop.day = insp[stop.insp].day
    /\ \A c \in Coordinator :
          /\ office[c].stage \in {"draft", "edit"} => stop.insp = None
          /\ office[c].stage = "move" => insp[office[c].insp].visit = office[c].visit

(* A stop for the Unscheduled list has a visit there, or is owed one, or   *)
(* has been taken up by a request.                                         *)
TakenUp(c) == office[c].stage \in {"ask", "create"} /\ ~office[c].publishing

ListOwed ==
    /\ stop.insp = None /\ stop.status = "UNSCHEDULED" =>
          stop.visit # None \/ listing = "due" \/ OnItsWayOut \/ \E c \in Coordinator : TakenUp(c)
    /\ listing = "SENT" =>
          stop.visit # None \/ OnItsWayOut \/ (stop.insp # None /\ insp[stop.insp].visit # None)
    /\ worker.stage = "sent" /\ worker.task = "list" => stop.visit # None
    /\ \A c \in Coordinator : office[c].stage \in {"edit", "place", "unlist"} => ~office[c].publishing

Moving(v) == worker.task = "move" /\ worker.old = v /\ worker.stage \in {"read", "push"}
Fetched(v) == syncer.stage = "fetched" /\ syncer.visit = v
Writes(i, stages) == syncer.stage \in stages /\ syncer.insp = i

(* The wanted day is in Jobber or on its way there, and no sync that has   *)
(* read an older one undoes it before it has arrived.                      *)
OnItsDay(i, v) ==
    LET owed == insp[i].move = "due" IN
    /\ v # None
    /\ owed \/ visit[v].day = wanted
    /\ owed \/ Moving(v) => insp[i].day = wanted
    /\ Moving(v) /\ worker.stage = "push" => worker.day = wanted
    /\ worker.task = "move" /\ worker.old = v /\ worker.stage = "sent" => visit[v].day = wanted
    /\ visit[v].day # wanted =>
          import[v].seen \in {Unseen, visit[v].day} /\ (Fetched(v) => syncer.day = visit[v].day)
    /\ Fetched(v) /\ (owed \/ Moving(v)) /\ syncer.day # wanted =>
          owed /\ import[v].seen \in {Unseen, syncer.day}
    /\ Writes(i, {"follow", "withdraw"}) => ~owed /\ ~Moving(v)
    /\ wanted # NoDay => visit[v].day # NoDay /\ (Fetched(v) \/ Writes(i, {"withdraw"}) => syncer.day # NoDay)

(* Taken off its day since, the stop is not given another by anything that *)
(* is under way.                                                           *)
OffItsDayStill ==
    /\ stop.day = NoDay
    /\ \A c \in Coordinator : office[c].stage \notin {"draft", "edit"}
    /\ Current # None =>
          /\ visit[Current].day = NoDay /\ ~Moving(Current)
          /\ syncer.stage \in {"fetched", "import"} /\ syncer.visit = Current => syncer.day = NoDay

WantedKept ==
    wanted # Unseen =>
        IF stop.insp # None THEN OnItsDay(stop.insp, insp[stop.insp].visit) ELSE OffItsDayStill

RestInv ==
    /\ NoneGiven /\ VisitOwed /\ DaysGiven /\ CopiesTrue /\ MoveTrue /\ SyncTrue /\ VisitsStand /\ DayKept
    /\ ListOwed /\ WantedKept

(* While nothing has happened yet.                                         *)
Undisturbed == ~crossed /\ history = {}

(* A step of a history in which nothing has happened yet.                  *)
CalmStep ==
    /\ WellTyped /\ WellTyped' /\ BookingInv /\ BookingInv' /\ RestInv
    /\ ~ChangedUnder /\ history = {} /\ history' = {}
    /\ decisions \in Nat /\ wanted' = WantedNow

Typed ==
    /\ stop \in StopRow /\ insp \in [Inspection -> InspectionRow] /\ leaving \in LeavingRow
    /\ import \in [Visit -> ImportRow] /\ visit \in [Visit -> JobberVisit] /\ listing \in TaskStatus
    /\ office \in [Coordinator -> RequestType] /\ worker \in WorkType /\ syncer \in SyncType

(* The inspection that is made, is the stop's.                             *)
MadeIsTheStops == \A i \in Inspection : Made(i) <=> stop.insp = i

LEMMA CalmFacts ==
    ASSUME CalmStep
    PROVE  /\ Typed /\ Typed' /\ MadeIsTheStops /\ MadeIsTheStops'
           /\ NoneGiven /\ VisitOwed /\ DaysGiven /\ CopiesTrue /\ MoveTrue /\ SyncTrue /\ VisitsStand /\ DayKept /\ ListOwed
           /\ WantedKept
<1>1. Typed /\ Typed'
  BY DEF CalmStep, WellTyped, RowsTyped, PeopleTyped, Typed
<1>2. MadeIsTheStops /\ MadeIsTheStops'
  BY <1>1, Sentinels
     DEF CalmStep, WellTyped, KeysHold, BookingInv, RowsInv, OneInspection, Scheduled, Made, MadeIsTheStops, Typed, StopRow
<1> QED
  BY <1>1, <1>2 DEF CalmStep, RestInv

(* A day becomes wanted only when an inspection is moved, here or there.   *)
LEMMA WantedStays ==
    ASSUME CalmStep, \A c \in Coordinator : office[c].stage = "move" => office'[c] = office[c] \/ insp' = insp,
           visit' = visit \/ decisions' = decisions
    PROVE  wanted' \in {wanted, Unseen}
BY DEF CalmStep, WantedNow, MovedHere, MovedThere

LEMMA NothingWanted ==
    ASSUME CalmStep, insp' = insp, visit' = visit, Decides
    PROVE  wanted' = Unseen
<1>1. decisions' # decisions
  BY DEF CalmStep, Decides
<1> QED
  BY <1>1 DEF CalmStep, WantedNow, MovedHere, MovedThere

(* A request that waits finds the stop and its visit as it has read them.  *)
LEMMA RequestWaits ==
    ASSUME ~ChangedUnder, NEW c \in Coordinator, office'[c] = office[c]
    PROVE  /\ office[c].stage \in {"draft", "edit", "unlist", "ask", "create", "queue", "clear"} => stop' = stop
           /\ office[c].stage \in {"move", "unschedule"} =>
                 insp'[office[c].insp].visit = insp[office[c].insp].visit
<1>1. HeldByOffice(c)' = HeldByOffice(c)
  BY DEF ChangedUnder
<1>2. CASE office[c].stage \in {"draft", "edit", "unlist", "ask", "create", "queue", "clear"}
  <2>1. <<stop'>> = <<stop>>
    BY <1>1, <1>2 DEF HeldByOffice
  <2> QED
    BY <1>2, <2>1
<1>3. CASE office[c].stage \in {"move", "unschedule"}
  <2>1. <<insp'[office[c].insp].visit>> = <<insp[office[c].insp].visit>>
    BY <1>1, <1>3 DEF HeldByOffice
  <2> QED
    BY <1>3, <2>1
<1> QED
  BY <1>2, <1>3

(* A request that reads, or writes the stop's day or status.               *)
LEMMA OfficeLeavesRest ==
    ASSUME CalmStep, NEW c \in Coordinator, NEW r, Request(c, r),
           UNCHANGED <<insp, leaving, import, visit, syncer, worker>>,
           stop'.insp = stop.insp, stop'.visit = stop.visit,
           \/ stop'.day = stop.day
           \/ stop.insp = None /\ (stop'.day = NoDay \/ office[c].stage \in {"draft", "edit"}),
           r.stage \in {"draft", "edit", "unlist", "ask", "create", "move"} => r.day # NoDay,
           r.stage \in {"draft", "edit"} => stop.insp = None /\ wanted' = Unseen,
           r.stage = "move" => insp[r.insp].visit = r.visit,
           listing' # "ABANDONED", ListOwed'
    PROVE  RestInv'
<1>0. /\ Typed /\ NoneGiven /\ VisitOwed /\ DaysGiven /\ CopiesTrue /\ MoveTrue /\ SyncTrue /\ VisitsStand /\ DayKept
      /\ WantedKept /\ office' = [office EXCEPT ![c] = r]
  BY CalmFacts DEF Request
<1>1. \A d \in Coordinator : office'[d] = IF d = c THEN r ELSE office[d]
  BY <1>0 DEF Typed
<1>2. NoneGiven' /\ VisitOwed' /\ SyncTrue'
  BY <1>0 DEF NoneGiven, VisitOwed, SyncTrue, Made
<1>3. DaysGiven'
  BY <1>0, <1>1 DEF DaysGiven
<1>4. Current' = Current
  BY DEF Current
<1>5. CopiesTrue' /\ MoveTrue' /\ VisitsStand'
  BY <1>0, <1>4 DEF CopiesTrue, MoveTrue, VisitsStand, Live, Made, OnItsWayOut, Leaving
<1>6. DayKept'
  BY <1>0, <1>1 DEF DayKept
<1>7. WantedKept'
  <2>1. wanted' \in {wanted, Unseen}
    BY WantedStays
  <2>2. CASE wanted' = Unseen
    BY <2>2 DEF WantedKept
  <2>3. CASE wanted' = wanted /\ wanted # Unseen /\ stop.insp # None
    BY <1>0, <2>3 DEF WantedKept, OnItsDay, Moving, Fetched, Writes
  <2>4. CASE wanted' = wanted /\ wanted # Unseen /\ stop.insp = None
    <3>1. OffItsDayStill
      BY <1>0, <2>4 DEF WantedKept
    <3>2. OffItsDayStill'
      BY <1>1, <1>4, <2>4, <3>1 DEF OffItsDayStill, Moving, Fetched, Writes
    <3> QED
      BY <2>4, <3>2 DEF WantedKept
  <2> QED
    BY <2>1, <2>2, <2>3, <2>4
<1> QED
  BY <1>2, <1>3, <1>5, <1>6, <1>7 DEF RestInv

-----------------------------------------------------------------------------
(* Publishing                                                              *)

(* What the Unscheduled list is owed is not lost by a request.             *)
LEMMA ListStays ==
    ASSUME CalmStep, NEW c \in Coordinator, NEW r, Request(c, r), UNCHANGED <<insp, leaving, listing, worker>>,
           stop'.insp = stop.insp, stop'.visit = stop.visit,
           stop'.status = stop.status \/ stop'.status # "UNSCHEDULED",
           TakenUp(c) => TakenUp(c)' \/ OnItsWayOut,
           r.stage \in {"edit", "place", "unlist"} => ~r.publishing
    PROVE  ListOwed' /\ listing' # "ABANDONED"
<1>0. Typed /\ NoneGiven /\ ListOwed /\ office' = [office EXCEPT ![c] = r]
  BY CalmFacts DEF Request
<1>1. \A d \in Coordinator : TakenUp(d) => TakenUp(d)' \/ OnItsWayOut
  BY <1>0 DEF TakenUp, Typed
<1> QED
  BY <1>0, <1>1 DEF ListOwed, NoneGiven, OnItsWayOut, Typed

(* Publishing: only the inspection it makes disturbs anything.             *)
LEMMA MakingKeepsRest ==
    ASSUME CalmStep, NEW c \in Coordinator, MakeInspection(c)
    PROVE  RestInv'
<1> DEFINE r == office[c]
<1>0. /\ Typed /\ Typed' /\ MadeIsTheStops /\ MadeIsTheStops' /\ NoneGiven /\ VisitOwed /\ DaysGiven /\ CopiesTrue
      /\ MoveTrue /\ SyncTrue /\ VisitsStand /\ DayKept /\ ListOwed /\ WantedKept
  BY CalmFacts
<1>1. stop.insp = None /\ stop.visit = r.visit /\ stop.day = r.day /\ r.day # NoDay /\ ~OnItsWayOut
  BY <1>0 DEF CalmStep, BookingInv, PeopleInv, RequestsFresh, RequestFresh, MakeInspection, DaysGiven
<1>2. PICK i \in NextInspection :
        /\ insp' = [insp EXCEPT ![i] = NewlyMade(r)]
        /\ import' = IF r.visit = None THEN import
                     ELSE [import EXCEPT ![r.visit].status = "IMPORTED", ![r.visit].insp = i]
        /\ stop' = [stop EXCEPT !.status = "PUBLISHED", !.insp = i]
  BY DEF MakeInspection
<1>3. i \in Inspection /\ insp[i].state = "unmade" /\ i # None
  BY <1>2, Sentinels DEF NextInspection
<1>4. /\ UNCHANGED <<leaving, listing, visit, worker, syncer>>
      /\ StopDone(c, "PUBLISHED") /\ decisions' = decisions
  BY DEF MakeInspection, OfficeOnly
<1>5. stop'.insp = i /\ stop'.visit = r.visit /\ stop'.day = r.day /\ stop'.status = "PUBLISHED"
  BY <1>0, <1>1, <1>2 DEF Typed, StopRow
<1>6. /\ insp'[i].state = "scheduled" /\ insp'[i].day = r.day /\ insp'[i].visit = r.visit
      /\ insp'[i].book = IF r.visit = None THEN "due" ELSE "none"
      /\ insp'[i].move \in {"none", "due"}
      /\ \A j \in Inspection \ {i} : insp'[j] = insp[j]
  BY <1>0, <1>2, <1>3 DEF NewlyMade, Typed
<1>7. listing # "due"
  BY DEF MakeInspection, StillListed, CalmStep
<1>8. office'[c].stage \in {"batch", "idle"} /\ \A d \in Coordinator \ {c} : office'[d] = office[d]
  BY <1>0, <1>4 DEF StopDone, Request, Typed, NoRequest
<1>9. worker.stage # "write" /\ Current = r.visit /\ Current' = r.visit /\ ~Leaving
  <2>1. stop'.insp # None /\ worker'.stage = worker.stage
    BY <1>3, <1>4, <1>5
  <2>2. worker.stage # "write"
    BY <1>0, <1>1, <1>4, <1>6, <2>1, <1>7, UnbookedAlone
       DEF CalmStep, BookingInv, PeopleInv, WorkFresh, Leaving, OnItsWayOut
  <2>3. ~Leaving
    BY <1>1 DEF CalmStep, BookingInv, PeopleInv, WorkFresh, OnItsWayOut
  <2> QED
    BY <1>1, <1>3, <1>4, <1>5, <1>6, <2>2, <2>3 DEF Current
<1>10. \A j \in Inspection : Made(j)' <=> j = i
  BY <1>0, <1>5 DEF MadeIsTheStops
<1>11. /\ r.visit # None => r.visit \in Visit /\ import'[r.visit].status = "IMPORTED" /\ import'[r.visit].insp = i
       /\ \A v \in Visit \ {r.visit} : import'[v] = import[v]
  <2>1. r.visit \in Visit \cup {None}
    BY <1>0 DEF Typed, RequestType
  <2>2. \A v \in Visit : import[v] \in ImportRow
    BY <1>0 DEF Typed
  <2> QED
    BY <1>0, <1>2, <2>1, <2>2 DEF Typed, ImportRow
<1>12. NoneGiven' /\ VisitOwed'
  <2>1. NoneGiven'
    BY <1>0, <1>4, <1>6 DEF NoneGiven
  <2>2. worker.stage # "idle" /\ worker.task = "book" => worker.insp \in Inspection /\ worker.insp # i
    BY <1>0, <1>3 DEF VisitOwed, CalmStep, WellTyped, WorkInHand
  <2>3. VisitOwed'
    BY <1>0, <1>4, <1>5, <1>6, <1>10, <2>2 DEF VisitOwed
  <2> QED
    BY <2>1, <2>3
<1>13. DaysGiven'
  BY <1>0, <1>1, <1>4, <1>5, <1>6, <1>8 DEF DaysGiven
<1>14. CopiesTrue'
  <2>1. ASSUME NEW v \in Visit, import'[v].status = "IMPORTED", import'[v].insp # None
        PROVE  /\ insp'[import'[v].insp].state # "unmade"
               /\ Made(import[v].insp)' => insp'[import'[v].insp].visit = v
               /\ stop'.insp # None /\ insp'[stop'.insp].visit = v => import'[v].insp = stop'.insp
    <3>1. CASE v = r.visit
      <4>1. import'[v].insp = i
        BY <1>11, <3>1, Sentinels
      <4> QED
        BY <1>5, <1>6, <3>1, <4>1
    <3>2. CASE v # r.visit
      <4>1. import'[v] = import[v] /\ import[v].insp \in Inspection /\ import[v].insp # i
        BY <1>0, <1>3, <1>11, <2>1, <3>2 DEF CopiesTrue, Typed, ImportRow
      <4> QED
        BY <1>0, <1>5, <1>6, <1>10, <2>1, <3>2, <4>1 DEF CopiesTrue
    <3> QED
      BY <3>1, <3>2
  <2>2. \A v \in Visit : visit'[v].state = "unmade" => import'[v].status = "none"
    <3>1. r.visit # None => visit[r.visit].state = "live"
      BY <1>0, <1>1 DEF VisitsStand, Live
    <3> QED
      BY <1>0, <1>4, <1>11, <3>1, Sentinels DEF CopiesTrue
  <2>3. Current' # None => import'[Current'].status # "IGNORED"
    BY <1>9, <1>11
  <2> QED
    BY <2>1, <2>2, <2>3 DEF CopiesTrue
<1>m. MoveTrue'
  BY <1>0, <1>3, <1>4, <1>6, <1>10 DEF MoveTrue, CalmStep, WellTyped, WorkInHand
<1>15. SyncTrue'
  <2>1. syncer.stage # "idle" => syncer.visit \in Visit
    BY DEF CalmStep, WellTyped, RowsKept
  <2>2. syncer.stage = "note" =>
          syncer.insp \in Inspection \ {i} /\ insp[syncer.insp].state = "erased" /\ syncer.visit # r.visit
                /\ import[syncer.visit].status = "IGNORED"
    BY <1>0, <1>1, <1>3, <1>9, <2>1, Sentinels DEF SyncTrue, CopiesTrue, MadeIsTheStops, CalmStep, WellTyped, RowsKept
  <2>3. syncer.stage \in {"follow", "withdraw"} =>
          syncer.insp \in Inspection \ {i} /\ insp[syncer.insp].state # "unmade"
    BY <1>0, <1>3, <1>6 DEF SyncTrue
  <2>4. (syncer.stage = "note" =>
           IF Made(syncer.insp) THEN insp[syncer.insp].visit = syncer.visit
           ELSE insp[syncer.insp].state = "erased" /\ import[syncer.visit].status = "IGNORED")'
    BY <1>4, <1>6, <1>10, <1>11, <2>1, <2>2
  <2>5. (syncer.stage \in {"follow", "withdraw"} =>
           /\ syncer.insp \in Inspection /\ insp[syncer.insp].state # "unmade"
           /\ Made(syncer.insp) => insp[syncer.insp].visit = syncer.visit)'
    BY <1>4, <1>6, <1>10, <2>3
  <2> QED
    BY <2>4, <2>5 DEF SyncTrue
<1>16. VisitsStand'
  BY <1>0, <1>1, <1>4, <1>5, <1>9 DEF VisitsStand, Live, OnItsWayOut, Leaving
<1>17. DayKept'
  <2>1. ASSUME NEW d \in Coordinator
        PROVE  /\ office'[d].stage \notin {"draft", "edit"}
               /\ office'[d].stage = "move" => insp'[office'[d].insp].visit = office'[d].visit
    BY <1>0, <1>1, <1>3, <1>5, <1>8, <2>1, RequestWaits DEF CalmStep, DayKept
  <2> QED
    BY <1>5, <1>6, <2>1 DEF DayKept
<1>18. ListOwed'
  BY <1>0, <1>1, <1>3, <1>4, <1>5, <1>8 DEF ListOwed, OnItsWayOut
<1>19. WantedKept'
  <2>1. wanted = Unseen
    BY <1>0, <1>1 DEF WantedKept, OffItsDayStill
  <2>2. wanted' \in {wanted, Unseen}
    BY <1>4, <1>8, WantedStays DEF MakeInspection
  <2> QED
    BY <2>1, <2>2 DEF WantedKept
<1> QED
  BY <1>m, <1>12, <1>13, <1>14, <1>15, <1>16, <1>17, <1>18, <1>19 DEF RestInv

(* The request that has dealt with its stop reads on, or ends.             *)
LEMMA DoneRequests ==
    ASSUME NEW c \in Coordinator, NEW outcome, StopDone(c, outcome)
    PROVE  \E r : Request(c, r) /\ r.stage \in {"batch", "idle"}
<1>1. CASE office[c].publishing
  <2> DEFINE r == [NoRequest EXCEPT !.stage = "batch", !.publishing = TRUE,
                                    !.waited = office[c].waited \/ outcome = "WAITING",
                                    !.failed = office[c].failed \/ outcome = "FAILED"]
  <2>1. Request(c, r) /\ r.stage = "batch"
    BY <1>1 DEF StopDone, NoRequest
  <2> QED
    BY <2>1
<1>2. CASE ~office[c].publishing
  <2>1. Request(c, NoRequest) /\ NoRequest.stage = "idle"
    BY <1>2 DEF StopDone, NoRequest
  <2> QED
    BY <2>1
<1> QED
  BY <1>1, <1>2

LEMMA PublishingKeepsRest ==
    ASSUME CalmStep, NEW c \in Coordinator,
           \/ Claim(c) \/ ReadBatch(c) \/ FinishPlan(c) \/ QueueUnscheduled(c) \/ StopWaits(c) \/ StopTriedAgain(c)
           \/ AdoptImported(c) \/ StopAsked(c) \/ MakeInspection(c) \/ AdoptExisting(c) \/ StopFails(c)
    PROVE  RestInv'
<1> USE DEF OfficeOnly, console
<1>0. Typed /\ NoneGiven /\ DaysGiven /\ ListOwed /\ RequestFresh(c)
  BY CalmFacts DEF CalmStep, BookingInv, PeopleInv, RequestsFresh
<1>1. CASE Claim(c)
  <2> DEFINE r == [NoRequest EXCEPT !.stage = "batch", !.publishing = TRUE]
  <2>1. /\ stop'.insp = stop.insp /\ stop'.visit = stop.visit /\ stop'.day = stop.day
        /\ stop'.status = stop.status \/ stop'.status = "PLANNED"
    BY <1>0, <1>1 DEF Claim, Typed, StopRow
  <2>2. Request(c, r) /\ r.stage = "batch" /\ ~TakenUp(c)
    BY <1>1 DEF Claim, TakenUp, NoRequest
  <2> HIDE DEF r
  <2>3. ListOwed' /\ listing' # "ABANDONED"
    BY <1>1, <2>1, <2>2, ListStays DEF Claim
  <2> QED
    BY <1>1, <2>1, <2>2, <2>3, OfficeLeavesRest DEF Claim
<1>2. CASE ReadBatch(c)
  <2> DEFINE r == [office[c] EXCEPT !.stage = IF stop.day # NoDay THEN "ask" ELSE "queue",
                                    !.day = stop.day, !.visit = stop.visit]
  <2>1. Request(c, r) /\ ~TakenUp(c)
    BY <1>2 DEF ReadBatch, TakenUp
  <2>2. r.stage \in {"ask", "queue"} /\ (r.stage = "ask" => r.day # NoDay)
    BY <1>0 DEF Typed, RequestType
  <2> HIDE DEF r
  <2>3. ListOwed' /\ listing' # "ABANDONED"
    BY <1>2, <2>1, <2>2, ListStays DEF ReadBatch
  <2> QED
    BY <1>2, <2>1, <2>2, <2>3, OfficeLeavesRest DEF ReadBatch
<1>3. CASE FinishPlan(c)
  <2>1. Request(c, NoRequest) /\ NoRequest.stage = "idle" /\ ~TakenUp(c)
    BY <1>3 DEF FinishPlan, TakenUp, NoRequest
  <2>2. ListOwed' /\ listing' # "ABANDONED"
    BY <1>3, <2>1, ListStays DEF FinishPlan
  <2> QED
    BY <1>3, <2>1, <2>2, OfficeLeavesRest DEF FinishPlan
<1>4. CASE QueueUnscheduled(c)
  <2>1. PICK r : Request(c, r) /\ r.stage \in {"batch", "idle"}
    BY <1>4, DoneRequests DEF QueueUnscheduled
  <2>2. stop'.insp = stop.insp /\ stop'.visit = stop.visit /\ stop'.day = stop.day
    BY <1>0, <1>4 DEF QueueUnscheduled, Typed, StopRow
  <2>3. stop.insp = None /\ stop.visit = office[c].visit
    BY <1>0, <1>4 DEF QueueUnscheduled, RequestFresh
  <2>4. stop'.visit # None \/ listing' = "due" \/ OnItsWayOut'
    BY <1>0, <1>4, <2>2, <2>3 DEF QueueUnscheduled, OnItsWayOut, ListOwed, NoneGiven, Typed, TaskStatus
  <2>5. listing' \in {listing, "due"} /\ UNCHANGED <<insp, leaving, worker>>
    BY <1>4 DEF QueueUnscheduled
  <2>6. \A d \in Coordinator : office'[d] = IF d = c THEN r ELSE office[d]
    BY <1>0, <2>1 DEF Request, Typed
  <2>7. ListOwed' /\ listing' # "ABANDONED"
    BY <1>0, <2>1, <2>2, <2>4, <2>5, <2>6 DEF ListOwed, NoneGiven, OnItsWayOut
  <2> QED
    BY <1>4, <2>1, <2>2, <2>7, OfficeLeavesRest DEF QueueUnscheduled
<1>5. CASE StopWaits(c)
  <2>1. PICK r : Request(c, r) /\ r.stage \in {"batch", "idle"}
    BY <1>5, DoneRequests DEF StopWaits
  <2>2. ListOwed' /\ listing' # "ABANDONED"
    BY <1>5, <2>1, ListStays DEF StopWaits, OnItsWayOut
  <2> QED
    BY <1>5, <2>1, <2>2, OfficeLeavesRest DEF StopWaits
<1>6. CASE StopTriedAgain(c)
  BY <1>0, <1>6 DEF StopTriedAgain, NoneGiven
<1>7. CASE AdoptImported(c) \/ AdoptExisting(c) \/ StopFails(c)
  <2>1. Scheduled # {}
    BY <1>7 DEF AdoptImported, AdoptExisting, StopFails, OnDay, OfVisit
  <2>2. stop.insp = None
    BY <1>0, <1>7 DEF AdoptImported, AdoptExisting, StopFails, RequestFresh
  <2> QED
    BY <2>1, <2>2, UnbookedAlone DEF CalmStep
<1>8. CASE StopAsked(c)
  <2> DEFINE r == [office[c] EXCEPT !.stage = "create"]
  <2>1. Request(c, r) /\ r.stage = "create" /\ r.day = office[c].day /\ r.publishing = office[c].publishing
    BY <1>0, <1>8 DEF StopAsked, Typed, RequestType
  <2>2. r.day # NoDay
    BY <1>0, <1>8, <2>1 DEF StopAsked, DaysGiven
  <2> HIDE DEF r
  <2>3. TakenUp(c) => TakenUp(c)'
    BY <1>0, <2>1 DEF TakenUp, Request, Typed
  <2>4. ListOwed' /\ listing' # "ABANDONED"
    BY <1>8, <2>1, <2>3, ListStays DEF StopAsked
  <2> QED
    BY <1>8, <2>1, <2>2, <2>4, OfficeLeavesRest DEF StopAsked
<1>9. CASE MakeInspection(c)
  BY <1>9, MakingKeepsRest
<1> QED
  BY <1>1, <1>2, <1>3, <1>4, <1>5, <1>6, <1>7, <1>8, <1>9

-----------------------------------------------------------------------------
(* The office, by hand                                                     *)

(* Rows that keep their links: what a day or a status written elsewhere    *)
(* does not disturb.                                                       *)
LEMMA LinksStay ==
    ASSUME CalmStep, UNCHANGED <<leaving, visit>>, syncer' \in {syncer, NoSync},
           stop'.insp = stop.insp, stop'.visit = stop.visit, import' = import,
           \A i \in Inspection : insp'[i].state = insp[i].state /\ insp'[i].visit = insp[i].visit,
           worker'.stage = worker.stage, worker'.task = worker.task, worker'.insp = worker.insp,
           worker'.old = worker.old, worker'.new = worker.new
    PROVE  CopiesTrue' /\ MoveTrue' /\ SyncTrue' /\ VisitsStand'
<1>0. Typed /\ CopiesTrue /\ MoveTrue /\ SyncTrue /\ VisitsStand
  BY CalmFacts
<1>1. Current' = Current
  <2>1. stop.insp # None => stop.insp \in Inspection
    BY <1>0 DEF Typed, StopRow
  <2> QED
    BY <2>1 DEF Current
<1>2. \A i \in Inspection : Made(i)' <=> Made(i)
  BY DEF Made
<1>3. CopiesTrue'
  <2>1. ASSUME NEW v \in Visit, import[v].insp # None PROVE import[v].insp \in Inspection
    BY <1>0, <2>1 DEF Typed, ImportRow
  <2>2. stop.insp # None => stop.insp \in Inspection
    BY <1>0 DEF Typed, StopRow
  <2> QED
    BY <1>0, <1>1, <1>2, <2>1, <2>2 DEF CopiesTrue
<1>4. SyncTrue'
  <2>1. syncer.stage = "note" => syncer.insp \in Inspection
    BY DEF CalmStep, WellTyped, RowsKept
  <2> QED
    BY <1>0, <1>2, <2>1 DEF SyncTrue, NoSync
<1>5. VisitsStand'
  BY <1>0, <1>1 DEF VisitsStand, Live, OnItsWayOut, Leaving
<1>6. MoveTrue'
  BY <1>0, <1>2 DEF MoveTrue, CalmStep, WellTyped, WorkInHand
<1> QED
  BY <1>3, <1>4, <1>5, <1>6

LEMMA ReschedulingKeepsRest ==
    ASSUME CalmStep, NEW c \in Coordinator, RescheduleWrites(c)
    PROVE  RestInv'
<1> DEFINE r == office[c]
           i == stop.insp
           v == insp[i].visit
<1>0. /\ Typed /\ Typed' /\ MadeIsTheStops /\ MadeIsTheStops' /\ NoneGiven /\ VisitOwed /\ DaysGiven /\ CopiesTrue
      /\ MoveTrue /\ SyncTrue /\ VisitsStand /\ DayKept /\ ListOwed /\ WantedKept
  BY CalmFacts
<1>1. i \in Inspection /\ i # None /\ r.insp = i /\ r.visit = v /\ r.day # NoDay /\ v \in Visit \cup {None}
  BY <1>0, Sentinels DEF RescheduleWrites, Made, MadeIsTheStops, DayKept, DaysGiven, Typed, RequestType, InspectionRow
<1>2. /\ insp'[i].state = insp[i].state /\ insp'[i].visit = v /\ insp'[i].book = insp[i].book
      /\ insp'[i].day = r.day /\ insp'[i].move = IF v # None THEN "due" ELSE insp[i].move
      /\ \A j \in Inspection \ {i} : insp'[j] = insp[j]
  BY <1>0, <1>1 DEF RescheduleWrites, Typed, InspectionRow
<1>3. stop'.insp = i /\ stop'.visit = stop.visit /\ stop'.day = r.day /\ stop'.status = stop.status
  BY <1>0, <1>1 DEF RescheduleWrites, StopFollows, Typed, StopRow
<1>4. /\ worker'.stage = worker.stage /\ worker'.task = worker.task /\ worker'.insp = worker.insp
      /\ worker'.old = worker.old /\ worker'.new = worker.new /\ worker'.day = worker.day
  BY <1>0 DEF RescheduleWrites, Typed, WorkType
<1>5. UNCHANGED <<listing, leaving, import, visit, syncer, decisions>>
  BY DEF RescheduleWrites, counters
<1>6. office'[c] = NoRequest /\ \A d \in Coordinator \ {c} : office'[d] = office[d]
  BY <1>0 DEF RescheduleWrites, Request, Typed
<1>7. NoneGiven' /\ VisitOwed' /\ DaysGiven'
  <2>1. NoneGiven'
    BY <1>0, <1>1, <1>2, <1>5 DEF NoneGiven
  <2>2. VisitOwed'
    <3>1. worker.stage # "idle" /\ worker.task = "book" => worker.insp \in Inspection
      BY DEF CalmStep, WellTyped, WorkInHand
    <3> QED
      BY <1>0, <1>1, <1>2, <1>3, <1>4, <3>1 DEF VisitOwed, Made
  <2>3. DaysGiven'
    BY <1>0, <1>1, <1>2, <1>3, <1>4, <1>5, <1>6 DEF DaysGiven, NoRequest
  <2> QED
    BY <2>1, <2>2, <2>3
<1>8. CopiesTrue' /\ MoveTrue' /\ SyncTrue' /\ VisitsStand'
  BY <1>1, <1>2, <1>3, <1>4, <1>5, LinksStay
<1>9. DayKept'
  <2>1. ASSUME NEW d \in Coordinator
        PROVE  /\ office'[d].stage \in {"draft", "edit"} => FALSE
               /\ office'[d].stage = "move" => insp'[office'[d].insp].visit = office'[d].visit
    BY <1>0, <1>1, <1>6, RequestWaits DEF CalmStep, DayKept, NoRequest
  <2> QED
    BY <1>1, <1>2, <1>3, <2>1 DEF DayKept
<1>10. ListOwed'
  BY <1>0, <1>1, <1>2, <1>3, <1>4, <1>5, <1>6 DEF ListOwed, OnItsWayOut, NoRequest
<1>11. WantedKept'
  <2>1. CASE wanted' = Unseen
    BY <2>1 DEF WantedKept
  <2>2. CASE insp' = insp /\ wanted' # Unseen
    <3>1. wanted' = wanted
      BY <1>5, <2>2, WantedStays
    <3>2. OnItsDay(i, v)
      BY <1>0, <1>1, <2>2, <3>1 DEF WantedKept
    <3>3. OnItsDay(i, v)'
      BY <1>3, <1>4, <1>5, <2>2, <3>1, <3>2 DEF OnItsDay, Moving, Fetched, Writes
    <3> QED
      BY <1>1, <1>3, <3>3 DEF WantedKept
  <2>3. CASE insp' # insp /\ wanted' # Unseen
    <3>1. MovedHere
      BY <1>6, <2>3 DEF MovedHere, RescheduleWrites, NoRequest
    <3>2. Settled /\ wanted' = r.day
      BY <1>1, <1>2, <2>3, <3>1 DEF CalmStep, WantedNow
    <3>3. /\ insp[i].move # "due" /\ v # None /\ visit[v].day = insp[i].day
          /\ import[v].seen \in {Unseen, insp[i].day}
          /\ syncer.visit = v => syncer.day = insp[i].day
          /\ worker.task = "move" => worker.old # v
      BY <3>2 DEF Settled, Live
    <3>4. ~Writes(i, {"follow", "withdraw"})
      <4>1. HeldBySync' = HeldBySync
        BY <1>5 DEF CalmStep, ChangedUnder
      <4>2. ASSUME Writes(i, {"follow", "withdraw"}) PROVE FALSE
        <5>1. <<insp'[i].day, insp'[i].move>> = <<insp[i].day, insp[i].move>>
          BY <1>5, <4>1, <4>2 DEF HeldBySync, Writes
        <5> QED
          BY <1>2, <3>3, <5>1
      <4> QED
        BY <4>2
    <3>5. insp[i].day # NoDay
      BY <1>0, <1>1 DEF DaysGiven
    <3>6. OnItsDay(i, v)'
      BY <1>1, <1>2, <1>3, <1>4, <1>5, <3>2, <3>3, <3>4, <3>5 DEF OnItsDay, Moving, Fetched, Writes
    <3> QED
      BY <1>1, <1>2, <1>3, <3>6 DEF WantedKept
  <2> QED
    BY <2>1, <2>2, <2>3
<1> QED
  BY <1>7, <1>8, <1>9, <1>10, <1>11 DEF RestInv

LEMMA UnschedulingKeepsRest ==
    ASSUME CalmStep, NEW c \in Coordinator, UnscheduleBooked(c)
    PROVE  RestInv'
<1> DEFINE r == office[c]
           i == stop.insp
           v == insp[i].visit
<1>0. /\ Typed /\ Typed' /\ MadeIsTheStops /\ MadeIsTheStops' /\ NoneGiven /\ VisitOwed /\ DaysGiven /\ CopiesTrue
      /\ MoveTrue /\ SyncTrue /\ VisitsStand /\ DayKept /\ ListOwed /\ WantedKept /\ RequestFresh(c)
  BY CalmFacts DEF CalmStep, BookingInv, PeopleInv, RequestsFresh
<1>1. i \in Inspection /\ i # None /\ r.insp = i /\ r.visit = v /\ v \in Visit \cup {None}
  BY <1>0, Sentinels DEF UnscheduleBooked, Made, MadeIsTheStops, RequestFresh, Typed, RequestType, InspectionRow
<1>2. /\ insp'[i] = Erased /\ \A j \in Inspection \ {i} : insp'[j] = insp[j]
      /\ stop'.insp = None /\ stop'.visit = None /\ stop'.day = NoDay
      /\ stop'.status = IF v # None THEN "UNSCHEDULED" ELSE "PLANNED"
  BY <1>0, <1>1 DEF UnscheduleBooked, OffItsDay, Typed
<1>3. leaving' = IF v # None THEN [status |-> "due", visit |-> v] ELSE leaving
  BY <1>1 DEF UnscheduleBooked
<1>4. UNCHANGED <<listing, visit, worker, syncer, decisions>>
  BY DEF UnscheduleBooked, OfficeOnly
<1>5. office'[c] = NoRequest /\ \A d \in Coordinator \ {c} : office'[d] = office[d]
  BY <1>0 DEF UnscheduleBooked, Request, Typed
<1>6. /\ v # None => import'[v].status = "IGNORED" /\ import'[v].insp = None
      /\ \A w \in Visit \ {v} : import'[w] = import[w]
  <2>1. v # None => import[v].status # "none" /\ import[v] \in ImportRow
    BY <1>0, <1>1 DEF CalmStep, WellTyped, RowsKept, Scheduled, MadeIsTheStops, Typed
  <2> QED
    BY <1>0, <1>1, <2>1 DEF UnscheduleBooked, Typed, ImportRow
<1>7. ~OnItsWayOut /\ ~Leaving
  <2>1. OnItsWayOut => stop.visit = v /\ v # None /\ v # leaving.visit
    BY <1>1 DEF CalmStep, BookingInv, RowsInv, StopKnowsItsVisit
  <2>2. OnItsWayOut => history' # {}
    BY <1>1, <2>1 DEF UnscheduleBooked, OnItsWayOut
  <2> QED
    BY <2>2 DEF CalmStep, BookingInv, PeopleInv, WorkFresh, OnItsWayOut
<1>8. worker.stage = "write" => v = None
  BY <1>1, BookedAlone DEF CalmStep
<1>9. Current' = IF worker.stage = "write" THEN Current ELSE None
  BY <1>2, <1>4 DEF Current
<1>10. \A j \in Inspection : ~Made(j)'
  BY <1>0, <1>2, Sentinels DEF MadeIsTheStops
<1>11. NoneGiven' /\ VisitOwed' /\ DaysGiven'
  <2>1. Erased.state = "erased" /\ Erased.book = "none" /\ Erased.move = "none"
    BY DEF Erased, Unmade
  <2>2. NoneGiven'
    BY <1>0, <1>2, <1>3, <1>4, <2>1 DEF NoneGiven
  <2>3. VisitOwed'
    <3>1. worker.stage # "idle" /\ worker.task = "book" => worker.insp \in Inspection
      BY DEF CalmStep, WellTyped, WorkInHand
    <3> QED
      BY <1>0, <1>2, <1>4, <1>10, <2>1, <3>1 DEF VisitOwed
  <2>4. DaysGiven'
    BY <1>0, <1>2, <1>4, <1>5 DEF DaysGiven, NoRequest
  <2> QED
    BY <2>2, <2>3, <2>4
<1>12. CopiesTrue'
  <2>1. ASSUME NEW w \in Visit, import'[w].status = "IMPORTED", import'[w].insp # None
        PROVE  insp'[import'[w].insp].state # "unmade" /\ ~Made(import[w].insp)'
    <3>1. w # v /\ import'[w] = import[w]
      BY <1>6, <2>1, Sentinels
    <3>2. import[w].insp \in Inspection
      BY <1>0, <2>1, <3>1 DEF Typed, ImportRow
    <3>3. insp[import[w].insp].state # "unmade"
      BY <1>0, <2>1, <3>1 DEF CopiesTrue
    <3> QED
      BY <1>2, <1>10, <3>1, <3>2, <3>3 DEF Erased, Unmade
  <2>2. ASSUME NEW w \in Visit, visit'[w].state = "unmade" PROVE import'[w].status = "none"
    <3>1. v # None => visit[v].state = "live"
      BY <1>0, <1>1, <1>8 DEF VisitsStand, Current, Live
    <3> QED
      BY <1>0, <1>4, <1>6, <2>2, <3>1, Sentinels DEF CopiesTrue
  <2>3. Current' # None => import'[Current'].status # "IGNORED"
    <3>1. CASE worker.stage = "write"
      <4>1. import' = import
        BY <1>1, <1>8, <3>1 DEF UnscheduleBooked
      <4> QED
        BY <1>0, <1>9, <3>1, <4>1 DEF CopiesTrue
    <3> QED
      BY <1>9, <3>1
  <2> QED
    BY <1>2, <2>1, <2>2, <2>3 DEF CopiesTrue
<1>m. MoveTrue'
  BY <1>0, <1>2, <1>4, <1>10 DEF MoveTrue, CalmStep, WellTyped, WorkInHand, Erased, Unmade
<1>13. SyncTrue'
  <2>1. ASSUME syncer.stage = "note"
        PROVE  insp'[syncer.insp].state = "erased" /\ import'[syncer.visit].status = "IGNORED" /\ ~Made(syncer.insp)'
    <3>1. syncer.insp \in Inspection /\ syncer.visit \in Visit
      BY <2>1 DEF CalmStep, WellTyped, RowsKept
    <3>2. CASE syncer.insp = i
      <4>1. v = syncer.visit
        BY <1>0, <1>1, <2>1, <3>2 DEF SyncTrue, MadeIsTheStops
      <4> QED
        BY <1>2, <1>4, <1>6, <1>10, <3>1, <3>2, <4>1, Sentinels DEF Erased, Unmade
    <3>3. CASE syncer.insp # i
      <4>1. insp[syncer.insp].state = "erased" /\ import[syncer.visit].status = "IGNORED"
        BY <1>0, <2>1, <3>1, <3>3 DEF SyncTrue, MadeIsTheStops
      <4> QED
        BY <1>2, <1>4, <1>6, <1>10, <3>1, <3>3, <4>1, Sentinels
    <3> QED
      BY <3>2, <3>3
  <2>2. ASSUME syncer.stage \in {"follow", "withdraw"}
        PROVE  syncer.insp \in Inspection /\ insp'[syncer.insp].state # "unmade" /\ ~Made(syncer.insp)'
    BY <1>0, <1>2, <1>4, <1>10, <2>2 DEF SyncTrue, Erased, Unmade
  <2> QED
    BY <1>4, <2>1, <2>2 DEF SyncTrue
<1>14. VisitsStand'
  <2>1. v # None => visit[v].state = "live"
    BY <1>0, <1>1, <1>8 DEF VisitsStand, Current, Live
  <2>2. (OnItsWayOut => stop.visit # leaving.visit /\ visit[leaving.visit].state # "unmade")'
    BY <1>2, <1>3, <1>4, <1>7, <2>1 DEF OnItsWayOut
  <2> QED
    BY <1>0, <1>2, <1>4, <1>7, <1>9, <2>2 DEF VisitsStand, Live, Leaving
<1>15. DayKept'
  <2>1. ASSUME NEW d \in Coordinator
        PROVE  office'[d].stage = "move" => insp'[office'[d].insp].visit = office'[d].visit
    BY <1>0, <1>5, RequestWaits DEF CalmStep, DayKept, NoRequest
  <2> QED
    BY <1>2, <2>1 DEF DayKept
<1>16. ListOwed'
  <2>1. v = None => listing # "SENT"
    BY <1>0, <1>1, <1>7 DEF ListOwed, CalmStep, BookingInv, RowsInv, StopKnowsItsVisit
  <2>2. v # None => OnItsWayOut'
    BY <1>3 DEF OnItsWayOut
  <2>3. worker.stage = "sent" => worker.task # "list"
    BY <1>1, BookedAlone DEF CalmStep
  <2> QED
    BY <1>0, <1>2, <1>4, <1>5, <2>1, <2>2, <2>3 DEF ListOwed, NoRequest
<1>17. WantedKept'
  <2>1. wanted' \in {wanted, Unseen}
    BY <1>4, <1>5, WantedStays DEF UnscheduleBooked
  <2>2. ASSUME wanted' # Unseen PROVE OffItsDayStill'
    <3>1. v # None
      BY <1>0, <1>1, <2>1, <2>2 DEF WantedKept, OnItsDay
    <3>2. Current' = None
      BY <1>8, <1>9, <3>1
    <3>3. \A d \in Coordinator : office'[d].stage \notin {"draft", "edit"}
      BY <1>0, <1>1, <1>5 DEF DayKept, NoRequest
    <3> QED
      BY <1>2, <3>2, <3>3 DEF OffItsDayStill
  <2> QED
    BY <1>2, <2>2 DEF WantedKept
<1> QED
  BY <1>m, <1>11, <1>12, <1>13, <1>14, <1>15, <1>16, <1>17 DEF RestInv

(* The office, by hand.                                                    *)
LEMMA ByHandKeepsRest ==
    ASSUME CalmStep, NEW c \in Coordinator,
           \/ EditWrites(c) \/ PlaceOne(c) \/ Unlist(c) \/ RescheduleWrites(c) \/ RescheduleRefused(c)
           \/ Unschedule(c) \/ UnscheduleBooked(c) \/ UnscheduleRefused(c) \/ ClearDay(c) \/ DayCleared(c)
           \/ \E d \in Day : EditStop(c, d) \/ Reschedule(c, d)
    PROVE  RestInv'
<1> USE DEF OfficeOnly, console
<1>0. Typed /\ MadeIsTheStops /\ NoneGiven /\ DaysGiven /\ DayKept /\ ListOwed /\ RequestFresh(c)
  BY CalmFacts DEF CalmStep, BookingInv, PeopleInv, RequestsFresh
<1>n. NoRequest.stage = "idle"
  BY DEF NoRequest
<1>q. ASSUME Request(c, NoRequest), ~TakenUp(c), UNCHANGED <<insp, leaving, listing, import, visit, syncer, worker>>,
             stop'.insp = stop.insp, stop'.visit = stop.visit, stop'.status = stop.status,
             \/ stop'.day = stop.day
             \/ stop.insp = None /\ (stop'.day = NoDay \/ office[c].stage \in {"draft", "edit"})
      PROVE  RestInv'
  BY <1>n, <1>q, ListStays, OfficeLeavesRest
<1>1. CASE EditWrites(c)
  <2>1. /\ stop'.insp = stop.insp /\ stop'.visit = stop.visit /\ stop'.status = stop.status /\ stop.insp = None
        /\ office[c].stage \in {"draft", "edit"} /\ ~TakenUp(c)
    BY <1>0, <1>1 DEF EditWrites, Typed, StopRow, DayKept, TakenUp
  <2>2. CASE office[c].stage = "draft"
    BY <1>1, <1>q, <2>1, <2>2 DEF EditWrites
  <2>3. CASE office[c].stage = "edit"
    <3> DEFINE r == [office[c] EXCEPT !.stage = "place"]
    <3>1. Request(c, r) /\ r.stage = "place" /\ ~r.publishing
      BY <1>0, <1>1, <2>3 DEF EditWrites, ListOwed, Typed, RequestType
    <3> HIDE DEF r
    <3>2. ListOwed' /\ listing' # "ABANDONED"
      BY <1>1, <2>1, <3>1, ListStays DEF EditWrites
    <3> QED
      BY <1>1, <2>1, <3>1, <3>2, OfficeLeavesRest DEF EditWrites
  <2> QED
    BY <2>1, <2>2, <2>3
<1>2. CASE PlaceOne(c)
  <2>1. ~TakenUp(c)
    BY <1>2 DEF PlaceOne, TakenUp
  <2>2. CASE Request(c, NoRequest)
    BY <1>2, <1>q, <2>1, <2>2 DEF PlaceOne
  <2>3. CASE stop.day # NoDay
             /\ Request(c, [office[c] EXCEPT !.stage = "unlist", !.day = stop.day, !.visit = stop.visit])
    <3> DEFINE r == [office[c] EXCEPT !.stage = "unlist", !.day = stop.day, !.visit = stop.visit]
    <3>1. Request(c, r) /\ r.stage = "unlist" /\ r.day # NoDay /\ ~r.publishing
      BY <1>0, <1>2, <2>3 DEF PlaceOne, ListOwed, Typed, RequestType
    <3> HIDE DEF r
    <3>2. ListOwed' /\ listing' # "ABANDONED"
      BY <1>2, <2>1, <3>1, ListStays DEF PlaceOne
    <3> QED
      BY <1>2, <3>1, <3>2, OfficeLeavesRest DEF PlaceOne
  <2> QED
    BY <1>2, <2>2, <2>3 DEF PlaceOne
<1>3. CASE Unlist(c)
  <2> DEFINE r == [office[c] EXCEPT !.stage = "ask"]
  <2>1. Request(c, r) /\ r.stage = "ask" /\ r.day # NoDay /\ ~r.publishing
    BY <1>0, <1>3 DEF Unlist, ListOwed, DaysGiven, Typed, RequestType
  <2> HIDE DEF r
  <2>2. office'[c] = r /\ \A d \in Coordinator \ {c} : office'[d] = office[d]
    BY <1>0, <2>1 DEF Request, Typed
  <2>3. TakenUp(c)' /\ listing' \in {listing, "none"}
    BY <1>3, <2>1, <2>2 DEF TakenUp, Unlist
  <2>4. ListOwed' /\ listing' # "ABANDONED"
    BY <1>0, <1>3, <2>1, <2>2, <2>3 DEF ListOwed, NoneGiven, Unlist, OnItsWayOut
  <2> QED
    BY <1>3, <2>1, <2>4, OfficeLeavesRest DEF Unlist
<1>4. CASE RescheduleWrites(c)
  BY <1>4, ReschedulingKeepsRest
<1>5. CASE RescheduleRefused(c) \/ UnscheduleRefused(c)
  BY <1>5, <1>q DEF RescheduleRefused, UnscheduleRefused, TakenUp
<1>6. CASE Unschedule(c)
  <2> DEFINE r == [NoRequest EXCEPT !.stage = "unschedule", !.insp = stop.insp, !.visit = insp[stop.insp].visit]
  <2>1. Request(c, r) /\ r.stage = "unschedule" /\ ~TakenUp(c)
    BY <1>6 DEF Unschedule, TakenUp, NoRequest
  <2> HIDE DEF r
  <2>2. ListOwed' /\ listing' # "ABANDONED"
    BY <1>6, <2>1, ListStays DEF Unschedule
  <2> QED
    BY <1>6, <2>1, <2>2, OfficeLeavesRest DEF Unschedule
<1>7. CASE UnscheduleBooked(c)
  BY <1>7, UnschedulingKeepsRest
<1>8. CASE ClearDay(c)
  <2> DEFINE r == [NoRequest EXCEPT !.stage = "clear"]
  <2>1. Request(c, r) /\ r.stage = "clear" /\ ~TakenUp(c)
    BY <1>8 DEF ClearDay, TakenUp, NoRequest
  <2> HIDE DEF r
  <2>2. ListOwed' /\ listing' # "ABANDONED"
    BY <1>8, <2>1, ListStays DEF ClearDay
  <2> QED
    BY <1>8, <2>1, <2>2, OfficeLeavesRest DEF ClearDay
<1>9. CASE DayCleared(c)
  <2>1. /\ stop'.insp = stop.insp /\ stop'.visit = stop.visit /\ stop'.status = stop.status
        /\ stop'.day = stop.day \/ (stop.insp = None /\ stop'.day = NoDay)
    BY <1>0, <1>9 DEF DayCleared, Typed, StopRow
  <2> QED
    BY <1>9, <1>q, <2>1 DEF DayCleared, TakenUp
<1>10. ASSUME NEW d \in Day, EditStop(c, d) PROVE RestInv'
  <2> DEFINE r == [NoRequest EXCEPT !.stage = IF plan = "DRAFT" THEN "draft" ELSE "edit", !.day = d]
  <2>1. r.stage \in {"draft", "edit"} /\ r.day = d /\ ~r.publishing
    BY DEF NoRequest
  <2>2. Request(c, r) /\ office[c] = NoRequest /\ stop.insp = None
    BY <1>10 DEF EditStop
  <2>n. ~TakenUp(c)
    BY <2>2, <1>n DEF TakenUp
  <2> HIDE DEF r
  <2>3. wanted' = Unseen
    BY <1>10, NothingWanted DEF EditStop
  <2>4. ListOwed' /\ listing' # "ABANDONED"
    BY <1>10, <2>1, <2>2, <2>n, ListStays DEF EditStop
  <2> QED
    BY <1>10, <2>1, <2>2, <2>3, <2>4, OfficeLeavesRest, Sentinels DEF EditStop
<1>11. ASSUME NEW d \in Day, Reschedule(c, d) PROVE RestInv'
  <2> DEFINE r == [NoRequest EXCEPT !.stage = "move", !.day = d, !.insp = stop.insp, !.visit = insp[stop.insp].visit]
  <2>1. r.stage = "move" /\ r.day = d /\ insp[r.insp].visit = r.visit
    BY DEF NoRequest
  <2>2. Request(c, r) /\ office[c] = NoRequest
    BY <1>11 DEF Reschedule
  <2>n. ~TakenUp(c)
    BY <2>2, <1>n DEF TakenUp
  <2> HIDE DEF r
  <2>3. ListOwed' /\ listing' # "ABANDONED"
    BY <1>11, <2>1, <2>2, <2>n, ListStays DEF Reschedule
  <2> QED
    BY <1>11, <2>1, <2>2, <2>3, OfficeLeavesRest, Sentinels DEF Reschedule
<1> QED
  BY <1>1, <1>2, <1>3, <1>4, <1>5, <1>6, <1>7, <1>8, <1>9, <1>10, <1>11

-----------------------------------------------------------------------------
(* The worker                                                              *)

(* The worker reads: nothing is written, here or in Jobber.                *)
LEMMA WorkerReadsRest ==
    ASSUME CalmStep, UNCHANGED <<stop, insp, listing, leaving, import, visit, office, syncer, decisions>>,
           worker.stage # "write", worker'.stage # "write", VisitOwed', MoveTrue',
           worker'.task \in {"list", "leave"} => worker'.day = NoDay,
           Leaving' /\ worker'.stage \in {"delete", "sent"} => stop.visit \notin {None, worker'.old},
           worker'.stage = "sent" => worker'.task \notin {"list", "move"},
           worker'.task = "move" /\ worker'.stage \in {"read", "push"} =>
               /\ Made(worker'.insp) /\ worker'.old = insp[worker'.insp].visit
               /\ insp[worker'.insp].move = "due" \/ Moving(worker'.old)
               /\ worker'.stage = "push" => worker'.day = insp[worker'.insp].day
    PROVE  RestInv'
<1>0. /\ Typed /\ MadeIsTheStops /\ NoneGiven /\ DaysGiven /\ CopiesTrue /\ SyncTrue /\ VisitsStand /\ DayKept
      /\ ListOwed /\ WantedKept
  BY CalmFacts
<1>1. Current' = Current
  BY DEF Current
<1>i. worker'.task = "move" /\ worker'.stage \in {"read", "push"} =>
        stop.insp # None /\ worker'.insp = stop.insp /\ worker'.old = insp[stop.insp].visit
  <2>1. Made(worker'.insp) => worker'.insp \in Inspection /\ worker'.insp # None
    BY CalmFacts DEF Typed, WorkType, Made
  <2> QED
    BY <1>0, <2>1 DEF MadeIsTheStops
<1>2. NoneGiven' /\ DaysGiven' /\ DayKept' /\ ListOwed'
  BY <1>0 DEF NoneGiven, DaysGiven, DayKept, ListOwed, TakenUp, OnItsWayOut
<1>3. CopiesTrue' /\ SyncTrue' /\ VisitsStand'
  BY <1>0, <1>1 DEF CopiesTrue, SyncTrue, VisitsStand, Live, Made, OnItsWayOut, Leaving
<1>4. WantedKept'
  <2>1. wanted' \in {wanted, Unseen}
    BY WantedStays
  <2>2. CASE wanted' = Unseen
    BY <2>2 DEF WantedKept
  <2>3. CASE wanted' = wanted /\ wanted # Unseen /\ stop.insp # None
    <3> DEFINE i == stop.insp
               v == insp[i].visit
    <3>1. OnItsDay(i, v)
      BY <1>0, <2>3 DEF WantedKept
    <3>2. Moving(v)' => insp[i].move = "due" \/ Moving(v)
      BY <1>i DEF Moving
    <3>3. Moving(v)' /\ worker'.stage = "push" => worker'.day = wanted
      BY <1>i, <3>1, <3>2 DEF Moving, OnItsDay
    <3>4. ~(worker'.task = "move" /\ worker'.stage = "sent")
      OBVIOUS
    <3>5. OnItsDay(i, v)'
      BY <2>3, <3>1, <3>2, <3>3, <3>4 DEF OnItsDay, Fetched, Writes
    <3> QED
      BY <2>3, <3>5 DEF WantedKept
  <2>4. CASE wanted' = wanted /\ wanted # Unseen /\ stop.insp = None
    <3>1. OffItsDayStill
      BY <1>0, <2>4 DEF WantedKept
    <3>2. ~Moving(Current)'
      BY <1>i, <2>4 DEF Moving
    <3>3. OffItsDayStill'
      BY <1>1, <3>1, <3>2 DEF OffItsDayStill, Moving, Fetched
    <3> QED
      BY <2>4, <3>3 DEF WantedKept
  <2> QED
    BY <2>1, <2>2, <2>3, <2>4
<1> QED
  BY <1>2, <1>3, <1>4 DEF RestInv

LEMMA ReadingKeepsRest ==
    ASSUME CalmStep, Pick \/ ListReads \/ LeaveReads \/ BookReads \/ MoveReads \/ CallFails
    PROVE  RestInv'
<1> USE DEF WorkerOnly, console
<1>0. /\ Typed /\ MadeIsTheStops /\ VisitOwed /\ DaysGiven /\ MoveTrue /\ WorkFresh /\ ListedAlone
      /\ WorkInHand
  BY CalmFacts DEF CalmStep, BookingInv, PeopleInv, WellTyped
<1>1. CASE Pick
  <2>1. worker' \in DueWork
    BY <1>1 DEF Pick
  <2>2. /\ worker'.stage = "read" /\ worker'.day = NoDay
        /\ worker'.task \in {"book", "move"} => Made(worker'.insp)
        /\ worker'.task = "move" => worker'.old = insp[worker'.insp].visit /\ insp[worker'.insp].move = "due"
    BY <2>1 DEF DueWork, NoWork, Scheduled
  <2>3. VisitOwed' /\ MoveTrue'
    BY <1>0, <1>1, <2>2 DEF Pick, VisitOwed, MoveTrue, Made
  <2> QED
    BY <1>1, <2>2, <2>3, WorkerReadsRest DEF Pick
<1>2. CASE ListReads
  <2>1. stop.insp = None
    BY <1>0, <1>2 DEF ListReads, WorkFresh, ListedAlone
  <2>2. Works("create") \/ "dropped" \in history'
    BY <1>2, <2>1 DEF ListReads
  <2>3. worker'.stage = "create" /\ worker'.task = "list" /\ worker'.day = worker.day
    BY <1>0, <1>2, <2>2 DEF ListReads, Works, CalmStep, Typed, WorkType
  <2>4. VisitOwed' /\ MoveTrue'
    BY <1>0, <1>2, <2>3 DEF ListReads, VisitOwed, MoveTrue
  <2> QED
    BY <1>0, <1>2, <2>3, <2>4, WorkerReadsRest DEF ListReads, DaysGiven
<1>3. CASE LeaveReads
  <2>1. /\ worker'.stage = IF stop.visit \in {None, worker.old} THEN "create" ELSE "delete"
        /\ worker'.task = "leave" /\ worker'.old = worker.old /\ worker'.day = worker.day
    BY <1>0, <1>3 DEF LeaveReads, Works, Typed, WorkType
  <2>2. VisitOwed' /\ MoveTrue'
    BY <1>0, <1>3, <2>1 DEF LeaveReads, VisitOwed, MoveTrue
  <2> QED
    BY <1>0, <1>3, <2>1, <2>2, WorkerReadsRest DEF LeaveReads, DaysGiven
<1>4. CASE BookReads
  <2>1. /\ worker'.stage = IF stop.insp # worker.insp \/ ~Made(worker.insp) THEN "failed"
                           ELSE IF BookedAlready(worker.insp) THEN "sent" ELSE "create"
        /\ worker'.task = "book" /\ worker'.insp = worker.insp
    BY <1>0, <1>4 DEF BookReads, Typed, WorkType
  <2>2. VisitOwed' /\ MoveTrue'
    BY <1>0, <1>4, <2>1 DEF BookReads, BookedAlready, VisitOwed, MoveTrue, Made
  <2> QED
    BY <1>4, <2>1, <2>2, WorkerReadsRest DEF BookReads, Leaving
<1>5. CASE MoveReads
  <2>1. /\ worker'.stage = IF Made(worker.insp) THEN "push" ELSE "failed"
        /\ worker'.day = insp[worker.insp].day
        /\ worker'.task = "move" /\ worker'.insp = worker.insp /\ worker'.old = worker.old
    BY <1>0, <1>5 DEF MoveReads, Typed, WorkType
  <2>2. VisitOwed' /\ MoveTrue'
    BY <1>0, <1>5, <2>1 DEF MoveReads, VisitOwed, MoveTrue, Made
  <2>3. Made(worker.insp) => worker.old = insp[worker.insp].visit
    BY <1>0, <1>5 DEF MoveReads, MoveTrue
  <2> QED
    BY <1>5, <2>1, <2>2, <2>3, WorkerReadsRest DEF MoveReads, Leaving, Moving
<1>6. CASE CallFails
  <2>1. /\ worker'.stage = "failed" /\ worker'.task = worker.task /\ worker'.old = worker.old
        /\ worker'.day = worker.day /\ worker'.insp = worker.insp
    BY <1>0, <1>6 DEF CallFails, Works, Typed, WorkType
  <2>2. VisitOwed' /\ MoveTrue'
    BY <1>0, <1>6, <2>1 DEF CallFails, VisitOwed, MoveTrue, Made
  <2> QED
    BY <1>0, <1>6, <2>1, <2>2, WorkerReadsRest DEF CallFails, DaysGiven
<1> QED
  BY <1>1, <1>2, <1>3, <1>4, <1>5, <1>6

(* A day pushed, or a visit deleted.                                       *)
LEMMA CallingKeepsRest ==
    ASSUME CalmStep, PushDay \/ DeleteVisit
    PROVE  RestInv'
<1> USE DEF WorkerOnly, console
<1>0. /\ Typed /\ Typed' /\ MadeIsTheStops /\ NoneGiven /\ VisitOwed /\ DaysGiven /\ CopiesTrue /\ MoveTrue /\ SyncTrue
      /\ VisitsStand /\ DayKept /\ ListOwed /\ WantedKept /\ WorkFresh /\ WorkInHand /\ RowsInv
  BY CalmFacts DEF CalmStep, BookingInv, PeopleInv, WellTyped
<1>1. /\ UNCHANGED <<stop, insp, listing, leaving, import, office, syncer, decisions>>
      /\ worker.stage \in {"push", "delete"}
      /\ worker'.stage \in {"sent", "failed"} /\ worker'.task = worker.task /\ worker'.old = worker.old
      /\ worker'.day = worker.day /\ worker'.insp = worker.insp
  BY <1>0 DEF PushDay, DeleteVisit, Works, Typed, WorkType
<1>2. Current' = Current
  BY <1>1 DEF Current
<1>3. worker.task = IF worker.stage = "push" THEN "move" ELSE "leave"
  BY <1>0, <1>1 DEF WorkInHand
<1>4. NoneGiven' /\ VisitOwed' /\ DaysGiven' /\ MoveTrue' /\ SyncTrue' /\ DayKept' /\ ListOwed'
  BY <1>0, <1>1, <1>3 DEF NoneGiven, VisitOwed, DaysGiven, MoveTrue, SyncTrue, DayKept, ListOwed, TakenUp, OnItsWayOut, Made
<1>5. wanted' \in {wanted, Unseen}
  BY <1>1, WantedStays
<1>6. CASE PushDay
  <2>1. \A v \in Visit : visit'[v].state = visit[v].state
    BY <1>0, <1>6 DEF PushDay, Typed, JobberVisit
  <2>2. worker.task = "move" /\ worker.stage = "push"
    BY <1>0, <1>6 DEF PushDay, WorkInHand
  <2>3. \A v \in Visit : visit'[v].day = IF v = worker.old /\ Live(v) THEN worker.day ELSE visit[v].day
    BY <1>0, <1>6 DEF PushDay, Live, Typed, JobberVisit
  <2>4. CopiesTrue'
    BY <1>0, <1>1, <1>2, <2>1 DEF CopiesTrue, Made
  <2>5. VisitsStand'
    <3>1. OnItsWayOut => leaving.visit \in Visit
      BY DEF CalmStep, WellTyped, RowsKept, OnItsWayOut
    <3>2. Current \in Visit \cup {None} /\ stop.visit \in Visit \cup {None}
      BY <1>0, <1>1, <1>3 DEF Current, Typed, StopRow, InspectionRow
    <3> QED
      BY <1>0, <1>1, <1>2, <2>1, <2>2, <3>1, <3>2 DEF VisitsStand, Live, OnItsWayOut, Leaving
  <2>6. WantedKept'
    <3>1. CASE wanted' = Unseen
      BY <3>1 DEF WantedKept
    <3>2. CASE wanted' = wanted /\ wanted # Unseen /\ stop.insp # None
      <4> DEFINE i == stop.insp
                 v == insp[i].visit
      <4>1. OnItsDay(i, v) /\ i \in Inspection /\ v \in Visit /\ Live(v)
        BY <1>0, <1>1, <1>3, <3>2 DEF WantedKept, OnItsDay, Typed, StopRow, InspectionRow, VisitsStand, Current
      <4>2. CASE worker.old = v
        <5>1. Moving(v) /\ worker.day = wanted /\ visit'[v].day = wanted
          BY <2>2, <2>3, <4>1, <4>2 DEF Moving, OnItsDay
        <5>2. OnItsDay(i, v)'
          BY <1>1, <3>2, <4>1, <5>1 DEF OnItsDay, Moving, Fetched, Writes
        <5> QED
          BY <1>1, <3>2, <5>2 DEF WantedKept
      <4>3. CASE worker.old # v
        <5>1. visit'[v].day = visit[v].day
          BY <2>3, <4>1, <4>3
        <5>2. OnItsDay(i, v)'
          BY <1>1, <3>2, <4>1, <4>3, <5>1 DEF OnItsDay, Moving, Fetched, Writes
        <5> QED
          BY <1>1, <3>2, <5>2 DEF WantedKept
      <4> QED
        BY <4>2, <4>3
    <3>3. CASE wanted' = wanted /\ wanted # Unseen /\ stop.insp = None
      <4>1. OffItsDayStill
        BY <1>0, <3>3 DEF WantedKept
      <4>2. Current # None => Current \in Visit /\ Current # worker.old
        BY <1>0, <2>2, <3>3, <4>1 DEF Current, Typed, StopRow, OffItsDayStill, Moving
      <4>3. OffItsDayStill'
        BY <1>1, <1>2, <2>3, <4>1, <4>2 DEF OffItsDayStill, Moving, Fetched
      <4> QED
        BY <1>1, <3>3, <4>3 DEF WantedKept
    <3> QED
      BY <1>5, <3>1, <3>2, <3>3
  <2> QED
    BY <1>4, <2>4, <2>5, <2>6 DEF RestInv
<1>7. CASE DeleteVisit
  <2>1. worker.task = "leave" /\ worker.stage = "delete" /\ worker.old \in Visit /\ OnItsWayOut /\ leaving.visit = worker.old
    BY <1>0, <1>7 DEF DeleteVisit, WorkInHand, Leaving, WorkFresh, OnItsWayOut
  <2>2. /\ visit'[worker.old].state = "deleted" /\ visit'[worker.old].day = visit[worker.old].day
        /\ \A v \in Visit \ {worker.old} : visit'[v] = visit[v]
    BY <1>0, <1>7, <2>1 DEF DeleteVisit, Typed, JobberVisit
  <2>3. stop.visit \notin {None, worker.old}
    BY <1>0, <2>1 DEF VisitsStand, Leaving
  <2>4. Current # worker.old
    BY <1>0, <2>1, <2>3 DEF Current, RowsInv, StopKnowsItsVisit
  <2>5. Current \in Visit \cup {None} /\ stop.visit \in Visit
    BY <1>0, <2>1, <2>3 DEF Current, Typed, StopRow, InspectionRow
  <2>6. CopiesTrue'
    BY <1>0, <1>1, <1>2, <2>2 DEF CopiesTrue, Made
  <2>7. VisitsStand'
    BY <1>0, <1>1, <1>2, <2>1, <2>2, <2>3, <2>4, <2>5 DEF VisitsStand, Live, OnItsWayOut, Leaving
  <2>8. \A v \in Visit : visit'[v].day = visit[v].day
    BY <2>2
  <2>9. WantedKept'
    <3>1. CASE wanted' = Unseen
      BY <3>1 DEF WantedKept
    <3>2. CASE wanted' = wanted /\ wanted # Unseen /\ stop.insp # None
      <4> DEFINE i == stop.insp
                 v == insp[i].visit
      <4>1. OnItsDay(i, v) /\ v \in Visit
        BY <1>0, <3>2 DEF WantedKept, OnItsDay, Typed, StopRow, InspectionRow
      <4>2. OnItsDay(i, v)'
        BY <1>1, <2>1, <2>8, <3>2, <4>1 DEF OnItsDay, Moving, Fetched, Writes
      <4> QED
        BY <1>1, <3>2, <4>2 DEF WantedKept
    <3>3. CASE wanted' = wanted /\ wanted # Unseen /\ stop.insp = None
      <4>1. OffItsDayStill
        BY <1>0, <3>3 DEF WantedKept
      <4>2. OffItsDayStill'
        BY <1>1, <1>2, <2>1, <2>5, <2>8, <4>1 DEF OffItsDayStill, Moving, Fetched
      <4> QED
        BY <1>1, <3>3, <4>2 DEF WantedKept
    <3> QED
      BY <1>5, <3>1, <3>2, <3>3
  <2> QED
    BY <1>4, <2>6, <2>7, <2>9 DEF RestInv
<1> QED
  BY <1>6, <1>7

LEMMA CreatingKeepsRest ==
    ASSUME CalmStep, CreateVisit
    PROVE  RestInv'
<1> USE DEF WorkerOnly, console
<1>0. /\ Typed /\ Typed' /\ MadeIsTheStops /\ NoneGiven /\ VisitOwed /\ DaysGiven /\ CopiesTrue /\ MoveTrue /\ SyncTrue
      /\ VisitsStand /\ DayKept /\ ListOwed /\ WantedKept /\ WorkFresh /\ WorkInHand /\ RowsKept
  BY CalmFacts DEF CalmStep, BookingInv, PeopleInv, WellTyped
<1>1. PICK v \in NextVisit : /\ visit' = [visit EXCEPT ![v] = [state |-> "live", day |-> worker.day]]
                             /\ worker' = [worker EXCEPT !.stage = "write", !.new = v]
  BY DEF CreateVisit
<1>2. v \in Visit /\ visit[v].state = "unmade" /\ v # None
  BY Sentinels DEF NextVisit
<1>3. /\ visit'[v].state = "live" /\ visit'[v].day = worker.day /\ \A w \in Visit \ {v} : visit'[w] = visit[w]
      /\ worker'.stage = "write" /\ worker'.new = v /\ worker'.day = worker.day
      /\ worker'.task = worker.task /\ worker'.insp = worker.insp /\ worker'.old = worker.old
  BY <1>0, <1>1, <1>2 DEF Typed, WorkType
<1>4. /\ UNCHANGED <<stop, insp, listing, leaving, import, office, syncer, decisions>>
      /\ worker.stage = "create" /\ worker.task # "move"
  BY <1>0 DEF CreateVisit, WorkInHand
<1>5. Current' = v
  BY <1>3 DEF Current
<1>6. NoneGiven' /\ VisitOwed' /\ DaysGiven' /\ MoveTrue' /\ SyncTrue' /\ DayKept' /\ ListOwed'
  BY <1>0, <1>3, <1>4 DEF NoneGiven, VisitOwed, DaysGiven, MoveTrue, SyncTrue, DayKept, ListOwed, TakenUp, OnItsWayOut, Made
<1>7. CopiesTrue'
  <2>1. import[v].status = "none"
    BY <1>0, <1>2 DEF CopiesTrue
  <2> QED
    BY <1>0, <1>2, <1>3, <1>4, <1>5, <2>1 DEF CopiesTrue, Made
<1>8. VisitsStand'
  <2>1. Leaving => worker.old # v
    BY <1>0, <1>2, <1>4 DEF VisitsStand, OnItsWayOut, WorkFresh, Leaving
  <2>2. Leaving' => Leaving
    BY <1>3, <1>4 DEF Leaving
  <2>3. stop.visit # None => stop.visit \in Visit /\ stop.visit # v
    BY <1>0, <1>2 DEF VisitsStand, Live, Typed, StopRow
  <2>4. OnItsWayOut => leaving.visit \in Visit
    BY <1>0 DEF RowsKept, OnItsWayOut
  <2>5. (stop.visit # None => Live(stop.visit))'
    BY <1>0, <1>3, <1>4, <2>3 DEF VisitsStand, Live
  <2>6. (OnItsWayOut => stop.visit # leaving.visit /\ visit[leaving.visit].state # "unmade")'
    BY <1>0, <1>2, <1>3, <1>4, <2>4 DEF VisitsStand, OnItsWayOut
  <2>7. Live(Current)'
    BY <1>2, <1>3, <1>5 DEF Live
  <2> QED
    BY <1>3, <1>4, <2>1, <2>2, <2>5, <2>6, <2>7 DEF VisitsStand, Leaving
<1>9. WantedKept'
  <2>1. wanted' \in {wanted, Unseen}
    BY <1>4, WantedStays
  <2>2. CASE worker.task = "book"
    <3>1. stop.insp # None /\ insp[stop.insp].visit = None
      BY <1>0, <1>4, <2>2 DEF WorkFresh, WorkInHand, MadeIsTheStops, Made
    <3> QED
      BY <1>0, <2>1, <3>1 DEF WantedKept, OnItsDay
  <2>3. CASE worker.task \in {"list", "leave"}
    <3>1. stop.insp = None /\ worker.day = NoDay
      BY <1>0, <1>4, <2>3 DEF WorkFresh, DaysGiven
    <3>2. syncer.visit # v \/ syncer.stage = "idle"
      BY <1>0, <1>2 DEF RowsKept
    <3>3. OffItsDayStill => OffItsDayStill'
      BY <1>3, <1>4, <1>5, <3>1, <3>2 DEF OffItsDayStill, Moving, Fetched
    <3> QED
      BY <1>0, <1>4, <2>1, <3>1, <3>3 DEF WantedKept
  <2> QED
    BY <1>0, <1>4, <2>2, <2>3 DEF Typed, WorkType
<1> QED
  BY <1>6, <1>7, <1>8, <1>9 DEF RestInv

(* The new visit is written down, on the stop or on its inspection.        *)
LEMMA StopGetsItsVisit ==
    ASSUME CalmStep, VisitOnStop
    PROVE  RestInv'
<1> USE DEF WorkerOnly, console
<1>0. /\ Typed /\ Typed' /\ MadeIsTheStops /\ NoneGiven /\ VisitOwed /\ DaysGiven /\ CopiesTrue /\ MoveTrue /\ SyncTrue
      /\ VisitsStand /\ DayKept /\ ListOwed /\ WantedKept /\ WorkFresh /\ ListedAlone /\ WorkInHand
  BY CalmFacts DEF CalmStep, BookingInv, PeopleInv, WellTyped
<1>1. /\ worker.stage = "write" /\ worker.task \in {"list", "leave"} /\ stop.insp = None
      /\ worker.task = "list" => listing = "due"
      /\ worker.new \in Visit /\ worker.new # None
  BY <1>0, Sentinels DEF VisitOnStop, WorkFresh, WorkInHand
<1>2. /\ stop' = [stop EXCEPT !.visit = worker.new]
      /\ Works(IF worker.task = "list" THEN "sent" ELSE "delete")
      /\ UNCHANGED <<insp, listing, leaving, import, visit, office, syncer, decisions>>
  BY <1>1 DEF VisitOnStop
<1>3. /\ stop'.insp = None /\ stop'.visit = worker.new /\ stop'.day = stop.day /\ stop'.status = stop.status
      /\ worker'.stage = IF worker.task = "list" THEN "sent" ELSE "delete"
      /\ worker'.task = worker.task /\ worker'.old = worker.old /\ worker'.day = worker.day
      /\ worker'.insp = worker.insp
  BY <1>0, <1>1, <1>2 DEF Typed, StopRow, Works, WorkType
<1>4. Current' = Current /\ Current = worker.new
  BY <1>1, <1>3 DEF Current
<1>5. NoneGiven' /\ VisitOwed' /\ DaysGiven' /\ MoveTrue' /\ SyncTrue' /\ DayKept' /\ ListOwed'
  BY <1>0, <1>1, <1>2, <1>3
     DEF NoneGiven, VisitOwed, DaysGiven, MoveTrue, SyncTrue, DayKept, ListOwed, TakenUp, OnItsWayOut, Made
<1>6. CopiesTrue'
  BY <1>0, <1>2, <1>3, <1>4 DEF CopiesTrue, Made
<1>7. VisitsStand'
  <2>1. OnItsWayOut => worker.task = "leave" /\ leaving.visit = worker.old
    BY <1>0, <1>1 DEF ListedAlone, WorkFresh, Leaving
  <2>2. worker.task = "leave" => worker.new # worker.old
    BY <1>0, <1>1 DEF VisitsStand, Leaving
  <2> QED
    BY <1>0, <1>1, <1>2, <1>3, <1>4, <2>1, <2>2 DEF VisitsStand, Live, OnItsWayOut, Leaving
<1>8. WantedKept'
  <2>1. wanted' \in {wanted, Unseen}
    BY <1>2, WantedStays
  <2>2. OffItsDayStill => OffItsDayStill'
    BY <1>1, <1>2, <1>3, <1>4 DEF OffItsDayStill, Moving, Fetched
  <2> QED
    BY <1>0, <1>1, <1>3, <2>1, <2>2 DEF WantedKept
<1> QED
  BY <1>5, <1>6, <1>7, <1>8 DEF RestInv

LEMMA ClaimingKeepsRest ==
    ASSUME CalmStep, ClaimVisit
    PROVE  RestInv'
<1> USE DEF WorkerOnly, console
<1>0. /\ Typed /\ Typed' /\ MadeIsTheStops /\ MadeIsTheStops' /\ NoneGiven /\ VisitOwed /\ DaysGiven /\ CopiesTrue
      /\ MoveTrue /\ SyncTrue /\ VisitsStand /\ DayKept /\ ListOwed /\ WantedKept /\ WorkFresh /\ WorkInHand
      /\ RowsInv /\ RowsKept
  BY CalmFacts DEF CalmStep, BookingInv, PeopleInv, WellTyped
<1> PICK i \in Inspection, v \in Visit : i = worker.insp /\ v = worker.new
  BY <1>0 DEF ClaimVisit, WorkInHand
<1>1. worker.stage = "write" /\ worker.task = "book" /\ Made(i) /\ insp[i].visit = None
  BY <1>0 DEF ClaimVisit, WorkFresh
<1>2. stop.insp = i /\ i # None /\ v # None
  BY <1>0, <1>1, Sentinels DEF MadeIsTheStops
<1>3. Scheduled = {i}
  BY <1>2, BookedAlone DEF CalmStep
<1>4. /\ insp' = [insp EXCEPT ![i].visit = v]
      /\ import' = [import EXCEPT ![v].status = "IMPORTED", ![v].insp = i]
      /\ Works("sent")
      /\ UNCHANGED <<stop, listing, leaving, visit, office, syncer, decisions>>
  BY <1>1, <1>3 DEF ClaimVisit, OfVisit
<1>5. /\ insp'[i].visit = v /\ insp'[i].state = insp[i].state /\ insp'[i].day = insp[i].day
      /\ insp'[i].book = insp[i].book /\ insp'[i].move = insp[i].move
      /\ \A j \in Inspection \ {i} : insp'[j] = insp[j]
      /\ worker'.stage = "sent" /\ worker'.task = "book" /\ worker'.insp = i
  BY <1>0, <1>1, <1>4 DEF Typed, InspectionRow, Works, WorkType
<1>6. /\ import'[v].status = "IMPORTED" /\ import'[v].insp = i
      /\ \A w \in Visit \ {v} : import'[w] = import[w]
  BY <1>0, <1>4 DEF Typed, ImportRow
<1>7. Current = v /\ Current' = v
  BY <1>1, <1>2, <1>4, <1>5 DEF Current
<1>8. \A j \in Inspection : Made(j)' <=> j = i
  BY <1>0, <1>2, <1>4 DEF MadeIsTheStops
<1>9. NoneGiven' /\ VisitOwed' /\ MoveTrue' /\ ListOwed'
  <2>1. NoneGiven'
    BY <1>0, <1>4, <1>5 DEF NoneGiven
  <2>2. VisitOwed' /\ MoveTrue'
    BY <1>1, <1>2, <1>4, <1>5 DEF VisitOwed, MoveTrue, Made
  <2>3. ListOwed'
    BY <1>2, <1>4, <1>5, <1>0 DEF ListOwed
  <2> QED
    BY <2>1, <2>2, <2>3
<1>10. DaysGiven'
  BY <1>0, <1>2, <1>4, <1>5 DEF DaysGiven
<1>11. CopiesTrue'
  <2>1. visit[v].state = "live"
    BY <1>0, <1>2, <1>7 DEF VisitsStand, Live
  <2>2. ASSUME NEW w \in Visit, import'[w].status = "IMPORTED", import'[w].insp # None
        PROVE  /\ insp'[import'[w].insp].state # "unmade"
               /\ Made(import[w].insp)' => insp'[import'[w].insp].visit = w
               /\ stop'.insp # None /\ insp'[stop'.insp].visit = w => import'[w].insp = stop'.insp
    <3>1. CASE w = v
      BY <1>1, <1>2, <1>4, <1>5, <1>6, <3>1 DEF Made
    <3>2. CASE w # v
      <4>1. import'[w] = import[w] /\ import[w].insp \in Inspection
        BY <1>0, <1>6, <2>2, <3>2 DEF Typed, ImportRow
      <4>2. import[w].insp # i
        BY <1>0, <1>1, <2>2, <4>1, Sentinels DEF CopiesTrue
      <4> QED
        BY <1>0, <1>2, <1>4, <1>5, <1>8, <2>2, <3>2, <4>1, <4>2 DEF CopiesTrue
    <3> QED
      BY <3>1, <3>2
  <2>3. \A w \in Visit : visit'[w].state = "unmade" => import'[w].status = "none"
    BY <1>0, <1>4, <1>6, <2>1 DEF CopiesTrue
  <2>4. import'[Current'].status # "IGNORED"
    BY <1>6, <1>7
  <2> QED
    BY <2>2, <2>3, <2>4 DEF CopiesTrue
<1>12. SyncTrue'
  <2>1. syncer.stage # "idle" => syncer.visit \in Visit /\ syncer.visit # None
    BY <1>0, Sentinels DEF RowsKept
  <2>2. syncer.stage \in {"note", "follow", "withdraw"} => syncer.insp \in Inspection /\ syncer.insp # i
    BY <1>0, <1>1, <2>1 DEF SyncTrue, RowsKept
  <2>3. syncer.stage = "note" =>
          insp[syncer.insp].state = "erased" /\ import[syncer.visit].status = "IGNORED" /\ syncer.visit # v
    BY <1>0, <1>2, <1>7, <2>2 DEF SyncTrue, MadeIsTheStops, CopiesTrue
  <2>4. syncer.stage = "note" =>
          ~Made(syncer.insp)' /\ insp'[syncer.insp].state = "erased" /\ import'[syncer.visit].status = "IGNORED"
    BY <1>4, <1>5, <1>6, <1>8, <2>1, <2>2, <2>3
  <2>5. (syncer.stage \in {"follow", "withdraw"} =>
           /\ syncer.insp \in Inspection /\ insp[syncer.insp].state # "unmade"
           /\ Made(syncer.insp) => insp[syncer.insp].visit = syncer.visit)'
    BY <1>0, <1>4, <1>5, <1>8, <2>2 DEF SyncTrue
  <2> QED
    BY <1>4, <2>4, <2>5 DEF SyncTrue
<1>13. VisitsStand'
  <2>1. ~OnItsWayOut
    BY <1>0, <1>1, <1>2 DEF RowsInv, StopKnowsItsVisit
  <2> QED
    BY <1>0, <1>4, <1>5, <1>7, <2>1 DEF VisitsStand, Live, OnItsWayOut, Leaving
<1>14. DayKept'
  <2>1. ASSUME NEW d \in Coordinator
        PROVE  /\ office'[d].stage \notin {"draft", "edit"}
               /\ office'[d].stage = "move" => insp'[office'[d].insp].visit = office'[d].visit
    BY <1>0, <1>2, <1>4, RequestWaits DEF CalmStep, DayKept
  <2> QED
    BY <1>0, <1>2, <1>4, <1>5, <2>1 DEF DayKept
<1>15. WantedKept'
  <2>1. wanted' \in {wanted, Unseen}
    BY <1>4, WantedStays DEF CalmStep
  <2>2. wanted = Unseen
    BY <1>0, <1>1, <1>2 DEF WantedKept, OnItsDay
  <2> QED
    BY <2>1, <2>2 DEF WantedKept
<1> QED
  BY <1>9, <1>10, <1>11, <1>12, <1>13, <1>14, <1>15 DEF RestInv

LEMMA MarkingKeepsRest ==
    ASSUME CalmStep, MarkSent \/ MarkFailed
    PROVE  RestInv'
<1> USE DEF WorkerOnly
<1>0. /\ Typed /\ Typed' /\ MadeIsTheStops /\ MadeIsTheStops' /\ NoneGiven /\ VisitOwed /\ DaysGiven /\ CopiesTrue
      /\ MoveTrue /\ SyncTrue /\ VisitsStand /\ DayKept /\ ListOwed /\ WantedKept /\ WorkFresh /\ WorkInHand
  BY CalmFacts DEF CalmStep, BookingInv, PeopleInv, WellTyped
<1>1. \/ worker.stage = "sent" /\ SetTask("SENT")
      \/ worker.stage = "failed" /\ SetTask("due")
  BY DEF MarkSent, MarkFailed, CalmStep
<1>2. /\ UNCHANGED <<stop, import, visit, office, syncer, decisions>>
      /\ worker' = NoWork /\ NoWork.stage = "idle" /\ NoWork.task = "list" /\ NoWork.day = NoDay
  BY DEF MarkSent, MarkFailed, NoWork
<1>3. /\ \A i \in Inspection :
            /\ insp'[i].state = insp[i].state /\ insp'[i].visit = insp[i].visit /\ insp'[i].day = insp[i].day
            /\ insp'[i].book # insp[i].book =>
                  worker.task = "book" /\ i = worker.insp /\ Made(i)
                  /\ insp'[i].book = (IF worker.stage = "sent" THEN "SENT" ELSE "due")
            /\ insp'[i].move # insp[i].move =>
                  worker.task = "move" /\ i = worker.insp /\ worker.stage = "sent"
                  /\ insp'[i].move = "SENT"
  <2>1. CASE worker.task = "book"
    BY <1>0, <1>1, <2>1 DEF SetTask, Typed, InspectionRow, WorkInHand
  <2>2. CASE worker.task = "move"
    BY <1>0, <1>1, <2>2 DEF SetTask, Typed, InspectionRow, WorkInHand
  <2>3. CASE worker.task \notin {"book", "move"}
    BY <1>1, <2>3 DEF SetTask
  <2> QED
    BY <2>1, <2>2, <2>3
<1>4. listing' # listing => worker.task = "list" /\ listing = "due" /\ worker.stage = "sent" /\ listing' = "SENT"
  BY <1>0, <1>1 DEF SetTask, WorkFresh
<1>5. /\ leaving'.visit = leaving.visit
      /\ leaving'.status # leaving.status =>
            worker.task = "leave" /\ leaving.status = "due" /\ worker.stage = "sent" /\ leaving'.status = "SENT"
  BY <1>0, <1>1 DEF SetTask, WorkFresh, Leaving, Typed, LeavingRow
<1>6. Current' = Current
  <2>1. stop.insp # None => stop.insp \in Inspection
    BY <1>0 DEF Typed, StopRow
  <2> QED
    BY <1>1, <1>2, <1>3, <2>1 DEF Current
<1>7. \A i \in Inspection : Made(i)' <=> Made(i)
  BY <1>3 DEF Made
<1>8. NoneGiven' /\ MoveTrue' /\ DaysGiven'
  <2>1. NoneGiven'
    <3>1. ASSUME NEW i \in Inspection PROVE insp'[i].book # "ABANDONED" /\ insp'[i].move # "ABANDONED"
      BY <1>0, <1>3 DEF NoneGiven
    <3> QED
      BY <1>0, <1>4, <1>5, <3>1 DEF NoneGiven
  <2>2. MoveTrue'
    BY <1>2 DEF MoveTrue
  <2>3. DaysGiven'
    BY <1>0, <1>2, <1>3 DEF DaysGiven, Typed, StopRow
  <2> QED
    BY <2>1, <2>2, <2>3
<1>9. VisitOwed'
  <2>1. stop.insp # None => stop.insp \in Inspection
    BY <1>0 DEF Typed, StopRow
  <2>2. stop.insp # None => insp'[stop.insp].visit # None \/ insp'[stop.insp].book = "due"
    BY <1>0, <1>1, <1>3, <2>1 DEF VisitOwed
  <2> QED
    BY <1>2, <2>2 DEF VisitOwed
<1>10. CopiesTrue' /\ SyncTrue'
  <2>1. ASSUME NEW v \in Visit, import[v].insp # None PROVE import[v].insp \in Inspection
    BY <1>0, <2>1 DEF Typed, ImportRow
  <2>2. stop.insp # None => stop.insp \in Inspection
    BY <1>0 DEF Typed, StopRow
  <2>3. CopiesTrue'
    BY <1>0, <1>2, <1>3, <1>6, <1>7, <2>1, <2>2 DEF CopiesTrue
  <2>4. syncer.stage = "note" => syncer.insp \in Inspection
    BY DEF CalmStep, WellTyped, RowsKept
  <2>5. SyncTrue'
    BY <1>0, <1>2, <1>3, <1>7, <2>4 DEF SyncTrue
  <2> QED
    BY <2>3, <2>5
<1>11. VisitsStand'
  BY <1>0, <1>2, <1>5, <1>6 DEF VisitsStand, Live, OnItsWayOut, Leaving
<1>12. DayKept'
  <2>1. ASSUME NEW d \in Coordinator, office[d].stage = "move"
        PROVE  insp'[office[d].insp].visit = office[d].visit
    BY <1>0, <1>2, <2>1, RequestWaits DEF CalmStep, DayKept
  <2>2. stop.insp # None => stop.day = insp'[stop.insp].day
    BY <1>0, <1>3 DEF DayKept, Typed, StopRow
  <2> QED
    BY <1>0, <1>2, <2>1, <2>2 DEF DayKept
<1>13. ListOwed'
  <2>1. OnItsWayOut /\ ~OnItsWayOut' => stop.visit # None
    BY <1>0, <1>5 DEF OnItsWayOut, VisitsStand, Leaving
  <2>2. listing' # listing => stop.visit # None
    BY <1>0, <1>4 DEF ListOwed
  <2>3. stop.insp # None => insp'[stop.insp].visit = insp[stop.insp].visit
    BY <1>0, <1>3 DEF Typed, StopRow
  <2> QED
    BY <1>0, <1>2, <1>4, <2>1, <2>2, <2>3 DEF ListOwed, TakenUp
<1>14. WantedKept'
  <2>1. wanted' \in {wanted, Unseen}
    BY <1>2, WantedStays
  <2>2. CASE wanted' = Unseen
    BY <2>2 DEF WantedKept
  <2>3. CASE wanted' = wanted /\ wanted # Unseen /\ stop.insp # None
    <3> DEFINE i == stop.insp
               v == insp[i].visit
    <3>1. OnItsDay(i, v) /\ i \in Inspection
      BY <1>0, <2>3 DEF WantedKept, Typed, StopRow
    <3>2. insp'[i].move # insp[i].move => visit[v].day = wanted /\ insp'[i].move # "due"
      <4>1. Made(i)
        BY <1>0, <3>1 DEF MadeIsTheStops
      <4> QED
        BY <1>0, <1>3, <3>1, <4>1 DEF MoveTrue, OnItsDay
    <3>3. insp'[i].day = insp[i].day /\ insp'[i].visit = v
      BY <1>3, <3>1
    <3>4. OnItsDay(i, v)'
      BY <1>1, <1>2, <2>3, <3>1, <3>2, <3>3 DEF OnItsDay, Moving, Fetched, Writes
    <3> QED
      BY <1>2, <2>3, <3>4 DEF WantedKept
  <2>4. CASE wanted' = wanted /\ wanted # Unseen /\ stop.insp = None
    <3>1. OffItsDayStill
      BY <1>0, <2>4 DEF WantedKept
    <3>2. OffItsDayStill'
      BY <1>2, <1>6, <3>1 DEF OffItsDayStill, Moving, Fetched
    <3> QED
      BY <1>2, <2>4, <3>2 DEF WantedKept
  <2> QED
    BY <2>1, <2>2, <2>3, <2>4
<1> QED
  BY <1>8, <1>9, <1>10, <1>11, <1>12, <1>13, <1>14 DEF RestInv

LEMMA WorkerKeepsRest ==
    ASSUME CalmStep, WorkerGoesOn \/ CreateUnheard \/ CallFails
    PROVE  RestInv'
<1>1. ~CreateUnheard
  BY DEF CreateUnheard, CalmStep
<1> QED
  BY <1>1, ReadingKeepsRest, CallingKeepsRest, CreatingKeepsRest, StopGetsItsVisit, ClaimingKeepsRest, MarkingKeepsRest
     DEF WorkerGoesOn

-----------------------------------------------------------------------------
(* The syncs                                                               *)

(* The sync ends, or fetches a visit: no row is written.                   *)
LEMMA SyncReadsRest ==
    ASSUME CalmStep, UNCHANGED <<stop, insp, listing, leaving, import, visit, office, worker, decisions>>,
           \/ syncer' = NoSync
           \/ syncer'.stage = "fetched" /\ syncer'.visit \in Visit /\ syncer'.day = visit[syncer'.visit].day
    PROVE  RestInv'
<1>0. /\ Typed /\ MadeIsTheStops /\ NoneGiven /\ VisitOwed /\ DaysGiven /\ CopiesTrue /\ MoveTrue /\ SyncTrue
      /\ VisitsStand /\ DayKept /\ ListOwed /\ WantedKept
  BY CalmFacts
<1>1. \/ syncer'.stage = "idle"
      \/ syncer'.stage = "fetched" /\ syncer'.day = visit[syncer'.visit].day
  BY DEF NoSync
<1>2. Current' = Current
  BY DEF Current
<1>3. NoneGiven' /\ VisitOwed' /\ MoveTrue' /\ DayKept' /\ ListOwed' /\ DaysGiven' /\ SyncTrue'
  BY <1>0, <1>1
     DEF NoneGiven, VisitOwed, MoveTrue, DayKept, ListOwed, TakenUp, OnItsWayOut, DaysGiven, SyncTrue, Made
<1>4. CopiesTrue' /\ VisitsStand'
  BY <1>0, <1>2 DEF CopiesTrue, VisitsStand, Live, Made, OnItsWayOut, Leaving
<1>5. WantedKept'
  <2>1. wanted' \in {wanted, Unseen}
    BY WantedStays
  <2>2. CASE wanted' = Unseen
    BY <2>2 DEF WantedKept
  <2>3. CASE wanted' = wanted /\ wanted # Unseen /\ stop.insp # None
    <3> DEFINE i == stop.insp
               v == insp[i].visit
    <3>1. OnItsDay(i, v)
      BY <1>0, <2>3 DEF WantedKept
    <3>2. OnItsDay(i, v)'
      BY <1>1, <2>3, <3>1 DEF OnItsDay, Moving, Fetched, Writes
    <3> QED
      BY <2>3, <3>2 DEF WantedKept
  <2>4. CASE wanted' = wanted /\ wanted # Unseen /\ stop.insp = None
    <3>1. OffItsDayStill
      BY <1>0, <2>4 DEF WantedKept
    <3>2. OffItsDayStill'
      BY <1>1, <1>2, <3>1 DEF OffItsDayStill, Moving
    <3> QED
      BY <2>4, <3>2 DEF WantedKept
  <2> QED
    BY <2>1, <2>2, <2>3, <2>4
<1> QED
  BY <1>3, <1>4, <1>5 DEF RestInv

LEMMA UnmetKeepsRest ==
    ASSUME CalmStep, VisitUnmet
    PROVE  RestInv'
<1> USE DEF SyncOnly, counters
<1>0. /\ Typed /\ MadeIsTheStops /\ NoneGiven /\ VisitOwed /\ DaysGiven /\ CopiesTrue /\ MoveTrue /\ SyncTrue
      /\ VisitsStand /\ DayKept /\ ListOwed /\ WantedKept /\ RowsKept
  BY CalmFacts DEF CalmStep, WellTyped
<1> PICK v \in Visit : v = syncer.visit
  BY <1>0 DEF VisitUnmet, RowsKept
<1>1. /\ UNCHANGED <<stop, insp, listing, leaving, visit, office, worker, decisions>>
      /\ syncer.stage = "fetched" /\ visit[v].state # "unmade"
      /\ import' = [import EXCEPT ![v] = [status |-> "PENDING", insp |-> None, seen |-> syncer.day]]
  BY <1>0 DEF VisitUnmet, RowsKept
<1>2. /\ import'[v].status = "PENDING" /\ \A w \in Visit \ {v} : import'[w] = import[w]
  BY <1>0, <1>1 DEF Typed
<1>3. OfVisit(v) = {}
  BY DEF VisitUnmet, Linked
<1>4. \/ syncer'.stage = "idle"
      \/ /\ syncer.day # NoDay /\ syncer'.stage = "import" /\ syncer'.visit = v /\ syncer'.day = syncer.day
  BY <1>0 DEF VisitUnmet, NoSync, Typed, SyncType
<1>5. Current' = Current
  BY <1>1 DEF Current
<1>6. NoneGiven' /\ VisitOwed' /\ MoveTrue' /\ DayKept' /\ ListOwed' /\ SyncTrue'
  BY <1>0, <1>1, <1>4 DEF NoneGiven, VisitOwed, MoveTrue, DayKept, ListOwed, TakenUp, OnItsWayOut, SyncTrue, Made
<1>7. DaysGiven'
  BY <1>0, <1>1, <1>4 DEF DaysGiven
<1>8. CopiesTrue'
  <2>1. Current # None => Current \in Visit
    BY <1>0 DEF Current, Typed, StopRow, InspectionRow, CalmStep, WellTyped, WorkInHand
  <2> QED
    BY <1>0, <1>1, <1>2, <1>5, <2>1 DEF CopiesTrue, Made
<1>9. VisitsStand'
  BY <1>0, <1>1, <1>5 DEF VisitsStand, Live, OnItsWayOut, Leaving
<1>10. WantedKept'
  <2>1. wanted' \in {wanted, Unseen}
    BY <1>1, WantedStays
  <2>2. CASE wanted' = Unseen
    BY <2>2 DEF WantedKept
  <2>3. CASE wanted' = wanted /\ wanted # Unseen /\ stop.insp # None
    <3> DEFINE i == stop.insp
               w == insp[i].visit
    <3>1. OnItsDay(i, w) /\ i \in Inspection /\ w \in Visit
      BY <1>0, <2>3 DEF WantedKept, OnItsDay, Typed, StopRow, InspectionRow
    <3>2. w # v
      BY <1>0, <1>3, <3>1, Sentinels DEF OfVisit, Scheduled, MadeIsTheStops
    <3>3. OnItsDay(i, w)'
      BY <1>1, <1>2, <1>4, <2>3, <3>1, <3>2 DEF OnItsDay, Moving, Fetched, Writes
    <3> QED
      BY <1>1, <2>3, <3>3 DEF WantedKept
  <2>4. CASE wanted' = wanted /\ wanted # Unseen /\ stop.insp = None
    <3>1. OffItsDayStill
      BY <1>0, <2>4 DEF WantedKept
    <3>2. OffItsDayStill'
      BY <1>1, <1>4, <1>5, <3>1 DEF OffItsDayStill, Moving
    <3> QED
      BY <1>1, <2>4, <3>2 DEF WantedKept
  <2> QED
    BY <2>1, <2>2, <2>3, <2>4
<1> QED
  BY <1>6, <1>7, <1>8, <1>9, <1>10 DEF RestInv

(* The visit is fetched anew: a push that waits is dropped only for a day  *)
(* that is the wanted one.                                                 *)
LEMMA MetKeepsRest ==
    ASSUME CalmStep, VisitMet
    PROVE  RestInv'
<1> USE DEF SyncOnly, counters
<1>0. /\ Typed /\ Typed' /\ MadeIsTheStops /\ NoneGiven /\ VisitOwed /\ DaysGiven /\ CopiesTrue /\ MoveTrue /\ SyncTrue
      /\ VisitsStand /\ DayKept /\ ListOwed /\ WantedKept /\ RowsKept
  BY CalmFacts DEF CalmStep, WellTyped
<1> PICK v \in Visit : v = syncer.visit
  BY <1>0 DEF VisitMet, RowsKept
<1> DEFINE d == syncer.day
           owed(i) == Made(i) /\ insp[i].move = "due"
           held(i) == owed(i) /\ ~ChangedSince(v, d)
<1>1. /\ UNCHANGED <<stop, listing, leaving, visit, office, worker, decisions>>
      /\ syncer.stage = "fetched" /\ visit[v].state # "unmade"
  BY <1>0 DEF VisitMet, RowsKept
<1>2. PICK i \in Linked(v) :
        /\ import' = [import EXCEPT ![v] = [status |-> "IMPORTED", insp |-> i, seen |-> d]]
        /\ insp' = IF owed(i) /\ ~held(i) THEN [insp EXCEPT ![i].move = "none"] ELSE insp
        /\ syncer' = IF ~Made(i) \/ held(i) \/ insp[i].day = d THEN NoSync
                     ELSE [syncer EXCEPT !.insp = i, !.stage = IF d = NoDay THEN "withdraw" ELSE "follow"]
  BY DEF VisitMet
<1>3. /\ i \in Inspection /\ i # None /\ insp[i].state # "unmade"
      /\ Made(i) => insp[i].visit = v
      /\ stop.insp # None /\ insp[stop.insp].visit = v => i = stop.insp
  <2>1. CASE import[v].status = "IMPORTED" /\ import[v].insp # None
    <3>1. import[v].insp = i
      BY <1>2, <2>1 DEF Linked
    <3> QED
      BY <1>0, <2>1, <3>1, Sentinels DEF CopiesTrue, Typed, ImportRow
  <2>2. CASE ~(import[v].status = "IMPORTED" /\ import[v].insp # None)
    <3>1. i \in OfVisit(v)
      BY <1>2, <2>2 DEF Linked
    <3> QED
      BY <1>0, <3>1, Sentinels DEF OfVisit, Scheduled, Made, MadeIsTheStops
  <2> QED
    BY <2>1, <2>2
<1>4. /\ \A j \in Inspection :
            /\ insp'[j].state = insp[j].state /\ insp'[j].visit = insp[j].visit /\ insp'[j].day = insp[j].day
            /\ insp'[j].book = insp[j].book
            /\ insp'[j].move = IF j = i /\ owed(i) /\ ~held(i) THEN "none" ELSE insp[j].move
      /\ \A j \in Inspection \ {i} : insp'[j] = insp[j]
  BY <1>0, <1>2, <1>3 DEF Typed, InspectionRow
<1>5. /\ import'[v] = [status |-> "IMPORTED", insp |-> i, seen |-> d]
      /\ \A w \in Visit \ {v} : import'[w] = import[w]
  BY <1>0, <1>2 DEF Typed
<1>6. IF ~Made(i) \/ held(i) \/ insp[i].day = d THEN syncer'.stage = "idle"
      ELSE /\ syncer'.insp = i /\ syncer'.visit = v /\ syncer'.day = d
           /\ syncer'.stage = IF d = NoDay THEN "withdraw" ELSE "follow"
  BY <1>0, <1>2 DEF NoSync, Typed, SyncType
<1>s. syncer'.stage \in {"idle", "withdraw", "follow"}
  BY <1>6
<1>7. \A j \in Inspection : Made(j)' <=> Made(j)
  BY <1>4 DEF Made
<1>8. stop.insp # None => stop.insp \in Inspection
  BY <1>0 DEF Typed, StopRow
<1>9. Current' = Current
  BY <1>1, <1>4, <1>8 DEF Current
<1>10. NoneGiven'
  BY <1>0, <1>1, <1>4 DEF NoneGiven
<1>11. VisitOwed' /\ MoveTrue'
  <2>1. worker.stage # "idle" /\ worker.task \in {"book", "move"} => worker.insp \in Inspection
    BY DEF CalmStep, WellTyped, WorkInHand
  <2> QED
    BY <1>0, <1>1, <1>4, <1>7, <1>8, <2>1 DEF VisitOwed, MoveTrue
<1>12. DaysGiven'
  BY <1>0, <1>1, <1>4, <1>6, <1>8 DEF DaysGiven
<1>13. CopiesTrue'
  <2>1. ASSUME NEW w \in Visit, import'[w].status = "IMPORTED", import'[w].insp # None
        PROVE  /\ insp'[import'[w].insp].state # "unmade"
               /\ Made(import[w].insp)' => insp'[import'[w].insp].visit = w
               /\ stop'.insp # None /\ insp'[stop'.insp].visit = w => import'[w].insp = stop'.insp
    <3>1. CASE w = v
      BY <1>1, <1>3, <1>4, <1>5, <1>7, <1>8, <3>1
    <3>2. CASE w # v
      <4>1. import'[w] = import[w] /\ import[w].insp \in Inspection
        BY <1>0, <1>5, <2>1, <3>2 DEF Typed, ImportRow
      <4> QED
        BY <1>0, <1>1, <1>4, <1>7, <1>8, <2>1, <4>1 DEF CopiesTrue
    <3> QED
      BY <3>1, <3>2
  <2>2. \A w \in Visit : visit'[w].state = "unmade" => import'[w].status = "none"
    BY <1>0, <1>1, <1>5 DEF CopiesTrue
  <2>3. Current # None => Current \in Visit
    BY <1>0 DEF Current, Typed, StopRow, InspectionRow, CalmStep, WellTyped, WorkInHand
  <2>4. Current' # None => import'[Current'].status # "IGNORED"
    BY <1>0, <1>5, <1>9, <2>3 DEF CopiesTrue
  <2> QED
    BY <2>1, <2>2, <2>4 DEF CopiesTrue
<1>14. SyncTrue'
  BY <1>3, <1>4, <1>6, <1>7 DEF SyncTrue
<1>15. VisitsStand'
  BY <1>0, <1>1, <1>9 DEF VisitsStand, Live, OnItsWayOut, Leaving
<1>16. DayKept'
  <2>1. ASSUME NEW c \in Coordinator, office[c].stage = "move"
        PROVE  insp'[office[c].insp].visit = office[c].visit
    BY <1>0, <1>1, <2>1, RequestWaits DEF CalmStep, DayKept
  <2> QED
    BY <1>0, <1>1, <1>4, <1>8, <2>1 DEF DayKept
<1>17. ListOwed'
  BY <1>0, <1>1, <1>4, <1>8 DEF ListOwed, TakenUp, OnItsWayOut
<1>18. WantedKept'
  <2>1. wanted' \in {wanted, Unseen}
    BY <1>1, WantedStays
  <2>2. CASE wanted' = Unseen
    BY <2>2 DEF WantedKept
  <2>3. CASE wanted' = wanted /\ wanted # Unseen /\ stop.insp # None
    <3> DEFINE k == stop.insp
               w == insp[k].visit
    <3>1. OnItsDay(k, w) /\ k \in Inspection /\ w \in Visit /\ Made(k)
      BY <1>0, <2>3 DEF WantedKept, OnItsDay, Typed, StopRow, InspectionRow, MadeIsTheStops
    <3>w. insp'[k].day = insp[k].day /\ insp'[k].visit = w /\ ~Fetched(w)' /\ (Moving(w)' <=> Moving(w))
      BY <1>1, <1>4, <1>s, <3>1 DEF Fetched, Moving
    <3>2. CASE w # v
      <4>1. i # k
        BY <1>3, <3>1, <3>2
      <4>2. ~Writes(k, {"follow", "withdraw"})' /\ ~Writes(k, {"withdraw"})'
        BY <1>1, <1>6, <4>1 DEF Writes
      <4>3. import'[w] = import[w] /\ insp'[k] = insp[k]
        BY <1>4, <1>5, <3>1, <3>2, <4>1
      <4>4. OnItsDay(k, w)'
        BY <1>1, <2>3, <3>1, <3>w, <4>2, <4>3 DEF OnItsDay, Moving
      <4> QED
        BY <1>1, <2>3, <3>w, <4>4 DEF WantedKept
    <3>3. CASE w = v
      <4>1. i = k /\ Fetched(v)
        BY <1>1, <1>3, <2>3, <3>3 DEF Fetched
      <4>2. insp[k].move = "due" \/ Moving(v) => d = wanted \/ (insp[k].move = "due" /\ import[v].seen \in {Unseen, d})
        BY <3>1, <3>3, <4>1 DEF OnItsDay
      <4>3. visit[v].day # wanted =>
              insp[k].move = "due" /\ import[v].seen \in {Unseen, visit[v].day} /\ d = visit[v].day
        BY <3>1, <3>3, <4>1 DEF OnItsDay
      <4>4. CASE insp[k].move # "due"
        <5>1. insp' = insp /\ visit[v].day = wanted
          BY <1>2, <3>1, <3>3, <4>1, <4>4 DEF OnItsDay
        <5>2. Moving(v) => syncer'.stage = "idle"
          BY <1>6, <3>1, <3>3, <4>1, <4>2, <4>4 DEF OnItsDay
        <5>3. wanted # NoDay => ~Writes(k, {"withdraw"})'
          BY <1>6, <3>1, <3>3, <4>1 DEF OnItsDay, Writes
        <5>4. OnItsDay(k, w)'
          BY <1>1, <1>s, <2>3, <3>1, <3>w, <3>3, <4>4, <5>1, <5>2, <5>3 DEF OnItsDay, Moving, Writes
        <5> QED
          BY <1>1, <2>3, <3>w, <5>4 DEF WantedKept
      <4>5. CASE held(i)
        <5>1. insp' = insp /\ syncer'.stage = "idle" /\ import'[v].seen = d
          BY <1>2, <1>5, <1>6, <4>5
        <5>2. OnItsDay(k, w)'
          BY <1>1, <2>3, <3>1, <3>w, <3>3, <4>1, <4>3, <5>1 DEF OnItsDay, Moving, Writes
        <5> QED
          BY <1>1, <2>3, <3>w, <5>2 DEF WantedKept
      <4>6. CASE insp[k].move = "due" /\ ~held(i)
        <5>1. import[v].seen \notin {Unseen, d}
          BY <3>1, <4>1, <4>6 DEF ChangedSince
        <5>2. d = wanted /\ visit[v].day = wanted /\ insp[k].day = wanted
          BY <3>1, <4>2, <4>3, <4>6, <5>1 DEF OnItsDay
        <5>3. insp'[k].move = "none" /\ syncer'.stage = "idle"
          BY <1>4, <1>6, <3>1, <4>1, <4>6, <5>2
        <5>4. OnItsDay(k, w)'
          BY <1>1, <2>3, <3>1, <3>w, <3>3, <5>2, <5>3 DEF OnItsDay, Moving, Writes
        <5> QED
          BY <1>1, <2>3, <3>w, <5>4 DEF WantedKept
      <4> QED
        BY <4>4, <4>5, <4>6
    <3> QED
      BY <3>2, <3>3
  <2>4. CASE wanted' = wanted /\ wanted # Unseen /\ stop.insp = None
    <3>1. OffItsDayStill
      BY <1>0, <2>4 DEF WantedKept
    <3>2. OffItsDayStill'
      BY <1>1, <1>s, <1>9, <3>1 DEF OffItsDayStill, Moving
    <3> QED
      BY <1>1, <2>4, <3>2 DEF WantedKept
  <2> QED
    BY <2>1, <2>2, <2>3, <2>4
<1> QED
  BY <1>10, <1>11, <1>12, <1>13, <1>14, <1>15, <1>16, <1>17, <1>18 DEF RestInv

LEMMA WithdrawingKeepsRest ==
    ASSUME CalmStep, Withdraw
    PROVE  RestInv'
<1> USE DEF SyncOnly, counters
<1>0. /\ Typed /\ Typed' /\ MadeIsTheStops /\ MadeIsTheStops' /\ NoneGiven /\ VisitOwed /\ DaysGiven /\ CopiesTrue
      /\ MoveTrue /\ SyncTrue /\ VisitsStand /\ DayKept /\ ListOwed /\ WantedKept /\ RowsKept /\ WorkInHand /\ RowsInv
      /\ WorkFresh
  BY CalmFacts DEF CalmStep, BookingInv, PeopleInv, WellTyped
<1>1. /\ UNCHANGED <<listing, leaving, visit, office, worker, decisions>>
      /\ syncer.stage = "withdraw" /\ syncer' = NoSync
  BY DEF Withdraw
<1>2. CASE UNCHANGED <<insp, stop, import>>
  BY <1>1, <1>2, SyncReadsRest
<1>3. CASE ~UNCHANGED <<insp, stop, import>>
  <2> PICK v \in Visit, i \in Inspection : v = syncer.visit /\ i = syncer.insp
    BY <1>0, <1>1 DEF RowsKept, SyncTrue
  <2>1. Made(i) /\ insp[i].visit = v /\ stop.insp = i /\ i # None /\ v # None
    BY <1>0, <1>3, Sentinels DEF Withdraw, MadeIsTheStops
  <2>2. /\ insp' = [insp EXCEPT ![i] = Erased]
        /\ stop' = OffItsDay("UNSCHEDULED", v)
        /\ import' = [import EXCEPT ![v].status = "PENDING", ![v].insp = None]
    BY <2>1 DEF Withdraw
  <2>3. /\ worker.stage \notin {"create", "write"}
        /\ worker.stage # "idle" => worker.task # "list"
    BY <2>1, BookedAlone, Sentinels DEF CalmStep
  <2>4. /\ stop'.insp = None /\ stop'.visit = v /\ stop'.day = NoDay
        /\ insp'[i] = Erased /\ \A j \in Inspection \ {i} : insp'[j] = insp[j]
        /\ import'[v].status = "PENDING" /\ import'[v].seen = import[v].seen
        /\ \A w \in Visit \ {v} : import'[w] = import[w]
    BY <1>0, <2>2 DEF OffItsDay, Typed, ImportRow
  <2>5. \A j \in Inspection : ~Made(j)'
    BY <1>0, <2>4, Sentinels DEF MadeIsTheStops
  <2>6. Current = v /\ Current' = v
    BY <1>1, <2>1, <2>3, <2>4 DEF Current
  <2>e. Erased.state = "erased" /\ Erased.book = "none" /\ Erased.move = "none"
    BY DEF Erased, Unmade
  <2>7. NoneGiven'
    <3>1. ASSUME NEW j \in Inspection PROVE insp'[j].book # "ABANDONED" /\ insp'[j].move # "ABANDONED"
      BY <1>0, <2>4, <2>e DEF NoneGiven
    <3> QED
      BY <1>0, <1>1, <3>1 DEF NoneGiven
  <2>8. VisitOwed' /\ MoveTrue'
    <3>1. worker.stage # "idle" /\ worker.task \in {"book", "move"} =>
            worker.insp \in Inspection /\ insp'[worker.insp].state # "unmade" /\ ~Made(worker.insp)'
      BY <1>0, <1>1, <2>4, <2>5, <2>e DEF WorkInHand, VisitOwed, MoveTrue
    <3> QED
      BY <1>1, <2>4, <3>1 DEF VisitOwed, MoveTrue
  <2>9. DaysGiven'
    BY <1>0, <1>1, <2>4 DEF DaysGiven, NoSync
  <2>10. CopiesTrue'
    <3>1. ASSUME NEW w \in Visit, import'[w].status = "IMPORTED", import'[w].insp # None
          PROVE  insp'[import'[w].insp].state # "unmade" /\ ~Made(import[w].insp)'
      <4>1. w # v /\ import'[w] = import[w] /\ import[w].insp \in Inspection
        BY <1>0, <2>4, <3>1 DEF Typed, ImportRow
      <4> QED
        BY <1>0, <2>4, <2>5, <2>e, <3>1, <4>1 DEF CopiesTrue
    <3>2. \A w \in Visit : visit'[w].state = "unmade" => import'[w].status = "none"
      BY <1>0, <1>1, <2>4 DEF CopiesTrue, RowsKept
    <3> QED
      BY <2>4, <2>6, <3>1, <3>2 DEF CopiesTrue
  <2>11. SyncTrue'
    BY <1>1 DEF SyncTrue, NoSync
  <2>12. VisitsStand'
    BY <1>0, <1>1, <2>1, <2>3, <2>4, <2>6
       DEF VisitsStand, Live, OnItsWayOut, Leaving, RowsInv, StopKnowsItsVisit, WorkFresh
  <2>13. DayKept'
    <3>1. ASSUME NEW c \in Coordinator, office[c].stage = "move"
          PROVE  insp'[office[c].insp].visit = office[c].visit
      BY <1>0, <1>1, <3>1, RequestWaits DEF CalmStep, DayKept
    <3> QED
      BY <1>1, <2>4, <3>1 DEF DayKept
  <2>14. ListOwed'
    BY <1>0, <1>1, <2>1, <2>4 DEF ListOwed
  <2>15. WantedKept'
    <3>1. wanted' \in {wanted, Unseen}
      BY <1>1, WantedStays
    <3>2. ASSUME wanted # Unseen PROVE OffItsDayStill'
      <4>1. OnItsDay(i, v)
        BY <1>0, <2>1, <3>2 DEF WantedKept
      <4>2. visit[v].day = wanted /\ ~Moving(v) /\ (wanted # NoDay => syncer.day # NoDay)
        BY <1>1, <4>1 DEF OnItsDay, Writes
      <4>3. visit[v].day = NoDay
        BY <1>0, <1>1, <4>2 DEF DaysGiven
      <4> QED
        BY <1>0, <1>1, <2>1, <2>4, <2>6, <4>2, <4>3 DEF OffItsDayStill, Moving, DayKept, NoSync
    <3> QED
      BY <2>4, <3>1, <3>2 DEF WantedKept
  <2> QED
    BY <2>7, <2>8, <2>9, <2>10, <2>11, <2>12, <2>13, <2>14, <2>15 DEF RestInv
<1> QED
  BY <1>2, <1>3

LEMMA FollowingKeepsRest ==
    ASSUME CalmStep, Follow
    PROVE  RestInv'
<1> USE DEF SyncOnly, counters
<1>0. /\ Typed /\ Typed' /\ MadeIsTheStops /\ NoneGiven /\ VisitOwed /\ DaysGiven /\ CopiesTrue /\ MoveTrue /\ SyncTrue
      /\ VisitsStand /\ DayKept /\ ListOwed /\ WantedKept /\ WorkInHand
  BY CalmFacts DEF CalmStep, WellTyped
<1>1. /\ UNCHANGED <<listing, leaving, import, visit, office, worker, decisions>>
      /\ syncer.stage = "follow" /\ syncer' = NoSync
  BY DEF Follow
<1>2. CASE UNCHANGED <<insp, stop>>
  BY <1>1, <1>2, SyncReadsRest
<1>3. CASE ~UNCHANGED <<insp, stop>>
  <2> PICK i \in Inspection : i = syncer.insp
    BY <1>0, <1>1 DEF SyncTrue
  <2>1. /\ Made(i) /\ stop.insp = i /\ i # None
        /\ insp' = [insp EXCEPT ![i].day = syncer.day] /\ stop' = [stop EXCEPT !.day = syncer.day]
    BY <1>0, <1>3, Sentinels DEF Follow, StopFollows, MadeIsTheStops
  <2>2. /\ \A j \in Inspection : /\ insp'[j].state = insp[j].state /\ insp'[j].visit = insp[j].visit
                                 /\ insp'[j].book = insp[j].book /\ insp'[j].move = insp[j].move
                                 /\ insp'[j].day = IF j = i THEN syncer.day ELSE insp[j].day
        /\ stop'.insp = i /\ stop'.visit = stop.visit /\ stop'.day = syncer.day /\ stop'.status = stop.status
    BY <1>0, <2>1 DEF Typed, InspectionRow, StopRow
  <2>3. CopiesTrue' /\ MoveTrue' /\ SyncTrue' /\ VisitsStand'
    BY <1>1, <2>1, <2>2, LinksStay
  <2>4. NoneGiven'
    BY <1>0, <1>1, <2>2 DEF NoneGiven
  <2>5. VisitOwed'
    <3>1. worker.stage # "idle" /\ worker.task = "book" => worker.insp \in Inspection
      BY <1>0 DEF WorkInHand
    <3> QED
      BY <1>0, <1>1, <2>1, <2>2, <3>1 DEF VisitOwed, Made
  <2>6. DaysGiven'
    BY <1>0, <1>1, <2>1, <2>2 DEF DaysGiven, NoSync
  <2>7. DayKept'
    <3>1. ASSUME NEW c \in Coordinator
          PROVE  /\ office[c].stage \notin {"draft", "edit"}
                 /\ office[c].stage = "move" => insp'[office[c].insp].visit = office[c].visit
      BY <1>0, <1>1, <2>1, RequestWaits DEF CalmStep, DayKept
    <3> QED
      BY <1>1, <2>2, <3>1 DEF DayKept
  <2>8. ListOwed'
    BY <1>0, <1>1, <2>1, <2>2 DEF ListOwed, OnItsWayOut
  <2>9. WantedKept'
    <3> DEFINE v == insp[i].visit
    <3>1. wanted' \in {wanted, Unseen}
      BY <1>1, WantedStays
    <3>2. ASSUME wanted' # Unseen PROVE OnItsDay(i, v)'
      <4>1. OnItsDay(i, v)
        BY <1>0, <2>1, <3>1, <3>2 DEF WantedKept
      <4>2. insp[i].move # "due" /\ ~Moving(v)
        BY <1>1, <4>1 DEF OnItsDay, Writes
      <4>3. syncer'.stage = "idle"
        BY <1>1 DEF NoSync
      <4>4. wanted' = wanted
        BY <3>1, <3>2
      <4> QED
        BY <1>1, <2>2, <4>1, <4>2, <4>3, <4>4 DEF OnItsDay, Moving, Fetched, Writes
    <3> QED
      BY <2>1, <2>2, <3>2 DEF WantedKept
  <2> QED
    BY <2>3, <2>4, <2>5, <2>6, <2>7, <2>8, <2>9 DEF RestInv
<1> QED
  BY <1>2, <1>3

LEMMA ImportingKeepsRest ==
    ASSUME CalmStep, ImportVisit
    PROVE  RestInv'
<1> USE DEF SyncOnly, counters
<1>0. /\ Typed /\ Typed' /\ MadeIsTheStops /\ MadeIsTheStops' /\ NoneGiven /\ VisitOwed /\ DaysGiven /\ CopiesTrue
      /\ MoveTrue /\ SyncTrue /\ VisitsStand /\ DayKept /\ ListOwed /\ WantedKept /\ RowsKept /\ WorkInHand /\ RowsInv
      /\ ImportFree /\ WorkFresh
  BY CalmFacts DEF CalmStep, BookingInv, PeopleInv, WellTyped
<1>1. UNCHANGED <<listing, leaving, import, visit, office, worker, decisions>> /\ syncer.stage = "import"
  BY DEF ImportVisit
<1>2. CASE syncer' = NoSync /\ UNCHANGED <<insp, stop>>
  BY <1>1, <1>2, SyncReadsRest
<1>3. CASE ~(syncer' = NoSync /\ UNCHANGED <<insp, stop>>)
  <2> PICK v \in Visit : v = syncer.visit
    BY <1>0, <1>1 DEF RowsKept
  <2>1. PICK i \in NextInspection :
          /\ insp' = [insp EXCEPT ![i] = [Unmade EXCEPT !.state = "scheduled", !.day = syncer.day, !.visit = v]]
          /\ stop' = IF stop.visit = v /\ stop.insp = None
                     THEN [stop EXCEPT !.insp = i, !.status = "PUBLISHED", !.day = syncer.day] ELSE stop
          /\ syncer' = [syncer EXCEPT !.stage = "note", !.insp = i]
    BY <1>3 DEF ImportVisit
  <2>2. i \in Inspection /\ insp[i].state = "unmade" /\ i # None /\ v # None
    BY Sentinels DEF NextInspection
  <2>3. /\ insp'[i].state = "scheduled" /\ insp'[i].day = syncer.day /\ insp'[i].visit = v
        /\ insp'[i].book = "none" /\ insp'[i].move = "none"
        /\ \A j \in Inspection \ {i} : insp'[j] = insp[j]
    BY <1>0, <2>1, <2>2 DEF Typed, Unmade
  <2>4. stop'.insp = i
    BY <1>0, <2>2, <2>3 DEF MadeIsTheStops, Made
  <2>5. stop.insp # i
    BY <1>0, <2>2 DEF MadeIsTheStops, Made
  <2>6. stop.visit = v /\ stop.insp = None
    BY <2>1, <2>4, <2>5
  <2>7. /\ stop'.visit = v /\ stop'.day = syncer.day /\ stop'.status = "PUBLISHED"
        /\ syncer'.stage = "note" /\ syncer'.visit = v /\ syncer'.insp = i
    BY <1>0, <2>1, <2>6 DEF Typed, StopRow, SyncType
  <2>8. import[v].status = "PENDING"
    BY <1>0, <1>1 DEF ImportFree
  <2>9. worker.stage # "write" /\ Current = v /\ Current' = v
    <3>1. Current = v
      BY <1>0, <1>1, <2>8 DEF RowsInv, OthersDismissed, Dismissed, RowsKept
    <3>2. worker.stage # "write"
      <4>1. CASE worker.stage = "write"
        <5>1. worker.new = v /\ worker'.new = v
          BY <1>1, <3>1, <4>1 DEF Current
        <5>2. OfVisit(worker.new)' = OfVisit(worker.new)
          BY <1>0, <1>1, <4>1, WorkerUndisturbed DEF CalmStep, WorkInHand, Typed, WorkType, Leaving
        <5>3. i \notin OfVisit(v) /\ i \in OfVisit(v)'
          BY <2>2, <2>3 DEF OfVisit, Scheduled, Made
        <5> QED
          BY <5>1, <5>2, <5>3 DEF OfVisit, Scheduled, Made
      <4> QED
        BY <4>1
    <3> QED
      BY <1>1, <2>2, <2>3, <2>4, <3>1, <3>2 DEF Current
  <2>10. \A j \in Inspection : Made(j)' <=> j = i
    BY <1>0, <2>4 DEF MadeIsTheStops
  <2>11. syncer.day # NoDay
    BY <1>0, <1>1 DEF DaysGiven
  <2>12. NoneGiven'
    BY <1>0, <1>1, <2>3 DEF NoneGiven
  <2>13. VisitOwed' /\ MoveTrue'
    <3>1. worker.stage # "idle" /\ worker.task \in {"book", "move"} =>
            worker.insp \in Inspection \ {i} /\ insp[worker.insp].state # "unmade"
      BY <1>0, <2>2 DEF WorkInHand, VisitOwed, MoveTrue
    <3> QED
      BY <1>1, <2>2, <2>3, <2>4, <2>10, <3>1 DEF VisitOwed, MoveTrue
  <2>14. DaysGiven'
    BY <1>0, <1>1, <2>3, <2>4, <2>7, <2>11 DEF DaysGiven
  <2>15. CopiesTrue'
    <3>1. ASSUME NEW w \in Visit, import[w].status = "IMPORTED", import[w].insp # None
          PROVE  /\ import[w].insp \in Inspection \ {i} /\ insp[import[w].insp].state # "unmade" /\ w # v
      BY <1>0, <2>2, <2>8, <3>1 DEF CopiesTrue, Typed, ImportRow
    <3> QED
      BY <1>0, <1>1, <2>3, <2>4, <2>8, <2>9, <2>10, <3>1 DEF CopiesTrue
  <2>16. SyncTrue'
    BY <2>2, <2>3, <2>7, <2>10 DEF SyncTrue
  <2>17. VisitsStand'
    BY <1>0, <1>1, <2>6, <2>7, <2>9 DEF VisitsStand, Live, OnItsWayOut, Leaving
  <2>18. DayKept'
    <3>1. stop' # stop
      BY <2>4, <2>5
    <3>2. ASSUME NEW c \in Coordinator
          PROVE  /\ office[c].stage \notin {"draft", "edit"}
                 /\ office[c].stage = "move" => insp'[office[c].insp].visit = office[c].visit
      BY <1>0, <1>1, <3>1, RequestWaits DEF CalmStep, DayKept
    <3> QED
      BY <1>1, <2>3, <2>4, <2>7, <3>2 DEF DayKept
  <2>19. ListOwed'
    BY <1>0, <1>1, <2>2, <2>4, <2>7 DEF ListOwed
  <2>20. WantedKept'
    <3>1. wanted' \in {wanted, Unseen}
      BY <1>1, WantedStays
    <3>2. wanted = Unseen
      BY <1>0, <1>1, <2>2, <2>6, <2>9, <2>11 DEF WantedKept, OffItsDayStill
    <3> QED
      BY <3>1, <3>2 DEF WantedKept
  <2> QED
    BY <2>12, <2>13, <2>14, <2>15, <2>16, <2>17, <2>18, <2>19, <2>20 DEF RestInv
<1> QED
  BY <1>2, <1>3

LEMMA NotingKeepsRest ==
    ASSUME CalmStep, ImportNoted
    PROVE  RestInv'
<1> USE DEF SyncOnly, counters
<1>0. /\ Typed /\ Typed' /\ MadeIsTheStops /\ NoneGiven /\ VisitOwed /\ DaysGiven /\ CopiesTrue /\ MoveTrue /\ SyncTrue
      /\ VisitsStand /\ DayKept /\ ListOwed /\ WantedKept /\ RowsKept
  BY CalmFacts DEF CalmStep, WellTyped
<1> PICK v \in Visit, i \in Inspection : v = syncer.visit /\ i = syncer.insp
  BY <1>0 DEF ImportNoted, RowsKept
<1>1. /\ UNCHANGED <<stop, insp, listing, leaving, visit, office, worker, decisions>>
      /\ syncer.stage = "note" /\ syncer' = NoSync /\ visit[v].state # "unmade"
      /\ import' = [import EXCEPT ![v].status = "IMPORTED", ![v].insp = i]
  BY <1>0 DEF ImportNoted, RowsKept
<1>2. /\ import'[v].status = "IMPORTED" /\ import'[v].insp = i /\ import'[v].seen = import[v].seen
      /\ \A w \in Visit \ {v} : import'[w] = import[w]
  BY <1>0, <1>1 DEF Typed, ImportRow
<1>3. Current' = Current
  BY <1>1 DEF Current
<1>4. /\ Made(i) => insp[i].visit = v /\ stop.insp = i
      /\ ~Made(i) => insp[i].state = "erased" /\ import[v].status = "IGNORED"
  BY <1>0, <1>1 DEF SyncTrue, MadeIsTheStops
<1>5. stop.insp # None /\ insp[stop.insp].visit = v => stop.insp = i
  <2>1. ASSUME stop.insp # None, insp[stop.insp].visit = v, ~Made(i) PROVE FALSE
    <3>1. worker.stage # "write" \/ insp[stop.insp].visit = None
      BY <2>1, BookedAlone DEF CalmStep
    <3>2. Current = v
      BY <2>1, <3>1, Sentinels DEF Current
    <3> QED
      BY <1>0, <1>4, <2>1, <3>2, Sentinels DEF CopiesTrue
  <2> QED
    BY <1>4, <2>1
<1>6. NoneGiven' /\ VisitOwed' /\ MoveTrue' /\ DayKept' /\ ListOwed' /\ SyncTrue' /\ DaysGiven'
  BY <1>0, <1>1
     DEF NoneGiven, VisitOwed, MoveTrue, DayKept, ListOwed, TakenUp, OnItsWayOut, SyncTrue, DaysGiven, Made, NoSync
<1>7. CopiesTrue'
  <2>1. insp[i].state # "unmade"
    BY <1>4 DEF Made
  <2>2. Current # None => Current \in Visit
    BY <1>0 DEF Current, Typed, StopRow, InspectionRow, CalmStep, WellTyped, WorkInHand
  <2>3. ASSUME NEW w \in Visit, import'[w].status = "IMPORTED", import'[w].insp # None
        PROVE  /\ insp'[import'[w].insp].state # "unmade"
               /\ Made(import[w].insp)' => insp'[import'[w].insp].visit = w
               /\ stop'.insp # None /\ insp'[stop'.insp].visit = w => import'[w].insp = stop'.insp
    <3>1. CASE w = v
      BY <1>1, <1>2, <1>4, <1>5, <2>1, <3>1 DEF Made
    <3>2. CASE w # v
      BY <1>0, <1>1, <1>2, <2>3, <3>2 DEF CopiesTrue, Made
    <3> QED
      BY <3>1, <3>2
  <2>4. \A w \in Visit : visit'[w].state = "unmade" => import'[w].status = "none"
    BY <1>0, <1>1, <1>2 DEF CopiesTrue
  <2>5. Current' # None => import'[Current'].status # "IGNORED"
    BY <1>0, <1>2, <1>3, <2>2 DEF CopiesTrue
  <2> QED
    BY <2>3, <2>4, <2>5 DEF CopiesTrue
<1>8. VisitsStand'
  BY <1>0, <1>1, <1>3 DEF VisitsStand, Live, OnItsWayOut, Leaving
<1>9. WantedKept'
  <2>1. wanted' \in {wanted, Unseen}
    BY <1>1, WantedStays
  <2>2. CASE wanted' = Unseen
    BY <2>2 DEF WantedKept
  <2>3. syncer'.stage = "idle" /\ \A w \in Visit : import'[w].seen = import[w].seen
    BY <1>1, <1>2 DEF NoSync
  <2>4. CASE wanted' = wanted /\ wanted # Unseen /\ stop.insp # None
    <3> DEFINE k == stop.insp
               w == insp[k].visit
    <3>1. OnItsDay(k, w) /\ w \in Visit
      BY <1>0, <2>4 DEF WantedKept, OnItsDay, Typed, StopRow, InspectionRow
    <3>2. OnItsDay(k, w)'
      BY <1>1, <2>3, <2>4, <3>1 DEF OnItsDay, Moving, Fetched, Writes
    <3> QED
      BY <1>1, <2>4, <3>2 DEF WantedKept
  <2>5. CASE wanted' = wanted /\ wanted # Unseen /\ stop.insp = None
    <3>1. OffItsDayStill
      BY <1>0, <2>5 DEF WantedKept
    <3>2. OffItsDayStill'
      BY <1>1, <1>3, <2>3, <3>1 DEF OffItsDayStill, Moving
    <3> QED
      BY <1>1, <2>5, <3>2 DEF WantedKept
  <2> QED
    BY <2>1, <2>2, <2>4, <2>5
<1> QED
  BY <1>6, <1>7, <1>8, <1>9 DEF RestInv

LEMMA SyncKeepsRest ==
    ASSUME CalmStep, SyncGoesOn \/ \E v \in Visit : FetchVisit(v)
    PROVE  RestInv'
<1>1. CASE LeftAlone
  BY <1>1, SyncReadsRest DEF LeftAlone, SyncOnly, console, counters
<1>2. ASSUME NEW v \in Visit, FetchVisit(v) PROVE RestInv'
  <2>1. syncer' = [NoSync EXCEPT !.stage = "fetched", !.visit = v, !.day = visit[v].day]
    BY <1>2 DEF FetchVisit
  <2>2. syncer'.stage = "fetched" /\ syncer'.visit = v /\ syncer'.day = visit[v].day
    BY <2>1 DEF NoSync
  <2> QED
    BY <1>2, <2>2, SyncReadsRest DEF FetchVisit, SyncOnly, console, counters
<1> QED
  BY <1>1, <1>2, UnmetKeepsRest, MetKeepsRest, WithdrawingKeepsRest, FollowingKeepsRest, ImportingKeepsRest,
     NotingKeepsRest DEF SyncGoesOn

-----------------------------------------------------------------------------
(* Every step                                                              *)

(* Jobber, and the process.                                                *)
LEMMA OutsideKeepsRest ==
    ASSUME CalmStep, ApiRestarts \/ \E v \in Visit, d \in Day \cup {NoDay} : DatedInJobber(v, d)
    PROVE  RestInv'
<1> USE DEF console
<1>0. /\ Typed /\ Typed' /\ MadeIsTheStops /\ NoneGiven /\ VisitOwed /\ DaysGiven /\ CopiesTrue /\ MoveTrue /\ SyncTrue
      /\ VisitsStand /\ DayKept /\ ListOwed /\ WantedKept
  BY CalmFacts
<1>1. CASE ApiRestarts
  <2>1. /\ UNCHANGED <<stop, insp, listing, leaving, import, visit, decisions>>
        /\ \A c \in Coordinator : office'[c] = NoRequest
        /\ worker' = NoWork /\ syncer' = NoSync
    BY <1>1 DEF ApiRestarts
  <2>2. /\ worker.stage # "write" /\ \A c \in Coordinator : ~TakenUp(c)
    BY <1>1 DEF ApiRestarts, CalmStep, TakenUp
  <2>n. /\ NoRequest.stage = "idle" /\ NoWork.stage = "idle" /\ NoSync.stage = "idle"
        /\ NoWork.task = "list" /\ NoWork.day = NoDay
    BY DEF NoRequest, NoWork, NoSync
  <2>3. Current' = Current
    BY <2>1, <2>2, <2>n DEF Current
  <2>4. NoneGiven' /\ VisitOwed' /\ MoveTrue' /\ SyncTrue' /\ DaysGiven' /\ DayKept'
    BY <1>0, <2>1, <2>n DEF NoneGiven, VisitOwed, MoveTrue, SyncTrue, DaysGiven, DayKept
  <2>5. CopiesTrue' /\ VisitsStand'
    BY <1>0, <2>1, <2>3, <2>n DEF CopiesTrue, VisitsStand, Made, Live, OnItsWayOut, Leaving
  <2>6. ListOwed'
    BY <1>0, <2>1, <2>2, <2>n DEF ListOwed, OnItsWayOut
  <2>7. WantedKept'
    <3>1. wanted' \in {wanted, Unseen}
      BY <2>1, WantedStays
    <3>2. CASE wanted' = Unseen
      BY <3>2 DEF WantedKept
    <3>3. CASE wanted' = wanted /\ wanted # Unseen /\ stop.insp # None
      <4> DEFINE i == stop.insp
                 v == insp[i].visit
      <4>1. OnItsDay(i, v)
        BY <1>0, <3>3 DEF WantedKept
      <4>2. OnItsDay(i, v)'
        BY <2>1, <2>n, <3>3, <4>1 DEF OnItsDay, Moving, Fetched, Writes
      <4> QED
        BY <2>1, <3>3, <4>2 DEF WantedKept
    <3>4. CASE wanted' = wanted /\ wanted # Unseen /\ stop.insp = None
      <4>1. OffItsDayStill
        BY <1>0, <3>4 DEF WantedKept
      <4>2. OffItsDayStill'
        BY <2>1, <2>3, <2>n, <4>1 DEF OffItsDayStill, Moving
      <4> QED
        BY <2>1, <3>4, <4>2 DEF WantedKept
    <3> QED
      BY <3>1, <3>2, <3>3, <3>4
  <2> QED
    BY <2>4, <2>5, <2>6, <2>7 DEF RestInv
<1>2. ASSUME NEW v \in Visit, NEW d \in Day \cup {NoDay}, DatedInJobber(v, d) PROVE RestInv'
  <2>1. /\ UNCHANGED <<stop, insp, listing, leaving, import, office, worker, syncer>>
        /\ decisions' # decisions /\ visit' # visit
        /\ \A w \in Visit : visit'[w].state = visit[w].state
    BY <1>0, <1>2 DEF DatedInJobber, Decides, CalmStep, Typed, JobberVisit
  <2>2. Current' = Current
    BY <2>1 DEF Current
  <2>3. NoneGiven' /\ VisitOwed' /\ MoveTrue' /\ SyncTrue' /\ DaysGiven' /\ DayKept' /\ ListOwed'
    BY <1>0, <2>1
       DEF NoneGiven, VisitOwed, MoveTrue, SyncTrue, DaysGiven, DayKept, ListOwed, TakenUp, OnItsWayOut, Made
  <2>4. CopiesTrue'
    BY <1>0, <2>1, <2>2 DEF CopiesTrue, Made
  <2>5. VisitsStand'
    <3>1. OnItsWayOut => leaving.visit \in Visit
      BY DEF CalmStep, WellTyped, RowsKept, OnItsWayOut
    <3>2. Current \in Visit \cup {None} /\ stop.visit \in Visit \cup {None}
      BY <1>0 DEF Current, Typed, StopRow, InspectionRow, CalmStep, WellTyped, WorkInHand
    <3> QED
      BY <1>0, <2>1, <2>2, <3>1, <3>2 DEF VisitsStand, Live, OnItsWayOut, Leaving
  <2>6. WantedKept'
    <3>1. MovedThere /\ ~MovedHere
      BY <2>1 DEF MovedThere, MovedHere
    <3>2. CASE ~Settled
      BY <3>1, <3>2 DEF CalmStep, WantedNow, WantedKept
    <3>3. CASE Settled
      <4> DEFINE i == stop.insp
                 w == insp[i].visit
      <4>1. /\ Made(i) /\ insp[i].move # "due" /\ w # None /\ i # None
            /\ syncer.visit = w => syncer.day = insp[i].day
            /\ worker.task = "move" => worker.old # w
        BY <3>3 DEF Settled, Live, Made
      <4>2. wanted' = visit'[w].day
        BY <3>1, <3>3 DEF CalmStep, WantedNow
      <4>3. insp[i].day # NoDay
        BY <1>0, <4>1 DEF DaysGiven
      <4>4. Writes(i, {"withdraw"}) => syncer.visit = w
        BY <1>0, <4>1 DEF SyncTrue, Writes
      <4>5. OnItsDay(i, w)'
        BY <2>1, <4>1, <4>2, <4>3, <4>4 DEF OnItsDay, Moving, Fetched, Writes
      <4> QED
        BY <2>1, <4>1, <4>5 DEF WantedKept
    <3> QED
      BY <3>2, <3>3
  <2> QED
    BY <2>3, <2>4, <2>5, <2>6 DEF RestInv
<1> QED
  BY <1>1, <1>2

LEMMA StepKeepsRest == ASSUME CalmStep, Step PROVE RestInv'
<1>1. ASSUME NEW c \in Coordinator, OfficeDecides(c) \/ OfficeGoesOn(c) PROVE RestInv'
  BY <1>1, PublishingKeepsRest, ByHandKeepsRest DEF OfficeDecides, OfficeGoesOn
<1>2. CASE WorkerGoesOn \/ CreateUnheard \/ CallFails
  BY <1>2, WorkerKeepsRest
<1>3. CASE SyncGoesOn \/ \E v \in Visit : FetchVisit(v)
  BY <1>3, SyncKeepsRest
<1>4. CASE ApiRestarts \/ \E v \in Visit, d \in Day \cup {NoDay} : DatedInJobber(v, d)
  BY <1>4, OutsideKeepsRest
<1> QED
  BY <1>1, <1>2, <1>3, <1>4 DEF Step

LEMMA DecisionsCount == ASSUME Step, decisions \in Nat PROVE decisions' \in Nat
<1>1. ASSUME NEW c \in Coordinator, OfficeDecides(c) \/ OfficeGoesOn(c)
      PROVE  decisions' \in {decisions, decisions + 1}
  BY <1>1 DEF OfficeDecides, OfficeGoesOn, Claim, Unschedule, ClearDay, EditStop, Reschedule,
     ReadBatch, FinishPlan, QueueUnscheduled, StopWaits, StopTriedAgain, AdoptImported, StopAsked,
     MakeInspection, AdoptExisting, StopFails, EditWrites, PlaceOne, Unlist, RescheduleWrites,
     RescheduleRefused, UnscheduleBooked, UnscheduleRefused, DayCleared, Decides, counters
<1>2. CASE WorkerGoesOn \/ CreateUnheard \/ CallFails
  BY <1>2 DEF WorkerGoesOn, CreateUnheard, CallFails, Pick, ListReads, LeaveReads, BookReads, MoveReads,
     CreateVisit, PushDay, DeleteVisit, VisitOnStop, ClaimVisit, MarkSent, MarkFailed, WorkerOnly
<1>3. CASE SyncGoesOn \/ \E v \in Visit : FetchVisit(v)
  BY <1>3 DEF SyncGoesOn, FetchVisit, LeftAlone, VisitUnmet, VisitMet, Withdraw, Follow, ImportVisit, ImportNoted,
     SyncOnly, counters
<1>4. CASE ApiRestarts \/ \E v \in Visit, d \in Day \cup {NoDay} : DatedInJobber(v, d)
  BY <1>4 DEF ApiRestarts, DatedInJobber, Decides
<1> QED
  BY <1>1, <1>2, <1>3, <1>4 DEF Step

LEMMA RestInvariant == PublishingSpec => [](TypeInv /\ (Excused \/ BookingInv) /\ (Undisturbed => RestInv))
<1> DEFINE Counted == decisions \in Nat
<1>1. PublishingInit => Counted /\ RestInv
  <2> SUFFICES ASSUME PublishingInit PROVE Counted /\ RestInv
    OBVIOUS
  <2>c. Counted
    BY DEF PublishingInit
  <2>n. /\ NoRequest.stage = "idle" /\ NoWork.stage = "idle" /\ NoSync.stage = "idle"
        /\ NoWork.task = "list" /\ NoWork.day = NoDay /\ Unmade.book = "none" /\ Unmade.move = "none"
        /\ NoRow.status = "none"
    BY DEF NoRequest, NoWork, NoSync, Unmade, NoRow
  <2>1. stop.insp = None /\ stop.visit = None /\ stop.status = "PLANNED"
    BY DEF PublishingInit
  <2>2. NoneGiven /\ VisitOwed /\ MoveTrue /\ SyncTrue /\ DaysGiven /\ DayKept
    BY <2>n, <2>1 DEF PublishingInit, NoneGiven, VisitOwed, MoveTrue, SyncTrue, DaysGiven, DayKept
  <2>3. Current = None
    BY <2>n, <2>1 DEF PublishingInit, Current
  <2>4. CopiesTrue /\ VisitsStand /\ ListOwed /\ WantedKept
    BY <2>n, <2>1, <2>3 DEF PublishingInit, CopiesTrue, VisitsStand, OnItsWayOut, Leaving, ListOwed, WantedKept
  <2> QED
    BY <2>c, <2>2, <2>4 DEF RestInv
<1>2. /\ TypeInv /\ TypeInv' /\ (Excused \/ BookingInv) /\ (Excused \/ BookingInv)'
      /\ Counted /\ (Undisturbed => RestInv) /\ [PublishingNext]_vars
      => (Counted /\ (Undisturbed => RestInv))'
  <2> SUFFICES ASSUME TypeInv, TypeInv', Excused \/ BookingInv, (Excused \/ BookingInv)',
                      Counted, Undisturbed => RestInv, [PublishingNext]_vars
               PROVE  Counted' /\ (Undisturbed' => RestInv')
    OBVIOUS
  <2>1. CASE Step /\ crossed' = (crossed \/ ChangedUnder) /\ wanted' = WantedNow
    <3>1. Counted'
      BY <2>1, DecisionsCount
    <3>2. ASSUME Undisturbed' PROVE RestInv'
      <4>1. ~ChangedUnder /\ ~crossed /\ history = {} /\ history' = {}
        BY <2>1, <3>2, HistoryGrows DEF Undisturbed
      <4>2. ~Excused /\ ~Excused' /\ RestInv
        BY <3>2, <4>1 DEF Excused, Undisturbed
      <4>3. CalmStep
        BY <2>1, <4>1, <4>2 DEF CalmStep, TypeInv
      <4> QED
        BY <2>1, <4>3, StepKeepsRest
    <3> QED
      BY <3>1, <3>2
  <2>2. CASE UNCHANGED vars
    <3> USE <2>2 DEF vars, console, counters
    <3>1. Undisturbed' = Undisturbed /\ Counted' = Counted
      BY DEF Undisturbed
    <3>2. /\ NoneGiven' = NoneGiven /\ VisitOwed' = VisitOwed /\ DaysGiven' = DaysGiven /\ CopiesTrue' = CopiesTrue
          /\ MoveTrue' = MoveTrue /\ SyncTrue' = SyncTrue
      BY DEF NoneGiven, VisitOwed, DaysGiven, CopiesTrue, MoveTrue, SyncTrue, Current, Made
    <3>3. VisitsStand' = VisitsStand /\ DayKept' = DayKept /\ ListOwed' = ListOwed /\ WantedKept' = WantedKept
      BY DEF VisitsStand, DayKept, ListOwed, WantedKept, Current, Live, OnItsWayOut, Leaving, TakenUp, OnItsDay,
             OffItsDayStill, Moving, Fetched, Writes
    <3> QED
      BY <3>1, <3>2, <3>3 DEF RestInv
  <2> QED
    BY <2>1, <2>2, StepOrStutter
<1> QED
  BY <1>1, <1>2, BookingInvariant, PTL DEF PublishingSpec

(* When nobody has anything left to do, console and calendar agree: no     *)
(* order of publishing, rescheduling, unscheduling, retries and syncs ends *)
(* with a stop, its inspection and its visit on different days, with work  *)
(* that Jobber was never told of, or with a day that a sync has undone, as *)
(* long as no rows changed under somebody who had read them and nothing    *)
(* happened that the code does not recover from (moveStopWithVisit,        *)
(* heldConsoleEdits, mark's check of the attempt).                         *)
THEOREM AgreedAtRestHolds == PublishingSpec => []AgreedAtRest
<1>1. ASSUME TypeInv, BookingInv, RestInv, AtRest PROVE Agreed
  <2>0. /\ stop \in StopRow /\ insp \in [Inspection -> InspectionRow] /\ import \in [Visit -> ImportRow]
        /\ stop.insp # None => Made(stop.insp)
        /\ \A i \in Scheduled : i = stop.insp
        /\ NoneGiven /\ VisitOwed /\ CopiesTrue /\ VisitsStand /\ DayKept /\ ListOwed /\ WantedKept
    BY <1>1 DEF TypeInv, WellTyped, RowsTyped, KeysHold, BookingInv, RowsInv, OneInspection, RestInv
  <2>1. /\ worker.stage = "idle" /\ worker.task = "list" /\ \A c \in Coordinator : office[c].stage = "idle"
    BY <1>1 DEF AtRest, NoWork, NoRequest
  <2>2. listing # "due" /\ leaving.status # "due" /\ \A i \in Scheduled : insp[i].book # "due" /\ insp[i].move # "due"
    <3>1. DueWork = {}
      BY <1>1 DEF AtRest
    <3>2. ASSUME listing = "due" PROVE FALSE
      <4>1. [NoWork EXCEPT !.stage = "read", !.task = "list"] \in DueWork
        BY <3>2, Zenon DEF DueWork
      <4> QED
        BY <3>1, <4>1
    <3>3. ASSUME leaving.status = "due" PROVE FALSE
      <4>1. [NoWork EXCEPT !.stage = "read", !.task = "leave", !.old = leaving.visit] \in DueWork
        BY <3>3, Zenon DEF DueWork
      <4> QED
        BY <3>1, <4>1
    <3>4. ASSUME NEW i \in Scheduled, insp[i].book = "due" PROVE FALSE
      <4>1. [NoWork EXCEPT !.stage = "read", !.task = "book", !.insp = i] \in DueWork
        BY <3>4, Zenon DEF DueWork
      <4> QED
        BY <3>1, <4>1
    <3>5. ASSUME NEW i \in Scheduled, insp[i].move = "due" PROVE FALSE
      <4>1. [NoWork EXCEPT !.stage = "read", !.task = "move", !.insp = i, !.old = insp[i].visit] \in DueWork
        BY <3>5, Zenon DEF DueWork
      <4> QED
        BY <3>1, <4>1
    <3> QED
      BY <3>2, <3>3, <3>4, <3>5
  <2>3. ASSUME Made(stop.insp)
        PROVE  LET v == insp[stop.insp].visit IN
               Live(v) /\ stop.day = insp[stop.insp].day /\ visit[v].day = insp[stop.insp].day
    <3> DEFINE i == stop.insp
               v == insp[i].visit
    <3>1. i \in Inspection /\ i # None /\ Scheduled = {i}
      BY <2>0, <2>3 DEF StopRow, Made, Scheduled
    <3>2. v # None /\ v \in Visit /\ Current = v
      BY <2>0, <2>1, <2>2, <3>1 DEF VisitOwed, Current, InspectionRow
    <3>3. Live(v) /\ import[v].status # "IGNORED"
      BY <2>0, <3>2 DEF VisitsStand, CopiesTrue
    <3>4. Linked(v) = {i}
      BY <2>0, <3>1, <3>2 DEF Linked, OfVisit, CopiesTrue
    <3>5. insp[i].day = visit[v].day
      <4>1. UpToDate(v)
        BY <1>1, <3>2, <3>3 DEF AtRest
      <4>2. OnDay(visit[v].day) \ {i} = {}
        BY <3>1 DEF OnDay
      <4> QED
        BY <2>3, <3>3, <3>4, <4>1, <4>2 DEF UpToDate
    <3> QED
      BY <2>0, <3>1, <3>3, <3>5 DEF DayKept
  <2>4. ASSUME stop.insp = None, stop.status = "UNSCHEDULED" PROVE Live(stop.visit)
    <3>1. ~OnItsWayOut /\ \A c \in Coordinator : ~TakenUp(c)
      BY <2>0, <2>1, <2>2 DEF OnItsWayOut, NoneGiven, TakenUp
    <3> QED
      BY <2>0, <2>2, <2>4, <3>1 DEF ListOwed, VisitsStand
  <2>5. ASSUME Made(stop.insp), wanted # Unseen PROVE insp[stop.insp].day = wanted
    <3>1. stop.insp # None /\ insp[stop.insp].move # "due"
      BY <2>0, <2>2, <2>5 DEF Made, Scheduled, StopRow
    <3>2. visit[insp[stop.insp].visit].day = wanted
      BY <2>0, <2>5, <3>1 DEF WantedKept, OnItsDay
    <3> QED
      BY <2>3, <2>5, <3>2
  <2> QED
    BY <2>3, <2>4, <2>5 DEF Agreed
<1>2. TypeInv /\ (Excused \/ BookingInv) /\ (Undisturbed => RestInv) => AgreedAtRest
  <2>1. ~Excused /\ "given" \notin history => Undisturbed
    BY DEF Excused, Undisturbed
  <2> QED
    BY <1>1, <2>1 DEF AgreedAtRest
<1> QED
  BY <1>2, RestInvariant, PTL
=============================================================================
