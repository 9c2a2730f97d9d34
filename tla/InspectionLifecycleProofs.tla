---- MODULE InspectionLifecycleProofs ----
(***************************************************************************)
(* The safety of InspectionLifecycle, for any number of areas and of       *)
(* requests under way.                                                     *)
(*                                                                         *)
(* The invariant adds to the properties what each request under way knows: *)
(* the status it judged is one its handler accepts (Judgements), a counted *)
(* submission has every area done until somebody puts one back             *)
(* (CountedDone), and the row the outbox worker holds is still due unless  *)
(* a reopening withdrew it (HeldRowDue).                                   *)
(***************************************************************************)
EXTENDS InspectionLifecycle, TLAPS

Statement == [op : Op, area : Area, saw : Statuses]

\* The statuses a handler goes on from.
Accepts(op) ==
  IF op \in {"record", "change", "submit", "counted"} THEN {"IN_PROGRESS"}
  ELSE IF op = "noAccess" THEN Open
  ELSE IF op \in {"hold", "finalize"} THEN Reviewable
  ELSE IF op = "byHand" THEN Statuses \ Frozen
  ELSE IF op = "cancel" THEN Cancellable
  ELSE Statuses

Judgements == \A c \in Caller : at[c].saw \in Accepts(at[c].op)

CountedDone ==
  (\E h \in Handler : at[h].op = "counted") /\ ~crossed => \A a \in Area : Done(a)

HeldRowDue == worker.stage # "idle" /\ ~worker.gone => task \in Due

----------------------------------------------------------------------------
(* The kinds of step                                                       *)

LEMMA IdleTyped == Idle \in Statement /\ Idle.op = "idle" /\ Idle.saw \in Accepts("idle")
<1>1. AnyArea \in Area
  BY LifecycleAssumption DEF AnyArea
<1> QED
  BY <1>1 DEF Idle, Statement, Op, Accepts, Statuses, Open

\* What a step of one caller does to at: nobody else moves.
Moves(c) == /\ at' = [at EXCEPT ![c] = at'[c]]
            /\ at'[c] \in Statement

LEMMA JudgesMoves ==
    ASSUME at \in [Caller -> Statement], NEW c \in Caller, NEW op \in Op, NEW a \in Area,
           NEW from \in SUBSET Statuses, Judges(c, op, a, from)
    PROVE  /\ Moves(c) /\ at'[c].op = op /\ at'[c].saw \in from /\ at[c].op = "idle"
<1>1. at' = [at EXCEPT ![c] = [op |-> op, area |-> a, saw |-> status]] /\ status \in from
  BY DEF Judges
<1>2. at'[c] = [op |-> op, area |-> a, saw |-> status]
  BY <1>1
<1>3. at[c].op = "idle"
  BY IdleTyped DEF Judges
<1> QED
  BY <1>1, <1>2, <1>3 DEF Moves, Statement

LEMMA GoesMoves ==
    ASSUME at \in [Caller -> Statement], NEW c \in Caller, NEW op \in Op, Goes(c, op)
    PROVE  Moves(c) /\ at'[c].op = op /\ at'[c].saw = at[c].saw
<1>1. at' = [at EXCEPT ![c].op = op]
  BY DEF Goes
<1>2. at'[c] = [at[c] EXCEPT !.op = op]
  BY <1>1
<1>3. at[c] \in Statement
  OBVIOUS
<1>4. at'[c] \in Statement /\ at'[c].op = op /\ at'[c].saw = at[c].saw
  BY <1>2, <1>3 DEF Statement
<1>5. at' = [at EXCEPT ![c] = at'[c]]
  BY <1>1, <1>2
<1> QED
  BY <1>4, <1>5 DEF Moves

LEMMA EndsMoves ==
    ASSUME at \in [Caller -> Statement], NEW c \in Caller, Ends(c)
    PROVE  Moves(c) /\ at'[c] = Idle
  BY IdleTyped DEF Ends, Moves

LEMMA MovesTyped ==
    ASSUME at \in [Caller -> Statement], NEW c \in Caller, Moves(c)
    PROVE  /\ at' \in [Caller -> Statement]
           /\ \A d \in Caller : d # c => at'[d] = at[d]
  BY DEF Moves

----------------------------------------------------------------------------
(* What the requests under way hold                                        *)

AnalysesOnlyAdvance == \A a \in Area : at[a].op \in {"idle", "advance", "advanced"}

AtOK == at \in [Caller -> Statement] /\ Judgements /\ AnalysesOnlyAdvance

LEMMA MovesKeep ==
    ASSUME AtOK, NEW c \in Caller, Moves(c), at'[c].saw \in Accepts(at'[c].op),
           c \in Area => at'[c].op \in {"idle", "advance", "advanced"}
    PROVE  AtOK'
<1>1. at' \in [Caller -> Statement] /\ \A d \in Caller : d # c => at'[d] = at[d]
  BY MovesTyped DEF AtOK
<1>2. Judgements'
  BY <1>1 DEF AtOK, Judgements
<1>3. AnalysesOnlyAdvance'
  BY <1>1 DEF AtOK, AnalysesOnlyAdvance, Caller
<1> QED
  BY <1>1, <1>2, <1>3 DEF AtOK

LEMMA JudgesKeeps ==
    ASSUME AtOK, NEW h \in Handler, NEW op \in Op, NEW a \in Area, Judges(h, op, a, Accepts(op))
    PROVE  AtOK'
<1>1. Accepts(op) \subseteq Statuses
  BY DEF Accepts, Statuses, Open, Reviewable, Held, Cancellable
<1>2. h \in Caller /\ h \notin Area
  BY LifecycleAssumption DEF Caller
<1>3. Moves(h) /\ at'[h].op = op /\ at'[h].saw \in Accepts(op)
  BY <1>1, <1>2, JudgesMoves DEF AtOK
<1> QED
  BY <1>2, <1>3, MovesKeep

LEMMA EndsKeeps == ASSUME AtOK, NEW c \in Caller, Ends(c) PROVE AtOK'
<1>1. Moves(c) /\ at'[c] = Idle
  BY EndsMoves DEF AtOK
<1> QED
  BY <1>1, IdleTyped, MovesKeep

LEMMA GoesKeeps ==
    ASSUME AtOK, NEW c \in Caller, NEW op \in Op, Goes(c, op), at[c].saw \in Accepts(op),
           c \in Area => op \in {"idle", "advance", "advanced"}
    PROVE  AtOK'
<1>1. Moves(c) /\ at'[c].op = op /\ at'[c].saw = at[c].saw
  BY GoesMoves DEF AtOK
<1> QED
  BY <1>1, MovesKeep

LEMMA AtStep == AtOK /\ [LifecycleNext]_lifecycleVars => AtOK'
<1> SUFFICES ASSUME AtOK, [LifecycleNext]_lifecycleVars PROVE AtOK'
  OBVIOUS
<1> USE DEF Op
<1>0. ASSUME UNCHANGED at PROVE AtOK'
  BY <1>0 DEF AtOK, Judgements, AnalysesOnlyAdvance
<1>a. AnyArea \in Area
  BY LifecycleAssumption DEF AnyArea
<1>b. Field \subseteq Handler /\ Office \subseteq Handler /\ Handler \subseteq Caller /\ Area \subseteq Caller
      /\ \A h \in Handler : h \notin Area
  BY LifecycleAssumption DEF Handler, Caller
<1>c. \A c \in Caller : at[c].saw \in Statuses /\ Accepts("advance") = Statuses /\ Accepts("advanced") = Statuses
  BY DEF AtOK, Statement, Accepts
<1>1. ASSUME NEW h \in Field, SubmitJudged(h) \/ NoAccessJudged(h) PROVE AtOK'
  <2>1. Judges(h, "submit", AnyArea, Accepts("submit")) \/ Judges(h, "noAccess", AnyArea, Accepts("noAccess"))
    BY <1>1 DEF SubmitJudged, NoAccessJudged, Accepts
  <2> QED
    BY <2>1, <1>a, <1>b, JudgesKeeps
<1>2. ASSUME NEW h \in Field, NEW a \in Area, RecordingJudged(h, a) \/ ChangeJudged(h, a) PROVE AtOK'
  <2>1. Judges(h, "record", a, Accepts("record")) \/ Judges(h, "change", a, Accepts("change"))
    BY <1>2 DEF RecordingJudged, ChangeJudged, Accepts
  <2> QED
    BY <2>1, <1>b, JudgesKeeps
<1>3. ASSUME NEW h \in Office, OfficeJudged(h) PROVE AtOK'
  <2>1. PICK op \in {"hold", "finalize", "byHand", "cancel"} : Judges(h, op, AnyArea, Accepts(op))
    BY <1>3 DEF OfficeJudged, Accepts
  <2> QED
    BY <2>1, <1>a, <1>b, JudgesKeeps
<1>4. ASSUME NEW c \in Caller, HandlerStep(c) PROVE AtOK'
  <2>1. CASE Ends(c)
    BY <2>1, EndsKeeps
  <2>2. CASE Goes(c, "advanced") \/ Goes(c, "advance")
    BY <2>2, <1>c, GoesKeeps
  <2>3. CASE c \in Field /\ SubmitCounts(c) /\ Goes(c, "counted")
    <3>1. at[c].saw \in Accepts("counted")
      BY <2>3 DEF SubmitCounts, AtOK, Judgements, Accepts
    <3> QED
      BY <3>1, <2>3, <1>b, GoesKeeps
  <2> QED
    BY <1>4, <2>1, <2>2, <2>3 DEF HandlerStep, FieldStep, OfficeStep, AdvanceReads, AdvanceWrites,
       RecordingBegins, Changes, SubmitCounts, SubmitWrites, NoAccessWrites, Holds, Finalizes,
       ClosesByHand, Cancels
<1>5. ASSUME NEW c \in Caller, HandlerFails(c) PROVE AtOK'
  BY <1>5, EndsKeeps DEF HandlerFails
<1>6. ASSUME NEW a \in Area, Analysed(a) PROVE AtOK'
  <2>1. Goes(a, "advance") \/ UNCHANGED at
    BY <1>6 DEF Analysed
  <2> QED
    BY <2>1, <1>0, <1>b, <1>c, GoesKeeps
<1>7. ASSUME NEW a \in Area,
             Completes(a) \/ Skips(a) \/ BytesArrive(a) \/ Reported(a) \/ AnalysisRetried(a)
      PROVE  AtOK'
  BY <1>7, <1>0 DEF Completes, Skips, BytesArrive, Reported, AnalysisRetried
<1>8. CASE Starts \/ Reopens \/ RequestsEvidence \/ WorkerStep \/ WorkerFails
  BY <1>8, <1>0 DEF Starts, Reopens, RequestsEvidence, WorkerStep, WorkerReads, WorkerSends,
     WorkerMarks, WorkerFails
<1>9. CASE UNCHANGED lifecycleVars
  BY <1>9, <1>0 DEF lifecycleVars
<1> QED
  BY <1>1, <1>2, <1>3, <1>4, <1>5, <1>6, <1>7, <1>8, <1>9 DEF LifecycleNext

----------------------------------------------------------------------------
(* Types                                                                   *)

WorkerType == [stage : {"idle", "read", "sent", "failed"}, gone : BOOLEAN]

DataOK ==
  /\ status \in Statuses /\ area \in [Area -> AreaStatus] /\ media \in [Area -> Media]
  /\ task \in TaskStatus /\ (~FromJobber => task = "none") /\ worker \in WorkerType
  /\ reopens \in 0..MaxReopens /\ faults \in 0..MaxFaults

FlagsOK == {finalized, told, noAccess, asked, lost, crossed} \subseteq BOOLEAN

LEMMA TypeParts == LifecycleTypeOK /\ Judgements <=> AtOK /\ DataOK /\ FlagsOK
  BY DEF LifecycleTypeOK, AtOK, Judgements, AnalysesOnlyAdvance, Statement, DataOK, FlagsOK, WorkerType

LEMMA FaultTyped == faults \in 0..MaxFaults /\ (UNCHANGED faults \/ Fault) => faults' \in 0..MaxFaults
  BY LifecycleAssumption DEF Fault

LEMMA SubmitsTyped ==
    ASSUME DataOK, NEW to \in Statuses, NEW h, ~Refused, Overwrites(h, to), Enqueues
    PROVE  status' \in Statuses /\ task' \in TaskStatus /\ (~FromJobber => task' = "none")
  BY DEF DataOK, Refused, Overwrites, Enqueues, TaskStatus

(* The technician's, the office's and the pipeline's steps leave the data well typed. *)
LEMMA HandlerData ==
    ASSUME AtOK, DataOK, NEW c \in Caller, HandlerStep(c) PROVE DataOK'
<1> USE DEF DataOK
<1>0. /\ {"TECHNICIAN_SUBMITTED", "REVIEW_REQUIRED", "COMPLETED", "CANCELLED"} \subseteq Statuses
      /\ Held \subseteq Statuses
  BY DEF Statuses, Reviewable, Frozen, Held
<1>a. at[c].area \in Area
  BY DEF AtOK, Statement
<1>1. CASE AdvanceReads(c) \/ AdvanceWrites(c)
  BY <1>1, <1>0 DEF AdvanceReads, AdvanceWrites, Keeps, evidence, outbox, inspection
<1>2. CASE RecordingBegins(c)
  BY <1>2, <1>a DEF RecordingBegins, Becomes, Media, outbox, inspection
<1>3. CASE Changes(c)
  BY <1>3, <1>a DEF Changes, AreaStatus, outbox, inspection
<1>4. CASE SubmitCounts(c)
  BY <1>4 DEF SubmitCounts, Keeps, evidence, outbox, inspection
<1>5. CASE SubmitWrites(c) \/ NoAccessWrites(c) \/ Finalizes(c)
  <2>1. UNCHANGED <<area, media, worker, reopens, faults>>
    BY <1>5 DEF SubmitWrites, NoAccessWrites, Finalizes, evidence
  <2>2. \/ UNCHANGED <<status, task>>
        \/ ~Refused /\ Overwrites(c, "TECHNICIAN_SUBMITTED") /\ Enqueues
        \/ ~Refused /\ Overwrites(c, "COMPLETED") /\ Enqueues
    BY <1>5 DEF SubmitWrites, NoAccessWrites, Finalizes, Submits, inspection
  <2> QED
    BY <2>1, <2>2, <1>0, SubmitsTyped
<1>6. CASE Holds(c) \/ ClosesByHand(c) \/ Cancels(c)
  BY <1>6, <1>0 DEF Holds, ClosesByHand, Cancels, Overwrites, Keeps, evidence, outbox
<1> QED
  BY <1>1, <1>2, <1>3, <1>4, <1>5, <1>6 DEF HandlerStep, FieldStep, OfficeStep

LEMMA DataStep == AtOK /\ DataOK /\ HeldRowDue /\ [LifecycleNext]_lifecycleVars => DataOK'
<1> SUFFICES ASSUME AtOK, DataOK, HeldRowDue, [LifecycleNext]_lifecycleVars PROVE DataOK'
  OBVIOUS
<1> USE DEF DataOK, inspection, evidence, outbox
<1>1. ASSUME NEW h \in Field, SubmitJudged(h) \/ NoAccessJudged(h) PROVE DataOK'
  BY <1>1 DEF SubmitJudged, NoAccessJudged, Keeps
<1>2. ASSUME NEW h \in Field, NEW a \in Area, RecordingJudged(h, a) \/ ChangeJudged(h, a) PROVE DataOK'
  BY <1>2 DEF RecordingJudged, ChangeJudged, Keeps
<1>3. ASSUME NEW h \in Office, OfficeJudged(h) PROVE DataOK'
  BY <1>3 DEF OfficeJudged, Keeps
<1>4. ASSUME NEW c \in Caller, HandlerStep(c) PROVE DataOK'
  BY <1>4, HandlerData
<1>5. ASSUME NEW c \in Caller, HandlerFails(c) PROVE DataOK'
  <2>1. UNCHANGED <<inspection, area, outbox, reopens>> /\ Fault
    BY <1>5 DEF HandlerFails
  <2>2. media' \in [Area -> Media]
    BY <1>5 DEF HandlerFails, Becomes, Media
  <2> QED
    BY <2>1, <2>2, FaultTyped
<1>6. ASSUME NEW a \in Area, BytesArrive(a) \/ Reported(a) \/ Analysed(a) \/ AnalysisRetried(a) PROVE DataOK'
  <2>1. UNCHANGED <<inspection, outbox, reopens>> /\ (UNCHANGED faults \/ Fault)
    BY <1>6 DEF BytesArrive, Reported, Analysed, AnalysisRetried
  <2>2. media' \in [Area -> Media]
    BY <1>6 DEF BytesArrive, Reported, Analysed, AnalysisRetried, Becomes, Media
  <2>3. area' \in [Area -> AreaStatus]
    BY <1>6 DEF BytesArrive, Reported, Analysed, AnalysisRetried, AreaStatus
  <2> QED
    BY <2>1, <2>2, <2>3, FaultTyped
<1>7. ASSUME NEW a \in Area, Completes(a) \/ Skips(a) PROVE DataOK'
  BY <1>7 DEF Completes, Skips, AreaStatus
<1>8. CASE Starts
  BY <1>8 DEF Starts, Keeps, Statuses, Open
<1>9. CASE Reopens \/ RequestsEvidence
  <2>1. GoesBack /\ UNCHANGED <<evidence, faults>>
    BY <1>9 DEF Reopens, RequestsEvidence
  <2>2. status' \in Statuses /\ reopens' \in 0..MaxReopens
    BY <2>1, LifecycleAssumption DEF GoesBack, Statuses, Open
  <2>3. task' \in TaskStatus /\ (~FromJobber => task' = "none")
    BY <1>9 DEF Reopens, RequestsEvidence, TaskStatus
  <2>4. worker' \in WorkerType
    BY <1>9 DEF Reopens, RequestsEvidence, WorkerType
  <2> QED
    BY <2>1, <2>2, <2>3, <2>4
<1>10. CASE WorkerStep \/ WorkerFails
  <2>1. UNCHANGED <<inspection, evidence, reopens>> /\ (UNCHANGED faults \/ Fault)
    BY <1>10 DEF WorkerStep, WorkerReads, WorkerSends, WorkerMarks, WorkerFails
  <2>2. worker' \in WorkerType
    <3>1. CASE WorkerReads \/ WorkerMarks \/ WorkerFails
      <4>1. worker' \in {[stage |-> "read", gone |-> FALSE], NoWorker}
        BY <3>1 DEF WorkerReads, WorkerMarks, WorkerFails
      <4>2. [stage |-> "read", gone |-> FALSE] \in WorkerType /\ NoWorker \in WorkerType
        BY DEF WorkerType, NoWorker
      <4> QED
        BY <4>1, <4>2
    <3>2. CASE WorkerSends
      <4>1. PICK stage \in {"sent", "failed"} : worker' = [worker EXCEPT !.stage = stage]
        BY <3>2 DEF WorkerSends
      <4> QED
        BY <4>1 DEF WorkerType
    <3> QED
      BY <1>10, <3>1, <3>2 DEF WorkerStep
  <2>3. task' \in TaskStatus /\ (~FromJobber => task' = "none")
    <3>1. WorkerMarks \/ UNCHANGED task
      BY <1>10 DEF WorkerStep, WorkerReads, WorkerSends, WorkerFails
    <3> QED
      BY <3>1 DEF WorkerMarks, TaskStatus, HeldRowDue, Due
  <2> QED
    BY <2>1, <2>2, <2>3, FaultTyped
<1>11. CASE UNCHANGED lifecycleVars
  BY <1>11 DEF lifecycleVars
<1> QED
  BY <1>1, <1>2, <1>3, <1>4, <1>5, <1>6, <1>7, <1>8, <1>9, <1>10, <1>11 DEF LifecycleNext

----------------------------------------------------------------------------
(* What a step may do to the flags and to the status                       *)

LEMMA OverwritesFlags ==
    ASSUME FlagsOK, NEW h, NEW to, Overwrites(h, to)
    PROVE  crossed' \in BOOLEAN /\ (crossed => crossed')
  BY Zenon DEF FlagsOK, Overwrites

LEMMA FlagsStep ==
    FlagsOK /\ [LifecycleNext]_lifecycleVars => FlagsOK' /\ (crossed => crossed') /\ (asked => asked')
<1> SUFFICES ASSUME FlagsOK, [LifecycleNext]_lifecycleVars
             PROVE  FlagsOK' /\ (crossed => crossed') /\ (asked => asked')
  OBVIOUS
<1> DEFINE Goal == FlagsOK' /\ (crossed => crossed') /\ (asked => asked')
<1> USE DEF FlagsOK
<1>0. ASSUME UNCHANGED <<finalized, told, history>> PROVE Goal
  BY <1>0, Zenon DEF history
<1>1. ASSUME NEW h \in Field, SubmitJudged(h) \/ NoAccessJudged(h) PROVE Goal
  BY <1>1, <1>0 DEF SubmitJudged, NoAccessJudged, Keeps, inspection, outbox
<1>2. ASSUME NEW h \in Field, NEW a \in Area, RecordingJudged(h, a) \/ ChangeJudged(h, a) PROVE Goal
  BY <1>2, <1>0 DEF RecordingJudged, ChangeJudged, Keeps, inspection, outbox
<1>3. ASSUME NEW h \in Office, OfficeJudged(h) PROVE Goal
  BY <1>3, <1>0 DEF OfficeJudged, Keeps, inspection, outbox
<1>4. ASSUME NEW c \in Caller, HandlerStep(c) PROVE Goal
  <2>1. CASE AdvanceReads(c) \/ AdvanceWrites(c) \/ RecordingBegins(c) \/ SubmitCounts(c)
    BY <2>1, <1>0 DEF AdvanceReads, AdvanceWrites, RecordingBegins, SubmitCounts, Keeps, inspection, outbox
  <2>2. CASE Changes(c)
    <3>1. UNCHANGED <<finalized, told, noAccess, asked, lost>>
      BY <2>2 DEF Changes, Unmarked, inspection, outbox
    <3>2. crossed' \in BOOLEAN /\ (crossed => crossed')
      BY <2>2, Zenon DEF Changes
    <3> QED
      BY <3>1, <3>2, Zenon
  <2>3. CASE SubmitWrites(c) \/ NoAccessWrites(c)
    <3>1. UNCHANGED <<finalized, told, asked, lost>>
      BY <2>3 DEF SubmitWrites, NoAccessWrites
    <3>2. (noAccess' = noAccess \/ noAccess' = TRUE \/ noAccess' = FALSE)
          /\ (UNCHANGED crossed \/ Overwrites(c, "TECHNICIAN_SUBMITTED"))
      BY <2>3 DEF SubmitWrites, NoAccessWrites, Submits
    <3>3. crossed' \in BOOLEAN /\ (crossed => crossed')
      <4>1. CASE UNCHANGED crossed
        BY <4>1, Zenon
      <4>2. CASE Overwrites(c, "TECHNICIAN_SUBMITTED")
        BY <4>2, OverwritesFlags
      <4> QED
        BY <3>2, <4>1, <4>2
    <3> QED
      BY <3>1, <3>2, <3>3, Zenon
  <2>4. CASE Finalizes(c)
    <3>1. UNCHANGED <<told, noAccess, asked, lost>>
      BY <2>4 DEF Finalizes, Unmarked
    <3>2. (finalized' = finalized \/ finalized' = TRUE) /\ (UNCHANGED crossed \/ Overwrites(c, "COMPLETED"))
      BY <2>4 DEF Finalizes, inspection
    <3>3. crossed' \in BOOLEAN /\ (crossed => crossed')
      <4>1. CASE UNCHANGED crossed
        BY <4>1, Zenon
      <4>2. CASE Overwrites(c, "COMPLETED")
        BY <4>2, OverwritesFlags
      <4> QED
        BY <3>2, <4>1, <4>2
    <3> QED
      BY <3>1, <3>2, <3>3, Zenon
  <2>5. CASE Holds(c) \/ ClosesByHand(c) \/ Cancels(c)
    <3>1. UNCHANGED <<finalized, told, noAccess, asked, lost>>
      BY <2>5 DEF Holds, ClosesByHand, Cancels, Unmarked, Keeps, outbox
    <3>2. \E to : Overwrites(c, to)
      BY <2>5 DEF Holds, ClosesByHand, Cancels
    <3>3. crossed' \in BOOLEAN /\ (crossed => crossed')
      BY <3>2, OverwritesFlags
    <3> QED
      BY <3>1, <3>3, Zenon
  <2> QED
    BY <1>4, <2>1, <2>2, <2>3, <2>4, <2>5 DEF HandlerStep, FieldStep, OfficeStep
<1>5. ASSUME NEW c \in Caller, HandlerFails(c) PROVE Goal
  <2>1. UNCHANGED <<finalized, told, noAccess, asked, crossed>>
    BY <1>5 DEF HandlerFails, inspection, outbox
  <2>2. lost' \in BOOLEAN
    BY <1>5, Zenon DEF HandlerFails
  <2> QED
    BY <2>1, <2>2, Zenon
<1>6. ASSUME NEW a \in Area,
             \/ Completes(a) \/ Skips(a) \/ BytesArrive(a) \/ Reported(a)
             \/ Analysed(a) \/ AnalysisRetried(a)
      PROVE  Goal
  BY <1>6, <1>0 DEF Completes, Skips, BytesArrive, Reported, Analysed, AnalysisRetried, inspection, outbox
<1>7. CASE Starts \/ Reopens
  BY <1>7, <1>0 DEF Starts, Reopens, GoesBack, Keeps, outbox
<1>8. CASE RequestsEvidence
  <2>1. UNCHANGED <<finalized, told, noAccess, lost, crossed>> /\ asked' = TRUE
    BY <1>8 DEF RequestsEvidence, GoesBack, outbox
  <2> QED
    BY <2>1, Zenon
<1>9. CASE WorkerStep \/ WorkerFails
  <2>1. UNCHANGED <<finalized, history>> /\ (told' = told \/ told' = TRUE)
    BY <1>9 DEF WorkerStep, WorkerReads, WorkerSends, WorkerMarks, WorkerFails, inspection
  <2> QED
    BY <2>1, Zenon DEF history
<1>10. CASE UNCHANGED lifecycleVars
  BY <1>10, <1>0 DEF lifecycleVars, inspection, outbox
<1> QED
  BY <1>1, <1>2, <1>3, <1>4, <1>5, <1>6, <1>7, <1>8, <1>9, <1>10 DEF LifecycleNext

\* The writes of the handlers, by what they were judged for.
Written(h) ==
  \/ at[h].op = "counted" /\ status' = "TECHNICIAN_SUBMITTED"
  \/ at[h].op = "noAccess" /\ status' = "TECHNICIAN_SUBMITTED" /\ noAccess'
  \/ at[h].op = "hold" /\ status' \in Held
  \/ at[h].op \in {"finalize", "byHand"} /\ status' = "COMPLETED"
  \/ at[h].op = "cancel" /\ status' = "CANCELLED"

(* The only moves of the status. *)
LEMMA StatusMoves ==
    ASSUME [LifecycleNext]_lifecycleVars
    PROVE  \/ UNCHANGED <<status, noAccess>>
           \/ status = "TECHNICIAN_SUBMITTED" /\ status' = "REVIEW_REQUIRED" /\ UNCHANGED <<area, noAccess, task>>
           \/ status = "SCHEDULED" /\ status' = "IN_PROGRESS" /\ UNCHANGED task
           \/ Reopens
           \/ RequestsEvidence
           \/ \E h \in Handler : Overwrites(h, status') /\ Written(h) /\ UNCHANGED area
<1> DEFINE Goal == \/ UNCHANGED <<status, noAccess>>
                   \/ status = "TECHNICIAN_SUBMITTED" /\ status' = "REVIEW_REQUIRED" /\ UNCHANGED <<area, noAccess, task>>
                   \/ status = "SCHEDULED" /\ status' = "IN_PROGRESS" /\ UNCHANGED task
                   \/ Reopens
                   \/ RequestsEvidence
                   \/ \E h \in Handler : Overwrites(h, status') /\ Written(h) /\ UNCHANGED area
<1> USE DEF inspection, evidence, outbox, history
<1>1. ASSUME NEW h \in Field, SubmitJudged(h) \/ NoAccessJudged(h) PROVE Goal
  BY <1>1 DEF SubmitJudged, NoAccessJudged
<1>2. ASSUME NEW h \in Field, NEW a \in Area, RecordingJudged(h, a) \/ ChangeJudged(h, a) PROVE Goal
  BY <1>2 DEF RecordingJudged, ChangeJudged
<1>3. ASSUME NEW h \in Office, OfficeJudged(h) PROVE Goal
  BY <1>3 DEF OfficeJudged
<1>4. ASSUME NEW c \in Caller, HandlerStep(c) PROVE Goal
  <2>1. CASE AdvanceReads(c) \/ AdvanceWrites(c)
    BY <2>1 DEF AdvanceReads, AdvanceWrites, Keeps
  <2>2. CASE RecordingBegins(c) \/ Changes(c) \/ SubmitCounts(c)
    BY <2>2 DEF RecordingBegins, Changes, SubmitCounts, Unmarked
  <2>3. CASE c \in Field /\ (SubmitWrites(c) \/ NoAccessWrites(c))
    <3>1. c \in Handler
      BY <2>3 DEF Handler
    <3>2. \/ UNCHANGED <<status, noAccess>>
          \/ /\ Overwrites(c, "TECHNICIAN_SUBMITTED") /\ UNCHANGED area
             /\ at[c].op = "counted" \/ (at[c].op = "noAccess" /\ noAccess')
      BY <2>3, Zenon DEF SubmitWrites, NoAccessWrites, Submits
    <3>3. Overwrites(c, "TECHNICIAN_SUBMITTED") => status' = "TECHNICIAN_SUBMITTED" /\ Overwrites(c, status')
      BY DEF Overwrites
    <3> QED
      BY <3>1, <3>2, <3>3, Zenon DEF Written
  <2>4. CASE c \in Office /\ OfficeStep(c)
    <3>1. c \in Handler
      BY <2>4 DEF Handler
    <3>2. \/ UNCHANGED <<status, noAccess>>
          \/ \E to \in Statuses : Overwrites(c, to) /\ UNCHANGED area /\
               \/ at[c].op = "hold" /\ to \in Held
               \/ at[c].op \in {"finalize", "byHand"} /\ to = "COMPLETED"
               \/ at[c].op = "cancel" /\ to = "CANCELLED"
      BY <2>4 DEF OfficeStep, Holds, Finalizes, ClosesByHand, Cancels, Keeps, Unmarked,
         Statuses, Frozen, Reviewable
    <3>3. \A to : Overwrites(c, to) => status' = to /\ Overwrites(c, status')
      BY DEF Overwrites
    <3> QED
      BY <3>1, <3>2, <3>3, Zenon DEF Written
  <2> QED
    BY <1>4, <2>1, <2>2, <2>3, <2>4 DEF HandlerStep, FieldStep
<1>5. ASSUME NEW c \in Caller, HandlerFails(c) PROVE Goal
  BY <1>5 DEF HandlerFails
<1>6. ASSUME NEW a \in Area,
             \/ Completes(a) \/ Skips(a) \/ BytesArrive(a) \/ Reported(a)
             \/ Analysed(a) \/ AnalysisRetried(a)
      PROVE  Goal
  BY <1>6 DEF Completes, Skips, BytesArrive, Reported, Analysed, AnalysisRetried
<1>7. CASE Starts \/ Reopens \/ RequestsEvidence
  BY <1>7 DEF Starts, Keeps
<1>8. CASE WorkerStep \/ WorkerFails
  BY <1>8 DEF WorkerStep, WorkerReads, WorkerSends, WorkerMarks, WorkerFails
<1>9. CASE UNCHANGED lifecycleVars
  BY <1>9 DEF lifecycleVars
<1> QED
  BY <1>1, <1>2, <1>3, <1>4, <1>5, <1>6, <1>7, <1>8, <1>9 DEF LifecycleNext

----------------------------------------------------------------------------
(* The outbox                                                              *)

LEMMA HeldStep == DataOK /\ HeldRowDue /\ [LifecycleNext]_lifecycleVars => HeldRowDue'
<1> SUFFICES ASSUME DataOK, HeldRowDue, [LifecycleNext]_lifecycleVars PROVE HeldRowDue'
  OBVIOUS
<1> USE DEF HeldRowDue, inspection, evidence, outbox
<1>0. ASSUME UNCHANGED <<task, worker>> PROVE HeldRowDue'
  BY <1>0
<1>1. ASSUME NEW h \in Field, SubmitJudged(h) \/ NoAccessJudged(h) PROVE HeldRowDue'
  BY <1>1, <1>0 DEF SubmitJudged, NoAccessJudged, Keeps
<1>2. ASSUME NEW h \in Field, NEW a \in Area, RecordingJudged(h, a) \/ ChangeJudged(h, a) PROVE HeldRowDue'
  BY <1>2, <1>0 DEF RecordingJudged, ChangeJudged, Keeps
<1>3. ASSUME NEW h \in Office, OfficeJudged(h) PROVE HeldRowDue'
  BY <1>3, <1>0 DEF OfficeJudged, Keeps
<1>4. ASSUME NEW c \in Caller, HandlerStep(c) PROVE HeldRowDue'
  <2>1. UNCHANGED worker /\ (UNCHANGED task \/ (~Refused /\ Enqueues))
    BY <1>4 DEF HandlerStep, FieldStep, OfficeStep, AdvanceReads, AdvanceWrites, RecordingBegins, Changes,
       SubmitCounts, SubmitWrites, NoAccessWrites, Submits, Holds, Finalizes, ClosesByHand, Cancels, Keeps
  <2>2. ~Refused /\ Enqueues /\ task \in Due => UNCHANGED task
    BY DEF Refused, Enqueues, Due
  <2> QED
    BY <2>1, <2>2
<1>5. ASSUME NEW c \in Caller, HandlerFails(c) PROVE HeldRowDue'
  BY <1>5, <1>0 DEF HandlerFails
<1>6. ASSUME NEW a \in Area,
             \/ Completes(a) \/ Skips(a) \/ BytesArrive(a) \/ Reported(a)
             \/ Analysed(a) \/ AnalysisRetried(a)
      PROVE  HeldRowDue'
  BY <1>6, <1>0 DEF Completes, Skips, BytesArrive, Reported, Analysed, AnalysisRetried
<1>7. CASE Starts \/ RequestsEvidence
  BY <1>7, <1>0 DEF Starts, RequestsEvidence, Keeps
<1>8. CASE Reopens
  BY <1>8 DEF Reopens, DataOK, WorkerType
<1>9. CASE WorkerReads \/ WorkerMarks \/ WorkerFails
  BY <1>9 DEF WorkerReads, WorkerMarks, WorkerFails, NoWorker
<1>10. CASE WorkerSends
  BY <1>10 DEF WorkerSends, DataOK, WorkerType
<1>11. CASE UNCHANGED lifecycleVars
  BY <1>11, <1>0 DEF lifecycleVars
<1> QED
  BY <1>1, <1>2, <1>3, <1>4, <1>5, <1>6, <1>7, <1>8, <1>9, <1>10, <1>11 DEF LifecycleNext, WorkerStep

(* A row becomes due only where a visit is submitted or finalized, unless it *)
(* was due already.                                                          *)
LEMMA BecomesDue ==
    ASSUME HeldRowDue, [LifecycleNext]_lifecycleVars, task' \in Due
    PROVE  task \in Due \/ status' \in {"TECHNICIAN_SUBMITTED", "COMPLETED"}
<1> DEFINE Goal == task \in Due \/ status' \in {"TECHNICIAN_SUBMITTED", "COMPLETED"}
<1> USE DEF outbox
<1>0. ASSUME UNCHANGED task PROVE Goal
  BY <1>0
<1>1. ASSUME NEW h \in Field, SubmitJudged(h) \/ NoAccessJudged(h) PROVE Goal
  BY <1>1, <1>0 DEF SubmitJudged, NoAccessJudged, Keeps
<1>2. ASSUME NEW h \in Field, NEW a \in Area, RecordingJudged(h, a) \/ ChangeJudged(h, a) PROVE Goal
  BY <1>2, <1>0 DEF RecordingJudged, ChangeJudged, Keeps
<1>3. ASSUME NEW h \in Office, OfficeJudged(h) PROVE Goal
  BY <1>3, <1>0 DEF OfficeJudged, Keeps
<1>4. ASSUME NEW c \in Caller, HandlerStep(c) PROVE Goal
  BY <1>4 DEF HandlerStep, FieldStep, OfficeStep, AdvanceReads, AdvanceWrites, RecordingBegins, Changes,
     SubmitCounts, SubmitWrites, NoAccessWrites, Submits, Holds, Finalizes, ClosesByHand, Cancels, Keeps,
     Overwrites
<1>5. ASSUME NEW c \in Caller, HandlerFails(c) PROVE Goal
  BY <1>5, <1>0 DEF HandlerFails
<1>6. ASSUME NEW a \in Area,
             \/ Completes(a) \/ Skips(a) \/ BytesArrive(a) \/ Reported(a)
             \/ Analysed(a) \/ AnalysisRetried(a)
      PROVE  Goal
  BY <1>6, <1>0 DEF Completes, Skips, BytesArrive, Reported, Analysed, AnalysisRetried
<1>7. CASE Starts \/ RequestsEvidence
  BY <1>7, <1>0 DEF Starts, RequestsEvidence, Keeps
<1>8. CASE Reopens
  BY <1>8 DEF Reopens, Due
<1>9. CASE WorkerReads \/ WorkerSends \/ WorkerFails
  BY <1>9, <1>0 DEF WorkerReads, WorkerSends, WorkerFails
<1>10. CASE WorkerMarks
  BY <1>10 DEF WorkerMarks, HeldRowDue, Due
<1>11. CASE UNCHANGED lifecycleVars
  BY <1>11, <1>0 DEF lifecycleVars
<1> QED
  BY <1>1, <1>2, <1>3, <1>4, <1>5, <1>6, <1>7, <1>8, <1>9, <1>10, <1>11 DEF LifecycleNext, WorkerStep

----------------------------------------------------------------------------
(* The areas                                                               *)

(* Only Change Evidence takes an area back. *)
LEMMA DoneKept ==
    ASSUME DataOK, [LifecycleNext]_lifecycleVars, NEW b \in Area, Done(b)
    PROVE  Done(b)' \/ \E h \in Field : Changes(h)
<1> DEFINE Goal == Done(b)' \/ \E h \in Field : Changes(h)
<1> USE DEF Done, evidence
<1>0. ASSUME UNCHANGED area PROVE Goal
  BY <1>0
<1>1. ASSUME NEW h \in Field, SubmitJudged(h) \/ NoAccessJudged(h) PROVE Goal
  BY <1>1, <1>0 DEF SubmitJudged, NoAccessJudged, Keeps
<1>2. ASSUME NEW h \in Field, NEW a \in Area, RecordingJudged(h, a) \/ ChangeJudged(h, a) PROVE Goal
  BY <1>2, <1>0 DEF RecordingJudged, ChangeJudged, Keeps
<1>3. ASSUME NEW h \in Office, OfficeJudged(h) PROVE Goal
  BY <1>3, <1>0 DEF OfficeJudged, Keeps
<1>4. ASSUME NEW c \in Caller, HandlerStep(c) PROVE Goal
  BY <1>4, <1>0 DEF HandlerStep, FieldStep, OfficeStep, AdvanceReads, AdvanceWrites, RecordingBegins,
     SubmitCounts, SubmitWrites, NoAccessWrites, Holds, Finalizes, ClosesByHand, Cancels, Keeps
<1>5. ASSUME NEW c \in Caller, HandlerFails(c) PROVE Goal
  BY <1>5, <1>0 DEF HandlerFails
<1>6. ASSUME NEW a \in Area, Completes(a) \/ Skips(a) \/ Reported(a) PROVE Goal
  BY <1>6 DEF Completes, Skips, Reported, DataOK
<1>7. ASSUME NEW a \in Area, BytesArrive(a) \/ Analysed(a) \/ AnalysisRetried(a) PROVE Goal
  BY <1>7, <1>0 DEF BytesArrive, Analysed, AnalysisRetried
<1>8. CASE Starts \/ Reopens \/ RequestsEvidence
  BY <1>8, <1>0 DEF Starts, Reopens, RequestsEvidence, Keeps
<1>9. CASE WorkerStep \/ WorkerFails
  BY <1>9, <1>0 DEF WorkerStep, WorkerReads, WorkerSends, WorkerMarks, WorkerFails
<1>10. CASE UNCHANGED lifecycleVars
  BY <1>10, <1>0 DEF lifecycleVars
<1> QED
  BY <1>1, <1>2, <1>3, <1>4, <1>5, <1>6, <1>7, <1>8, <1>9, <1>10 DEF LifecycleNext

(* A submission that has counted either had, or counts now. *)
LEMMA Counts ==
    ASSUME AtOK, [LifecycleNext]_lifecycleVars, NEW g \in Handler, at'[g].op = "counted"
    PROVE  at[g].op = "counted" \/ ((\A a \in Area : Done(a)) /\ UNCHANGED area)
<1> DEFINE Goal == at[g].op = "counted" \/ ((\A a \in Area : Done(a)) /\ UNCHANGED area)
<1> USE DEF evidence
<1>0. ASSUME UNCHANGED at PROVE Goal
  BY <1>0
<1>a. Handler \subseteq Caller /\ Field \subseteq Handler /\ Office \subseteq Handler /\ Area \subseteq Caller /\ g \in Caller
  BY DEF Caller, Handler
<1>b. AnyArea \in Area
  BY LifecycleAssumption DEF AnyArea
<1>c. \A c \in Caller : \A op, a, from : op # "counted" /\ Judges(c, op, a, from) => Goal
  BY <1>a DEF Judges, AtOK
<1>d. \A c \in Caller : Ends(c) => Goal
  BY <1>a, IdleTyped DEF Ends, AtOK
<1>e. \A c \in Caller : \A op : op # "counted" /\ Goes(c, op) => Goal
  BY <1>a DEF Goes, AtOK, Statement
<1>1. ASSUME NEW h \in Field, SubmitJudged(h) \/ NoAccessJudged(h) PROVE Goal
  BY <1>1, <1>a, <1>c DEF SubmitJudged, NoAccessJudged
<1>2. ASSUME NEW h \in Field, NEW a \in Area, RecordingJudged(h, a) \/ ChangeJudged(h, a) PROVE Goal
  BY <1>2, <1>a, <1>c DEF RecordingJudged, ChangeJudged
<1>3. ASSUME NEW h \in Office, OfficeJudged(h) PROVE Goal
  BY <1>3, <1>a, <1>c DEF OfficeJudged
<1>4. ASSUME NEW c \in Caller, HandlerStep(c) PROVE Goal
  <2>1. CASE Ends(c)
    BY <2>1, <1>d
  <2>2. CASE Goes(c, "advance") \/ Goes(c, "advanced")
    BY <2>2, <1>e
  <2>3. CASE SubmitCounts(c) /\ ~Ends(c)
    BY <2>3 DEF SubmitCounts, Keeps
  <2> QED
    BY <1>4, <2>1, <2>2, <2>3 DEF HandlerStep, FieldStep, OfficeStep, AdvanceReads, AdvanceWrites,
       RecordingBegins, Changes, SubmitWrites, NoAccessWrites, Holds, Finalizes, ClosesByHand, Cancels
<1>5. ASSUME NEW c \in Caller, HandlerFails(c) PROVE Goal
  BY <1>5, <1>d DEF HandlerFails
<1>6. ASSUME NEW a \in Area, Analysed(a) PROVE Goal
  BY <1>6, <1>0, <1>a, <1>e DEF Analysed
<1>7. ASSUME NEW a \in Area,
             Completes(a) \/ Skips(a) \/ BytesArrive(a) \/ Reported(a) \/ AnalysisRetried(a)
      PROVE  Goal
  BY <1>7, <1>0 DEF Completes, Skips, BytesArrive, Reported, AnalysisRetried
<1>8. CASE Starts \/ Reopens \/ RequestsEvidence \/ WorkerStep \/ WorkerFails
  BY <1>8, <1>0 DEF Starts, Reopens, RequestsEvidence, WorkerStep, WorkerReads, WorkerSends,
     WorkerMarks, WorkerFails
<1>9. CASE UNCHANGED lifecycleVars
  BY <1>9, <1>0 DEF lifecycleVars
<1> QED
  BY <1>1, <1>2, <1>3, <1>4, <1>5, <1>6, <1>7, <1>8, <1>9 DEF LifecycleNext

----------------------------------------------------------------------------
(* The invariant                                                           *)

Sound == AtOK /\ DataOK /\ FlagsOK /\ HeldRowDue /\ CountedDone /\ WalkedMeansDone /\ OwedOnlyWhenDone

LEMMA SoundAtFirst == LifecycleInit => Sound
<1> SUFFICES ASSUME LifecycleInit PROVE Sound
  OBVIOUS
<1>1. AtOK
  BY IdleTyped DEF LifecycleInit, AtOK, Judgements, AnalysesOnlyAdvance, Caller
<1>2. DataOK
  BY LifecycleAssumption DEF LifecycleInit, DataOK, Statuses, Open, AreaStatus, Media, TaskStatus,
     WorkerType, NoWorker
<1>3. FlagsOK
  BY Zenon DEF LifecycleInit, FlagsOK
<1>4. HeldRowDue /\ CountedDone
  BY IdleTyped DEF LifecycleInit, HeldRowDue, CountedDone, NoWorker, Handler, Caller
<1>5. WalkedMeansDone /\ OwedOnlyWhenDone
  BY DEF LifecycleInit, WalkedMeansDone, OwedOnlyWhenDone, Due
<1> QED
  BY <1>1, <1>2, <1>3, <1>4, <1>5 DEF Sound

(* Putting an area back past a counted submission, or past a status that is  *)
(* not the one it was judged by, is what crossed records.                    *)
LEMMA ChangesCross ==
    ASSUME AtOK, NEW h \in Field, Changes(h),
           status # "IN_PROGRESS" \/ \E g \in Handler : at[g].op = "counted"
    PROVE  crossed'
<1>1. at[h].saw = "IN_PROGRESS"
  BY DEF AtOK, Judgements, Accepts, Changes, Caller, Handler
<1> QED
  BY <1>1, Zenon DEF Changes

LEMMA CountedStep ==
    ASSUME Sound, [LifecycleNext]_lifecycleVars PROVE CountedDone'
<1> SUFFICES ASSUME NEW g \in Handler, at'[g].op = "counted", ~crossed', NEW b \in Area PROVE Done(b)'
  BY DEF CountedDone
<1>1. ~crossed
  BY FlagsStep DEF Sound
<1>2. at[g].op = "counted" \/ ((\A a \in Area : Done(a)) /\ UNCHANGED area)
  BY Counts DEF Sound
<1>3. CASE at[g].op = "counted"
  <2>1. Done(b)
    BY <1>1, <1>3 DEF Sound, CountedDone
  <2>2. ~ \E h \in Field : Changes(h)
    BY <1>3, ChangesCross DEF Sound
  <2> QED
    BY <2>1, <2>2, DoneKept DEF Sound
<1>4. CASE (\A a \in Area : Done(a)) /\ UNCHANGED area
  BY <1>4 DEF Done
<1> QED
  BY <1>2, <1>3, <1>4

LEMMA WalkedStep ==
    ASSUME Sound, [LifecycleNext]_lifecycleVars PROVE WalkedMeansDone'
<1> SUFFICES ASSUME status' \in {"TECHNICIAN_SUBMITTED", "REVIEW_REQUIRED"}, ~noAccess', ~crossed',
                    NEW b \in Area
             PROVE  Done(b)'
  BY DEF WalkedMeansDone
<1>1. ~crossed
  BY FlagsStep DEF Sound
<1>2. CASE UNCHANGED <<status, noAccess>>
  <2>1. Done(b)
    BY <1>1, <1>2 DEF Sound, WalkedMeansDone
  <2>2. ~ \E h \in Field : Changes(h)
    BY <1>2, ChangesCross DEF Sound
  <2> QED
    BY <2>1, <2>2, DoneKept DEF Sound
<1>3. CASE status = "TECHNICIAN_SUBMITTED" /\ UNCHANGED <<area, noAccess, task>>
  BY <1>1, <1>3 DEF Sound, WalkedMeansDone, Done
<1>4. ASSUME NEW h \in Handler, Overwrites(h, status'), Written(h), UNCHANGED area PROVE Done(b)'
  BY <1>1, <1>4 DEF Written, Held, Sound, CountedDone, Done
<1> QED
  BY <1>2, <1>3, <1>4, StatusMoves DEF Reopens, RequestsEvidence, GoesBack

LEMMA OwedStep ==
    ASSUME Sound, [LifecycleNext]_lifecycleVars PROVE OwedOnlyWhenDone'
<1> SUFFICES ASSUME task' \in Due, status' \in Open, ~asked', ~crossed' PROVE FALSE
  BY DEF OwedOnlyWhenDone
<1>1. ~crossed /\ ~asked
  BY FlagsStep DEF Sound
<1>2. task \in Due
  BY BecomesDue DEF Sound, Open
<1>3. status \notin Open
  BY <1>1, <1>2 DEF Sound, OwedOnlyWhenDone
<1>4. Reopens => FALSE
  BY <1>2 DEF Reopens, Due
<1>5. RequestsEvidence => FALSE
  BY Zenon DEF RequestsEvidence
<1>6. ASSUME NEW h \in Handler, Written(h) PROVE FALSE
  BY <1>6 DEF Written, Held, Open
<1> QED
  BY <1>3, <1>4, <1>5, <1>6, StatusMoves DEF Open

LEMMA SoundAlways == LifecycleSafety => []Sound
<1>1. LifecycleInit => Sound
  BY SoundAtFirst
<1>2. Sound /\ [LifecycleNext]_lifecycleVars => Sound'
  <2> SUFFICES ASSUME Sound, [LifecycleNext]_lifecycleVars PROVE Sound'
    OBVIOUS
  <2>1. AtOK' /\ DataOK' /\ FlagsOK' /\ HeldRowDue'
    BY AtStep, DataStep, FlagsStep, HeldStep DEF Sound
  <2> QED
    BY <2>1, CountedStep, WalkedStep, OwedStep DEF Sound
<1> QED
  BY <1>1, <1>2, PTL DEF LifecycleSafety

----------------------------------------------------------------------------
(* The theorems                                                            *)

(* The inspection, its areas, the outbox and the requests are well typed. *)
THEOREM LifecycleTypeCorrect == LifecycleSafety => []LifecycleTypeOK
<1>1. Sound => LifecycleTypeOK
  BY TypeParts DEF Sound
<1> QED
  BY <1>1, SoundAlways, PTL

(* What was walked and submitted is done, area by area, for any number of *)
(* areas, technicians' phones and consoles.                                *)
THEOREM WalkedMeansDoneHolds == LifecycleSafety => []WalkedMeansDone
<1>1. Sound => WalkedMeansDone
  BY DEF Sound
<1> QED
  BY <1>1, SoundAlways, PTL

(* Jobber is owed a completion only of a visit that has happened, as long  *)
(* as nobody asked for evidence and no handler wrote over a status it had  *)
(* not read, or put back an area a submission had counted                  *)
(* (reopenInspection).                                                     *)
THEOREM OwedOnlyWhenDoneHolds == LifecycleSafety => []OwedOnlyWhenDone
<1>1. Sound => OwedOnlyWhenDone
  BY DEF Sound
<1> QED
  BY <1>1, SoundAlways, PTL

(* No two requests, and no late analysis, take the status where the documents *)
(* allow no move, short of a request that wrote over what it had not read.    *)
THEOREM LegalMovesHolds == LifecycleSafety => LegalMoves
<1>1. Sound /\ [LifecycleNext]_lifecycleVars
      => [status' # status /\ ~crossed' => <<status, status'>> \in Legal]_lifecycleVars
  <2> SUFFICES ASSUME Sound, [LifecycleNext]_lifecycleVars, status' # status, ~crossed'
               PROVE  <<status, status'>> \in Legal
    OBVIOUS
  <2>1. CASE status = "TECHNICIAN_SUBMITTED" /\ status' = "REVIEW_REQUIRED"
    BY <2>1 DEF Legal
  <2>2. CASE status = "SCHEDULED" /\ status' = "IN_PROGRESS"
    BY <2>2 DEF Legal
  <2>3. CASE Reopens \/ RequestsEvidence
    BY <2>3 DEF Reopens, RequestsEvidence, GoesBack, Legal
  <2>4. ASSUME NEW h \in Handler, Overwrites(h, status'), Written(h) PROVE <<status, status'>> \in Legal
    <3>1. at[h].saw \in Accepts(at[h].op)
      BY DEF Sound, AtOK, Judgements, Caller
    <3>2. status = at[h].saw
      BY <2>4, Zenon DEF Overwrites
    <3>3. CASE at[h].op \in {"counted", "noAccess"}
      <4>1. status \in Open /\ status' = "TECHNICIAN_SUBMITTED"
        BY <2>4, <3>1, <3>2, <3>3 DEF Written, Accepts, Open
      <4> QED
        BY <4>1 DEF Legal
    <3>4. CASE at[h].op = "hold"
      <4>1. status \in Reviewable /\ status' \in Held
        BY <2>4, <3>1, <3>2, <3>4 DEF Written, Accepts
      <4> QED
        BY <4>1 DEF Legal
    <3>5. CASE at[h].op \in {"finalize", "byHand"}
      <4>1. status \in Statuses \ Frozen /\ status' = "COMPLETED"
        BY <2>4, <3>1, <3>2, <3>5 DEF Written, Accepts, Statuses, Frozen, Reviewable, Held
      <4> QED
        BY <4>1 DEF Legal
    <3>6. CASE at[h].op = "cancel"
      <4>1. status \in Cancellable /\ status' = "CANCELLED"
        BY <2>4, <3>1, <3>2, <3>6 DEF Written, Accepts
      <4> QED
        BY <4>1 DEF Legal
    <3> QED
      BY <2>4, <3>3, <3>4, <3>5, <3>6 DEF Written
  <2> QED
    BY <2>1, <2>2, <2>3, <2>4, StatusMoves
<1> QED
  BY <1>1, SoundAlways, PTL DEF LifecycleSafety, LegalMoves
====
