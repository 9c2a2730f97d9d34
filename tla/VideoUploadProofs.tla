------------------------- MODULE VideoUploadProofs -------------------------
(***************************************************************************)
(* What VideoUpload guarantees for any number of handlers, chunks, videos  *)
(* and faults, proved with TLAPS.                                          *)
(***************************************************************************)
EXTENDS VideoUpload, TLAPS

(* A report under way, an answer with a link and a pass that transfers name *)
(* a video, and a notification being handled is one that Cloudflare sent.   *)
ReportNames(r) ==
    report[r].stage # "idle" =>
        report[r].uid \in Uid /\ (r = "hook" => report[r].state \in {"ready", "error"})

AskNames(a) ==
    \/ ask[a].stage = "write"
    \/ ask[a].stage = "answer" /\ ask[a].result = "link"
    => ask[a].new \in Uid

PassNames == pass.stage \in {"offset", "sent"} => pass.uid \in Uid

TypeInv ==
    /\ VideoTypeOK
    /\ \A r \in Reporter : ReportNames(r)
    /\ \A a \in Ask : AskNames(a)
    /\ PassNames

(* A chunk that has not been given up is the one the pass waits for.        *)
Awaited ==
    \A c \in wire : ~c.late => /\ pass.stage = "sent"
                              /\ c.uid = pass.uid /\ c.offset = pass.offset

(* The records of what is not under way are well typed. *)
LEMMA NoReportTyped == NoReport \in Report /\ NoReport.stage = "idle"
BY DEF NoReport, Report, Reported

LEMMA NoAskTyped == NoAsk \in Asked /\ NoAsk.stage = "idle"
BY DEF NoAsk, Asked, AskStage

LEMMA NoPassTyped == NoPass \in Pass /\ NoPass.stage = "idle"
<1>1. AnyAsk \in Ask
  BY VideoAssumption DEF AnyAsk
<1>2. 0 \in 0..Chunks
  BY VideoAssumption
<1> QED
  BY <1>1, <1>2 DEF NoPass, Pass, PassStage

LEMMA InitTyped == UploadInit => TypeInv
<1> SUFFICES ASSUME UploadInit PROVE TypeInv
  OBVIOUS
<1>1. row \in MediaRow /\ area \in AreaStatus
  BY DEF UploadInit, VideoInit, MediaRow, Status, AreaStatus
<1>2. stream \in [Uid -> Video]
  BY VideoAssumption DEF UploadInit, VideoInit, Video, StreamState
<1>3. report \in [Reporter -> Report] /\ \A r \in Reporter : ReportNames(r)
  BY NoReportTyped DEF UploadInit, VideoInit, ReportNames
<1>4. ask \in [Ask -> Asked] /\ \A a \in Ask : AskNames(a)
  BY NoAskTyped DEF UploadInit, VideoInit, AskNames
<1>5. runs \in 0..MaxRuns /\ faults \in 0..MaxFaults
  BY VideoAssumption DEF UploadInit, VideoInit
<1>6. item \in Item
  BY DEF UploadInit, Item, ItemStatus
<1>7. pass \in Pass /\ PassNames
  BY NoPassTyped DEF UploadInit, PassNames
<1>8. /\ webhooks \subseteq Notification /\ wire \subseteq Chunk
      /\ queued \in BOOLEAN /\ analysing \in Uid \union {NoUid}
      /\ restarted \in BOOLEAN /\ crossed \in BOOLEAN /\ overtaken \in BOOLEAN /\ file \in BOOLEAN
  BY DEF UploadInit, VideoInit
<1> QED
  BY <1>1, <1>2, <1>3, <1>4, <1>5, <1>6, <1>7, <1>8 DEF TypeInv, VideoTypeOK

LEMMA FaultTyped == ASSUME faults \in 0..MaxFaults, Fault \/ UNCHANGED faults PROVE faults' \in 0..MaxFaults
BY VideoAssumption DEF Fault

(* What a report does to the row keeps it a row. *)
LEMMA AppliedTyped ==
    ASSUME row \in MediaRow, NEW state \in Reported, NEW wasReady \in BOOLEAN
    PROVE  Applied(state, wasReady) \in MediaRow
<1>1. ProcessingOf(state) \in Status
  BY DEF ProcessingOf, Status
<1> QED
  BY <1>1 DEF Applied, MediaRow

(* A report that begins names a video. *)
LEMMA ReportsTyped ==
    ASSUME report \in [Reporter -> Report], NEW r \in Reporter, NEW uid \in Uid, NEW state \in Reported,
           Reports(r, uid, state), \A q \in Reporter : ReportNames(q),
           r = "hook" => state \in {"ready", "error"}
    PROVE  report' \in [Reporter -> Report] /\ (\A q \in Reporter : ReportNames(q))'
<1>1. [NoReport EXCEPT !.stage = "told", !.uid = uid, !.state = state] \in Report
  BY DEF NoReport, Report, NoUid
<1> QED
  BY <1>1 DEF Reports, ReportNames, NoReport

LEMMA ReportStepTyped == ASSUME TypeInv, NEW r \in Reporter, ReportStep(r), UNCHANGED phone PROVE TypeInv'
<1> USE DEF TypeInv, VideoTypeOK, phone, AskNames, PassNames
<1>1. CASE FindRow(r)
  <2>1. report' \in [Reporter -> Report] /\ (\A q \in Reporter : ReportNames(q))'
    <3>1. row.readyAt \in BOOLEAN
      BY DEF MediaRow
    <3>2. [report[r] EXCEPT !.stage = "found", !.wasReady = row.readyAt] \in Report
      BY <3>1 DEF Report
    <3> QED
      BY <1>1, <3>2, NoReportTyped DEF FindRow, ReportNames
  <2> QED
    BY <1>1, <2>1 DEF FindRow
<1>2. CASE ApplyReport(r)
  <2>1. report[r] \in Report
    OBVIOUS
  <2>2. report[r].state \in Reported /\ report[r].wasReady \in BOOLEAN
    BY <2>1 DEF Report
  <2>3. row' \in MediaRow
    BY <1>2, <2>2, AppliedTyped DEF ApplyReport
  <2>4. report' \in [Reporter -> Report] /\ (\A q \in Reporter : ReportNames(q))'
    <3>1. [report[r] EXCEPT !.stage = "applied"] \in Report
      BY <2>1 DEF Report
    <3> QED
      BY <1>2, <3>1 DEF ApplyReport, ReportNames
  <2>5. crossed' \in BOOLEAN
    BY <1>2 DEF ApplyReport
  <2> QED
    BY <1>2, <2>3, <2>4, <2>5 DEF ApplyReport
<1>3. CASE FinishReport(r)
  <2>1. area' \in AreaStatus
    BY <1>3 DEF FinishReport, AreaStatus
  <2>2. queued' \in BOOLEAN
    BY <1>3 DEF FinishReport, Queues
  <2>3. report' \in [Reporter -> Report] /\ (\A q \in Reporter : ReportNames(q))'
    BY <1>3, NoReportTyped DEF FinishReport, ReportNames
  <2> QED
    BY <1>3, <2>1, <2>2, <2>3 DEF FinishReport
<1> QED
  BY <1>1, <1>2, <1>3 DEF ReportStep

(* A notification, the sweep, a reviewer and the queue of process().        *)
LEMMA BackgroundTyped ==
    ASSUME TypeInv, UNCHANGED phone,
           \/ \E w \in webhooks : Notified(w) \/ NotificationLost(w)
           \/ SweepAsks \/ ReviewerAsks
           \/ ProcessStarts \/ ProcessEnds \/ AnalysisRetried
    PROVE  TypeInv'
<1> USE DEF TypeInv, VideoTypeOK, phone, AskNames, PassNames
<1>1. ASSUME NEW w \in webhooks, Notified(w) PROVE TypeInv'
  <2>1. w.uid \in Uid /\ w.state \in {"ready", "error"}
    BY DEF Notification
  <2>2. report' \in [Reporter -> Report] /\ (\A q \in Reporter : ReportNames(q))'
    BY <1>1, <2>1, ReportsTyped DEF Notified, Reporter, Reported
  <2>3. webhooks' \subseteq Notification /\ faults' \in 0..MaxFaults
    BY <1>1, FaultTyped DEF Notified
  <2> QED
    BY <1>1, <2>2, <2>3 DEF Notified
<1>2. ASSUME NEW w \in webhooks, NotificationLost(w) PROVE TypeInv'
  <2>1. webhooks' \subseteq Notification /\ faults' \in 0..MaxFaults
    BY <1>2, FaultTyped DEF NotificationLost
  <2> QED
    BY <1>2, <2>1 DEF NotificationLost, api, ReportNames
<1>3. CASE SweepAsks \/ ReviewerAsks
  <2>1. row.uid \in Uid
    BY <1>3 DEF SweepAsks, ReviewerAsks, MediaRow
  <2>2. report' \in [Reporter -> Report] /\ (\A q \in Reporter : ReportNames(q))'
    BY <1>3, <2>1, ReportsTyped DEF SweepAsks, ReviewerAsks, Reporter
  <2>3. faults' \in 0..MaxFaults
    BY <1>3, FaultTyped DEF SweepAsks, ReviewerAsks
  <2> QED
    BY <1>3, <2>2, <2>3 DEF SweepAsks, ReviewerAsks
<1>4. CASE ProcessStarts
  <2>1. row' \in MediaRow
    BY <1>4 DEF ProcessStarts, MediaRow, Status
  <2>2. queued' \in BOOLEAN /\ analysing' \in Uid \union {NoUid}
    BY <1>4 DEF ProcessStarts, MediaRow
  <2> QED
    BY <1>4, <2>1, <2>2 DEF ProcessStarts, ReportNames
<1>5. CASE ProcessEnds
  <2>1. row' \in MediaRow
    BY <1>5 DEF ProcessEnds, Analysed, AnalysisFailed, MediaRow, Status
  <2>2. runs' \in 0..MaxRuns
    BY <1>5, VideoAssumption DEF ProcessEnds, Analysed, AnalysisFailed
  <2>3. faults' \in 0..MaxFaults
    BY <1>5, FaultTyped DEF ProcessEnds, Analysed
  <2>4. analysing' \in Uid \union {NoUid}
    BY <1>5 DEF ProcessEnds
  <2> QED
    BY <1>5, <2>1, <2>2, <2>3, <2>4 DEF ProcessEnds, ReportNames
<1>6. CASE AnalysisRetried
  BY <1>6 DEF AnalysisRetried, ReportNames
<1> QED
  BY <1>1, <1>2, <1>3, <1>4, <1>5, <1>6

(* createUploadSession.                                                     *)
LEMMA AskStepTyped ==
    ASSUME TypeInv, NEW a \in Ask, AskStep(a) \/ AskFails(a), UNCHANGED phone PROVE TypeInv'
<1> USE DEF TypeInv, VideoTypeOK, phone, PassNames
<1>a. ask[a] \in Asked
  OBVIOUS
<1>1. CASE ReadRow(a)
  <2>1. ask' \in [Ask -> Asked] /\ (\A b \in Ask : AskNames(b))'
    BY <1>1, <1>a DEF ReadRow, Asked, AskStage, AskNames, MediaRow
  <2> QED
    BY <1>1, <2>1 DEF ReadRow, ReportNames
<1>2. CASE LookAtStream(a)
  <2>1. ask' \in [Ask -> Asked] /\ (\A b \in Ask : AskNames(b))'
    BY <1>2, <1>a DEF LookAtStream, GotoAsk, Asked, AskStage, AskNames
  <2>2. report' \in [Reporter -> Report] /\ (\A q \in Reporter : ReportNames(q))'
    <3>1. CASE Whole(ask[a].old)
      <4>1. ask[a].old \in Uid /\ stream[ask[a].old].state \in Reported
        BY <3>1, <1>a DEF Asked, Whole, Reported
      <4>2. Reports(a, ask[a].old, stream[ask[a].old].state) /\ a # "hook" /\ a \in Reporter
        BY <1>2, <3>1, VideoAssumption DEF LookAtStream, Reporter
      <4> QED
        BY <4>1, <4>2, ReportsTyped
    <3>2. CASE ~Whole(ask[a].old)
      BY <1>2, <3>2 DEF LookAtStream, ReportNames
    <3> QED
      BY <3>1, <3>2
  <2> QED
    BY <1>2, <2>1, <2>2 DEF LookAtStream
<1>3. CASE AppliedForAsk(a) \/ AskFails(a)
  <2>1. ask' \in [Ask -> Asked] /\ (\A b \in Ask : AskNames(b))'
    BY <1>3, <1>a DEF AppliedForAsk, AskFails, AnswerAsk, Asked, AskStage, AskNames
  <2>2. faults' \in 0..MaxFaults
    BY <1>3, FaultTyped DEF AppliedForAsk, AskFails
  <2> QED
    BY <1>3, <2>1, <2>2 DEF AppliedForAsk, AskFails, ReportNames
<1>4. CASE DeleteStale(a)
  <2>1. ask' \in [Ask -> Asked] /\ (\A b \in Ask : AskNames(b))'
    BY <1>4, <1>a DEF DeleteStale, GotoAsk, Asked, AskStage, AskNames
  <2>2. stream' \in [Uid -> Video]
    <3>1. Gone \in Video
      BY VideoAssumption DEF Gone, Video, StreamState
    <3> QED
      BY <1>4, <3>1 DEF DeleteStale
  <2>3. faults' \in 0..MaxFaults
    BY <1>4, FaultTyped DEF DeleteStale
  <2>4. crossed' \in BOOLEAN
    BY <1>4 DEF DeleteStale
  <2> QED
    BY <1>4, <2>1, <2>2, <2>3, <2>4 DEF DeleteStale, ReportNames
<1>5. CASE CreateUpload(a)
  <2> DEFINE u == CHOOSE x \in Unmade : TRUE
  <2>1. u \in Uid
    BY <1>5 DEF CreateUpload, Unmade
  <2>2. ask' = [ask EXCEPT ![a].stage = "write", ![a].new = u]
    BY <1>5 DEF CreateUpload
  <2>3. ask' \in [Ask -> Asked] /\ (\A b \in Ask : AskNames(b))'
    <3> HIDE DEF u
    <3> QED
      BY <2>1, <2>2, <1>a DEF Asked, AskStage, AskNames
  <2>4. [state |-> "pendingupload", held |-> 0, linked |-> TRUE] \in Video
    BY VideoAssumption DEF Video, StreamState, Reported
  <2>5. stream' = [stream EXCEPT ![u] = [state |-> "pendingupload", held |-> 0, linked |-> TRUE]]
    BY <1>5 DEF CreateUpload
  <2>6. stream' \in [Uid -> Video]
    <3> HIDE DEF u
    <3> QED
      BY <2>1, <2>4, <2>5
  <2> QED
    BY <1>5, <2>3, <2>6 DEF CreateUpload, ReportNames
<1>6. CASE WriteRow(a)
  <2>1. ask' \in [Ask -> Asked] /\ (\A b \in Ask : AskNames(b))'
    BY <1>6, <1>a DEF WriteRow, AnswerAsk, Asked, AskStage, AskNames
  <2>2. row' \in MediaRow
    BY <1>6, <1>a DEF WriteRow, RenewedRow, MediaRow, Asked
  <2>3. area' \in AreaStatus
    BY <1>6 DEF WriteRow, AreaStatus
  <2>4. crossed' \in BOOLEAN
    BY <1>6 DEF WriteRow
  <2> QED
    BY <1>6, <2>1, <2>2, <2>3, <2>4 DEF WriteRow, ReportNames
<1> QED
  BY <1>1, <1>2, <1>3, <1>4, <1>5, <1>6 DEF AskStep

(* A chunk more keeps a video a video.                                      *)
LEMMA HoldMoreTyped ==
    ASSUME stream \in [Uid -> Video], NEW u \in Uid, stream[u].held < Chunks, HoldMore(u)
    PROVE  stream' \in [Uid -> Video]
<1>1. stream[u].held + 1 \in 0..Chunks
  BY VideoAssumption DEF Video
<1>2. (IF stream[u].held + 1 = Chunks THEN "inprogress" ELSE stream[u].state) \in StreamState
  BY DEF Video, StreamState, Reported
<1> DEFINE held == stream[u].held + 1
           state == IF stream[u].held + 1 = Chunks THEN "inprogress" ELSE stream[u].state
<1>3. stream' = [stream EXCEPT ![u].held = held, ![u].state = state]
  BY DEF HoldMore
<1> HIDE DEF held, state
<1> QED
  BY <1>1, <1>2, <1>3 DEF Video, held, state

(* Cloudflare and the restart of the API.                                   *)
LEMMA OutsideTyped ==
    ASSUME TypeInv, UNCHANGED phone, (\E u \in Uid : Encodes(u) \/ LinkLapses(u)) \/ ApiRestarts
    PROVE  TypeInv'
<1> USE DEF TypeInv, VideoTypeOK, phone, PassNames
<1>1. ASSUME NEW u \in Uid, Encodes(u) PROVE TypeInv'
  <2>1. PICK state \in {"ready", "error"} :
          /\ faults' \in 0..MaxFaults
          /\ stream' = [stream EXCEPT ![u].state = state]
          /\ webhooks' = webhooks \union {[uid |-> u, state |-> state]}
    BY <1>1, FaultTyped DEF Encodes
  <2>2. stream' \in [Uid -> Video]
    BY <2>1 DEF Video, StreamState, Reported
  <2>3. webhooks' \subseteq Notification
    BY <2>1 DEF Notification
  <2> QED
    BY <1>1, <2>1, <2>2, <2>3 DEF Encodes, api, ReportNames, AskNames
<1>2. ASSUME NEW u \in Uid, LinkLapses(u) PROVE TypeInv'
  <2>1. stream' \in [Uid -> Video]
    BY <1>2 DEF LinkLapses, Video
  <2>2. faults' \in 0..MaxFaults
    BY <1>2, FaultTyped DEF LinkLapses
  <2> QED
    BY <1>2, <2>1, <2>2 DEF LinkLapses, api, ReportNames, AskNames
<1>3. CASE ApiRestarts
  <2>1. report' \in [Reporter -> Report] /\ (\A q \in Reporter : ReportNames(q))'
    BY <1>3, NoReportTyped DEF ApiRestarts, ReportNames
  <2>2. ask' \in [Ask -> Asked] /\ (\A b \in Ask : AskNames(b))'
    BY <1>3, NoAskTyped DEF ApiRestarts, AskNames
  <2>3. webhooks' \subseteq Notification
    BY <1>3 DEF ApiRestarts, ReportNames, Reporter, Notification
  <2>4. queued' \in BOOLEAN
    BY <1>3 DEF ApiRestarts, BootRecovers
  <2>5. faults' \in 0..MaxFaults
    BY <1>3, FaultTyped DEF ApiRestarts
  <2> QED
    BY <1>3, <2>1, <2>2, <2>3, <2>4, <2>5 DEF ApiRestarts
<1> QED
  BY <1>1, <1>2, <1>3

(* What the phone does to its own item and pass keeps them typed.           *)
LEMMA SetsTyped ==
    ASSUME item \in Item, NEW status \in ItemStatus, Sets(status) PROVE item' \in Item
BY DEF Sets, Item

LEMMA SetsLinkTyped ==
    ASSUME item \in Item, NEW status \in ItemStatus, NEW u \in Uid \union {NoUid}, SetsLink(status, u)
    PROVE  item' \in Item
BY DEF SetsLink, Item

LEMMA PassEndsTyped == PassEnds => pass' \in Pass /\ PassNames'
BY NoPassTyped DEF PassEnds, PassNames

(* An exchange with the API: a request begins, and its answer is heard, or  *)
(* nobody waits for it any more.                                            *)
LEMMA SessionStepTyped ==
    ASSUME TypeInv, NEW a \in Ask, Asks(a) \/ SessionArrives(a) \/ SessionRefused(a) \/ Unheard(a)
    PROVE  TypeInv'
<1> USE DEF TypeInv, VideoTypeOK
<1>a. ask[a] \in Asked
  OBVIOUS
<1>1. CASE Asks(a)
  <2>1. item' \in Item
    BY <1>1, SetsTyped DEF Asks, ItemStatus
  <2>2. pass' \in Pass /\ PassNames'
    BY <1>1 DEF Asks, Pass, PassStage, PassNames
  <2>3. ask' \in [Ask -> Asked] /\ (\A b \in Ask : AskNames(b))'
    BY <1>1 DEF Asks, NoAsk, Asked, AskStage, AskNames
  <2>4. faults' \in 0..MaxFaults
    BY <1>1, FaultTyped DEF Asks
  <2> QED
    BY <1>1, <2>1, <2>2, <2>3, <2>4 DEF Asks, ReportNames
<1>b. ASSUME Answered(a) PROVE ask' \in [Ask -> Asked] /\ (\A b \in Ask : AskNames(b))'
  BY <1>b, NoAskTyped DEF Answered, AskNames
<1>2. CASE SessionArrives(a)
  <2>1. ask' \in [Ask -> Asked] /\ (\A b \in Ask : AskNames(b))'
    BY <1>2, <1>b DEF SessionArrives
  <2>2. item' \in Item /\ pass' \in Pass /\ PassNames'
    <3>1. CASE ask[a].result = "link" /\ SetsLink(item.status, ask[a].new)
               /\ pass' = [pass EXCEPT !.stage = "offset", !.by = AnyAsk, !.uid = ask[a].new]
      <4>1. ask[a].new \in Uid
        BY <1>2, <3>1 DEF SessionArrives, Answered, AskNames
      <4>2. item.status \in ItemStatus
        BY DEF Item
      <4>3. item' \in Item
        BY <3>1, <4>1, <4>2, SetsLinkTyped
      <4>4. AnyAsk \in Ask
        BY VideoAssumption DEF AnyAsk
      <4> QED
        BY <3>1, <4>1, <4>3, <4>4 DEF Pass, PassStage, PassNames
    <3>2. CASE SetsLink("COMPLETED", NoUid) /\ PassEnds
      BY <3>2, SetsLinkTyped, PassEndsTyped DEF ItemStatus
    <3>3. CASE Sets("PENDING") /\ PassEnds
      BY <3>3, SetsTyped, PassEndsTyped DEF ItemStatus
    <3> QED
      BY <1>2, <3>1, <3>2, <3>3 DEF SessionArrives
  <2> QED
    BY <1>2, <2>1, <2>2 DEF SessionArrives, OtherwiseStays, ReportNames
<1>3. CASE SessionRefused(a)
  <2>1. item' \in Item /\ pass' \in Pass /\ PassNames'
    BY <1>3, SetsTyped, PassEndsTyped DEF SessionRefused, ItemStatus
  <2>2. faults' \in 0..MaxFaults
    BY <1>3, FaultTyped DEF SessionRefused
  <2> QED
    BY <1>3, <1>b, <2>1, <2>2 DEF SessionRefused, OtherwiseStays, ReportNames
<1>4. CASE Unheard(a)
  BY <1>4, <1>b DEF Unheard, OtherwiseStays, ReportNames, PassNames
<1> QED
  BY <1>1, <1>2, <1>3, <1>4

(* Everything else on the phone.                                            *)
LEMMA PhoneStepTyped ==
    ASSUME TypeInv, Awaited, PhoneNext,
           \A a \in Ask : ~(Asks(a) \/ SessionArrives(a) \/ SessionRefused(a) \/ Unheard(a))
    PROVE  TypeInv'
<1> USE DEF TypeInv, VideoTypeOK, ApiStays, api, ReportNames, AskNames
<1>1. CASE Resumes
  <2>1. item' \in Item
    BY <1>1, SetsTyped DEF Resumes, ItemStatus
  <2>2. pass' \in Pass /\ PassNames'
    BY <1>1 DEF Resumes, Pass, PassStage, PassNames, Linked, Item
  <2> QED
    BY <1>1, <2>1, <2>2 DEF Resumes
<1>2. CASE AskTimesOut \/ AskDies \/ CameraStarts
  <2>1. item' \in Item /\ pass' \in Pass /\ PassNames'
    BY <1>2, SetsTyped, PassEndsTyped DEF AskTimesOut, AskDies, CameraStarts, ItemStatus
  <2>2. faults' \in 0..MaxFaults
    BY <1>2, FaultTyped DEF AskTimesOut, AskDies, CameraStarts
  <2> QED
    BY <1>2, <2>1, <2>2 DEF AskTimesOut, AskDies, CameraStarts
<1>3. CASE ReadsOffset
  <2>1. CASE stream[pass.uid].held = Chunks
    <3>1. item' \in Item /\ pass' \in Pass /\ PassNames'
      BY <1>3, <2>1, SetsTyped, PassEndsTyped DEF ReadsOffset, ItemStatus
    <3> QED
      BY <1>3, <2>1, <3>1 DEF ReadsOffset
  <2>2. CASE stream[pass.uid].held # Chunks
    <3> DEFINE held == stream[pass.uid].held
    <3>1. pass.uid \in Uid
      BY <1>3 DEF ReadsOffset, PassNames
    <3>2. held \in 0..Chunks - 1 /\ held \in 0..Chunks
      <4>1. held \in 0..Chunks /\ held # Chunks
        BY <2>2, <3>1 DEF Video
      <4>2. Chunks \in Nat
        BY VideoAssumption
      <4> HIDE DEF held
      <4> QED
        BY <4>1, <4>2
    <3>3. pass' \in Pass /\ PassNames'
      BY <1>3, <2>2, <3>1, <3>2 DEF ReadsOffset, Pass, PassStage, PassNames
    <3>4. wire' \subseteq Chunk
      <4>1. wire' = wire \union {[uid |-> pass.uid, offset |-> held, late |-> FALSE]}
        BY <1>3, <2>2 DEF ReadsOffset
      <4> HIDE DEF held
      <4>2. [uid |-> pass.uid, offset |-> held, late |-> FALSE] \in Chunk
        BY <3>1, <3>2 DEF Chunk
      <4> QED
        BY <4>1, <4>2
    <3> QED
      BY <1>3, <2>2, <3>3, <3>4 DEF ReadsOffset
  <2> QED
    BY <2>1, <2>2
<1>4. CASE LinkIsDead
  <2>1. item' \in Item /\ pass' \in Pass /\ PassNames'
    BY <1>4, SetsLinkTyped, PassEndsTyped DEF LinkIsDead, ItemStatus, Item
  <2> QED
    BY <1>4, <2>1 DEF LinkIsDead
<1>g. GivenUp \subseteq Chunk
  BY DEF GivenUp, Chunk
<1>5. CASE RequestFails
  <2>1. item' \in Item /\ pass' \in Pass /\ PassNames'
    BY <1>5, SetsTyped, PassEndsTyped DEF RequestFails, ItemStatus
  <2>2. wire' \subseteq Chunk /\ faults' \in 0..MaxFaults
    BY <1>5, <1>g, FaultTyped DEF RequestFails
  <2> QED
    BY <1>5, <2>1, <2>2 DEF RequestFails
<1>6. ASSUME NEW c \in wire, ChunkLands(c) PROVE TypeInv'
  <2>1. c.uid \in Uid /\ c.offset \in 0..Chunks - 1
    BY DEF Chunk
  <2>2. stream' \in [Uid -> Video]
    <3>1. CASE Linked(c.uid) /\ stream[c.uid].held = c.offset
      <4>1. stream[c.uid].held < Chunks
        BY <2>1, <3>1, VideoAssumption
      <4> QED
        BY <1>6, <2>1, <3>1, <4>1, HoldMoreTyped DEF ChunkLands
    <3>2. CASE ~(Linked(c.uid) /\ stream[c.uid].held = c.offset)
      BY <1>6, <3>2 DEF ChunkLands
    <3> QED
      BY <3>1, <3>2
  <2>3. pass' \in Pass /\ PassNames'
    <3>1. CASE c.late
      BY <1>6, <3>1 DEF ChunkLands, PassNames
    <3>2. CASE ~c.late
      <4>1. pass.uid \in Uid
        BY <3>2 DEF Awaited, PassNames
      <4>2. 0 \in 0..Chunks
        BY VideoAssumption
      <4> QED
        BY <1>6, <3>2, <4>1, <4>2 DEF ChunkLands, Pass, PassStage, PassNames
    <3> QED
      BY <3>1, <3>2
  <2> QED
    BY <1>6, <2>2, <2>3 DEF ChunkLands
<1>7. CASE Pause \/ Resume \/ Retry
  <2>1. item' \in Item
    BY <1>7, SetsTyped DEF Pause, Resume, Retry, Presses, ItemStatus
  <2> QED
    BY <1>7, <2>1 DEF Pause, Resume, Retry, Presses, PassNames
<1>8. CASE HandsOver
  <2>1. item' \in Item
    BY <1>8 DEF HandsOver, Item, ItemStatus
  <2> QED
    BY <1>8, <2>1 DEF HandsOver, PassNames
<1>9. CASE Kill
  BY <1>9, <1>g, PassEndsTyped, FaultTyped DEF Kill
<1> QED
  BY <1>1, <1>2, <1>3, <1>4, <1>5, <1>6, <1>7, <1>8, <1>9 DEF PhoneNext

(* No pass ends without giving up its chunk, and none sends two.            *)
LEMMA AwaitedKept ==
    ASSUME VideoTypeOK, Awaited, UploadNext \/ UNCHANGED uploadVars PROVE Awaited'
<1>1. CASE UNCHANGED <<pass, wire>>
  BY <1>1 DEF Awaited
<1>2. CASE wire' \subseteq wire /\ pass.stage # "sent"
  BY <1>2 DEF Awaited
<1>3. CASE wire' \in {GivenUp, {c \in wire : c.late}}
  <2>1. \A c \in wire' : c.late
    BY <1>3 DEF GivenUp, VideoTypeOK, Chunk
  <2> QED
    BY <2>1 DEF Awaited
<1>4. CASE ReadsOffset
  <2>1. \A c \in wire : c.late
    BY <1>4 DEF ReadsOffset, Awaited
  <2>2. CASE stream[pass.uid].held = Chunks
    BY <1>4, <2>1, <2>2 DEF ReadsOffset, Awaited
  <2>3. CASE stream[pass.uid].held # Chunks
    <3> DEFINE held == stream[pass.uid].held
    <3>1. pass' = [pass EXCEPT !.stage = "sent", !.offset = held]
          /\ wire' = wire \union {[uid |-> pass.uid, offset |-> held, late |-> FALSE]}
      BY <1>4, <2>3 DEF ReadsOffset
    <3> HIDE DEF held
    <3> QED
      BY <2>1, <3>1 DEF Awaited, VideoTypeOK, Pass
  <2> QED
    BY <2>2, <2>3
<1>5. ASSUME NEW c \in wire, ChunkLands(c) PROVE Awaited'
  <2>1. CASE c.late
    BY <1>5, <2>1 DEF ChunkLands, Awaited
  <2>2. CASE ~c.late
    <3>1. \A d \in wire \ {c} : d.late
      BY <2>2 DEF Awaited, VideoTypeOK, Chunk
    <3> QED
      BY <1>5, <3>1 DEF ChunkLands, Awaited
  <2> QED
    BY <2>1, <2>2
<1> QED
  <2>1. CASE VideoNext /\ UNCHANGED phone
    BY <1>1, <2>1 DEF phone
  <2>2. CASE PhoneNext
    <3>1. ASSUME NEW a \in Ask, Asks(a) \/ SessionArrives(a) \/ SessionRefused(a) \/ Unheard(a)
          PROVE  UNCHANGED <<pass, wire>> \/ (wire' \subseteq wire /\ pass.stage # "sent")
      <4>1. CASE Asks(a)
        BY <4>1 DEF Asks, Idle
      <4>2. CASE SessionArrives(a)
        BY <4>2 DEF SessionArrives, OtherwiseStays
      <4>3. CASE SessionRefused(a)
        BY <4>3 DEF SessionRefused, OtherwiseStays
      <4>4. CASE Unheard(a)
        <5>1. pass' = pass
          BY <4>4 DEF Unheard
        <5>2. wire' = wire
          BY <4>4 DEF Unheard, OtherwiseStays
        <5> QED
          BY <5>1, <5>2
      <4> QED
        BY <3>1, <4>1, <4>2, <4>3, <4>4
    <3>2. CASE Resumes \/ LinkIsDead \/ CameraStarts \/ AskTimesOut \/ AskDies
      BY <1>2, <3>2 DEF Resumes, LinkIsDead, CameraStarts, AskTimesOut, AskDies, Idle
    <3>3. CASE Pause \/ Resume \/ Retry \/ HandsOver
      BY <1>1, <3>3 DEF Pause, Resume, Retry, Presses, HandsOver
    <3>4. CASE RequestFails \/ Kill
      BY <1>3, <3>4 DEF RequestFails, Kill
    <3> QED
      BY <1>1, <1>2, <1>4, <1>5, <2>2, <3>1, <3>2, <3>3, <3>4 DEF PhoneNext
  <2>3. CASE UNCHANGED uploadVars
    BY <1>1, <2>3 DEF uploadVars, phone
  <2> QED
    BY <2>1, <2>2, <2>3 DEF UploadNext

Inv == TypeInv /\ Awaited

(* Every step keeps every variable what it may hold.                        *)
LEMMA StepTyped == Inv /\ [UploadNext]_uploadVars => Inv'
<1> SUFFICES ASSUME Inv, [UploadNext]_uploadVars PROVE TypeInv'
  BY AwaitedKept DEF Inv, TypeInv
<1>1. CASE VideoNext /\ UNCHANGED phone
  BY <1>1, ReportStepTyped, BackgroundTyped, AskStepTyped, OutsideTyped DEF VideoNext, Inv
<1>2. CASE PhoneNext
  BY <1>2, SessionStepTyped, PhoneStepTyped DEF Inv
<1>3. CASE UNCHANGED uploadVars
  BY <1>3 DEF uploadVars, videoVars, api, phone, Inv, TypeInv, VideoTypeOK, ReportNames, AskNames, PassNames
<1> QED
  BY <1>1, <1>2, <1>3 DEF UploadNext

(* Every reachable state of the upload, the API and Cloudflare is well      *)
(* typed, and what is under way names a video.                              *)
THEOREM UploadTyped == UploadSafety => []Inv
<1>1. UploadInit => Inv
  BY InitTyped DEF Inv, Awaited, UploadInit
<1> QED
  BY <1>1, StepTyped, PTL DEF UploadSafety

(* VideoTypeOK holds in every behaviour (the type invariant of VideoUpload). *)
THEOREM VideoTypeCorrect == UploadSafety => []VideoTypeOK
<1>1. Inv => VideoTypeOK
  BY DEF Inv, TypeInv
<1> QED
  BY <1>1, UploadTyped, PTL

(*************************************************************************)
(* The recording is never let go of.                                     *)
(*************************************************************************)

(* What a report under way or a notification says has arrived had arrived,  *)
(* though renewSession may have deleted it since; what the row says has     *)
(* arrived is whole, and the phone keeps what the row does not say so of.   *)
Arrived(u) == Whole(u) \/ (u # NoUid /\ stream[u].state = "deleted")

ReportTrue(r) ==
    report[r].stage # "idle" /\ report[r].state # "pendingupload" => Arrived(report[r].uid)

Backed ==
    /\ file \/ row.uploaded
    /\ row.uploaded => Whole(row.uid)
    /\ \A r \in Reporter : ReportTrue(r)
    /\ \A w \in webhooks : Arrived(w.uid)

BackedUncrossed == ~crossed => Backed

(* A video that has arrived is encoded or deleted, and a deleted one stays  *)
(* deleted; only renewSession deletes.                                      *)
StateMoves(u) ==
    \/ stream'[u].state = stream[u].state
    \/ stream[u].state # "deleted" /\ stream'[u].state \in {"inprogress", "ready", "error"}
    \/ stream[u].state = "unmade"
    \/ (\E a \in Ask : DeleteStale(a)) /\ stream'[u].state = "deleted"

LEMMA VideosMove == ASSUME Inv, UploadNext, NEW u \in Uid PROVE StateMoves(u)
<1> USE DEF StateMoves
<1>1. CASE UNCHANGED stream
  BY <1>1
<1>t. stream \in [Uid -> Video]
  BY DEF Inv, TypeInv, VideoTypeOK
<1>2. ASSUME NEW a \in Ask, DeleteStale(a) PROVE StateMoves(u)
  <2>1. stream' = [stream EXCEPT ![ask[a].old] = Gone] \/ UNCHANGED stream
    BY <1>2 DEF DeleteStale
  <2> QED
    BY <1>t, <1>2, <2>1 DEF Gone
<1>3. ASSUME NEW a \in Ask, CreateUpload(a) PROVE StateMoves(u)
  BY <1>3, <1>t DEF CreateUpload, Unmade, Video
<1>4. ASSUME NEW v \in Uid, Encodes(v) \/ LinkLapses(v) PROVE StateMoves(u)
  BY <1>t, <1>4 DEF Encodes, LinkLapses, Video
<1>5. ASSUME NEW c \in wire, ChunkLands(c) PROVE StateMoves(u)
  <2>1. CASE Linked(c.uid) /\ HoldMore(c.uid)
    <3>1. stream'[u].state = stream[u].state \/ (u = c.uid /\ stream'[u].state = "inprogress")
      BY <1>t, <2>1 DEF HoldMore, Video
    <3> QED
      BY <2>1, <3>1 DEF Linked
  <2> QED
    BY <1>1, <1>5, <2>1 DEF ChunkLands
<1> QED
  <2>1. CASE VideoNext
    BY <1>1, <1>2, <1>3, <1>4, <2>1 DEF VideoNext, ReportStep, FindRow, ApplyReport, FinishReport, Notified,
       NotificationLost, SweepAsks, ReviewerAsks, AskStep, AskFails, ReadRow, LookAtStream, AppliedForAsk,
       WriteRow, ProcessStarts, ProcessEnds, AnalysisRetried, ApiRestarts
  <2>2. CASE PhoneNext
    BY <1>1, <1>5, <2>2 DEF PhoneNext, Resumes, ReadsOffset, LinkIsDead, RequestFails, CameraStarts, AskTimesOut,
       AskDies, Asks, SessionArrives, SessionRefused, Unheard, OtherwiseStays, Pause, Resume, Retry, Presses,
       HandsOver, Kill
  <2> QED
    BY <2>1, <2>2 DEF UploadNext

LEMMA ArrivedStays == ASSUME Inv, UploadNext, NEW u \in Uid, Arrived(u) PROVE Arrived(u)'
BY VideosMove DEF StateMoves, Arrived, Whole

(* The video of a row that says it arrived is deleted by no step but a      *)
(* crossed one.                                                             *)
LEMMA RowsVideoStays ==
    ASSUME Inv, Backed, UploadNext, ~crossed', row.uploaded
    PROVE  row.uid \in Uid /\ Whole(row.uid) /\ stream'[row.uid].state \in {"inprogress", "ready", "error"}
<1>1. row.uid \in Uid /\ Whole(row.uid)
  BY DEF Inv, TypeInv, VideoTypeOK, MediaRow, Backed, Whole
<1>2. \A a \in Ask : ~DeleteStale(a)
  BY DEF DeleteStale
<1> QED
  BY <1>1, <1>2, VideosMove DEF StateMoves, Whole

LEMMA BackedStep == ASSUME Inv, Backed, UploadNext, ~crossed' PROVE Backed'
<1>t. /\ row \in MediaRow /\ webhooks \subseteq Notification /\ ask \in [Ask -> Asked]
      /\ report \in [Reporter -> Report] /\ stream \in [Uid -> Video]
  BY DEF Inv, TypeInv, VideoTypeOK
<1>u. row.uid \in Uid \union {NoUid} /\ row.uploaded \in BOOLEAN /\ NoUid \notin Uid
  BY <1>t DEF MediaRow, NoUid, Uid
<1>w. \A u \in Uid : Arrived(u) => Arrived(u)'
  BY ArrivedStays
<1>v. row.uploaded => row.uid \in Uid /\ Whole(row.uid) /\ stream'[row.uid].state \in {"inprogress", "ready", "error"}
  BY RowsVideoStays
(* The row is left as it is, with the file, and so is what it says.         *)
<1>r. ASSUME UNCHANGED <<row, file>>
      PROVE  (file \/ row.uploaded)' /\ (row.uploaded => Whole(row.uid))'
  BY <1>r, <1>u, <1>v DEF Backed, Whole
<1>p. ASSUME UNCHANGED report PROVE \A r \in Reporter : ReportTrue(r)'
  <2> SUFFICES ASSUME NEW r \in Reporter, report[r].stage # "idle", report[r].state # "pendingupload"
               PROVE  Arrived(report[r].uid)'
    BY <1>p DEF ReportTrue, Arrived, Whole
  <2>1. report[r].uid \in Uid /\ Arrived(report[r].uid)
    BY DEF Inv, TypeInv, ReportNames, Backed, ReportTrue
  <2> QED
    BY <1>p, <1>w, <2>1 DEF Arrived, Whole
<1>n. ASSUME webhooks' \subseteq webhooks PROVE \A w \in webhooks' : Arrived(w.uid)'
  BY <1>n, <1>t, <1>w DEF Backed, Notification
(* A report that begins, tells what Cloudflare holds.                       *)
<1>b. ASSUME NEW r \in Reporter, NEW uid \in Uid, NEW state \in Reported, Reports(r, uid, state),
             state # "pendingupload" => Arrived(uid)
      PROVE  \A q \in Reporter : ReportTrue(q)'
  <2> SUFFICES ASSUME NEW q \in Reporter, report'[q].stage # "idle", report'[q].state # "pendingupload"
               PROVE  report'[q].uid \in Uid /\ Arrived(report'[q].uid)
    BY <1>w DEF ReportTrue, Arrived, Whole
  <2>1. CASE q = r
    BY <1>b, <1>t, <2>1 DEF Reports, NoReport
  <2>2. CASE q # r
    BY <1>b, <1>t, <2>2 DEF Reports, Inv, TypeInv, ReportNames, Backed, ReportTrue
  <2> QED
    BY <2>1, <2>2
<1>1. ASSUME NEW r \in Reporter, ReportStep(r), UNCHANGED phone PROVE Backed'
  <2>1. \A q \in Reporter : ReportTrue(q)'
    <3> SUFFICES ASSUME NEW q \in Reporter, report'[q].stage # "idle", report'[q].state # "pendingupload"
                 PROVE  report'[q].uid \in Uid /\ Arrived(report'[q].uid)
      BY <1>w DEF ReportTrue, Arrived, Whole
    <3>1. /\ report[q].stage # "idle" /\ report[q].state # "pendingupload"
          /\ report'[q].uid = report[q].uid
      <4>1. CASE FindRow(r)
        BY <1>t, <4>1 DEF FindRow, NoReport, Report
      <4>2. CASE ApplyReport(r)
        BY <1>t, <4>2 DEF ApplyReport, Report
      <4>3. CASE FinishReport(r)
        BY <1>t, <4>3 DEF FinishReport, NoReport
      <4> QED
        BY <1>1, <4>1, <4>2, <4>3 DEF ReportStep
    <3> QED
      BY <3>1 DEF Inv, TypeInv, ReportNames, Backed, ReportTrue
  <2>2. UNCHANGED <<webhooks, file, stream>>
    BY <1>1 DEF ReportStep, FindRow, ApplyReport, FinishReport, phone
  <2>3. CASE ApplyReport(r)
    <3>1. row.uid = report[r].uid
      BY <2>3 DEF ApplyReport
    <3>2. row'.uid = row.uid /\ (row'.uploaded <=> (row.uploaded \/ report[r].state # "pendingupload"))
      BY <1>t, <2>3 DEF ApplyReport, Applied, MediaRow
    <3>3. report[r].state # "pendingupload" => Whole(row.uid)
      <4>1. report[r].state # "pendingupload" => stream[report[r].uid].state # "deleted"
        BY <2>3 DEF ApplyReport
      <4> QED
        BY <2>3, <3>1, <4>1 DEF ApplyReport, Backed, ReportTrue, Arrived
    <3>4. row'.uploaded => Whole(row.uid)
      BY <3>2, <3>3 DEF Backed
    <3>5. Whole(row.uid) => Whole(row.uid)'
      BY <2>2, <3>2 DEF Whole
    <3>6. \A w \in webhooks' : Arrived(w.uid)'
      BY <1>n, <2>2
    <3>7. (file \/ row.uploaded)'
      BY <2>2, <3>2 DEF Backed
    <3> QED
      BY <2>1, <3>4, <3>5, <3>6, <3>7 DEF Backed
  <2>4. CASE FindRow(r) \/ FinishReport(r)
    <3>1. UNCHANGED row
      BY <2>4 DEF FindRow, FinishReport
    <3> QED
      BY <1>n, <1>r, <2>1, <2>2, <3>1 DEF Backed
  <2> QED
    BY <1>1, <2>3, <2>4 DEF ReportStep
<1>2. ASSUME VideoNext, UNCHANGED phone, \A r \in Reporter : ~ReportStep(r) PROVE Backed'
  <2>1. CASE (\E w \in webhooks : NotificationLost(w)) \/ AnalysisRetried
    BY <1>2, <1>r, <1>p, <1>n, <2>1 DEF NotificationLost, AnalysisRetried, api, phone, Backed
  <2>2. ASSUME NEW w \in webhooks, Notified(w) PROVE Backed'
    <3>1. w.uid \in Uid /\ w.state \in Reported /\ "hook" \in Reporter
      BY <1>t DEF Notification, Reported, Reporter
    <3>2. \A q \in Reporter : ReportTrue(q)'
      BY <1>b, <2>2, <3>1 DEF Notified, Backed
    <3>3. webhooks' \subseteq webhooks /\ UNCHANGED <<row, file>>
      BY <1>2, <2>2 DEF Notified, phone
    <3> QED
      BY <1>r, <1>n, <3>2, <3>3 DEF Backed
  <2>3. CASE SweepAsks \/ ReviewerAsks
    <3>1. /\ row.uid \in Uid /\ stream[row.uid].state \in Reported
          /\ Reports("sweep", row.uid, stream[row.uid].state) /\ "sweep" \in Reporter
      BY <1>u, <2>3 DEF SweepAsks, ReviewerAsks, Reporter
    <3>2. stream[row.uid].state # "pendingupload" => Arrived(row.uid)
      BY <1>u, <3>1 DEF Arrived, Whole, Reported
    <3>3. \A q \in Reporter : ReportTrue(q)'
      BY <1>b, <3>1, <3>2
    <3>4. UNCHANGED <<webhooks, row, file>>
      BY <1>2, <2>3 DEF SweepAsks, ReviewerAsks, phone
    <3> QED
      BY <1>r, <1>n, <3>3, <3>4 DEF Backed
  <2>4. CASE ProcessStarts \/ ProcessEnds
    <3>1. row'.uid = row.uid /\ row'.uploaded = row.uploaded
      BY <1>t, <2>4 DEF ProcessStarts, ProcessEnds, Analysed, AnalysisFailed, MediaRow
    <3>2. UNCHANGED <<stream, webhooks, report, file>>
      BY <1>2, <2>4 DEF ProcessStarts, ProcessEnds, phone
    <3> QED
      BY <1>p, <1>n, <3>1, <3>2 DEF Backed, Whole
  <2>5. ASSUME NEW u \in Uid, Encodes(u) \/ LinkLapses(u) PROVE Backed'
    <3>1. UNCHANGED <<row, file, report>>
      BY <1>2, <2>5 DEF Encodes, LinkLapses, api, phone
    <3>2. \A w \in webhooks' : Arrived(w.uid)'
      <4>1. CASE LinkLapses(u)
        BY <1>n, <4>1 DEF LinkLapses
      <4>2. CASE Encodes(u)
        <5>1. \A w \in webhooks' : w.uid \in Uid /\ Arrived(w.uid)
          BY <1>t, <4>2 DEF Encodes, Backed, Notification, Arrived, Whole, Uid, NoUid
        <5> QED
          BY <1>w, <5>1
      <4> QED
        BY <2>5, <4>1, <4>2
    <3> QED
      BY <1>r, <1>p, <3>1, <3>2 DEF Backed
  <2>6. CASE ApiRestarts
    <3>1. UNCHANGED <<row, file>>
      BY <1>2, <2>6 DEF ApiRestarts, phone
    <3>2. \A q \in Reporter : ReportTrue(q)'
      BY <2>6, NoReportTyped DEF ApiRestarts, ReportTrue
    <3>3. \A w \in webhooks' : w.uid \in Uid /\ Arrived(w.uid)
      <4>1. report["hook"].stage # "idle" => report["hook"].uid \in Uid /\ Arrived(report["hook"].uid)
        BY DEF Inv, TypeInv, ReportNames, Backed, ReportTrue, Reporter
      <4>2. \A w \in webhooks : w.uid \in Uid /\ Arrived(w.uid)
        BY <1>t DEF Notification, Backed
      <4> QED
        BY <2>6, <4>1, <4>2 DEF ApiRestarts
    <3>4. \A w \in webhooks' : Arrived(w.uid)'
      BY <1>w, <3>3
    <3> QED
      BY <1>r, <3>1, <3>2, <3>4 DEF Backed
  <2>7. ASSUME NEW a \in Ask, AskStep(a) \/ AskFails(a) PROVE Backed'
    <3>1. CASE ReadRow(a) \/ AppliedForAsk(a) \/ DeleteStale(a) \/ CreateUpload(a) \/ AskFails(a)
      <4>1. UNCHANGED <<row, file, report, webhooks>>
        BY <1>2, <3>1 DEF ReadRow, AppliedForAsk, DeleteStale, CreateUpload, AskFails, phone
      <4> QED
        BY <1>r, <1>p, <1>n, <4>1 DEF Backed
    <3>2. CASE LookAtStream(a)
      <4>1. UNCHANGED <<row, file, webhooks>>
        BY <1>2, <3>2 DEF LookAtStream, phone
      <4>2. \A q \in Reporter : ReportTrue(q)'
        <5>1. CASE Whole(ask[a].old)
          <6>1. ask[a].old \in Uid /\ stream[ask[a].old].state \in Reported /\ a \in Reporter
            BY <1>t, <5>1 DEF Asked, Whole, Reported, Reporter
          <6> QED
            BY <1>b, <3>2, <5>1, <6>1 DEF LookAtStream, Arrived
        <5>2. CASE ~Whole(ask[a].old)
          BY <1>p, <3>2, <5>2 DEF LookAtStream
        <5> QED
          BY <5>1, <5>2
      <4> QED
        BY <1>r, <1>n, <4>1, <4>2 DEF Backed
    (* Only a row that does not say the recording arrived is given another video. *)
    <3>3. CASE WriteRow(a)
      <4>1. UNCHANGED <<report, webhooks, file>>
        BY <1>2, <3>3 DEF WriteRow, phone
      <4>2. UNCHANGED row \/ (~row.uploaded /\ ~row'.uploaded)
        <5>1. CASE ask[a].old = NoUid
          <6>1. CASE row.uid = NoUid
            <7>1. ~row.uploaded
              BY <6>1 DEF Backed, Whole
            <7>2. row' = [row EXCEPT !.uid = ask[a].new]
              BY <3>3, <5>1, <6>1 DEF WriteRow
            <7>3. row'.uploaded = row.uploaded
              BY <1>t, <7>2 DEF MediaRow
            <7> QED
              BY <7>1, <7>3
          <6>2. CASE row.uid # NoUid
            BY <3>3, <5>1, <6>2 DEF WriteRow
          <6> QED
            BY <6>1, <6>2
        <5>2. CASE ask[a].old # NoUid
          BY <1>t, <3>3, <5>2 DEF WriteRow, RenewedRow, MediaRow
        <5> QED
          BY <5>1, <5>2
      <4> QED
        BY <1>r, <1>p, <1>n, <4>1, <4>2 DEF Backed
    <3> QED
      BY <2>7, <3>1, <3>2, <3>3 DEF AskStep
  <2> QED
    BY <1>2, <2>1, <2>2, <2>3, <2>4, <2>5, <2>6, <2>7 DEF VideoNext
<1>3. CASE PhoneNext
  <2>1. UNCHANGED <<row, report, webhooks>>
    BY <1>3 DEF PhoneNext, Resumes, ReadsOffset, LinkIsDead, RequestFails, CameraStarts, AskTimesOut, AskDies, Asks,
       SessionArrives, SessionRefused, Unheard, OtherwiseStays, ChunkLands, Pause, Resume, Retry, Presses,
       HandsOver, Kill, ApiStays, api
  <2>2. UNCHANGED file \/ row.uploaded
    BY <1>3 DEF PhoneNext, Resumes, ReadsOffset, LinkIsDead, RequestFails, CameraStarts, AskTimesOut, AskDies, Asks,
       SessionArrives, SessionRefused, Unheard, OtherwiseStays, ChunkLands, Pause, Resume, Retry, Presses,
       HandsOver, Kill
  <2>4. row.uploaded => Whole(row.uid)'
    BY <1>v, <2>1 DEF Whole
  <2> QED
    BY <1>p, <1>n, <2>1, <2>2, <2>4 DEF Backed, Whole
<1> QED
  BY <1>1, <1>2, <1>3 DEF UploadNext, VideoNext

(* Nothing uncrosses what was crossed.                                      *)
LEMMA CrossedStays == UploadNext /\ crossed => crossed'
<1> SUFFICES ASSUME UploadNext, crossed PROVE crossed'
  OBVIOUS
<1>1. CASE VideoNext
  BY <1>1 DEF VideoNext, ReportStep, FindRow, ApplyReport, FinishReport, Notified, NotificationLost, SweepAsks,
     ReviewerAsks, AskStep, AskFails, ReadRow, LookAtStream, AppliedForAsk, DeleteStale, CreateUpload, WriteRow,
     ProcessStarts, ProcessEnds, AnalysisRetried, Encodes, LinkLapses, ApiRestarts
<1>2. CASE PhoneNext
  BY <1>2 DEF PhoneNext, Resumes, ReadsOffset, LinkIsDead, RequestFails, CameraStarts, AskTimesOut, AskDies, Asks,
     SessionArrives, SessionRefused, Unheard, OtherwiseStays, ChunkLands, Pause, Resume, Retry, Presses,
     HandsOver, Kill, ApiStays
<1> QED
  BY <1>1, <1>2 DEF UploadNext

(* As long as no handler wrote on what had changed since it looked, the     *)
(* recording is on the phone or whole at Cloudflare, as the video its row   *)
(* names (list() of the phone, deliveredSession and renewSession of the API). *)
THEOREM EvidenceKeptHolds == UploadSafety => []EvidenceKeptUncrossed
<1>1. UploadInit => BackedUncrossed
  BY NoReportTyped DEF UploadInit, VideoInit, BackedUncrossed, Backed, ReportTrue
<1>2. Inv /\ BackedUncrossed /\ [UploadNext]_uploadVars => BackedUncrossed'
  <2> SUFFICES ASSUME Inv, BackedUncrossed, [UploadNext]_uploadVars, ~crossed' PROVE Backed'
    BY DEF BackedUncrossed
  <2>1. CASE UploadNext
    BY <2>1, BackedStep, CrossedStays DEF BackedUncrossed
  <2>2. CASE UNCHANGED uploadVars
    BY <2>2 DEF uploadVars, videoVars, api, phone, BackedUncrossed, Backed, ReportTrue, Arrived, Whole
  <2> QED
    BY <2>1, <2>2
<1>3. BackedUncrossed => EvidenceKeptUncrossed
  BY DEF BackedUncrossed, Backed, EvidenceKeptUncrossed, EvidenceKept
<1> QED
  BY <1>1, <1>2, <1>3, UploadTyped, PTL DEF UploadSafety
=============================================================================
