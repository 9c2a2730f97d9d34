---- MODULE LocationQueue ----
(***************************************************************************)
(* The fixes a handset has recorded and not yet delivered:                 *)
(* mobile/src/location/location-storage.ts, location-queue.ts,             *)
(* location-sender.ts, the timer of LocationShiftRunner.tsx and the        *)
(* location task of shift-tracking.ts, with the server's record() in       *)
(* technician-location.service.ts.  The access token and its renewal are    *)
(* those of getSession() in mobile/src/auth/session.ts, on a handset that  *)
(* may renew in the background (Android); where it may not, a token that   *)
(* has run out is NoSession.                                               *)
(*                                                                         *)
(* Fixes are numbered in the order they were taken, which is the order of  *)
(* recordedAt.  The model follows MaxFixes of them; the location task runs *)
(* for others too, so it may ask for a send at any moment.                 *)
(***************************************************************************)
EXTENDS Naturals, Sequences, FiniteSets

CONSTANTS MaxFixes,   \* bound: the fixes followed
          MaxQueue,   \* MAX_QUEUE_LENGTH
          MaxBatch,   \* MAX_LOCATION_BATCH
          Bad,        \* the fixes rejectLocationFix refuses
          MaxSends,   \* bound: the sends under way at once, abandoned ones included
          MaxFaults   \* bound: how often anything outside the code goes wrong

VARIABLES recorded,   \* how many of the fixes the OS has delivered
          queue,      \* the fixes in the key-value store
          waiting,    \* of those, the ones whose nextAttemptAt is still ahead
          changes,    \* lastChange: the changes to the queue, in line
          sends,      \* the sends under way
          flight,     \* the send the guard knows of
          running,    \* the send the timer awaits
          onScreen,   \* whether the app is open, so that timers run
          expired,    \* whether the access token has run out
          renewal,    \* inFlightRefresh, shared by every caller of getSession
          wire,       \* per send, the request the server has yet to handle
          rows,       \* how often the server holds each fix
          faults      \* how many faults have happened

phone == <<recorded, queue, waiting, changes>>
sender == <<sends, flight, running>>
token == <<expired, renewal>>
vars == <<phone, sender, token, onScreen, wire, rows, faults>>

Fixes == 1..MaxFixes
Sends == 1..MaxSends
NoSend == 0

ASSUME LocationAssumption ==
  /\ MaxFixes \in Nat /\ MaxSends \in Nat /\ MaxFaults \in Nat
  /\ MaxQueue \in Nat \ {0} /\ MaxBatch \in Nat \ {0, 1}
  /\ Bad \subseteq Fixes

Idle == [stage |-> "idle", batch |-> {}, old |-> FALSE]
Starting == [stage |-> "reading", batch |-> {}, old |-> FALSE]

Stage == {"idle", "reading", "dropping", "rereading", "session", "renewing",
          "refused", "posting", "hung", "removing", "deferring"}

Send == [stage : Stage, batch : SUBSET Fixes, old : BOOLEAN]

Change == [kind : {"append", "doomed", "sent", "defer"}, ids : SUBSET Fixes,
           by : Sends \union {NoSend}, read : BOOLEAN, copy : SUBSET Fixes,
           torn : BOOLEAN]

LocationInit ==
  /\ recorded = 0 /\ queue = {} /\ waiting = {} /\ changes = <<>>
  /\ sends = [s \in Sends |-> Idle] /\ flight = NoSend /\ running = NoSend
  /\ onScreen = FALSE /\ expired = FALSE /\ renewal = "none" /\ wire = [s \in Sends |-> {}]
  /\ rows = [f \in Fixes |-> 0] /\ faults = 0

\* Something outside the code goes wrong, at most MaxFaults times.
Fault == faults < MaxFaults /\ faults' = faults + 1

----------------------------------------------------------------------------
(* The queue: one change at a time, each a read, a modification, a write.  *)

\* Mutant: it reads the queue at once, like a change that does not wait its turn.
AskedReading(kind, ids, s) ==
  [kind |-> kind, ids |-> ids, by |-> s, read |-> TRUE, copy |-> queue, torn |-> FALSE]

\* A change joins the line.  It reads the queue when its turn comes, not now.
Asked(kind, ids, s) ==
  [kind |-> kind, ids |-> ids, by |-> s, read |-> FALSE, copy |-> {}, torn |-> FALSE]

ChangeQueue(kind, ids, s) == changes' = Append(changes, Asked(kind, ids, s))

\* trimQueue, on every write: the newest MaxQueue.
Newest(fixes) == {f \in fixes : Cardinality({g \in fixes : g > f}) < MaxQueue}

\* What the change makes of the queue it read.
Changed(change) ==
  CASE change.kind = "append" -> change.copy \union change.ids
    [] change.kind \in {"doomed", "sent"} -> change.copy \ change.ids
    [] change.kind = "defer" -> change.copy

\* The location task: what the OS delivered is queued before anything is sent.
Record(last) ==
  /\ last \in (recorded + 1)..MaxFixes
  /\ ChangeQueue("append", (recorded + 1)..last, NoSend)
  /\ recorded' = last
  /\ UNCHANGED <<queue, waiting, sender, token, onScreen, wire, rows, faults>>

ReadForChange ==
  /\ changes # <<>> /\ ~Head(changes).read
  /\ changes' = [changes EXCEPT ![1] = [@ EXCEPT !.read = TRUE, !.copy = queue]]
  /\ UNCHANGED <<recorded, queue, waiting, sender, token, onScreen, wire, rows, faults>>

\* A queue that cannot be read counts as empty, and the change goes on from there.
ReadForChangeFails ==
  /\ changes # <<>> /\ ~Head(changes).read /\ Fault
  /\ changes' = [changes EXCEPT ![1] = [@ EXCEPT !.read = TRUE, !.copy = {}, !.torn = TRUE]]
  /\ UNCHANGED <<recorded, queue, waiting, sender, token, onScreen, wire, rows>>

\* Mutant: a send that is over releases the guard of whichever send holds it.
EndReleasingAny(s) ==
  /\ sends' = [sends EXCEPT ![s] = Idle]
  /\ flight' = NoSend
  /\ running' = IF running = s THEN NoSend ELSE running

\* Mutant: a send that is over keeps the guard.
EndHolding(s) ==
  /\ sends' = [sends EXCEPT ![s] = Idle]
  /\ UNCHANGED flight
  /\ running' = IF running = s THEN NoSend ELSE running

\* A send is over: the guard is released if it is still this send's, and so is
\* the timer if this is the send it awaits.
End(s) ==
  /\ sends' = [sends EXCEPT ![s] = Idle]
  /\ flight' = IF flight = s THEN NoSend ELSE flight
  /\ running' = IF running = s THEN NoSend ELSE running

Goto(s, stage) == sends' = [sends EXCEPT ![s] = [@ EXCEPT !.stage = stage]]

\* The head of the line is done, and whoever awaited it goes on.
ChangeDone ==
  LET s == Head(changes).by
  IN /\ changes' = Tail(changes)
     /\ \/ s = NoSend /\ UNCHANGED <<sends, flight, running>>
        \/ /\ s # NoSend /\ Head(changes).kind = "doomed"
           /\ Goto(s, "rereading") /\ UNCHANGED <<flight, running>>
        \/ s # NoSend /\ Head(changes).kind # "doomed" /\ End(s)

WriteChange ==
  /\ changes # <<>> /\ Head(changes).read
  /\ queue' = Newest(Changed(Head(changes)))
  /\ waiting' = queue' \intersect
       (IF Head(changes).kind = "defer" THEN waiting \union Head(changes).ids ELSE waiting)
  /\ ChangeDone
  /\ UNCHANGED <<recorded, token, onScreen, wire, rows, faults>>

\* A write that fails is swallowed, and the queue is what it was.
WriteChangeFails ==
  /\ changes # <<>> /\ Head(changes).read /\ Fault
  /\ ChangeDone
  /\ UNCHANGED <<recorded, queue, waiting, token, onScreen, wire, rows>>

----------------------------------------------------------------------------
(* Starting a send: the location task after each fix, and the timer.       *)

\* Mutant: a send under way is waited for, however long it takes.
MaySendWhenDone == flight = NoSend

\* Another send may start: none is known of, or it has had its minute.
MaySend == flight # NoSend => sends[flight].old

Start(s) ==
  /\ sends[s].stage = "idle" /\ wire[s] = {}
  /\ sends' = [sends EXCEPT ![s] = Starting]
  /\ flight' = s

TaskSends(s) ==
  /\ MaySend /\ Start(s)
  /\ UNCHANGED <<phone, running, token, onScreen, wire, rows, faults>>

\* The timer, which runs only with the app open, waits for the send it started
\* or for the one it found under way.
TimerTicks ==
  /\ onScreen /\ running = NoSend
  /\ \/ MaySend /\ \E s \in Sends : Start(s) /\ running' = s
     \/ ~MaySend /\ running' = flight /\ UNCHANGED <<sends, flight>>
  /\ UNCHANGED <<phone, token, onScreen, wire, rows, faults>>

----------------------------------------------------------------------------
(* One send.                                                               *)

Due == (queue \ waiting) \ Bad

\* The oldest that fit, and the newest always.
BatchOf(due) == {f \in due : \/ Cardinality({g \in due : g < f}) < MaxBatch - 1
                             \/ \A g \in due : g <= f}

TakeBatch(s) ==
  IF Due = {} THEN End(s)
  ELSE /\ sends' = [sends EXCEPT ![s] = [@ EXCEPT !.stage = "session", !.batch = BatchOf(Due)]]
       /\ UNCHANGED <<flight, running>>

\* The queue is read; what the server would refuse is dropped first.
ReadsQueue(s) ==
  /\ sends[s].stage = "reading"
  /\ \/ /\ queue \intersect Bad # {}
        /\ ChangeQueue("doomed", queue \intersect Bad, s)
        /\ Goto(s, "dropping") /\ UNCHANGED <<flight, running>>
     \/ /\ queue \intersect Bad = {}
        /\ TakeBatch(s) /\ UNCHANGED changes
  /\ UNCHANGED <<recorded, queue, waiting, token, onScreen, wire, rows, faults>>

ReadsAgain(s) ==
  /\ sends[s].stage = "rereading"
  /\ TakeBatch(s)
  /\ UNCHANGED <<phone, token, onScreen, wire, rows, faults>>

ReadFails(s) ==
  /\ sends[s].stage \in {"reading", "rereading"} /\ Fault
  /\ End(s)
  /\ UNCHANGED <<phone, token, onScreen, wire, rows>>

\* No usable session: the fixes stay, and are not backed off.
NoSession(s) ==
  /\ sends[s].stage = "session" /\ Fault
  /\ End(s)
  /\ UNCHANGED <<phone, token, onScreen, wire, rows>>

Posts(s) ==
  /\ sends[s].stage = "session" /\ ~expired
  /\ Goto(s, "posting")
  /\ wire' = [wire EXCEPT ![s] = sends[s].batch]
  /\ UNCHANGED <<phone, flight, running, token, onScreen, rows, faults>>

\* The token has run out: the send starts the renewal, or joins the one under way.
Renews(s) ==
  /\ sends[s].stage = "session" /\ expired
  /\ Goto(s, "renewing")
  /\ renewal' = IF renewal = "none" THEN "underway" ELSE renewal
  /\ UNCHANGED <<phone, flight, running, expired, onScreen, wire, rows, faults>>

Renewing == {s \in Sends : sends[s].stage = "renewing"}

\* The sends that awaited the renewal go on.
Renewed(stage) ==
  sends' = [s \in Sends |-> IF s \in Renewing THEN [sends[s] EXCEPT !.stage = stage]
                            ELSE sends[s]]

RenewalAnswers ==
  /\ renewal = "underway"
  /\ renewal' = "none" /\ expired' = FALSE
  /\ Renewed("posting")
  /\ wire' = [s \in Sends |-> IF s \in Renewing THEN sends[s].batch ELSE wire[s]]
  /\ UNCHANGED <<phone, flight, running, onScreen, rows, faults>>

RenewalFails ==
  /\ renewal = "underway" /\ Fault
  /\ renewal' = "none"
  /\ Renewed("refused")
  /\ UNCHANGED <<phone, flight, running, expired, onScreen, wire, rows>>

\* The renewal's request has no timeout, on screen or off.
RenewalHangs ==
  /\ renewal = "underway" /\ Fault
  /\ renewal' = "hung"
  /\ UNCHANGED <<phone, sender, expired, onScreen, wire, rows>>

\* createMany with skipDuplicates: one row per fix, however often it arrives.
RowsWith(fixes) ==
  [f \in Fixes |-> IF f \in fixes \ Bad /\ rows[f] = 0 THEN 1 ELSE rows[f]]

ServerStores(s) ==
  /\ wire[s] # {}
  /\ rows' = RowsWith(wire[s])
  /\ wire' = [wire EXCEPT ![s] = {}]
  /\ UNCHANGED <<phone, sender, token, onScreen, faults>>

\* The API has them: they leave the queue.
Answered(s) ==
  /\ sends[s].stage = "posting" /\ wire[s] = {}
  /\ ChangeQueue("sent", sends[s].batch, s)
  /\ Goto(s, "removing")
  /\ UNCHANGED <<recorded, queue, waiting, flight, running, token, onScreen, wire, rows, faults>>

\* Kept and backed off, never dropped.
BackOff(s) ==
  /\ ChangeQueue("defer", sends[s].batch, s)
  /\ Goto(s, "deferring")
  /\ UNCHANGED <<recorded, queue, waiting, flight, running>>

\* After a renewal that failed: no session to send with, or the token that has
\* run out, which the API refuses.
Refused(s) ==
  /\ sends[s].stage = "refused"
  /\ \/ End(s) /\ UNCHANGED phone
     \/ BackOff(s)
  /\ UNCHANGED <<token, onScreen, wire, rows, faults>>

\* The request fails: it never reaches the server, or its answer never comes
\* back, or the fifteen-second abort ends it with the request still under way.
PostFails(s) ==
  /\ sends[s].stage = "posting" /\ Fault
  /\ BackOff(s)
  /\ wire' \in {wire, [wire EXCEPT ![s] = {}]}
  /\ UNCHANGED <<token, onScreen, rows>>

\* In the background no timer runs, so a request can stay unanswered.
Hangs(s) ==
  /\ sends[s].stage = "posting" /\ ~onScreen /\ Fault
  /\ Goto(s, "hung")
  /\ UNCHANGED <<phone, flight, running, token, onScreen, wire, rows>>

AbortFires(s) ==
  /\ sends[s].stage = "hung" /\ onScreen
  /\ BackOff(s)
  /\ UNCHANGED <<token, onScreen, wire, rows, faults>>

----------------------------------------------------------------------------
(* Time, the technician and the operating system.                          *)

\* ABANDON_SEND_AFTER_MS passes.
MinutePasses(s) ==
  /\ sends[s].stage # "idle" /\ ~sends[s].old
  /\ sends' = [sends EXCEPT ![s] = [@ EXCEPT !.old = TRUE]]
  /\ UNCHANGED <<phone, flight, running, token, onScreen, wire, rows, faults>>

Expires ==
  /\ ~expired /\ expired' = TRUE
  /\ UNCHANGED <<phone, sender, renewal, onScreen, wire, rows, faults>>

\* retryDelayMs passes for a fix.
DelayEnds(f) ==
  /\ f \in waiting
  /\ waiting' = waiting \ {f}
  /\ UNCHANGED <<recorded, queue, changes, sender, token, onScreen, wire, rows, faults>>

OpenOrLeave ==
  /\ onScreen' = ~onScreen
  /\ UNCHANGED <<phone, sender, token, wire, rows, faults>>

\* The process ends; the key-value store and requests under way outlive it.
Kill ==
  /\ Fault
  /\ changes' = <<>> /\ sends' = [s \in Sends |-> Idle]
  /\ flight' = NoSend /\ running' = NoSend /\ onScreen' = FALSE /\ renewal' = "none"
  /\ UNCHANGED <<recorded, queue, waiting, expired, wire, rows>>

SendStep(s) ==
  ReadsQueue(s) \/ ReadsAgain(s) \/ Posts(s) \/ Renews(s) \/ Refused(s) \/ Answered(s)

LocationNext ==
  \/ \E last \in Fixes : Record(last)
  \/ ReadForChange \/ ReadForChangeFails \/ WriteChange \/ WriteChangeFails
  \/ TimerTicks \/ OpenOrLeave \/ Kill
  \/ Expires \/ RenewalAnswers \/ RenewalFails \/ RenewalHangs
  \/ \E s \in Sends : \/ TaskSends(s) \/ SendStep(s) \/ ServerStores(s) \/ ReadFails(s)
                      \/ NoSession(s) \/ PostFails(s) \/ Hangs(s) \/ AbortFires(s)
                      \/ MinutePasses(s)
  \/ \E f \in Fixes : DelayEnds(f)

LocationSafety == LocationInit /\ [][LocationNext]_vars

\* Time passes, the store answers, the server handles what reaches it, and a
\* shift that is being recorded keeps delivering fixes, each of which asks for
\* a send.  Nothing makes the technician open the app.
LocationSpec ==
  /\ LocationSafety
  /\ WF_vars(ReadForChange \/ WriteChange)
  /\ WF_vars(RenewalAnswers)
  /\ WF_vars(\E s \in Sends : TaskSends(s))
  /\ \A s \in Sends : WF_vars(SendStep(s)) /\ WF_vars(ServerStores(s)) /\ WF_vars(MinutePasses(s))
  /\ \A f \in Fixes : WF_vars(DelayEnds(f))

----------------------------------------------------------------------------
(* Properties.                                                             *)

\* A retried upload is harmless: the server never holds a fix twice, though its
\* answer was lost, its removal from the queue was not written, or an abandoned
\* send posted it again (record() in technician-location.service.ts).
StoredOnce == \A f \in Fixes : rows[f] <= 1

\* Every variable has its type, and neither the guard nor the timer is held by a
\* send that is over, which would stop one of them for good (location-sender.ts,
\* the finally of drainLocationQueue); and no fix is stored twice.
LocationTypeOK ==
  /\ recorded \in 0..MaxFixes /\ queue \in SUBSET Fixes /\ waiting \in SUBSET queue
  /\ changes \in Seq(Change) /\ sends \in [Sends -> Send]
  /\ flight \in Sends \union {NoSend} /\ running \in Sends \union {NoSend}
  /\ expired \in BOOLEAN /\ renewal \in {"none", "underway", "hung"}
  /\ onScreen \in BOOLEAN /\ wire \in [Sends -> SUBSET Fixes]
  /\ rows \in [Fixes -> Nat] /\ faults \in 0..MaxFaults
  /\ flight # NoSend => sends[flight].stage # "idle"
  /\ running # NoSend => sends[running].stage # "idle"
  /\ StoredOnce

\* One at a time: of the sends under way, all but one have had their minute, so
\* the same fixes are never posted twice by two sends that are both young,
\* whichever of the timer and the location task started them and in whatever
\* order abandoned ones end (drainLocationQueue).
OneYoungSend ==
  \A s, t \in {u \in Sends : sends[u].stage # "idle" /\ ~sends[u].old} : s = t

Delivery == INSTANCE FixDelivery WITH
  held <- queue,
  stored <- {f \in Fixes : rows[f] > 0},
  torn <- changes # <<>> /\ Head(changes).torn

\* The queue delivers what FixDelivery promises: a fix that has been written to
\* it leaves only for the server, for the cap or as one the server refuses, and
\* one that the server has never comes back to the phone.
Delivered == Delivery!DeliverySpec

\* The guard never becomes a way to stop sending for good: with the app never
\* opened again, a usable fix leaves the queue, whatever hangs, fails or is killed,
\* except while a renewal stays unanswered (ABANDON_SEND_AFTER_MS).
SentUnlessRenewalHangs ==
  \A f \in Fixes \ Bad : f \in queue ~> f \notin queue \/ renewal = "hung"
====
