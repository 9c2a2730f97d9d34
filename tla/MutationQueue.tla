--------------------------- MODULE MutationQueue ---------------------------
(***************************************************************************)
(* The writes a phone holds until the server has answered them:            *)
(* mobile/src/storage/mutation-queue.ts and the two ways of sending of     *)
(* mobile/src/repositories/api/offline-writes.ts.                          *)
(*                                                                         *)
(* The queue is one value in the phone's key-value store.  Changing it is  *)
(* a read, an await and a write, and nothing keeps two changes apart, so   *)
(* each is two actions: ReadQueue, and the write that names the change.    *)
(* Three writes stand for the kinds there are: an area's submission, the   *)
(* Change Evidence that undoes it, and a note on another area.             *)
(*                                                                         *)
(* The server is any server: a request is answered, at any later moment,   *)
(* with anything that it could be answered with, or not at all.            *)
(***************************************************************************)
EXTENDS Naturals

CONSTANTS
    MaxWrites,     \* bound on the writes the technician makes
    MaxAttempts    \* QUEUE_ENTRY_MAX_ATTEMPTS

ASSUME QueueAssumption ==
    /\ MaxWrites \in Nat
    /\ MaxAttempts \in Nat \ {0}

Write == 1..MaxWrites
Actor == 0..MaxWrites   \* a write being made, or the drain
Drain == 0

Target == {"complete", "reopen", "note"}

Entry == [write : Write, attempts : 0..(MaxAttempts - 1)]

VARIABLES
    stored,        \* the queue in the key-value store
    made,          \* how many writes the technician has made
    target,        \* what each of them is about: the id of its entry
    at,            \* queuedAt of each: its place in the queue, 0 if never saved
    saves,         \* the last queuedAt given
    stage,         \* what each actor does next
    hasRead,       \* actors between the read and the write of an operation
    seen,          \* the queue each of those has read
    todo,          \* the entries the drain has still to look at
    sending,       \* the entry the drain is sending
    waitingRoom,   \* the drain's waitingRooms holds the area
    phoneSending,  \* roomRecordingStillUploading
    settled,       \* history: answered, replaced, overtaken or given up
    crossed        \* history: two queue operations overlapped

phoneVars   == <<stored, at, saves, hasRead, seen, todo, sending, waitingRoom>>
pressVars   == <<made, target>>
historyVars == <<settled, crossed>>
queueVars   == <<phoneVars, pressVars, stage, phoneSending, historyVars>>

QueueOp == {"drop", "add", "remove", "tried"}
Stage   == {"idle", "send", "pick", "done"} \cup QueueOp

SavedFirst(w) == target[w] # "note"
SameArea == {"complete", "reopen"}

(* The write an actor is working on. *)
On(a) == IF a = Drain THEN sending ELSE a

Goes(a, s) == stage' = [stage EXCEPT ![a] = s]

-----------------------------------------------------------------------------
QueueInit ==
    /\ stored = {} /\ todo = {} /\ sending = 0 /\ waitingRoom = FALSE
    /\ made = 0
    /\ target = [w \in Write |-> "note"]
    /\ at = [w \in Write |-> 0] /\ saves = 0
    /\ stage = [a \in Actor |-> "idle"]
    /\ hasRead = {} /\ seen = [a \in Actor |-> {}]
    /\ phoneSending \in BOOLEAN
    /\ settled = {} /\ crossed = FALSE

-----------------------------------------------------------------------------
(* The technician makes a write.  A submission or a reopening is saved     *)
(* before it is sent; a note is sent, and saved if that fails.  Change     *)
(* Evidence first undoes a submission that waits for its video.            *)
Press(w, t) ==
    /\ w = made + 1
    /\ made' = w
    /\ target' = [target EXCEPT ![w] = t]
    /\ Goes(w, IF t = "note" THEN "send"
               ELSE IF t = "reopen" /\ phoneSending THEN "drop" ELSE "add")
    /\ UNCHANGED <<phoneVars, phoneSending, historyVars>>

(* readQueue, inside enqueueMutation, removeMutation and recordAttempt *)
ReadQueue(a) ==
    /\ stage[a] \in QueueOp /\ a \notin hasRead
    /\ hasRead' = hasRead \cup {a}
    /\ seen' = [seen EXCEPT ![a] = stored]
    /\ crossed' = (crossed \/ hasRead # {})
    /\ UNCHANGED <<stored, at, saves, todo, sending, waitingRoom, pressVars,
                   stage, phoneSending, settled>>

(* writeQueue: what was read, changed, replaces whatever is stored now. *)
Commit(a, queue) ==
    /\ a \in hasRead
    /\ stored' = queue
    /\ hasRead' = hasRead \ {a}
    /\ seen' = [seen EXCEPT ![a] = {}]

(* The entries of a queue that are about the same thing. *)
About(queue, t) == {e \in queue : target[e.write] = t}

Writes(queue) == {e.write : e \in queue}

(* dropQueuedWrite, of reopenRoom *)
Overtake(w) ==
    /\ stage[w] = "drop"
    /\ Commit(w, seen[w] \ About(seen[w], "complete"))
    /\ settled' = settled \cup Writes(About(seen[w], "complete"))
    /\ Goes(w, "add")
    /\ UNCHANGED <<at, saves, todo, sending, waitingRoom, pressVars, phoneSending, crossed>>

(* Mutant of Save: the earlier entry is kept in front of the new one. *)
SaveBehind(w) ==
    /\ stage[w] = "add"
    /\ Commit(w, seen[w] \cup {[write |-> w, attempts |-> 0]})
    /\ saves' = saves + 1
    /\ at' = [at EXCEPT ![w] = saves + 1]
    /\ Goes(w, IF SavedFirst(w) THEN "send" ELSE "done")
    /\ UNCHANGED <<todo, sending, waitingRoom, pressVars, phoneSending,
                   historyVars>>

(* enqueueMutation.  A note is saved because its send failed, and is held;  *)
(* any other write is now sent.                                            *)
Save(w) ==
    /\ stage[w] = "add"
    /\ Commit(w, (seen[w] \ About(seen[w], target[w]))
                    \cup {[write |-> w, attempts |-> 0]})
    /\ saves' = saves + 1
    /\ at' = [at EXCEPT ![w] = saves + 1]
    /\ settled' = settled \cup Writes(About(seen[w], target[w]))
    /\ Goes(w, IF SavedFirst(w) THEN "send" ELSE "done")
    /\ UNCHANGED <<todo, sending, waitingRoom, pressVars, phoneSending, crossed>>

(* Mutant of Remove: the id alone, as before queuedAt was asked for. *)
RemoveByTarget(a) ==
    /\ stage[a] = "remove"
    /\ Commit(a, seen[a] \ About(seen[a], target[On(a)]))
    /\ Goes(a, IF a = Drain THEN "pick" ELSE "done")
    /\ UNCHANGED <<at, saves, todo, sending, waitingRoom, pressVars, phoneSending,
                   historyVars>>

(* removeMutation(id, queuedAt): this copy of the entry and no other. *)
Remove(a) ==
    /\ stage[a] = "remove"
    /\ Commit(a, {e \in seen[a] : e.write # On(a)})
    /\ Goes(a, IF a = Drain THEN "pick" ELSE "done")
    /\ UNCHANGED <<at, saves, todo, sending, waitingRoom, pressVars, phoneSending,
                   historyVars>>

(* Mutant of CountAttempt: no ceiling. *)
CountForever ==
    LET tried == About(seen[Drain], target[sending]) IN
    /\ stage[Drain] = "tried"
    /\ Commit(Drain, (seen[Drain] \ tried)
                        \cup {[e EXCEPT !.attempts = @ + 1] : e \in tried})
    /\ Goes(Drain, "idle")
    /\ UNCHANGED <<at, saves, todo, sending, waitingRoom, pressVars, phoneSending,
                   historyVars>>

(* recordAttempt(id): whichever copy is in the queue, and the drain stops. *)
CountAttempt ==
    LET tried == About(seen[Drain], target[sending])
        spent == {e \in tried : e.attempts + 1 >= MaxAttempts} IN
    /\ stage[Drain] = "tried"
    /\ Commit(Drain, (seen[Drain] \ tried)
                        \cup {[e EXCEPT !.attempts = @ + 1] : e \in tried \ spent})
    /\ settled' = settled \cup Writes(spent)
    /\ Goes(Drain, "idle")
    /\ UNCHANGED <<at, saves, todo, sending, waitingRoom, pressVars, phoneSending, crossed>>

-----------------------------------------------------------------------------
(* The drain: one at a time, over the queue as it was when it started. *)

StartDrain ==
    /\ stage[Drain] = "idle"
    /\ todo' = stored /\ waitingRoom' = FALSE
    /\ Goes(Drain, "pick")
    /\ UNCHANGED <<stored, at, saves, hasRead, seen, sending, pressVars,
                   phoneSending, historyVars>>

Oldest(entry, queue) == \A e \in queue : at[entry.write] <= at[e.write]

NeverWaits(w) == FALSE  \* mutant: no waitingRooms
MustWait(w) == waitingRoom /\ target[w] \in SameArea

Pick(entry) ==
    /\ stage[Drain] = "pick"
    /\ entry \in todo /\ Oldest(entry, todo)
    /\ todo' = todo \ {entry}
    /\ \/ /\ MustWait(entry.write)
          /\ UNCHANGED <<sending, stage>>
       \/ /\ ~MustWait(entry.write)
          /\ sending' = entry.write
          /\ Goes(Drain, "send")
    /\ UNCHANGED <<stored, at, saves, hasRead, seen, waitingRoom, pressVars,
                   phoneSending, historyVars>>

DrainEnds ==
    /\ stage[Drain] = "pick" /\ todo = {}
    /\ Goes(Drain, "idle")
    /\ UNCHANGED <<phoneVars, pressVars, phoneSending, historyVars>>

-----------------------------------------------------------------------------
(* What can become of a request: the server takes it, refuses it for good, *)
(* refuses an area's submission while its video is still on its way,       *)
(* answers 500, or is not reached.                                         *)
Answers(w) == {"accepted", "refused", "fault", "unreached"}
                 \cup (IF target[w] = "complete" /\ phoneSending THEN {"early"} ELSE {})

(* classifyWriteFailure: a fault is shown to the technician, not held.     *)
Held      == {"early", "unreached"}
(* isWorthReplaying: the drain has nobody to show a fault to.              *)
Retryable == {"fault", "unreached"}

(* sendSavedFirst and queueOnConnectionFailure *)
WriteAnswered(w, answer) ==
    /\ stage[w] = "send" /\ answer \in Answers(w)
    /\ \/ /\ answer \in Held
          /\ Goes(w, IF SavedFirst(w) THEN "done" ELSE "add")
          /\ UNCHANGED settled
       \/ /\ answer \notin Held
          /\ Goes(w, IF SavedFirst(w) THEN "remove" ELSE "done")
          /\ settled' = settled \cup {w}
    /\ UNCHANGED <<phoneVars, pressVars, phoneSending, crossed>>

(* drainQueue, round the send of drainOfflineWrites *)
DrainAnswered(answer) ==
    /\ stage[Drain] = "send" /\ answer \in Answers(sending)
    /\ \/ /\ answer = "early"
          /\ waitingRoom' = TRUE
          /\ Goes(Drain, "pick")
          /\ UNCHANGED settled
       \/ /\ answer \in Retryable
          /\ Goes(Drain, "tried")
          /\ UNCHANGED <<waitingRoom, settled>>
       \/ /\ answer \in {"accepted", "refused"}
          /\ Goes(Drain, "remove")
          /\ settled' = settled \cup {sending}
          /\ UNCHANGED waitingRoom
    /\ UNCHANGED <<stored, at, saves, hasRead, seen, todo, sending, pressVars,
                   phoneSending, crossed>>

-----------------------------------------------------------------------------
(* The app is closed.  What was under way is gone; the queue is not.       *)
Kill ==
    /\ stage' = [a \in Actor |-> IF a \in 1..made THEN "done" ELSE "idle"]
    /\ hasRead' = {} /\ seen' = [a \in Actor |-> {}]
    /\ todo' = {} /\ sending' = 0 /\ waitingRoom' = FALSE
    /\ UNCHANGED <<stored, at, saves, pressVars, phoneSending, historyVars>>

(* The area's video has arrived, or its upload has failed.                 *)
UploadEnds ==
    /\ phoneSending
    /\ phoneSending' = FALSE
    /\ UNCHANGED <<phoneVars, pressVars, stage, historyVars>>

-----------------------------------------------------------------------------
QueueNext ==
    \/ \E w \in Write :
          \/ \E t \in Target : Press(w, t)
          \/ Overtake(w)
          \/ Save(w)
          \/ \E answer \in Answers(w) : WriteAnswered(w, answer)
    \/ \E a \in Actor :
          \/ ReadQueue(a)
          \/ Remove(a)
    \/ sending \in Write /\ \E answer \in Answers(sending) : DrainAnswered(answer)
    \/ StartDrain \/ (\E entry \in todo : Pick(entry)) \/ CountAttempt \/ DrainEnds
    \/ Kill \/ UploadEnds

QueueSpec == QueueInit /\ [][QueueNext]_queueVars

-----------------------------------------------------------------------------
QueueTypeOK ==
    /\ stored \subseteq Entry
    /\ made \in 0..MaxWrites
    /\ target \in [Write -> Target]
    /\ at \in [Write -> Nat] /\ saves \in Nat
    /\ stage \in [Actor -> Stage]
    /\ hasRead \subseteq Actor
    /\ seen \in [Actor -> SUBSET Entry]
    /\ todo \subseteq Entry
    /\ sending \in 0..MaxWrites
    /\ waitingRoom \in BOOLEAN /\ phoneSending \in BOOLEAN /\ crossed \in BOOLEAN
    /\ settled \subseteq Write

(* However the queue's operations interleave, it never holds two writes    *)
(* about the same thing: "Adds a write, replacing an earlier one for the   *)
(* same target" (mutation-queue.ts:72).                                    *)
OneEntryPerTarget ==
    \A e, f \in stored : target[e.write] = target[f.write] => e = f

(* "An entry is sent or it stays" (mutation-queue.ts:18): a write that was *)
(* saved is in the queue until it is answered, replaced, undone or given   *)
(* up.                                                                     *)
SentOrStays ==
    \A w \in Write : at[w] # 0 => w \in settled \/ w \in Writes(stored)

(* ...which one operation at a time does keep: the reply to an older copy  *)
(* never takes the newer copy with it (mutation-queue.ts:94-97).           *)
SentOrStaysUncrossed == crossed \/ SentOrStays

(* The drain never sends a Change Evidence while the submission it undoes  *)
(* waits ahead of it: that "would leave the area submitted"                *)
(* (offline-writes.ts:504-507).                                            *)
DrainKeepsAreaOrder ==
    [][stage[Drain] = "pick" /\ stage'[Drain] = "send" /\ ~crossed
          => \A e \in About(stored, "complete") :
                target[sending'] = "reopen" => ~(at[e.write] < at[sending'])]_queueVars
=============================================================================
