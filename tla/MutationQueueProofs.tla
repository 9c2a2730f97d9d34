------------------------ MODULE MutationQueueProofs ------------------------
(***************************************************************************)
(* What MutationQueue keeps for any number of writes and any ceiling on    *)
(* attempts, proved with TLAPS.                                            *)
(***************************************************************************)
EXTENDS MutationQueue, TLAPS

Made == 1..made

(* Writes are numbered as they are made: nothing is about to happen to, or *)
(* held in the queue or a copy of it about, a write not made yet.          *)
OnlyMade ==
    /\ \A w \in Write : stage[w] # "idle" => w \in Made
    /\ Writes(stored) \subseteq Made
    /\ Writes(todo) \subseteq Made
    /\ \A a \in Actor : Writes(seen[a]) \subseteq Made

(* The drain counts attempts and nobody else does; it has an entry in hand *)
(* whenever it needs one.                                                  *)
DrainStages ==
    /\ stage[Drain] \in {"idle", "pick", "send", "remove", "tried"}
    /\ \A w \in Write : stage[w] \notin {"tried", "pick"}
    /\ stage[Drain] \in {"send", "remove", "tried"} => sending \in Write

QueueInv == QueueTypeOK /\ OnlyMade /\ DrainStages

(* The actors are the writes and, apart from them, the drain. *)
LEMMA Actors == /\ Drain \in Actor /\ Drain \notin Write /\ Write \subseteq Actor
                /\ \A a \in Actor : a = Drain \/ a \in Write
  BY QueueAssumption DEF Actor, Write, Drain

(* A write not made yet has no number among those made, before or after it *)
(* is made, and those made are writes.                                     *)
LEMMA MadeGrows ==
    ASSUME made \in 0..MaxWrites
    PROVE  /\ Made \subseteq Write
           /\ \A w \in Write, t \in Target :
                 Press(w, t) => /\ w \notin Made
                                /\ Made' = Made \cup {w}
                                /\ made' \in 0..MaxWrites
  BY QueueAssumption DEF Made, Write, Press

(* Type correctness, with what it needs to be inductive. *)
LEMMA QueueInvariant == QueueSpec => []QueueInv
<1>1. QueueInit => QueueInv
  <2> SUFFICES ASSUME QueueInit PROVE QueueInv
    OBVIOUS
  <2>1. seen \in [Actor -> SUBSET Entry] /\ stage \in [Actor -> Stage]
    BY DEF QueueInit, Stage
  <2>2. target \in [Write -> Target] /\ at \in [Write -> Nat]
    BY DEF QueueInit, Target
  <2>3. waitingRoom \in BOOLEAN /\ phoneSending \in BOOLEAN /\ crossed \in BOOLEAN
    BY DEF QueueInit
  <2>4. /\ stored = {} /\ todo = {} /\ hasRead = {} /\ settled = {}
        /\ made \in 0..MaxWrites /\ sending \in 0..MaxWrites /\ saves \in Nat
    BY QueueAssumption DEF QueueInit
  <2>5. QueueTypeOK
    BY <2>1, <2>2, <2>3, <2>4 DEF QueueTypeOK
  <2>6. OnlyMade /\ DrainStages
    BY Actors DEF QueueInit, OnlyMade, DrainStages, Writes
  <2> QED
    BY <2>5, <2>6 DEF QueueInv
<1>2. QueueInv /\ [QueueNext]_queueVars => QueueInv'
  <2> USE QueueAssumption, Actors, MadeGrows DEF QueueInv
  <2> SUFFICES ASSUME QueueInv, [QueueNext]_queueVars PROVE QueueInv'
    OBVIOUS
  <2>1. ASSUME NEW w \in Write, NEW t \in Target, Press(w, t) PROVE QueueInv'
    <3>1. QueueTypeOK'
      BY <2>1 DEF Press, Goes, phoneVars, historyVars, QueueTypeOK, Stage, QueueOp
    <3>2. OnlyMade'
      BY <2>1 DEF Press, Goes, phoneVars, historyVars, QueueTypeOK, OnlyMade, Writes
    <3>3. DrainStages'
      BY <2>1 DEF Press, Goes, phoneVars, historyVars, QueueTypeOK, DrainStages
    <3> QED
      BY <3>1, <3>2, <3>3
  <2>2. ASSUME NEW a \in Actor, ReadQueue(a) PROVE QueueInv'
    BY <2>2 DEF ReadQueue, pressVars, QueueTypeOK, OnlyMade, DrainStages, Writes, Made
  <2>3. ASSUME NEW w \in Write, Overtake(w) PROVE QueueInv'
    <3>1. QueueTypeOK'
      BY <2>3 DEF Overtake, Commit, About, Goes, pressVars, Entry, QueueTypeOK,
                  Stage, QueueOp, Writes
    <3>2. OnlyMade'
      BY <2>3 DEF Overtake, Commit, About, Goes, pressVars, QueueTypeOK, OnlyMade,
                  Writes, Made
    <3>3. DrainStages'
      BY <2>3 DEF Overtake, Goes, pressVars, QueueTypeOK, DrainStages
    <3> QED
      BY <3>1, <3>2, <3>3
  <2>4. ASSUME NEW w \in Write, Save(w) PROVE QueueInv'
    <3>1. QueueTypeOK'
      BY <2>4 DEF Save, Commit, About, Goes, pressVars, Entry, QueueTypeOK,
                  Stage, QueueOp, Writes
    <3>2. OnlyMade'
      BY <2>4 DEF Save, Commit, About, Goes, pressVars, QueueTypeOK, OnlyMade,
                  Writes, Made
    <3>3. DrainStages'
      BY <2>4 DEF Save, Goes, pressVars, QueueTypeOK, DrainStages
    <3> QED
      BY <3>1, <3>2, <3>3
  <2>5. ASSUME NEW a \in Actor, Remove(a) PROVE QueueInv'
    <3>1. QueueTypeOK'
      BY <2>5 DEF Remove, Commit, Goes, pressVars, historyVars, QueueTypeOK,
                  Stage, QueueOp
    <3>2. OnlyMade'
      BY <2>5 DEF Remove, Commit, Goes, pressVars, QueueTypeOK, OnlyMade, Writes, Made
    <3>3. DrainStages'
      BY <2>5 DEF Remove, Goes, pressVars, QueueTypeOK, DrainStages
    <3> QED
      BY <3>1, <3>2, <3>3
  <2>6. ASSUME CountAttempt PROVE QueueInv'
    <3> DEFINE tried == About(seen[Drain], target[sending])
               spent == {e \in tried : e.attempts + 1 >= MaxAttempts}
               kept  == {[e EXCEPT !.attempts = @ + 1] : e \in tried \ spent}
    <3>1. kept \subseteq Entry
      BY DEF QueueTypeOK, About, Entry
    <3>2. Writes(kept) \subseteq Made /\ Writes(spent) \subseteq Write
      BY DEF QueueTypeOK, OnlyMade, About, Entry, Writes
    <3>3. QueueTypeOK'
      BY <2>6, <3>1, <3>2 DEF CountAttempt, Commit, Goes, pressVars, QueueTypeOK,
                  Stage, QueueOp
    <3>4. OnlyMade'
      BY <2>6, <3>2 DEF CountAttempt, Commit, Goes, pressVars, QueueTypeOK, OnlyMade,
                  Writes, Made
    <3>5. DrainStages'
      BY <2>6 DEF CountAttempt, Goes, pressVars, QueueTypeOK, DrainStages
    <3> QED
      BY <3>3, <3>4, <3>5
  <2>7. ASSUME StartDrain PROVE QueueInv'
    BY <2>7 DEF StartDrain, Goes, pressVars, historyVars, QueueTypeOK, OnlyMade,
                DrainStages, Stage, QueueOp, Writes, Made
  <2>8. ASSUME NEW entry \in todo, Pick(entry) PROVE QueueInv'
    <3>1. entry.write \in Write /\ entry.write \in 0..MaxWrites
      BY DEF QueueTypeOK, Entry, Write
    <3> QED
      BY <2>8, <3>1 DEF Pick, Goes, pressVars, historyVars, QueueTypeOK, OnlyMade,
                DrainStages, Stage, QueueOp, Writes, Made
  <2>9. ASSUME DrainEnds PROVE QueueInv'
    BY <2>9 DEF DrainEnds, Goes, phoneVars, pressVars, historyVars, QueueTypeOK,
                OnlyMade, DrainStages, Stage, QueueOp, Writes, Made
  <2>10. ASSUME NEW w \in Write, NEW answer \in Answers(w), WriteAnswered(w, answer)
         PROVE QueueInv'
    BY <2>10 DEF WriteAnswered, Goes, phoneVars, pressVars, QueueTypeOK,
                OnlyMade, DrainStages, Stage, QueueOp, Writes, Made
  <2>11. ASSUME sending \in Write, NEW answer \in Answers(sending), DrainAnswered(answer)
         PROVE QueueInv'
    BY <2>11 DEF DrainAnswered, Goes, pressVars, QueueTypeOK, OnlyMade,
                DrainStages, Stage, QueueOp, Writes, Made
  <2>12. ASSUME Kill PROVE QueueInv'
    <3>1. QueueTypeOK'
      <4>1. (seen \in [Actor -> SUBSET Entry] /\ stage \in [Actor -> Stage])'
        BY <2>12 DEF Kill, Stage
      <4> QED
        BY <2>12, <4>1, 0 \in 0..MaxWrites DEF Kill, pressVars, historyVars, QueueTypeOK
    <3>2. OnlyMade'
      BY <2>12 DEF Kill, pressVars, OnlyMade, Made, Writes
    <3>3. DrainStages'
      <4>1. Drain \notin 1..made
        BY DEF Drain, QueueTypeOK
      <4> QED
        BY <2>12, <4>1 DEF Kill, DrainStages
    <3> QED
      BY <3>1, <3>2, <3>3
  <2>13. ASSUME UploadEnds PROVE QueueInv'
    BY <2>13 DEF UploadEnds, phoneVars, pressVars, historyVars, QueueTypeOK, OnlyMade,
                DrainStages, Writes, Made
  <2>14. CASE UNCHANGED queueVars
    BY <2>14 DEF queueVars, phoneVars, pressVars, historyVars, QueueTypeOK, OnlyMade,
                DrainStages, Writes, Made
  <2> QED
    BY <2>1, <2>2, <2>3, <2>4, <2>5, <2>6, <2>7, <2>8, <2>9, <2>10, <2>11, <2>12,
       <2>13, <2>14, ZenonT(60) DEF QueueNext
<1> QED
  BY <1>1, <1>2, PTL DEF QueueSpec

(* The model's variables have their types. *)
THEOREM QueueTypeCorrect == QueueSpec => []QueueTypeOK
<1> QED
  BY QueueInvariant, PTL DEF QueueInv

-----------------------------------------------------------------------------
(* One entry per target: true of the queue and of every copy of it that an *)
(* operation has read, so no interleaving of the operations can break it.  *)

Unique(queue) ==
    \A e, f \in queue : target[e.write] = target[f.write] => e = f

Uniqueness == Unique(stored) /\ \A a \in Actor : Unique(seen[a])

(* An operation that writes back a queue that is unique keeps Uniqueness.  *)
LEMMA CommitUnique ==
    ASSUME QueueTypeOK, Uniqueness, NEW a \in Actor, NEW queue, Commit(a, queue),
           UNCHANGED target, Unique(queue)
    PROVE  Uniqueness'
  BY DEF Uniqueness, Unique, Commit, QueueTypeOK

(* However the operations on the queue interleave, it never holds two      *)
(* writes about the same thing (mutation-queue.ts:71-88).                  *)
THEOREM OneEntryPerTargetHolds == QueueSpec => []OneEntryPerTarget
<1>1. QueueInit => Uniqueness
  BY DEF QueueInit, Uniqueness, Unique
<1>2. QueueInv /\ Uniqueness /\ [QueueNext]_queueVars => Uniqueness'
  <2> USE Actors, MadeGrows DEF QueueInv
  <2> SUFFICES ASSUME QueueInv, Uniqueness, [QueueNext]_queueVars PROVE Uniqueness'
    OBVIOUS
  <2>0. ASSUME UNCHANGED <<stored, seen, target>> PROVE Uniqueness'
    BY <2>0 DEF Uniqueness, Unique
  <2>1. ASSUME NEW w \in Write, NEW t \in Target, Press(w, t) PROVE Uniqueness'
    <3>0. \A v \in Made : target'[v] = target[v]
      <4>1. w \notin Made /\ Made \subseteq Write
        BY <2>1 DEF QueueTypeOK
      <4> QED
        BY <2>1, <4>1 DEF Press, QueueTypeOK
    <3>1. \A e \in stored : target'[e.write] = target[e.write]
      BY <3>0 DEF OnlyMade, Writes
    <3>2. \A a \in Actor : \A e \in seen[a] : target'[e.write] = target[e.write]
      BY <3>0 DEF OnlyMade, Writes
    <3> QED
      BY <2>1, <3>1, <3>2 DEF Press, phoneVars, Uniqueness, Unique
  <2>2. ASSUME NEW a \in Actor, ReadQueue(a) PROVE Uniqueness'
    BY <2>2 DEF ReadQueue, pressVars, Uniqueness, Unique, QueueTypeOK
  <2>3. ASSUME NEW w \in Write, Overtake(w) PROVE Uniqueness'
    BY <2>3, CommitUnique DEF Overtake, pressVars, About, Uniqueness, Unique
  <2>4. ASSUME NEW w \in Write, Save(w) PROVE Uniqueness'
    <3>1. Unique((seen[w] \ About(seen[w], target[w]))
                    \cup {[write |-> w, attempts |-> 0]})
      BY DEF About, Uniqueness, Unique
    <3> QED
      BY <2>4, <3>1, CommitUnique DEF Save, pressVars
  <2>5. ASSUME NEW a \in Actor, Remove(a) PROVE Uniqueness'
    BY <2>5, CommitUnique DEF Remove, pressVars, Uniqueness, Unique
  <2>6. ASSUME CountAttempt PROVE Uniqueness'
    <3> DEFINE tried == About(seen[Drain], target[sending])
               spent == {e \in tried : e.attempts + 1 >= MaxAttempts}
               kept  == {[e EXCEPT !.attempts = @ + 1] : e \in tried \ spent}
    <3>1. \A e \in tried : tried = {e} /\ target[e.write] = target[sending]
      BY DEF About, Uniqueness, Unique
    <3>2. ASSUME NEW k \in kept PROVE kept = {k} /\ target[k.write] = target[sending]
      <4>0. PICK e \in tried \ spent : k = [e EXCEPT !.attempts = @ + 1]
        OBVIOUS
      <4>1. tried \ spent = {e}
        BY <3>1
      <4>2. k.write = e.write
        BY <4>0 DEF QueueTypeOK, About, Entry
      <4> QED
        BY <3>1, <4>0, <4>1, <4>2
    <3>3. Unique((seen[Drain] \ tried) \cup kept)
      BY <3>2 DEF About, Uniqueness, Unique
    <3> QED
      BY <2>6, <3>3, CommitUnique DEF CountAttempt, pressVars
  <2>7. ASSUME StartDrain PROVE Uniqueness'
    BY <2>7, <2>0 DEF StartDrain, pressVars
  <2>8. ASSUME NEW entry \in todo, Pick(entry) PROVE Uniqueness'
    BY <2>8, <2>0 DEF Pick, pressVars
  <2>9. ASSUME DrainEnds PROVE Uniqueness'
    BY <2>9, <2>0 DEF DrainEnds, phoneVars, pressVars
  <2>10. ASSUME NEW w \in Write, NEW answer \in Answers(w), WriteAnswered(w, answer)
         PROVE Uniqueness'
    BY <2>10, <2>0 DEF WriteAnswered, phoneVars, pressVars
  <2>11. ASSUME sending \in Write, NEW answer \in Answers(sending), DrainAnswered(answer)
         PROVE Uniqueness'
    BY <2>11, <2>0 DEF DrainAnswered, pressVars
  <2>12. ASSUME Kill PROVE Uniqueness'
    BY <2>12 DEF Kill, pressVars, Uniqueness, Unique
  <2>13. ASSUME UploadEnds PROVE Uniqueness'
    BY <2>13, <2>0 DEF UploadEnds, phoneVars, pressVars
  <2>14. CASE UNCHANGED queueVars
    BY <2>14, <2>0 DEF queueVars, phoneVars, pressVars
  <2> QED
    BY <2>1, <2>2, <2>3, <2>4, <2>5, <2>6, <2>7, <2>8, <2>9, <2>10, <2>11, <2>12,
       <2>13, <2>14, ZenonT(60) DEF QueueNext
<1>3. Uniqueness => OneEntryPerTarget
  BY DEF Uniqueness, Unique, OneEntryPerTarget
<1> QED
  BY <1>1, <1>2, <1>3, QueueInvariant, PTL DEF QueueSpec

-----------------------------------------------------------------------------
(* Nothing saved is lost while the queue's operations do not overlap.      *)

(* As long as they have not, what an operation has read is what is stored. *)
Serial ==
    ~crossed => \A a \in hasRead : hasRead = {a} /\ seen[a] = stored

(* An entry is only removed for an answer. *)
RemovedWhenAnswered ==
    /\ \A w \in Write : stage[w] = "remove" => w \in settled
    /\ stage[Drain] = "remove" => sending \in settled

KeptInv == Serial /\ RemovedWhenAnswered /\ SentOrStaysUncrossed

(* Writing back a queue that has everything but what is now settled.       *)
LEMMA CommitKeeps ==
    ASSUME QueueTypeOK, Serial, SentOrStaysUncrossed,
           NEW a \in Actor, NEW queue, Commit(a, queue),
           UNCHANGED crossed, settled \subseteq settled',
           \A w \in Writes(seen[a]) : w \in settled' \/ w \in Writes(queue),
           \A w \in Write : at'[w] # 0 => at[w] # 0 \/ w \in Writes(queue)
    PROVE  Serial' /\ SentOrStaysUncrossed'
<1>1. Serial'
  BY DEF Serial, Commit
<1>2. CASE crossed
  BY <1>1, <1>2 DEF SentOrStaysUncrossed
<1>3. CASE ~crossed
  <2>1. seen[a] = stored
    BY <1>3 DEF Serial, Commit
  <2>2. \A w \in Write : at'[w] # 0 => w \in settled' \/ w \in Writes(queue)
    BY <1>3, <2>1 DEF SentOrStaysUncrossed, SentOrStays
  <2>3. Writes(stored)' = Writes(queue)
    BY DEF Commit, Writes
  <2> QED
    BY <1>1, <2>2, <2>3 DEF SentOrStaysUncrossed, SentOrStays
<1> QED
  BY <1>1, <1>2, <1>3

(* A saved write is answered, replaced or in the queue, as an invariant of *)
(* every step.                                                             *)
LEMMA KeptInvariant == QueueSpec => []KeptInv
<1>1. QueueInit => KeptInv
  BY Actors DEF QueueInit, KeptInv, Serial, RemovedWhenAnswered,
                SentOrStaysUncrossed, SentOrStays
<1>2. QueueInv /\ KeptInv /\ [QueueNext]_queueVars => KeptInv'
  <2> USE Actors DEF QueueInv, KeptInv
  <2> SUFFICES ASSUME QueueInv, KeptInv, [QueueNext]_queueVars PROVE KeptInv'
    OBVIOUS
  <2>0. ASSUME UNCHANGED <<stored, seen, hasRead, at, crossed>>, settled \subseteq settled'
        PROVE  Serial' /\ SentOrStaysUncrossed'
    BY <2>0 DEF Serial, SentOrStaysUncrossed, SentOrStays, Writes
  <2>1. ASSUME NEW w \in Write, NEW t \in Target, Press(w, t) PROVE KeptInv'
    BY <2>1, <2>0 DEF Press, Goes, phoneVars, historyVars, RemovedWhenAnswered,
                      QueueTypeOK
  <2>2. ASSUME NEW a \in Actor, ReadQueue(a) PROVE KeptInv'
    <3>1. Serial'
      BY <2>2 DEF ReadQueue, Serial, QueueTypeOK
    <3>2. SentOrStaysUncrossed'
      BY <2>2 DEF ReadQueue, SentOrStaysUncrossed, SentOrStays, Writes
    <3>3. RemovedWhenAnswered'
      BY <2>2 DEF ReadQueue, RemovedWhenAnswered
    <3> QED
      BY <3>1, <3>2, <3>3
  <2>3. ASSUME NEW w \in Write, Overtake(w) PROVE KeptInv'
    <3>1. Serial' /\ SentOrStaysUncrossed'
      BY <2>3, CommitKeeps DEF Overtake, Writes, About
    <3>2. RemovedWhenAnswered'
      BY <2>3 DEF Overtake, Goes, RemovedWhenAnswered, QueueTypeOK
    <3> QED
      BY <3>1, <3>2
  <2>4. ASSUME NEW w \in Write, Save(w) PROVE KeptInv'
    <3> DEFINE queue == (seen[w] \ About(seen[w], target[w]))
                           \cup {[write |-> w, attempts |-> 0]}
    <3>1. w \in Writes(queue)
      <4>1. [write |-> w, attempts |-> 0].write = w
        OBVIOUS
      <4> QED
        BY <4>1, Zenon DEF Writes
    <3>2. \A v \in Writes(seen[w]) : v \in settled' \/ v \in Writes(queue)
      BY <2>4 DEF Save, Writes, About
    <3>3. \A v \in Write : at'[v] # 0 => at[v] # 0 \/ v \in Writes(queue)
      BY <2>4, <3>1 DEF Save, QueueTypeOK
    <3>4. Serial' /\ SentOrStaysUncrossed'
      BY <2>4, <3>2, <3>3, CommitKeeps DEF Save
    <3>5. RemovedWhenAnswered'
      BY <2>4 DEF Save, Goes, RemovedWhenAnswered, QueueTypeOK
    <3> QED
      BY <3>4, <3>5
  <2>5. ASSUME NEW a \in Actor, Remove(a) PROVE KeptInv'
    <3>1. On(a) \in settled
      BY <2>5 DEF Remove, On, RemovedWhenAnswered
    <3>2. Serial' /\ SentOrStaysUncrossed'
      BY <2>5, <3>1, CommitKeeps DEF Remove, Writes, historyVars
    <3>3. RemovedWhenAnswered'
      BY <2>5 DEF Remove, Goes, RemovedWhenAnswered, QueueTypeOK, historyVars
    <3> QED
      BY <3>2, <3>3
  <2>6. ASSUME CountAttempt PROVE KeptInv'
    <3> DEFINE tried == About(seen[Drain], target[sending])
               spent == {e \in tried : e.attempts + 1 >= MaxAttempts}
               kept  == {[e EXCEPT !.attempts = @ + 1] : e \in tried \ spent}
               queue == (seen[Drain] \ tried) \cup kept
    <3>1. \A e \in tried \ spent : e.write \in Writes(kept)
      <4> SUFFICES ASSUME NEW e \in tried \ spent PROVE e.write \in Writes(kept)
        OBVIOUS
      <4>1. [e EXCEPT !.attempts = @ + 1].write = e.write
        BY DEF QueueTypeOK, About, Entry
      <4> QED
        BY <4>1 DEF Writes
    <3>2. \A w \in Writes(seen[Drain]) : w \in settled' \/ w \in Writes(queue)
      BY <2>6, <3>1 DEF CountAttempt, Writes
    <3>3. Serial' /\ SentOrStaysUncrossed'
      BY <2>6, <3>2, CommitKeeps DEF CountAttempt
    <3>4. RemovedWhenAnswered'
      BY <2>6 DEF CountAttempt, Goes, RemovedWhenAnswered, QueueTypeOK
    <3> QED
      BY <3>3, <3>4
  <2>7. ASSUME StartDrain PROVE KeptInv'
    BY <2>7, <2>0 DEF StartDrain, Goes, historyVars, RemovedWhenAnswered, QueueTypeOK
  <2>8. ASSUME NEW entry \in todo, Pick(entry) PROVE KeptInv'
    BY <2>8, <2>0 DEF Pick, Goes, historyVars, RemovedWhenAnswered, QueueTypeOK
  <2>9. ASSUME DrainEnds PROVE KeptInv'
    BY <2>9, <2>0 DEF DrainEnds, Goes, phoneVars, historyVars, RemovedWhenAnswered,
                      QueueTypeOK
  <2>10. ASSUME NEW w \in Write, NEW answer \in Answers(w), WriteAnswered(w, answer)
         PROVE KeptInv'
    BY <2>10, <2>0 DEF WriteAnswered, Goes, phoneVars, RemovedWhenAnswered, QueueTypeOK
  <2>11. ASSUME sending \in Write, NEW answer \in Answers(sending), DrainAnswered(answer)
         PROVE KeptInv'
    BY <2>11, <2>0 DEF DrainAnswered, Goes, RemovedWhenAnswered, QueueTypeOK
  <2>12. ASSUME Kill PROVE KeptInv'
    BY <2>12 DEF Kill, historyVars, Serial, RemovedWhenAnswered,
                 SentOrStaysUncrossed, SentOrStays, Writes
  <2>13. ASSUME UploadEnds PROVE KeptInv'
    BY <2>13, <2>0 DEF UploadEnds, phoneVars, historyVars, RemovedWhenAnswered
  <2>14. CASE UNCHANGED queueVars
    BY <2>14, <2>0 DEF queueVars, phoneVars, historyVars, RemovedWhenAnswered
  <2> QED
    BY <2>1, <2>2, <2>3, <2>4, <2>5, <2>6, <2>7, <2>8, <2>9, <2>10, <2>11, <2>12,
       <2>13, <2>14, ZenonT(60) DEF QueueNext
<1> QED
  BY <1>1, <1>2, QueueInvariant, PTL DEF QueueSpec

(* "An entry is sent or it stays" (mutation-queue.ts:18) holds as long as  *)
(* no two of the queue's read-modify-writes overlap.                       *)
THEOREM SentOrStaysUncrossedHolds == QueueSpec => []SentOrStaysUncrossed
<1> QED
  BY KeptInvariant, PTL DEF KeptInv

-----------------------------------------------------------------------------
(* The drain's order.                                                      *)

(* A write is saved once, after every write that is in the queue already.  *)
Stamps ==
    /\ \A w \in Write : stage[w] \in {"idle", "drop", "add"} => at[w] = 0
    /\ \A w \in Write : stage[w] = "send" /\ ~SavedFirst(w) => at[w] = 0
    /\ \A e \in stored : at[e.write] # 0
    /\ \A a \in Actor : \A e \in seen[a] : at[e.write] # 0
    /\ \A e \in todo : at[e.write] # 0
    /\ \A w \in Write : at[w] <= saves

(* A submission older than something the drain has still to look at is one *)
(* it has still to look at, has in hand, or knows to be waiting.           *)
Passed(w) ==
    \/ w \in Writes(todo)
    \/ waitingRoom
    \/ stage[Drain] \in {"send", "remove", "tried"} /\ sending = w

DrainOrder ==
    ~crossed /\ stage[Drain] # "idle" =>
        \A c \in About(stored, "complete"), e \in todo :
            at[c.write] < at[e.write] => Passed(c.write)

(* The stamps, as an invariant of every step.                              *)
LEMMA StampsKept == QueueSpec => []Stamps
<1>1. QueueInit => Stamps
  BY Actors DEF QueueInit, Stamps
<1>2. QueueInv /\ QueueInv' /\ Stamps /\ [QueueNext]_queueVars => Stamps'
  <2> USE Actors, MadeGrows DEF QueueInv
  <2> SUFFICES ASSUME QueueInv, QueueInv', Stamps, [QueueNext]_queueVars PROVE Stamps'
    OBVIOUS
  <2>1. ASSUME NEW w \in Write, NEW t \in Target, Press(w, t) PROVE Stamps'
    <3>1. w \notin Made /\ Made \subseteq Write
      BY <2>1 DEF QueueTypeOK
    <3>2. at[w] = 0 /\ stage[w] = "idle"
      BY <3>1 DEF OnlyMade, Stamps
    <3> QED
      BY <2>1, <3>2 DEF Press, Goes, phoneVars, Stamps, QueueTypeOK, SavedFirst
  <2>2. ASSUME NEW a \in Actor, ReadQueue(a) PROVE Stamps'
    BY <2>2 DEF ReadQueue, pressVars, Stamps, QueueTypeOK, SavedFirst
  <2>3. ASSUME NEW w \in Write, Overtake(w) PROVE Stamps'
    BY <2>3 DEF Overtake, Commit, About, Goes, pressVars, Stamps, QueueTypeOK, SavedFirst
  <2>4. ASSUME NEW w \in Write, Save(w) PROVE Stamps'
    <3>1. \A v \in Write : at'[v] = IF v = w THEN saves + 1 ELSE at[v]
      BY <2>4 DEF Save, QueueTypeOK
    <3>2. \A v \in Write : at[v] # 0 => at'[v] # 0
      BY <3>1 DEF QueueTypeOK
    <3>3. /\ \A e \in stored' : at'[e.write] # 0
          /\ \A e \in todo' : at'[e.write] # 0
          /\ \A a \in Actor : \A e \in seen'[a] : at'[e.write] # 0
      <4>1. at'[w] # 0
        BY <3>1 DEF QueueTypeOK
      <4> QED
        BY <2>4, <3>2, <4>1 DEF Save, Commit, About, Stamps, QueueTypeOK, Entry
    <3>4. \A v \in Write : at'[v] <= saves'
      BY <2>4, <3>1 DEF Save, Stamps, QueueTypeOK
    <3>5. \A v \in Write :
             stage'[v] \in {"idle", "drop", "add"} \/ (stage'[v] = "send" /\ ~SavedFirst(v)')
             => at'[v] = 0
      BY <2>4, <3>1 DEF Save, Goes, pressVars, Stamps, QueueTypeOK, SavedFirst
    <3> QED
      BY <3>3, <3>4, <3>5 DEF Stamps
  <2>5. ASSUME NEW a \in Actor, Remove(a) PROVE Stamps'
    BY <2>5 DEF Remove, Commit, Goes, pressVars, Stamps, QueueTypeOK, SavedFirst
  <2>6. ASSUME CountAttempt PROVE Stamps'
    <3> DEFINE tried == About(seen[Drain], target[sending])
               spent == {e \in tried : e.attempts + 1 >= MaxAttempts}
               kept  == {[e EXCEPT !.attempts = @ + 1] : e \in tried \ spent}
    <3>1. \A k \in kept : at[k.write] # 0
      <4> SUFFICES ASSUME NEW e \in tried \ spent
                   PROVE  at[[e EXCEPT !.attempts = @ + 1].write] # 0
        OBVIOUS
      <4>1. [e EXCEPT !.attempts = @ + 1].write = e.write
        BY DEF QueueTypeOK, About, Entry
      <4> QED
        BY <4>1 DEF Stamps, About
    <3> QED
      BY <2>6, <3>1 DEF CountAttempt, Commit, Goes, pressVars, Stamps, QueueTypeOK,
                        SavedFirst
  <2>7. ASSUME StartDrain PROVE Stamps'
    BY <2>7 DEF StartDrain, Goes, pressVars, Stamps, QueueTypeOK, SavedFirst
  <2>8. ASSUME NEW entry \in todo, Pick(entry) PROVE Stamps'
    BY <2>8 DEF Pick, Goes, pressVars, Stamps, QueueTypeOK, SavedFirst
  <2>9. ASSUME DrainEnds PROVE Stamps'
    BY <2>9 DEF DrainEnds, Goes, phoneVars, pressVars, Stamps, QueueTypeOK, SavedFirst
  <2>10. ASSUME NEW w \in Write, NEW answer \in Answers(w), WriteAnswered(w, answer)
         PROVE Stamps'
    BY <2>10 DEF WriteAnswered, Goes, phoneVars, pressVars, Stamps, QueueTypeOK,
                 SavedFirst
  <2>11. ASSUME sending \in Write, NEW answer \in Answers(sending), DrainAnswered(answer)
         PROVE Stamps'
    BY <2>11 DEF DrainAnswered, Goes, pressVars, Stamps, QueueTypeOK, SavedFirst
  <2>12. ASSUME Kill PROVE Stamps'
    <3>1. \A w \in Write : stage'[w] = "done" \/ w \notin Made
      BY <2>12 DEF Kill, Made
    <3>2. \A w \in Write : w \notin Made => at[w] = 0
      BY DEF OnlyMade, Stamps
    <3>3. \A w \in Write : stage'[w] # "done" => stage'[w] = "idle" /\ at'[w] = 0
      BY <2>12, <3>1, <3>2 DEF Kill
    <3> QED
      BY <2>12, <3>3 DEF Kill, pressVars, Stamps
  <2>13. ASSUME UploadEnds PROVE Stamps'
    BY <2>13 DEF UploadEnds, phoneVars, pressVars, Stamps, SavedFirst
  <2>14. CASE UNCHANGED queueVars
    BY <2>14 DEF queueVars, phoneVars, pressVars, Stamps, SavedFirst
  <2> QED
    BY <2>1, <2>2, <2>3, <2>4, <2>5, <2>6, <2>7, <2>8, <2>9, <2>10, <2>11, <2>12,
       <2>13, <2>14, ZenonT(60) DEF QueueNext
<1> QED
  BY <1>1, <1>2, QueueInvariant, PTL DEF QueueSpec

(* The drain never sends a Change Evidence past the submission it undoes   *)
(* (offline-writes.ts:504-507), as long as the queue's operations do not   *)
(* overlap.                                                                *)
THEOREM DrainKeepsAreaOrderHolds == QueueSpec => DrainKeepsAreaOrder
<1> DEFINE InOrder ==
      stage[Drain] = "pick" /\ stage'[Drain] = "send" /\ ~crossed
      => \A e \in About(stored, "complete") :
            target[sending'] = "reopen" => ~(at[e.write] < at[sending'])
<1>1. QueueInit => DrainOrder
  BY DEF QueueInit, DrainOrder
<1>2. QueueInv /\ Stamps /\ Serial /\ DrainOrder /\ [QueueNext]_queueVars => DrainOrder'
  <2> USE Actors, MadeGrows DEF QueueInv
  <2> SUFFICES ASSUME QueueInv, Stamps, Serial, DrainOrder, [QueueNext]_queueVars
               PROVE  DrainOrder'
    OBVIOUS
  <2>0. ASSUME UNCHANGED <<at, todo, sending, waitingRoom, target>>,
               stage[Drain] = stage'[Drain], crossed' => crossed, crossed => crossed',
               ~crossed => stored' \subseteq stored
        PROVE  DrainOrder'
    BY <2>0 DEF DrainOrder, Passed, About, Writes
  <2>1. ASSUME NEW w \in Write, NEW t \in Target, Press(w, t) PROVE DrainOrder'
    <3>1. w \notin Made /\ Made \subseteq Write
      BY <2>1 DEF QueueTypeOK
    <3>2. \A v \in Made : target'[v] = target[v]
      BY <2>1, <3>1 DEF Press, QueueTypeOK
    <3>3. About(stored, "complete")' = About(stored, "complete")
      BY <2>1, <3>2 DEF Press, phoneVars, About, OnlyMade, Writes
    <3>4. stage'[Drain] = stage[Drain]
      BY <2>1 DEF Press, Goes, QueueTypeOK
    <3> QED
      BY <2>1, <3>3, <3>4 DEF Press, phoneVars, historyVars, DrainOrder, Passed, Writes
  <2>2. ASSUME NEW a \in Actor, ReadQueue(a) PROVE DrainOrder'
    BY <2>2 DEF ReadQueue, pressVars, DrainOrder, Passed, About, Writes
  <2>3. ASSUME NEW w \in Write, Overtake(w) PROVE DrainOrder'
    BY <2>3, <2>0 DEF Overtake, Commit, About, Goes, pressVars, Serial, QueueTypeOK
  <2>4. ASSUME NEW w \in Write, Save(w) PROVE DrainOrder'
    <3> SUFFICES ASSUME ~crossed, stage[Drain] # "idle",
                        NEW c \in About(stored, "complete")', NEW e \in todo,
                        at'[c.write] < at'[e.write]
                 PROVE  Passed(c.write)
      <4>1. stage'[Drain] = stage[Drain]
        BY <2>4 DEF Save, Goes, QueueTypeOK
      <4> QED
        BY <2>4, <4>1 DEF Save, DrainOrder, Passed, Writes
    <3>1. \A v \in Write : at'[v] = IF v = w THEN saves + 1 ELSE at[v]
      BY <2>4 DEF Save, QueueTypeOK
    <3>2. e.write \in Write /\ e.write # w /\ at'[e.write] <= saves
      BY <2>4, <3>1 DEF Save, Stamps, QueueTypeOK, Entry
    <3>3. c.write # w /\ c \in About(stored, "complete")
      <4>1. seen[w] = stored
        BY <2>4 DEF Save, Commit, Serial
      <4>2. c = [write |-> w, attempts |-> 0] \/ c \in stored
        BY <2>4, <4>1 DEF Save, Commit, About
      <4>3. c.write # w
        BY <3>1, <3>2 DEF QueueTypeOK
      <4> QED
        BY <2>4, <4>2, <4>3 DEF Save, pressVars, About
    <3>4. at[c.write] < at[e.write]
      BY <3>1, <3>2, <3>3 DEF QueueTypeOK, Entry, About
    <3> QED
      BY <3>3, <3>4 DEF DrainOrder
  <2>5. ASSUME NEW a \in Actor, Remove(a) PROVE DrainOrder'
    <3>1. CASE a # Drain
      BY <2>5, <3>1, <2>0 DEF Remove, Commit, Goes, pressVars, historyVars, Serial,
                              QueueTypeOK
    <3>2. CASE a = Drain
      <4>1. ~crossed => stored' = {e \in stored : e.write # sending}
        BY <2>5, <3>2 DEF Remove, Commit, Serial, On
      <4>2. stage[Drain] = "remove"
        BY <2>5, <3>2 DEF Remove
      <4> QED
        BY <2>5, <4>1, <4>2 DEF Remove, pressVars, historyVars, DrainOrder, Passed,
                                About, Writes
    <3> QED
      BY <3>1, <3>2
  <2>6. ASSUME CountAttempt PROVE DrainOrder'
    BY <2>6 DEF CountAttempt, Goes, DrainOrder, QueueTypeOK
  <2>7. ASSUME StartDrain PROVE DrainOrder'
    BY <2>7 DEF StartDrain, pressVars, DrainOrder, Passed, About, Writes
  <2>8. ASSUME NEW entry \in todo, Pick(entry) PROVE DrainOrder'
    <3> SUFFICES ASSUME ~crossed, NEW c \in About(stored, "complete"), NEW e \in todo',
                        at[c.write] < at[e.write]
                 PROVE  Passed(c.write)'
      BY <2>8 DEF Pick, pressVars, historyVars, DrainOrder, About
    <3>1. Passed(c.write) /\ stage[Drain] = "pick" /\ e \in todo
      BY <2>8 DEF Pick, DrainOrder
    <3>2. CASE waitingRoom
      BY <2>8, <3>2 DEF Pick, Passed
    <3>3. CASE c.write \in Writes(todo') 
      BY <3>3 DEF Passed, Writes
    <3>4. CASE ~waitingRoom /\ c.write \notin Writes(todo')
      <4>1. entry.write = c.write
        BY <2>8, <3>1, <3>4 DEF Pick, Passed, Writes
      <4>2. sending' = c.write /\ stage'[Drain] = "send"
        BY <2>8, <3>4, <4>1 DEF Pick, MustWait, Goes, QueueTypeOK
      <4> QED
        BY <4>2 DEF Passed
    <3> QED
      BY <3>2, <3>3, <3>4
  <2>9. ASSUME DrainEnds PROVE DrainOrder'
    BY <2>9 DEF DrainEnds, Goes, DrainOrder, QueueTypeOK
  <2>10. ASSUME NEW w \in Write, NEW answer \in Answers(w), WriteAnswered(w, answer)
         PROVE DrainOrder'
    BY <2>10, <2>0 DEF WriteAnswered, Goes, phoneVars, pressVars, QueueTypeOK
  <2>11. ASSUME sending \in Write, NEW answer \in Answers(sending), DrainAnswered(answer)
         PROVE DrainOrder'
    <3>1. stage[Drain] = "send"
      BY <2>11 DEF DrainAnswered
    <3>2. waitingRoom' \/ (waitingRoom' = waitingRoom /\ stage'[Drain] \in {"tried", "remove"})
      BY <2>11 DEF DrainAnswered, Goes, QueueTypeOK
    <3> QED
      BY <2>11, <3>1, <3>2 DEF DrainAnswered, pressVars, DrainOrder, Passed, About, Writes
  <2>12. ASSUME Kill PROVE DrainOrder'
    <3>1. Drain \notin 1..made
      BY DEF Drain, QueueTypeOK
    <3> QED
      BY <2>12, <3>1 DEF Kill, DrainOrder
  <2>13. ASSUME UploadEnds PROVE DrainOrder'
    BY <2>13, <2>0 DEF UploadEnds, phoneVars, pressVars, historyVars
  <2>14. CASE UNCHANGED queueVars
    BY <2>14, <2>0 DEF queueVars, phoneVars, pressVars, historyVars
  <2> QED
    BY <2>1, <2>2, <2>3, <2>4, <2>5, <2>6, <2>7, <2>8, <2>9, <2>10, <2>11, <2>12,
       <2>13, <2>14, ZenonT(60) DEF QueueNext
<1>3. QueueInv /\ DrainOrder /\ [QueueNext]_queueVars => [InOrder]_queueVars
  <2> USE Actors DEF QueueInv
  <2> SUFFICES ASSUME QueueInv, DrainOrder, QueueNext,
                      stage[Drain] = "pick", stage'[Drain] = "send", ~crossed,
                      NEW c \in About(stored, "complete"), target[sending'] = "reopen"
               PROVE  ~(at[c.write] < at[sending'])
    OBVIOUS
  <2>1. PICK entry \in todo : Pick(entry)
    <3>1. ASSUME NEW w \in Write, \/ \E t \in Target : Press(w, t)
                                  \/ Overtake(w) \/ Save(w)
                                  \/ \E answer \in Answers(w) : WriteAnswered(w, answer)
          PROVE  stage'[Drain] = stage[Drain]
      BY <3>1 DEF Press, Overtake, Save, WriteAnswered, Goes, QueueTypeOK
    <3>2. ASSUME NEW a \in Actor, ReadQueue(a) \/ Remove(a) PROVE stage'[Drain] # "send"
      BY <3>2 DEF ReadQueue, Remove, Goes, QueueTypeOK
    <3>3. ~StartDrain /\ ~CountAttempt /\ ~(\E answer \in Answers(sending) : DrainAnswered(answer))
      BY DEF StartDrain, CountAttempt, DrainAnswered
    <3>4. ~DrainEnds /\ ~Kill /\ ~UploadEnds
      BY DEF DrainEnds, Kill, UploadEnds, Goes, QueueTypeOK
    <3> QED
      BY <3>1, <3>2, <3>3, <3>4 DEF QueueNext
  <2>2. sending' = entry.write /\ ~waitingRoom
    BY <2>1 DEF Pick, MustWait, SameArea
  <2>3. \A e \in todo : at[entry.write] <= at[e.write]
    BY <2>1 DEF Pick, Oldest
  <2>4. at[c.write] < at[entry.write] => c.write \in Writes(todo)
    BY <2>2 DEF DrainOrder, Passed
  <2>5. at[c.write] \in Nat /\ at[entry.write] \in Nat
    BY DEF QueueTypeOK, About, Entry
  <2> QED
    BY <2>2, <2>3, <2>4, <2>5 DEF Writes
<1> QED
  BY <1>1, <1>2, <1>3, QueueInvariant, StampsKept, KeptInvariant, PTL
     DEF QueueSpec, KeptInv, DrainKeepsAreaOrder
=============================================================================
