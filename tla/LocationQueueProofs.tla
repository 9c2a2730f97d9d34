------------------------ MODULE LocationQueueProofs ------------------------
(***************************************************************************)
(* What LocationQueue keeps for any number of fixes, sends and faults and  *)
(* any size of queue and batch, proved with TLAPS; and that it delivers    *)
(* what FixDelivery promises.                                              *)
(***************************************************************************)
EXTENDS LocationQueue, TLAPS

(* A change that joins the line comes last and moves no other. *)
LEMMA LineGrows ==
    ASSUME changes \in Seq(Change), NEW ids \in SUBSET Fixes,
           NEW kind \in {"append", "doomed", "sent", "defer"},
           NEW s \in Sends \union {NoSend}, ChangeQueue(kind, ids, s)
    PROVE  /\ changes' \in Seq(Change)
           /\ Len(changes') = Len(changes) + 1
           /\ \A i \in 1..Len(changes) : changes'[i] = changes[i]
           /\ changes'[Len(changes) + 1] = Asked(kind, ids, s)
<1>1. Asked(kind, ids, s) \in Change
  BY DEF Asked, Change
<1>2. changes' = Append(changes, Asked(kind, ids, s))
  BY DEF ChangeQueue
<1> HIDE DEF Change, Asked
<1> QED
  BY <1>1, <1>2

(* A change that is done leaves the line, and the others move up. *)
LEMMA LineShrinks ==
    ASSUME changes \in Seq(Change), changes # <<>>, changes' = Tail(changes)
    PROVE  /\ changes' \in Seq(Change)
           /\ Len(changes') = Len(changes) - 1
           /\ \A i \in 1..Len(changes') : changes'[i] = changes[i + 1]
  OBVIOUS

(* A change at the head that has read keeps its place and its purpose. *)
LEMMA LineReads ==
    ASSUME changes \in Seq(Change), changes # <<>>, NEW c \in Change,
           changes' = [changes EXCEPT ![1] = c]
    PROVE  /\ changes' \in Seq(Change)
           /\ Len(changes') = Len(changes)
           /\ changes'[1] = c
           /\ \A i \in 2..Len(changes) : changes'[i] = changes[i]
<1> HIDE DEF Change
<1> QED
  OBVIOUS

(* The head of the line is a change. *)
LEMMA HeadIsChange ==
    ASSUME changes \in Seq(Change), changes # <<>>
    PROVE  /\ Head(changes) = changes[1] /\ Head(changes) \in Change /\ Len(changes) \in Nat \ {0}
<1> HIDE DEF Change
<1> QED
  OBVIOUS

(* What moving a send to another stage leaves alone. *)
LEMMA GotoEffect ==
    ASSUME sends \in [Sends -> Send], NEW s \in Sends, NEW stage \in Stage, Goto(s, stage)
    PROVE  /\ sends' \in [Sends -> Send]
           /\ \A t \in Sends : /\ sends'[t].batch = sends[t].batch
                               /\ sends'[t].old = sends[t].old
                               /\ sends'[t].stage = IF t = s THEN stage ELSE sends[t].stage
<1>1. sends[s] \in Send
  OBVIOUS
<1>2. PICK r \in Send : r = [sends[s] EXCEPT !.stage = stage]
  BY <1>1 DEF Send
<1>3. sends' = [sends EXCEPT ![s] = r]
  BY <1>2 DEF Goto
<1>4. r.batch = sends[s].batch /\ r.old = sends[s].old /\ r.stage = stage
  BY <1>1, <1>2 DEF Send
<1>5. sends' \in [Sends -> Send]
  BY <1>3
<1>6. \A t \in Sends : sends'[t] = IF t = s THEN r ELSE sends[t]
  BY <1>3
<1> QED
  BY <1>4, <1>5, <1>6

(* A send that is over is idle and holds neither the guard nor the timer. *)
LEMMA EndEffect ==
    ASSUME sends \in [Sends -> Send], NEW s \in Sends, End(s)
    PROVE  /\ sends' \in [Sends -> Send]
           /\ \A t \in Sends : sends'[t] = IF t = s THEN Idle ELSE sends[t]
           /\ flight' = IF flight = s THEN NoSend ELSE flight
           /\ running' = IF running = s THEN NoSend ELSE running
<1>1. Idle \in Send
  BY DEF Idle, Send, Stage
<1> QED
  BY <1>1 DEF End

(* The senders: types, and who holds the guard and the timer. *)
SenderOK ==
    /\ sends \in [Sends -> Send]
    /\ flight \in Sends \union {NoSend} /\ running \in Sends \union {NoSend}
    /\ flight # NoSend => sends[flight].stage # "idle"
    /\ running # NoSend => sends[running].stage # "idle"

(* Only the send that holds the guard is still within its minute. *)
YoungInFlight == \A s \in Sends : sends[s].stage # "idle" /\ ~sends[s].old => flight = s

SenderInv == SenderOK /\ YoungInFlight

(* A stage a send moves to is no idleness: it stays under way. *)
LEMMA GotoKeepsSender ==
    ASSUME SenderInv, NEW s \in Sends, NEW stage \in Stage \ {"idle"}, Goto(s, stage),
           sends[s].stage # "idle", UNCHANGED <<flight, running>>
    PROVE  SenderInv'
<1>1. /\ sends' \in [Sends -> Send]
      /\ \A t \in Sends : /\ sends'[t].batch = sends[t].batch
                          /\ sends'[t].old = sends[t].old
                          /\ sends'[t].stage = IF t = s THEN stage ELSE sends[t].stage
  BY GotoEffect DEF SenderInv, SenderOK
<1> HIDE DEF Sends, Send, Stage, Goto
<1> QED
  BY <1>1 DEF SenderInv, SenderOK, YoungInFlight

(* A send that is over leaves the guard to whoever else holds it. *)
LEMMA EndKeepsSender ==
    ASSUME SenderInv, NEW s \in Sends, End(s)
    PROVE  SenderInv'
<1>1. /\ sends' \in [Sends -> Send]
      /\ \A t \in Sends : sends'[t] = IF t = s THEN Idle ELSE sends[t]
      /\ flight' = IF flight = s THEN NoSend ELSE flight
      /\ running' = IF running = s THEN NoSend ELSE running
  BY EndEffect DEF SenderInv, SenderOK
<1>2. Idle.stage = "idle"
  BY DEF Idle
<1> HIDE DEF Send, End, Idle
<1> QED
  BY <1>1, <1>2 DEF SenderInv, SenderOK, YoungInFlight

(* A send starts only when no other is within its minute. *)
LEMMA StartKeepsSender ==
    ASSUME SenderInv, NEW s \in Sends, MaySend, Start(s), running' \in {running, s}
    PROVE  SenderInv'
<1>1. Starting \in Send /\ Starting.stage = "reading"
  BY DEF Starting, Send, Stage
<1>2. /\ sends' \in [Sends -> Send] /\ flight' = s
      /\ \A t \in Sends : sends'[t] = IF t = s THEN Starting ELSE sends[t]
      /\ sends[s].stage = "idle"
  BY <1>1 DEF SenderInv, SenderOK, Start
<1>3. \A t \in Sends : sends[t].stage # "idle" => sends[t].old
  BY DEF SenderInv, SenderOK, YoungInFlight, MaySend, Sends, NoSend
<1> HIDE DEF Send, Starting, Sends, MaySend, Start
<1>4. SenderOK'
  BY <1>1, <1>2 DEF SenderInv, SenderOK
<1>5. YoungInFlight'
  BY <1>2, <1>3 DEF YoungInFlight
<1> QED
  BY <1>4, <1>5 DEF SenderInv

(* After its minute a send is as far as it was. *)
LEMMA MinuteKeepsSender ==
    ASSUME SenderInv, NEW s \in Sends, MinutePasses(s)
    PROVE  SenderInv'
<1>1. PICK r \in Send : r = [sends[s] EXCEPT !.old = TRUE]
  BY DEF SenderInv, SenderOK, Send
<1>2. r.old = TRUE /\ r.stage = sends[s].stage
  BY <1>1 DEF SenderInv, SenderOK, Send
<1>3. sends' = [sends EXCEPT ![s] = r] /\ UNCHANGED <<flight, running>>
  BY <1>1 DEF MinutePasses
<1> HIDE DEF Send, Sends, MinutePasses
<1> QED
  BY <1>2, <1>3 DEF SenderInv, SenderOK, YoungInFlight

(* The sends that awaited a renewal all stay under way. *)
LEMMA RenewedEffect ==
    ASSUME sends \in [Sends -> Send], NEW stage \in Stage, Renewed(stage)
    PROVE  /\ sends' \in [Sends -> Send]
           /\ \A t \in Sends :
                 /\ sends'[t].batch = sends[t].batch /\ sends'[t].old = sends[t].old
                 /\ sends'[t].stage = IF sends[t].stage = "renewing" THEN stage
                                      ELSE sends[t].stage
<1>1. \A t \in Sends : sends[t] \in Send
  OBVIOUS
<1>2. \A t \in Sends : [sends[t] EXCEPT !.stage = stage] \in Send
  BY <1>1 DEF Send
<1>3. \A t \in Sends : sends'[t] = IF sends[t].stage = "renewing"
                                    THEN [sends[t] EXCEPT !.stage = stage] ELSE sends[t]
  BY DEF Renewed, Renewing
<1>4. sends' \in [Sends -> Send]
  BY <1>1, <1>2 DEF Renewed
<1> QED
  BY <1>1, <1>3, <1>4 DEF Send

(* Going on after a renewal is no idleness either. *)
LEMMA RenewedKeepsSender ==
    ASSUME SenderInv, NEW stage \in Stage \ {"idle"}, Renewed(stage),
           UNCHANGED <<flight, running>>
    PROVE  SenderInv'
<1>1. /\ sends' \in [Sends -> Send]
      /\ \A t \in Sends : /\ sends'[t].batch = sends[t].batch /\ sends'[t].old = sends[t].old
                          /\ sends'[t].stage = IF sends[t].stage = "renewing" THEN stage
                                               ELSE sends[t].stage
  BY RenewedEffect DEF SenderInv, SenderOK
<1> HIDE DEF Send, Sends, Renewed, Stage
<1> QED
  BY <1>1 DEF SenderInv, SenderOK, YoungInFlight

(* Whoever awaited a change goes on, or is over. *)
LEMMA ChangeDoneKeepsSender ==
    ASSUME SenderInv, changes \in Seq(Change), changes # <<>>, ChangeDone,
           \A s \in Sends : Head(changes).by = s /\ Head(changes).kind = "doomed"
                            => sends[s].stage # "idle"
    PROVE  SenderInv'
<1>1. Head(changes).by \in Sends \union {NoSend}
  BY HeadIsChange DEF Change
<1>2. CASE Head(changes).by = NoSend
  <2>1. UNCHANGED <<sends, flight, running>>
    BY <1>2 DEF ChangeDone
  <2> QED
    BY <2>1 DEF SenderInv, SenderOK, YoungInFlight
<1>3. CASE Head(changes).by # NoSend /\ Head(changes).kind = "doomed"
  BY <1>1, <1>3, GotoKeepsSender DEF ChangeDone, Stage
<1>4. CASE Head(changes).by # NoSend /\ Head(changes).kind # "doomed"
  BY <1>1, <1>4, EndKeepsSender DEF ChangeDone
<1> QED
  BY <1>2, <1>3, <1>4

(* The stage in which a send awaits a change it asked for. *)
Awaiting(kind) == CASE kind = "doomed" -> "dropping"
                    [] kind = "sent" -> "removing"
                    [] OTHER -> "deferring"

(* A send's change is in the line while the send awaits it, and is its only *)
(* one; the changes behind the head have read nothing.                      *)
LineInv ==
    /\ changes \in Seq(Change)
    /\ \A i \in 1..Len(changes) :
          /\ changes[i].by # NoSend => sends[changes[i].by].stage = Awaiting(changes[i].kind)
          /\ i > 1 => ~changes[i].read
    /\ \A i, j \in 1..Len(changes) : i # j /\ changes[i].by = changes[j].by
                                     => changes[i].by = NoSend

(* A send that awaits nothing may ask for a change and await it. *)
LEMMA AskKeepsLine ==
    ASSUME LineInv, sends \in [Sends -> Send], NEW s \in Sends, NEW ids \in SUBSET Fixes,
           NEW kind \in {"doomed", "sent", "defer"}, ChangeQueue(kind, ids, s),
           sends[s].stage \notin {"dropping", "removing", "deferring"},
           sends'[s].stage = Awaiting(kind),
           \A t \in Sends : t # s => sends'[t].stage = sends[t].stage
    PROVE  LineInv'
<1> DEFINE n == Len(changes)
<1>1. /\ changes' \in Seq(Change) /\ Len(changes') = n + 1
      /\ \A i \in 1..n : changes'[i] = changes[i]
      /\ changes'[n + 1] = Asked(kind, ids, s)
  BY LineGrows DEF LineInv
<1>2. n \in Nat /\ \A i \in 1..n : changes[i] \in Change
  BY DEF LineInv
<1>3. \A i \in 1..n : changes[i].by # s
  BY <1>2 DEF LineInv, Awaiting, Sends, NoSend
<1>4. \A i \in 1..n : changes[i].by \in Sends \union {NoSend}
  BY <1>2 DEF Change
<1>5. Asked(kind, ids, s).by = s /\ Asked(kind, ids, s).kind = kind
      /\ Asked(kind, ids, s).read = FALSE
  BY DEF Asked
<1>6. \A i \in 1..(n + 1) : i \in 1..n \/ i = n + 1
  BY <1>2
<1> HIDE DEF n, Change, Asked, Send, Sends
<1>7. \A i \in 1..(n + 1) :
         /\ changes'[i].by # NoSend => sends'[changes'[i].by].stage = Awaiting(changes'[i].kind)
         /\ i > 1 => ~changes'[i].read
  <2> SUFFICES ASSUME NEW i \in 1..(n + 1)
               PROVE  /\ changes'[i].by # NoSend
                         => sends'[changes'[i].by].stage = Awaiting(changes'[i].kind)
                      /\ i > 1 => ~changes'[i].read
    OBVIOUS
  <2>1. CASE i \in 1..n
    <3>1. changes'[i] = changes[i] /\ changes[i].by # s
      BY <1>1, <1>3, <2>1
    <3>2. changes[i].by # NoSend => sends'[changes[i].by].stage = sends[changes[i].by].stage
      BY <1>4, <2>1, <3>1
    <3> QED
      BY <2>1, <3>1, <3>2 DEF LineInv, n
  <2>2. CASE i = n + 1
    BY <1>1, <1>5, <2>2
  <2> QED
    BY <1>6, <2>1, <2>2
<1>8. \A i, j \in 1..(n + 1) : i # j /\ changes'[i].by = changes'[j].by
                               => changes'[i].by = NoSend
  BY <1>1, <1>3, <1>5, <1>6 DEF LineInv, n
<1> QED
  BY <1>1, <1>7, <1>8 DEF LineInv

(* The head leaves the line: those behind it have read nothing yet. *)
LEMMA DoneKeepsLine ==
    ASSUME LineInv, sends \in [Sends -> Send], changes # <<>>, ChangeDone
    PROVE  LineInv'
<1> DEFINE n == Len(changes)
           s == Head(changes).by
<1>1. /\ changes' \in Seq(Change) /\ Len(changes') = n - 1
      /\ \A i \in 1..Len(changes') : changes'[i] = changes[i + 1]
  BY LineShrinks DEF LineInv, ChangeDone
<1>2. /\ s = changes[1].by /\ s \in Sends \union {NoSend} /\ n \in Nat \ {0}
      /\ \A i \in 1..n : changes[i] \in Change
  <2>1. changes \in Seq(Change)
    BY DEF LineInv
  <2>2. Head(changes) = changes[1] /\ Head(changes) \in Change /\ n \in Nat \ {0}
    BY <2>1, HeadIsChange
  <2>3. s \in Sends \union {NoSend}
    BY <2>2 DEF Change
  <2>4. \A i \in 1..n : changes[i] \in Change
    BY <2>1
  <2> QED
    BY <2>2, <2>3, <2>4
<1>3. \A i \in 1..(n - 1) : i + 1 \in 1..n /\ i + 1 > 1 /\ i + 1 # 1 /\ 1 \in 1..n
  BY <1>2
<1>4. \A i \in 1..(n - 1) : changes[i + 1].by = s => s = NoSend
  BY <1>2, <1>3 DEF LineInv
<1>5. \A t \in Sends : t # s => sends'[t].stage = sends[t].stage
  <2>1. CASE s = NoSend
    BY <2>1 DEF ChangeDone
  <2>2. CASE s # NoSend /\ Head(changes).kind = "doomed"
    <3>1. s \in Sends /\ Goto(s, "rereading") /\ "rereading" \in Stage
      BY <1>2, <2>2 DEF ChangeDone, Stage
    <3> QED
      BY <3>1, GotoEffect
  <2>3. CASE s # NoSend /\ Head(changes).kind # "doomed"
    <3>1. s \in Sends /\ End(s)
      BY <1>2, <2>3 DEF ChangeDone
    <3> QED
      BY <3>1, EndEffect
  <2> QED
    BY <2>1, <2>2, <2>3
<1>6. \A i \in 1..n : changes[i].by \in Sends \union {NoSend}
  BY <1>2 DEF Change
<1> HIDE DEF n, s, Change, Send, Sends
<1>7. \A i \in 1..(n - 1) :
         changes[i + 1].by # NoSend
         => sends'[changes[i + 1].by].stage = sends[changes[i + 1].by].stage
  BY <1>3, <1>4, <1>5, <1>6
<1>8. \A i \in 1..(n - 1) :
         /\ changes'[i].by # NoSend => sends'[changes'[i].by].stage = Awaiting(changes'[i].kind)
         /\ i > 1 => ~changes'[i].read
  BY <1>1, <1>3, <1>7 DEF LineInv, n
<1>9. \A i, j \in 1..(n - 1) : i # j /\ changes'[i].by = changes'[j].by
                               => changes'[i].by = NoSend
  <2>1. \A i, j \in 1..(n - 1) : i # j => i + 1 # j + 1
    BY <1>2
  <2> QED
    BY <1>1, <1>3, <2>1 DEF LineInv, n
<1> QED
  BY <1>1, <1>8, <1>9 DEF LineInv

(* A fix that is nowhere but, perhaps, in a change that appends it. *)
Fresh(f) == /\ f \notin queue /\ rows[f] = 0
            /\ \A s \in Sends : f \notin wire[s] /\ f \notin sends[s].batch

(* What a change may say: an append brings fixes that are nowhere else, a   *)
(* removal has its reason, and what has been read is the queue as it is.    *)
ChangeOK(i) ==
    /\ \A f \in changes[i].ids : f <= recorded
    /\ changes[i].kind = "append" => \A f \in changes[i].ids : Fresh(f)
    /\ changes[i].kind = "doomed" => changes[i].ids \subseteq Bad
    /\ changes[i].kind = "sent" => \A f \in changes[i].ids : rows[f] > 0
    /\ changes[i].torn => changes[i].read /\ changes[i].copy = {}
    /\ changes[i].read /\ ~changes[i].torn => changes[i].copy = queue

ChangesOK ==
    /\ \A f \in Fixes : f > recorded => Fresh(f)
    /\ \A i \in 1..Len(changes) : ChangeOK(i)
    /\ \A i, j \in 1..Len(changes) :
          i # j /\ changes[i].kind = "append" /\ changes[j].kind = "append"
          => changes[i].ids \intersect changes[j].ids = {}

(* What a send has posted is on the wire until the server has stored it. *)
BatchesOK ==
    \A s \in Sends :
       /\ sends[s].batch \intersect Bad = {}
       /\ sends[s].stage = "posting"
          => wire[s] = sends[s].batch \/ (wire[s] = {} /\ \A f \in sends[s].batch : rows[f] > 0)

DataOK ==
    /\ recorded \in 0..MaxFixes /\ queue \in SUBSET Fixes
    /\ wire \in [Sends -> SUBSET Fixes] /\ rows \in [Fixes -> Nat]

(* Fixes only move on: into a batch from the queue, onto the wire from a    *)
(* batch, to the server from the wire.                                      *)
MovesOn ==
    /\ queue' \subseteq queue
    /\ \A s \in Sends : /\ sends'[s].batch \subseteq sends[s].batch \union queue
                        /\ wire'[s] \subseteq wire[s] \union sends[s].batch
    /\ \A f \in Fixes : /\ rows[f] > 0 => rows'[f] > 0
                        /\ rows[f] = 0 /\ (\A s \in Sends : f \notin wire[s]) => rows'[f] = 0

(* When fixes only move on, one that is nowhere stays nowhere. *)
LEMMA FreshKept ==
    ASSUME DataOK, MovesOn, NEW f \in Fixes, Fresh(f)
    PROVE  Fresh(f)'
  BY DEF DataOK, MovesOn, Fresh

(* A step that leaves the queue and the line alone. *)
LEMMA QuietKeepsChanges ==
    ASSUME DataOK, changes \in Seq(Change), ChangesOK, MovesOn,
           UNCHANGED <<recorded, queue, changes>>
    PROVE  ChangesOK'
<1>1. \A f \in Fixes : Fresh(f) => Fresh(f)'
  BY FreshKept
<1>2. \A i \in 1..Len(changes) : changes[i] \in Change
  OBVIOUS
<1>3. \A i \in 1..Len(changes) : changes[i].ids \subseteq Fixes
  BY <1>2 DEF Change
<1>4. ASSUME NEW i \in 1..Len(changes) PROVE ChangeOK(i)'
  <2>1. ChangeOK(i) /\ changes[i].ids \subseteq Fixes
    BY <1>3 DEF ChangesOK
  <2>2. changes'[i] = changes[i] /\ recorded' = recorded /\ queue' = queue
    OBVIOUS
  <2>3. \A f \in changes[i].ids : rows[f] > 0 => rows'[f] > 0
    BY <2>1 DEF MovesOn
  <2> HIDE DEF Fresh
  <2> QED
    BY <1>1, <2>1, <2>2, <2>3 DEF ChangeOK
<1> HIDE DEF Fresh, ChangeOK, Fixes
<1> QED
  BY <1>1, <1>4 DEF ChangesOK

(* A step that asks for a removal with its reason, or for a postponement. *)
LEMMA AskKeepsChanges ==
    ASSUME DataOK, changes \in Seq(Change), ChangesOK, MovesOn, UNCHANGED <<recorded, queue>>,
           NEW s \in Sends, NEW ids \in SUBSET Fixes, NEW kind \in {"doomed", "sent", "defer"},
           ChangeQueue(kind, ids, s), \A f \in ids : ~Fresh(f),
           kind = "doomed" => ids \subseteq Bad,
           kind = "sent" => \A f \in ids : rows[f] > 0
    PROVE  ChangesOK'
<1>0. PICK n \in Nat : n = Len(changes)
  OBVIOUS
<1>1. /\ changes' \in Seq(Change) /\ Len(changes') = n + 1
      /\ \A i \in 1..n : changes'[i] = changes[i]
      /\ changes'[n + 1] = Asked(kind, ids, s)
  BY <1>0, LineGrows
<1>2. \A f \in Fixes : Fresh(f) => Fresh(f)'
  BY FreshKept
<1>3. \A i \in 1..n : changes[i] \in Change
  BY <1>0
<1>4. \A i \in 1..n : changes[i].ids \subseteq Fixes
  BY <1>3 DEF Change
<1>5. ASSUME NEW i \in 1..n PROVE ChangeOK(i)'
  <2>1. ChangeOK(i) /\ changes[i].ids \subseteq Fixes
    BY <1>0, <1>4 DEF ChangesOK
  <2>2. changes'[i] = changes[i] /\ recorded' = recorded /\ queue' = queue
    BY <1>1
  <2>3. \A f \in changes[i].ids : rows[f] > 0 => rows'[f] > 0
    BY <2>1 DEF MovesOn
  <2> HIDE DEF Fresh
  <2> QED
    BY <1>2, <2>1, <2>2, <2>3 DEF ChangeOK
<1>6. ChangeOK(n + 1)'
  <2>1. \A f \in ids : f <= recorded
    BY DEF ChangesOK, DataOK, Fixes
  <2>2. /\ changes'[n + 1].ids = ids /\ changes'[n + 1].kind = kind
        /\ changes'[n + 1].read = FALSE /\ changes'[n + 1].torn = FALSE
    BY <1>1 DEF Asked
  <2>3. kind = "sent" => \A f \in ids : rows'[f] > 0
    BY DEF MovesOn
  <2> HIDE DEF Fresh
  <2> QED
    BY <2>1, <2>2, <2>3 DEF ChangeOK
<1>7. \A i \in 1..(n + 1) : i \in 1..n \/ i = n + 1
  OBVIOUS
<1>8. changes'[n + 1].kind # "append"
  BY <1>1 DEF Asked
<1>9. \A i, j \in 1..(n + 1) :
         i # j /\ changes'[i].kind = "append" /\ changes'[j].kind = "append"
         => changes'[i].ids \intersect changes'[j].ids = {}
  BY <1>0, <1>1, <1>7, <1>8 DEF ChangesOK
<1>10. \A f \in Fixes : f > recorded' => Fresh(f)'
  BY <1>2 DEF ChangesOK
<1> HIDE DEF Fresh, ChangeOK, Fixes
<1>11. \A i \in 1..(n + 1) : ChangeOK(i)'
  BY <1>5, <1>6, <1>7
<1> QED
  BY <1>1, <1>9, <1>10, <1>11 DEF ChangesOK

(* What the OS delivers is nowhere else yet. *)
LEMMA RecordKeepsChanges ==
    ASSUME DataOK, changes \in Seq(Change), ChangesOK, NEW last \in Fixes, Record(last)
    PROVE  /\ ChangesOK' /\ recorded' \in 0..MaxFixes /\ changes' \in Seq(Change)
<1>0. PICK n \in Nat : n = Len(changes)
  OBVIOUS
<1> DEFINE ids == (recorded + 1)..last
<1>1. ids \subseteq Fixes /\ last >= recorded /\ recorded' = last
  BY LocationAssumption DEF Record, DataOK, Fixes
<1>2. /\ changes' \in Seq(Change) /\ Len(changes') = n + 1
      /\ \A i \in 1..n : changes'[i] = changes[i]
      /\ changes'[n + 1] = Asked("append", ids, NoSend)
  BY <1>0, <1>1, LineGrows DEF Record
<1>3. /\ changes'[n + 1].ids = ids /\ changes'[n + 1].kind = "append"
      /\ changes'[n + 1].read = FALSE /\ changes'[n + 1].torn = FALSE
  BY <1>2 DEF Asked
<1>4. \A f \in Fixes : Fresh(f) => Fresh(f)'
  BY DEF Record, sender, Fresh
<1>5. \A f \in ids : f \in Fixes /\ f > recorded /\ f <= last /\ Fresh(f)
  BY <1>1 DEF ChangesOK, DataOK, Fixes
<1>6. UNCHANGED <<queue, rows>>
  BY DEF Record
<1>7. \A i \in 1..n : changes[i] \in Change /\ changes[i].ids \subseteq Fixes
  <2>1. \A i \in 1..n : changes[i] \in Change
    BY <1>0
  <2> QED
    BY <2>1 DEF Change
<1> HIDE DEF ids, Record, Fresh
<1>8. ASSUME NEW i \in 1..n PROVE ChangeOK(i)'
  <2>1. ChangeOK(i) /\ changes[i].ids \subseteq Fixes /\ changes'[i] = changes[i]
    BY <1>0, <1>2, <1>7 DEF ChangesOK
  <2>2. \A f \in changes[i].ids : f <= last
    BY <1>1, <2>1 DEF ChangeOK, DataOK, Fixes
  <2> QED
    BY <1>1, <1>4, <1>6, <2>1, <2>2 DEF ChangeOK
<1>9. ChangeOK(n + 1)'
  BY <1>1, <1>3, <1>4, <1>5 DEF ChangeOK
<1>10. \A i \in 1..(n + 1) : i \in 1..n \/ i = n + 1
  OBVIOUS
<1>11. \A i \in 1..n : \A f \in changes[i].ids : f \notin ids
  BY <1>0, <1>5, <1>7 DEF ChangesOK, ChangeOK, DataOK, Fixes
<1>12. \A i, j \in 1..(n + 1) :
         i # j /\ changes'[i].kind = "append" /\ changes'[j].kind = "append"
         => changes'[i].ids \intersect changes'[j].ids = {}
  BY <1>0, <1>2, <1>3, <1>10, <1>11 DEF ChangesOK
<1>13. \A f \in Fixes : f > recorded' => Fresh(f)'
  BY <1>1, <1>4 DEF ChangesOK, DataOK, Fixes
<1>14. recorded' \in 0..MaxFixes
  BY <1>1, LocationAssumption DEF Fixes
<1> HIDE DEF ChangeOK, Fixes
<1>15. \A i \in 1..(n + 1) : ChangeOK(i)'
  BY <1>8, <1>9, <1>10
<1> QED
  BY <1>2, <1>12, <1>13, <1>14, <1>15 DEF ChangesOK

(* The head of the line reads the queue, or fails to. *)
LEMMA ReadKeepsChanges ==
    ASSUME DataOK, changes \in Seq(Change), ChangesOK, LineInv,
           ReadForChange \/ ReadForChangeFails
    PROVE  ChangesOK' /\ LineInv'
<1>0. PICK n \in Nat \ {0} : n = Len(changes)
  BY HeadIsChange DEF ReadForChange, ReadForChangeFails
<1>1. changes # <<>> /\ Head(changes) = changes[1] /\ changes[1] \in Change /\ ~changes[1].read
  BY HeadIsChange DEF ReadForChange, ReadForChangeFails
<1>2. PICK c \in Change :
        /\ changes' = [changes EXCEPT ![1] = c]
        /\ c.ids = changes[1].ids /\ c.kind = changes[1].kind /\ c.by = changes[1].by
        /\ c.read = TRUE
        /\ c.torn => c.copy = {}
        /\ ~c.torn => c.copy = queue
  <2>1. CASE ReadForChange
    <3> DEFINE c == [changes[1] EXCEPT !.read = TRUE, !.copy = queue]
    <3>1. c \in Change /\ c.ids = changes[1].ids /\ c.kind = changes[1].kind
          /\ c.by = changes[1].by /\ c.read = TRUE /\ c.copy = queue /\ c.torn = changes[1].torn
      BY <1>1 DEF Change, DataOK
    <3>2. ~changes[1].torn
      BY <1>0, <1>1 DEF ChangesOK, ChangeOK
    <3>3. changes' = [changes EXCEPT ![1] = c]
      BY <2>1 DEF ReadForChange
    <3> HIDE DEF c, Change
    <3> QED
      BY <3>1, <3>2, <3>3
  <2>2. CASE ReadForChangeFails
    <3> DEFINE c == [changes[1] EXCEPT !.read = TRUE, !.copy = {}, !.torn = TRUE]
    <3>1. c \in Change /\ c.ids = changes[1].ids /\ c.kind = changes[1].kind
          /\ c.by = changes[1].by /\ c.read = TRUE /\ c.copy = {} /\ c.torn = TRUE
      BY <1>1 DEF Change
    <3>3. changes' = [changes EXCEPT ![1] = c]
      BY <2>2 DEF ReadForChangeFails
    <3> HIDE DEF c, Change
    <3> QED
      BY <3>1, <3>3
  <2> QED
    BY <2>1, <2>2
<1>3. /\ changes' \in Seq(Change) /\ Len(changes') = n /\ changes'[1] = c
      /\ \A i \in 2..n : changes'[i] = changes[i]
  BY <1>0, <1>1, <1>2, LineReads
<1>4. UNCHANGED <<recorded, queue, rows, wire, sends>>
  BY DEF ReadForChange, ReadForChangeFails, sender
<1>5. \A f : Fresh(f) => Fresh(f)'
  BY <1>4 DEF Fresh
<1>6. \A i \in 1..n : i = 1 \/ i \in 2..n
  OBVIOUS
<1>7. \A i \in 1..n : /\ changes'[i].ids = changes[i].ids /\ changes'[i].kind = changes[i].kind
                      /\ changes'[i].by = changes[i].by
  BY <1>2, <1>3, <1>6
<1> HIDE DEF Fresh, Change, ReadForChange, ReadForChangeFails
<1>8. ASSUME NEW i \in 1..n PROVE ChangeOK(i)'
  <2>1. ChangeOK(i)
    BY <1>0 DEF ChangesOK
  <2>2. CASE i = 1
    BY <1>2, <1>3, <1>4, <1>5, <1>7, <2>1, <2>2 DEF ChangeOK
  <2>3. CASE i \in 2..n
    BY <1>3, <1>4, <1>5, <2>1, <2>3 DEF ChangeOK
  <2> QED
    BY <1>6, <2>2, <2>3
<1>9. LineInv'
  BY <1>0, <1>3, <1>4, <1>7 DEF LineInv, Awaiting
<1>10. \A i, j \in 1..n :
         i # j /\ changes'[i].kind = "append" /\ changes'[j].kind = "append"
         => changes'[i].ids \intersect changes'[j].ids = {}
  BY <1>0, <1>7 DEF ChangesOK
<1>11. \A f \in Fixes : f > recorded' => Fresh(f)'
  BY <1>4, <1>5 DEF ChangesOK
<1> HIDE DEF ChangeOK
<1> QED
  BY <1>3, <1>8, <1>9, <1>10, <1>11 DEF ChangesOK

(* No send gains a fix when the head of the line is done. *)
LEMMA DoneKeepsBatches ==
    ASSUME sends \in [Sends -> Send], changes \in Seq(Change), changes # <<>>, ChangeDone
    PROVE  /\ sends' \in [Sends -> Send]
           /\ \A t \in Sends : /\ sends'[t].batch \in {sends[t].batch, {}}
                               /\ sends'[t].stage = "posting" => sends'[t] = sends[t]
<1>1. Head(changes).by \in Sends \union {NoSend}
  <2>1. Head(changes) \in Change
    BY HeadIsChange
  <2> QED
    BY <2>1 DEF Change
<1>2. CASE Head(changes).by = NoSend
  BY <1>2 DEF ChangeDone
<1>3. CASE Head(changes).by # NoSend /\ Head(changes).kind = "doomed"
  <2>1. Head(changes).by \in Sends /\ Goto(Head(changes).by, "rereading") /\ "rereading" \in Stage
    BY <1>1, <1>3 DEF ChangeDone, Stage
  <2> DEFINE s == Head(changes).by
  <2>2. \A t \in Sends : t # s => sends'[t] = sends[t]
    BY <2>1 DEF Goto
  <2>3. sends' \in [Sends -> Send] /\ sends'[s].stage = "rereading"
        /\ \A t \in Sends : sends'[t].batch = sends[t].batch
    BY <2>1, GotoEffect
  <2> HIDE DEF s
  <2> QED
    BY <2>2, <2>3
<1>4. CASE Head(changes).by # NoSend /\ Head(changes).kind # "doomed"
  <2>1. Head(changes).by \in Sends /\ End(Head(changes).by)
    BY <1>1, <1>4 DEF ChangeDone
  <2>2. /\ sends' \in [Sends -> Send]
        /\ \A t \in Sends : sends'[t] = IF t = Head(changes).by THEN Idle ELSE sends[t]
    BY <2>1, EndEffect
  <2>3. Idle.batch = {} /\ Idle.stage = "idle"
    BY DEF Idle
  <2> HIDE DEF Idle
  <2> QED
    BY <2>2, <2>3
<1> QED
  BY <1>2, <1>3, <1>4

(* The head of the line is done: what it brought is in the queue, or lost with *)
(* a write that failed; what the others bring is still nowhere else.           *)
LEMMA DoneKeepsChanges ==
    ASSUME DataOK, sends \in [Sends -> Send], LineInv, ChangesOK, changes # <<>>, ChangeDone,
           UNCHANGED <<recorded, wire, rows>>,
           queue' \subseteq queue \/ ( /\ Head(changes).kind = "append"
                                      /\ queue' \subseteq queue \union Head(changes).ids )
    PROVE  ChangesOK'
<1>0. changes \in Seq(Change)
  BY DEF LineInv
<1>1. PICK n \in Nat \ {0} : n = Len(changes)
  BY <1>0, HeadIsChange
<1>2. Head(changes) = changes[1] /\ 1 \in 1..n
  BY <1>0, HeadIsChange
<1>3. /\ changes' \in Seq(Change) /\ Len(changes') = n - 1
      /\ \A i \in 1..(n - 1) : changes'[i] = changes[i + 1]
  BY <1>0, <1>1, LineShrinks DEF ChangeDone
<1>4. \A i \in 1..(n - 1) : i + 1 \in 1..n /\ i + 1 > 1 /\ i + 1 # 1
  OBVIOUS
<1>5. \A t \in Sends : sends'[t].batch \subseteq sends[t].batch
  <2>1. \A t \in Sends : sends'[t].batch \in {sends[t].batch, {}}
    BY <1>0, DoneKeepsBatches
  <2> QED
    BY <2>1
<1>6. \A f : Fresh(f) /\ f \notin queue' => Fresh(f)'
  BY <1>5 DEF Fresh
<1>7. \A f : Fresh(f) => f \notin queue
  BY DEF Fresh
<1> HIDE DEF Fresh, ChangeDone, Change, Send, Sends, Fixes
<1>8. \A f \in Fixes : f > recorded' => Fresh(f)'
  <2>1. \A f \in Fixes : f > recorded => f \notin changes[1].ids
    BY <1>1, <1>2 DEF ChangesOK, ChangeOK, DataOK, Fixes
  <2> QED
    BY <1>2, <1>6, <1>7, <2>1 DEF ChangesOK
<1>9. ASSUME NEW i \in 1..(n - 1) PROVE ChangeOK(i)'
  <2>1. /\ changes'[i] = changes[i + 1] /\ ChangeOK(i + 1) /\ ~changes[i + 1].read
        /\ i + 1 \in 1..n /\ i + 1 # 1
    BY <1>1, <1>3, <1>4 DEF ChangesOK, LineInv
  <2>2. changes[i + 1].kind = "append" => \A f \in changes[i + 1].ids : Fresh(f) /\ f \notin queue'
    <3> SUFFICES ASSUME changes[i + 1].kind = "append", NEW f \in changes[i + 1].ids
                 PROVE  Fresh(f) /\ f \notin queue'
      OBVIOUS
    <3>1. Fresh(f) /\ f \notin queue
      BY <1>7, <2>1 DEF ChangeOK
    <3>2. changes[1].kind = "append" => f \notin changes[1].ids
      BY <1>1, <1>2, <2>1 DEF ChangesOK
    <3> QED
      BY <1>2, <3>1, <3>2
  <2> QED
    BY <1>6, <2>1, <2>2 DEF ChangeOK
<1>10. \A i, j \in 1..(n - 1) :
         i # j /\ changes'[i].kind = "append" /\ changes'[j].kind = "append"
         => changes'[i].ids \intersect changes'[j].ids = {}
  <2>1. \A i, j \in 1..(n - 1) : i # j => i + 1 # j + 1
    OBVIOUS
  <2> QED
    BY <1>1, <1>3, <1>4, <2>1 DEF ChangesOK
<1> HIDE DEF ChangeOK
<1> QED
  BY <1>3, <1>8, <1>9, <1>10 DEF ChangesOK

(* The variables no other part speaks of. *)
RestOK ==
    /\ waiting \in SUBSET queue /\ faults \in 0..MaxFaults
    /\ expired \in BOOLEAN /\ renewal \in {"none", "underway", "hung"} /\ onScreen \in BOOLEAN

LocationInv == SenderInv /\ LineInv /\ DataOK /\ ChangesOK /\ BatchesOK /\ RestOK

FixesInv == LineInv /\ DataOK /\ ChangesOK /\ BatchesOK

AwaitingStage == {"dropping", "removing", "deferring"}

(* A step that leaves the line alone leaves whoever awaits a change alone. *)
LEMMA QuietKeepsLine ==
    ASSUME LineInv, UNCHANGED changes,
           \A t \in Sends : sends[t].stage \in AwaitingStage => sends'[t].stage = sends[t].stage
    PROVE  LineInv'
<1>1. \A i \in 1..Len(changes) : changes[i].by \in Sends \union {NoSend}
  <2>1. \A i \in 1..Len(changes) : changes[i] \in Change
    BY DEF LineInv
  <2> QED
    BY <2>1 DEF Change
<1>2. \A kind : Awaiting(kind) \in AwaitingStage
  BY DEF Awaiting, AwaitingStage
<1> HIDE DEF Change, Sends, Awaiting, AwaitingStage
<1> QED
  BY <1>1, <1>2 DEF LineInv

(* A step of the senders: batches come from the queue, without what the      *)
(* server refuses, and nobody starts posting or stops awaiting a change.     *)
LEMMA SenderStep ==
    ASSUME FixesInv, sends \in [Sends -> Send], UNCHANGED <<recorded, queue, changes, wire, rows>>,
           \A t \in Sends :
              /\ sends'[t].batch \subseteq sends[t].batch \union (queue \ Bad)
              /\ sends'[t].stage = "posting" => /\ sends[t].stage = "posting"
                                                /\ sends'[t].batch = sends[t].batch
              /\ sends[t].stage \in AwaitingStage => sends'[t].stage = sends[t].stage
    PROVE  FixesInv'
<1>1. LineInv'
  BY QuietKeepsLine DEF FixesInv
<1>2. MovesOn
  BY DEF MovesOn, FixesInv, DataOK
<1>3. ChangesOK'
  BY <1>2, QuietKeepsChanges DEF FixesInv, LineInv
<1>4. DataOK'
  BY DEF FixesInv, DataOK
<1>5. BatchesOK'
  BY DEF FixesInv, BatchesOK
<1> QED
  BY <1>1, <1>3, <1>4, <1>5 DEF FixesInv

(* A send that asks for a change, in the stage in which it awaits it. *)
LEMMA AskStep ==
    ASSUME FixesInv, sends \in [Sends -> Send], UNCHANGED <<recorded, queue, rows>>,
           NEW s \in Sends, NEW ids \in SUBSET Fixes, NEW kind \in {"doomed", "sent", "defer"},
           ChangeQueue(kind, ids, s), Goto(s, Awaiting(kind)),
           sends[s].stage \notin AwaitingStage,
           wire' \in {wire, [wire EXCEPT ![s] = {}]},
           \A f \in ids : ~Fresh(f),
           kind = "doomed" => ids \subseteq Bad,
           kind = "sent" => \A f \in ids : rows[f] > 0
    PROVE  FixesInv'
<1>1. Awaiting(kind) \in Stage /\ Awaiting(kind) # "posting"
  BY DEF Awaiting, Stage
<1>2. \A t \in Sends : /\ sends'[t].batch = sends[t].batch
                       /\ sends'[t].stage = IF t = s THEN Awaiting(kind) ELSE sends[t].stage
  BY <1>1, GotoEffect
<1>3. LineInv'
  BY <1>2, AskKeepsLine DEF FixesInv, AwaitingStage
<1>4. /\ wire' \in [Sends -> SUBSET Fixes]
      /\ \A t \in Sends : wire'[t] \subseteq wire[t] /\ (t # s => wire'[t] = wire[t])
  BY DEF FixesInv, DataOK
<1>5. MovesOn
  BY <1>2, <1>4 DEF MovesOn, FixesInv, DataOK
<1>6. ChangesOK'
  BY <1>5, AskKeepsChanges DEF FixesInv, LineInv
<1>7. DataOK'
  BY <1>4 DEF FixesInv, DataOK
<1>8. BatchesOK'
  BY <1>1, <1>2, <1>4 DEF FixesInv, BatchesOK
<1> QED
  BY <1>3, <1>6, <1>7, <1>8 DEF FixesInv

(* A send that awaits no change ends. *)
LEMMA EndStep ==
    ASSUME FixesInv, SenderInv, NEW s \in Sends, End(s), sends[s].stage \notin AwaitingStage,
           UNCHANGED <<recorded, queue, changes, wire, rows>>
    PROVE  FixesInv' /\ SenderInv'
<1>1. sends \in [Sends -> Send]
  BY DEF SenderInv, SenderOK
<1>2. \A t \in Sends : sends'[t] = IF t = s THEN Idle ELSE sends[t]
  BY <1>1, EndEffect
<1>3. Idle.batch = {} /\ Idle.stage = "idle"
  BY DEF Idle
<1> HIDE DEF Idle, End, FixesInv, Send, Sends
<1>4. \A t \in Sends :
         /\ sends'[t].batch \subseteq sends[t].batch \union (queue \ Bad)
         /\ sends'[t].stage = "posting" => /\ sends[t].stage = "posting"
                                           /\ sends'[t].batch = sends[t].batch
         /\ sends[t].stage \in AwaitingStage => sends'[t].stage = sends[t].stage
  BY <1>2, <1>3
<1> QED
  BY <1>1, <1>4, SenderStep, EndKeepsSender

(* A send takes its batch from the queue, or finds nothing to send and ends. *)
LEMMA TakeBatchStep ==
    ASSUME FixesInv, SenderInv, NEW s \in Sends, TakeBatch(s),
           sends[s].stage \in {"reading", "rereading"},
           UNCHANGED <<recorded, queue, changes, wire, rows>>
    PROVE  FixesInv' /\ SenderInv'
<1>1. CASE End(s)
  BY <1>1, EndStep DEF AwaitingStage
<1>2. CASE Due # {}
  <2>1. BatchOf(Due) \subseteq queue \ Bad /\ queue \subseteq Fixes
    BY DEF BatchOf, Due, FixesInv, DataOK
  <2>2. sends \in [Sends -> Send] /\ sends[s] \in Send
    BY DEF SenderInv, SenderOK
  <2>3. PICK r \in Send : r = [sends[s] EXCEPT !.stage = "session", !.batch = BatchOf(Due)]
    BY <2>1, <2>2 DEF Send, Stage
  <2>4. r.stage = "session" /\ r.batch = BatchOf(Due) /\ r.old = sends[s].old
    BY <2>2, <2>3 DEF Send
  <2>5. sends' = [sends EXCEPT ![s] = r] /\ UNCHANGED <<flight, running>>
    BY <1>2, <2>3 DEF TakeBatch
  <2>6. sends' \in [Sends -> Send] /\ \A t \in Sends : sends'[t] = IF t = s THEN r ELSE sends[t]
    BY <2>2, <2>5
  <2> HIDE DEF Send, Sends, TakeBatch, FixesInv
  <2>7. SenderInv'
    BY <2>4, <2>5, <2>6 DEF SenderInv, SenderOK, YoungInFlight
  <2>8. \A t \in Sends :
           /\ sends'[t].batch \subseteq sends[t].batch \union (queue \ Bad)
           /\ sends'[t].stage = "posting" => /\ sends[t].stage = "posting"
                                             /\ sends'[t].batch = sends[t].batch
           /\ sends[t].stage \in AwaitingStage => sends'[t].stage = sends[t].stage
    BY <2>1, <2>4, <2>6 DEF AwaitingStage
  <2> QED
    BY <2>2, <2>7, <2>8, SenderStep
<1> QED
  BY <1>1, <1>2 DEF TakeBatch

(* A send moves to a stage in which it posts nothing and awaits no change. *)
LEMMA GotoStep ==
    ASSUME FixesInv, SenderInv, NEW s \in Sends,
           NEW stage \in {"renewing", "hung"}, Goto(s, stage),
           sends[s].stage \in {"session", "posting"},
           UNCHANGED <<recorded, queue, changes, flight, running, wire, rows>>
    PROVE  FixesInv' /\ SenderInv'
<1>1. stage \in Stage \ {"idle"}
  BY DEF Stage
<1>2. sends \in [Sends -> Send]
  BY DEF SenderInv, SenderOK
<1>3. \A t \in Sends : /\ sends'[t].batch = sends[t].batch
                       /\ sends'[t].stage = IF t = s THEN stage ELSE sends[t].stage
  BY <1>1, <1>2, GotoEffect
<1>4. SenderInv'
  BY <1>1, GotoKeepsSender
<1> HIDE DEF FixesInv, Send, Sends, Goto, Stage
<1>5. \A t \in Sends :
         /\ sends'[t].batch \subseteq sends[t].batch \union (queue \ Bad)
         /\ sends'[t].stage = "posting" => /\ sends[t].stage = "posting"
                                           /\ sends'[t].batch = sends[t].batch
         /\ sends[t].stage \in AwaitingStage => sends'[t].stage = sends[t].stage
  BY <1>3 DEF AwaitingStage
<1> QED
  BY <1>2, <1>4, <1>5, SenderStep

(* A request that failed: its batch is put off. *)
LEMMA BackOffStep ==
    ASSUME FixesInv, SenderInv, NEW s \in Sends, BackOff(s),
           sends[s].stage \in {"refused", "posting", "hung"},
           wire' \in {wire, [wire EXCEPT ![s] = {}]}, UNCHANGED rows
    PROVE  FixesInv' /\ SenderInv'
<1>1. sends \in [Sends -> Send] /\ sends[s].batch \subseteq Fixes
  BY DEF SenderInv, SenderOK, Send
<1>2. \A f \in sends[s].batch : ~Fresh(f)
  BY DEF Fresh
<1>3. Awaiting("defer") = "deferring" /\ "deferring" \in Stage \ {"idle"}
  BY DEF Awaiting, Stage
<1>4. SenderInv'
  BY <1>3, GotoKeepsSender DEF BackOff
<1>5. FixesInv'
  BY <1>1, <1>2, <1>3, AskStep DEF BackOff, AwaitingStage
<1> QED
  BY <1>4, <1>5

(* A send starts when it may. *)
LEMMA StartStep ==
    ASSUME FixesInv, SenderInv, NEW s \in Sends, MaySend, Start(s), running' \in {running, s},
           UNCHANGED <<recorded, queue, changes, wire, rows>>
    PROVE  FixesInv' /\ SenderInv'
<1>1. sends \in [Sends -> Send]
  BY DEF SenderInv, SenderOK
<1>2. \A t \in Sends : sends'[t] = IF t = s THEN Starting ELSE sends[t]
  BY <1>1 DEF Start
<1>3. Starting.batch = {} /\ Starting.stage = "reading" /\ sends[s].stage = "idle"
  BY DEF Starting, Start
<1> HIDE DEF Starting, Start, FixesInv, Send, Sends, MaySend
<1>4. \A t \in Sends :
         /\ sends'[t].batch \subseteq sends[t].batch \union (queue \ Bad)
         /\ sends'[t].stage = "posting" => /\ sends[t].stage = "posting"
                                           /\ sends'[t].batch = sends[t].batch
         /\ sends[t].stage \in AwaitingStage => sends'[t].stage = sends[t].stage
  BY <1>2, <1>3 DEF AwaitingStage
<1> QED
  BY <1>1, <1>4, SenderStep, StartKeepsSender

(* The server stores what is on the wire. *)
LEMMA StoreStep ==
    ASSUME FixesInv, SenderInv, NEW s \in Sends, ServerStores(s)
    PROVE  /\ FixesInv' /\ SenderInv'
           /\ \A f \in Fixes : rows[f] > 0 => rows'[f] > 0
           /\ \A f \in Bad : rows'[f] = rows[f]
<1>1. sends \in [Sends -> Send] /\ UNCHANGED <<sends, flight, running, recorded, queue, changes>>
  BY DEF SenderInv, SenderOK, ServerStores, sender, phone
<1>2. /\ rows' \in [Fixes -> Nat] /\ wire' \in [Sends -> SUBSET Fixes] /\ wire'[s] = {}
      /\ \A t \in Sends : t # s => wire'[t] = wire[t]
      /\ \A f \in Fixes : rows'[f] = IF f \in wire[s] \ Bad /\ rows[f] = 0 THEN 1 ELSE rows[f]
  BY DEF ServerStores, RowsWith, FixesInv, DataOK
<1>3. MovesOn
  BY <1>1, <1>2 DEF MovesOn, FixesInv, DataOK
<1>4. ChangesOK'
  BY <1>1, <1>3, QuietKeepsChanges DEF FixesInv, LineInv
<1>5. LineInv'
  BY <1>1, QuietKeepsLine DEF FixesInv
<1>6. DataOK'
  BY <1>1, <1>2 DEF FixesInv, DataOK
<1>7. \A f \in Fixes : (rows[f] > 0 \/ f \in wire[s] \ Bad) => rows'[f] > 0
  BY <1>2 DEF FixesInv, DataOK
<1>8. BatchesOK'
  <2> SUFFICES ASSUME NEW t \in Sends
               PROVE  /\ sends[t].batch \intersect Bad = {}
                      /\ sends[t].stage = "posting"
                         => \/ wire'[t] = sends[t].batch
                            \/ wire'[t] = {} /\ \A f \in sends[t].batch : rows'[f] > 0
    BY <1>1 DEF BatchesOK
  <2>1. sends[t].batch \subseteq Fixes
    BY <1>1 DEF Send
  <2> QED
    BY <1>2, <1>7, <2>1 DEF FixesInv, BatchesOK
<1>9. SenderInv'
  BY <1>1 DEF SenderInv, SenderOK, YoungInFlight
<1>10. Bad \subseteq Fixes
  BY LocationAssumption
<1> QED
  BY <1>2, <1>4, <1>5, <1>6, <1>7, <1>8, <1>9, <1>10 DEF FixesInv

(* What is posted is on the wire; the sends that awaited a renewal post then. *)
LEMMA PostStep ==
    ASSUME FixesInv, SenderInv, (\E s \in Sends : Posts(s)) \/ RenewalAnswers
    PROVE  FixesInv' /\ SenderInv'
<1>1. PICK P \in SUBSET Sends :
        /\ \A t \in P : sends[t].stage \in {"session", "renewing"}
        /\ \A t \in Sends : /\ sends'[t].batch = sends[t].batch
                            /\ sends'[t].stage = IF t \in P THEN "posting" ELSE sends[t].stage
        /\ wire' = [t \in Sends |-> IF t \in P THEN sends[t].batch ELSE wire[t]]
        /\ SenderInv'
        /\ UNCHANGED <<recorded, queue, changes, rows>>
  <2>1. ASSUME NEW s \in Sends, Posts(s)
        PROVE  /\ \A t \in {s} : sends[t].stage \in {"session", "renewing"}
               /\ \A t \in Sends :
                     /\ sends'[t].batch = sends[t].batch
                     /\ sends'[t].stage = IF t \in {s} THEN "posting" ELSE sends[t].stage
               /\ wire' = [t \in Sends |-> IF t \in {s} THEN sends[t].batch ELSE wire[t]]
               /\ SenderInv'
               /\ UNCHANGED <<recorded, queue, changes, rows>>
    <3>1. sends \in [Sends -> Send] /\ "posting" \in Stage \ {"idle"} /\ Goto(s, "posting")
      BY <2>1 DEF SenderInv, SenderOK, Posts, Stage
    <3>2. SenderInv'
      BY <2>1, <3>1, GotoKeepsSender DEF Posts
    <3>3. wire' = [t \in Sends |-> IF t \in {s} THEN sends[t].batch ELSE wire[t]]
      BY <2>1 DEF Posts, FixesInv, DataOK
    <3>4. UNCHANGED <<recorded, queue, changes, rows>> /\ sends[s].stage = "session"
      BY <2>1 DEF Posts, phone
    <3> QED
      BY <3>1, <3>2, <3>3, <3>4, GotoEffect
  <2>2. ASSUME RenewalAnswers
        PROVE  /\ \A t \in Renewing : sends[t].stage \in {"session", "renewing"}
               /\ \A t \in Sends :
                     /\ sends'[t].batch = sends[t].batch
                     /\ sends'[t].stage = IF t \in Renewing THEN "posting" ELSE sends[t].stage
               /\ wire' = [t \in Sends |-> IF t \in Renewing THEN sends[t].batch ELSE wire[t]]
               /\ SenderInv'
               /\ UNCHANGED <<recorded, queue, changes, rows>>
               /\ Renewing \in SUBSET Sends
    <3>1. sends \in [Sends -> Send] /\ "posting" \in Stage \ {"idle"} /\ Renewed("posting")
      BY <2>2 DEF SenderInv, SenderOK, RenewalAnswers, Stage
    <3>2. SenderInv'
      BY <2>2, <3>1, RenewedKeepsSender DEF RenewalAnswers
    <3>3. UNCHANGED <<recorded, queue, changes, rows>>
      BY <2>2 DEF RenewalAnswers, phone
    <3>4. \A t \in Sends :
             /\ sends'[t].batch = sends[t].batch
             /\ sends'[t].stage = IF sends[t].stage = "renewing" THEN "posting" ELSE sends[t].stage
      BY <3>1, RenewedEffect
    <3> QED
      BY <2>2, <3>2, <3>3, <3>4 DEF RenewalAnswers, Renewing
  <2>3. CASE \E s \in Sends : Posts(s)
    <3>1. PICK s \in Sends : Posts(s)
      BY <2>3
    <3>2. {s} \in SUBSET Sends
      OBVIOUS
    <3> QED
      BY <2>1, <3>1, <3>2
  <2>4. CASE RenewalAnswers
    BY <2>2, <2>4
  <2> QED
    BY <2>3, <2>4
<1>2. sends \in [Sends -> Send] /\ \A t \in Sends : sends[t].batch \subseteq Fixes
  <2>1. sends \in [Sends -> Send]
    BY DEF SenderInv, SenderOK
  <2> QED
    BY <2>1 DEF Send
<1>3. MovesOn
  BY <1>1 DEF MovesOn, FixesInv, DataOK
<1>4. ChangesOK'
  BY <1>1, <1>3, QuietKeepsChanges DEF FixesInv, LineInv
<1>5. LineInv'
  BY <1>1, QuietKeepsLine DEF FixesInv, AwaitingStage
<1>6. DataOK'
  BY <1>1, <1>2 DEF FixesInv, DataOK
<1>7. BatchesOK'
  BY <1>1, <1>2 DEF FixesInv, BatchesOK
<1> QED
  BY <1>1, <1>4, <1>5, <1>6, <1>7 DEF FixesInv

(* Writing a change, or failing to, keeps what is known of fixes and senders. *)
LEMMA WriteStep ==
    ASSUME FixesInv, SenderInv, WriteChange \/ WriteChangeFails
    PROVE  FixesInv' /\ SenderInv'
<1>1. /\ changes # <<>> /\ ChangeDone /\ UNCHANGED <<recorded, wire, rows>>
      /\ changes \in Seq(Change) /\ Head(changes).read
  BY DEF WriteChange, WriteChangeFails, FixesInv, LineInv
<1>2. /\ Head(changes) = changes[1] /\ Head(changes) \in Change /\ 1 \in 1..Len(changes)
  BY <1>1, HeadIsChange
<1>3. ChangeOK(1)
  BY <1>2 DEF FixesInv, ChangesOK
<1>4. Head(changes).copy \subseteq queue
  BY <1>1, <1>2, <1>3 DEF ChangeOK
<1>5. Head(changes).ids \subseteq Fixes /\ Head(changes).copy \subseteq Fixes
      /\ Head(changes).kind \in {"append", "doomed", "sent", "defer"}
  BY <1>2 DEF Change
<1>6. \/ queue' \subseteq queue
      \/ Head(changes).kind = "append" /\ queue' \subseteq queue \union Head(changes).ids
  <2>1. CASE WriteChangeFails
    BY <2>1 DEF WriteChangeFails
  <2>2. CASE WriteChange
    <3>1. queue' \subseteq Changed(Head(changes))
      BY <2>2 DEF WriteChange, Newest
    <3> QED
      BY <1>4, <1>5, <3>1 DEF Changed
  <2> QED
    BY <2>1, <2>2
<1>7. sends \in [Sends -> Send]
  BY DEF SenderInv, SenderOK
<1>8. ChangesOK'
  BY <1>1, <1>6, <1>7, DoneKeepsChanges DEF FixesInv
<1>9. LineInv'
  BY <1>1, <1>7, DoneKeepsLine DEF FixesInv
<1>10. queue' \subseteq Fixes
  BY <1>5, <1>6 DEF FixesInv, DataOK
<1>11. DataOK'
  BY <1>1, <1>10 DEF FixesInv, DataOK
<1>12. BatchesOK'
  <2>1. \A t \in Sends : /\ sends'[t].batch \in {sends[t].batch, {}}
                         /\ sends'[t].stage = "posting" => sends'[t] = sends[t]
    BY <1>1, <1>7, DoneKeepsBatches
  <2> QED
    BY <1>1, <2>1 DEF FixesInv, BatchesOK
<1>13. SenderInv'
  <2>1. \A s \in Sends : Head(changes).by = s /\ Head(changes).kind = "doomed"
                         => sends[s].stage # "idle"
    BY <1>2 DEF FixesInv, LineInv, Awaiting, Sends, NoSend
  <2> QED
    BY <1>1, <2>1, ChangeDoneKeepsSender
<1> QED
  BY <1>8, <1>9, <1>11, <1>12, <1>13 DEF FixesInv

(* Initially nothing is recorded, queued, asked for or under way. *)
LEMMA InitKeeps == LocationInit => LocationInv
<1> SUFFICES ASSUME LocationInit PROVE LocationInv
  OBVIOUS
<1>1. Idle \in Send /\ Idle.stage = "idle" /\ Idle.batch = {}
  BY DEF Idle, Send, Stage
<1>2. SenderInv
  BY <1>1 DEF LocationInit, SenderInv, SenderOK, YoungInFlight, NoSend
<1>3. changes \in Seq(Change) /\ Len(changes) = 0
  BY DEF LocationInit
<1>4. LineInv
  BY <1>3 DEF LineInv
<1>5. DataOK
  BY LocationAssumption DEF LocationInit, DataOK
<1>6. ChangesOK
  BY <1>1, <1>3 DEF LocationInit, ChangesOK, Fresh
<1>7. BatchesOK
  BY <1>1 DEF LocationInit, BatchesOK
<1>8. RestOK
  <2>1. waiting \in SUBSET queue /\ expired \in BOOLEAN /\ onScreen \in BOOLEAN
    BY DEF LocationInit
  <2>2. renewal \in {"none", "underway", "hung"} /\ faults \in 0..MaxFaults
    BY LocationAssumption DEF LocationInit
  <2> QED
    BY <2>1, <2>2 DEF RestOK
<1> QED
  BY <1>2, <1>4, <1>5, <1>6, <1>7, <1>8 DEF LocationInv

(* Every step keeps what is known of fixes and senders. *)
LEMMA StepKeeps ==
    ASSUME LocationInv, [LocationNext]_vars PROVE FixesInv' /\ SenderInv'
<1>1. FixesInv /\ SenderInv
  BY DEF LocationInv, FixesInv
<1>2. ASSUME NEW last \in Fixes, Record(last) PROVE FixesInv' /\ SenderInv'
  <2>1. UNCHANGED <<sends, flight, running, queue, wire, rows>>
    BY <1>2 DEF Record, sender
  <2>2. SenderInv'
    BY <1>1, <2>1 DEF SenderInv, SenderOK, YoungInFlight
  <2>3. ChangesOK' /\ recorded' \in 0..MaxFixes /\ changes' \in Seq(Change)
    BY <1>1, <1>2, RecordKeepsChanges DEF FixesInv, LineInv
  <2>4. DataOK' /\ BatchesOK'
    BY <1>1, <2>1, <2>3 DEF FixesInv, DataOK, BatchesOK
  <2>5. LineInv'
    <3>1. (recorded + 1)..last \subseteq Fixes
      BY <1>1, LocationAssumption DEF FixesInv, DataOK, Fixes
    <3>2. /\ Len(changes') = Len(changes) + 1
          /\ \A i \in 1..Len(changes) : changes'[i] = changes[i]
          /\ changes'[Len(changes) + 1] = Asked("append", (recorded + 1)..last, NoSend)
      BY <1>1, <1>2, <3>1, LineGrows DEF Record, FixesInv, LineInv
    <3>3. /\ changes'[Len(changes) + 1].by = NoSend
          /\ changes'[Len(changes) + 1].read = FALSE
      BY <3>2 DEF Asked
    <3>4. \A i \in 1..(Len(changes) + 1) : i \in 1..Len(changes) \/ i = Len(changes) + 1
      BY <1>1 DEF FixesInv, LineInv
    <3> QED
      BY <1>1, <2>1, <2>3, <3>2, <3>3, <3>4 DEF FixesInv, LineInv, Awaiting
  <2> QED
    BY <2>2, <2>3, <2>4, <2>5 DEF FixesInv
<1>3. CASE ReadForChange \/ ReadForChangeFails
  <2>1. UNCHANGED <<sends, flight, running, recorded, queue, wire, rows>>
    BY <1>3 DEF ReadForChange, ReadForChangeFails, sender
  <2>2. SenderInv' /\ DataOK' /\ BatchesOK'
    BY <1>1, <2>1 DEF SenderInv, SenderOK, YoungInFlight, FixesInv, DataOK, BatchesOK
  <2> QED
    BY <1>1, <1>3, <2>2, ReadKeepsChanges DEF FixesInv, LineInv
<1>4. CASE WriteChange \/ WriteChangeFails
  BY <1>1, <1>4, WriteStep
<1>5. ASSUME NEW s \in Sends, TaskSends(s) PROVE FixesInv' /\ SenderInv'
  BY <1>1, <1>5, StartStep DEF TaskSends, phone
<1>6. CASE TimerTicks
  <2>1. UNCHANGED <<recorded, queue, changes, wire, rows>>
    BY <1>6 DEF TimerTicks, phone
  <2>2. CASE MaySend /\ \E s \in Sends : Start(s) /\ running' = s
    BY <1>1, <2>1, <2>2, StartStep
  <2>3. CASE ~MaySend /\ running' = flight /\ UNCHANGED <<sends, flight>>
    <3>1. SenderInv'
      BY <1>1, <2>3 DEF MaySend, SenderInv, SenderOK, YoungInFlight
    <3>2. \A t \in Sends : sends'[t].batch = sends[t].batch /\ sends'[t].stage = sends[t].stage
      BY <2>3
    <3> QED
      BY <1>1, <2>1, <3>1, <3>2, SenderStep DEF SenderInv, SenderOK
  <2> QED
    BY <1>6, <2>2, <2>3 DEF TimerTicks
<1>7. ASSUME NEW s \in Sends, ReadsQueue(s) PROVE FixesInv' /\ SenderInv'
  <2>1. UNCHANGED <<recorded, queue, wire, rows>> /\ sends[s].stage = "reading"
    BY <1>7 DEF ReadsQueue
  <2>2. CASE TakeBatch(s) /\ UNCHANGED changes
    BY <1>1, <2>1, <2>2, TakeBatchStep
  <2>3. CASE /\ ChangeQueue("doomed", queue \intersect Bad, s)
             /\ Goto(s, "dropping") /\ UNCHANGED <<flight, running>>
    <3>1. "dropping" \in Stage \ {"idle"} /\ Awaiting("doomed") = "dropping"
      BY DEF Stage, Awaiting
    <3>2. SenderInv'
      BY <1>1, <2>1, <2>3, <3>1, GotoKeepsSender
    <3>3. /\ queue \intersect Bad \in SUBSET Fixes
          /\ \A f \in queue \intersect Bad : ~Fresh(f)
          /\ sends \in [Sends -> Send]
      BY <1>1 DEF FixesInv, DataOK, Fresh, SenderInv, SenderOK
    <3>4. FixesInv'
      BY <1>1, <2>1, <2>3, <3>1, <3>3, AskStep DEF AwaitingStage
    <3> QED
      BY <3>2, <3>4
  <2> QED
    BY <1>7, <2>2, <2>3 DEF ReadsQueue
<1>8. ASSUME NEW s \in Sends, ReadsAgain(s) PROVE FixesInv' /\ SenderInv'
  BY <1>1, <1>8, TakeBatchStep DEF ReadsAgain, phone
<1>9. ASSUME NEW s \in Sends, ReadFails(s) \/ NoSession(s) PROVE FixesInv' /\ SenderInv'
  <2>1. End(s) /\ UNCHANGED <<recorded, queue, changes, wire, rows>>
        /\ sends[s].stage \in {"reading", "rereading", "session"}
    BY <1>9 DEF ReadFails, NoSession, phone
  <2> QED
    BY <1>1, <2>1, EndStep DEF AwaitingStage
<1>10. CASE (\E s \in Sends : Posts(s)) \/ RenewalAnswers
  BY <1>1, <1>10, PostStep
<1>11. ASSUME NEW s \in Sends, Renews(s) \/ Hangs(s) PROVE FixesInv' /\ SenderInv'
  <2>1. PICK stage \in {"renewing", "hung"} : Goto(s, stage)
    BY <1>11 DEF Renews, Hangs
  <2>2. /\ sends[s].stage \in {"session", "posting"}
        /\ UNCHANGED <<recorded, queue, changes, flight, running, wire, rows>>
    BY <1>11 DEF Renews, Hangs, phone
  <2> QED
    BY <1>1, <2>1, <2>2, GotoStep
<1>12. CASE RenewalFails
  <2>1. /\ Renewed("refused") /\ "refused" \in Stage \ {"idle"}
        /\ UNCHANGED <<recorded, queue, changes, flight, running, wire, rows>>
    BY <1>12 DEF RenewalFails, phone, Stage
  <2>2. SenderInv'
    BY <1>1, <2>1, RenewedKeepsSender
  <2>3. sends \in [Sends -> Send]
    BY <1>1 DEF SenderInv, SenderOK
  <2>4. \A t \in Sends :
           /\ sends'[t].batch = sends[t].batch
           /\ sends'[t].stage = IF sends[t].stage = "renewing" THEN "refused" ELSE sends[t].stage
    BY <2>1, <2>3, RenewedEffect
  <2>5. FixesInv'
    BY <1>1, <2>1, <2>3, <2>4, SenderStep DEF AwaitingStage
  <2> QED
    BY <2>2, <2>5
<1>13. ASSUME NEW s \in Sends, ServerStores(s) PROVE FixesInv' /\ SenderInv'
  BY <1>1, <1>13, StoreStep
<1>14. ASSUME NEW s \in Sends, Answered(s) PROVE FixesInv' /\ SenderInv'
  <2>1. /\ ChangeQueue("sent", sends[s].batch, s) /\ Goto(s, "removing")
        /\ sends[s].stage = "posting" /\ wire[s] = {}
        /\ UNCHANGED <<recorded, queue, flight, running, wire, rows>>
    BY <1>14 DEF Answered
  <2>2. "removing" \in Stage \ {"idle"} /\ Awaiting("sent") = "removing"
    BY DEF Stage, Awaiting
  <2>3. SenderInv'
    BY <1>1, <2>1, <2>2, GotoKeepsSender
  <2>4. sends \in [Sends -> Send] /\ sends[s].batch \in SUBSET Fixes
    BY <1>1 DEF SenderInv, SenderOK, Send
  <2>5. /\ \A f \in sends[s].batch : rows[f] > 0
        /\ \A f \in sends[s].batch : ~Fresh(f)
    BY <1>1, <2>1 DEF FixesInv, BatchesOK, Fresh
  <2>6. FixesInv'
    BY <1>1, <2>1, <2>2, <2>4, <2>5, AskStep DEF AwaitingStage
  <2> QED
    BY <2>3, <2>6
<1>15. ASSUME NEW s \in Sends, Refused(s) PROVE FixesInv' /\ SenderInv'
  <2>1. sends[s].stage = "refused" /\ UNCHANGED <<wire, rows>>
    BY <1>15 DEF Refused
  <2>2. CASE End(s) /\ UNCHANGED phone
    BY <1>1, <2>1, <2>2, EndStep DEF phone, AwaitingStage
  <2>3. CASE BackOff(s)
    BY <1>1, <2>1, <2>3, BackOffStep
  <2> QED
    BY <1>15, <2>2, <2>3 DEF Refused
<1>16. ASSUME NEW s \in Sends, PostFails(s) \/ AbortFires(s) PROVE FixesInv' /\ SenderInv'
  <2>1. /\ BackOff(s) /\ sends[s].stage \in {"posting", "hung"} /\ UNCHANGED rows
        /\ wire' \in {wire, [wire EXCEPT ![s] = {}]}
    BY <1>16 DEF PostFails, AbortFires
  <2> QED
    BY <1>1, <2>1, BackOffStep
<1>17. ASSUME NEW s \in Sends, MinutePasses(s) PROVE FixesInv' /\ SenderInv'
  <2>1. UNCHANGED <<recorded, queue, changes, wire, rows>>
    BY <1>17 DEF MinutePasses, phone
  <2>2. sends \in [Sends -> Send] /\ sends[s] \in Send
    BY <1>1 DEF SenderInv, SenderOK
  <2>3. \A t \in Sends : sends'[t].batch = sends[t].batch /\ sends'[t].stage = sends[t].stage
    BY <1>17, <2>2 DEF MinutePasses, Send
  <2>4. FixesInv'
    BY <1>1, <2>1, <2>2, <2>3, SenderStep
  <2> QED
    BY <1>1, <1>17, <2>4, MinuteKeepsSender
<1>18. CASE \/ Expires \/ RenewalHangs \/ OpenOrLeave \/ (\E f \in Fixes : DelayEnds(f))
            \/ UNCHANGED vars
  <2>1. UNCHANGED <<sends, flight, running, recorded, queue, changes, wire, rows>>
    BY <1>18 DEF Expires, RenewalHangs, OpenOrLeave, DelayEnds, vars, phone, sender
  <2>2. SenderInv' /\ DataOK' /\ BatchesOK' /\ LineInv'
    BY <1>1, <2>1 DEF SenderInv, SenderOK, YoungInFlight, FixesInv, DataOK, BatchesOK, LineInv
  <2>3. \A t \in Sends : sends'[t].batch = sends[t].batch /\ sends'[t].stage = sends[t].stage
    BY <2>1
  <2>4. FixesInv'
    BY <1>1, <2>1, <2>3, SenderStep DEF SenderInv, SenderOK
  <2> QED
    BY <2>2, <2>4
<1>19. CASE Kill
  <2>1. Idle \in Send /\ Idle.stage = "idle" /\ Idle.batch = {}
    BY DEF Idle, Send, Stage
  <2>2. /\ sends' = [s \in Sends |-> Idle] /\ flight' = NoSend /\ running' = NoSend
        /\ changes' = <<>> /\ UNCHANGED <<recorded, queue, wire, rows>>
    BY <1>19 DEF Kill
  <2>3. SenderInv'
    BY <2>1, <2>2 DEF SenderInv, SenderOK, YoungInFlight, NoSend
  <2>4. changes' \in Seq(Change) /\ Len(changes') = 0
    BY <2>2
  <2>5. LineInv'
    BY <2>4 DEF LineInv
  <2>6. DataOK' /\ BatchesOK'
    BY <1>1, <2>1, <2>2 DEF FixesInv, DataOK, BatchesOK
  <2>7. \A f \in Fixes : f > recorded' => Fresh(f)'
    BY <1>1, <2>1, <2>2 DEF FixesInv, ChangesOK, Fresh
  <2>8. ChangesOK'
    BY <2>4, <2>7 DEF ChangesOK
  <2> QED
    BY <2>3, <2>5, <2>6, <2>8 DEF FixesInv
<1> HIDE DEF FixesInv, SenderInv, LocationInv
<1> QED
  BY <1>2, <1>3, <1>4, <1>5, <1>6, <1>7, <1>8, <1>9, <1>10, <1>11, <1>12, <1>13, <1>14,
     <1>15, <1>16, <1>17, <1>18, <1>19, ZenonT(60) DEF LocationNext, SendStep

(* A fault stays within the bound; without one the count stays. *)
LEMMA FaultsKept ==
    ASSUME RestOK, [LocationNext]_vars PROVE faults' \in 0..MaxFaults
<1>1. Fault => faults' \in 0..MaxFaults
  BY LocationAssumption DEF RestOK, Fault
<1>2. [LocationNext]_vars => Fault \/ UNCHANGED faults
  <2>1. ASSUME NEW s \in Sends PROVE SendStep(s) => UNCHANGED faults
    BY DEF SendStep, ReadsQueue, ReadsAgain, Posts, Renews, Refused, Answered
  <2>2. ASSUME NEW s \in Sends
        PROVE  TaskSends(s) \/ ServerStores(s) \/ AbortFires(s) \/ MinutePasses(s)
               => UNCHANGED faults
    BY DEF TaskSends, ServerStores, AbortFires, MinutePasses
  <2>3. ASSUME NEW s \in Sends
        PROVE  ReadFails(s) \/ NoSession(s) \/ PostFails(s) \/ Hangs(s) => Fault
    BY DEF ReadFails, NoSession, PostFails, Hangs
  <2>4. ASSUME NEW last \in Fixes PROVE Record(last) \/ DelayEnds(last) => UNCHANGED faults
    BY DEF Record, DelayEnds
  <2>5. ReadForChange \/ WriteChange \/ TimerTicks \/ OpenOrLeave \/ Expires \/ RenewalAnswers
        => UNCHANGED faults
    BY DEF ReadForChange, WriteChange, TimerTicks, OpenOrLeave, Expires, RenewalAnswers
  <2>6. ReadForChangeFails \/ WriteChangeFails \/ Kill \/ RenewalFails \/ RenewalHangs => Fault
    BY DEF ReadForChangeFails, WriteChangeFails, Kill, RenewalFails, RenewalHangs
  <2>7. UNCHANGED vars => UNCHANGED faults
    BY DEF vars
  <2> QED
    BY <2>1, <2>2, <2>3, <2>4, <2>5, <2>6, <2>7, ZenonT(60) DEF LocationNext
<1> QED
  BY <1>1, <1>2 DEF RestOK

(* What the steps do to the queue and to who waits: the head of the line writes, *)
(* a fix falls due, or nothing.                                                  *)
LEMMA QueueMoves ==
    ASSUME [LocationNext]_vars
    PROVE  \/ WriteChange
           \/ UNCHANGED queue /\ waiting' \subseteq waiting
<1>1. ASSUME NEW s \in Sends
      PROVE  SendStep(s) => UNCHANGED <<queue, waiting>>
  <2>1. ReadsQueue(s) \/ Answered(s) => UNCHANGED <<queue, waiting>>
    BY DEF ReadsQueue, Answered
  <2>2. ReadsAgain(s) \/ Posts(s) \/ Renews(s) => UNCHANGED <<queue, waiting>>
    BY DEF ReadsAgain, Posts, Renews, phone
  <2>3. Refused(s) => UNCHANGED <<queue, waiting>>
    BY DEF Refused, BackOff, phone
  <2> QED
    BY <2>1, <2>2, <2>3 DEF SendStep
<1>2. ASSUME NEW s \in Sends
      PROVE  TaskSends(s) \/ ServerStores(s) \/ MinutePasses(s) \/ ReadFails(s) \/ NoSession(s)
             \/ Hangs(s) => UNCHANGED <<queue, waiting>>
  BY DEF TaskSends, ServerStores, MinutePasses, ReadFails, NoSession, Hangs, phone
<1>3. ASSUME NEW s \in Sends PROVE PostFails(s) \/ AbortFires(s) => UNCHANGED <<queue, waiting>>
  BY DEF PostFails, AbortFires, BackOff
<1>4. ASSUME NEW f \in Fixes PROVE Record(f) => UNCHANGED <<queue, waiting>>
  BY DEF Record
<1>5. ASSUME NEW f \in Fixes PROVE DelayEnds(f) => UNCHANGED queue /\ waiting' \subseteq waiting
  BY DEF DelayEnds
<1>6. ReadForChange \/ ReadForChangeFails \/ WriteChangeFails \/ Kill => UNCHANGED <<queue, waiting>>
  BY DEF ReadForChange, ReadForChangeFails, WriteChangeFails, Kill
<1>7. TimerTicks \/ OpenOrLeave \/ Expires \/ RenewalAnswers \/ RenewalFails \/ RenewalHangs
      => UNCHANGED <<queue, waiting>>
  BY DEF TimerTicks, OpenOrLeave, Expires, RenewalAnswers, RenewalFails, RenewalHangs, phone
<1>8. UNCHANGED vars => UNCHANGED <<queue, waiting>>
  BY DEF vars, phone
<1>9. UNCHANGED <<queue, waiting>> => UNCHANGED queue /\ waiting' \subseteq waiting
  OBVIOUS
<1> QED
  BY <1>1, <1>2, <1>3, <1>4, <1>5, <1>6, <1>7, <1>8, <1>9, ZenonT(60) DEF LocationNext

(* What the steps do to the token and the screen. *)
LEMMA TokenMoves ==
    ASSUME RestOK, [LocationNext]_vars
    PROVE  /\ expired' \in BOOLEAN /\ onScreen' \in BOOLEAN
           /\ renewal' \in {"none", "underway", "hung"}
<1> DEFINE Kept == expired' = expired /\ renewal' = renewal /\ onScreen' = onScreen
           Typed == /\ expired' \in BOOLEAN /\ onScreen' \in BOOLEAN
                    /\ renewal' \in {"none", "underway", "hung"}
<1>1. ASSUME NEW s \in Sends PROVE SendStep(s) => Kept \/ Typed
  <2>1. ReadsQueue(s) \/ ReadsAgain(s) \/ Posts(s) \/ Refused(s) \/ Answered(s) => Kept
    BY DEF ReadsQueue, ReadsAgain, Posts, Refused, Answered, token
  <2>2. Renews(s) => Typed
    BY DEF Renews, RestOK
  <2> QED
    BY <2>1, <2>2 DEF SendStep
<1>2. ASSUME NEW s \in Sends
      PROVE  TaskSends(s) \/ ServerStores(s) \/ MinutePasses(s) \/ ReadFails(s) \/ NoSession(s)
             \/ Hangs(s) \/ PostFails(s) \/ AbortFires(s) => Kept
  BY DEF TaskSends, ServerStores, MinutePasses, ReadFails, NoSession, Hangs, PostFails,
         AbortFires, token
<1>3. ASSUME NEW f \in Fixes PROVE Record(f) \/ DelayEnds(f) => Kept
  BY DEF Record, DelayEnds, token
<1>4. ReadForChange \/ ReadForChangeFails \/ WriteChange \/ WriteChangeFails \/ TimerTicks => Kept
  BY DEF ReadForChange, ReadForChangeFails, WriteChange, WriteChangeFails, TimerTicks, token
<1>5. OpenOrLeave => Typed
  BY DEF OpenOrLeave, token, RestOK
<1>6. Expires => Typed
  BY DEF Expires, RestOK
<1>7. RenewalAnswers \/ RenewalFails \/ RenewalHangs => Typed
  BY DEF RenewalAnswers, RenewalFails, RenewalHangs, RestOK
<1>8. Kill => Typed
  BY DEF Kill, RestOK
<1>9. UNCHANGED vars => Kept
  BY DEF vars, token
<1>10. Kept => Typed
  BY DEF RestOK
<1> HIDE DEF Kept
<1>11. Typed
  <2> HIDE DEF Typed
  <2> QED
    BY <1>1, <1>2, <1>3, <1>4, <1>5, <1>6, <1>7, <1>8, <1>9, <1>10, ZenonT(60) DEF LocationNext
<1> QED
  BY <1>11

(* The invariant. *)
LEMMA LocationInvariant == LocationSafety => []LocationInv
<1>1. LocationInv /\ [LocationNext]_vars => LocationInv'
  <2> SUFFICES ASSUME LocationInv, [LocationNext]_vars PROVE LocationInv'
    OBVIOUS
  <2>1. FixesInv' /\ SenderInv'
    BY StepKeeps
  <2>2. RestOK'
    <3>1. waiting' \in SUBSET queue'
      BY QueueMoves DEF LocationInv, RestOK, WriteChange
    <3> QED
      BY <3>1, FaultsKept, TokenMoves DEF LocationInv, RestOK
  <2> QED
    BY <2>1, <2>2 DEF LocationInv, FixesInv
<1> QED
  BY <1>1, InitKeeps, PTL DEF LocationSafety

(* At most one send is still within its minute: the one that holds the guard. *)
THEOREM OneYoungSendHolds == LocationSafety => []OneYoungSend
<1>1. LocationInv => OneYoungSend
  BY DEF LocationInv, SenderInv, YoungInFlight, OneYoungSend
<1> QED
  BY <1>1, LocationInvariant, PTL

(* What the steps do to the server's rows: a request that reaches it stores *)
(* its fixes, or nothing.                                                   *)
LEMMA RowsMove ==
    ASSUME [LocationNext]_vars
    PROVE  (\E s \in Sends : ServerStores(s)) \/ UNCHANGED rows
<1>1. ASSUME NEW s \in Sends PROVE SendStep(s) => UNCHANGED rows
  BY DEF SendStep, ReadsQueue, ReadsAgain, Posts, Renews, Refused, Answered
<1>2. ASSUME NEW s \in Sends
      PROVE  TaskSends(s) \/ MinutePasses(s) \/ ReadFails(s) \/ NoSession(s)
             \/ Hangs(s) \/ PostFails(s) \/ AbortFires(s) => UNCHANGED rows
  BY DEF TaskSends, MinutePasses, ReadFails, NoSession, Hangs, PostFails, AbortFires
<1>3. ASSUME NEW f \in Fixes PROVE Record(f) \/ DelayEnds(f) => UNCHANGED rows
  BY DEF Record, DelayEnds
<1>4. ReadForChange \/ ReadForChangeFails \/ WriteChange \/ WriteChangeFails \/ Kill
      => UNCHANGED rows
  BY DEF ReadForChange, ReadForChangeFails, WriteChange, WriteChangeFails, Kill
<1>5. TimerTicks \/ OpenOrLeave \/ Expires \/ RenewalAnswers \/ RenewalFails \/ RenewalHangs
      => UNCHANGED rows
  BY DEF TimerTicks, OpenOrLeave, Expires, RenewalAnswers, RenewalFails, RenewalHangs
<1>6. UNCHANGED vars => UNCHANGED rows
  BY DEF vars
<1> QED
  BY <1>1, <1>2, <1>3, <1>4, <1>5, <1>6, ZenonT(60) DEF LocationNext

(* However often a fix arrives, it is one row. *)
THEOREM StoredOnceHolds == LocationSafety => []StoredOnce
<1>1. LocationInit => StoredOnce
  BY DEF LocationInit, StoredOnce
<1>2. LocationInv /\ StoredOnce /\ [LocationNext]_vars => StoredOnce'
  <2> SUFFICES ASSUME LocationInv, StoredOnce, [LocationNext]_vars PROVE StoredOnce'
    OBVIOUS
  <2>1. rows \in [Fixes -> Nat]
    BY DEF LocationInv, DataOK
  <2>2. CASE UNCHANGED rows
    BY <2>2 DEF StoredOnce
  <2>3. ASSUME NEW s \in Sends, ServerStores(s) PROVE StoredOnce'
    BY <2>1, <2>3 DEF ServerStores, RowsWith, StoredOnce
  <2> QED
    BY <2>2, <2>3, RowsMove
<1> QED
  BY <1>1, <1>2, LocationInvariant, PTL DEF LocationSafety

(* Type correctness; neither the guard nor the timer is held by a send that is *)
(* over, and no fix is stored twice.                                           *)
THEOREM LocationTypeCorrect == LocationSafety => []LocationTypeOK
<1>1. LocationInv /\ StoredOnce => LocationTypeOK
  BY DEF LocationInv, SenderInv, SenderOK, LineInv, DataOK, RestOK, LocationTypeOK
<1> QED
  BY <1>1, LocationInvariant, StoredOnceHolds, PTL

(* The fixes the server has. *)
Stored == {f \in Fixes : rows[f] > 0}

(* A change that is written keeps new fixes, releases fixes for a reason, or *)
(* starts a queue that could not be read again.                              *)
LEMMA WriteDelivers ==
    ASSUME LocationInv, WriteChange
    PROVE  Delivery!Keep \/ Delivery!Release \/ Delivery!StartAgain
<1> DEFINE c == Head(changes)
<1>1. /\ changes # <<>> /\ changes \in Seq(Change) /\ c.read
      /\ queue' = Newest(Changed(c)) /\ UNCHANGED rows
  BY DEF WriteChange, LocationInv, LineInv
<1>2. c = changes[1] /\ c \in Change /\ 1 \in 1..Len(changes)
  BY <1>1, HeadIsChange
<1>3. ChangeOK(1)
  BY <1>2 DEF LocationInv, ChangesOK
<1>4. /\ c.kind = "append" => \A f \in c.ids : Fresh(f)
      /\ c.kind = "doomed" => c.ids \subseteq Bad
      /\ c.kind = "sent" => \A f \in c.ids : rows[f] > 0
      /\ c.torn => c.copy = {}
      /\ ~c.torn => c.copy = queue
  BY <1>1, <1>2, <1>3 DEF ChangeOK
<1>5. c.ids \subseteq Fixes /\ c.kind \in {"append", "doomed", "sent", "defer"}
  BY <1>2 DEF Change
<1>6. Stored' = Stored
  BY <1>1 DEF Stored
<1>7. \A fixes : Delivery!Newest(fixes) = Newest(fixes) /\ Newest(fixes) \subseteq fixes
  <2>1. \A fixes : Delivery!Cardinality(fixes) = Cardinality(fixes)
    BY DEF Delivery!Cardinality, Cardinality
  <2>2. \A fixes : Delivery!Newest(fixes) = Newest(fixes)
    BY <2>1, Zenon DEF Delivery!Newest, Newest
  <2>3. \A fixes : Newest(fixes) \subseteq fixes
    BY DEF Newest
  <2> QED
    BY <2>2, <2>3
<1>8. c.kind = "append" => c.ids \subseteq Delivery!Taken \ (queue \union Stored)
  BY <1>4, <1>5 DEF Fresh, Stored, Delivery!Taken, Fixes
<1>9. c.kind \in {"doomed", "sent"} => c.ids \subseteq Stored \union Bad
  BY <1>4, <1>5 DEF Stored
<1> HIDE DEF c, Newest, Fixes
<1>10. CASE c.torn
  <2>1. Changed(c) = IF c.kind = "append" THEN c.ids ELSE {}
    BY <1>4, <1>5, <1>10 DEF Changed
  <2>2. queue' \subseteq Delivery!Taken \ (queue \union Stored)
    BY <1>1, <1>7, <1>8, <2>1
  <2>3. changes # <<>> /\ Head(changes).torn
    BY <1>1, <1>10 DEF c
  <2> QED
    BY <1>6, <2>2, <2>3 DEF Delivery!StartAgain, Stored
<1>11. CASE ~c.torn /\ c.kind = "append"
  <2>1. queue' = Delivery!Newest(queue \union c.ids)
    BY <1>1, <1>4, <1>7, <1>11 DEF Changed
  <2>2. c.ids \in SUBSET (Delivery!Taken \ Stored)
    BY <1>8, <1>11
  <2> QED
    BY <1>6, <2>1, <2>2 DEF Delivery!Keep, Stored
<1>12. CASE ~c.torn /\ c.kind # "append"
  <2>1. PICK gone \in SUBSET (Stored \union Bad) : Changed(c) = queue \ gone
    <3>1. CASE c.kind = "defer"
      <4>1. Changed(c) = queue \ {}
        BY <1>4, <1>12, <3>1 DEF Changed
      <4> QED
        BY <4>1
    <3>2. CASE c.kind \in {"doomed", "sent"}
      <4>1. Changed(c) = queue \ c.ids
        BY <1>4, <1>12, <3>2 DEF Changed
      <4> QED
        BY <1>9, <3>2, <4>1
    <3> QED
      BY <1>5, <1>12, <3>1, <3>2
  <2>2. queue' = Delivery!Newest(queue \ gone)
    BY <1>1, <1>7, <2>1
  <2> QED
    BY <1>6, <2>1, <2>2 DEF Delivery!Release, Stored
<1> QED
  BY <1>10, <1>11, <1>12

(* The queue implements FixDelivery: the kept fixes are those in the         *)
(* key-value store, the stored ones those the server has a row of.           *)
THEOREM DeliveredHolds == LocationSafety => Delivered
<1>1. LocationInit => Delivery!DeliveryInit
  BY DEF LocationInit, Delivery!DeliveryInit
<1>2. LocationInv /\ LocationInv' /\ [LocationNext]_vars
      => [Delivery!DeliveryNext]_<<queue, Stored, changes # <<>> /\ Head(changes).torn>>
  <2> SUFFICES ASSUME LocationInv, LocationInv', [LocationNext]_vars
               PROVE  Delivery!DeliveryNext
    OBVIOUS
  <2>1. (changes # <<>> /\ Head(changes).torn)' \in BOOLEAN
    BY HeadIsChange DEF LocationInv, LineInv, Change
  <2>2. CASE WriteChange
    BY <2>1, <2>2, WriteDelivers DEF Delivery!DeliveryNext
  <2>3. CASE UNCHANGED <<queue, rows>>
    <3>1. Stored' = Stored \union {} /\ UNCHANGED queue
      BY <2>3 DEF Stored
    <3>2. {} \in SUBSET (Delivery!Taken \ Bad)
      OBVIOUS
    <3>3. Delivery!Store
      BY <3>1, <3>2, Zenon DEF Delivery!Store, Stored
    <3> QED
      BY <2>1, <3>3 DEF Delivery!DeliveryNext
  <2>4. ASSUME NEW s \in Sends, ServerStores(s), UNCHANGED queue PROVE Delivery!DeliveryNext
    <3>1. wire[s] \subseteq Fixes /\ rows \in [Fixes -> Nat]
      BY DEF LocationInv, DataOK
    <3>2. Stored' = Stored \union (wire[s] \ Bad)
      BY <2>4, <3>1 DEF ServerStores, RowsWith, Stored
    <3>3. Delivery!Store
      BY <2>4, <3>1, <3>2 DEF Delivery!Store, Delivery!Taken, Stored, Fixes
    <3> QED
      BY <2>1, <3>3 DEF Delivery!DeliveryNext
  <2> QED
    BY <2>2, <2>3, <2>4, QueueMoves, RowsMove
<1> QED
  BY <1>1, <1>2, LocationInvariant, PTL
  DEF LocationSafety, Delivered, Delivery!DeliverySpec, Stored
============================================================================
