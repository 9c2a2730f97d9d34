-------------------------- MODULE ServerCacheProofs --------------------------
(***************************************************************************)
(* ServerCache implements FreshReads for any number of readers, writers,   *)
(* writes and faults, proved with TLAPS.                                   *)
(***************************************************************************)
EXTENDS ServerCache, TLAPS

(* What is cached, loaded or about to be acknowledged has been committed. *)
Committed ==
    /\ acked <= db
    /\ \A r \in Reader : floor[r] <= acked
    /\ \A w \in Writer : writer[w].wrote <= db
    /\ \A v \in Version : /\ val[v] <= db
                          /\ flight[v].value <= db
                          /\ flight[v].stage = "storing" => flight[v].value # NoValue

(* As new as everything that has been acknowledged or is about to be. *)
Fresh(value) ==
    /\ acked <= value
    /\ \A w \in Writer : writer[w].stage = "acknowledge" => writer[w].wrote <= value

(* What a read under version v can be given without a new query. *)
Kept(v) ==
    ({val[v]} \ {NoValue})
    \union {value \in {flight[v].value} : flight[v].stage = "storing"}

(* Nothing is kept under a version the namespace has not reached, and what *)
(* is kept under the one it has is fresh.                                  *)
NamespaceFresh ==
    \A v \in Version :
        /\ v > namespace => val[v] = NoValue /\ flight[v].stage = "none"
        /\ v = namespace => \A value \in Kept(v) : Fresh(value)

(* A read holds a version the namespace has had, and nothing kept under it *)
(* is older than the writes acknowledged before the read.                  *)
ReadersServed ==
    \A r \in Reader : reader[r].stage \in {"value", "waiting"} =>
        /\ reader[r].version <= namespace
        /\ \A value \in Kept(reader[r].version) : floor[r] <= value

TypeInv == CacheTypeOK /\ Committed

CacheInv == TypeInv /\ (excused \/ (NamespaceFresh /\ ReadersServed))

(* The record of nothing under way is well typed. *)
LEMMA Nothing ==
    /\ NoRead \in [stage : ReaderStage, version : Version]
    /\ NoWrite \in [stage : WriterStage, wrote : Value]
    /\ NoFlight \in [stage : FlightStage, value : Cached]
    /\ 0 \in Value /\ 0 \in Version /\ NoValue \in Cached /\ NoValue < 0
  BY CacheAssumption DEF NoRead, NoWrite, NoFlight, ReaderStage, WriterStage, FlightStage,
     Version, Value, Cached, NoValue

(* A command leaves the connection and the count of faults well typed. *)
LEMMA CommandsTyped ==
    ASSUME conn \in Connection, faults \in 0..MaxFaults
    PROVE  /\ Replies => conn' \in Connection /\ faults' \in 0..MaxFaults
           /\ Skipped => conn' \in Connection /\ faults' \in 0..MaxFaults
           /\ Fails => conn' \in Connection /\ faults' \in 0..MaxFaults
           /\ Fault => faults' \in 0..MaxFaults
  BY CacheAssumption DEF Replies, Skipped, Fails, Fault, Connection

(* The reads that come back leave readers and answers well typed. *)
LEMMA ReturnTyped ==
    ASSUME CacheTypeOK, NEW readers \in SUBSET Reader, NEW value \in Cached, Return(readers, value)
    PROVE  /\ reader' \in [Reader -> [stage : ReaderStage, version : Version]]
           /\ answer' \in [Reader -> Cached]
  BY Nothing DEF CacheTypeOK, Return, Leave

(* The cache starts empty and well typed. *)
LEMMA CacheStarts == CacheInit => TypeInv
<1> USE CacheAssumption, Nothing DEF TypeInv, CacheTypeOK, Committed
<1> SUFFICES ASSUME CacheInit PROVE TypeInv
  OBVIOUS
<1>1. NoFlight.value = NoValue /\ NoFlight.stage # "storing" /\ NoWrite.wrote = 0
  BY DEF NoFlight, NoWrite
<1> QED
  <2>1. CacheTypeOK
    <3>1. /\ db \in Value /\ acked \in Value /\ namespace \in Version
          /\ faults \in 0..MaxFaults /\ conn \in Connection
      BY DEF CacheInit, Connection
    <3>4. excused \in BOOLEAN
      BY Zenon DEF CacheInit
    <3>2. /\ val \in [Version -> Cached] /\ answer \in [Reader -> Cached]
          /\ floor \in [Reader -> Value]
      BY DEF CacheInit
    <3>3. /\ flight \in [Version -> [stage : FlightStage, value : Cached]]
          /\ reader \in [Reader -> [stage : ReaderStage, version : Version]]
          /\ writer \in [Writer -> [stage : WriterStage, wrote : Value]]
      BY DEF CacheInit
    <3> QED
      BY <3>1, <3>2, <3>3, <3>4
  <2>2. Committed
    BY <1>1 DEF CacheInit, NoValue
  <2> QED
    BY <2>1, <2>2

(* Type correctness, and that only what has been committed is about. *)
LEMMA CacheTyped == CacheSafety => []TypeInv
<1> USE CacheAssumption, Nothing DEF TypeInv, CacheTypeOK, Committed
<1>1. CacheInit => TypeInv
  BY CacheStarts
<1>2. TypeInv /\ [CacheNext]_cacheVars => TypeInv'
  <2> SUFFICES ASSUME TypeInv, [CacheNext]_cacheVars PROVE TypeInv'
    OBVIOUS
  <2> USE DEF redis, promise, cacheVars
  <2>1. ASSUME NEW r \in Reader, Begin(r) PROVE TypeInv'
    <3>1. UNCHANGED <<db, redis, conn, flight, writer, faults, acked>>
      BY <2>1 DEF Begin
    <3>2. UNCHANGED excused
      BY <2>1, Zenon DEF Begin
    <3>3. reader' \in [Reader -> [stage : ReaderStage, version : Version]]
      BY <2>1 DEF Begin, Goto, ReaderStage
    <3>4. /\ floor' \in [Reader -> Value] /\ \A q \in Reader : floor'[q] =< acked
          /\ answer' \in [Reader -> Cached]
      BY <2>1 DEF Begin, Value, Cached
    <3> QED
      BY <3>1, <3>2, <3>3, <3>4
  <2>2. ASSUME NEW r \in Reader, ReadVersion(r) PROVE TypeInv'
    <3>1. Replies \/ Skipped \/ Fails
      BY <2>2 DEF ReadVersion, NoReply
    <3>2. conn' \in Connection /\ faults' \in 0..MaxFaults
      BY <3>1, CommandsTyped
    <3>3. PICK v \in Version : reader' = [reader EXCEPT ![r] = [stage |-> "value", version |-> v]]
      BY <2>2 DEF ReadVersion
    <3>4. reader' \in [Reader -> [stage : ReaderStage, version : Version]]
      BY <3>3 DEF ReaderStage
    <3>5. excused' \in BOOLEAN
      BY <2>2, Zenon DEF ReadVersion
    <3>6. UNCHANGED <<db, redis, flight, writer, promise>>
      BY <2>2 DEF ReadVersion
    <3> QED
      BY <3>2, <3>4, <3>5, <3>6
  <2>3. ASSUME NEW r \in Reader, ReadValue(r) PROVE TypeInv'
    <3> DEFINE v == reader[r].version
    <3>1. Replies \/ Skipped \/ Fails
      BY <2>3 DEF ReadValue, NoReply
    <3>2. conn' \in Connection /\ faults' \in 0..MaxFaults
      BY <3>1, CommandsTyped
    <3>3. UNCHANGED <<db, redis, writer, acked, floor, excused>>
      BY <2>3 DEF ReadValue
    <3>4. CASE Return({r}, val[v]) /\ UNCHANGED flight
      BY <3>2, <3>3, <3>4, ReturnTyped
    <3>5. CASE Goto(r, "waiting") /\ UNCHANGED <<flight, answer>>
      BY <3>2, <3>3, <3>5 DEF Goto, ReaderStage
    <3>6. CASE Goto(r, "waiting") /\ flight' = [flight EXCEPT ![v].stage = "reading"] /\ UNCHANGED answer
      BY <3>2, <3>3, <3>6 DEF Goto, ReaderStage, FlightStage
    <3> QED
      BY <2>3, <3>4, <3>5, <3>6 DEF ReadValue
  <2>4. ASSUME NEW r \in Reader, Direct(r) PROVE TypeInv'
    BY <2>4, ReturnTyped DEF Direct, Value, Cached
  <2>5. ASSUME NEW r \in Reader, DirectFails(r) PROVE TypeInv'
    BY <2>5 DEF DirectFails, Leave
  <2>6. ASSUME NEW v \in Version, SecondRead(v) PROVE TypeInv'
    <3>1. Replies \/ Skipped \/ Fails
      BY <2>6 DEF SecondRead, NoReply
    <3>2. conn' \in Connection /\ faults' \in 0..MaxFaults
      BY <3>1, CommandsTyped
    <3>3. UNCHANGED <<db, redis, writer, acked, floor, excused>>
      BY <2>6 DEF SecondRead
    <3>4. CASE Land(v, val[v])
      <4>1. Return(Waiting(v), val[v]) /\ flight' = [flight EXCEPT ![v] = NoFlight]
        BY <3>4 DEF Land
      <4>2. /\ reader' \in [Reader -> [stage : ReaderStage, version : Version]]
            /\ answer' \in [Reader -> Cached]
        BY <4>1, ReturnTyped DEF Waiting
      <4> QED
        BY <3>2, <3>3, <4>1, <4>2 DEF NoFlight, Value, NoValue
    <3>5. CASE flight' = [flight EXCEPT ![v].stage = "loading"] /\ UNCHANGED <<reader, answer>>
      BY <3>2, <3>3, <3>5 DEF FlightStage
    <3> QED
      BY <2>6, <3>4, <3>5 DEF SecondRead
  <2>7. ASSUME NEW v \in Version, Loads(v) PROVE TypeInv'
    BY <2>7 DEF Loads, FlightStage, Value, Cached, NoValue
  <2>8. ASSUME NEW v \in Version, LoadFails(v) PROVE TypeInv'
    <3>1. reader' \in [Reader -> [stage : ReaderStage, version : Version]]
      BY <2>8 DEF LoadFails, Leave
    <3>2. flight' = [flight EXCEPT ![v] = NoFlight]
          /\ UNCHANGED <<db, redis, conn, writer, faults, promise, excused>>
      BY <2>8 DEF LoadFails
    <3> QED
      BY <3>1, <3>2 DEF NoFlight, Value, NoValue
  <2>9. ASSUME NEW v \in Version, Stores(v) PROVE TypeInv'
    <3>1. Replies \/ Skipped \/ Fails
      BY <2>9 DEF Stores, NoReply
    <3>2. conn' \in Connection /\ faults' \in 0..MaxFaults
      BY <3>1, CommandsTyped
    <3>3. Return(Waiting(v), flight[v].value) /\ flight' = [flight EXCEPT ![v] = NoFlight]
      BY <2>9 DEF Stores, Land
    <3>4. /\ reader' \in [Reader -> [stage : ReaderStage, version : Version]]
          /\ answer' \in [Reader -> Cached]
      BY <3>3, ReturnTyped DEF Waiting
    <3>5. val' = val \/ val' = [val EXCEPT ![v] = flight[v].value]
      BY <2>9 DEF Stores
    <3>6. val' \in [Version -> Cached] /\ \A u \in Version : val'[u] <= db
      BY <3>5
    <3>7. UNCHANGED <<db, namespace, writer, acked, floor, excused>>
      BY <2>9 DEF Stores
    <3>8. NoFlight.value = NoValue /\ NoFlight.stage # "storing" /\ NoValue <= db
      BY DEF NoFlight, NoValue, Value
    <3>9. /\ flight' \in [Version -> [stage : FlightStage, value : Cached]]
          /\ \A u \in Version : /\ flight'[u].value <= db
                                /\ flight'[u].stage = "storing" => flight'[u].value # NoValue
      BY <3>3, <3>8
    <3> QED
      BY <3>2, <3>4, <3>6, <3>7, <3>9
  <2>10. ASSUME NEW v \in Version, Expire(v) PROVE TypeInv'
    <3>1. NoValue <= db
      BY DEF Value, NoValue
    <3> QED
      BY <2>10, <3>1 DEF Expire
  <2>11. ASSUME NEW w \in Writer, Commit(w) PROVE TypeInv'
    <3>1. /\ db' = db + 1 /\ db' \in Value /\ db \in Nat
          /\ writer' = [writer EXCEPT ![w] = [stage |-> "bump", wrote |-> db + 1]]
      BY <2>11 DEF Commit, Value
    <3>2. UNCHANGED <<redis, conn, flight, reader, faults, promise, excused>>
      BY <2>11 DEF Commit
    <3>3. writer' \in [Writer -> [stage : WriterStage, wrote : Value]]
          /\ \A u \in Writer : writer'[u].wrote =< db'
      BY <3>1 DEF WriterStage, Value
    <3>4. acked' =< db' /\ \A v \in Version : val'[v] =< db' /\ flight'[v].value =< db'
      BY <3>1, <3>2 DEF Value, Cached, NoValue
    <3> QED
      BY <3>1, <3>2, <3>3, <3>4
  <2>12. ASSUME NEW w \in Writer, Bump(w) PROVE TypeInv'
    <3>1. Replies \/ Skipped \/ Fails
      BY <2>12 DEF Bump
    <3>2. conn' \in Connection /\ faults' \in 0..MaxFaults
      BY <3>1, CommandsTyped
    <3>3. PICK stage \in WriterStage : GotoW(w, stage)
      BY <2>12 DEF Bump, WriterStage
    <3>4. writer' \in [Writer -> [stage : WriterStage, wrote : Value]]
          /\ \A u \in Writer : writer'[u].wrote = writer[u].wrote
      BY <3>3 DEF GotoW
    <3>5. Incr \/ UNCHANGED namespace
      BY <2>12 DEF Bump
    <3>6. namespace' \in Version
      BY <3>5 DEF Incr, Version
    <3>7. excused' \in BOOLEAN
      BY <2>12, Zenon DEF Bump
    <3>8. UNCHANGED <<db, val, flight, reader, promise>>
      BY <2>12 DEF Bump
    <3> QED
      BY <3>2, <3>4, <3>6, <3>7, <3>8
  <2>13. ASSUME NEW w \in Writer, Acknowledge(w) PROVE TypeInv'
    BY <2>13 DEF Acknowledge, NoWrite, Value
  <2>14. CASE SocketCloses
    BY <2>14, CommandsTyped DEF SocketCloses, Connection
  <2>15. CASE RedisRestarts
    <3>1. NoValue <= db
      BY DEF Value, NoValue
    <3>2. faults' \in 0..MaxFaults /\ conn' \in Connection
      BY <2>15, CommandsTyped DEF RedisRestarts, Connection
    <3> QED
      BY <2>15, <3>1, <3>2 DEF RedisRestarts
  <2>16. CASE Ready \/ GivesUp
    BY <2>16 DEF Ready, GivesUp, Connection
  <2>17. CASE ApiRestarts
    <3>1. NoFlight.value <= db /\ NoFlight.stage # "storing" /\ NoWrite.wrote <= db
      BY DEF Value, NoFlight, NoWrite, NoValue
    <3>2. faults' \in 0..MaxFaults /\ conn' \in Connection
      BY <2>17, CommandsTyped DEF ApiRestarts, Connection
    <3> QED
      BY <2>17, <3>1, <3>2 DEF ApiRestarts
  <2>18. CASE UNCHANGED cacheVars
    BY <2>18
  <2> QED
    BY <2>1, <2>2, <2>3, <2>4, <2>5, <2>6, <2>7, <2>8, <2>9, <2>10, <2>11, <2>12, <2>13,
       <2>14, <2>15, <2>16, <2>17, <2>18 DEF CacheNext, FlightStep
<1> QED
  BY <1>1, <1>2, PTL DEF CacheSafety

(* The cache, its readers and its writers are well typed whatever fails. *)
THEOREM CacheTypeCorrect == CacheSafety => []CacheTypeOK
BY CacheTyped, PTL DEF TypeInv

----------------------------------------------------------------------------
Served(r) == reader[r].stage \in {"value", "waiting"}

(* A step that lets nothing new be kept, makes nothing kept less fresh and *)
(* lets no read take up a version keeps both halves of the invariant.      *)
LEMMA NothingNewKept ==
    ASSUME NamespaceFresh, ReadersServed, UNCHANGED namespace,
           \A v \in Version : Kept(v)' \subseteq Kept(v),
           \A v \in Version : v > namespace => val'[v] = val[v] /\ flight'[v].stage = flight[v].stage,
           \A value : Fresh(value) => Fresh(value)',
           \A r \in Reader : Served(r)' => /\ Served(r) /\ reader'[r].version = reader[r].version
                                           /\ reader[r].version \in Version
                                           /\ floor'[r] = floor[r]
    PROVE  NamespaceFresh' /\ ReadersServed'
<1>1. NamespaceFresh'
  BY DEF NamespaceFresh
<1>2. ReadersServed'
  <2> SUFFICES ASSUME NEW r \in Reader, Served(r)'
               PROVE  /\ reader'[r].version <= namespace'
                      /\ \A value \in Kept(reader[r].version)' : floor'[r] <= value
    BY DEF ReadersServed, Served
  <2>1. /\ Served(r) /\ reader'[r].version = reader[r].version
        /\ reader[r].version \in Version /\ floor'[r] = floor[r]
    OBVIOUS
  <2>2. Kept(reader[r].version)' \subseteq Kept(reader[r].version)
    BY <2>1 DEF Kept
  <2> QED
    BY <2>1, <2>2 DEF ReadersServed, Served
<1> QED
  BY <1>1, <1>2

(* What is fresh stays fresh while no write is bumped or acknowledged. *)
LEMMA FreshStays ==
    ASSUME UNCHANGED acked, \A w \in Writer : writer'[w].stage = "acknowledge" => writer'[w] = writer[w]
    PROVE  \A value : Fresh(value) => Fresh(value)'
  BY DEF Fresh

(* The invariant holds of every step that loses no bump. *)
LEMMA CacheStep ==
    ASSUME TypeInv, CacheInv, TypeInv', [CacheNext]_cacheVars, ~excused, ~excused'
    PROVE  NamespaceFresh' /\ ReadersServed'
<1>t. /\ namespace \in Version /\ namespace \in Nat /\ Version \subseteq Nat
      /\ db \in Value /\ acked \in Value /\ floor \in [Reader -> Value]
      /\ Value \subseteq Int /\ Cached \subseteq Int
  BY DEF TypeInv, CacheTypeOK, Version, Value, Cached, NoValue
<1>r. reader \in [Reader -> [stage : ReaderStage, version : Version]]
  BY DEF TypeInv, CacheTypeOK
<1>w. writer \in [Writer -> [stage : WriterStage, wrote : Value]]
  BY DEF TypeInv, CacheTypeOK
<1>f. flight \in [Version -> [stage : FlightStage, value : Cached]] /\ val \in [Version -> Cached]
  BY DEF TypeInv, CacheTypeOK
<1>0. NamespaceFresh /\ ReadersServed
  BY DEF CacheInv
<1>c. Committed
  BY DEF TypeInv
<1>1. ASSUME NEW r \in Reader, ReadVersion(r) PROVE NamespaceFresh' /\ ReadersServed'
  <2>1. reader' = [reader EXCEPT ![r] = [stage |-> "value", version |-> namespace]]
    BY <1>t, <1>r, <1>w, <1>f, <1>1 DEF ReadVersion
  <2>2. UNCHANGED <<db, namespace, val, flight, writer, acked, floor, answer>>
    BY <1>t, <1>r, <1>w, <1>f, <1>1 DEF ReadVersion, redis, promise
  <2>3. NamespaceFresh'
    BY <1>t, <1>r, <1>w, <1>f, <1>0, <2>2 DEF NamespaceFresh, Kept, Fresh
  <2>4. \A value \in Kept(namespace) : floor[r] <= value
    <3>1. namespace \in Version /\ floor[r] <= acked /\ floor[r] \in Value /\ acked \in Value
      BY <1>t, <1>c DEF Committed
    <3>2. Kept(namespace) \subseteq Cached
      BY <1>t, <1>r, <1>w, <1>f, <3>1 DEF Kept
    <3>3. \A value \in Kept(namespace) : acked <= value
      BY <1>t, <1>r, <1>w, <1>f, <1>0, <3>1 DEF NamespaceFresh, Fresh
    <3> QED
      BY <1>t, <1>r, <1>w, <1>f, <3>1, <3>2, <3>3 DEF Value, Cached, NoValue
  <2>5. \A v \in Version : Kept(v)' = Kept(v)
    BY <1>t, <1>r, <1>w, <1>f, <2>2 DEF Kept
  <2>6. ReadersServed'
    BY <1>t, <1>r, <1>w, <1>f, <1>0, <2>1, <2>2, <2>4, <2>5 DEF ReadersServed, Version
  <2> QED
    BY <1>t, <1>r, <1>w, <1>f, <2>3, <2>6
<1>2. ASSUME NEW v \in Version, Loads(v) PROVE NamespaceFresh' /\ ReadersServed'
  <2>1. /\ flight' = [flight EXCEPT ![v] = [stage |-> "storing", value |-> db]]
        /\ flight[v].stage = "loading"
        /\ UNCHANGED <<db, namespace, val, reader, writer, acked, floor>>
    BY <1>t, <1>r, <1>w, <1>f, <1>2 DEF Loads, redis, promise
  <2>2. Fresh(db) /\ \A r \in Reader : floor[r] <= db
    BY <1>t, <1>w, <1>c DEF Fresh, Committed, Value
  <2>3. \A u \in Version : Kept(u)' \subseteq Kept(u) \union {db}
    BY <1>t, <1>r, <1>w, <1>f, <2>1 DEF Kept
  <2>4. \A value : Fresh(value)' <=> Fresh(value)
    BY <1>t, <1>r, <1>w, <1>f, <2>1 DEF Fresh
  <2>5. NamespaceFresh'
    BY <1>t, <1>r, <1>w, <1>f, <1>0, <2>1, <2>2, <2>3, <2>4 DEF NamespaceFresh
  <2>6. ReadersServed'
    BY <1>t, <1>r, <1>w, <1>f, <1>0, <2>1, <2>2, <2>3 DEF ReadersServed
  <2> QED
    BY <1>t, <1>r, <1>w, <1>f, <2>5, <2>6
<1>3. ASSUME NEW w \in Writer, Bump(w), Incr PROVE NamespaceFresh' /\ ReadersServed'
  <2>1. namespace' = namespace + 1 /\ UNCHANGED <<db, val, flight, reader, acked, floor>>
    BY <1>t, <1>r, <1>w, <1>f, <1>3 DEF Bump, Incr, promise
  <2>2. \A v \in Version : v > namespace => Kept(v) = {}
    BY <1>t, <1>r, <1>w, <1>f, <1>0 DEF NamespaceFresh, Kept
  <2>3. \A v \in Version : Kept(v)' = Kept(v)
    BY <1>t, <1>r, <1>w, <1>f, <2>1 DEF Kept
  <2>4. NamespaceFresh'
    <3> SUFFICES ASSUME NEW v \in Version
                 PROVE  /\ v > namespace' => val'[v] = NoValue /\ flight'[v].stage = "none"
                        /\ v = namespace' => Kept(v)' = {}
      BY <1>t, <1>r, <1>w, <1>f DEF NamespaceFresh
    <3>1. v > namespace' \/ v = namespace' => v > namespace
      BY <1>t, <1>r, <1>w, <1>f, <2>1 DEF Version
    <3> QED
      BY <1>t, <1>r, <1>w, <1>f, <1>0, <2>1, <2>2, <2>3, <3>1 DEF NamespaceFresh
  <2>5. ReadersServed'
    <3> SUFFICES ASSUME NEW r \in Reader, Served(r)
                 PROVE  /\ reader[r].version <= namespace'
                        /\ \A value \in Kept(reader[r].version)' : floor[r] <= value
      BY <1>t, <1>r, <1>w, <1>f, <2>1 DEF ReadersServed, Served
    <3>1. /\ reader[r].version \in Version /\ reader[r].version <= namespace
          /\ \A value \in Kept(reader[r].version) : floor[r] <= value
      BY <1>t, <1>r, <1>w, <1>f, <1>0 DEF ReadersServed, Served
    <3>2. Kept(reader[r].version)' = Kept(reader[r].version)
      BY <1>t, <1>r, <1>w, <1>f, <2>1 DEF Kept
    <3> QED
      BY <1>t, <1>r, <1>w, <1>f, <2>1, <3>1, <3>2 DEF Version
  <2> QED
    BY <1>t, <1>r, <1>w, <1>f, <2>4, <2>5
<1>4. ASSUME NEW w \in Writer, Bump(w), ~Incr PROVE NamespaceFresh' /\ ReadersServed'
  <2>1. GotoW(w, "again") /\ UNCHANGED <<namespace, val, flight, reader, acked, floor>>
    BY <1>t, <1>r, <1>w, <1>f, <1>4 DEF Bump, promise
  <2>2. \A value : Fresh(value) => Fresh(value)'
    BY <1>t, <1>r, <1>w, <1>f, <2>1, FreshStays DEF GotoW
  <2> QED
    BY <1>t, <1>r, <1>w, <1>f, <1>0, <2>1, <2>2, NothingNewKept DEF Kept, Served
<1>5. ASSUME NEW w \in Writer, Acknowledge(w) PROVE NamespaceFresh' /\ ReadersServed'
  <2>1. /\ writer' = [writer EXCEPT ![w] = NoWrite] /\ writer[w].stage = "acknowledge"
        /\ acked' \in {acked, writer[w].wrote}
        /\ UNCHANGED <<namespace, val, flight, reader, floor>>
    BY <1>t, <1>r, <1>w, <1>f, <1>5 DEF Acknowledge, redis
  <2>2. \A value : Fresh(value) => Fresh(value)'
    BY <1>t, <1>r, <1>w, <1>f, <2>1 DEF Fresh, NoWrite
  <2> QED
    BY <1>t, <1>r, <1>w, <1>f, <1>0, <2>1, <2>2, NothingNewKept DEF Kept, Served
<1>6. ASSUME NEW r \in Reader, Begin(r) PROVE NamespaceFresh' /\ ReadersServed'
  <2>1. /\ \E stage \in {"version", "direct"} : Goto(r, stage)
        /\ \A q \in Reader : q # r => floor'[q] = floor[q]
        /\ UNCHANGED <<namespace, val, flight, writer, acked>>
    BY <1>t, <1>r, <1>w, <1>f, <1>6 DEF Begin, redis
  <2>2. \A value : Fresh(value) => Fresh(value)'
    BY <1>t, <1>r, <1>w, <1>f, <2>1, FreshStays
  <2>3. \A q \in Reader : Served(q)' => q # r /\ reader'[q] = reader[q]
    BY <1>t, <1>r, <1>w, <1>f, <2>1 DEF Goto, Served
  <2>4. \A q \in Reader : Served(q)' => /\ Served(q) /\ reader'[q].version = reader[q].version
                                        /\ reader[q].version \in Version
                                        /\ floor'[q] = floor[q]
    BY <1>t, <1>r, <1>w, <1>f, <2>1, <2>3 DEF Served
  <2> QED
    BY <1>t, <1>r, <1>w, <1>f, <1>0, <2>1, <2>2, <2>4, NothingNewKept DEF Kept
<1>7. ASSUME NEW r \in Reader, ReadValue(r) PROVE NamespaceFresh' /\ ReadersServed'
  <2>1. /\ UNCHANGED <<namespace, val, writer, acked, floor>> /\ reader[r].stage = "value"
        /\ \/ reader' = [q \in Reader |-> IF q \in {r} THEN NoRead ELSE reader[q]]
           \/ Goto(r, "waiting")
        /\ \/ UNCHANGED flight
           \/ /\ flight[reader[r].version].stage = "none"
              /\ flight' = [flight EXCEPT ![reader[r].version].stage = "reading"]
    BY <1>t, <1>r, <1>w, <1>f, <1>7 DEF ReadValue, Return, Leave, redis
  <2>2. \A value : Fresh(value) => Fresh(value)'
    BY <1>t, <1>r, <1>w, <1>f, <2>1, FreshStays
  <2>3. \A v \in Version : Kept(v)' \subseteq Kept(v)
    BY <1>t, <1>r, <1>w, <1>f, <2>1 DEF Kept
  <2>4. \A v \in Version : v > namespace => flight'[v].stage = flight[v].stage
    <3>1. reader[r].version \in Version /\ reader[r].version <= namespace
      BY <1>0, <1>r, <2>1 DEF ReadersServed
    <3>2. \A v \in Version : v > namespace => v # reader[r].version
      BY <1>t, <3>1
    <3> QED
      BY <1>f, <2>1, <3>1, <3>2
  <2>5. \A q \in Reader : Served(q)' => /\ Served(q) /\ reader'[q].version = reader[q].version
                                        /\ reader[q].version \in Version
                                        /\ floor'[q] = floor[q]
    <3>1. \A q \in Reader : q # r => reader'[q] = reader[q]
      BY <1>r, <2>1 DEF Goto
    <3>2. Served(r)' => reader'[r].version = reader[r].version
      BY <1>r, <2>1 DEF Served, Goto, NoRead
    <3>3. Served(r) /\ \A q \in Reader : reader[q].version \in Version
      BY <1>r, <2>1 DEF Served
    <3> QED
      BY <2>1, <3>1, <3>2, <3>3 DEF Served
  <2> QED
    BY <1>0, <2>1, <2>2, <2>3, <2>4, <2>5, NothingNewKept
<1>8. ASSUME NEW v \in Version, v <= namespace \/ flight[v].stage # "none" \/ val[v] # NoValue,
             UNCHANGED <<namespace, writer, acked, floor>>,
             \A u \in Version : u # v => val'[u] = val[u] /\ flight'[u] = flight[u],
             val'[v] \in {val[v], NoValue} \union {value \in {flight[v].value} : flight[v].stage = "storing"},
             flight'[v].stage # "storing" \/ flight'[v] = flight[v],
             \A q \in Reader : reader'[q] \in {reader[q], NoRead}
      PROVE NamespaceFresh' /\ ReadersServed'
  <2>1. v <= namespace
    BY <1>t, <1>r, <1>w, <1>f, <1>0, <1>8 DEF NamespaceFresh, Version
  <2>2. \A value : Fresh(value) => Fresh(value)'
    BY <1>t, <1>r, <1>w, <1>f, <1>8, FreshStays
  <2>3. \A u \in Version : Kept(u)' \subseteq Kept(u)
    BY <1>t, <1>r, <1>w, <1>f, <1>8 DEF Kept
  <2>4. \A u \in Version : u > namespace => val'[u] = val[u] /\ flight'[u].stage = flight[u].stage
    BY <1>t, <1>r, <1>w, <1>f, <1>8, <2>1 DEF Version
  <2>5. \A q \in Reader : Served(q)' => /\ Served(q) /\ reader'[q].version = reader[q].version
                                        /\ reader[q].version \in Version
                                        /\ floor'[q] = floor[q]
    BY <1>t, <1>r, <1>w, <1>f, <1>8 DEF Served, NoRead
  <2> QED
    BY <1>t, <1>r, <1>w, <1>f, <1>0, <1>8, <2>2, <2>3, <2>4, <2>5, NothingNewKept
<1>9. ASSUME NEW v \in Version, SecondRead(v) \/ LoadFails(v) \/ Stores(v) \/ Expire(v)
      PROVE NamespaceFresh' /\ ReadersServed'
  <2>1. /\ flight[v].stage # "none" \/ val[v] # NoValue
        /\ UNCHANGED <<namespace, writer, acked, floor>>
    BY <1>t, <1>r, <1>w, <1>f, <1>9 DEF SecondRead, LoadFails, Stores, Expire, redis, promise
  <2>2. /\ \A u \in Version : u # v => val'[u] = val[u] /\ flight'[u] = flight[u]
        /\ val'[v] \in {val[v], NoValue} \union {value \in {flight[v].value} : flight[v].stage = "storing"}
        /\ flight'[v].stage # "storing" \/ flight'[v] = flight[v]
    BY <1>t, <1>r, <1>w, <1>f, <1>9 DEF SecondRead, LoadFails, Stores, Expire, Land, NoFlight, redis
  <2>3. \A q \in Reader : reader'[q] \in {reader[q], NoRead}
    BY <1>t, <1>r, <1>w, <1>f, <1>9 DEF SecondRead, LoadFails, Stores, Expire, Land, Return, Leave
  <2> QED
    BY <1>t, <1>r, <1>w, <1>f, <1>8, <2>1, <2>2, <2>3
<1>10. ASSUME UNCHANGED <<namespace, acked, floor>>,
              \A v \in Version : val'[v] = val[v],
              UNCHANGED flight \/ ApiRestarts,
              UNCHANGED writer \/ ApiRestarts \/ \E w \in Writer : Commit(w),
              \A q \in Reader : reader'[q] \in {reader[q], NoRead}
       PROVE NamespaceFresh' /\ ReadersServed'
  <2>1. \A value : Fresh(value) => Fresh(value)'
    BY <1>t, <1>r, <1>w, <1>f, <1>10, FreshStays DEF ApiRestarts, Commit, NoWrite
  <2>2. \A v \in Version : Kept(v)' \subseteq Kept(v)
    <3>1. UNCHANGED flight \/ \A v \in Version : flight'[v].stage = "none"
      BY <1>10 DEF ApiRestarts, NoFlight
    <3> QED
      BY <1>10, <3>1 DEF Kept
  <2>3. \A v \in Version : v > namespace => flight'[v].stage = flight[v].stage
    BY <1>t, <1>r, <1>w, <1>f, <1>0, <1>10 DEF NamespaceFresh, ApiRestarts, NoFlight
  <2>4. \A q \in Reader : Served(q)' => /\ Served(q) /\ reader'[q].version = reader[q].version
                                        /\ reader[q].version \in Version
                                        /\ floor'[q] = floor[q]
    BY <1>t, <1>r, <1>w, <1>f, <1>10 DEF Served, NoRead
  <2> QED
    BY <1>t, <1>r, <1>w, <1>f, <1>0, <1>10, <2>1, <2>2, <2>3, <2>4, NothingNewKept
<1>11. ASSUME NEW r \in Reader, Direct(r) \/ DirectFails(r) PROVE NamespaceFresh' /\ ReadersServed'
  <2>1. /\ UNCHANGED <<namespace, acked, floor, val, flight, writer>>
        /\ \A q \in Reader : reader'[q] \in {reader[q], NoRead}
    BY <1>t, <1>r, <1>w, <1>f, <1>11 DEF Direct, DirectFails, Return, Leave, redis, promise
  <2> QED
    BY <1>t, <1>r, <1>w, <1>f, <1>10, <2>1
<1>12. ASSUME NEW w \in Writer, Commit(w) PROVE NamespaceFresh' /\ ReadersServed'
  <2>1. UNCHANGED <<namespace, acked, floor, val, flight, reader>>
    BY <1>t, <1>r, <1>w, <1>f, <1>12 DEF Commit, redis, promise
  <2> QED
    BY <1>t, <1>r, <1>w, <1>f, <1>10, <1>12, <2>1
<1>13. CASE SocketCloses \/ Ready \/ GivesUp \/ UNCHANGED cacheVars
  <2>1. UNCHANGED <<namespace, acked, floor, val, flight, writer, reader>>
    BY <1>t, <1>r, <1>w, <1>f, <1>13 DEF SocketCloses, Ready, GivesUp, cacheVars, redis, promise
  <2> QED
    BY <1>t, <1>r, <1>w, <1>f, <1>10, <2>1
<1>14. CASE ApiRestarts
  <2>1. /\ UNCHANGED <<namespace, acked, floor, val>>
        /\ \A q \in Reader : reader'[q] \in {reader[q], NoRead}
    BY <1>t, <1>r, <1>w, <1>f, <1>14 DEF ApiRestarts, redis, promise
  <2> QED
    BY <1>t, <1>r, <1>w, <1>f, <1>10, <1>14, <2>1
<1>15. CASE RedisRestarts
  BY <1>t, <1>r, <1>w, <1>f, <1>15 DEF RedisRestarts
<1> QED
  BY <1>1, <1>2, <1>3, <1>4, <1>5, <1>6, <1>7, <1>9, <1>11, <1>12, <1>13, <1>14, <1>15
  DEF CacheNext, FlightStep

(* What every reachable state keeps. *)
LEMMA CacheInvariant == CacheSafety => []CacheInv
<1>1. CacheInit => CacheInv
  <2> SUFFICES ASSUME CacheInit, TypeInv PROVE NamespaceFresh /\ ReadersServed
    BY CacheStarts DEF CacheInv
  <2>1. \A v \in Version : val[v] = NoValue /\ flight[v].stage = "none" /\ Kept(v) = {}
    BY DEF CacheInit, NoFlight, Kept
  <2>2. \A r \in Reader : reader[r].stage = "idle"
    BY DEF CacheInit, NoRead
  <2> QED
    BY <2>1, <2>2 DEF NamespaceFresh, ReadersServed
<1>2. CacheInv /\ TypeInv' /\ [CacheNext]_cacheVars => CacheInv'
  <2> SUFFICES ASSUME CacheInv, TypeInv', [CacheNext]_cacheVars PROVE CacheInv'
    OBVIOUS
  <2>1. excused => excused'
    BY DEF CacheNext, FlightStep, cacheVars, Begin, ReadVersion, ReadValue, Direct, DirectFails, SecondRead,
       Loads, LoadFails, Stores, Expire, Commit, Bump, Acknowledge, SocketCloses, RedisRestarts, Ready,
       GivesUp, ApiRestarts
  <2> QED
    BY <2>1, CacheStep DEF CacheInv
<1> QED
  BY <1>1, <1>2, CacheTyped, PTL DEF CacheSafety

(* A read is answered with something that was committed, and unless an      *)
(* invalidation or the data of Redis was lost, with nothing older than the  *)
(* last write acknowledged before it: the cache implements FreshReads.      *)
THEOREM KeepsFreshHolds == CacheSafety => KeepsFresh
<1>1. CacheInit => Promise!ReadsInit
  BY DEF CacheInit, Promise!ReadsInit, Promise!NoAnswer, NoValue
<1>2. TypeInv /\ CacheInv /\ [CacheNext]_cacheVars
      => [Promise!ReadsNext]_<<db, acked, floor, answer, excused>>
  <2> SUFFICES ASSUME TypeInv, CacheInv, [CacheNext]_cacheVars,
                      ~UNCHANGED <<db, acked, floor, answer, excused>>
               PROVE  Promise!ReadsNext
    OBVIOUS
  <2>t. /\ db \in Value /\ acked \in Value /\ floor \in [Reader -> Value]
        /\ val \in [Version -> Cached] /\ Value \subseteq Nat
        /\ flight \in [Version -> [stage : FlightStage, value : Cached]]
        /\ reader \in [Reader -> [stage : ReaderStage, version : Version]]
        /\ writer \in [Writer -> [stage : WriterStage, wrote : Value]]
    BY DEF TypeInv, CacheTypeOK, Value
  <2>c. Committed /\ (excused \/ ReadersServed)
    BY DEF TypeInv, CacheInv
  <2>e. excused \in BOOLEAN
    BY DEF TypeInv, CacheTypeOK
  <2>1. ASSUME NEW readers \in SUBSET Reader, NEW value \in 0..db, Return(readers, value),
               excused \/ \A r \in readers : floor[r] <= value,
               UNCHANGED <<db, acked, floor, excused>>
        PROVE  Promise!ReadsNext
    <3>1. Promise!Answer
      BY <2>1 DEF Promise!Answer, Return
    <3> QED
      BY <2>1, <3>1 DEF Promise!ReadsNext
  <2>2. ASSUME NEW v \in Version, NEW value \in Kept(v), NEW readers \in SUBSET Reader,
               \A r \in readers : Served(r) /\ reader[r].version = v,
               Return(readers, value), UNCHANGED <<db, acked, floor, excused>>
        PROVE  Promise!ReadsNext
    <3>1. value \in 0..db
      BY <2>t, <2>c DEF Kept, Committed, Cached, Value, NoValue
    <3>2. excused \/ \A r \in readers : floor[r] <= value
      BY <2>2, <2>c DEF ReadersServed, Served
    <3> QED
      BY <2>1, <2>2, <3>1, <3>2
  <2>3. ASSUME NEW r \in Reader, Begin(r) PROVE Promise!ReadsNext
    <3>1. Promise!Ask(r) /\ UNCHANGED excused
      BY <2>3 DEF Begin, Promise!Ask, Promise!NoAnswer, NoValue
    <3> QED
      BY <3>1 DEF Promise!ReadsNext
  <2>4. ASSUME NEW r \in Reader, ReadVersion(r) PROVE Promise!ReadsNext
    <3>1. UNCHANGED <<db, acked, floor, answer>>
      BY <2>4 DEF ReadVersion, promise
    <3>2. excused' \in {excused, TRUE}
      BY <2>4, <2>e, Zenon DEF ReadVersion
    <3>3. Promise!Acknowledge
      BY <2>t, <2>c, <3>1 DEF Promise!Acknowledge, Committed
    <3> QED
      BY <3>2, <3>3 DEF Promise!ReadsNext
  <2>5. ASSUME NEW r \in Reader, ReadValue(r) PROVE Promise!ReadsNext
    <3>1. Return({r}, val[reader[r].version]) /\ val[reader[r].version] # NoValue
      BY <2>5 DEF ReadValue
    <3>2. UNCHANGED <<db, acked, floor, excused>> /\ Served(r)
      BY <2>5 DEF ReadValue, Served
    <3>3. val[reader[r].version] \in Kept(reader[r].version)
      BY <3>1 DEF Kept
    <3>4. reader[r].version \in Version
      BY <2>t
    <3> QED
      BY <2>2, <3>1, <3>2, <3>3, <3>4
  <2>6. ASSUME NEW r \in Reader, Direct(r) PROVE Promise!ReadsNext
    <3>1. Return({r}, db) /\ UNCHANGED <<db, acked, floor, excused>>
      BY <2>6 DEF Direct
    <3>2. floor[r] <= db /\ db \in 0..db
      BY <2>t, <2>c DEF Committed, Value
    <3> QED
      BY <2>1, <3>1, <3>2
  <2>7. ASSUME NEW v \in Version, SecondRead(v) \/ Stores(v) PROVE Promise!ReadsNext
    <3>1. UNCHANGED <<db, acked, floor, excused>>
      BY <2>7 DEF SecondRead, Stores
    <3>2. PICK value \in Kept(v) : Return(Waiting(v), value)
      <4>1. CASE SecondRead(v)
        BY <3>1, <4>1 DEF SecondRead, Land, Kept
      <4>2. CASE Stores(v)
        <5>1. flight[v].stage = "storing" /\ Return(Waiting(v), flight[v].value)
          BY <4>2 DEF Stores, Land
        <5> QED
          BY <5>1 DEF Kept
      <4> QED
        BY <2>7, <4>1, <4>2
    <3>3. \A r \in Waiting(v) : Served(r) /\ reader[r].version = v
      BY DEF Waiting, Served
    <3> QED
      BY <2>2, <3>1, <3>2, <3>3 DEF Waiting
  <2>8. ASSUME NEW w \in Writer, Commit(w) PROVE Promise!ReadsNext
    <3>1. Promise!Write /\ UNCHANGED excused
      BY <2>8 DEF Commit, promise, Promise!Write
    <3> QED
      BY <3>1 DEF Promise!ReadsNext
  <2>9. ASSUME NEW w \in Writer, Acknowledge(w) PROVE Promise!ReadsNext
    <3>1. Promise!Acknowledge /\ UNCHANGED excused
      BY <2>9, <2>t, <2>c DEF Acknowledge, Promise!Acknowledge, Committed
    <3> QED
      BY <3>1 DEF Promise!ReadsNext
  <2>10. ASSUME UNCHANGED <<db, acked, floor, answer>>, excused' \in {excused, TRUE}
         PROVE  Promise!ReadsNext
    <3>1. Promise!Acknowledge
      BY <2>10, <2>t, <2>c DEF Promise!Acknowledge, Committed
    <3> QED
      BY <2>10, <3>1 DEF Promise!ReadsNext
  <2>11. ASSUME NEW w \in Writer, Bump(w) PROVE Promise!ReadsNext
    <3>1. excused' \in {excused, TRUE}
      BY <2>11 DEF Bump
    <3> QED
      BY <2>10, <2>11, <3>1 DEF Bump, promise
  <2>12. CASE RedisRestarts
    BY <2>10, <2>12 DEF RedisRestarts, promise
  <2> QED
    <3>1. ~UNCHANGED cacheVars
      BY DEF cacheVars, promise
    <3>2. \/ \E r \in Reader : Begin(r) \/ ReadVersion(r) \/ ReadValue(r) \/ Direct(r)
          \/ \E v \in Version : SecondRead(v) \/ Stores(v)
          \/ \E w \in Writer : Commit(w) \/ Bump(w) \/ Acknowledge(w)
          \/ RedisRestarts
      BY <3>1 DEF CacheNext, FlightStep, DirectFails, Loads, LoadFails, Expire, SocketCloses, Ready,
         GivesUp, ApiRestarts, promise
    <3> QED
      BY <2>3, <2>4, <2>5, <2>6, <2>7, <2>8, <2>9, <2>11, <2>12, <3>2
<1> QED
  BY <1>1, <1>2, CacheTyped, CacheInvariant, PTL DEF CacheSafety, KeepsFresh, Promise!ReadsSpec
=============================================================================
