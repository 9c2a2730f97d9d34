---- MODULE ServerCache ----
(***************************************************************************)
(* The read-through cache of the API: backend/src/cache/cache.service.ts,  *)
(* single-flight.service.ts, cache-invalidation.service.ts and             *)
(* redis-cache.connection.ts, for one namespace, one query in it, and one  *)
(* API process (the deployment runs one).                                  *)
(*                                                                         *)
(* A cached value lives under a key that names the version its namespace   *)
(* had when the read began; a write bumps the version, which makes every   *)
(* older key unreachable.  The record is the number of writes committed.   *)
(* Each Redis command and each query of the database is one step.          *)
(***************************************************************************)
EXTENDS Integers

CONSTANTS Reader, Writer,
          MaxWrites,  \* bound on the writes
          MaxVersion, \* bound on the namespace: 2 * MaxWrites leaves room for every bump
          MaxFaults   \* bound on what goes wrong with Redis

ASSUME CacheAssumption == {MaxWrites, MaxVersion, MaxFaults} \subseteq Nat

VARIABLES db,       \* the record, counted in writes
          namespace,\* the namespace counter in Redis
          val,      \* the values in Redis, by version
          conn,     \* RedisCacheConnection: its state and its socket
          flight,   \* singleFlight.pending, by version
          reader,   \* getOrLoad: where each read stands
          writer,   \* a write and its invalidation: where each stands
          faults,
          acked, floor, answer,  \* history: see FreshReads
          excused                \* history: an invalidation or Redis's data was lost

redis == <<namespace, val>>
promise == <<acked, floor, answer>>
cacheVars == <<db, redis, conn, flight, reader, writer, faults, promise, excused>>

NoValue == -1
Version == 0..MaxVersion
Value == 0..MaxWrites
Cached == Value \union {NoValue}

\* connected: in use.  degraded: a command failed, and only the next "ready"
\* of the socket, which is still open, would end that.  retrying: the socket is
\* closed.  ended: retryStrategy has given up.
Connection == {"connected", "degraded", "retrying", "ended"}

ReaderStage == {"idle", "version", "value", "waiting", "direct"}
FlightStage == {"none", "reading", "loading", "storing"}
WriterStage == {"idle", "bump", "again", "acknowledge"}

NoRead == [stage |-> "idle", version |-> 0]
NoWrite == [stage |-> "idle", wrote |-> 0]
NoFlight == [stage |-> "none", value |-> NoValue]

CacheInit ==
  /\ db = 0 /\ namespace = 0 /\ val = [v \in Version |-> NoValue]
  /\ conn = "connected" /\ faults = 0
  /\ flight = [v \in Version |-> NoFlight]
  /\ reader = [r \in Reader |-> NoRead]
  /\ writer = [w \in Writer |-> NoWrite]
  /\ acked = 0 /\ excused = FALSE
  /\ floor = [r \in Reader |-> 0] /\ answer = [r \in Reader |-> NoValue]

----------------------------------------------------------------------------
(* Redis commands: command() of RedisCacheConnection.                      *)

Fault == faults < MaxFaults /\ faults' = faults + 1

Replies == conn = "connected" /\ UNCHANGED <<conn, faults>>

\* Unavailable: undefined at once.
Skipped == conn # "connected" /\ UNCHANGED <<conn, faults>>

\* It throws or takes more than commandTimeout, and the connection is given up.
Fails == conn = "connected" /\ Fault /\ conn' = "degraded"

NoReply == Skipped \/ Fails

----------------------------------------------------------------------------
(* getOrLoad                                                               *)

Goto(r, stage) == reader' = [reader EXCEPT ![r].stage = stage]

\* A read begins: past the cache when it is away, which is fail-open.
Begin(r) ==
  /\ reader[r].stage = "idle"
  /\ Goto(r, IF conn = "connected" THEN "version" ELSE "direct")
  /\ floor' = [floor EXCEPT ![r] = acked]
  /\ answer' = [answer EXCEPT ![r] = NoValue]
  /\ UNCHANGED <<db, redis, conn, flight, writer, faults, acked, excused>>

\* Mutant: a reply that is no number is not turned into 0.
ReadVersionUnchecked(r) ==
  /\ reader[r].stage = "version"
  /\ \/ /\ Replies
        /\ reader' = [reader EXCEPT ![r] = [stage |-> "value", version |-> namespace]]
     \/ /\ NoReply
        /\ reader' = [reader EXCEPT ![r] = [stage |-> "value", version |-> NoValue]]
  /\ UNCHANGED <<db, redis, flight, writer, promise, excused>>

\* namespaceVersion: a counter that cannot be read counts as 0.
ReadVersion(r) ==
  /\ reader[r].stage = "version"
  /\ \/ /\ Replies
        /\ reader' = [reader EXCEPT ![r] = [stage |-> "value", version |-> namespace]]
        /\ UNCHANGED excused
     \/ /\ NoReply
        /\ reader' = [reader EXCEPT ![r] = [stage |-> "value", version |-> 0]]
        /\ excused' = (excused \/ namespace # 0)
  /\ UNCHANGED <<db, redis, flight, writer, promise>>

Leave(readers) == reader' = [r \in Reader |-> IF r \in readers THEN NoRead ELSE reader[r]]

Return(readers, value) ==
  /\ answer' = [r \in Reader |-> IF r \in readers THEN value ELSE answer[r]]
  /\ Leave(readers)

\* A hit answers; otherwise the read joins the load of its key or starts it.
ReadValue(r) ==
  LET v == reader[r].version IN
  /\ reader[r].stage = "value"
  /\ \/ /\ Replies /\ val[v] # NoValue
        /\ Return({r}, val[v])
        /\ UNCHANGED flight
     \/ /\ (Replies /\ val[v] = NoValue) \/ NoReply
        /\ Goto(r, "waiting")
        /\ flight' = IF flight[v].stage = "none"
                     THEN [flight EXCEPT ![v].stage = "reading"] ELSE flight
        /\ UNCHANGED answer
  /\ UNCHANGED <<db, redis, writer, acked, floor, excused>>

Direct(r) ==
  /\ reader[r].stage = "direct"
  /\ Return({r}, db)
  /\ UNCHANGED <<db, redis, conn, flight, writer, faults, acked, floor, excused>>

\* The loader of a direct read fails, and so does the read.
DirectFails(r) ==
  /\ reader[r].stage = "direct"
  /\ Leave({r})
  /\ UNCHANGED <<db, redis, conn, flight, writer, faults, promise, excused>>

----------------------------------------------------------------------------
(* loadAndStore, shared by the reads of one key                            *)

Waiting(v) == {r \in Reader : reader[r].stage = "waiting" /\ reader[r].version = v}

Land(v, value) ==
  /\ Return(Waiting(v), value)
  /\ flight' = [flight EXCEPT ![v] = NoFlight]

SecondRead(v) ==
  /\ flight[v].stage = "reading"
  /\ \/ /\ Replies /\ val[v] # NoValue
        /\ Land(v, val[v])
     \/ /\ (Replies /\ val[v] = NoValue) \/ NoReply
        /\ flight' = [flight EXCEPT ![v].stage = "loading"]
        /\ UNCHANGED <<reader, answer>>
  /\ UNCHANGED <<db, redis, writer, acked, floor, excused>>

Loads(v) ==
  /\ flight[v].stage = "loading"
  /\ flight' = [flight EXCEPT ![v] = [stage |-> "storing", value |-> db]]
  /\ UNCHANGED <<db, redis, conn, reader, writer, faults, promise, excused>>

\* The database refuses: every read that waits fails with it.
LoadFails(v) ==
  /\ flight[v].stage = "loading"
  /\ flight' = [flight EXCEPT ![v] = NoFlight]
  /\ Leave(Waiting(v))
  /\ UNCHANGED <<db, redis, conn, writer, faults, promise, excused>>

\* Mutant: the key names the version the namespace has by now.
StoresUnderNewest(v) ==
  /\ flight[v].stage = "storing" /\ Replies
  /\ val' = [val EXCEPT ![namespace] = flight[v].value]
  /\ Land(v, flight[v].value)
  /\ UNCHANGED <<db, namespace, writer, acked, floor, excused>>

\* Stored, or too large to be, or not taken by Redis; a command that timed out
\* may have been carried out.
Stores(v) ==
  /\ flight[v].stage = "storing"
  /\ \/ Replies /\ val' = [val EXCEPT ![v] = flight[v].value]
     \/ (Replies \/ Skipped) /\ UNCHANGED val
     \/ Fails /\ val' \in {val, [val EXCEPT ![v] = flight[v].value]}
  /\ Land(v, flight[v].value)
  /\ UNCHANGED <<db, namespace, writer, acked, floor, excused>>

\* Mutant: stored without a TTL.
NeverExpires(v) == val[v] # NoValue /\ UNCHANGED cacheVars

\* The value's TTL ends, or an administrator's invalidate() deletes it.
Expire(v) ==
  /\ val[v] # NoValue
  /\ val' = [val EXCEPT ![v] = NoValue]
  /\ UNCHANGED <<db, namespace, conn, flight, reader, writer, faults, promise, excused>>

----------------------------------------------------------------------------
(* A write, and bumpWithRetry before it is acknowledged                    *)

Commit(w) ==
  /\ writer[w].stage = "idle" /\ db < MaxWrites
  /\ db' = db + 1
  /\ writer' = [writer EXCEPT ![w] = [stage |-> "bump", wrote |-> db + 1]]
  /\ UNCHANGED <<redis, conn, flight, reader, faults, promise, excused>>

GotoW(w, stage) == writer' = [writer EXCEPT ![w].stage = stage]

Incr == namespace < MaxVersion /\ namespace' = namespace + 1

\* bumpNamespace reports success when Redis is away, so that a first bump that
\* failed is tried again only if the connection has come back in between.
Bump(w) ==
  /\ \/ /\ writer[w].stage \in {"bump", "again"} /\ Replies
        /\ Incr /\ GotoW(w, "acknowledge") /\ UNCHANGED excused
     \/ /\ writer[w].stage \in {"bump", "again"} /\ Skipped
        /\ UNCHANGED namespace /\ GotoW(w, "acknowledge") /\ excused' = TRUE
     \/ /\ writer[w].stage = "bump" /\ Fails
        /\ UNCHANGED excused
        /\ Incr \/ UNCHANGED namespace
        /\ GotoW(w, "again")
     \/ /\ writer[w].stage = "again" /\ Fails
        /\ GotoW(w, "acknowledge")
        /\ \/ Incr /\ UNCHANGED excused
           \/ UNCHANGED namespace /\ excused' = TRUE
  /\ UNCHANGED <<db, val, flight, reader, promise>>

Acknowledge(w) ==
  /\ writer[w].stage = "acknowledge"
  /\ writer' = [writer EXCEPT ![w] = NoWrite]
  /\ acked' = IF writer[w].wrote > acked THEN writer[w].wrote ELSE acked
  /\ UNCHANGED <<db, redis, conn, flight, reader, faults, floor, answer, excused>>

----------------------------------------------------------------------------
(* The connection, and Redis, which keeps nothing over a restart           *)

SocketCloses ==
  /\ conn \in {"connected", "degraded"} /\ Fault
  /\ conn' = "retrying"
  /\ UNCHANGED <<db, redis, flight, reader, writer, promise, excused>>

RedisRestarts ==
  /\ conn \in {"connected", "degraded"} /\ Fault
  /\ conn' = "retrying"
  /\ namespace' = 0 /\ val' = [v \in Version |-> NoValue] /\ excused' = TRUE
  /\ UNCHANGED <<db, flight, reader, writer, promise>>

\* The "ready" event.
Ready ==
  /\ conn = "retrying"
  /\ conn' = "connected"
  /\ UNCHANGED <<db, redis, flight, reader, writer, faults, promise, excused>>

\* retryStrategy returns null after its third attempt.
GivesUp ==
  /\ conn = "retrying"
  /\ conn' = "ended"
  /\ UNCHANGED <<db, redis, flight, reader, writer, faults, promise, excused>>

\* The API process ends and starts again: what was under way in it is gone, a
\* write that was committed and not yet bumped included.
ApiRestarts ==
  /\ Fault /\ conn' = "connected"
  /\ flight' = [v \in Version |-> NoFlight]
  /\ reader' = [r \in Reader |-> NoRead]
  /\ writer' = [w \in Writer |-> NoWrite]
  /\ UNCHANGED <<db, redis, promise, excused>>

----------------------------------------------------------------------------
FlightStep(v) == SecondRead(v) \/ Loads(v) \/ LoadFails(v) \/ Stores(v)

CacheNext ==
  \/ \E r \in Reader : Begin(r) \/ ReadVersion(r) \/ ReadValue(r) \/ Direct(r) \/ DirectFails(r)
  \/ \E v \in Version : FlightStep(v) \/ Expire(v)
  \/ \E w \in Writer : Commit(w) \/ Bump(w) \/ Acknowledge(w)
  \/ SocketCloses \/ RedisRestarts \/ Ready \/ GivesUp \/ ApiRestarts

CacheSafety == CacheInit /\ [][CacheNext]_cacheVars

\* Every command ends (commandTimeout), every query ends, every TTL runs out, and a
\* closed socket is opened again or given up.
CacheSpec == /\ CacheSafety /\ WF_cacheVars(Ready \/ GivesUp)
             /\ \A v \in Version : WF_cacheVars(FlightStep(v)) /\ WF_cacheVars(Expire(v))

----------------------------------------------------------------------------
CacheTypeOK ==
  /\ db \in Value /\ acked \in Value
  /\ namespace \in Version /\ val \in [Version -> Cached]
  /\ conn \in Connection
  /\ flight \in [Version -> [stage : FlightStage, value : Cached]]
  /\ reader \in [Reader -> [stage : ReaderStage, version : Version]]
  /\ writer \in [Writer -> [stage : WriterStage, wrote : Value]]
  /\ faults \in 0..MaxFaults
  /\ floor \in [Reader -> Value] /\ answer \in [Reader -> Cached]
  /\ excused \in BOOLEAN

Promise == INSTANCE FreshReads WITH current <- db

\* However fills, joined loads, failed commands, expiries and writes interleave,
\* a read is never older than the last write acknowledged before it began, short
\* of a lost bump, an unreadable counter or a Redis that lost its data
\* (cache.service.ts, getOrLoad and bumpNamespace).
KeepsFresh == Promise!ReadsSpec

\* Whatever was lost, the cache comes right by itself: once writes and faults
\* are over, nothing old stays cached, because every value has a TTL
\* (loadAndStore; docs/operations/CACHE_RECOVERY.md: "Old namespace versions
\* expire through their existing TTL").
OldValuesGo == <>[](\A v \in Version : val[v] \in {NoValue, db})
====
