----------------------- MODULE JobberConnectionProofs -----------------------
(***************************************************************************)
(* What JobberConnection guarantees for any number of handlers, accounts,  *)
(* consents and faults, proved with TLAPS.                                 *)
(***************************************************************************)
EXTENDS JobberConnection, FiniteSetTheorems, TLAPS

(* A token is that of a consent, or there is none; a row that reads as     *)
(* connected holds both tokens of one consent, and any other no access.    *)
Proper(t) == t \in RefreshToken /\ (t = NoToken \/ t.grant \in Consent)

RowOK(r) ==
    /\ r \in Connection /\ Proper(r.refresh)
    /\ r.status = "CONNECTED" => r.access \in Consent /\ r.refresh.grant = r.access
    /\ r.status # "CONNECTED" => r.access = 0 /\ ~r.fresh
    /\ r.status = "DISCONNECTED" => r.refresh = NoToken

(* What a handler calls Jobber with is the access token of a consent, what *)
(* a renewal offers is a token, and only who waits has joined a renewal.   *)
HandlerOK(x) ==
    /\ x \in HandlerState /\ RowOK(x.previous)
    /\ x.stage \in {"post", "answered"} => x.access \in Consent
    /\ x.joined # NoHandler => x.stage = "joined"
    /\ x.stage = "exchange" => x.op = "connect"

RenewalOK(x) ==
    /\ x \in Renewal /\ Proper(x.token)
    /\ x.stage \notin {"none", "read"} => x.token # NoToken

HandlersOK == \A h \in Handler : HandlerOK(at[h])
RenewalsOK == \A h \in Handler : RenewalOK(renewal[h])

TypeInv == ConnectionTypeOK /\ RowOK(row) /\ HandlersOK /\ RenewalsOK

LEMMA IdleOK == RowOK(Unconnected) /\ HandlerOK(Idle) /\ RenewalOK(NoRenewal)
<1>1. NoToken \in RefreshToken /\ 0 \in Grant
  BY ConnectionAssumption DEF NoToken, RefreshToken, Grant
<1>2. RowOK(Unconnected)
  BY <1>1 DEF RowOK, Unconnected, Connection, Status, Proper, NoToken
<1>3. HandlerOK(Idle)
  BY <1>1, <1>2 DEF HandlerOK, Idle, HandlerState, Op, Stage, RowOK
<1>4. RenewalOK(NoRenewal)
  BY <1>1 DEF RenewalOK, NoRenewal, Renewal, Proper
<1> QED
  BY <1>2, <1>3, <1>4

LEMMA InitTyped == ConnectionInit => TypeInv
<1> SUFFICES ASSUME ConnectionInit PROVE TypeInv
  OBVIOUS
<1>1. row \in Connection /\ RowOK(row) /\ row = Unconnected
  BY IdleOK DEF ConnectionInit, RowOK
<1>2. at \in [Handler -> HandlerState] /\ HandlersOK
  BY IdleOK DEF ConnectionInit, HandlersOK, HandlerOK
<1>3. renewal \in [Handler -> Renewal] /\ RenewalsOK
  BY IdleOK DEF ConnectionInit, RenewalsOK, RenewalOK
<1>4. of \in [Consent -> Account \union {NoAccount}] /\ current \in [Consent -> Nat]
  BY DEF ConnectionInit
<1>5. lapses \in 0..MaxLapses /\ faults \in 0..MaxFaults
  BY ConnectionAssumption DEF ConnectionInit
<1>6. {lost, cut, crossed} \subseteq BOOLEAN
  BY DEF ConnectionInit
<1> QED
  BY <1>1, <1>2, <1>3, <1>4, <1>5, <1>6 DEF ConnectionInit, TypeInv, ConnectionTypeOK, Unconnected

(* A handler that goes on to a state it may be in.                         *)
LEMMA HandlerMoves ==
    ASSUME TypeInv, NEW h \in Handler, NEW x, HandlerOK(x), at' = [at EXCEPT ![h] = x]
    PROVE  at' \in [Handler -> HandlerState] /\ HandlersOK'
BY DEF TypeInv, ConnectionTypeOK, HandlersOK, HandlerOK

LEMMA HandlerGoes ==
    ASSUME TypeInv, NEW h \in Handler, NEW stage \in Stage \ {"exchange"}, Goes(h, stage), at[h].stage # "joined",
           stage \in {"post", "answered"} => at[h].access \in Consent
    PROVE  at' \in [Handler -> HandlerState] /\ HandlersOK'
<1> DEFINE x == [at[h] EXCEPT !.stage = stage]
<1>1. at[h] \in HandlerState /\ HandlerOK(at[h])
  BY DEF TypeInv, ConnectionTypeOK, HandlersOK
<1>2. HandlerOK(x)
  BY <1>1 DEF HandlerOK, HandlerState
<1>3. at' = [at EXCEPT ![h] = x]
  BY DEF Goes
<1> HIDE DEF x
<1> QED
  BY <1>2, <1>3, HandlerMoves

LEMMA HandlerEnds ==
    ASSUME TypeInv, NEW h \in Handler, Ends(h)
    PROVE  at' \in [Handler -> HandlerState] /\ HandlersOK'
BY IdleOK, HandlerMoves DEF Ends

LEMMA SettleTyped ==
    ASSUME TypeInv, NEW h \in Handler, NEW stage \in {"post", "failed"}, NEW access \in Grant,
           stage = "post" => access \in Consent, Settle(h, stage, access)
    PROVE  /\ at' \in [Handler -> HandlerState] /\ HandlersOK'
           /\ renewal' \in [Handler -> Renewal] /\ RenewalsOK'
           /\ inFlight' = NoHandler
<1> USE DEF TypeInv, ConnectionTypeOK
<1>1. ASSUME NEW g \in Handler PROVE at'[g] \in HandlerState /\ HandlerOK(at'[g])
  <2>1. HandlerOK(at[g]) /\ at[g] \in HandlerState
    BY DEF HandlersOK
  <2>2. CASE at[g].joined = h
    <3>1. at'[g] = [at[g] EXCEPT !.stage = stage, !.access = access, !.joined = NoHandler]
      BY <2>2 DEF Settle
    <3> QED
      BY <2>1, <3>1 DEF HandlerOK, HandlerState, Stage
  <2> QED
    BY <2>1, <2>2 DEF Settle
<1>2. at' \in [Handler -> HandlerState] /\ HandlersOK'
  BY <1>1 DEF Settle, HandlersOK
<1>3. renewal' \in [Handler -> Renewal] /\ RenewalsOK'
  BY IdleOK DEF Settle, RenewalsOK, RenewalOK
<1> QED
  BY <1>2, <1>3 DEF Settle

LEMMA FaultTyped == ASSUME TypeInv, Fault \/ UNCHANGED faults PROVE faults' \in 0..MaxFaults
BY ConnectionAssumption DEF TypeInv, ConnectionTypeOK, Fault

(* What is stored for a token that is one, and what is forgotten, is a row. *)
LEMMA StoresTyped ==
    ASSUME TypeInv, NEW token \in RefreshToken, token.grant \in Consent, Stores(token)
    PROVE  row' \in Connection /\ RowOK(row')
BY DEF TypeInv, Stores, RowOK, Connection, Status, RefreshToken, Proper, Consent, Grant

LEMMA ForgetsTyped == ASSUME TypeInv, Forgets PROVE row' \in Connection /\ RowOK(row') /\ home' = NoAccount
BY IdleOK DEF TypeInv, Forgets, RowOK, Connection, Status, Unconnected, Proper

LEMMA WritesTyped == ASSUME TypeInv, NEW unlike \in BOOLEAN, WritesOver(unlike) PROVE crossed' \in BOOLEAN
BY DEF WritesOver, TypeInv, ConnectionTypeOK

(* Most steps of a handler leave all but the handler alone.                *)
LEMMA HandlerTyped ==
    ASSUME TypeInv, at' \in [Handler -> HandlerState] /\ HandlersOK',
           UNCHANGED <<row, jobber, renewals, lapses, home>>,
           faults' \in 0..MaxFaults, {lost, cut, crossed}' \subseteq BOOLEAN
    PROVE  TypeInv'
BY DEF TypeInv, ConnectionTypeOK, jobber, renewals, RenewalsOK

LEMMA BeginsTyped ==
    ASSUME TypeInv, NEW h \in Handler, Calls(h) \/ Disconnects(h) \/ Connects(h) PROVE TypeInv'
<1>1. PICK x : HandlerOK(x) /\ at' = [at EXCEPT ![h] = x]
  <2>1. RowOK(row) /\ row \in Connection
    BY DEF TypeInv, ConnectionTypeOK
  <2>2. HandlerOK([Idle EXCEPT !.op = "connect", !.stage = "exchange", !.previous = row])
    BY <2>1, IdleOK DEF HandlerOK, HandlerState, Idle, Op, Stage
  <2>3. ASSUME NEW op \in {"call", "disconnect"} PROVE HandlerOK([Idle EXCEPT !.op = op, !.stage = "token"])
    BY IdleOK DEF HandlerOK, HandlerState, Idle, Op, Stage
  <2> QED
    BY <2>2, <2>3 DEF Calls, Disconnects, Connects, Begins
<1>2. at' \in [Handler -> HandlerState] /\ HandlersOK'
  BY <1>1, HandlerMoves
<1> QED
  BY <1>2, HandlerTyped DEF Calls, Disconnects, Connects, Begins, bounds, history, TypeInv, ConnectionTypeOK

LEMMA AsksTyped == ASSUME TypeInv, NEW h \in Handler, AsksToken(h) PROVE TypeInv'
<1>1. at' \in [Handler -> HandlerState] /\ HandlersOK'
  <2>1. CASE row.status # "CONNECTED" \/ ~row.fresh
    BY <2>1, HandlerGoes DEF AsksToken, Stage
  <2>2. CASE row.status = "CONNECTED" /\ row.fresh
    <3> DEFINE x == [at[h] EXCEPT !.stage = "post", !.access = row.access]
    <3>1. at' = [at EXCEPT ![h] = x]
      BY <2>2 DEF AsksToken
    <3>2. row.access \in Consent /\ row.access \in Grant
      BY <2>2 DEF TypeInv, RowOK, Connection
    <3>3. at[h].joined = NoHandler
      BY DEF AsksToken, TypeInv, HandlersOK, HandlerOK
    <3>4. HandlerOK(x)
      BY <3>2, <3>3 DEF TypeInv, HandlersOK, HandlerOK, HandlerState, Stage
    <3> HIDE DEF x
    <3> QED
      BY <3>1, <3>4, HandlerMoves
  <2> QED
    BY <2>1, <2>2 DEF TypeInv, RowOK, Connection
<1> QED
  BY <1>1, HandlerTyped DEF AsksToken, bounds, history, TypeInv, ConnectionTypeOK

LEMMA RenewsTyped == ASSUME TypeInv, NEW h \in Handler, Renews(h) PROVE TypeInv'
<1> DEFINE on == IF inFlight = NoHandler THEN h ELSE inFlight
<1>1. on \in Handler /\ inFlight' \in Handler
  BY DEF Renews, TypeInv, ConnectionTypeOK
<1>2. at' \in [Handler -> HandlerState] /\ HandlersOK'
  <2> DEFINE x == [at[h] EXCEPT !.stage = "joined", !.joined = on]
  <2>1. at' = [at EXCEPT ![h] = x]
    BY DEF Renews
  <2>2. HandlerOK(x)
    BY <1>1 DEF TypeInv, HandlersOK, HandlerOK, HandlerState, Stage
  <2> HIDE DEF x
  <2> QED
    BY <2>1, <2>2, HandlerMoves
<1>3. renewal' \in [Handler -> Renewal] /\ RenewalsOK'
  <2>1. RenewalOK([renewal[h] EXCEPT !.stage = "read"])
    BY DEF TypeInv, RenewalsOK, RenewalOK, Renewal
  <2> QED
    BY <2>1 DEF Renews, TypeInv, ConnectionTypeOK, RenewalsOK, RenewalOK
<1> QED
  BY <1>1, <1>2, <1>3 DEF Renews, TypeInv, ConnectionTypeOK, jobber, bounds, history

LEMMA ReadsTyped == ASSUME TypeInv, NEW h \in Handler, RenewalReads(h) PROVE TypeInv'
<1> USE DEF TypeInv, ConnectionTypeOK
<1>1. /\ at' \in [Handler -> HandlerState] /\ HandlersOK'
      /\ renewal' \in [Handler -> Renewal] /\ RenewalsOK'
      /\ inFlight' \in Handler \union {NoHandler}
  <2>1. CASE row.refresh = NoToken
    <3>1. Settle(h, "failed", 0) /\ 0 \in Grant
      BY <2>1, ConnectionAssumption DEF RenewalReads, Grant
    <3> QED
      BY <3>1, SettleTyped
  <2>2. CASE row.refresh # NoToken
    <3>1. RenewalOK([stage |-> "posted", token |-> row.refresh])
      BY <2>2 DEF RowOK, RenewalOK, Renewal, Proper
    <3>2. renewal' \in [Handler -> Renewal] /\ RenewalsOK'
      BY <2>2, <3>1 DEF RenewalReads, RenewalsOK, RenewalOK
    <3> QED
      BY <2>2, <3>2 DEF RenewalReads, HandlersOK
  <2> QED
    BY <2>1, <2>2
<1> QED
  BY <1>1 DEF RenewalReads, jobber, bounds, history

LEMMA AnswersTyped == ASSUME TypeInv, NEW h \in Handler, JobberAnswers(h) PROVE TypeInv'
<1> USE DEF TypeInv, ConnectionTypeOK
<1>1. PICK outcome \in Outcome : renewal' = [renewal EXCEPT ![h].stage = outcome]
  BY DEF JobberAnswers, Outcome
<1>2. renewal' \in [Handler -> Renewal] /\ RenewalsOK'
  <2>1. RenewalOK([renewal[h] EXCEPT !.stage = outcome])
    BY DEF RenewalsOK, RenewalOK, Renewal, JobberAnswers
  <2> QED
    BY <1>1, <2>1 DEF RenewalsOK, RenewalOK
<1>3. renewal[h].token.grant \in Consent
  BY DEF RenewalsOK, RenewalOK, Proper, JobberAnswers
<1>4. current' \in [Consent -> Nat]
  BY <1>3 DEF JobberAnswers
<1>5. faults' \in 0..MaxFaults
  BY FaultTyped DEF JobberAnswers
<1>6. {lost, cut, crossed}' \subseteq BOOLEAN
  BY DEF JobberAnswers
<1> QED
  BY <1>2, <1>4, <1>5, <1>6 DEF JobberAnswers, HandlersOK

LEMMA RefreshedTyped == ASSUME TypeInv, NEW h \in Handler, Refreshed(h) PROVE TypeInv'
<1> USE DEF TypeInv, ConnectionTypeOK
<1> DEFINE t == renewal[h].token
<1>1. t \in RefreshToken /\ t.grant \in Consent /\ t.grant \in Grant
  BY DEF RenewalsOK, RenewalOK, Proper, Refreshed, RefreshToken
<1>2. Renewed(t) \in RefreshToken /\ Renewed(t).grant = t.grant
  BY <1>1 DEF Renewed, RefreshToken
<1>3. row' \in Connection /\ RowOK(row')
  BY <1>1, <1>2, StoresTyped DEF Refreshed
<1>4. crossed' \in BOOLEAN
  BY WritesTyped DEF Refreshed
<1>5. /\ at' \in [Handler -> HandlerState] /\ HandlersOK'
      /\ renewal' \in [Handler -> Renewal] /\ RenewalsOK'
      /\ inFlight' = NoHandler
  BY <1>1, SettleTyped DEF Refreshed
<1>6. UNCHANGED <<jobber, bounds, home, lost, cut>>
  BY DEF Refreshed
<1> HIDE DEF t
<1> QED
  BY <1>3, <1>4, <1>5, <1>6 DEF jobber, bounds, RowOK

LEMMA RefusedTyped == ASSUME TypeInv, NEW h \in Handler, MustReauthorize(h) PROVE TypeInv'
<1> USE DEF TypeInv, ConnectionTypeOK
<1>1. row' \in Connection /\ RowOK(row')
  <2>1. /\ row' = [row EXCEPT !.status = "REAUTHORIZATION_REQUIRED", !.access = 0, !.fresh = FALSE]
        /\ row \in Connection /\ Proper(row.refresh)
    BY DEF MustReauthorize, RowOK
  <2>2. 0 \in Grant
    BY ConnectionAssumption DEF Grant
  <2>3. row' \in Connection /\ row'.refresh = row.refresh
    BY <2>1, <2>2 DEF Connection, Status
  <2> QED
    BY <2>1, <2>3 DEF RowOK, Connection
<1>2. crossed' \in BOOLEAN
  BY WritesTyped DEF MustReauthorize
<1>3. /\ at' \in [Handler -> HandlerState] /\ HandlersOK'
      /\ renewal' \in [Handler -> Renewal] /\ RenewalsOK'
      /\ inFlight' = NoHandler
  BY SettleTyped, ConnectionAssumption DEF MustReauthorize, Grant
<1> QED
  BY <1>1, <1>2, <1>3 DEF MustReauthorize, jobber, bounds

LEMMA FailsTyped == ASSUME TypeInv, NEW h \in Handler, RenewalFails(h) PROVE TypeInv'
<1>1. /\ at' \in [Handler -> HandlerState] /\ HandlersOK'
      /\ renewal' \in [Handler -> Renewal] /\ RenewalsOK'
      /\ inFlight' = NoHandler
  BY SettleTyped, ConnectionAssumption DEF RenewalFails, Grant
<1> QED
  BY <1>1 DEF RenewalFails, TypeInv, ConnectionTypeOK, jobber, bounds, history

LEMMA PostsTyped == ASSUME TypeInv, NEW h \in Handler, Posts(h) PROVE TypeInv'
<1> USE DEF TypeInv, ConnectionTypeOK
<1>1. HandlerOK(at[h]) /\ at[h].access \in Consent /\ at[h].stage = "post" /\ at[h].joined = NoHandler
  BY DEF Posts, HandlersOK, HandlerOK
<1>2. at' \in [Handler -> HandlerState] /\ HandlersOK'
  <2>1. CASE \E stage \in {"answered", "failed"} : Goes(h, stage)
    BY <1>1, <2>1, HandlerGoes DEF Stage
  <2>2. CASE at' = [at EXCEPT ![h].stage = "renew", ![h].retried = TRUE]
    <3> DEFINE x == [at[h] EXCEPT !.stage = "renew", !.retried = TRUE]
    <3>1. at' = [at EXCEPT ![h] = x]
      BY <2>2
    <3>2. HandlerOK(x)
      BY <1>1 DEF HandlerOK, HandlerState, Stage
    <3> HIDE DEF x
    <3> QED
      BY <3>1, <3>2, HandlerMoves
  <2> QED
    BY <2>1, <2>2 DEF Posts
<1>3. dead' \subseteq Consent
  BY <1>1 DEF Posts, Severed
<1>4. faults' \in 0..MaxFaults
  BY FaultTyped DEF Posts
<1> QED
  BY <1>2, <1>3, <1>4 DEF Posts, renewals, history, RenewalsOK

LEMMA EndsTyped == ASSUME TypeInv, NEW h \in Handler, CallEnds(h) \/ NotJudged(h) PROVE TypeInv'
<1>1. at' \in [Handler -> HandlerState] /\ HandlersOK'
  BY HandlerEnds DEF CallEnds, NotJudged
<1> QED
  BY <1>1, HandlerTyped DEF CallEnds, NotJudged, bounds, history, TypeInv, ConnectionTypeOK

LEMMA ExchangesTyped == ASSUME TypeInv, NEW h \in Handler, Exchanges(h) PROVE TypeInv'
<1> USE DEF TypeInv, ConnectionTypeOK
<1> DEFINE t == [grant |-> Granted + 1, spent |-> 0]
<1>1. Granted \in Nat /\ Granted + 1 \in Consent
  <2>1. IsFiniteSet(Consent)
    BY FS_Interval, ConnectionAssumption DEF Consent
  <2>2. Granted \in Nat
    BY <2>1, FS_Subset, FS_CardinalityType DEF Granted
  <2> QED
    BY <2>2, ConnectionAssumption DEF Exchanges, Consent
<1> HIDE DEF Granted
<1>2. t \in RefreshToken /\ t.grant \in Consent
  BY <1>1, ConnectionAssumption DEF RefreshToken, Grant, Consent
<1>3. row' \in Connection /\ RowOK(row')
  BY <1>2, StoresTyped DEF Exchanges
<1>4. of' \in [Consent -> Account \union {NoAccount}]
  BY <1>1 DEF Exchanges
<1>5. at' \in [Handler -> HandlerState] /\ HandlersOK'
  BY HandlerGoes DEF Exchanges, Stage
<1>6. crossed' \in BOOLEAN
  BY DEF Exchanges, WritesOver
<1>7. UNCHANGED <<current, dead, notices, renewals, bounds, home, lost, cut>>
  BY DEF Exchanges
<1> HIDE DEF t
<1> QED
  BY <1>3, <1>4, <1>5, <1>6, <1>7 DEF renewals, bounds, RenewalsOK, RowOK

LEMMA ExchangeFailsTyped == ASSUME TypeInv, NEW h \in Handler, ExchangeFails(h) PROVE TypeInv'
<1>1. at' \in [Handler -> HandlerState] /\ HandlersOK'
  BY HandlerEnds DEF ExchangeFails
<1> QED
  BY <1>1, HandlerTyped DEF ExchangeFails, bounds, history, TypeInv, ConnectionTypeOK

LEMMA JudgesTyped == ASSUME TypeInv, NEW h \in Handler, Judges(h) PROVE TypeInv'
<1> USE DEF TypeInv, ConnectionTypeOK
<1>1. HandlerOK(at[h]) /\ at[h].access \in Consent
  BY DEF Judges, HandlersOK, HandlerOK
<1>2. of[at[h].access] \in Account \union {NoAccount}
  BY <1>1
<1>3. row' \in Connection /\ RowOK(row')
  <2>1. CASE Swapped(h)
    <3>1. row' = [at[h].previous EXCEPT !.account = row.account]
      BY <2>1 DEF Judges
    <3>2. RowOK(at[h].previous) /\ row.account \in Account \union {NoAccount}
      BY <1>1 DEF HandlerOK, Connection
    <3> QED
      BY <3>1, <3>2 DEF RowOK, Connection
  <2>2. CASE ~Swapped(h)
    BY <1>2, <2>2 DEF Judges, RowOK, Connection
  <2> QED
    BY <2>1, <2>2
<1>4. home' \in Account \union {NoAccount}
  BY <1>2 DEF Judges
<1>5. crossed' \in BOOLEAN
  BY DEF Judges, WritesOver
<1>6. at' \in [Handler -> HandlerState] /\ HandlersOK'
  BY HandlerEnds DEF Judges
<1> QED
  BY <1>3, <1>4, <1>5, <1>6 DEF Judges, renewals, jobber, bounds, RenewalsOK, RowOK

LEMMA DisconnectedTyped == ASSUME TypeInv, NEW h \in Handler, Disconnected(h) PROVE TypeInv'
<1> USE DEF TypeInv, ConnectionTypeOK
<1>1. row' \in Connection /\ RowOK(row') /\ home' = NoAccount
  BY ForgetsTyped DEF Disconnected
<1>2. at' \in [Handler -> HandlerState] /\ HandlersOK'
  BY HandlerEnds DEF Disconnected
<1> QED
  BY <1>1, <1>2 DEF Disconnected, renewals, jobber, bounds, RenewalsOK, RowOK

LEMMA ThereTyped ==
    ASSUME TypeInv, NEW a \in Account, DisconnectedThere(a) \/ NoticeArrives(a) PROVE TypeInv'
<1> USE DEF TypeInv, ConnectionTypeOK
<1>1. CASE DisconnectedThere(a)
  <2>1. faults' \in 0..MaxFaults
    BY <1>1, FaultTyped DEF DisconnectedThere
  <2>2. dead' \subseteq Consent /\ notices' \subseteq Account
    BY <1>1 DEF DisconnectedThere, Severed
  <2> QED
    BY <1>1, <2>1, <2>2 DEF DisconnectedThere, renewals, history, RenewalsOK, HandlersOK
<1>2. CASE NoticeArrives(a)
  <2>1. row' \in Connection /\ RowOK(row') /\ home' \in Account \union {NoAccount}
    BY <1>2, ForgetsTyped DEF NoticeArrives
  <2> QED
    BY <1>2, <2>1 DEF NoticeArrives, renewals, bounds, RenewalsOK, HandlersOK, RowOK
<1> QED
  BY <1>1, <1>2

LEMMA LapsesTyped == ASSUME TypeInv, Lapses PROVE TypeInv'
<1> USE DEF TypeInv, ConnectionTypeOK
<1>1. row' \in Connection /\ RowOK(row')
  BY DEF Lapses, RowOK, Connection
<1>2. lapses' \in 0..MaxLapses
  BY ConnectionAssumption DEF Lapses
<1> QED
  BY <1>1, <1>2 DEF Lapses, renewals, jobber, history, RenewalsOK, HandlersOK, RowOK

LEMMA RestartsTyped == ASSUME TypeInv, Restarts PROVE TypeInv'
<1> USE DEF TypeInv, ConnectionTypeOK
<1>1. at' \in [Handler -> HandlerState] /\ HandlersOK'
  BY IdleOK DEF Restarts, HandlersOK, HandlerOK
<1>2. renewal' \in [Handler -> Renewal] /\ RenewalsOK'
  BY IdleOK DEF Restarts, RenewalsOK, RenewalOK
<1>3. faults' \in 0..MaxFaults
  BY FaultTyped DEF Restarts
<1>4. lost' \in BOOLEAN /\ cut' \in BOOLEAN
  BY DEF Restarts
<1> QED
  BY <1>1, <1>2, <1>3, <1>4 DEF Restarts, jobber

LEMMA NextTyped == TypeInv /\ [ConnectionNext]_connectionVars => TypeInv'
<1> SUFFICES ASSUME TypeInv, [ConnectionNext]_connectionVars PROVE TypeInv'
  OBVIOUS
<1>1. CASE UNCHANGED connectionVars
  BY <1>1 DEF connectionVars, jobber, renewals, bounds, history, TypeInv, ConnectionTypeOK, HandlersOK, RenewalsOK
<1>2. CASE ConnectionNext
  <2>1. ASSUME NEW h \in Handler, RenewalStep(h) PROVE TypeInv'
    BY <2>1, ReadsTyped, AnswersTyped, RefreshedTyped, RefusedTyped, FailsTyped DEF RenewalStep
  <2>2. ASSUME NEW h \in Handler, HandlerStep(h) PROVE TypeInv'
    BY <2>2, AsksTyped, RenewsTyped, PostsTyped, EndsTyped, JudgesTyped, DisconnectedTyped DEF HandlerStep
  <2>3. ASSUME NEW h \in Handler, Calls(h) \/ Disconnects(h) \/ Connects(h) \/ Exchanges(h) \/ ExchangeFails(h)
        PROVE  TypeInv'
    BY <2>3, BeginsTyped, ExchangesTyped, ExchangeFailsTyped
  <2> QED
    BY <1>2, <2>1, <2>2, <2>3, ThereTyped, LapsesTyped, RestartsTyped DEF ConnectionNext
<1> QED
  BY <1>1, <1>2

(* The connection, what is known of Jobber, the handlers and the renewals  *)
(* keep their types: integrations/jobber/jobber.tokens.service.ts.         *)
THEOREM ConnectionTyped == ConnectionSpec => []ConnectionTypeOK
<1>1. ConnectionSpec => []TypeInv
  BY InitTyped, NextTyped, PTL DEF ConnectionSpec
<1>2. TypeInv => ConnectionTypeOK
  BY DEF TypeInv
<1> QED
  BY <1>1, <1>2, PTL

-----------------------------------------------------------------------------
(* One renewal at a time: the one that callers join is under way.          *)
JoinedRuns ==
    /\ inFlight # NoHandler => renewal[inFlight].stage # "none"
    /\ \A h \in Handler : at[h].stage = "joined" => inFlight # NoHandler

RenewalInv == OneRenewal /\ JoinedRuns

(* Steps that neither begin nor end a renewal, nor join one.               *)
LEMMA RenewalKept ==
    ASSUME TypeInv, RenewalInv, UNCHANGED inFlight,
           \A h \in Handler : (renewal'[h].stage = "none") <=> (renewal[h].stage = "none"),
           \A h \in Handler : at'[h].stage = "joined" => at'[h] = at[h]
    PROVE  RenewalInv'
BY DEF RenewalInv, OneRenewal, JoinedRuns, TypeInv, ConnectionTypeOK

LEMMA SettleKeepsOne ==
    ASSUME TypeInv, RenewalInv, NEW h \in Handler, renewal[h].stage # "none",
           NEW stage \in {"post", "failed"}, NEW access, Settle(h, stage, access)
    PROVE  RenewalInv'
<1>1. inFlight = h /\ inFlight' = NoHandler
  BY DEF RenewalInv, OneRenewal, Settle
<1>2. \A g \in Handler : renewal'[g].stage = "none"
  BY <1>1 DEF RenewalInv, OneRenewal, Settle, TypeInv, ConnectionTypeOK, NoRenewal
<1>3. \A g \in Handler : at'[g].stage # "joined"
  <2> SUFFICES ASSUME NEW g \in Handler PROVE at'[g].stage # "joined"
    OBVIOUS
  <2>1. at[g] \in HandlerState
    BY DEF TypeInv, ConnectionTypeOK
  <2>2. CASE at[g].joined = h
    BY <2>1, <2>2 DEF Settle, HandlerState
  <2>3. CASE at[g].joined # h
    BY <1>1, <2>3 DEF Settle, RenewalInv, OneRenewal
  <2> QED
    BY <2>2, <2>3
<1> QED
  BY <1>1, <1>2, <1>3 DEF RenewalInv, OneRenewal, JoinedRuns

LEMMA RenewalStepKeepsOne ==
    ASSUME TypeInv, RenewalInv, NEW h \in Handler, RenewalStep(h) PROVE RenewalInv'
<1>1. CASE RenewalReads(h)
  <2>1. CASE row.refresh = NoToken
    BY <1>1, <2>1, SettleKeepsOne DEF RenewalReads
  <2>2. CASE row.refresh # NoToken
    <3>1. UNCHANGED <<at, inFlight>> /\ renewal' = [renewal EXCEPT ![h] = [stage |-> "posted", token |-> row.refresh]]
      BY <1>1, <2>2 DEF RenewalReads
    <3>2. \A g \in Handler : (renewal'[g].stage = "none") <=> (renewal[g].stage = "none")
      BY <1>1, <3>1 DEF RenewalReads, TypeInv, ConnectionTypeOK
    <3> QED
      BY <3>1, <3>2, RenewalKept
  <2> QED
    BY <2>1, <2>2
<1>2. CASE JobberAnswers(h)
  <2>1. PICK outcome \in Outcome : renewal' = [renewal EXCEPT ![h].stage = outcome]
    BY <1>2 DEF JobberAnswers, Outcome
  <2>2. \A g \in Handler : (renewal'[g].stage = "none") <=> (renewal[g].stage = "none")
    BY <1>2, <2>1 DEF JobberAnswers, TypeInv, ConnectionTypeOK, Renewal, Outcome
  <2> QED
    BY <1>2, <2>2, RenewalKept DEF JobberAnswers
<1>3. CASE Refreshed(h) \/ MustReauthorize(h) \/ RenewalFails(h)
  BY <1>3, SettleKeepsOne DEF Refreshed, MustReauthorize, RenewalFails
<1> QED
  BY <1>1, <1>2, <1>3 DEF RenewalStep

LEMMA RenewsKeepsOne == ASSUME TypeInv, RenewalInv, NEW h \in Handler, Renews(h) PROVE RenewalInv'
<1> USE DEF TypeInv, ConnectionTypeOK
<1>1. CASE inFlight = NoHandler
  <2>1. /\ inFlight' = h /\ at' = [at EXCEPT ![h].stage = "joined", ![h].joined = h]
        /\ renewal' = [renewal EXCEPT ![h].stage = "read"]
    BY <1>1 DEF Renews
  <2>2. \A g \in Handler : renewal[g].stage = "none" /\ at[g].stage # "joined"
    BY <1>1, ConnectionAssumption DEF RenewalInv, OneRenewal, JoinedRuns
  <2>3. renewal'[h].stage = "read" /\ at'[h].joined = h
    BY <2>1 DEF Renewal, HandlerState
  <2> QED
    BY <2>1, <2>2, <2>3, ConnectionAssumption DEF RenewalInv, OneRenewal, JoinedRuns
<1>2. CASE inFlight # NoHandler
  <2>1. UNCHANGED <<inFlight, renewal>> /\ at' = [at EXCEPT ![h].stage = "joined", ![h].joined = inFlight]
    BY <1>2 DEF Renews
  <2>2. at'[h].joined = inFlight
    BY <2>1 DEF HandlerState
  <2> QED
    BY <1>2, <2>1, <2>2 DEF RenewalInv, OneRenewal, JoinedRuns
<1> QED
  BY <1>1, <1>2

(* The other steps go on with handlers that wait for no renewal.           *)
LEMMA HandlerKeepsOne ==
    ASSUME TypeInv, RenewalInv, NEW h \in Handler, UNCHANGED renewals,
           NEW x, at' = [at EXCEPT ![h] = x], x.stage # "joined"
    PROVE  RenewalInv'
BY RenewalKept DEF renewals, TypeInv, ConnectionTypeOK

LEMMA NextKeepsOne == TypeInv /\ RenewalInv /\ [ConnectionNext]_connectionVars => RenewalInv'
<1> SUFFICES ASSUME TypeInv, RenewalInv, [ConnectionNext]_connectionVars PROVE RenewalInv'
  OBVIOUS
<1>1. CASE UNCHANGED connectionVars
  BY <1>1, RenewalKept DEF connectionVars, renewals
<1>2. ASSUME NEW h \in Handler, CallEnds(h) \/ NotJudged(h) \/ Disconnected(h) \/ Judges(h) \/ ExchangeFails(h)
      PROVE  RenewalInv'
  <2>1. at' = [at EXCEPT ![h] = Idle] /\ UNCHANGED renewals /\ Idle.stage # "joined"
    BY <1>2 DEF CallEnds, NotJudged, Disconnected, Judges, ExchangeFails, Ends, Idle
  <2> QED
    BY <2>1, HandlerKeepsOne
<1>3. ASSUME NEW h \in Handler, Calls(h) \/ Disconnects(h) \/ Connects(h) PROVE RenewalInv'
  <2>1. UNCHANGED renewals
    BY <1>3 DEF Calls, Disconnects, Connects, Begins
  <2>2. \A g \in Handler : g # h => at'[g] = at[g]
    BY <1>3 DEF Calls, Disconnects, Connects, Begins, TypeInv, ConnectionTypeOK
  <2>3. at'[h].stage # "joined"
    BY <1>3 DEF Calls, Disconnects, Connects, Begins, Idle, TypeInv, ConnectionTypeOK
  <2> QED
    BY <2>1, <2>2, <2>3, RenewalKept DEF renewals
<1>4. ASSUME NEW h \in Handler, Exchanges(h) \/ AsksToken(h) \/ Posts(h) PROVE RenewalInv'
  <2>1. at[h] \in HandlerState
    BY DEF TypeInv, ConnectionTypeOK
  <2>2. /\ UNCHANGED renewals
        /\ \A g \in Handler : g # h => at'[g] = at[g]
        /\ at'[h].stage # "joined"
    BY <1>4, <2>1 DEF Exchanges, AsksToken, Posts, Goes, HandlerState, TypeInv, ConnectionTypeOK
  <2> QED
    BY <2>2, RenewalKept DEF renewals
<1>5. ASSUME NEW a \in Account, DisconnectedThere(a) \/ NoticeArrives(a) PROVE RenewalInv'
  BY <1>5, RenewalKept DEF DisconnectedThere, NoticeArrives, renewals
<1>6. CASE Lapses
  BY <1>6, RenewalKept DEF Lapses, renewals
<1>7. CASE Restarts
  <2>1. \A h \in Handler : renewal'[h].stage = "none" /\ at'[h].stage # "joined"
    BY <1>7 DEF Restarts, NoRenewal, Idle
  <2> QED
    BY <1>7, <2>1 DEF Restarts, RenewalInv, OneRenewal, JoinedRuns
<1> QED
  BY <1>1, <1>2, <1>3, <1>4, <1>5, <1>6, <1>7, RenewalStepKeepsOne, RenewsKeepsOne
     DEF ConnectionNext, HandlerStep

LEMMA InitOne == ConnectionInit => RenewalInv
BY DEF ConnectionInit, RenewalInv, OneRenewal, JoinedRuns, NoRenewal, Idle

(* At most one renewal is under way, and whoever waits for a renewal waits *)
(* for that one (inFlight of jobber.tokens.service.ts).                    *)
THEOREM RenewalsOneAtATime == ConnectionSpec => []OneRenewal
<1>1. ConnectionSpec => [](TypeInv /\ RenewalInv)
  BY InitTyped, NextTyped, InitOne, NextKeepsOne, PTL DEF ConnectionSpec
<1>2. TypeInv /\ RenewalInv => OneRenewal
  BY DEF RenewalInv
<1> QED
  BY <1>1, <1>2, PTL

-----------------------------------------------------------------------------
(* Whose credentials are kept, and which of them Jobber would still renew. *)

(* What is known of a consent: they are granted in order, one that is yet  *)
(* to come was never renewed, and a token is of one that was granted and   *)
(* was not renewed more often than it.                                     *)
Knows(t) == t = NoToken \/ (of[t.grant] # NoAccount /\ t.spent <= current[t.grant])

Known ==
    /\ {g \in Consent : of[g] # NoAccount} = 1..Granted
    /\ \A g \in Consent : of[g] = NoAccount => current[g] = 0
    /\ Knows(row.refresh)
    /\ \A h \in Handler : Knows(at[h].previous.refresh) /\ Knows(renewal[h].token)

(* Consents do not overlap, and the credentials put aside are not those of *)
(* the consent that is being judged.                                       *)
Apart ==
    /\ \A h, k \in Handler : Unjudged(h) /\ Unjudged(k) => h = k
    /\ \A h \in Handler : Unjudged(h) =>
         at[h].previous.refresh = NoToken \/ at[h].previous.refresh.grant # row.refresh.grant

(* A token that is kept is the one Jobber would renew, unless its renewal  *)
(* was just granted; a refusal means that Jobber would not.                *)
Renewable(t) == t.grant \notin dead /\ current[t.grant] = t.spent
Answered(t) == \E h \in Handler : renewal[h].stage = "granted" /\ renewal[h].token = t
Live(t) == t = NoToken \/ current[t.grant] = t.spent \/ Answered(t)

AnswersOK ==
    \A h \in Handler :
      /\ renewal[h].stage = "granted" => current[renewal[h].token.grant] = renewal[h].token.spent + 1
      /\ renewal[h].stage = "refused" => ~Renewable(renewal[h].token)

Lasts ==
    /\ Live(row.refresh)
    /\ \A h \in Handler : Unjudged(h) => Live(at[h].previous.refresh)

(* A connection to be authorized again has a token that cannot come back.  *)
Ended ==
    row.status = "REAUTHORIZATION_REQUIRED" =>
        row.refresh # NoToken /\ ~Renewable(row.refresh) /\ ~Answered(row.refresh)

(* Whose credentials the row holds, and those put aside.                   *)
Own(r) == r.account = home /\ of[r.refresh.grant] = home /\ home # NoAccount

Owned ==
    /\ row.status = "CONNECTED" /\ ~Judging => Own(row)
    /\ row.status # "CONNECTED" => home = NoAccount
    /\ \A h \in Handler : Unjudged(h) /\ row.status = "CONNECTED" =>
         IF at[h].previous.status = "CONNECTED"
         THEN Own(at[h].previous) /\ row.account = home
         ELSE home = NoAccount

CredentialInv ==
    /\ Known /\ AnswersOK
    /\ ~crossed => Apart /\ Ended /\ (~lost => Lasts) /\ (~cut => Owned)

LEMMA InitCredentials == ConnectionInit => CredentialInv
<1> SUFFICES ASSUME ConnectionInit PROVE CredentialInv
  OBVIOUS
<1>1. Granted = 0
  <2>1. {g \in Consent : of[g] # NoAccount} = {}
    BY DEF ConnectionInit
  <2> QED
    BY <2>1, FS_EmptySet DEF Granted
<1>2. {g \in Consent : of[g] # NoAccount} = 1..Granted
  BY <1>1 DEF ConnectionInit
<1>3. Known
  <2>1. /\ row.refresh = NoToken
        /\ \A h \in Handler : at[h].previous.refresh = NoToken /\ renewal[h].token = NoToken
    BY DEF ConnectionInit, Unconnected, Idle, NoRenewal
  <2>2. Knows(NoToken)
    BY DEF Knows
  <2> QED
    BY <1>2, <2>1, <2>2 DEF ConnectionInit, Known
<1>4. AnswersOK
  BY DEF ConnectionInit, AnswersOK, NoRenewal
<1>5. \A h \in Handler : ~Unjudged(h)
  BY DEF ConnectionInit, Unjudged, Idle
<1> QED
  BY <1>3, <1>4, <1>5 DEF ConnectionInit, CredentialInv, Apart, Ended, Lasts, Live, Owned, Unconnected, Judging

(* The consents under way and what they put aside stay as they are.        *)
Steady ==
    \A g \in Handler : /\ Unjudged(g)' <=> Unjudged(g)
                       /\ Unjudged(g) => at'[g].previous = at[g].previous

PreviousKnown == \A g \in Handler : at'[g].previous \in {at[g].previous, row, Unconnected}

(* A step that changes neither credentials nor answers.                    *)
Quiet ==
    /\ row' = [row EXCEPT !.fresh = row'.fresh]
    /\ UNCHANGED <<of, current, home, lost, cut, crossed>> /\ dead \subseteq dead'
    /\ Steady /\ PreviousKnown
    /\ \A g \in Handler :
         /\ renewal'[g].token \in {renewal[g].token, row.refresh, NoToken}
         /\ renewal'[g].stage \in {"granted", "refused"} => renewal'[g] = renewal[g]
         /\ renewal[g].stage = "granted" => renewal'[g] = renewal[g]

LEMMA QuietKeeps ==
    ASSUME TypeInv, TypeInv', CredentialInv, Quiet PROVE CredentialInv'
<1> USE DEF Quiet
<1>0. row' = [row EXCEPT !.fresh = row'.fresh] /\ row \in Connection
  BY DEF TypeInv, ConnectionTypeOK
<1>1. /\ row'.status = row.status /\ row'.account = row.account
      /\ row'.access = row.access /\ row'.refresh = row.refresh
  BY <1>0 DEF Connection
<1>2. Granted' = Granted
  BY DEF Granted
<1>3. Known'
  <2>1. \A t : Knows(t)' <=> Knows(t)
    BY DEF Knows
  <2>2. Knows(Unconnected.refresh) /\ Knows(NoToken)
    <3>1. Unconnected.refresh = NoToken
      BY DEF Unconnected
    <3> QED
      BY <3>1 DEF Knows
  <2>3. \A h \in Handler : Knows(at'[h].previous.refresh) /\ Knows(renewal'[h].token)
    BY <2>2 DEF CredentialInv, Known, PreviousKnown
  <2> QED
    BY <1>1, <1>2, <2>1, <2>3 DEF CredentialInv, Known
<1>4. \A t : Renewable(t)' => Renewable(t)
  BY DEF Renewable
<1>5. AnswersOK'
  BY <1>4 DEF CredentialInv, AnswersOK
<1>6. \A t : Answered(t)' <=> Answered(t)
  BY DEF Answered
<1>7. \A t : Live(t) => Live(t)'
  BY <1>6 DEF Live
<1>8. Apart => Apart'
  BY <1>1 DEF Apart, Steady
<1>9. Ended => Ended'
  BY <1>1, <1>4, <1>6 DEF Ended
<1>10. Lasts => Lasts'
  BY <1>1, <1>7 DEF Lasts, Steady
<1>11. Judging' <=> Judging
  BY DEF Judging, Steady
<1>12. \A r : Own(r)' <=> Own(r)
  BY DEF Own
<1>13. Owned => Owned'
  BY <1>1, <1>11, <1>12 DEF Owned, Own, Steady
<1> QED
  BY <1>3, <1>5, <1>8, <1>9, <1>10, <1>13 DEF CredentialInv

(* What a step of one handler does to the consents.                        *)
LEMMA OneMoves ==
    ASSUME TypeInv, NEW h \in Handler,
           \A g \in Handler : g # h => at'[g] = at[g],
           Unjudged(h)' <=> Unjudged(h),
           Unjudged(h) => at'[h].previous = at[h].previous,
           at'[h].previous \in {at[h].previous, row, Unconnected}
    PROVE  Steady /\ PreviousKnown
<1>1. ASSUME NEW g \in Handler, g # h PROVE Unjudged(g)' <=> Unjudged(g)
  BY <1>1 DEF Unjudged
<1>2. ASSUME NEW g \in Handler
      PROVE  (Unjudged(g)' <=> Unjudged(g)) /\ (Unjudged(g) => at'[g].previous = at[g].previous)
  BY <1>1
<1> QED
  BY <1>2 DEF Steady, PreviousKnown

LEMMA SettleSteady ==
    ASSUME TypeInv, NEW h \in Handler, NEW stage \in {"post", "failed"}, NEW access, Settle(h, stage, access)
    PROVE  Steady /\ PreviousKnown
<1>1. ASSUME NEW g \in Handler
      PROVE  /\ Unjudged(g)' <=> Unjudged(g)
             /\ at'[g].previous = at[g].previous
  <2>1. at[g] \in HandlerState /\ HandlerOK(at[g])
    BY DEF TypeInv, ConnectionTypeOK, HandlersOK
  <2>2. CASE at[g].joined = h
    <3>1. at'[g] = [at[g] EXCEPT !.stage = stage, !.access = access, !.joined = NoHandler]
      BY <2>2 DEF Settle
    <3>2. at[g].stage = "joined"
      BY <2>1, <2>2, ConnectionAssumption DEF HandlerOK
    <3> QED
      BY <2>1, <3>1, <3>2 DEF Unjudged, HandlerState
  <2>3. CASE at[g].joined # h
    <3>1. at'[g] = at[g]
      BY <2>3 DEF Settle
    <3> QED
      BY <3>1 DEF Unjudged
  <2> QED
    BY <2>2, <2>3
<1> QED
  BY <1>1 DEF Steady, PreviousKnown

LEMMA RowSame == ASSUME TypeInv, UNCHANGED row PROVE row' = [row EXCEPT !.fresh = row'.fresh]
BY DEF TypeInv, ConnectionTypeOK, Connection

LEMMA HandlerQuiet ==
    ASSUME TypeInv, NEW h \in Handler,
           Calls(h) \/ Disconnects(h) \/ Connects(h) \/ ExchangeFails(h) \/ AsksToken(h) \/ Posts(h) \/ CallEnds(h)
    PROVE  Quiet
<1> USE DEF TypeInv, ConnectionTypeOK
<1>1. /\ UNCHANGED <<row, of, current, home, lost, cut, crossed, renewal>>
      /\ dead \subseteq dead'
  BY DEF Calls, Disconnects, Connects, Begins, ExchangeFails, AsksToken, Posts, CallEnds, Severed,
     jobber, renewals, history
<1>2. Steady /\ PreviousKnown
  <2>1. \A g \in Handler : g # h => at'[g] = at[g]
    BY DEF Calls, Disconnects, Connects, Begins, ExchangeFails, AsksToken, Posts, CallEnds, Goes, Ends
  <2>2. CASE AsksToken(h) \/ Posts(h)
    <3>1. at[h] \in HandlerState /\ at[h].stage \in {"token", "post"}
      BY <2>2 DEF AsksToken, Posts
    <3>2. at'[h].op = at[h].op /\ at'[h].stage # "exchange" /\ at'[h].previous = at[h].previous
      BY <2>2, <3>1 DEF AsksToken, Posts, Goes, HandlerState
    <3> QED
      BY <2>1, <3>1, <3>2, OneMoves DEF Unjudged
  <2>3. CASE ExchangeFails(h) \/ CallEnds(h)
    <3>1. at'[h] = Idle /\ ~Unjudged(h)
      BY <2>3 DEF ExchangeFails, CallEnds, Ends, Unjudged
    <3> QED
      BY <2>1, <3>1, OneMoves DEF Unjudged, Idle
  <2>4. CASE Calls(h) \/ Disconnects(h)
    <3>1. PICK op \in {"call", "disconnect"} :
            at[h] = Idle /\ at' = [at EXCEPT ![h] = [Idle EXCEPT !.op = op, !.stage = "token"]]
      BY <2>4 DEF Calls, Disconnects, Begins
    <3>2. ~Unjudged(h) /\ ~Unjudged(h)' /\ at'[h].previous = Unconnected
      BY <3>1 DEF Unjudged, Idle
    <3> QED
      BY <2>1, <3>2, OneMoves
  <2>5. CASE Connects(h)
    <3>1. ~Unjudged(h) /\ ~Unjudged(h)' /\ at'[h].previous = row
      BY <2>5 DEF Connects, Unjudged, Idle
    <3> QED
      BY <2>1, <3>1, OneMoves
  <2> QED
    BY <2>2, <2>3, <2>4, <2>5
<1> QED
  BY <1>1, <1>2, RowSame DEF Quiet

LEMMA RenewsQuiet == ASSUME TypeInv, NEW h \in Handler, Renews(h), JoinedRuns, OneRenewal PROVE Quiet
<1> USE DEF TypeInv, ConnectionTypeOK
<1>1. \A g \in Handler : g # h => at'[g] = at[g]
  BY DEF Renews
<1>2. at'[h].op = at[h].op /\ at'[h].stage = "joined" /\ at'[h].previous = at[h].previous
  BY DEF Renews, HandlerState
<1>3. Steady /\ PreviousKnown
  BY <1>1, <1>2, OneMoves DEF Renews, Unjudged
<1>4. \A g \in Handler : renewal'[g] = renewal[g]
                         \/ /\ renewal[g].stage = "none" /\ renewal'[g].stage = "read"
                            /\ renewal'[g].token = renewal[g].token
  BY ConnectionAssumption DEF Renews, OneRenewal, Renewal
<1> QED
  BY <1>3, <1>4, RowSame DEF Quiet, Renews, jobber, history

LEMMA RenewalQuiet == ASSUME TypeInv, NEW h \in Handler, RenewalReads(h) \/ RenewalFails(h) PROVE Quiet
<1> USE DEF TypeInv, ConnectionTypeOK
<1>1. UNCHANGED <<row, of, current, dead, home, lost, cut, crossed>>
  BY DEF RenewalReads, RenewalFails, jobber, history
<1>2. CASE Settle(h, "failed", 0)
  <2>1. Steady /\ PreviousKnown
    BY <1>2, SettleSteady
  <2>2. \A g \in Handler : renewal'[g] = IF g = h THEN NoRenewal ELSE renewal[g]
    BY <1>2 DEF Settle
  <2>3. renewal[h].stage # "granted"
    BY DEF RenewalReads, RenewalFails
  <2> QED
    BY <1>1, <2>1, <2>2, <2>3, RowSame DEF Quiet, NoRenewal
<1>3. CASE ~Settle(h, "failed", 0)
  <2>1. /\ renewal' = [renewal EXCEPT ![h] = [stage |-> "posted", token |-> row.refresh]]
        /\ renewal[h].stage = "read" /\ UNCHANGED at
    BY <1>3 DEF RenewalReads, RenewalFails
  <2>2. Steady /\ PreviousKnown
    BY <2>1 DEF Steady, PreviousKnown, Unjudged
  <2> QED
    BY <1>1, <2>1, <2>2, RowSame DEF Quiet
<1> QED
  BY <1>2, <1>3

LEMMA ElsewhereQuiet ==
    ASSUME TypeInv, \/ UNCHANGED connectionVars \/ Lapses
                    \/ \E a \in Account : DisconnectedThere(a) \/ (NoticeArrives(a) /\ row.account # a)
    PROVE  Quiet
<1>1. /\ UNCHANGED <<of, current, home, lost, cut, crossed, renewal, at>>
      /\ dead \subseteq dead'
  BY DEF connectionVars, Lapses, DisconnectedThere, NoticeArrives, Severed, jobber, renewals, history
<1>2. Steady /\ PreviousKnown
  BY <1>1 DEF Steady, PreviousKnown, Unjudged
<1>3. row' = [row EXCEPT !.fresh = row'.fresh]
  <2>1. CASE Lapses
    BY <2>1 DEF Lapses, TypeInv, ConnectionTypeOK, Connection
  <2>2. CASE UNCHANGED row
    BY <2>2, RowSame
  <2> QED
    BY <2>1, <2>2 DEF connectionVars, DisconnectedThere, NoticeArrives
<1> QED
  BY <1>1, <1>2, <1>3 DEF Quiet

(* Only the renewal under way can have been answered.                      *)
LEMMA AnsweredAlone ==
    ASSUME OneRenewal, NEW h \in Handler, renewal[h].stage # "none"
    PROVE  /\ \A k \in Handler : k # h => renewal[k].stage = "none"
           /\ \A t : Answered(t) <=> renewal[h].stage = "granted" /\ renewal[h].token = t
<1>1. \A k \in Handler : k # h => renewal[k].stage = "none"
  BY DEF OneRenewal
<1> QED
  BY <1>1 DEF Answered

LEMMA AnswersKeep ==
    ASSUME TypeInv, CredentialInv, OneRenewal, NEW h \in Handler, JobberAnswers(h) PROVE CredentialInv'
<1> USE DEF TypeInv, ConnectionTypeOK
<1> DEFINE t == renewal[h].token
<1>1. /\ UNCHANGED <<row, of, dead, at, home, cut, crossed>> /\ (lost => lost')
      /\ renewal[h].stage = "posted"
  BY DEF JobberAnswers
<1>2. t \in RefreshToken /\ t # NoToken /\ t.grant \in Consent
  BY <1>1 DEF RenewalsOK, RenewalOK, Proper
<1>3. of[t.grant] # NoAccount /\ t.spent <= current[t.grant]
  BY <1>2 DEF CredentialInv, Known, Knows
<1>4. \/ UNCHANGED current
      \/ Renewable(t) /\ current' = [current EXCEPT ![t.grant] = @ + 1]
  BY DEF JobberAnswers, Renewable
<1>5. \/ renewal' = [renewal EXCEPT ![h].stage = "granted"] /\ Renewable(t) /\ current' = [current EXCEPT ![t.grant] = @ + 1]
      \/ renewal' = [renewal EXCEPT ![h].stage = "refused"] /\ ~Renewable(t) /\ UNCHANGED current
      \/ renewal' = [renewal EXCEPT ![h].stage = "unanswered"] /\ (lost' \/ UNCHANGED current)
  BY DEF JobberAnswers, Renewable
<1>6. /\ \A k \in Handler : renewal'[k].token = renewal[k].token
      /\ \A k \in Handler : k # h => renewal'[k] = renewal[k] /\ renewal[k].stage = "none"
  BY <1>1, <1>5, AnsweredAlone DEF Renewal
<1>7. renewal'[h].stage \in Outcome
  BY <1>5 DEF Renewal, Outcome
<1>8. current' \in [Consent -> Nat] /\ \A g \in Consent : current[g] <= current'[g]
  BY <1>2, <1>4
<1>9. ASSUME NEW x, Proper(x), Knows(x) PROVE Knows(x)' /\ (x # NoToken /\ Renewable(x)' => Renewable(x))
  <2>1. CASE x = NoToken
    BY <2>1 DEF Knows
  <2>2. CASE x # NoToken
    <3>1. x.grant \in Consent /\ x.spent \in Nat /\ of[x.grant] # NoAccount /\ x.spent <= current[x.grant]
      BY <1>9, <2>2 DEF Proper, Knows, RefreshToken
    <3>2. current[x.grant] \in Nat /\ current'[x.grant] \in Nat /\ current[x.grant] <= current'[x.grant]
      BY <1>8, <3>1
    <3>3. Knows(x)'
      BY <1>1, <3>1, <3>2 DEF Knows
    <3>4. Renewable(x)' => Renewable(x)
      BY <1>1, <3>1, <3>2 DEF Renewable
    <3> QED
      BY <3>3, <3>4
  <2> QED
    BY <2>1, <2>2
<1>10. Known'
  <2>1. Granted' = Granted
    BY <1>1 DEF Granted
  <2>2. \A h_1 \in Handler : Proper(at[h_1].previous.refresh) /\ Proper(renewal[h_1].token)
    BY DEF HandlersOK, HandlerOK, RowOK, RenewalsOK, RenewalOK
  <2>3. Proper(row.refresh)
    BY DEF RowOK
  <2>4. \A g \in Consent : of[g] = NoAccount => current'[g] = 0
    BY <1>2, <1>3, <1>4 DEF CredentialInv, Known
  <2> QED
    BY <1>1, <1>6, <1>9, <2>1, <2>2, <2>3, <2>4 DEF CredentialInv, Known
<1>11. AnswersOK'
  <2>1. renewal'[h].stage = "granted" => current'[t.grant] = t.spent + 1
    BY <1>2, <1>5 DEF Renewable, Renewal
  <2>2. renewal'[h].stage = "refused" => ~Renewable(t)'
    BY <1>1, <1>5 DEF Renewable, Renewal
  <2> QED
    BY <1>6, <2>1, <2>2 DEF AnswersOK
<1>12. Apart => Apart'
  BY <1>1 DEF Apart, Unjudged
<1>13. Owned => Owned'
  BY <1>1 DEF Owned, Own, Unjudged, Judging
<1>14. ASSUME NEW x PROVE Answered(x)' <=> renewal'[h].stage = "granted" /\ t = x
  BY <1>6 DEF Answered
<1>15. Ended => Ended'
  <2> SUFFICES ASSUME Ended, row.status = "REAUTHORIZATION_REQUIRED" PROVE Ended'
    BY <1>1 DEF Ended
  <2>1. row.refresh # NoToken /\ ~Renewable(row.refresh) /\ Proper(row.refresh) /\ Knows(row.refresh)
    BY DEF Ended, RowOK, CredentialInv, Known
  <2>2. ~Renewable(row.refresh)'
    BY <1>1, <1>9, <2>1
  <2>3. ~Answered(row.refresh)'
    BY <1>1, <1>5, <1>14, <2>1 DEF Renewal
  <2> QED
    BY <1>1, <2>1, <2>2, <2>3 DEF Ended
<1>16. ASSUME NEW x, Proper(x), Live(x), ~lost' PROVE Live(x)'
  <2>1. x = NoToken \/ current[x.grant] = x.spent
    BY <1>1, <1>16, AnsweredAlone DEF Live
  <2>2. CASE x = NoToken \/ current'[x.grant] = x.spent
    BY <2>2 DEF Live
  <2>3. CASE x # NoToken /\ current'[x.grant] # x.spent
    <3>1. x.grant = t.grant /\ x.grant \in Consent /\ x \in RefreshToken
      BY <1>2, <1>5, <1>16, <2>1, <2>3 DEF Proper
    <3>2. renewal'[h].stage = "granted" /\ current[t.grant] = t.spent
      BY <1>5, <1>16, <2>1, <2>3 DEF Renewal, Renewable
    <3>3. x = t
      BY <1>2, <2>1, <2>3, <3>1, <3>2 DEF RefreshToken
    <3> QED
      BY <1>14, <3>2, <3>3 DEF Live
  <2> QED
    BY <2>2, <2>3
<1>17. Lasts /\ ~lost' => Lasts'
  BY <1>1, <1>16 DEF Lasts, HandlersOK, HandlerOK, RowOK, Unjudged
<1> QED
  BY <1>1, <1>10, <1>11, <1>12, <1>13, <1>15, <1>17 DEF CredentialInv

LEMMA RefreshedKeeps ==
    ASSUME TypeInv, CredentialInv, OneRenewal, NEW h \in Handler, Refreshed(h) PROVE CredentialInv'
<1> USE DEF TypeInv, ConnectionTypeOK
<1> DEFINE t == renewal[h].token
<1>1. /\ UNCHANGED <<of, current, dead, home, lost, cut>> /\ renewal[h].stage = "granted"
      /\ crossed' = (crossed \/ row.refresh # t)
      /\ Stores(Renewed(t)) /\ Settle(h, "post", t.grant)
  BY DEF Refreshed, WritesOver, jobber
<1>2. t \in RefreshToken /\ t # NoToken /\ t.grant \in Consent
  BY <1>1 DEF RenewalsOK, RenewalOK, Proper
<1>3. of[t.grant] # NoAccount /\ current[t.grant] = t.spent + 1
  BY <1>1, <1>2 DEF CredentialInv, Known, Knows, AnswersOK
<1>4. Renewed(t).grant = t.grant /\ Renewed(t).spent = t.spent + 1
  BY <1>2 DEF Renewed, RefreshToken
<1>5. /\ row'.status = "CONNECTED" /\ row'.account = row.account
      /\ row'.refresh = Renewed(t)
  BY <1>1 DEF Stores, Connection
<1>6. /\ \A k \in Handler : renewal'[k].stage = "none"
      /\ \A k \in Handler : renewal'[k].token \in {renewal[k].token, NoToken}
  BY <1>1, AnsweredAlone DEF Settle, NoRenewal
<1>7. Steady /\ PreviousKnown
  BY <1>1, SettleSteady
<1>8. \A x : Knows(x)' <=> Knows(x)
  BY <1>1 DEF Knows
<1>9. Known'
  <2>1. Granted' = Granted
    BY <1>1 DEF Granted
  <2>2. Knows(Renewed(t))
    BY <1>2, <1>3, <1>4 DEF Knows
  <2>3. Knows(NoToken)
    BY DEF Knows
  <2>4. Knows(Unconnected.refresh)
    BY <2>3 DEF Unconnected
  <2> HIDE DEF t
  <2> QED
    BY <1>1, <1>5, <1>6, <1>7, <1>8, <2>1, <2>2, <2>3, <2>4 DEF CredentialInv, Known, PreviousKnown
<1>10. AnswersOK'
  BY <1>6 DEF AnswersOK
<1>11. ASSUME ~crossed' PROVE Apart' /\ Ended' /\ (~lost' => Lasts') /\ (~cut' => Owned')
  <2>1. row.refresh = t /\ Apart /\ Ended /\ (~lost => Lasts) /\ (~cut => Owned)
    BY <1>1, <1>11 DEF CredentialInv
  <2>2. row.status = "CONNECTED"
    BY <1>1, <1>2, <2>1 DEF Ended, Answered, RowOK, Connection, Status
  <2>3. Apart'
    BY <1>4, <1>5, <1>7, <2>1 DEF Apart, Steady
  <2>4. Ended'
    BY <1>5 DEF Ended
  <2>5. ~lost' => Lasts'
    <3> SUFFICES ASSUME Lasts PROVE Lasts'
      BY <1>1, <2>1
    <3>1. Live(row.refresh)'
      BY <1>1, <1>3, <1>4, <1>5 DEF Live
    <3>2. ASSUME NEW x, Live(x), x = NoToken \/ x # t PROVE Live(x)'
      <4>1. Answered(x) => x = t
        BY <1>1 DEF Answered, OneRenewal
      <4> HIDE DEF t
      <4> QED
        BY <1>1, <3>2, <4>1 DEF Live
    <3>3. \A k \in Handler : Unjudged(k) => at[k].previous.refresh = NoToken \/ at[k].previous.refresh # t
      BY <2>1 DEF Apart
    <3> QED
      BY <1>7, <3>1, <3>2, <3>3 DEF Lasts, Steady
  <2>6. ~cut' => Owned'
    <3> SUFFICES ASSUME Owned PROVE Owned'
      BY <1>1, <2>1
    <3>1. Own(row) => Own(row)'
      BY <1>1, <1>4, <1>5, <2>1 DEF Own
    <3>2. Judging' <=> Judging
      BY <1>7 DEF Judging, Steady
    <3>3. \A r : Own(r)' <=> Own(r)
      BY <1>1 DEF Own
    <3> QED
      BY <1>1, <1>5, <1>7, <2>2, <3>1, <3>2, <3>3 DEF Owned, Steady
  <2> QED
    BY <2>3, <2>4, <2>5, <2>6
<1> QED
  BY <1>9, <1>10, <1>11 DEF CredentialInv

LEMMA RefusedKeeps ==
    ASSUME TypeInv, CredentialInv, OneRenewal, NEW h \in Handler, MustReauthorize(h) PROVE CredentialInv'
<1> USE DEF TypeInv, ConnectionTypeOK
<1> DEFINE t == renewal[h].token
<1>1. /\ UNCHANGED <<of, current, dead, lost, cut>> /\ home' = NoAccount
      /\ crossed' = (crossed \/ row.refresh # t)
      /\ renewal[h].stage = "refused" /\ Settle(h, "failed", 0)
  BY DEF MustReauthorize, WritesOver, jobber
<1>2. row'.status = "REAUTHORIZATION_REQUIRED" /\ row'.refresh = row.refresh
  BY DEF MustReauthorize, Connection
<1>3. /\ \A k \in Handler : renewal'[k].stage = "none"
      /\ \A k \in Handler : renewal'[k].token \in {renewal[k].token, NoToken}
  BY <1>1, AnsweredAlone DEF Settle, NoRenewal
<1>4. Steady /\ PreviousKnown
  BY <1>1, SettleSteady
<1>5. Known'
  <2>1. Granted' = Granted
    BY <1>1 DEF Granted
  <2>2. Knows(NoToken)
    BY DEF Knows
  <2>3. Knows(Unconnected.refresh)
    BY <2>2 DEF Unconnected
  <2>4. \A x : Knows(x)' <=> Knows(x)
    BY <1>1 DEF Knows
  <2> QED
    BY <1>1, <1>2, <1>3, <1>4, <2>1, <2>2, <2>3, <2>4 DEF CredentialInv, Known, PreviousKnown
<1>6. AnswersOK'
  BY <1>3 DEF AnswersOK
<1>7. \A x : ~Answered(x) /\ ~Answered(x)'
  BY <1>1, <1>3, AnsweredAlone DEF Answered
<1>8. Apart => Apart'
  BY <1>2, <1>4 DEF Apart, Steady
<1>9. ~crossed' => Ended'
  <2> SUFFICES ASSUME row.refresh = t PROVE Ended'
    BY <1>1
  <2>1. row.refresh # NoToken /\ ~Renewable(row.refresh)
    BY <1>1 DEF CredentialInv, AnswersOK, RenewalsOK, RenewalOK
  <2>2. ~Renewable(row.refresh)'
    BY <1>1, <1>2, <2>1 DEF Renewable
  <2> QED
    BY <1>2, <1>7, <2>1, <2>2 DEF Ended
<1>10. Lasts => Lasts'
  <2>1. \A x : Live(x) => Live(x)'
    BY <1>1, <1>7 DEF Live
  <2> QED
    BY <1>2, <1>4, <2>1 DEF Lasts, Steady
<1>11. Owned'
  BY <1>1, <1>2 DEF Owned
<1> QED
  BY <1>1, <1>5, <1>6, <1>8, <1>9, <1>10, <1>11 DEF CredentialInv

(* The office or Jobber gives the connection up.                           *)
LEMMA ForgetsKeeps ==
    ASSUME TypeInv, CredentialInv, Forgets, Steady, PreviousKnown,
           UNCHANGED <<of, current, dead, renewal, lost, cut, crossed>>
    PROVE  CredentialInv'
<1> USE DEF TypeInv, ConnectionTypeOK
<1>1. row'.status = "DISCONNECTED" /\ row'.refresh = NoToken /\ home' = NoAccount
  BY DEF Forgets, Unconnected
<1>2. \A x : (Knows(x)' <=> Knows(x)) /\ (Renewable(x)' <=> Renewable(x)) /\ (Answered(x)' <=> Answered(x))
  BY DEF Knows, Renewable, Answered
<1>3. \A x : Live(x)' <=> Live(x)
  BY <1>2 DEF Live
<1>4. Known'
  <2>1. Granted' = Granted
    BY DEF Granted
  <2>2. Knows(NoToken)
    BY DEF Knows
  <2>3. Knows(Unconnected.refresh)
    BY <2>2 DEF Unconnected
  <2> QED
    BY <1>1, <1>2, <2>1, <2>2, <2>3 DEF CredentialInv, Known, PreviousKnown
<1>5. AnswersOK'
  BY <1>2 DEF CredentialInv, AnswersOK
<1>6. Apart => Apart'
  <2>1. \A h \in Handler : Proper(at[h].previous.refresh)
    BY DEF HandlersOK, HandlerOK, RowOK
  <2>2. NoToken.grant \notin Consent
    BY DEF NoToken, Consent
  <2> QED
    BY <1>1, <2>1, <2>2 DEF Apart, Steady, Proper
<1>7. Lasts => Lasts'
  <2>1. Live(NoToken)
    BY DEF Live
  <2> QED
    BY <1>1, <1>3, <2>1 DEF Lasts, Steady
<1>8. Ended' /\ Owned'
  BY <1>1 DEF Ended, Owned
<1> QED
  BY <1>4, <1>5, <1>6, <1>7, <1>8 DEF CredentialInv

(* The number of consents, and the one that comes next.                    *)
LEMMA NextConsent ==
    ASSUME TypeInv, Known, NEW a \in Account, Granted < MaxConsents,
           of' = [of EXCEPT ![Granted + 1] = a]
    PROVE  /\ Granted + 1 \in Consent /\ of[Granted + 1] = NoAccount
           /\ {g \in Consent : of'[g] # NoAccount} = 1..Granted'
<1> USE DEF TypeInv, ConnectionTypeOK
<1>1. Granted \in Nat
  <2>1. IsFiniteSet(Consent)
    BY FS_Interval, ConnectionAssumption DEF Consent
  <2> QED
    BY <2>1, FS_Subset, FS_CardinalityType DEF Granted
<1>2. Granted + 1 \in Consent
  BY <1>1, ConnectionAssumption DEF Consent
<1>3. of[Granted + 1] = NoAccount
  <2>1. Granted + 1 \notin 1..Granted
    BY <1>1
  <2> QED
    BY <1>2, <2>1 DEF Known
<1>4. {g \in Consent : of'[g] # NoAccount} = 1..(Granted + 1)
  <2>1. {g \in Consent : of'[g] # NoAccount} = {g \in Consent : of[g] # NoAccount} \union {Granted + 1}
    BY <1>2, ConnectionAssumption
  <2>2. 1..(Granted + 1) = (1..Granted) \union {Granted + 1}
    BY <1>1
  <2> QED
    BY <2>1, <2>2 DEF Known
<1>5. Granted' = Granted + 1
  <2>1. Cardinality(1..(Granted + 1)) = Granted + 1
    BY <1>1, FS_Interval
  <2>2. Granted' = Cardinality({g \in Consent : of'[g] # NoAccount})
    BY DEF Granted
  <2> QED
    BY <1>4, <2>1, <2>2
<1> QED
  BY <1>2, <1>3, <1>4, <1>5

LEMMA ExchangesKeeps ==
    ASSUME TypeInv, CredentialInv, NEW h \in Handler, Exchanges(h) PROVE CredentialInv'
<1> USE DEF TypeInv, ConnectionTypeOK
<1> DEFINE n == Granted + 1
           previous == at[h].previous
<1>1. /\ UNCHANGED <<current, dead, renewal, home, lost, cut>>
      /\ at' = [at EXCEPT ![h].stage = "token"] /\ at[h].stage = "exchange"
      /\ crossed' = (crossed \/ Judging \/ row # [previous EXCEPT !.fresh = row.fresh])
  BY DEF Exchanges, WritesOver, Goes, renewals
<1>2. PICK a \in Account : of' = [of EXCEPT ![n] = a]
  BY DEF Exchanges
<1>3. Known
  BY DEF CredentialInv
<1>4. /\ n \in Consent /\ of[n] = NoAccount
      /\ {g \in Consent : of'[g] # NoAccount} = 1..Granted'
  BY <1>2, <1>3, NextConsent DEF Exchanges
<1>5. Stores([grant |-> n, spent |-> 0])
  BY DEF Exchanges
<1> HIDE DEF n
<1>6. /\ row'.status = "CONNECTED" /\ row'.account = row.account
      /\ row'.refresh = [grant |-> n, spent |-> 0]
  BY <1>5 DEF Stores, Connection
<1>7. /\ \A g \in Consent : of[g] # NoAccount => of'[g] = of[g]
      /\ of'[n] # NoAccount /\ current[n] = 0
  BY <1>2, <1>3, <1>4, ConnectionAssumption DEF Known
<1>8. /\ \A g \in Handler : at'[g].previous = at[g].previous
      /\ \A g \in Handler : g # h => at'[g] = at[g]
  BY <1>1 DEF HandlerState
<1>9. ASSUME NEW x, Proper(x), Knows(x) PROVE Knows(x)'
  <2>1. CASE x = NoToken
    BY <2>1 DEF Knows
  <2>2. CASE x # NoToken
    BY <1>1, <1>7, <1>9, <2>2 DEF Knows, Proper
  <2> QED
    BY <2>1, <2>2
<1>10. Known'
  <2>1. Knows(row.refresh)'
    BY <1>1, <1>6, <1>7 DEF Knows
  <2>2. \A g \in Handler : Proper(at[g].previous.refresh) /\ Proper(renewal[g].token)
    BY DEF HandlersOK, HandlerOK, RowOK, RenewalsOK, RenewalOK
  <2>3. \A g \in Consent : of'[g] = NoAccount => current'[g] = 0
    BY <1>1, <1>3, <1>7 DEF Known
  <2> QED
    BY <1>1, <1>3, <1>4, <1>8, <1>9, <2>1, <2>2, <2>3 DEF Known
<1>11. AnswersOK'
  BY <1>1 DEF CredentialInv, AnswersOK, Renewable
<1>12. ASSUME ~crossed' PROVE Apart' /\ Ended' /\ (~lost' => Lasts') /\ (~cut' => Owned')
  <2>1. /\ ~Judging /\ row = [previous EXCEPT !.fresh = row.fresh]
        /\ (~lost => Lasts) /\ (~cut => Owned)
    BY <1>1, <1>12 DEF CredentialInv
  <2>2. /\ previous.refresh = row.refresh /\ previous.status = row.status
        /\ previous.account = row.account
    BY <2>1 DEF HandlersOK, HandlerOK, RowOK, Connection
  <2>3. \A g \in Handler : Unjudged(g)' => g = h
    BY <1>8, <2>1 DEF Unjudged, Judging
  <2>4. row.refresh = NoToken \/ (row.refresh.grant \in Consent /\ row.refresh.grant # n)
    BY <1>3, <1>4 DEF Known, Knows, RowOK, Proper
  <2>5. Apart'
    BY <1>6, <1>8, <2>2, <2>3, <2>4 DEF Apart
  <2>6. Ended'
    BY <1>6 DEF Ended
  <2>7. ~lost' => Lasts'
    <3>1. \A x : Live(x) => Live(x)'
      BY <1>1 DEF Live, Answered
    <3>2. Live(row.refresh)'
      BY <1>1, <1>6, <1>7 DEF Live
    <3> QED
      BY <1>1, <1>8, <2>1, <2>2, <2>3, <3>1, <3>2 DEF Lasts
  <2>8. ~cut' => Owned'
    <3> SUFFICES ASSUME Owned PROVE Owned'
      BY <1>1, <2>1
    <3>1. Judging'
      <4>1. at[h].op = "connect"
        BY <1>1 DEF HandlersOK, HandlerOK
      <4>2. at'[h].op = "connect" /\ at'[h].stage = "token"
        BY <1>1, <4>1 DEF HandlerState
      <4> QED
        BY <4>2 DEF Judging, Unjudged
    <3>2. CASE row.status = "CONNECTED"
      <4>1. Own(row)
        BY <2>1, <3>2 DEF Owned
      <4>2. row.refresh.grant \in Consent
        BY <3>2 DEF RowOK
      <4>3. of'[row.refresh.grant] = home
        BY <1>7, <4>1, <4>2 DEF Own
      <4> QED
        BY <1>1, <1>6, <1>8, <2>2, <2>3, <3>1, <3>2, <4>1, <4>3 DEF Owned, Own
    <3>3. CASE row.status # "CONNECTED"
      BY <1>1, <1>6, <1>8, <2>2, <2>3, <3>1, <3>3 DEF Owned
    <3> QED
      BY <3>2, <3>3
  <2> QED
    BY <2>5, <2>6, <2>7, <2>8
<1> QED
  BY <1>10, <1>11, <1>12 DEF CredentialInv

(* A consent ends: its handler is done, and no other consent was under way. *)
LEMMA ConsentEnds ==
    ASSUME TypeInv, NEW h \in Handler, Unjudged(h), Ends(h)
    PROVE  /\ \A g \in Handler : Unjudged(g)' => g # h /\ Unjudged(g) /\ at'[g] = at[g]
           /\ PreviousKnown
<1> USE DEF TypeInv, ConnectionTypeOK
<1>1. at' = [at EXCEPT ![h] = Idle]
  BY DEF Ends
<1>2. at'[h].op = "none" /\ at'[h].previous = Unconnected
  BY <1>1 DEF Idle
<1>3. ~Unjudged(h)'
  BY <1>2 DEF Unjudged
<1>4. ASSUME NEW g \in Handler, g # h PROVE at'[g] = at[g] /\ (Unjudged(g)' <=> Unjudged(g))
  BY <1>1, <1>4 DEF Unjudged
<1> QED
  BY <1>2, <1>3, <1>4 DEF PreviousKnown

LEMMA JudgesKeeps ==
    ASSUME TypeInv, CredentialInv, NEW h \in Handler, Judges(h) PROVE CredentialInv'
<1> USE DEF TypeInv, ConnectionTypeOK
<1> DEFINE previous == at[h].previous
           access == at[h].access
<1>1. /\ UNCHANGED <<of, current, dead, renewal, lost, cut>>
      /\ Unjudged(h) /\ Ends(h) /\ at[h].stage = "answered"
      /\ crossed' = (crossed \/ row.access # access)
  BY DEF Judges, WritesOver, jobber, renewals, Unjudged
<1>2. access \in Consent /\ HandlerOK(at[h]) /\ RowOK(previous)
  BY <1>1 DEF HandlersOK, HandlerOK
<1>3. /\ \A g \in Handler : Unjudged(g)' => g # h /\ Unjudged(g) /\ at'[g] = at[g]
      /\ PreviousKnown
  BY <1>1, ConsentEnds
<1>4. /\ row'.refresh \in {row.refresh, previous.refresh}
      /\ Swapped(h) => /\ row'.status = "CONNECTED" /\ previous.status = "CONNECTED"
                       /\ row'.account = row.account /\ row'.refresh = previous.refresh
                       /\ home' = home
      /\ ~Swapped(h) => /\ row'.status = row.status /\ row'.account = of[access]
                        /\ row'.refresh = row.refresh
                        /\ home' = IF home = NoAccount THEN of[access] ELSE home
  BY <1>2 DEF Judges, Swapped, RowOK, Connection
<1>5. \A x : /\ Knows(x)' <=> Knows(x)
             /\ Live(x) => Live(x)'
             /\ Answered(x)' <=> Answered(x)
  BY <1>1 DEF Knows, Live, Answered
<1>6. Known'
  <2>1. Granted' = Granted
    BY <1>1 DEF Granted
  <2>2. Knows(NoToken)
    BY DEF Knows
  <2>3. Knows(Unconnected.refresh)
    BY <2>2 DEF Unconnected
  <2> QED
    BY <1>1, <1>3, <1>4, <1>5, <2>1, <2>3 DEF CredentialInv, Known, PreviousKnown
<1>7. AnswersOK'
  BY <1>1 DEF CredentialInv, AnswersOK, Renewable
<1>8. ASSUME ~crossed' PROVE Apart' /\ Ended' /\ (~lost' => Lasts') /\ (~cut' => Owned')
  <2>1. row.access = access /\ Apart /\ (~lost => Lasts) /\ (~cut => Owned)
    BY <1>1, <1>8 DEF CredentialInv
  <2>2. row.status = "CONNECTED" /\ row.refresh.grant = access
    <3>1. access # 0
      BY <1>2 DEF Consent
    <3> QED
      BY <2>1, <3>1 DEF RowOK
  <2>3. \A g \in Handler : ~Unjudged(g)'
    BY <1>1, <1>3, <2>1 DEF Apart
  <2>4. Apart' /\ Ended'
    BY <1>4, <2>2, <2>3 DEF Apart, Ended
  <2>5. ~lost' => Lasts'
    <3>1. Lasts => Live(row.refresh) /\ Live(previous.refresh)
      BY <1>1 DEF Lasts
    <3> QED
      BY <1>1, <1>4, <1>5, <2>1, <2>3, <3>1 DEF Lasts
  <2>6. ~cut' => Owned'
    <3> SUFFICES ASSUME Owned PROVE Owned'
      BY <1>1, <2>1
    <3>1. IF previous.status = "CONNECTED" THEN Own(previous) /\ row.account = home ELSE home = NoAccount
      BY <1>1, <2>2 DEF Owned
    <3>2. of[access] # NoAccount
      <4>1. row.refresh # NoToken
        BY <1>2, <2>2 DEF NoToken, Consent
      <4> QED
        BY <2>2, <4>1 DEF CredentialInv, Known, Knows
    <3>3. CASE Swapped(h)
      BY <1>1, <1>4, <2>3, <3>1, <3>3 DEF Owned, Own
    <3>4. CASE ~Swapped(h)
      <4>1. previous.status = "CONNECTED" => of[access] = home /\ home # NoAccount
        BY <3>1, <3>4 DEF Swapped, Own
      <4>2. home' = of[access]
        BY <1>4, <3>1, <3>4, <4>1
      <4> QED
        BY <1>1, <1>4, <2>2, <2>3, <3>2, <3>4, <4>2 DEF Owned, Own
    <3> QED
      BY <3>3, <3>4
  <2> QED
    BY <2>4, <2>5, <2>6
<1> QED
  BY <1>6, <1>7, <1>8 DEF CredentialInv

LEMMA NotJudgedKeeps ==
    ASSUME TypeInv, CredentialInv, NEW h \in Handler, NotJudged(h) PROVE CredentialInv'
<1>1. /\ UNCHANGED <<row, of, current, dead, renewal, lost, crossed>> /\ cut'
      /\ Unjudged(h) /\ Ends(h)
  BY DEF NotJudged, jobber, renewals, Unjudged
<1>2. /\ \A g \in Handler : Unjudged(g)' => g # h /\ Unjudged(g) /\ at'[g] = at[g]
      /\ PreviousKnown
  BY <1>1, ConsentEnds
<1>3. Known'
  <2>1. Granted' = Granted
    BY <1>1 DEF Granted
  <2>2. Knows(NoToken)
    BY DEF Knows
  <2>3. Knows(Unconnected.refresh)
    BY <2>2 DEF Unconnected
  <2>4. \A x : Knows(x)' <=> Knows(x)
    BY <1>1 DEF Knows
  <2> QED
    BY <1>1, <1>2, <2>1, <2>3, <2>4 DEF CredentialInv, Known, PreviousKnown
<1>4. AnswersOK'
  BY <1>1 DEF CredentialInv, AnswersOK, Renewable
<1>5. Apart => Apart'
  BY <1>1, <1>2 DEF Apart
<1>6. Ended => Ended'
  BY <1>1 DEF Ended, Renewable, Answered
<1>7. Lasts => Lasts'
  <2>1. \A x : Live(x) => Live(x)'
    BY <1>1 DEF Live, Answered
  <2> QED
    BY <1>1, <1>2, <2>1 DEF Lasts
<1> QED
  BY <1>1, <1>3, <1>4, <1>5, <1>6, <1>7 DEF CredentialInv

LEMMA RestartsKeeps == ASSUME TypeInv, CredentialInv, Restarts PROVE CredentialInv'
<1>1. /\ UNCHANGED <<row, of, current, dead, home, crossed>>
      /\ \A g \in Handler : at'[g] = Idle /\ renewal'[g] = NoRenewal
      /\ ~lost' => ~lost /\ \A g \in Handler : renewal[g].stage # "granted"
      /\ ~cut' => ~cut /\ ~Judging
  BY DEF Restarts, jobber
<1>2. \A g \in Handler : ~Unjudged(g)' /\ renewal'[g].stage = "none"
  BY <1>1 DEF Unjudged, Idle, NoRenewal
<1>3. Known'
  <2>1. Granted' = Granted
    BY <1>1 DEF Granted
  <2>2. Knows(NoToken)
    BY DEF Knows
  <2>3. \A g \in Handler : at'[g].previous.refresh = NoToken /\ renewal'[g].token = NoToken
    BY <1>1 DEF Idle, Unconnected, NoRenewal
  <2>4. \A x : Knows(x)' <=> Knows(x)
    BY <1>1 DEF Knows
  <2> QED
    BY <1>1, <2>1, <2>2, <2>3, <2>4 DEF CredentialInv, Known
<1>4. AnswersOK' /\ Apart'
  BY <1>2 DEF AnswersOK, Apart
<1>5. Ended => Ended'
  BY <1>1, <1>2 DEF Ended, Renewable, Answered
<1>6. ~lost' /\ Lasts => Lasts'
  BY <1>1, <1>2 DEF Lasts, Live, Answered
<1>7. ~cut' /\ Owned => Owned'
  BY <1>1, <1>2 DEF Owned, Own, Judging
<1> QED
  BY <1>1, <1>3, <1>4, <1>5, <1>6, <1>7 DEF CredentialInv

SafetyInv == TypeInv /\ RenewalInv /\ CredentialInv

LEMMA NextKeepsCredentials ==
    SafetyInv /\ TypeInv' /\ [ConnectionNext]_connectionVars => CredentialInv'
<1> SUFFICES ASSUME TypeInv, RenewalInv, CredentialInv, TypeInv', [ConnectionNext]_connectionVars
             PROVE  CredentialInv'
  BY DEF SafetyInv
<1>1. OneRenewal /\ JoinedRuns
  BY DEF RenewalInv
<1>2. ASSUME NEW h \in Handler, RenewalStep(h) PROVE CredentialInv'
  BY <1>1, <1>2, RenewalQuiet, QuietKeeps, AnswersKeep, RefreshedKeeps, RefusedKeeps DEF RenewalStep
<1>3. ASSUME NEW h \in Handler, HandlerStep(h) PROVE CredentialInv'
  <2>1. CASE Disconnected(h)
    <3>1. Forgets /\ UNCHANGED <<of, current, dead, renewal, lost, cut, crossed>>
      BY <2>1 DEF Disconnected, jobber, renewals
    <3>2. Steady /\ PreviousKnown
      <4>1. at' = [at EXCEPT ![h] = Idle] /\ at[h].op = "disconnect"
        BY <2>1 DEF Disconnected, Ends
      <4>2. /\ \A g \in Handler : g # h => at'[g] = at[g]
            /\ at'[h] = Idle
        BY <4>1 DEF TypeInv, ConnectionTypeOK
      <4>3. ~Unjudged(h) /\ ~Unjudged(h)' /\ at'[h].previous = Unconnected
        BY <4>1, <4>2 DEF Unjudged, Idle
      <4> QED
        BY <4>2, <4>3, OneMoves
    <3> QED
      BY <3>1, <3>2, ForgetsKeeps
  <2>2. CASE Judges(h) \/ NotJudged(h)
    BY <2>2, JudgesKeeps, NotJudgedKeeps
  <2>3. CASE AsksToken(h) \/ Posts(h) \/ CallEnds(h)
    BY <2>3, HandlerQuiet, QuietKeeps
  <2>4. CASE Renews(h)
    BY <1>1, <2>4, RenewsQuiet, QuietKeeps
  <2> QED
    BY <1>3, <2>1, <2>2, <2>3, <2>4 DEF HandlerStep
<1>4. ASSUME NEW h \in Handler, Calls(h) \/ Disconnects(h) \/ Connects(h) \/ Exchanges(h) \/ ExchangeFails(h)
      PROVE  CredentialInv'
  BY <1>4, HandlerQuiet, QuietKeeps, ExchangesKeeps
<1>5. ASSUME NEW a \in Account, NoticeArrives(a), row.account = a PROVE CredentialInv'
  <2>1. Forgets /\ UNCHANGED <<of, current, dead, renewal, lost, cut, crossed, at>>
    BY <1>5 DEF NoticeArrives, renewals
  <2>2. Steady /\ PreviousKnown
    BY <2>1 DEF Steady, PreviousKnown, Unjudged
  <2> QED
    BY <2>1, <2>2, ForgetsKeeps
<1>6. ASSUME \/ UNCHANGED connectionVars \/ Lapses
             \/ \E a \in Account : DisconnectedThere(a) \/ (NoticeArrives(a) /\ row.account # a)
      PROVE  CredentialInv'
  BY <1>6, ElsewhereQuiet, QuietKeeps
<1>7. CASE Restarts
  BY <1>7, RestartsKeeps
<1> QED
  BY <1>2, <1>3, <1>4, <1>5, <1>6, <1>7 DEF ConnectionNext

LEMMA SafetyHolds == ConnectionSpec => []SafetyInv
<1>1. ConnectionInit => SafetyInv
  BY InitTyped, InitOne, InitCredentials DEF SafetyInv
<1>2. SafetyInv /\ [ConnectionNext]_connectionVars => SafetyInv'
  BY NextTyped, NextKeepsOne, NextKeepsCredentials DEF SafetyInv
<1> QED
  BY <1>1, <1>2, PTL DEF ConnectionSpec

(* A connection that reads as connected holds the credentials of the       *)
(* account the office connected, unless a write crossed another or a       *)
(* consent could not be judged (completeAuthorization, jobber.service.ts). *)
THEOREM CredentialsAreOwn == ConnectionSpec => []OwnCredentialsUncrossed
<1>1. SafetyInv => OwnCredentialsUncrossed
  <2> SUFFICES ASSUME SafetyInv, ~crossed, ~cut, row.status = "CONNECTED", ~Judging
               PROVE  row.account = home /\ row.refresh # NoToken /\ of[row.refresh.grant] = home
    BY DEF OwnCredentialsUncrossed, OwnCredentials
  <2>1. Own(row)
    BY DEF SafetyInv, CredentialInv, Owned
  <2>2. row.refresh # NoToken
    BY DEF SafetyInv, TypeInv, RowOK, NoToken, Consent
  <2> QED
    BY <2>1, <2>2 DEF Own
<1> QED
  BY <1>1, SafetyHolds, PTL

(* The office must consent again only after Jobber ended the consent, an   *)
(* answer was lost, or a handler wrote over credentials that had been      *)
(* replaced since it read them: callers of one process never spend a       *)
(* refresh token twice (refresh and performRefresh,                        *)
(* jobber.tokens.service.ts).                                              *)
THEOREM ConsentsLast == ConnectionSpec => ConsentLasts
<1> DEFINE Lasting == row'.status = "REAUTHORIZATION_REQUIRED" /\ row.status # row'.status
                      => lost \/ crossed' \/ row.refresh.grant \in dead
<1>1. SafetyInv /\ [ConnectionNext]_connectionVars => [Lasting]_connectionVars
  <2> SUFFICES ASSUME SafetyInv, ConnectionNext, ~lost, ~crossed', row.status # row'.status,
                      row'.status = "REAUTHORIZATION_REQUIRED"
               PROVE  row.refresh.grant \in dead
    OBVIOUS
  <2> USE DEF SafetyInv, TypeInv, ConnectionTypeOK
  <2>1. PICK h \in Handler : MustReauthorize(h)
    <3>1. ~Quiet
      BY DEF Quiet, Connection
    <3>2. ASSUME NEW g \in Handler PROVE ~Refreshed(g) /\ ~Exchanges(g)
      BY DEF Refreshed, Exchanges, Stores, Connection
    <3>3. ASSUME NEW g \in Handler, Judges(g) PROVE FALSE
      <4>1. HandlerOK(at[g])
        BY DEF HandlersOK
      <4> QED
        BY <3>3, <4>1 DEF Judges, Swapped, HandlerOK, RowOK, Connection
    <3>4. ~Forgets /\ row' # row
      BY DEF Forgets, Unconnected
    <3> QED
      BY <3>1, <3>2, <3>3, <3>4, HandlerQuiet, RenewsQuiet, RenewalQuiet, ElsewhereQuiet
         DEF ConnectionNext, HandlerStep, RenewalStep, RenewalInv, JobberAnswers, NotJudged, Disconnected,
             NoticeArrives, Restarts
  <2>2. renewal[h].stage = "refused" /\ row.refresh = renewal[h].token /\ ~crossed
    BY <2>1 DEF MustReauthorize, WritesOver
  <2>3. ~Renewable(row.refresh) /\ row.refresh # NoToken
    BY <2>2 DEF CredentialInv, AnswersOK, RenewalsOK, RenewalOK
  <2>4. current[row.refresh.grant] = row.refresh.spent
    BY <2>2, <2>3, AnsweredAlone DEF CredentialInv, Lasts, Live, RenewalInv
  <2> QED
    BY <2>3, <2>4 DEF Renewable
<1> QED
  BY <1>1, SafetyHolds, PTL DEF ConnectionSpec, ConsentLasts
=============================================================================
