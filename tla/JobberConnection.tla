---- MODULE JobberConnection ----
(***************************************************************************)
(* The credentials of an organization's Jobber connection:                 *)
(* integrations/jobber/jobber.tokens.service.ts, jobber.client.ts and the  *)
(* consent and disconnection of jobber.service.ts.                         *)
(*                                                                         *)
(* Jobber retires a refresh token when it is spent, so callers of one      *)
(* process share one renewal.  Every write names the row by organization   *)
(* and asks nothing of what it holds.  A refresh token is a consent and    *)
(* how often it has been renewed; an access token is the consent alone.    *)
(***************************************************************************)
EXTENDS Integers, FiniteSets

CONSTANTS Handler,     \* requests and sync runs under way
          Account,     \* Jobber accounts a consent may land on
          NoHandler, NoAccount,
          MaxConsents, \* bound on how often the office connects
          MaxLapses,   \* bound on how often an access token nears its expiry
          MaxFaults    \* bound on what goes wrong

ASSUME ConnectionAssumption ==
  /\ NoHandler \notin Handler /\ NoAccount \notin Account
  /\ {MaxConsents, MaxLapses, MaxFaults} \subseteq Nat

VARIABLES row,      \* the organization's jobber_connection
          of,       \* Jobber: the account of each consent
          current,  \* Jobber: how often the refresh token of each consent was renewed
          dead,     \* Jobber: consents it has ended
          notices,  \* APP_DISCONNECT deliveries under way
          at,       \* the handlers
          renewal, inFlight, \* renewals by who began them, and the one callers join
          lapses, faults,
          home,     \* history: the account the office connected, until it was given up
          lost,     \* history: a renewal's answer never came
          cut,      \* history: a consent was stored and its account never judged
          crossed   \* history: a write over credentials that were not the ones acted on,
                    \* or a consent stored while another was not judged yet

connectionVars == <<row, of, current, dead, notices, at, renewal, inFlight,
                    lapses, faults, home, lost, cut, crossed>>
jobber == <<of, current, dead, notices>>
bounds == <<lapses, faults>>
history == <<home, lost, cut, crossed>>
renewals == <<renewal, inFlight>>

Consent == 1..MaxConsents
Grant == 0..MaxConsents  \* 0 where there is no token
RefreshToken == [grant : Grant, spent : Nat]
NoToken == [grant |-> 0, spent |-> 0]
Status == {"CONNECTED", "DISCONNECTED", "REAUTHORIZATION_REQUIRED"}
Connection == [status : Status, account : Account \union {NoAccount},
               access : Grant, fresh : BOOLEAN, refresh : RefreshToken]
Unconnected == [status |-> "DISCONNECTED", account |-> NoAccount,
                access |-> 0, fresh |-> FALSE, refresh |-> NoToken]

Op == {"none", "call", "connect", "disconnect"}
Stage == {"idle", "token", "renew", "joined", "post", "answered", "failed", "exchange"}
Idle == [op |-> "none", stage |-> "idle", access |-> 0, retried |-> FALSE,
         joined |-> NoHandler, previous |-> Unconnected]
HandlerState == [op : Op, stage : Stage, access : Grant, retried : BOOLEAN,
                 joined : Handler \union {NoHandler}, previous : Connection]
Outcome == {"granted", "refused", "unanswered"}
Renewal == [stage : {"none", "read", "posted"} \union Outcome, token : RefreshToken]
NoRenewal == [stage |-> "none", token |-> NoToken]

Granted == Cardinality({g \in Consent : of[g] # NoAccount})

ConnectionInit ==
  /\ row = Unconnected
  /\ of = [g \in Consent |-> NoAccount] /\ current = [g \in Consent |-> 0]
  /\ dead = {} /\ notices = {}
  /\ at = [h \in Handler |-> Idle]
  /\ renewal = [h \in Handler |-> NoRenewal] /\ inFlight = NoHandler
  /\ lapses = 0 /\ faults = 0
  /\ home = NoAccount /\ lost = FALSE /\ cut = FALSE /\ crossed = FALSE

Fault == faults < MaxFaults /\ faults' = faults + 1
Goes(h, stage) == at' = [at EXCEPT ![h].stage = stage]
Ends(h) == at' = [at EXCEPT ![h] = Idle]
WritesOver(unlike) == crossed' = (crossed \/ unlike)

\* A consent was stored, and its account is not judged yet.
Unjudged(h) == at[h].op = "connect" /\ at[h].stage # "exchange"
Judging == \E h \in Handler : Unjudged(h)

----------------------------------------------------------------------------
(* What is asked of the connection                                         *)

Begins(h, op, stage) ==
  /\ at[h] = Idle
  /\ at' = [at EXCEPT ![h] = [Idle EXCEPT !.op = op, !.stage = stage]]
  /\ UNCHANGED <<row, jobber, renewals, bounds, history>>

Calls(h) == Begins(h, "call", "token")
Disconnects(h) == Begins(h, "disconnect", "token")

\* completeAuthorization begins with the row as it was.
Connects(h) ==
  /\ at[h] = Idle
  /\ at' = [at EXCEPT ![h] = [Idle EXCEPT !.op = "connect", !.stage = "exchange", !.previous = row]]
  /\ UNCHANGED <<row, jobber, renewals, bounds, history>>

----------------------------------------------------------------------------
(* JobberTokenService                                                      *)

\* getAccessToken
AsksToken(h) ==
  /\ at[h].stage = "token"
  /\ IF row.status # "CONNECTED" THEN Goes(h, "failed")
     ELSE IF row.fresh THEN at' = [at EXCEPT ![h].stage = "post", ![h].access = row.access]
     ELSE Goes(h, "renew")
  /\ UNCHANGED <<row, jobber, renewals, bounds, history>>

\* Mutant: nothing collapses two renewals.
RenewsAlone(h) ==
  /\ at[h].stage = "renew"
  /\ at' = [at EXCEPT ![h].stage = "joined", ![h].joined = h]
  /\ renewal' = [renewal EXCEPT ![h].stage = "read"] /\ inFlight' = h
  /\ UNCHANGED <<row, jobber, bounds, history>>

\* refresh: the renewal under way is joined, or one begins.
Renews(h) ==
  /\ at[h].stage = "renew"
  /\ LET on == IF inFlight = NoHandler THEN h ELSE inFlight IN
       /\ at' = [at EXCEPT ![h].stage = "joined", ![h].joined = on]
       /\ renewal' = IF inFlight = NoHandler THEN [renewal EXCEPT ![h].stage = "read"] ELSE renewal
       /\ inFlight' = on
  /\ UNCHANGED <<row, jobber, bounds, history>>

\* The callers who joined have their answer, and the next caller begins anew.
Settle(h, stage, access) ==
  /\ at' = [g \in Handler |->
       IF at[g].joined = h THEN [at[g] EXCEPT !.stage = stage, !.access = access, !.joined = NoHandler]
       ELSE at[g]]
  /\ renewal' = [renewal EXCEPT ![h] = NoRenewal] /\ inFlight' = NoHandler

\* performRefresh reads the refresh token and offers it.
RenewalReads(h) ==
  /\ renewal[h].stage = "read"
  /\ IF row.refresh = NoToken THEN Settle(h, "failed", 0)
     ELSE /\ renewal' = [renewal EXCEPT ![h] = [stage |-> "posted", token |-> row.refresh]]
          /\ UNCHANGED <<at, inFlight>>
  /\ UNCHANGED <<row, jobber, bounds, history>>

\* Jobber renews a token once.  Its answer, or the request, may be lost.
JobberAnswers(h) ==
  LET g == renewal[h].token.grant
      renewable == g \notin dead /\ current[g] = renewal[h].token.spent IN
  /\ renewal[h].stage = "posted"
  /\ \/ /\ renewal' = [renewal EXCEPT ![h].stage = IF renewable THEN "granted" ELSE "refused"]
        /\ current' = IF renewable THEN [current EXCEPT ![g] = @ + 1] ELSE current
        /\ UNCHANGED <<faults, lost>>
     \/ /\ renewal' = [renewal EXCEPT ![h].stage = "unanswered"] /\ Fault
        /\ \/ UNCHANGED <<current, lost>>
           \/ renewable /\ current' = [current EXCEPT ![g] = @ + 1] /\ lost' = TRUE
  /\ UNCHANGED <<row, of, dead, notices, at, inFlight, lapses, home, cut, crossed>>

Renewed(token) == [token EXCEPT !.spent = @ + 1]

\* store
Stores(token) ==
  row' = [row EXCEPT !.status = "CONNECTED", !.access = token.grant, !.fresh = TRUE, !.refresh = token]

Refreshed(h) ==
  /\ renewal[h].stage = "granted"
  /\ Stores(Renewed(renewal[h].token)) /\ WritesOver(row.refresh # renewal[h].token)
  /\ Settle(h, "post", renewal[h].token.grant)
  /\ UNCHANGED <<jobber, bounds, home, lost, cut>>

\* Mutant: the access token is kept.
MustReauthorizeKeeping(h) ==
  /\ renewal[h].stage = "refused"
  /\ row' = [row EXCEPT !.status = "REAUTHORIZATION_REQUIRED"]
  /\ home' = NoAccount /\ WritesOver(row.refresh # renewal[h].token)
  /\ Settle(h, "failed", 0)
  /\ UNCHANGED <<jobber, bounds, lost, cut>>

\* requireReauthorization: "A rejected refresh token is terminal."
MustReauthorize(h) ==
  /\ renewal[h].stage = "refused"
  /\ row' = [row EXCEPT !.status = "REAUTHORIZATION_REQUIRED", !.access = 0, !.fresh = FALSE]
  /\ home' = NoAccount /\ WritesOver(row.refresh # renewal[h].token)
  /\ Settle(h, "failed", 0)
  /\ UNCHANGED <<jobber, bounds, lost, cut>>

\* Mutant: only a renewal that was answered is forgotten.
RenewalFailsKept(h) ==
  /\ renewal[h].stage = "unanswered"
  /\ at' = [g \in Handler |->
       IF at[g].joined = h THEN [at[g] EXCEPT !.stage = "failed", !.joined = NoHandler] ELSE at[g]]
  /\ renewal' = [renewal EXCEPT ![h] = NoRenewal] /\ UNCHANGED inFlight
  /\ UNCHANGED <<row, jobber, bounds, history>>

\* Any other failure leaves the connection as it is.
RenewalFails(h) ==
  /\ renewal[h].stage = "unanswered" /\ Settle(h, "failed", 0)
  /\ UNCHANGED <<row, jobber, bounds, history>>

----------------------------------------------------------------------------
(* JobberClient                                                            *)

\* Jobber gives up every consent the account has given.
Severed(a) == dead \union {g \in Consent : of[g] = a}

\* requestDetailed: one retry, and only for a 401.  appDisconnect severs the account.
Posts(h) ==
  /\ at[h].stage = "post"
  /\ \/ /\ at[h].access \notin dead /\ Goes(h, "answered") /\ UNCHANGED faults
        /\ dead' = IF at[h].op = "disconnect" THEN Severed(of[at[h].access]) ELSE dead
     \/ /\ IF at[h].access \in dead THEN UNCHANGED faults ELSE Fault
        /\ IF at[h].retried THEN Goes(h, "failed")
           ELSE at' = [at EXCEPT ![h].stage = "renew", ![h].retried = TRUE]
        /\ UNCHANGED dead
     \/ Fault /\ Goes(h, "failed") /\ UNCHANGED dead
  /\ UNCHANGED <<row, of, current, notices, renewals, lapses, history>>

CallEnds(h) ==
  /\ at[h].op = "call" /\ at[h].stage \in {"answered", "failed"} /\ Ends(h)
  /\ UNCHANGED <<row, jobber, renewals, bounds, history>>

----------------------------------------------------------------------------
(* JobberService                                                           *)

\* exchangeAuthorizationCode: a new consent, on whichever account it landed.
Exchanges(h) ==
  /\ at[h].stage = "exchange" /\ Granted < MaxConsents
  /\ \E a \in Account : of' = [of EXCEPT ![Granted + 1] = a]
  /\ Stores([grant |-> Granted + 1, spent |-> 0])
  /\ WritesOver(Judging \/ row # [at[h].previous EXCEPT !.fresh = row.fresh])
  /\ Goes(h, "token")
  /\ UNCHANGED <<current, dead, notices, renewals, bounds, home, lost, cut>>

\* The code has expired, or Jobber refuses it.
ExchangeFails(h) ==
  /\ at[h].stage = "exchange" /\ Ends(h)
  /\ UNCHANGED <<row, jobber, renewals, bounds, history>>

Swapped(h) ==
  /\ at[h].previous.status = "CONNECTED"
  /\ at[h].previous.account \notin {NoAccount, of[at[h].access]}

\* Mutant: whatever account it is, it is taken.
JudgesAny(h) ==
  /\ at[h].op = "connect" /\ at[h].stage = "answered" /\ Ends(h)
  /\ WritesOver(row.access # at[h].access)
  /\ row' = [row EXCEPT !.account = of[at[h].access]]
  /\ home' = IF home = NoAccount THEN of[at[h].access] ELSE home
  /\ UNCHANGED <<jobber, renewals, bounds, lost, cut>>

\* completeAuthorization: the previous credentials are put back when the consent is
\* for another account.
Judges(h) ==
  /\ at[h].op = "connect" /\ at[h].stage = "answered" /\ Ends(h)
  /\ WritesOver(row.access # at[h].access)
  /\ IF Swapped(h) THEN row' = [at[h].previous EXCEPT !.account = row.account] /\ UNCHANGED home
     ELSE /\ row' = [row EXCEPT !.account = of[at[h].access]]
          /\ home' = IF home = NoAccount THEN of[at[h].access] ELSE home
  /\ UNCHANGED <<jobber, renewals, bounds, lost, cut>>

\* fetchAccount throws, and what was exchanged stays.
NotJudged(h) ==
  /\ at[h].op = "connect" /\ at[h].stage = "failed" /\ Ends(h) /\ cut' = TRUE
  /\ UNCHANGED <<row, jobber, renewals, bounds, home, lost, crossed>>

\* markDisconnected keeps the account's identity.
Forgets ==
  /\ row' = [Unconnected EXCEPT !.account = row.account]
  /\ home' = NoAccount

\* disconnect, whether or not Jobber could be told.
Disconnected(h) ==
  /\ at[h].op = "disconnect" /\ at[h].stage \in {"answered", "failed"} /\ Ends(h)
  /\ Forgets
  /\ UNCHANGED <<jobber, renewals, bounds, lost, cut, crossed>>

\* The app is disconnected at Jobber, whose notice comes later.
DisconnectedThere(a) ==
  /\ \E g \in Consent : of[g] = a /\ g \notin dead
  /\ Fault
  /\ dead' = Severed(a) /\ notices' = notices \union {a}
  /\ UNCHANGED <<row, of, current, at, renewals, lapses, history>>

NoticeArrives(a) ==
  /\ a \in notices /\ notices' = notices \ {a}
  /\ IF row.account = a THEN Forgets ELSE UNCHANGED <<row, home>>
  /\ UNCHANGED <<of, current, dead, at, renewals, bounds, lost, cut, crossed>>

----------------------------------------------------------------------------
\* Less than JOBBER_TOKEN_EXPIRY_SKEW_MS is left of the access token.
Lapses ==
  /\ row.fresh /\ row' = [row EXCEPT !.fresh = FALSE]
  /\ lapses < MaxLapses /\ lapses' = lapses + 1
  /\ UNCHANGED <<jobber, at, renewals, faults, history>>

\* What Jobber did stays done.
Restarts ==
  /\ Fault
  /\ at' = [h \in Handler |-> Idle]
  /\ renewal' = [h \in Handler |-> NoRenewal] /\ inFlight' = NoHandler
  /\ lost' = (lost \/ \E h \in Handler : renewal[h].stage = "granted")
  /\ cut' = (cut \/ Judging)
  /\ UNCHANGED <<row, jobber, lapses, home, crossed>>

RenewalStep(h) ==
  RenewalReads(h) \/ JobberAnswers(h) \/ Refreshed(h) \/ MustReauthorize(h) \/ RenewalFails(h)

HandlerStep(h) ==
  AsksToken(h) \/ Renews(h) \/ Posts(h) \/ CallEnds(h) \/ Judges(h) \/ NotJudged(h) \/ Disconnected(h)

ConnectionNext ==
  \/ \E h \in Handler : Calls(h) \/ Disconnects(h) \/ Connects(h) \/ Exchanges(h) \/ ExchangeFails(h)
                        \/ HandlerStep(h) \/ RenewalStep(h)
  \/ \E a \in Account : DisconnectedThere(a) \/ NoticeArrives(a)
  \/ Lapses \/ Restarts

ConnectionSpec == ConnectionInit /\ [][ConnectionNext]_connectionVars

----------------------------------------------------------------------------
\* What the row, Jobber, the renewals and the handlers may hold; a connection that
\* is not connected holds nothing to call Jobber with.
ConnectionTypeOK ==
  /\ row \in Connection
  /\ row.status # "CONNECTED" => row.access = 0 /\ ~row.fresh
  /\ row.status = "DISCONNECTED" => row.refresh = NoToken
  /\ of \in [Consent -> Account \union {NoAccount}] /\ current \in [Consent -> Nat]
  /\ dead \subseteq Consent /\ notices \subseteq Account
  /\ at \in [Handler -> HandlerState] /\ renewal \in [Handler -> Renewal]
  /\ inFlight \in Handler \union {NoHandler}
  /\ lapses \in 0..MaxLapses /\ faults \in 0..MaxFaults
  /\ home \in Account \union {NoAccount}
  /\ {lost, cut, crossed} \subseteq BOOLEAN

\* A connection that reads as connected holds credentials of the account it names,
\* the one the office connected: a consent that "lands on a different Jobber account
\* is detected instead of silently swapping the calendar" (schema.prisma), and a
\* renewal never brings another account's tokens back.
OwnCredentials ==
  row.status = "CONNECTED" /\ ~Judging
  => row.account = home /\ row.refresh # NoToken /\ of[row.refresh.grant] = home

\* ...which holds as long as no renewal or consent wrote over credentials that had been
\* replaced since it read them, no two consents overlapped, and every consent's account
\* could be fetched.
OwnCredentialsUncrossed == crossed \/ cut \/ OwnCredentials

\* Callers that need a token at the same time never spend one refresh token twice: the
\* office must consent again only after Jobber ended the consent, or an answer was lost
\* ("Two concurrent refreshes both spend the same one", jobber.tokens.service.ts).
ConsentLasts ==
  [][row'.status = "REAUTHORIZATION_REQUIRED" /\ row.status # row'.status
     => lost \/ crossed' \/ row.refresh.grant \in dead]_connectionVars

\* Whoever waits for a renewal waits for the one under way, which nobody else doubles:
\* none is joined after it ended (inFlight of jobber.tokens.service.ts).
OneRenewal ==
  \A h \in Handler :
    /\ renewal[h].stage # "none" => inFlight = h
    /\ at[h].stage = "joined" => at[h].joined = inFlight /\ renewal[inFlight].stage # "none"
====
