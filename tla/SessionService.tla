--------------------------- MODULE SessionService ---------------------------
(***************************************************************************)
(* The refresh-token store of one account, and the HTTP handlers of        *)
(* backend/src/auth/session.service.ts that read and write it.             *)
(*                                                                         *)
(* Every await of a handler is a point where another handler may run, so a *)
(* handler that reads and later writes is several actions here.  What the  *)
(* code does in one statement or one database transaction is one action.   *)
(* Clients are arbitrary: any issued token may be presented at any time.   *)
(* Accounts do not share rows, so one account is the whole story.          *)
(***************************************************************************)
EXTENDS Naturals, FiniteSets

CONSTANTS
    Token,        \* refresh tokens that can be created; one row each
    Device,       \* handsets that name themselves when they sign in
    Request,      \* handlers that may be running at once
    NoToken,      \* a null replacedById, or an answer that carries no token
    NoDevice,     \* a null deviceId
    MaxPassword   \* bound on the number of password changes

ASSUME SessionAssumption ==
    /\ NoToken \notin Token
    /\ NoDevice \notin Device
    /\ MaxPassword \in Nat

VARIABLES
    technician,    \* the profile holds an INSPECTION_TECHNICIAN membership
    isActive,      \* profile.isActive
    password,      \* how many times the password has been replaced
    issued,        \* tokens that have a row
    revoked,       \* rows with revokedAt set
    expired,       \* rows whose expiresAt has passed
    replacedBy,    \* replacedById
    deviceOf,      \* deviceId
    fromConsole,   \* rows with fromConsole set
    openedWith,    \* history: the password the sign-in behind a row compared
    parent,        \* history: the token a row was exchanged for
    req            \* the handlers

rowVars  == <<issued, revoked, expired, replacedBy, deviceOf, fromConsole,
              openedWith, parent>>
userVars == <<technician, isActive, password>>
sessionVars == <<userVars, rowVars, req>>

MaybeToken  == Token \cup {NoToken}
MaybeDevice == Device \cup {NoDevice}

(* Where a handler stands: the await it is suspended at.                   *)
Stage == {"idle", "enforce", "retire", "issue", "rotate", "reuse"}

Handler == [stage : Stage, token : MaybeToken, device : MaybeDevice,
            console : BOOLEAN, takeOver : BOOLEAN, opened : 0..MaxPassword]

Idle == [stage |-> "idle", token |-> NoToken, device |-> NoDevice,
         console |-> FALSE, takeOver |-> FALSE, opened |-> 0]

Finish(r) == req' = [req EXCEPT ![r] = Idle]

GoTo(r, stage) == req' = [req EXCEPT ![r].stage = stage]

-----------------------------------------------------------------------------
(* Rows a query can select.                                                *)

Unrevoked    == issued \ revoked
Live         == Unrevoked \ expired
LiveHandsets == Live \ fromConsole

(* Mutant of LiveElsewhere: "not deviceId", which SQL never finds true of  *)
(* a null.                                                                 *)
LiveElsewhereNamed(d) ==
    {t \in LiveHandsets : d = NoDevice \/ deviceOf[t] \notin {d, NoDevice}}

(* otherDevice of enforceSingleDevice: a null deviceId is always another   *)
(* device, and a sign-in that names no device finds every session other.   *)
LiveElsewhere(d) ==
    {t \in LiveHandsets : d = NoDevice \/ deviceOf[t] # d}

(* revokeAllFor(account, reason, { handsetsOnly }) *)
RevokeAll      == revoked' = revoked \cup issued
RevokeHandsets == revoked' = revoked \cup (issued \ fromConsole)

(* A new row.  Its token is random, hence never seen before.               *)
CreateRow(n, device, console, opened, from) ==
    /\ n \in Token \ issued
    /\ issued' = issued \cup {n}
    /\ deviceOf' = [deviceOf EXCEPT ![n] = device]
    /\ fromConsole' = IF console THEN fromConsole \cup {n} ELSE fromConsole
    /\ openedWith' = [openedWith EXCEPT ![n] = opened]
    /\ parent' = [parent EXCEPT ![n] = from]

-----------------------------------------------------------------------------
SessionInit ==
    /\ technician \in BOOLEAN
    /\ isActive = TRUE
    /\ password = 0
    /\ issued = {} /\ revoked = {} /\ expired = {} /\ fromConsole = {}
    /\ replacedBy = [t \in Token |-> NoToken]
    /\ deviceOf = [t \in Token |-> NoDevice]
    /\ openedWith = [t \in Token |-> 0]
    /\ parent = [t \in Token |-> NoToken]
    /\ req = [r \in Request |-> Idle]

-----------------------------------------------------------------------------
(* signIn *)

(* The credential is read and the password compared.  A wrong password or  *)
(* an inactive profile is refused and nothing is written.  Only the app is *)
(* held to one device.                                                     *)
SignIn(r, device, console, takeOver) ==
    /\ req[r].stage = "idle"
    /\ isActive
    /\ req' = [req EXCEPT ![r] =
                 [Idle EXCEPT !.stage = IF console THEN "issue" ELSE "enforce",
                              !.device = device, !.console = console,
                              !.takeOver = takeOver, !.opened = password]]
    /\ UNCHANGED <<userVars, rowVars>>

(* enforceSingleDevice, up to the await of its findFirst: nobody but a     *)
(* technician is checked; a take-over ends every handset session at once;  *)
(* a live session elsewhere refuses this one.                              *)
EnforceSingleDevice(r) ==
    /\ req[r].stage = "enforce"
    /\ \/ /\ ~technician
          /\ GoTo(r, "issue")
          /\ UNCHANGED rowVars
       \/ /\ technician /\ req[r].takeOver
          /\ RevokeHandsets
          /\ GoTo(r, "issue")
          /\ UNCHANGED <<issued, expired, replacedBy, deviceOf, fromConsole,
                         openedWith, parent>>
       \/ /\ technician /\ ~req[r].takeOver
          /\ LiveElsewhere(req[r].device) = {}
          /\ GoTo(r, "retire")
          /\ UNCHANGED rowVars
       \/ /\ technician /\ ~req[r].takeOver
          /\ LiveElsewhere(req[r].device) # {}
          /\ Finish(r)
          /\ UNCHANGED rowVars
    /\ UNCHANGED userVars

(* Mutant of RetireSameDevice: the handset's old row is left alive. *)
KeepSameDevice(r) ==
    /\ req[r].stage = "retire"
    /\ GoTo(r, "issue")
    /\ UNCHANGED <<userVars, rowVars>>

(* "signed in again on the same device": the update that follows the read. *)
RetireSameDevice(r) ==
    /\ req[r].stage = "retire"
    /\ RevokeHandsets
    /\ GoTo(r, "issue")
    /\ UNCHANGED <<userVars, issued, expired, replacedBy, deviceOf,
                   fromConsole, openedWith, parent>>

IssueSession(r, n) ==
    /\ req[r].stage = "issue"
    /\ CreateRow(n, req[r].device, req[r].console, req[r].opened, NoToken)
    /\ Finish(r)
    /\ UNCHANGED <<userVars, revoked, expired, replacedBy>>

-----------------------------------------------------------------------------
(* refresh *)

Replayed(t) == t \in revoked /\ replacedBy[t] # NoToken

ExchangeableIfIssued(t) == t \in issued \ expired /\ isActive  \* mutant
Exchangeable(t) == t \in Live /\ isActive

(* The row is read and judged.  Only a token that an exchange retired is a *)
(* replay; any other that is not exchangeable is refused and nothing is    *)
(* written.                                                                *)
RefreshRead(r, t, console) ==
    /\ req[r].stage = "idle"
    /\ \/ /\ Replayed(t)
          /\ GoTo(r, "reuse")
       \/ /\ Exchangeable(t)
          /\ req' = [req EXCEPT ![r] =
                       [Idle EXCEPT !.stage = "rotate", !.token = t,
                                    !.console = console]]
    /\ UNCHANGED <<userVars, rowVars>>

EndReplayedFamily(r) ==
    /\ req[r].stage = "reuse"
    /\ RevokeAll
    /\ Finish(r)
    /\ UNCHANGED <<userVars, issued, expired, replacedBy, deviceOf,
                   fromConsole, openedWith, parent>>

(* Mutants of Rotate: the device is dropped; the old row is not revoked. *)
RotateWithoutDevice(r, n) ==
    LET old == req[r].token IN
    /\ req[r].stage = "rotate"
    /\ CreateRow(n, NoDevice, old \in fromConsole \/ req[r].console,
                 openedWith[old], old)
    /\ revoked' = revoked \cup {old}
    /\ replacedBy' = [replacedBy EXCEPT ![old] = n]
    /\ Finish(r)
    /\ UNCHANGED <<userVars, expired>>

RotateWithoutRevoking(r, n) ==
    LET old == req[r].token IN
    /\ req[r].stage = "rotate"
    /\ CreateRow(n, deviceOf[old], old \in fromConsole \/ req[r].console,
                 openedWith[old], old)
    /\ replacedBy' = [replacedBy EXCEPT ![old] = n]
    /\ Finish(r)
    /\ UNCHANGED <<userVars, revoked, expired>>

(* The transaction.  It names the old row by id and does not look again at *)
(* whether that row is still unrevoked.                                    *)
Rotate(r, n) ==
    LET old == req[r].token IN
    /\ req[r].stage = "rotate"
    /\ CreateRow(n, deviceOf[old], old \in fromConsole \/ req[r].console,
                 openedWith[old], old)
    /\ revoked' = revoked \cup {old}
    /\ replacedBy' = [replacedBy EXCEPT ![old] = n]
    /\ Finish(r)
    /\ UNCHANGED <<userVars, expired>>

-----------------------------------------------------------------------------
(* The other writers of the rows *)

SignOut(r, t) ==
    /\ req[r].stage = "idle"
    /\ revoked' = revoked \cup ({t} \cap issued)
    /\ UNCHANGED <<userVars, issued, expired, replacedBy, deviceOf,
                   fromConsole, openedWith, parent, req>>

(* Mutant of SetPassword: only the handsets are signed out. *)
SetPasswordKeepingConsole(r) ==
    /\ req[r].stage = "idle"
    /\ password < MaxPassword
    /\ password' = password + 1
    /\ RevokeHandsets
    /\ UNCHANGED <<technician, isActive, issued, expired, replacedBy,
                   deviceOf, fromConsole, openedWith, parent, req>>

(* setPassword of the identity provider: the new hash and the revocation   *)
(* are one transaction.                                                    *)
SetPassword(r) ==
    /\ req[r].stage = "idle"
    /\ password < MaxPassword
    /\ password' = password + 1
    /\ RevokeAll
    /\ UNCHANGED <<technician, isActive, issued, expired, replacedBy,
                   deviceOf, fromConsole, openedWith, parent, req>>

(* An administrator switches the profile off or on; rows are left alone.   *)
SetActive ==
    /\ isActive' = ~isActive
    /\ UNCHANGED <<technician, password, rowVars, req>>

(* The clock passes expiresAt. *)
Expire(t) ==
    /\ t \in issued \ expired
    /\ expired' = expired \cup {t}
    /\ UNCHANGED <<userVars, issued, revoked, replacedBy, deviceOf,
                   fromConsole, openedWith, parent, req>>

(* A query fails or the process restarts while a handler is suspended:     *)
(* what it has written stays, the rest never happens.                      *)
HandlerFails(r) ==
    /\ req[r].stage # "idle"
    /\ Finish(r)
    /\ UNCHANGED <<userVars, rowVars>>

-----------------------------------------------------------------------------
HandlerStep(r) ==
    \/ EnforceSingleDevice(r)
    \/ RetireSameDevice(r)
    \/ \E n \in Token : IssueSession(r, n)
    \/ EndReplayedFamily(r)
    \/ \E n \in Token : Rotate(r, n)
    \/ HandlerFails(r)

SessionNext ==
    \/ \E r \in Request :
          \/ \E d \in MaybeDevice, takeOver \in BOOLEAN :
                SignIn(r, d, FALSE, takeOver)
          \/ SignIn(r, NoDevice, TRUE, FALSE)
          \/ \E t \in Token, console \in BOOLEAN : RefreshRead(r, t, console)
          \/ \E t \in Token : SignOut(r, t)
          \/ SetPassword(r)
          \/ HandlerStep(r)
    \/ SetActive
    \/ \E t \in Token : Expire(t)

SessionSpec == SessionInit /\ [][SessionNext]_sessionVars

-----------------------------------------------------------------------------
TypeOK ==
    /\ technician \in BOOLEAN
    /\ isActive \in BOOLEAN
    /\ password \in 0..MaxPassword
    /\ issued \subseteq Token
    /\ revoked \subseteq issued
    /\ expired \subseteq issued
    /\ fromConsole \subseteq issued
    /\ replacedBy \in [Token -> MaybeToken]
    /\ deviceOf \in [Token -> MaybeDevice]
    /\ openedWith \in [Token -> 0..MaxPassword]
    /\ parent \in [Token -> MaybeToken]
    /\ req \in [Request -> Handler]

(* A session keeps its handset, its console mark and the password it was   *)
(* opened with through every exchange, and the token that was exchanged is *)
(* dead: refresh, session.service.ts:178-203.  "Dropping deviceId here     *)
(* made a phone's own session look like another handset."                  *)
ExchangeKeepsSession ==
    \A n \in issued :
        parent[n] # NoToken =>
            /\ parent[n] \in revoked
            /\ deviceOf[n] = deviceOf[parent[n]]
            /\ parent[n] \in fromConsole => n \in fromConsole
            /\ openedWith[n] = openedWith[parent[n]]

(* A token looks replayed only if an exchange really retired it, so the    *)
(* account-wide revocation of session.service.ts:167-172 is never set off  *)
(* by a token that was revoked for another reason.                         *)
ReplayMeansExchanged ==
    \A t \in Token :
        replacedBy[t] # NoToken =>
            /\ t \in revoked
            /\ replacedBy[t] \in issued
            /\ parent[replacedBy[t]] = t

(* One signed-in handset per technician: "Holds a technician to one        *)
(* signed-in device" (session.service.ts:253).                             *)
OneHandset ==
    technician => \A s, t \in LiveHandsets : s = t

(* Every live session was opened with the current password: "a new         *)
(* password that leaves old sessions alive has not really replaced         *)
(* anything" (session.service.ts:232-235).                                 *)
PasswordEndsSessions ==
    \A t \in Live : openedWith[t] = password

(* A refresh token buys one successor: it is single use                    *)
(* (session.service.ts:123-131).                                           *)
SingleUse ==
    \A m, n \in issued : parent[m] = parent[n] /\ parent[m] # NoToken => m = n
=============================================================================
