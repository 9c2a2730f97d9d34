---------------------------- MODULE SessionProofs ----------------------------
(***************************************************************************)
(* What sessions guarantee for any number of tokens, handsets, handlers    *)
(* and password changes: first the server (SessionService), then the phone *)
(* that holds one of its tokens (HandsetSession).                          *)
(*                                                                         *)
(* The server's first results hold however the handlers interleave; the    *)
(* ones after them hold until a handler has changed the rows under another *)
(* that waits (SessionOverlap), which cannot be dropped: a sign-in judges  *)
(* the other sessions before an await and creates its own row after it.    *)
(*                                                                         *)
(* The composed system is then shown to be a SessionService, so what is    *)
(* proved of the server carries over; the phone's own invariant says where *)
(* its newest answer is kept and that it is still exchangeable.            *)
(***************************************************************************)
EXTENDS HandsetSession, SessionOverlap, TLAPS

(* A handler about to exchange a token holds the row it has read. *)
HandlerHoldsRow ==
    \A r \in Request : req[r].stage = "rotate" => req[r].token \in issued

TypeInv == TypeOK /\ HandlerHoldsRow

(* The record of a handler that is not running is well typed. *)
LEMMA IdleHandler == Idle \in Handler
BY SessionAssumption DEF Idle, Handler, Stage, MaybeToken, MaybeDevice

(* Every reachable state is well typed and a handler about to exchange a   *)
(* token still finds its row.                                              *)
LEMMA TypeInvariant == SessionSpec => []TypeInv
<1>1. SessionInit => TypeInv
  BY SessionAssumption, IdleHandler DEF SessionInit, TypeInv, TypeOK, HandlerHoldsRow, Idle, MaybeToken, MaybeDevice
<1>2. TypeInv /\ [SessionNext]_sessionVars => TypeInv'
  <2> SUFFICES ASSUME TypeInv, [SessionNext]_sessionVars PROVE TypeInv'
    OBVIOUS
  <2> USE SessionAssumption, IdleHandler DEF TypeInv, TypeOK, HandlerHoldsRow, userVars, rowVars
  <2>1. ASSUME NEW r \in Request, NEW d \in MaybeDevice, NEW takeOver \in BOOLEAN,
               NEW console \in BOOLEAN, SignIn(r, d, console, takeOver)
        PROVE  TypeInv'
    BY <2>1 DEF SignIn, Idle, Handler, Stage
  <2>2. ASSUME NEW r \in Request, NEW t \in Token, NEW console \in BOOLEAN,
               RefreshRead(r, t, console)
        PROVE  TypeInv'
    <3>1. CASE GoTo(r, "reuse")
      BY <2>2, <3>1 DEF RefreshRead, GoTo, Handler, Stage
    <3>2. CASE req' = [req EXCEPT ![r] =
                        [Idle EXCEPT !.stage = "rotate", !.token = t,
                                     !.console = console]]
      BY <2>2, <3>2 DEF RefreshRead, Replayed, Exchangeable, Live, Unrevoked,
                         Idle, GoTo, Handler, Stage, MaybeToken
    <3> QED
      BY <2>2, <3>1, <3>2 DEF RefreshRead
  <2>3. ASSUME NEW r \in Request, NEW t \in Token, SignOut(r, t)
        PROVE  TypeInv'
    BY <2>3 DEF SignOut
  <2>4. ASSUME NEW r \in Request, SetPassword(r)
        PROVE  TypeInv'
    BY <2>4 DEF SetPassword, RevokeAll
  <2>5. ASSUME NEW r \in Request, EnforceSingleDevice(r)
        PROVE  TypeInv'
    <3>1. GoTo(r, "issue") \/ GoTo(r, "retire") \/ Finish(r)
      BY <2>5 DEF EnforceSingleDevice
    <3>2. /\ UNCHANGED <<userVars, issued, expired, replacedBy, deviceOf,
                         fromConsole, openedWith, parent>>
          /\ revoked' \subseteq issued
      BY <2>5 DEF EnforceSingleDevice, RevokeHandsets
    <3>3. req' \in [Request -> Handler]
      BY <3>1 DEF GoTo, Finish, Handler, Stage
    <3>4. HandlerHoldsRow'
      BY <3>1, <3>2 DEF GoTo, Finish, Idle, Handler, Stage
    <3> QED
      BY <3>2, <3>3, <3>4
  <2>6. ASSUME NEW r \in Request, RetireSameDevice(r)
        PROVE  TypeInv'
    BY <2>6 DEF RetireSameDevice, RevokeHandsets, GoTo, Handler, Stage
  <2>7. ASSUME NEW r \in Request, NEW n \in Token, IssueSession(r, n)
        PROVE  TypeInv'
    BY <2>7 DEF IssueSession, CreateRow, Finish, Idle, Handler, MaybeToken, MaybeDevice
  <2>8. ASSUME NEW r \in Request, EndReplayedFamily(r)
        PROVE  TypeInv'
    BY <2>8 DEF EndReplayedFamily, RevokeAll, Finish, Idle
  <2>9. ASSUME NEW r \in Request, HandlerFails(r)
        PROVE  TypeInv'
    BY <2>9 DEF HandlerFails, Finish, Idle
  <2>10. ASSUME SetActive
         PROVE  TypeInv'
    BY <2>10 DEF SetActive
  <2>11. ASSUME NEW t \in Token, Expire(t)
         PROVE  TypeInv'
    BY <2>11 DEF Expire
  <2>12. CASE UNCHANGED sessionVars
    BY <2>12 DEF sessionVars
  <2>15. ASSUME NEW r \in Request, NEW n \in Token, Rotate(r, n)
         PROVE  TypeInv'
    <3>1. req[r].token \in issued
      BY <2>15 DEF Rotate
    <3> QED
      BY <2>15, <3>1 DEF Rotate, CreateRow, Finish, Idle, Handler, MaybeToken, MaybeDevice
  <2>13. NoDevice \in MaybeDevice
    BY DEF MaybeDevice
  <2> HIDE DEF TypeInv, TypeOK, HandlerHoldsRow, userVars, rowVars
  <2>14. ASSUME NEW r \in Request, HandlerStep(r)
         PROVE  TypeInv'
    BY <2>14, <2>5, <2>6, <2>7, <2>8, <2>9, <2>15 DEF HandlerStep
  <2> QED
    BY <2>1, <2>2, <2>3, <2>4, <2>10, <2>11, <2>12, <2>13, <2>14, ZenonT(60)
       DEF SessionNext
<1>3. QED
  BY <1>1, <1>2, PTL DEF SessionSpec

(* Every reachable state is well typed; in particular only rows that exist *)
(* are ever revoked, expired or marked as console.                         *)
THEOREM TypeCorrect == SessionSpec => []TypeOK
BY TypeInvariant, PTL DEF TypeInv

-----------------------------------------------------------------------------
(* Lineage: what an exchange hands on *)

(* What every action but IssueSession and Rotate does to the rows. *)
RowsKept ==
    /\ UNCHANGED <<issued, replacedBy, deviceOf, fromConsole, openedWith, parent>>
    /\ revoked \subseteq revoked'

(* A step keeps the rows, except for what revocation adds, or it creates   *)
(* one: for a new sign-in or for an exchange.                              *)
LEMMA StepKinds ==
    ASSUME [SessionNext]_sessionVars
    PROVE  \/ RowsKept
           \/ \E r \in Request, n \in Token : IssueSession(r, n) \/ Rotate(r, n)
<1> USE DEF RowsKept, rowVars
<1>1. ASSUME NEW r \in Request, HandlerStep(r),
             ~ \E n \in Token : IssueSession(r, n) \/ Rotate(r, n)
      PROVE  RowsKept
  BY <1>1 DEF HandlerStep, EnforceSingleDevice, RetireSameDevice, RevokeHandsets,
              EndReplayedFamily, RevokeAll, HandlerFails
<1>2. ASSUME NEW r \in Request, NEW d, NEW console, NEW takeOver,
             SignIn(r, d, console, takeOver)
      PROVE  RowsKept
  BY <1>2 DEF SignIn
<1>3. ASSUME NEW r \in Request, NEW t \in Token, NEW console,
             RefreshRead(r, t, console)
      PROVE  RowsKept
  BY <1>3 DEF RefreshRead
<1>4. ASSUME NEW r \in Request, NEW t \in Token, SignOut(r, t)
      PROVE  RowsKept
  BY <1>4 DEF SignOut
<1>5. ASSUME NEW r \in Request, SetPassword(r)
      PROVE  RowsKept
  BY <1>5 DEF SetPassword, RevokeAll
<1>6. ASSUME SetActive PROVE RowsKept
  BY <1>6 DEF SetActive
<1>7. ASSUME NEW t \in Token, Expire(t) PROVE RowsKept
  BY <1>7 DEF Expire
<1>8. ASSUME UNCHANGED sessionVars PROVE RowsKept
  BY <1>8 DEF sessionVars
<1> HIDE DEF RowsKept, rowVars
<1> QED
  BY <1>1, <1>2, <1>3, <1>4, <1>5, <1>6, <1>7, <1>8, ZenonT(60) DEF SessionNext

Lineage == ExchangeKeepsSession /\ ReplayMeansExchanged

LEMMA LineageHolds == SessionSpec => []Lineage
<1>1. SessionInit => Lineage
  BY SessionAssumption
     DEF SessionInit, Lineage, ExchangeKeepsSession, ReplayMeansExchanged
<1>2. TypeInv /\ Lineage /\ [SessionNext]_sessionVars => Lineage'
  <2> SUFFICES ASSUME TypeInv, Lineage, [SessionNext]_sessionVars
               PROVE  Lineage'
    OBVIOUS
  <2> USE SessionAssumption
      DEF TypeInv, TypeOK, Lineage, ExchangeKeepsSession, ReplayMeansExchanged
  <2>1. CASE RowsKept
    BY <2>1 DEF RowsKept
  <2>2. ASSUME NEW r \in Request, NEW n \in Token, IssueSession(r, n)
        PROVE  Lineage'
    BY <2>2 DEF IssueSession, CreateRow
  <2>3. ASSUME NEW r \in Request, NEW n \in Token, Rotate(r, n)
        PROVE  Lineage'
    <3> DEFINE old == req[r].token
    <3>1. old \in issued /\ n \notin issued /\ n # NoToken
      BY <2>3 DEF Rotate, CreateRow, HandlerHoldsRow
    <3>2. ExchangeKeepsSession'
      BY <2>3, <3>1 DEF Rotate, CreateRow
    <3>3. ReplayMeansExchanged'
      BY <2>3, <3>1 DEF Rotate, CreateRow
    <3> QED
      BY <3>2, <3>3
  <2> QED
    BY <2>1, <2>2, <2>3, StepKinds
<1>3. QED
  BY <1>1, <1>2, TypeInvariant, PTL DEF SessionSpec

(* However the handlers interleave, a session keeps its device, its        *)
(* console mark and the password it was opened with through every exchange *)
(* (refresh, session.service.ts:178-203).                                  *)
THEOREM ExchangesKeepSession == SessionSpec => []ExchangeKeepsSession
BY LineageHolds, PTL DEF Lineage

(* A token looks replayed only if an exchange retired it, so nothing else  *)
(* sets off the revocation of session.service.ts:167-172.                  *)
THEOREM ReplaysWereExchanged == SessionSpec => []ReplayMeansExchanged
BY LineageHolds, PTL DEF Lineage

-----------------------------------------------------------------------------
(* Until handlers have crossed                                             *)
(*                                                                         *)
(* What the comments of session.service.ts promise about devices and       *)
(* passwords.  The invariant says what a waiting handler may still rely on *)
(* of what it has read.                                                    *)

UnrevokedHandsets == Unrevoked \ fromConsole

(* What the rows promise. *)
RowsInOrder ==
    /\ technician => \A s, t \in UnrevokedHandsets : s = t
    /\ \A t \in Unrevoked : openedWith[t] = password
    /\ SingleUse

(* What a waiting handler may rely on. *)
StillTrue(r) ==
    /\ req[r].stage \in {"enforce", "retire", "issue"} => req[r].opened = password
    /\ req[r].stage = "retire" => LiveElsewhere(req[r].device) = {}
    /\ req[r].stage = "issue" /\ technician /\ ~req[r].console
         => UnrevokedHandsets = {}
    /\ req[r].stage = "rotate" => req[r].token \in Unrevoked

SerialInv == RowsInOrder /\ \A r \in Request : StillTrue(r)

(* A handler that takes no step, and under which nothing changed, may rely *)
(* on what it relied on: the row a handset signed in with only ever ends.  *)
LEMMA NothingChangedUnder ==
    ASSUME TypeInv, SerialInv, [SessionNext]_sessionVars,
           NEW r \in Request, req'[r] = req[r], ~ChangedUnder(r)
    PROVE  StillTrue(r)'
<1>1. CASE req[r].stage = "idle"
  BY <1>1 DEF StillTrue
<1>2. CASE UNCHANGED judged
  <2>1. RowsKept
    <3>1. ASSUME NEW q \in Request, NEW n \in Token, IssueSession(q, n) \/ Rotate(q, n)
          PROVE  FALSE
      BY <1>2, <3>1 DEF judged, IssueSession, Rotate, CreateRow
    <3> QED
      BY <3>1, StepKinds
  <2>2. technician' = technician /\ expired \subseteq expired'
    <3> USE DEF userVars, rowVars
    <3>1. ASSUME NEW q \in Request, HandlerStep(q)
          PROVE  technician' = technician /\ expired \subseteq expired'
      BY <3>1 DEF HandlerStep, EnforceSingleDevice, RetireSameDevice, IssueSession,
                  EndReplayedFamily, Rotate, HandlerFails
    <3>2. ASSUME NEW q \in Request, NEW d, NEW console, NEW takeOver,
                 SignIn(q, d, console, takeOver)
          PROVE  technician' = technician /\ expired \subseteq expired'
      BY <3>2 DEF SignIn
    <3>3. ASSUME NEW q \in Request, NEW t \in Token, NEW console,
                 RefreshRead(q, t, console)
          PROVE  technician' = technician /\ expired \subseteq expired'
      BY <3>3 DEF RefreshRead
    <3>4. ASSUME NEW q \in Request, NEW t \in Token, SignOut(q, t)
          PROVE  technician' = technician /\ expired \subseteq expired'
      BY <3>4 DEF SignOut
    <3>5. ASSUME NEW q \in Request, SetPassword(q)
          PROVE  technician' = technician /\ expired \subseteq expired'
      BY <3>5 DEF SetPassword
    <3>6. ASSUME SetActive PROVE technician' = technician /\ expired \subseteq expired'
      BY <3>6 DEF SetActive
    <3>7. ASSUME NEW t \in Token, Expire(t)
          PROVE  technician' = technician /\ expired \subseteq expired'
      BY <3>7 DEF Expire
    <3>8. ASSUME UNCHANGED sessionVars
          PROVE  technician' = technician /\ expired \subseteq expired'
      BY <3>8 DEF sessionVars
    <3> HIDE DEF userVars, rowVars
    <3> QED
      BY <3>1, <3>2, <3>3, <3>4, <3>5, <3>6, <3>7, <3>8, ZenonT(60) DEF SessionNext
  <2> QED
    BY <1>2, <2>1, <2>2
       DEF judged, RowsKept, SerialInv, StillTrue, LiveElsewhere, LiveHandsets, Live,
           Unrevoked, UnrevokedHandsets
<1> QED
  BY <1>1, <1>2 DEF ChangedUnder

(* Until handlers have crossed, the rows are in order and every waiting    *)
(* handler may rely on what it has read.                                   *)
LEMMA SerialInvariant == OverlapSpec => [](~overlapped => SerialInv)
<1>1. OverlapInit => SerialInv
  BY DEF OverlapInit, SessionInit, SerialInv, RowsInOrder, StillTrue, UnrevokedHandsets,
         Unrevoked, SingleUse, Idle
<1>2. TypeInv /\ Lineage /\ (~overlapped => SerialInv) /\ [OverlapNext]_overlapVars
        => (~overlapped' => SerialInv')
  <2> SUFFICES ASSUME TypeInv, Lineage, ~overlapped => SerialInv,
                      [OverlapNext]_overlapVars, ~overlapped'
               PROVE  SerialInv'
    OBVIOUS
  <2>1. /\ ~overlapped
        /\ [SessionNext]_sessionVars
        /\ \A s \in Request : ~ChangedUnder(s)
    <3>1. CASE OverlapNext
      BY <3>1, Zenon DEF OverlapNext
    <3>2. CASE UNCHANGED overlapVars
      BY <3>2 DEF overlapVars, ChangedUnder, judged, sessionVars, rowVars, userVars
    <3> QED
      BY <3>1, <3>2
  <2> USE <2>1
  <2>2. SerialInv
    OBVIOUS
  <2>3. ASSUME NEW r \in Request, RowsInOrder', StillTrue(r)',
               \A s \in Request \ {r} : req'[s] = req[s]
        PROVE  SerialInv'
    <3>1. \A s \in Request \ {r} : StillTrue(s)'
      BY <2>2, <2>3, NothingChangedUnder
    <3> QED
      BY <2>3, <3>1 DEF SerialInv
  <2>4. ASSUME RowsInOrder', UNCHANGED req
        PROVE  SerialInv'
    <3>1. \A s \in Request : StillTrue(s)'
      BY <2>2, <2>4, NothingChangedUnder
    <3> QED
      BY <2>4, <3>1 DEF SerialInv
  <2> USE SessionAssumption
      DEF TypeInv, TypeOK, SerialInv, RowsInOrder, StillTrue, UnrevokedHandsets, Unrevoked,
          SingleUse, LiveElsewhere, LiveHandsets, Live, userVars, rowVars
  <2>5. ASSUME NEW r \in Request, NEW d \in MaybeDevice, NEW takeOver \in BOOLEAN,
               NEW console \in BOOLEAN, SignIn(r, d, console, takeOver)
        PROVE  SerialInv'
    BY <2>2, <2>5 DEF SignIn, Idle, Handler
  <2>6. ASSUME NEW r \in Request, NEW t \in Token, NEW console \in BOOLEAN,
               RefreshRead(r, t, console)
        PROVE  SerialInv'
    <3>1. CASE GoTo(r, "reuse")
      BY <2>2, <2>6, <3>1 DEF RefreshRead, GoTo, Handler
    <3>2. CASE /\ Exchangeable(t)
               /\ req' = [req EXCEPT ![r] =
                           [Idle EXCEPT !.stage = "rotate", !.token = t,
                                        !.console = console]]
      BY <2>2, <2>6, <3>2 DEF RefreshRead, Exchangeable, Idle, Handler
    <3> QED
      BY <2>6, <3>1, <3>2 DEF RefreshRead
  <2>7. ASSUME NEW r \in Request, NEW t \in Token, SignOut(r, t)
        PROVE  SerialInv'
    <3>1. RowsInOrder' /\ UNCHANGED req
      BY <2>2, <2>7 DEF SignOut
    <3> QED
      BY <2>4, <3>1
  <2>8. ASSUME NEW r \in Request, SetPassword(r)
        PROVE  SerialInv'
    <3>1. RowsInOrder' /\ UNCHANGED req
      BY <2>2, <2>8 DEF SetPassword, RevokeAll
    <3> QED
      BY <2>4, <3>1
  <2>9. ASSUME NEW r \in Request, EnforceSingleDevice(r)
        PROVE  SerialInv'
    <3>1. RowsInOrder'
      BY <2>2, <2>9 DEF EnforceSingleDevice, RevokeHandsets
    <3>2. StillTrue(r)'
      BY <2>2, <2>9 DEF EnforceSingleDevice, RevokeHandsets, GoTo, Finish, Idle, Handler
    <3>3. \A s \in Request \ {r} : req'[s] = req[s]
      BY <2>9 DEF EnforceSingleDevice, GoTo, Finish
    <3> QED
      BY <2>3, <3>1, <3>2, <3>3
  <2>10. ASSUME NEW r \in Request, RetireSameDevice(r)
         PROVE  SerialInv'
    <3>1. RowsInOrder'
      BY <2>2, <2>10 DEF RetireSameDevice, RevokeHandsets
    <3>2. StillTrue(r)'
      BY <2>2, <2>10 DEF RetireSameDevice, RevokeHandsets, GoTo, Handler
    <3>3. \A s \in Request \ {r} : req'[s] = req[s]
      BY <2>10 DEF RetireSameDevice, GoTo
    <3> QED
      BY <2>3, <3>1, <3>2, <3>3
  <2>11. ASSUME NEW r \in Request, NEW n \in Token, IssueSession(r, n)
         PROVE  SerialInv'
    <3>1. RowsInOrder'
      BY <2>2, <2>11 DEF IssueSession, CreateRow, Handler
    <3>2. StillTrue(r)' /\ \A s \in Request \ {r} : req'[s] = req[s]
      BY <2>11 DEF IssueSession, Finish, Idle
    <3> QED
      BY <2>3, <3>1, <3>2
  <2>12. ASSUME NEW r \in Request, NEW n \in Token, Rotate(r, n)
         PROVE  SerialInv'
    <3>1. RowsInOrder'
      BY <2>2, <2>12 DEF Rotate, CreateRow, Handler, Lineage, ExchangeKeepsSession, HandlerHoldsRow
    <3>2. StillTrue(r)' /\ \A s \in Request \ {r} : req'[s] = req[s]
      BY <2>12 DEF Rotate, Finish, Idle
    <3> QED
      BY <2>3, <3>1, <3>2
  <2>13. ASSUME NEW r \in Request, EndReplayedFamily(r)
         PROVE  SerialInv'
    <3>1. RowsInOrder'
      BY <2>2, <2>13 DEF EndReplayedFamily, RevokeAll
    <3>2. StillTrue(r)' /\ \A s \in Request \ {r} : req'[s] = req[s]
      BY <2>13 DEF EndReplayedFamily, Finish, Idle
    <3> QED
      BY <2>3, <3>1, <3>2
  <2>14. ASSUME NEW r \in Request, HandlerFails(r)
         PROVE  SerialInv'
    BY <2>2, <2>14 DEF HandlerFails, Finish, Idle
  <2>15. ASSUME SetActive
         PROVE  SerialInv'
    BY <2>2, <2>15 DEF SetActive
  <2>16. ASSUME NEW t \in Token, Expire(t)
         PROVE  SerialInv'
    BY <2>2, <2>16 DEF Expire
  <2>17. CASE UNCHANGED sessionVars
    BY <2>2, <2>17 DEF sessionVars
  <2>18. NoDevice \in MaybeDevice
    BY DEF MaybeDevice
  <2> HIDE DEF TypeInv, TypeOK, SerialInv, RowsInOrder, StillTrue, UnrevokedHandsets, Unrevoked,
          SingleUse, LiveElsewhere, LiveHandsets, Live, userVars, rowVars
  <2>19. ASSUME NEW r \in Request, HandlerStep(r)
         PROVE  SerialInv'
    BY <2>9, <2>10, <2>11, <2>12, <2>13, <2>14, <2>19 DEF HandlerStep
  <2> QED
    BY <2>1, <2>5, <2>6, <2>7, <2>8, <2>15, <2>16, <2>17, <2>18, <2>19, ZenonT(60)
       DEF SessionNext
<1>3. OverlapSpec => SessionSpec
  <2>1. OverlapInit => SessionInit
    BY DEF OverlapInit
  <2>2. [OverlapNext]_overlapVars => [SessionNext]_sessionVars
    BY DEF OverlapNext, overlapVars
  <2> QED
    BY <2>1, <2>2, PTL DEF OverlapSpec, SessionSpec
<1>4. QED
  BY <1>1, <1>2, <1>3, TypeInvariant, LineageHolds, PTL DEF OverlapSpec

(* Until handlers have crossed, a technician has one live handset session, *)
(* however many handlers are under way (enforceSingleDevice).              *)
THEOREM OneHandsetHolds == OverlapSpec => []OneHandsetUncrossed
<1>1. (~overlapped => SerialInv) => OneHandsetUncrossed
  BY DEF SerialInv, RowsInOrder, OneHandsetUncrossed, OneHandset, LiveHandsets, Live,
         UnrevokedHandsets
<1>2. QED
  BY <1>1, SerialInvariant, PTL

(* Until handlers have crossed, no session outlives the password it was    *)
(* opened with (setPassword and revokeAllFor).                             *)
THEOREM PasswordEndsSessionsHolds == OverlapSpec => []PasswordEndsSessionsUncrossed
<1>1. (~overlapped => SerialInv) => PasswordEndsSessionsUncrossed
  BY DEF SerialInv, RowsInOrder, PasswordEndsSessionsUncrossed, PasswordEndsSessions, Live
<1>2. QED
  BY <1>1, SerialInvariant, PTL

(* Until handlers have crossed, a refresh token is single use (refresh). *)
THEOREM SingleUseHolds == OverlapSpec => []SingleUseUncrossed
<1>1. (~overlapped => SerialInv) => SingleUseUncrossed
  BY DEF SerialInv, RowsInOrder, SingleUseUncrossed
<1>2. QED
  BY <1>1, SerialInvariant, PTL

(* Until handlers have crossed, a sign-in that was not told to take over   *)
(* ends no other handset's session (enforceSingleDevice).                  *)
THEOREM NoEvictionHolds == OverlapSpec => NoEvictionUncrossed
<1> DEFINE Asked ==
      \A r \in Request :
          ~overlapped /\ req[r].stage = "retire" /\ req'[r].stage = "issue"
          => LiveHandsets \cap (revoked' \ revoked)
               \subseteq {t \in issued : deviceOf[t] = req[r].device}
<1>1. (~overlapped => SerialInv) /\ [OverlapNext]_overlapVars => [Asked]_sessionVars
  BY DEF SerialInv, StillTrue, LiveElsewhere, LiveHandsets, Live, Unrevoked
<1>2. QED
  BY <1>1, SerialInvariant, PTL DEF OverlapSpec, NoEvictionUncrossed

-----------------------------------------------------------------------------
(* The phone                                                               *)

Asking == {"asked", "served", "granted", "refused", "fault"}

-----------------------------------------------------------------------------
(* The phone is well typed                                                 *)

(* A renewal under way is about a token, and so are an answer that grants  *)
(* one, a sign-in that was granted and a sign-out.                         *)
PhoneTyped ==
    /\ stored \in MaybeToken
    /\ cached \in MaybeToken \cup {Unread}
    /\ unsaved \in MaybeToken \cup {Nothing}
    /\ flush \in MaybeToken \cup {Nothing}
    /\ renewal \in [step : RenewalStep, token : MaybeToken, got : MaybeToken]
    /\ user \in [step : UserStep, token : MaybeToken]
    /\ renewal.step \in Asking => renewal.token \in Token
    /\ renewal.step = "granted" => renewal.got \in Token
    /\ user.step \in {"granted", "storing", "clearing", "leaving"} => user.token \in Token

Flags == {onScreen, signedIn, crossed, lost} \subseteq BOOLEAN

LEMMA InitPhoneTyped == HandsetInit => PhoneTyped /\ Flags
<1> SUFFICES ASSUME HandsetInit PROVE PhoneTyped /\ Flags
  OBVIOUS
<1>1. PhoneTyped
  BY HandsetAssumption, SessionAssumption
     DEF HandsetInit, PhoneTyped, MaybeToken, NoRenewal, NoUser, RenewalStep, UserStep, Asking
<1>2. Flags
  BY DEF HandsetInit, Flags
<1> QED
  BY <1>1, <1>2

LEMMA FlagsStep == ASSUME Flags, [HandsetNext]_handsetVars PROVE Flags'
<1>1. CASE UNCHANGED handsetVars
  BY <1>1 DEF handsetVars, phoneVars, historyVars, Flags
<1>2. ASSUME HandsetNext PROVE crossed' \in BOOLEAN
  BY <1>2 DEF HandsetNext
<1>3. ASSUME PhoneStep PROVE onScreen' \in BOOLEAN
  BY <1>3 DEF PhoneStep, Flags, Load, FlushStart, FlushLands, FlushRefused, StartRenewal,
     RenewalGranted, RenewalRefused, Adopt, RenewalFailed, RenewalSaved, RenewalNotSaved,
     StartSignIn, SignInFailed, SignInGranted, SignInStored, StartSignOut, SignOutCleared,
     UserWriteRefused, LogoutReaches, LogoutLost, Lock, Kill
<1>4. ASSUME PhoneStep PROVE signedIn' \in BOOLEAN
  BY <1>4 DEF PhoneStep, Flags, Load, FlushStart, FlushLands, FlushRefused, StartRenewal,
     RenewalGranted, RenewalRefused, Adopt, RenewalFailed, RenewalSaved, RenewalNotSaved,
     StartSignIn, SignInFailed, SignInGranted, SignInStored, StartSignOut, SignOutCleared,
     UserWriteRefused, LogoutReaches, LogoutLost, Lock, Kill
<1>5. ASSUME PhoneStep PROVE lost' \in BOOLEAN
  BY <1>5 DEF PhoneStep, Flags, Load, FlushStart, FlushLands, FlushRefused, StartRenewal,
     RenewalGranted, RenewalRefused, Adopt, RenewalFailed, RenewalSaved, RenewalNotSaved,
     StartSignIn, SignInFailed, SignInGranted, SignInStored, StartSignOut, SignOutCleared,
     UserWriteRefused, LogoutReaches, LogoutLost, Lock, Kill
<1>6. ASSUME Server PROVE {onScreen', signedIn', lost'} \subseteq BOOLEAN
  BY <1>6 DEF Server, Flags
<1> QED
  BY <1>1, <1>2, <1>3, <1>4, <1>5, <1>6 DEF HandsetNext, Flags

LEMMA PhoneStepTyped == ASSUME PhoneTyped, PhoneStep PROVE PhoneTyped'
<1> USE HandsetAssumption, SessionAssumption DEF PhoneTyped, MaybeToken, RenewalStep, UserStep, Asking
<1>1. CASE Load \/ FlushStart \/ FlushLands \/ FlushRefused \/ Lock
  BY <1>1 DEF Load, FlushStart, FlushLands, FlushRefused, Lock
<1>2. CASE StartRenewal
  BY <1>2 DEF StartRenewal
<1>3. CASE RenewalFailed
  BY <1>3 DEF RenewalFailed, NoRenewal
<1>4. CASE RenewalSaved
  BY <1>4 DEF RenewalSaved, NoRenewal
<1>5. CASE RenewalNotSaved
  BY <1>5 DEF RenewalNotSaved, NoRenewal
<1>6. CASE RenewalGranted
  BY <1>6 DEF RenewalGranted, Adopt
<1>7. CASE RenewalRefused
  BY <1>7 DEF RenewalRefused, Adopt
<1>8. CASE StartSignIn \/ SignInFailed
  BY <1>8 DEF StartSignIn, SignInFailed, SetUser
<1>9. CASE SignInGranted \/ SignInStored
  BY <1>9 DEF SignInGranted, SignInStored, SetUser, Persisted
<1>10. CASE StartSignOut
  BY <1>10 DEF StartSignOut, SetUser
<1>11. CASE SignOutCleared
  BY <1>11 DEF SignOutCleared, SetUser, Persisted
<1>12. CASE UserWriteRefused \/ LogoutLost
  BY <1>12 DEF UserWriteRefused, LogoutLost, SetUser
<1>13. CASE LogoutReaches
  BY <1>13 DEF LogoutReaches, SetUser
<1>14. CASE Kill
  BY <1>14 DEF Kill, NoRenewal, NoUser
<1> QED
  BY <1>1, <1>2, <1>3, <1>4, <1>5, <1>6, <1>7, <1>8, <1>9, <1>10, <1>11, <1>12, <1>13, <1>14
     DEF PhoneStep

(* The server's steps change of the phone only what an answer tells it.    *)
LEMMA ServerTyped == ASSUME PhoneTyped, Server PROVE PhoneTyped'
<1> USE HandsetAssumption, SessionAssumption DEF PhoneTyped, MaybeToken, RenewalStep, UserStep, Asking
<1>1. UNCHANGED <<stored, cached, unsaved, flush>>
  BY DEF Server
<1>2. CASE ServeRenewal
  BY <1>1, <1>2 DEF ServeRenewal
<1>3. CASE ServeSignIn
  BY <1>1, <1>3 DEF ServeSignIn, SetUser
<1>4. ASSUME NEW step \in {"granted", "refused", "fault"}, NEW token \in MaybeToken,
             step = "granted" => token \in Token,
             AnswerRenewal(step, token), UNCHANGED user
      PROVE  PhoneTyped'
  <2>1. CASE renewal.step = "served"
    <3>1. renewal' = [renewal EXCEPT !.step = step, !.got = token]
      BY <1>4, <2>1 DEF AnswerRenewal
    <3>2. /\ renewal' \in [step : RenewalStep, token : MaybeToken, got : MaybeToken]
          /\ renewal'.step = step /\ renewal'.token = renewal.token /\ renewal'.got = token
      BY <3>1, <1>4
    <3> QED
      BY <1>1, <1>4, <2>1, <3>2
  <2>2. CASE renewal.step # "served"
    BY <1>1, <1>4, <2>2 DEF AnswerRenewal
  <2> QED
    BY <2>1, <2>2
<1>5. ASSUME NEW step \in {"granted", "none"}, NEW token \in MaybeToken,
             step = "granted" => token \in Token,
             AnswerUser(step, token), UNCHANGED renewal
      PROVE  PhoneTyped'
  BY <1>1, <1>5 DEF AnswerUser
<1>6. ASSUME UNCHANGED <<renewal, user>> PROVE PhoneTyped'
  BY <1>1, <1>6
<1>7. CASE ServerStep
  BY <1>4, <1>5, <1>6, <1>7 DEF ServerStep, AnswerConflict
<1> QED
  BY <1>2, <1>3, <1>7 DEF Server

LEMMA PhoneTypedStep == ASSUME PhoneTyped, [HandsetNext]_handsetVars PROVE PhoneTyped'
<1>1. CASE UNCHANGED handsetVars
  BY <1>1 DEF handsetVars, phoneVars, PhoneTyped
<1> QED
  BY <1>1, PhoneStepTyped, ServerTyped DEF HandsetNext

-----------------------------------------------------------------------------
(* The composed system is a SessionService                                 *)

LEMMA SessionStepOf ==
    ASSUME PhoneTyped, [HandsetNext]_handsetVars
    PROVE  [SessionNext]_sessionVars
<1> USE HandsetAssumption
<1>1. CASE UNCHANGED sessionVars
  BY <1>1
<1>2. ASSUME NEW r \in Request, HandlerStep(r) PROVE SessionNext
  BY <1>2 DEF SessionNext
<1>3. ASSUME NEW r \in Request, NEW d \in MaybeDevice, NEW takeOver \in BOOLEAN,
             SignIn(r, d, FALSE, takeOver)
      PROVE  SessionNext
  BY <1>3 DEF SessionNext
<1>4. ASSUME NEW t \in Token, NEW r \in Request, RefreshRead(r, t, FALSE) PROVE SessionNext
  BY <1>4 DEF SessionNext
<1>5. ASSUME NEW t \in Token, NEW r \in Request, SignOut(r, t) PROVE SessionNext
  BY <1>5 DEF SessionNext
<1>6. PhoneStep => SessionNext \/ UNCHANGED sessionVars
  <2>1. LogoutReaches => SessionNext
    BY <1>5 DEF LogoutReaches, PhoneTyped
  <2> QED
    BY <2>1 DEF PhoneStep, Load, FlushStart, FlushLands, FlushRefused, StartRenewal,
       RenewalGranted, RenewalRefused, Adopt, RenewalFailed, RenewalSaved, RenewalNotSaved,
       StartSignIn, SignInFailed, SignInGranted, SignInStored, StartSignOut, SignOutCleared,
       UserWriteRefused, LogoutLost, Lock, Kill
<1>7. ServeRenewal => SessionNext \/ UNCHANGED sessionVars
  BY <1>4 DEF ServeRenewal, PhoneTyped, Asking
<1>8. ServeSignIn => SessionNext
  BY <1>3 DEF ServeSignIn, MaybeDevice
<1>9. ServerStep => SessionNext
  <2>1. ASSUME NEW d \in Device \ {phone}, NEW takeOver \in BOOLEAN,
               SignIn(elsewhereReq, d, FALSE, takeOver)
        PROVE  SessionNext
    BY <1>3, <2>1 DEF MaybeDevice
  <2> QED
    BY <1>2, <2>1 DEF ServerStep, HandlerStep
<1> QED
  BY <1>1, <1>6, <1>7, <1>8, <1>9 DEF HandsetNext, Server, handsetVars

LEMMA PhoneAlwaysTyped == HandsetSpec => [](PhoneTyped /\ Flags)
<1>1. PhoneTyped /\ Flags /\ [HandsetNext]_handsetVars => (PhoneTyped /\ Flags)'
  BY PhoneTypedStep, FlagsStep
<1> QED
  BY <1>1, InitPhoneTyped, PTL DEF HandsetSpec

(* With a phone and its network in front of them, the handlers still only  *)
(* do what SessionService says of them, so all that is proved of every     *)
(* client of the session service holds here too.                           *)
THEOREM HandsetUsesSessionService == HandsetSpec => SessionSpec
<1>1. HandsetInit => SessionInit
  BY DEF HandsetInit
<1>2. PhoneTyped /\ [HandsetNext]_handsetVars => [SessionNext]_sessionVars
  BY SessionStepOf
<1> QED
  BY <1>1, <1>2, PhoneAlwaysTyped, PTL DEF HandsetSpec, SessionSpec

(* Phone and server stay well typed together.                              *)
THEOREM HandsetTyped == HandsetSpec => []HandsetTypeOK
<1>1. TypeOK /\ PhoneTyped /\ Flags => HandsetTypeOK
  BY DEF PhoneTyped, Flags, HandsetTypeOK
<1> QED
  BY <1>1, PhoneAlwaysTyped, HandsetUsesSessionService, TypeCorrect, PTL

-----------------------------------------------------------------------------
(* Where the phone keeps its newest answer                                 *)

(* What a restart would read once the held answer has been saved.          *)
Latest == IF unsaved # Nothing THEN unsaved ELSE stored

(* What the phone uses is what the renewal being saved was granted, or     *)
(* else what it holds for the keychain, or else what the keychain holds.   *)
Keychain ==
    /\ ~Crossing
    /\ flush # Nothing => unsaved = flush
    /\ cached = Unread
         => unsaved = Nothing /\ renewal.step = "none" /\ user.step = "none"
    /\ cached # Unread
         => cached = IF renewal.step = "saving" THEN renewal.got ELSE Latest
    /\ renewal.step \in Asking => cached = renewal.token
    /\ user.step \in {"asked", "served", "granted", "storing"} => cached = NoToken

(* Every token the phone knows has a row.                                  *)
Known ==
    {stored, cached, unsaved, flush, renewal.token, renewal.got, user.token} \cap Token
        \subseteq issued

(* A renewal is refused only for a token that is no longer honoured.       *)
RefusedIsDead ==
    /\ isActive
    /\ renewal.step = "refused" => renewal.token \notin Live

(* A token nobody has exchanged.                                           *)
Fresh(t) == t \in Token => replacedBy[t] = NoToken

(* What the phone would present next has not been exchanged: the handler   *)
(* that exchanges its token answers a renewal that is still waiting, and   *)
(* the answer is kept.                                                     *)
NotReplayed ==
    /\ req[renewReq].stage # "reuse"
    /\ req[renewReq].stage = "rotate"
         => renewal.step = "served" /\ req[renewReq].token = renewal.token
    /\ renewal.step # "granted" => Fresh(cached)
    /\ renewal.step = "granted" => Fresh(renewal.got)
    /\ cached = Unread => Fresh(stored)
    /\ user.step \in {"granted", "storing"} => Fresh(user.token)

HandsetInv ==
    /\ Known
    /\ RefusedIsDead
    /\ ~crossed => Keychain
    /\ ~crossed /\ ~lost => NotReplayed

-----------------------------------------------------------------------------
(* What the steps do to the rows                                           *)

(* A step of the phone's handlers, or of the phone, leaves the profile     *)
(* active; rows only appear and only die.                                  *)
RowsAge ==
    /\ isActive' = isActive
    /\ issued \subseteq issued'
    /\ Live' \cap issued \subseteq Live

LEMMA RowsAgeStep == ASSUME HandsetNext PROVE RowsAge
<1> DEFINE Ages == /\ isActive' = isActive
                   /\ issued \subseteq issued'
                   /\ revoked \subseteq revoked'
                   /\ expired \subseteq expired'
<1> USE DEF userVars, rowVars
<1>1. ASSUME NEW r, EnforceSingleDevice(r) \/ RetireSameDevice(r) \/ EndReplayedFamily(r)
                    \/ HandlerFails(r)
      PROVE  Ages
  BY <1>1 DEF EnforceSingleDevice, RetireSameDevice, EndReplayedFamily, HandlerFails,
              RevokeHandsets, RevokeAll
<1>2. ASSUME NEW r, NEW n, IssueSession(r, n) \/ Rotate(r, n) PROVE Ages
  BY <1>2 DEF IssueSession, Rotate, CreateRow
<1>3. ASSUME NEW r, NEW d, NEW takeOver, SignIn(r, d, FALSE, takeOver) PROVE Ages
  BY <1>3 DEF SignIn
<1>4. ASSUME NEW r, NEW t, RefreshRead(r, t, FALSE) \/ SignOut(r, t) PROVE Ages
  BY <1>4 DEF RefreshRead, SignOut
<1>5. ASSUME UNCHANGED sessionVars PROVE Ages
  BY <1>5 DEF sessionVars
<1> HIDE DEF userVars, rowVars, Ages
<1>6. PhoneStep => Ages
  BY <1>4, <1>5 DEF PhoneStep, Load, FlushStart, FlushLands, FlushRefused, StartRenewal,
       RenewalGranted, RenewalRefused, Adopt, RenewalFailed, RenewalSaved, RenewalNotSaved,
       StartSignIn, SignInFailed, SignInGranted, SignInStored, StartSignOut, SignOutCleared,
       UserWriteRefused, LogoutReaches, LogoutLost, Lock, Kill
<1>7. ServeRenewal \/ ServeSignIn => Ages
  BY <1>3, <1>4, <1>5 DEF ServeRenewal, ServeSignIn
<1>8. ServerStep => Ages
  BY <1>1, <1>2, <1>3 DEF ServerStep
<1>9. Ages
  BY <1>6, <1>7, <1>8 DEF HandsetNext, Server
<1> QED
  BY <1>9 DEF Ages, RowsAge, Live, Unrevoked

-----------------------------------------------------------------------------
(* Every token the phone knows has a row                                   *)

LEMMA KnownStep ==
    ASSUME PhoneTyped, Known, [HandsetNext]_handsetVars
    PROVE  Known'
<1> DEFINE
      Old == {stored, cached, unsaved, flush, renewal.token, renewal.got, user.token,
              NoToken, Unread, Nothing}
      New == {stored', cached', unsaved', flush', renewal'.token, renewal'.got, user'.token}
<1>1. CASE UNCHANGED handsetVars
  BY <1>1 DEF handsetVars, phoneVars, sessionVars, rowVars, Known
<1>2. ASSUME HandsetNext, New \subseteq Old PROVE Known'
  <2>1. issued \subseteq issued'
    BY <1>2, RowsAgeStep DEF RowsAge
  <2>2. Old \cap Token \subseteq issued
    BY HandsetAssumption, SessionAssumption, PhoneTyped DEF Known, MaybeToken
  <2> QED
    BY <1>2, <2>1, <2>2 DEF Known
<1>3. PhoneStep => New \subseteq Old
  <2> USE DEF PhoneTyped
  <2>1. Load \/ FlushStart \/ FlushLands \/ FlushRefused \/ Lock => New \subseteq Old
    BY DEF Load, FlushStart, FlushLands, FlushRefused, Lock
  <2>2. StartRenewal \/ RenewalFailed \/ RenewalSaved \/ RenewalNotSaved => New \subseteq Old
    BY DEF StartRenewal, RenewalFailed, RenewalSaved, RenewalNotSaved, NoRenewal
  <2>3. RenewalGranted \/ RenewalRefused => New \subseteq Old
    BY DEF RenewalGranted, RenewalRefused, Adopt
  <2>4. StartSignIn \/ SignInFailed \/ SignInGranted \/ SignInStored => New \subseteq Old
    BY DEF StartSignIn, SignInFailed, SignInGranted, SignInStored, SetUser, Persisted
  <2>5. StartSignOut \/ SignOutCleared \/ UserWriteRefused \/ LogoutReaches \/ LogoutLost
           => New \subseteq Old
    BY DEF StartSignOut, SignOutCleared, UserWriteRefused, LogoutReaches, LogoutLost,
           SetUser, Persisted
  <2>6. Kill => New \subseteq Old
    BY DEF Kill, NoRenewal, NoUser
  <2> QED
    BY <2>1, <2>2, <2>3, <2>4, <2>5, <2>6 DEF PhoneStep
<1>4. ASSUME Server PROVE New \subseteq Old \/ \E n \in Token :
           n \in issued' /\ New \subseteq Old \cup {n}
  <2> USE DEF PhoneTyped
  <2>1. UNCHANGED <<stored, cached, unsaved, flush>>
    BY <1>4 DEF Server
  <2>2. CASE ServeRenewal
    <3>1. PICK step \in {"served", "refused"} : renewal' = [renewal EXCEPT !.step = step]
      BY <2>2 DEF ServeRenewal
    <3>2. renewal'.token = renewal.token /\ renewal'.got = renewal.got /\ user' = user
      BY <2>2, <3>1 DEF ServeRenewal
    <3> QED
      BY <2>1, <3>2
  <2>3. CASE ServeSignIn
    BY <2>1, <2>3 DEF ServeSignIn, SetUser
  <2>4. ASSUME NEW n \in Token, Rotate(renewReq, n), AnswerRenewal("granted", n), UNCHANGED user
        PROVE  n \in issued' /\ New \subseteq Old \cup {n}
    BY <2>1, <2>4 DEF Rotate, CreateRow, AnswerRenewal
  <2>5. ASSUME NEW n \in Token, IssueSession(userReq, n), AnswerUser("granted", n), UNCHANGED renewal
        PROVE  n \in issued' /\ New \subseteq Old \cup {n}
    BY <2>1, <2>5 DEF IssueSession, CreateRow, AnswerUser
  <2>6. ASSUME NEW step, AnswerRenewal(step, NoToken), UNCHANGED user
        PROVE  New \subseteq Old
    BY <2>1, <2>6 DEF AnswerRenewal
  <2>7. ASSUME AnswerUser("none", NoToken) \/ UNCHANGED user, UNCHANGED renewal
        PROVE  New \subseteq Old
    BY <2>1, <2>7 DEF AnswerUser
  <2> HIDE DEF New, Old, PhoneTyped
  <2>8. CASE ServerStep
    BY <2>4, <2>5, <2>6, <2>7, <2>8 DEF ServerStep, AnswerConflict
  <2> QED
    BY <1>4, <2>2, <2>3, <2>8 DEF Server
<1>5. ASSUME HandsetNext, NEW n \in Token, n \in issued', New \subseteq Old \cup {n}
      PROVE  Known'
  <2>1. issued \subseteq issued'
    BY <1>5, RowsAgeStep DEF RowsAge
  <2>2. Old \cap Token \subseteq issued
    BY HandsetAssumption, SessionAssumption, PhoneTyped DEF Known, MaybeToken
  <2> QED
    BY <1>5, <2>1, <2>2 DEF Known
<1> HIDE DEF New, Old
<1> QED
  BY <1>1, <1>2, <1>3, <1>4, <1>5 DEF HandsetNext

-----------------------------------------------------------------------------
(* Only a dead token is refused                                            *)

LEMMA RefusedIsDeadStep ==
    ASSUME TypeInv, PhoneTyped, Known, RefusedIsDead, [HandsetNext]_handsetVars
    PROVE  RefusedIsDead'
<1>1. CASE UNCHANGED handsetVars
  BY <1>1 DEF handsetVars, phoneVars, sessionVars, rowVars, userVars, RefusedIsDead, Live, Unrevoked
<1>2. SUFFICES ASSUME HandsetNext, renewal'.step = "refused"
               PROVE  renewal'.token \notin Live'
  BY <1>1, RowsAgeStep DEF RowsAge, RefusedIsDead
<1>3. ASSUME renewal.step = "refused", renewal'.token = renewal.token
      PROVE  renewal'.token \notin Live'
  <2>1. renewal.token \in issued
    BY <1>3 DEF PhoneTyped, Asking, Known
  <2> QED
    BY <1>2, <1>3, <2>1, RowsAgeStep DEF RowsAge, RefusedIsDead
<1>4. CASE PhoneStep
  <2>1. StartRenewal \/ RenewalFailed \/ RenewalSaved \/ RenewalNotSaved \/ Kill
           => renewal'.step # "refused"
    BY DEF StartRenewal, RenewalFailed, RenewalSaved, RenewalNotSaved, NoRenewal, Kill
  <2>2. RenewalGranted \/ RenewalRefused => renewal'.step # "refused"
    BY DEF PhoneTyped, RenewalGranted, RenewalRefused, Adopt
  <2>3. renewal' = renewal
    BY <1>2, <1>4, <2>1, <2>2 DEF PhoneStep, Load, FlushStart, FlushLands, FlushRefused,
       StartSignIn, SignInFailed, SignInGranted, SignInStored, StartSignOut, SignOutCleared,
       UserWriteRefused, LogoutReaches, LogoutLost, Lock
  <2> QED
    BY <1>2, <1>3, <2>3
<1>5. CASE ServeRenewal
  <2>1. /\ ~Exchangeable(renewal.token) /\ UNCHANGED sessionVars
        /\ renewal' = [renewal EXCEPT !.step = "refused"]
    BY <1>2, <1>5 DEF ServeRenewal, PhoneTyped
  <2>2. renewal'.token = renewal.token
    BY <2>1 DEF PhoneTyped
  <2> QED
    BY <2>1, <2>2 DEF Exchangeable, RefusedIsDead, Live, Unrevoked, sessionVars, rowVars
<1>6. CASE ServerStep
  <2>1. CASE renewal' = renewal
    BY <1>2, <1>3, <2>1
  <2>2. ASSUME EndReplayedFamily(renewReq) PROVE renewal'.token \notin Live'
    BY <2>2 DEF EndReplayedFamily, RevokeAll, Live, Unrevoked
  <2>3. ASSUME NEW step \in {"granted", "fault"}, NEW t, AnswerRenewal(step, t)
        PROVE  renewal' = renewal
    BY <1>2, <2>3 DEF AnswerRenewal, PhoneTyped
  <2> QED
    BY <1>6, <2>1, <2>2, <2>3 DEF ServerStep
<1>7. CASE ServeSignIn
  BY <1>2, <1>3, <1>7 DEF ServeSignIn
<1> QED
  BY <1>2, <1>4, <1>5, <1>6, <1>7 DEF HandsetNext, Server

-----------------------------------------------------------------------------
(* The keychain follows the phone                                          *)

LEMMA KeychainPhoneStep ==
    ASSUME PhoneTyped, Keychain, PhoneStep, ~Crossing'
    PROVE  Keychain'
<1> USE HandsetAssumption, SessionAssumption
    DEF PhoneTyped, Keychain, Latest, Asking, MaybeToken
<1>1. CASE Load
  BY <1>1 DEF Load
<1>2. CASE FlushStart \/ FlushRefused
  BY <1>2 DEF FlushStart, FlushRefused
<1>3. CASE FlushLands
  <2>1. flush \in MaybeToken /\ unsaved = flush /\ flush # Nothing
    BY <1>3 DEF FlushLands
  <2>2. stored' = unsaved /\ unsaved' = Nothing /\ flush' = Nothing
    BY <1>3, <2>1 DEF FlushLands
  <2> QED
    BY <1>3, <2>1, <2>2 DEF FlushLands, Crossing
<1>4. CASE StartRenewal
  BY <1>4 DEF StartRenewal
<1>5. CASE RenewalGranted
  BY <1>5 DEF RenewalGranted, Adopt, RenewalStep
<1>6. CASE RenewalRefused
  BY <1>6 DEF RenewalRefused, Adopt, RenewalStep
<1>7. CASE RenewalFailed
  BY <1>7 DEF RenewalFailed, NoRenewal
<1>8. CASE RenewalSaved
  <2>1. flush = Nothing /\ user.step \notin {"storing", "clearing"} /\ cached = renewal.got
    BY <1>8 DEF RenewalSaved, Crossing
  <2> QED
    BY <1>8, <2>1 DEF RenewalSaved, NoRenewal
<1>9. CASE RenewalNotSaved
  <2>1. flush = Nothing /\ user.step \notin {"storing", "clearing"} /\ cached = renewal.got
    BY <1>9 DEF RenewalNotSaved, Crossing
  <2> QED
    BY <1>9, <2>1 DEF RenewalNotSaved, NoRenewal
<1>10. CASE StartSignIn
  BY <1>10 DEF StartSignIn, SetUser
<1>11. CASE SignInFailed \/ SignInGranted \/ StartSignOut
  BY <1>11 DEF SignInFailed, SignInGranted, StartSignOut, SetUser
<1>12. CASE SignInStored \/ SignOutCleared
  <2>1. flush = Nothing /\ renewal.step = "none"
    BY <1>12 DEF SignInStored, SignOutCleared, Crossing
  <2> QED
    BY <1>12, <2>1 DEF SignInStored, SignOutCleared, SetUser, Persisted
<1>13. CASE UserWriteRefused \/ LogoutReaches \/ LogoutLost
  BY <1>13 DEF UserWriteRefused, LogoutReaches, LogoutLost, SetUser
<1>14. CASE Lock
  BY <1>14 DEF Lock
<1>15. CASE Kill
  BY <1>15 DEF Kill, NoRenewal, NoUser
<1> QED
  BY <1>1, <1>2, <1>3, <1>4, <1>5, <1>6, <1>7, <1>8, <1>9, <1>10, <1>11, <1>12, <1>13, <1>14, <1>15
     DEF PhoneStep

LEMMA KeychainServerStep ==
    ASSUME PhoneTyped, Keychain, Server, ~Crossing'
    PROVE  Keychain'
<1> USE DEF PhoneTyped, Keychain, Latest, Asking
<1>1. UNCHANGED <<stored, cached, unsaved, flush>>
  BY DEF Server
<1>2. CASE ServeRenewal
  <2>1. PICK step \in {"served", "refused"} : renewal' = [renewal EXCEPT !.step = step]
    BY <1>2 DEF ServeRenewal
  <2>2. /\ renewal'.step \in {"served", "refused"} /\ renewal'.token = renewal.token
        /\ renewal.step = "asked" /\ user' = user
    BY <1>2, <2>1 DEF ServeRenewal
  <2> QED
    BY <1>1, <2>2
<1>3. CASE ServeSignIn
  BY <1>1, <1>3 DEF ServeSignIn, SetUser
<1>4. ASSUME NEW step \in {"granted", "refused", "fault"}, NEW token,
             AnswerRenewal(step, token), UNCHANGED user
      PROVE  Keychain'
  <2>1. \/ renewal' = renewal
        \/ /\ renewal.step = "served" /\ renewal'.step = step
           /\ renewal'.token = renewal.token
    BY <1>4 DEF AnswerRenewal
  <2> QED
    BY <1>1, <1>4, <2>1
<1>5. ASSUME NEW step \in {"granted", "none"}, NEW token,
             AnswerUser(step, token) \/ UNCHANGED user, UNCHANGED renewal
      PROVE  Keychain'
  BY <1>1, <1>5 DEF AnswerUser
<1> HIDE DEF PhoneTyped, Keychain
<1>6. CASE ServerStep
  BY <1>4, <1>5, <1>6 DEF ServerStep, AnswerConflict
<1> QED
  BY <1>2, <1>3, <1>6 DEF Server

LEMMA KeychainStep ==
    ASSUME PhoneTyped, ~crossed => Keychain, [HandsetNext]_handsetVars
    PROVE  ~crossed' => Keychain'
<1>1. CASE UNCHANGED handsetVars
  BY <1>1 DEF handsetVars, phoneVars, historyVars, Keychain, Crossing, Latest
<1>2. ASSUME HandsetNext, ~crossed' PROVE Keychain'
  <2>1. ~crossed /\ ~Crossing'
    BY <1>2 DEF HandsetNext
  <2> QED
    BY <1>2, <2>1, KeychainPhoneStep, KeychainServerStep DEF HandsetNext
<1> QED
  BY <1>1, <1>2

-----------------------------------------------------------------------------
(* What the phone presents has not been exchanged                          *)

LEMMA NotReplayedPhoneStep ==
    ASSUME PhoneTyped, Keychain, NotReplayed, PhoneStep, ~lost'
    PROVE  NotReplayed'
<1>1. replacedBy' = replacedBy /\ req' = req
  BY DEF sessionVars, rowVars, PhoneStep, Load, FlushStart, FlushLands, FlushRefused, StartRenewal,
     RenewalGranted, RenewalRefused, Adopt, RenewalFailed, RenewalSaved, RenewalNotSaved,
     StartSignIn, SignInFailed, SignInGranted, SignInStored, StartSignOut, SignOutCleared,
     UserWriteRefused, LogoutReaches, LogoutLost, Lock, Kill, SignOut
<1> USE <1>1, HandsetAssumption, SessionAssumption
    DEF PhoneTyped, NotReplayed, Fresh, MaybeToken
<1>2. CASE Load
  BY <1>2 DEF Load
<1>3. CASE FlushStart \/ FlushRefused \/ Lock
  BY <1>3 DEF FlushStart, FlushRefused, Lock
<1>4. CASE FlushLands
  BY <1>4 DEF FlushLands, Keychain
<1>5. CASE StartRenewal
  BY <1>5 DEF StartRenewal
<1>6. CASE RenewalGranted
  BY <1>6 DEF RenewalGranted, Adopt, Keychain
<1>7. CASE RenewalRefused
  BY <1>7 DEF RenewalRefused, Adopt
<1>8. CASE RenewalFailed
  BY <1>8 DEF RenewalFailed, NoRenewal
<1>9. CASE RenewalSaved
  BY <1>9 DEF RenewalSaved, NoRenewal, Keychain
<1>10. CASE RenewalNotSaved
  BY <1>10 DEF RenewalNotSaved, NoRenewal
<1>11. CASE StartSignIn \/ SignInFailed \/ SignInGranted \/ StartSignOut
  BY <1>11 DEF StartSignIn, SignInFailed, SignInGranted, StartSignOut, SetUser
<1>12. CASE SignInStored
  BY <1>12 DEF SignInStored, SetUser, Persisted
<1>13. CASE SignOutCleared
  BY <1>13 DEF SignOutCleared, SetUser, Persisted
<1>14. CASE UserWriteRefused \/ LogoutReaches \/ LogoutLost
  BY <1>14 DEF UserWriteRefused, LogoutReaches, LogoutLost, SetUser
<1>15. CASE Kill
  <2>1. unsaved = Nothing /\ renewal.step \notin {"served", "granted", "saving"}
    BY <1>15 DEF Kill
  <2>2. Fresh(stored)
    BY <2>1 DEF Keychain, Latest
  <2> QED
    BY <1>15, <2>1, <2>2 DEF Kill, NoRenewal, NoUser
<1> QED
  BY <1>2, <1>3, <1>4, <1>5, <1>6, <1>7, <1>8, <1>9, <1>10, <1>11, <1>12, <1>13, <1>14, <1>15
     DEF PhoneStep

LEMMA NotReplayedServerStep ==
    ASSUME TypeInv, Lineage, PhoneTyped, Known, Keychain, NotReplayed, Server
    PROVE  NotReplayed'
<1>1. UNCHANGED <<stored, cached>>
  BY DEF Server
<1>2. renewReq \in Request /\ userReq \in Request /\ elsewhereReq \in Request
  BY HandsetAssumption
<1>3. \A t \in Token : t \notin issued => replacedBy[t] = NoToken
  BY DEF TypeInv, TypeOK, Lineage, ReplayMeansExchanged
(* Steps that exchange nothing and tell the phone nothing of its renewal.  *)
<1>4. ASSUME replacedBy' = replacedBy, renewal' = renewal,
             req'[renewReq] = req[renewReq]
               \/ req'[renewReq].stage \notin {"rotate", "reuse"},
             user'.step \in {"granted", "storing"}
               => (user' = user \/ Fresh(user'.token))
      PROVE  NotReplayed'
  BY <1>1, <1>4 DEF NotReplayed, Fresh
<1>5. CASE ServeRenewal
  <2>1. /\ replacedBy' = replacedBy /\ user' = user /\ renewal.step = "asked"
        /\ cached = renewal.token /\ renewal.token \in Token
        /\ Fresh(renewal.token)
    BY <1>5 DEF ServeRenewal, sessionVars, rowVars, RefreshRead, PhoneTyped, Keychain, Asking, NotReplayed
  <2>2. ~Replayed(renewal.token)
    BY <2>1 DEF Replayed, Fresh
  <2>3. CASE UNCHANGED sessionVars /\ renewal' = [renewal EXCEPT !.step = "refused"]
    <3>1. renewal'.step = "refused" /\ req' = req
      BY <2>3 DEF PhoneTyped, sessionVars
    <3> QED
      BY <1>1, <2>1, <3>1 DEF NotReplayed, Fresh
  <2>4. CASE /\ req' = [req EXCEPT ![renewReq] =
                         [Idle EXCEPT !.stage = "rotate", !.token = renewal.token,
                                      !.console = FALSE]]
             /\ renewal' = [renewal EXCEPT !.step = "served"]
    <3>1. /\ req'[renewReq].stage = "rotate" /\ req'[renewReq].token = renewal.token
      BY <1>2, <2>4 DEF TypeInv, TypeOK, Idle
    <3>2. renewal'.step = "served" /\ renewal'.token = renewal.token
      BY <2>4 DEF PhoneTyped
    <3> QED
      BY <1>1, <2>1, <3>1, <3>2 DEF NotReplayed, Fresh
  <2> QED
    BY <1>5, <2>2, <2>3, <2>4 DEF ServeRenewal, RefreshRead
<1>6. CASE ServeSignIn
  <2>1. replacedBy' = replacedBy /\ renewal' = renewal /\ user'.step = "served"
    BY <1>6 DEF ServeSignIn, SignIn, rowVars, SetUser
  <2>2. PICK takeOver \in BOOLEAN : SignIn(userReq, phone, FALSE, takeOver)
    BY <1>6 DEF ServeSignIn
  <2>3. req'[renewReq] = req[renewReq] \/ req'[renewReq].stage \notin {"rotate", "reuse"}
    BY <1>2, <2>2 DEF SignIn, Idle, TypeInv, TypeOK
  <2> QED
    BY <1>4, <2>1, <2>3
<1>7. ASSUME NEW n \in Token, Rotate(renewReq, n), AnswerRenewal("granted", n), UNCHANGED user
      PROVE  NotReplayed'
  <2>1. /\ renewal.step = "served" /\ req[renewReq].token = renewal.token
        /\ cached = renewal.token /\ renewal.token \in issued /\ renewal.token \in Token
    BY <1>7 DEF Rotate, NotReplayed, Keychain, PhoneTyped, Asking, Known
  <2>2. renewal'.step = "granted" /\ renewal'.got = n
    BY <1>7, <2>1 DEF AnswerRenewal, PhoneTyped
  <2>3. replacedBy'[n] = NoToken
    BY <1>3, <1>7, <2>1 DEF Rotate, CreateRow, TypeInv, TypeOK
  <2>4. req'[renewReq].stage = "idle"
    BY <1>2, <1>7 DEF Rotate, Finish, Idle, TypeInv, TypeOK
  <2>5. cached' # Unread /\ user'.step \notin {"granted", "storing"}
    BY <1>1, <1>7, <2>1, HandsetAssumption, SessionAssumption DEF Keychain, MaybeToken
  <2> QED
    BY <2>2, <2>3, <2>4, <2>5 DEF NotReplayed, Fresh
<1>8. CASE EndReplayedFamily(renewReq)
  BY <1>8 DEF EndReplayedFamily, NotReplayed
<1>9. ASSUME HandlerFails(renewReq), AnswerRenewal("fault", NoToken), UNCHANGED user
      PROVE  NotReplayed'
  <2>1. /\ replacedBy' = replacedBy /\ req'[renewReq].stage = "idle"
        /\ renewal' = renewal \/ (renewal.step = "served" /\ renewal'.step = "fault")
    BY <1>2, <1>9 DEF HandlerFails, Finish, Idle, TypeInv, TypeOK, rowVars, AnswerRenewal, PhoneTyped
  <2> QED
    BY <1>1, <1>9, <2>1 DEF NotReplayed, Fresh
<1>10. ASSUME NEW r \in Request,
              EnforceSingleDevice(r) \/ RetireSameDevice(r) \/ HandlerFails(r)
                \/ (\E n \in Token : IssueSession(r, n))
                \/ (\E d, takeOver : SignIn(r, d, FALSE, takeOver)),
              renewal' = renewal,
              \/ UNCHANGED user
              \/ AnswerUser("none", NoToken)
              \/ \E n \in Token : IssueSession(r, n) /\ AnswerUser("granted", n)
       PROVE  NotReplayed'
  <2> DEFINE Aside ==
        /\ replacedBy' = replacedBy
        /\ req'[renewReq] = req[renewReq] \/ req'[renewReq].stage \notin {"rotate", "reuse"}
  <2>1. Aside
    <3>1. CASE EnforceSingleDevice(r) \/ RetireSameDevice(r) \/ HandlerFails(r)
      BY <1>2, <3>1 DEF EnforceSingleDevice, RetireSameDevice, HandlerFails, GoTo, Finish, Idle,
                        TypeInv, TypeOK, rowVars, Handler
    <3>2. ASSUME NEW n \in Token, IssueSession(r, n)
          PROVE  Aside
      BY <1>2, <3>2 DEF IssueSession, Finish, Idle, TypeInv, TypeOK
    <3>3. ASSUME NEW d, NEW takeOver, SignIn(r, d, FALSE, takeOver)
          PROVE  Aside
      BY <1>2, <3>3 DEF SignIn, Idle, TypeInv, TypeOK, rowVars
    <3> QED
      BY <1>10, <3>1, <3>2, <3>3
  <2>2. user'.step \in {"granted", "storing"} => (user' = user \/ Fresh(user'.token))
    BY <1>3, <1>10, <2>1 DEF AnswerUser, IssueSession, CreateRow, Fresh, PhoneTyped
  <2> QED
    BY <1>4, <1>10, <2>1, <2>2
<1>11. CASE ServerStep
  BY <1>2, <1>7, <1>8, <1>9, <1>10, <1>11, ZenonT(60) DEF ServerStep, AnswerConflict
<1> QED
  BY <1>5, <1>6, <1>11 DEF Server

LEMMA NotReplayedStep ==
    ASSUME TypeInv, Lineage, PhoneTyped, Known, ~crossed => Keychain,
           ~crossed /\ ~lost => NotReplayed, [HandsetNext]_handsetVars
    PROVE  ~crossed' /\ ~lost' => NotReplayed'
<1>1. CASE UNCHANGED handsetVars
  BY <1>1 DEF handsetVars, phoneVars, historyVars, sessionVars, rowVars, NotReplayed, Fresh
<1>2. ASSUME HandsetNext, ~crossed', ~lost' PROVE NotReplayed'
  <2>1. ~crossed
    BY <1>2 DEF HandsetNext
  <2>2. ~lost
    BY <1>2 DEF HandsetNext, Server, PhoneStep, Load, FlushStart, FlushLands, FlushRefused,
     StartRenewal, RenewalGranted, RenewalRefused, Adopt, RenewalFailed, RenewalSaved,
     RenewalNotSaved, StartSignIn, SignInFailed, SignInGranted, SignInStored, StartSignOut,
     SignOutCleared, UserWriteRefused, LogoutReaches, LogoutLost, Lock, Kill
  <2> QED
    BY <1>2, <2>1, <2>2, NotReplayedPhoneStep, NotReplayedServerStep DEF HandsetNext
<1> QED
  BY <1>1, <1>2

-----------------------------------------------------------------------------
(* The invariant and what follows from it                                  *)

LEMMA HandsetInvariant == HandsetSpec => []HandsetInv
<1>1. HandsetInit => HandsetInv
  <2> SUFFICES ASSUME HandsetInit PROVE HandsetInv
    OBVIOUS
  <2> USE HandsetAssumption, SessionAssumption DEF HandsetInit, SessionInit, NoRenewal, NoUser
  <2>1. Known
    BY DEF Known, MaybeToken
  <2>2. RefusedIsDead
    BY DEF RefusedIsDead
  <2>3. Keychain
    BY DEF Keychain, Crossing, Latest, Asking
  <2>4. NotReplayed
    BY DEF NotReplayed, Fresh, Idle, MaybeToken
  <2> QED
    BY <2>1, <2>2, <2>3, <2>4 DEF HandsetInv
<1>2. TypeInv /\ Lineage /\ PhoneTyped /\ HandsetInv /\ [HandsetNext]_handsetVars
        => HandsetInv'
  BY KnownStep, RefusedIsDeadStep, KeychainStep, NotReplayedStep DEF HandsetInv
<1> QED
  BY <1>1, <1>2, PhoneAlwaysTyped, HandsetUsesSessionService, TypeInvariant, LineageHolds, PTL
     DEF HandsetSpec

(* The server takes the phone for a thief only when an answer was lost,    *)
(* the app died before it could save one, or two of the phone's own writes *)
(* crossed: a locked keychain, refusals and server errors never do it      *)
(* (session.ts:139-149).                                                   *)
THEOREM ThiefOnlyAfterLoss == HandsetSpec => []ReplayOnlyAfterLoss
<1>1. HandsetInv => ReplayOnlyAfterLoss
  BY DEF HandsetInv, NotReplayed, ReplayOnlyAfterLoss
<1> QED
  BY <1>1, HandsetInvariant, PTL

(* Unless two writes crossed, a restart finds the session the phone was    *)
(* using as soon as nothing is under way (session.ts:159-193).             *)
THEOREM RestartKeepsSession == HandsetSpec => []RestartFindsSession
<1>1. HandsetInv => RestartFindsSession
  BY DEF HandsetInv, Keychain, Latest, RestartFindsSession
<1> QED
  BY <1>1, HandsetInvariant, PTL

(* Unless two writes crossed, a phone drops a session the server would     *)
(* still honour only when its user signs out (session.ts:320).             *)
THEOREM LiveSessionKept == HandsetSpec => KeepsLiveSession
<1> DEFINE Kept == (cached \in Live /\ cached' = NoToken) => user.step = "clearing" \/ crossed
<1>1. TypeInv /\ PhoneTyped /\ HandsetInv /\ [HandsetNext]_handsetVars => [Kept]_handsetVars
  <2> SUFFICES ASSUME TypeInv, PhoneTyped, HandsetInv, HandsetNext, ~crossed,
                      cached \in Live, cached' = NoToken
               PROVE  user.step = "clearing"
    OBVIOUS
  <2>1. cached \in Token /\ cached # Unread /\ cached # NoToken
    BY HandsetAssumption, SessionAssumption DEF TypeInv, TypeOK, Live, Unrevoked, MaybeToken
  <2>2. CASE Server
    BY <2>1, <2>2 DEF Server
  <2>3. CASE RenewalGranted
    BY <2>3, SessionAssumption DEF RenewalGranted, Adopt, PhoneTyped
  <2>4. CASE RenewalRefused
    BY <2>4 DEF RenewalRefused, HandsetInv, RefusedIsDead, Keychain, Asking
  <2>5. CASE SignInStored
    BY <2>5, SessionAssumption DEF SignInStored, Persisted, PhoneTyped
  <2>6. CASE SignOutCleared
    BY <2>6 DEF SignOutCleared
  <2>7. CASE Kill
    BY <2>7, HandsetAssumption DEF Kill, MaybeToken
  <2> QED
    BY <2>1, <2>2, <2>3, <2>4, <2>5, <2>6, <2>7 DEF HandsetNext, PhoneStep, Load, FlushStart,
       FlushLands, FlushRefused, StartRenewal, RenewalFailed, RenewalSaved, RenewalNotSaved,
       StartSignIn, SignInFailed, SignInGranted, StartSignOut, UserWriteRefused,
       LogoutReaches, LogoutLost, Lock
<1> QED
  BY <1>1, HandsetInvariant, PhoneAlwaysTyped, HandsetUsesSessionService, TypeInvariant, PTL
     DEF HandsetSpec, KeepsLiveSession
=============================================================================
