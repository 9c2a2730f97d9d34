---------------------------- MODULE SessionOverlap ----------------------------
(***************************************************************************)
(* SessionService, with a history of whether its handlers have crossed.    *)
(*                                                                         *)
(* A sign-in judges the other sessions, awaits, and creates its own row    *)
(* afterwards (session.service.ts:275-333); an exchange reads its row and  *)
(* retires it in a later transaction (:155-203).  What the comments        *)
(* promise of devices and passwords holds until another handler changes    *)
(* the rows between the two.  Handlers may be under way together without   *)
(* crossing: what counts is a write under a handler's feet.                *)
(***************************************************************************)
EXTENDS SessionService

VARIABLE overlapped   \* history: rows have changed under a waiting handler

overlapVars == <<sessionVars, overlapped>>

(* What a waiting handler may have read. *)
judged == <<issued, revoked, password>>

ChangedUnder(r) ==
    /\ req[r].stage # "idle" /\ req'[r] = req[r]
    /\ judged' # judged

OverlapInit == SessionInit /\ overlapped = FALSE

OverlapNext ==
    /\ SessionNext
    /\ overlapped' = (overlapped \/ \E r \in Request : ChangedUnder(r))

OverlapSpec == OverlapInit /\ [][OverlapNext]_overlapVars

-----------------------------------------------------------------------------
(* Until handlers have crossed, a technician has one live handset session: *)
(* "Holds a technician to one signed-in device" (session.service.ts:253).  *)
OneHandsetUncrossed == ~overlapped => OneHandset

(* Until handlers have crossed, no live session was opened with an older   *)
(* password (session.service.ts:232-235).                                  *)
PasswordEndsSessionsUncrossed == ~overlapped => PasswordEndsSessions

(* Until handlers have crossed, a refresh token buys one successor         *)
(* (session.service.ts:123-131).                                           *)
SingleUseUncrossed == ~overlapped => SingleUse

(* Until handlers have crossed, a sign-in that was not told to take over   *)
(* ends no live session of another handset: "Refusing rather than          *)
(* evicting" (session.service.ts:269-271).                                 *)
NoEvictionUncrossed ==
    [][\A r \in Request :
          ~overlapped /\ req[r].stage = "retire" /\ req'[r].stage = "issue"
          => LiveHandsets \cap (revoked' \ revoked)
               \subseteq {t \in issued : deviceOf[t] = req[r].device}]_sessionVars
=============================================================================
