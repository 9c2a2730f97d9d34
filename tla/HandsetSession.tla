--------------------------- MODULE HandsetSession ---------------------------
(***************************************************************************)
(* One phone's copy of its session, mobile/src/auth/session.ts, composed   *)
(* with the handlers of SessionService over a network that loses requests  *)
(* and answers.                                                            *)
(*                                                                         *)
(* The phone runs one JavaScript thread, so what lies between two awaits   *)
(* is one action.  A keychain write is two: it is begun, and later it      *)
(* lands or is refused; writes begun together may land in either order.    *)
(* An iPhone's keychain refuses only off screen; a phone that never leaves *)
(* onScreen is Android.  Reading the keychain is one action.               *)
(***************************************************************************)
EXTENDS SessionService

CONSTANTS
    phone,        \* this phone's deviceId
    renewReq,     \* the handler that serves its renewals
    userReq,      \* the handler that serves its sign-ins and sign-outs
    elsewhereReq, \* the handler that serves another phone's sign-in
    Unread,       \* cached: undefined, nothing read from the keychain yet
    Nothing       \* no unsaved answer, no write under way

ASSUME HandsetAssumption ==
    /\ phone \in Device
    /\ {renewReq, userReq, elsewhereReq} \subseteq Request
    /\ Unread \notin MaybeToken
    /\ Nothing \notin MaybeToken

VARIABLES
    stored,     \* the refresh token in the keychain
    cached,     \* the module variable `cached`
    unsaved,    \* the module variable `unsaved`
    flush,      \* what saveUnsaved is writing
    renewal,    \* inFlightRefresh: [step, token, got]
    user,       \* the sign-in or sign-out under way: [step, token]
    onScreen,   \* AppState is active
    signedIn,   \* history: the user's last completed wish was to be signed in
    crossed,    \* history: see Crossing
    lost        \* history: an answer that rotated the token was lost

phoneVars   == <<stored, cached, unsaved, flush, renewal, user, onScreen>>
historyVars == <<signedIn, crossed, lost>>
handsetVars == <<sessionVars, phoneVars, historyVars>>

MaySaveNow == onScreen

RenewalStep == {"none", "asked", "served", "granted", "refused", "fault", "saving"}
UserStep == {"none", "asked", "served", "granted", "storing", "clearing", "leaving"}

NoRenewal == [step |-> "none", token |-> NoToken, got |-> NoToken]
NoUser    == [step |-> "none", token |-> NoToken]

(* Two keychain writes are under way at once, or a sign-in or sign-out is  *)
(* being written while a renewal is out.  Nothing in the code orders them. *)
Crossing ==
    \/ /\ user.step \in {"storing", "clearing"}
       /\ renewal.step # "none" \/ flush # Nothing
    \/ renewal.step = "saving" /\ flush # Nothing

-----------------------------------------------------------------------------
(* Reading, renewing and saving *)

Load ==
    /\ cached = Unread
    /\ cached' = stored
    /\ UNCHANGED <<sessionVars, stored, unsaved, flush, renewal, user, onScreen,
                   signedIn, lost>>

(* saveUnsaved, at the head of every getSession *)
FlushStart ==
    /\ unsaved # Nothing /\ MaySaveNow
    /\ flush = Nothing
    /\ flush' = unsaved
    /\ UNCHANGED <<sessionVars, stored, cached, unsaved, renewal, user, onScreen,
                   signedIn, lost>>

FlushLands ==
    /\ flush # Nothing
    /\ stored' = flush
    /\ unsaved' = IF unsaved = flush THEN Nothing ELSE unsaved
    /\ flush' = Nothing
    /\ UNCHANGED <<sessionVars, cached, renewal, user, onScreen, signedIn, lost>>

FlushRefused ==
    /\ flush # Nothing /\ ~onScreen
    /\ flush' = Nothing
    /\ UNCHANGED <<sessionVars, stored, cached, unsaved, renewal, user, onScreen,
                   signedIn, lost>>

(* getSession or renewSessionAhead finds the access token near its end.    *)
(* Callers share one renewal, and none starts where it could not be saved. *)
StartRenewal ==
    /\ cached \in Token
    /\ MaySaveNow
    /\ renewal.step = "none"
    /\ req[renewReq].stage = "idle"
    /\ renewal' = [step |-> "asked", token |-> cached, got |-> NoToken]
    /\ UNCHANGED <<sessionVars, stored, cached, unsaved, flush, user, onScreen,
                   signedIn, lost>>

(* Mutant of Adopt: the renewed session is not used until it is read back. *)
AdoptOnlySaving(token) ==
    /\ renewal' = [renewal EXCEPT !.step = "saving", !.got = token]
    /\ UNCHANGED <<sessionVars, stored, cached, unsaved, flush, user, onScreen,
                   signedIn, lost>>

(* adopt: what the server answered is used at once and then saved. *)
Adopt(token) ==
    /\ cached' = token
    /\ renewal' = [renewal EXCEPT !.step = "saving", !.got = token]
    /\ UNCHANGED <<sessionVars, stored, unsaved, flush, user, onScreen,
                   signedIn, lost>>

RenewalGranted == renewal.step = "granted" /\ Adopt(renewal.got)

(* Mutant of RenewalRefused: a 5xx ends the session too. *)
RenewalRefusedOrFaulty == renewal.step \in {"refused", "fault"} /\ Adopt(NoToken)

(* Only a 401 or 403 ends the session... *)
RenewalRefused == renewal.step = "refused" /\ Adopt(NoToken)

(* ...a 5xx, or no answer at all, leaves it as it was. *)
RenewalFailed ==
    /\ renewal.step \in {"asked", "served", "granted", "refused", "fault"}
    /\ renewal' = NoRenewal
    /\ lost' = (lost \/ renewal.step \in {"served", "granted"})
    /\ UNCHANGED <<sessionVars, stored, cached, unsaved, flush, user, onScreen,
                   signedIn>>

RenewalSaved ==
    /\ renewal.step = "saving"
    /\ stored' = renewal.got
    /\ unsaved' = Nothing
    /\ renewal' = NoRenewal
    /\ UNCHANGED <<sessionVars, cached, flush, user, onScreen, signedIn, lost>>

(* Mutant of RenewalNotSaved: the answer is not held for the next save. *)
RenewalForgotten ==
    /\ renewal.step = "saving" /\ ~onScreen
    /\ renewal' = NoRenewal
    /\ UNCHANGED <<sessionVars, stored, cached, unsaved, flush, user, onScreen,
                   signedIn, lost>>

RenewalNotSaved ==
    /\ renewal.step = "saving" /\ ~onScreen
    /\ unsaved' = renewal.got
    /\ renewal' = NoRenewal
    /\ UNCHANGED <<sessionVars, stored, cached, flush, user, onScreen, signedIn, lost>>

-----------------------------------------------------------------------------
(* Signing in and out *)

SetUser(step, token) == user' = [step |-> step, token |-> token]

StartSignIn ==
    /\ user.step = "none" /\ onScreen
    /\ cached = NoToken
    /\ req[userReq].stage = "idle"
    /\ SetUser("asked", NoToken)
    /\ UNCHANGED <<sessionVars, stored, cached, unsaved, flush, renewal, onScreen,
                   signedIn, lost>>

(* Refused, conflicting, faulty or unreachable: signIn throws. *)
SignInFailed ==
    /\ user.step \in {"asked", "served", "granted"}
    /\ SetUser("none", NoToken)
    /\ UNCHANGED <<sessionVars, stored, cached, unsaved, flush, renewal, onScreen,
                   signedIn, lost>>

SignInGranted ==
    /\ user.step = "granted"
    /\ SetUser("storing", user.token)
    /\ UNCHANGED <<sessionVars, stored, cached, unsaved, flush, renewal, onScreen,
                   signedIn, lost>>

(* persist: saved first, published after. *)
Persisted(token) ==
    /\ stored' = token
    /\ unsaved' = Nothing
    /\ cached' = token

SignInStored ==
    /\ user.step = "storing"
    /\ Persisted(user.token)
    /\ SetUser("none", NoToken)
    /\ signedIn' = TRUE
    /\ UNCHANGED <<sessionVars, flush, renewal, onScreen, lost>>

StartSignOut ==
    /\ user.step = "none"
    /\ cached \in Token
    /\ SetUser("clearing", cached)
    /\ UNCHANGED <<sessionVars, stored, cached, unsaved, flush, renewal, onScreen,
                   signedIn, lost>>

SignOutCleared ==
    /\ user.step = "clearing"
    /\ Persisted(NoToken)
    /\ SetUser("leaving", user.token)
    /\ signedIn' = FALSE
    /\ UNCHANGED <<sessionVars, flush, renewal, onScreen, lost>>

(* The keychain refused: persist throws and nothing was published. *)
UserWriteRefused ==
    /\ user.step \in {"storing", "clearing"} /\ ~onScreen
    /\ SetUser("none", NoToken)
    /\ UNCHANGED <<sessionVars, stored, cached, unsaved, flush, renewal, onScreen,
                   signedIn, lost>>

LogoutReaches ==
    /\ user.step = "leaving"
    /\ SignOut(userReq, user.token)
    /\ SetUser("none", NoToken)
    /\ UNCHANGED <<stored, cached, unsaved, flush, renewal, onScreen, signedIn, lost>>

LogoutLost ==
    /\ user.step = "leaving"
    /\ SetUser("none", NoToken)
    /\ UNCHANGED <<sessionVars, stored, cached, unsaved, flush, renewal, onScreen,
                   signedIn, lost>>

-----------------------------------------------------------------------------
(* The phone itself *)

Lock ==
    /\ onScreen' = ~onScreen
    /\ UNCHANGED <<sessionVars, stored, cached, unsaved, flush, renewal, user,
                   signedIn, lost>>

(* Mutant of Kill: unsaved starts as "not read yet". *)
KillLeavingUnread ==
    /\ cached' = Unread
    /\ unsaved' = Unread /\ flush' = Nothing
    /\ renewal' = NoRenewal /\ user' = NoUser
    /\ lost' = (lost \/ unsaved # Nothing
                     \/ renewal.step \in {"served", "granted", "saving"})
    /\ UNCHANGED <<sessionVars, stored, onScreen, signedIn>>

(* The process ends: module variables go, writes not landed are not made.  *)
Kill ==
    /\ cached' = Unread
    /\ unsaved' = Nothing /\ flush' = Nothing
    /\ renewal' = NoRenewal /\ user' = NoUser
    /\ lost' = (lost \/ unsaved # Nothing
                     \/ renewal.step \in {"served", "granted", "saving"})
    /\ UNCHANGED <<sessionVars, stored, onScreen, signedIn>>

-----------------------------------------------------------------------------
(* The server, and the answer it sends.  An answer to a call the phone has *)
(* given up on reaches nobody.                                             *)

AnswerRenewal(step, token) ==
    renewal' = IF renewal.step = "served"
               THEN [renewal EXCEPT !.step = step, !.got = token]
               ELSE renewal

AnswerUser(step, token) ==
    user' = IF user.step = "served" THEN [step |-> step, token |-> token]
                                    ELSE user

(* enforceSingleDevice answers 409 when it does not send the sign-in on. *)
AnswerConflict ==
    IF req'[userReq].stage = "idle" THEN AnswerUser("none", NoToken)
                                    ELSE UNCHANGED user

ServeRenewal ==
    /\ renewal.step = "asked"
    /\ \/ /\ RefreshRead(renewReq, renewal.token, FALSE)
          /\ renewal' = [renewal EXCEPT !.step = "served"]
       \/ /\ ~Replayed(renewal.token) /\ ~Exchangeable(renewal.token)
          /\ renewal' = [renewal EXCEPT !.step = "refused"]
          /\ UNCHANGED sessionVars
    /\ UNCHANGED user

ServeSignIn ==
    /\ user.step = "asked"
    /\ \E takeOver \in BOOLEAN : SignIn(userReq, phone, FALSE, takeOver)
    /\ SetUser("served", NoToken)
    /\ UNCHANGED renewal

ServerStep ==
    \/ \E n \in Token : /\ Rotate(renewReq, n)
                        /\ AnswerRenewal("granted", n)
                        /\ UNCHANGED user
    \/ EndReplayedFamily(renewReq) /\ AnswerRenewal("refused", NoToken) /\ UNCHANGED user
    \/ HandlerFails(renewReq) /\ AnswerRenewal("fault", NoToken) /\ UNCHANGED user
    \/ EnforceSingleDevice(userReq) /\ AnswerConflict /\ UNCHANGED renewal
    \/ RetireSameDevice(userReq) /\ UNCHANGED <<renewal, user>>
    \/ HandlerFails(userReq) /\ AnswerUser("none", NoToken) /\ UNCHANGED renewal
    \/ \E n \in Token : /\ IssueSession(userReq, n)
                        /\ AnswerUser("granted", n)
                        /\ UNCHANGED renewal
    \/ /\ \/ \E d \in Device \ {phone}, takeOver \in BOOLEAN :
                SignIn(elsewhereReq, d, FALSE, takeOver)
          \/ EnforceSingleDevice(elsewhereReq)
          \/ RetireSameDevice(elsewhereReq)
          \/ \E n \in Token : IssueSession(elsewhereReq, n)
       /\ UNCHANGED <<renewal, user>>

Server ==
    /\ ServeRenewal \/ ServeSignIn \/ ServerStep
    /\ UNCHANGED <<stored, cached, unsaved, flush, onScreen, signedIn, lost>>

-----------------------------------------------------------------------------
HandsetInit ==
    /\ SessionInit /\ technician
    /\ stored = NoToken
    /\ cached = Unread
    /\ unsaved = Nothing
    /\ flush = Nothing
    /\ renewal = NoRenewal
    /\ user = NoUser
    /\ onScreen = TRUE
    /\ signedIn = FALSE /\ crossed = FALSE /\ lost = FALSE

PhoneStep ==
    \/ Load \/ FlushStart \/ FlushLands \/ FlushRefused
    \/ StartRenewal \/ RenewalGranted \/ RenewalRefused \/ RenewalFailed
    \/ RenewalSaved \/ RenewalNotSaved
    \/ StartSignIn \/ SignInFailed \/ SignInGranted \/ SignInStored
    \/ StartSignOut \/ SignOutCleared \/ UserWriteRefused
    \/ LogoutReaches \/ LogoutLost
    \/ Lock \/ Kill

HandsetNext ==
    /\ PhoneStep \/ Server
    /\ crossed' = (crossed \/ Crossing')

HandsetSpec == HandsetInit /\ [][HandsetNext]_handsetVars

-----------------------------------------------------------------------------
HandsetTypeOK ==
    /\ TypeOK
    /\ stored \in MaybeToken
    /\ cached \in MaybeToken \cup {Unread}
    /\ unsaved \in MaybeToken \cup {Nothing}
    /\ flush \in MaybeToken \cup {Nothing}
    /\ renewal \in [step : RenewalStep, token : MaybeToken, got : MaybeToken]
    /\ user \in [step : UserStep, token : MaybeToken]
    /\ {onScreen, signedIn, crossed, lost} \subseteq BOOLEAN

(* The phone is taken for a thief only when an answer was lost or the app  *)
(* died before it could save one (session.ts:139-149), or when two writers *)
(* of the session crossed.  A locked keychain alone never does it.         *)
ReplayOnlyAfterLoss ==
    req[renewReq].stage = "reuse" => lost \/ crossed

(* A phone lets go of a session only on sign-out or once the server no     *)
(* longer honours it, or after two writers of the session crossed: "Only   *)
(* the API's own refusal ends a session" (session.ts:320).                 *)
KeepsLiveSession ==
    [][(cached \in Live /\ cached' = NoToken)
          => user.step = "clearing" \/ crossed]_handsetVars

(* Between operations the keychain holds what the phone is using, so a     *)
(* restart changes nothing, as long as two writers of the session have not *)
(* crossed (session.ts:159-193).                                           *)
RestartFindsSession ==
    cached # Unread /\ renewal.step = "none" /\ user.step = "none"
        /\ flush = Nothing /\ unsaved = Nothing
    => stored = cached \/ crossed

(* Signed out means signed out, whatever else was going on: "A technician  *)
(* signing out on a shared handset in a unit with no signal must still be  *)
(* signed out" (session.ts:438-439).                                       *)
SignedOutStays ==
    ~signedIn => cached \notin Token
=============================================================================
